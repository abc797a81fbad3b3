SPECIFICATION Spec
CONSTANTS
    N = 2
    Trace <- MCTrace
    Tries <- MCTries
    Times = {1, 2}
    Errs = {1, 2}
    Unreadable = unreadable
    Threshold = 1
INVARIANTS IInv ReadersKnow NeverWithoutFp32 GivesAllReadable
PROPERTY ReadsInOneStep
CHECK_DEADLOCK FALSE
