SPECIFICATION FairSpec
CONSTANTS
    Values <- MCValues
    Ints <- MCInts
    Params <- MCParams
    Operands <- MCOperands
    Calls <- MCCalls
INVARIANTS FindsAllRelated
CHECK_DEADLOCK FALSE
