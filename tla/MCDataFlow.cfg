SPECIFICATION FairSpec
CONSTANTS
    Values <- MCValues
    Ints <- MCInts
    Params <- MCParams
    Operands <- MCOperands
    Calls <- MCCalls
INVARIANTS IInv NumbersAgree FindsOnlyRelated FindsAllWithoutConflict
PROPERTIES AnalysisEnds ComesCloserToItsEnd
CHECK_DEADLOCK FALSE
