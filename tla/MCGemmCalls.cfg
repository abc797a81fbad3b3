SPECIFICATION Spec
CONSTANTS
    Sites = {1, 2}
    Buffers = {"A", "B", "C", "D"}
    Prog <- MCInPlace
    Traces <- MCTraces
    Triples <- MCTriples
    LeftOver <- MCLeftOver
    MaxExecutions = 3
INVARIANT IInv
PROPERTIES ImplementsMixedPrecision RecordsOfCall ReferenceOfSameCall
CHECK_DEADLOCK FALSE
