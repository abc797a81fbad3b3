SPECIFICATION Spec
CONSTANTS
    Sites = {1, 2}
    Buffers = {"A", "B", "C", "D"}
    Prog <- MCOutOfPlace
    Traces <- MCOnce
    Triples <- MCTriples
    LeftOver = {}
    MaxExecutions = 1
PROPERTY WrapperReplacesGemmEx
CHECK_DEADLOCK FALSE
