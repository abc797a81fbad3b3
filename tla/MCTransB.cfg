CONSTANTS
    Dims <- MCDims
    MaxLines = 2
    OpsA = {"N", "T"}
    OpsB = {"T"}
    Params <- MCParams
    IntMax = 1023
    Widens = FALSE
    DeviceMemory = 1000
CHECK_DEADLOCK FALSE
SPECIFICATION Spec
INVARIANTS
    ResultIsSum
