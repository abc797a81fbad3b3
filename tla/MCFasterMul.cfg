CONSTANTS
    Dims <- MCDims
    MaxLines = 2
    OpsA = {"N", "T"}
    OpsB = {"N"}
    Params <- MCParams
    IntMax = 1023
    Widens = FALSE
    DeviceMemory = 1000
SPECIFICATION Spec
INVARIANTS
    IInv
    InsidePool
    ResultIsSum
