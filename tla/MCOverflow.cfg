CONSTANTS
    Dims <- MCSquare
    MaxLines = 2
    OpsA = {"N"}
    OpsB = {"N"}
    Params <- MCParams
    IntMax = 31
    Widens = FALSE
    DeviceMemory = 4000
SPECIFICATION Spec
INVARIANTS
    InsidePool
