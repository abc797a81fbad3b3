SPECIFICATION Spec
CONSTANTS
    N = 3
    Unreached = 1
    Maps <- MCMaps
    Choices <- MCChoices
INVARIANT IInv
PROPERTIES RepairsInOneStep WorkShrinks
CHECK_DEADLOCK FALSE
