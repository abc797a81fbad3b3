CONSTANTS
    N = 3
    Trace <- MCTrace3
    Grid <- MCGrid
    Times = {1, 2}
    Errs = {1, 2}
    Threshold = 1
    Graphs <- MCGraphs3
    MayAbort = FALSE
    MaxSessions = 1
SPECIFICATION Spec
INVARIANTS
    TypeOK
    EachTunedOnce
    ShipsWhatWasChecked
PROPERTIES
    OneLevelPerPass
    RepairGoesBack
    BansKept
    ImplementsPlan
