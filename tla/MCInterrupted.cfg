CONSTANTS
    N = 2
    Trace <- MCTrace2
    Grid <- MCGridSkipped
    Times = {1, 2}
    Errs = {1, 2}
    Threshold = 1
    Graphs <- MCGraphs2
    MayAbort = TRUE
    MaxSessions = 2
SPECIFICATION FairSpec
INVARIANTS
    IInv
    TunedInOrder
    OneEntryPerGemm
    RepairReadsOnlyTuned
    ShipsNothingElse
    GatheredFromCode
PROPERTIES
    NeverLessPrecise
    FailedIsUpgraded
    BansLostOnlyInPass
    ListUnchangedInLoop
    ImplementsPlan
    EventuallyDone
