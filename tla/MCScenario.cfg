SPECIFICATION FairSpec
CONSTANTS
    Kinds <- MCKinds
    WaitLimit = 5
    Settle = 1
    CaptureSeconds = 3
    ClientLimit = 30
    StopLimit = 5
    JoinLimit = 5
    IdleLimit = 5
INVARIANTS
    NoOrphans
    OnlyUndialledProxyOutlives
    RecordIsSound
    CaptureBeganFirst
PROPERTIES
    ScenarioEnds
CHECK_DEADLOCK FALSE
