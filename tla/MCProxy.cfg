SPECIFICATION FairSpec
CONSTANTS
    Sessions <- MCSessions
    RecvMax = 3
INVARIANTS
    InOrder
    FirstMatchOnly
    LogIsEvidence
    EofLast
    CleanEndDelivers
PROPERTIES
    ImplementsSplice
    LoopEnds
    QueuedIsRelayed
CHECK_DEADLOCK FALSE
