SPECIFICATION Spec
CONSTANTS
    Kinds <- MCCaptured
    WaitLimit = 5
    Settle = 1
    CaptureSeconds = 3
    ClientLimit = 30
    StopLimit = 5
    JoinLimit = 5
    IdleLimit = 5
INVARIANTS
    CaptureStabilized
CHECK_DEADLOCK FALSE
