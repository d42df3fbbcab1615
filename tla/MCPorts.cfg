SPECIFICATION Spec
CONSTANTS
    Runners <- MCRivals
    MaxTurns = 3
INVARIANTS
    OwnOrEarlierCampaign
    CheckedIsOwn
    OwnProxy
    LeakIsLast
CHECK_DEADLOCK FALSE
