CONSTANTS
    Slots <- MCSlots
    FaultTypes = {"negotiation-function", "client-default", "default-direct", "server-software", "client-default-v18"}
    Offers <- MCOffers
    Configs = {"C1", "C2"}
    Older <- MCOlder
    MaxLost = 1
    MaxDeaths = 1
SPECIFICATION Spec
INVARIANTS
    NothingInvented
    WrongClassOnlyBy
    LabelsRepaired
    CountsSound
    OneRowPerOffer
PROPERTY
    WalkEnds
CHECK_DEADLOCK FALSE
