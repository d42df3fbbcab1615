CONSTANTS
    Slots <- MCSlots
    FaultTypes = {"client-default-v18"}
    Offers <- MCOffers
    Configs = {"C1", "C2"}
    Older <- MCOlder
    MaxLost = 1
    MaxDeaths = 1
SPECIFICATION Spec
INVARIANT
    OmitsHybridShare
CHECK_DEADLOCK FALSE
