SPECIFICATION Spec
CONSTANTS
    Campaigns <- MCCampaigns
    Packages <- MCPackages
    Unpackaged = {"smoke", "batch"}
INVARIANTS
    GridComplete
    VerifiedIsComplete
    CompleteIsVerified
CHECK_DEADLOCK FALSE
