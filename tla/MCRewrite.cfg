SPECIFICATION Spec
CONSTANTS
    ClientHellos <- MCClientHellos
    ServerHellos <- MCServerHellos
    KexLists <- MCKexLists
    Blobs <- MCBlobs
    Behind = {0, 11}
INVARIANTS
    StripIsReencoding
    KexListShortened
    ForgeInvertsOnlyPq
    ChangedIffApplicable
    CaptureReadsWire
CHECK_DEADLOCK FALSE
