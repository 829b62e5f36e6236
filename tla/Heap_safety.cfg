CONSTANTS
    ARENA = 22
    HDR = 4
    ALIGN = 2
    SIZE_MOD = 32
    Requests <- SomeRequests
SPECIFICATION FairSpec
INVARIANTS
    Tiled
    HoldersDisjoint
    UsedMeansHeld
    LargeEnough
    Coalesced
PROPERTY
    FreeReturns
