SPECIFICATION FairSpec
CONSTANTS
    PlayerIds = {p1}
    LoopCallbacks = FALSE
    MaxCreates = 2
    MaxBoxes = 2
    MaxPosted = 1
    Configs <- MCConfigs
    None = None
    CUintMod = 8
    AuHdrSize = 2
    Users = {u1, u2}
    MaxInstalls = 2
    MaxApps = 2
INVARIANTS TypeOK BoxAlive Cleaned Served Fits Offered RegisteredOnce OffersCurrent
PROPERTY Reported
CHECK_DEADLOCK FALSE
