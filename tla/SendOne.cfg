SPECIFICATION FairSpec
CONSTANTS
    Codecs = {c1}
    MaxQueue = 2
    IdMod = 32
    FirstId = 30
    EpochMod = 4
    FirstEpoch = 3
    MaxUnits = 3
    MaxRestarts = 1
    MaxOpens = 2
INVARIANTS TypeOK QueueChain ConsumedLeaves RemoteChain SendInv
PROPERTIES StreamSpec Drains StartsAfterOpen
CHECK_DEADLOCK FALSE
