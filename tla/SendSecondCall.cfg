SPECIFICATION Spec
CONSTANTS
    Codecs = {c1, c2}
    MaxQueue = 2
    IdMod = 32
    FirstId = 1
    EpochMod = 4
    FirstEpoch = 1
    MaxUnits = 3
    MaxRestarts = 0
    MaxOpens = 2
INVARIANT RemoteStartsWithKeyframe
CHECK_DEADLOCK FALSE
