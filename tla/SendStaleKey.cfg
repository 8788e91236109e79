SPECIFICATION Spec
CONSTANTS
    Codecs = {c1}
    MaxQueue = 2
    IdMod = 32
    FirstId = 1
    EpochMod = 4
    FirstEpoch = 1
    MaxUnits = 3
    MaxRestarts = 1
    MaxOpens = 1
INVARIANT NothingUntilKeyframe
CHECK_DEADLOCK FALSE
