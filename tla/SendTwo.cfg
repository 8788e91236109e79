SPECIFICATION Spec
CONSTANTS
    Codecs = {c1, c2}
    MaxQueue = 1
    IdMod = 32
    FirstId = 30
    EpochMod = 4
    FirstEpoch = 3
    MaxUnits = 3
    MaxRestarts = 1
    MaxOpens = 2
SYMMETRY CodecSymmetry
INVARIANTS FrontChain KeyedSound CallChain
CHECK_DEADLOCK FALSE
