SPECIFICATION FairSpec
CONSTANTS
    Ports = {p1, p2}
    Slots = {s1, s2}
    NoPort = NoPort
    MaxAdds = 4
INVARIANTS TypeOK NoUseAfterFree RemovalsOwned PortInv
PROPERTIES Freed SharedSpec
CHECK_DEADLOCK FALSE
