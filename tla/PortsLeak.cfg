SPECIFICATION Spec
CONSTANTS
    Ports = {p1}
    Slots = {s1, s2}
    NoPort = NoPort
    MaxAdds = 2
INVARIANT PoolsHeld
CHECK_DEADLOCK FALSE
