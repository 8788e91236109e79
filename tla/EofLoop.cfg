SPECIFICATION PlayersSpec
CONSTANTS
    PlayerIds = {p1}
    LoopCallbacks = TRUE
    MaxCreates = 1
    MaxBoxes = 1
    MaxPosted = 2
INVARIANT BoxAlive
CHECK_DEADLOCK FALSE
