SPECIFICATION Spec
CONSTANTS
    CallIds = {c1}
    Threads = {t1, t2}
    NoVideo = NoVideo
INVARIANTS TypeOK SetupKept FreshOffer
PROPERTY HoldKept
CHECK_DEADLOCK FALSE
