SPECIFICATION FairSpec
CONSTANTS
    Threads = {t1, t2}
    MaxInstances = 3
    MaxCallbacks = 3
INVARIANTS TypeOK Singleton OwnReceiver SenderHeld TraceInside AppInv
PROPERTY LetsNextIn
CHECK_DEADLOCK FALSE
