SPECIFICATION FairSpec
CONSTANTS
    Slots = {0, 1}
    Threads = {t1, t2}
    Configs <- MCConfigs
    None = None
    MaxAdds = 2
INVARIANTS TypeOK NeverStuck
PROPERTY Recovers
CHECK_DEADLOCK FALSE
