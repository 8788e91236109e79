SPECIFICATION Spec
CONSTANTS
    Slots = {0, 1}
    Threads = {t1, t2}
    Configs <- MCConfigs
    None = None
    MaxAdds = 2
INVARIANT NoAbort
CHECK_DEADLOCK FALSE
