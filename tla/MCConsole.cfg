SPECIFICATION Spec
CONSTANTS
    t1 = t1
    t2 = t2
    Caller = {t1, t2}
    Reader = {t1, t2}
    None = none
    Ttl = 1
    FetchTime = 1
    Lifetime = 1
    Margin = 0
    MaxFaults = 1
    Case = {1, 2, 3}
    MaxClock = 1
    Scene <- MCScene
INVARIANTS KeysFollowProvider RotatedTokenRetired PagesComplete
PROPERTIES RequestsAnswered
CHECK_DEADLOCK FALSE
