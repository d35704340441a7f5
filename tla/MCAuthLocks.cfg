SPECIFICATION FairAuthSpec
CONSTANTS
    Tab = {t1, t2}
    User = {u1}
    Session = {s1, s2}
    Lifetime = 1
    None = None
    LocksAvailable = TRUE
    MaxCalls = 2
    MaxTime = 0
    MaxFetches = 1
    MaxDisruptions = 1
INVARIANTS TabsSerialized
PROPERTIES RefreshSettles
CHECK_DEADLOCK FALSE
