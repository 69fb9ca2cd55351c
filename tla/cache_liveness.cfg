SPECIFICATION FairSpec
CONSTANTS
    Calls = {c1, c2, c3}
    NoCall = NoCall
    k1 = k1
    k2 = k2
    Keys = {k1, k2, k3}
    Nests <- OneLevel
    OptionSets = {{"coalesce_misses", "cache_exceptions"}}
    BackendMayFail = TRUE
    MayHang = {k3}
    TTL <- None
    MaxSize <- None
    RefreshTTL = FALSE
    MaxTime = 0
    MaxClears = 0
PROPERTIES EveryCallReturns WaitersShareResult
