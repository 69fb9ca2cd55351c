SPECIFICATION Spec
CONSTANTS
    Calls = {c1, c2, c3}
    NoCall = NoCall
    k1 = k1
    k2 = k2
    Keys = {k1, k2}
    Nests <- OneLevel
    OptionSets = {{"coalesce_misses"}, {"cache_exceptions"}}
    BackendMayFail = TRUE
    MayHang = {}
    TTL = 1
    MaxSize = 1
    RefreshTTL = FALSE
    MaxTime = 2
    MaxClears = 1
SYMMETRY Symmetry
INVARIANTS TypeOK MarkersExact NoLostWakeup Provenance
