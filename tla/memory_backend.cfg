SPECIFICATION Spec
CONSTANTS
    Clients = {c1, c2}
    Keys = {k1, k2, k3}
    Payloads = {p}
    TTL = 2
    MaxSize = 2
    RefreshTTL = TRUE
    MaxTime = 3
    MaxCalls = 5
SYMMETRY Symmetry
INVARIANTS TypeOK NeverOverstays
PROPERTIES EvictsLeastRecent ImplementsContract
CHECK_DEADLOCK FALSE
