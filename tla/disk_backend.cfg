SPECIFICATION Spec
CONSTANTS
    c1 = c1
    c2 = c2
    b1 = b1
    b2 = b2
    Clients = {c1, c2}
    Keys = {k1, k2, k3}
    Contents = {v1, v2}
    Corrupt = Corrupt
    Backends = {b1, b2}
    Types = {"pickle", "json"}
    MaxSize = 2
    Limits = {1, 2}
    Lag = 1
    EndTime = 2
    Setups <- Sharing
SYMMETRY Symmetry
INVARIANTS TypeOK NeverOverstays SizeBounded NoGhosts LockHolds
PROPERTIES EvictsLeastRecent KeepsServable ImplementsContract
CHECK_DEADLOCK FALSE
