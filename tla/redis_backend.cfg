SPECIFICATION Spec
CONSTANTS
    c1 = c1
    c2 = c2
    Clients = {c1, c2}
    Keys = {k1, k2, k3}
    Contents = {v1, v2}
    Foreign = Foreign
    MaxSize = 2
    MaxCalls <- Sharing
SYMMETRY Symmetry
INVARIANTS TypeOK LatestUnlessOverlapped SizeBounded
PROPERTIES EvictsLeastRecent ImplementsContract
CHECK_DEADLOCK FALSE
