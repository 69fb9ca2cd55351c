SPECIFICATION FairSpec
CONSTANTS
    Callers = {c1, c2, c3}
    FailureThreshold = 2
    ResetTimeout = 2
INVARIANTS TypeOK StateConsistent FailureCountBounded
PROPERTIES Recovery ImplementsContract
