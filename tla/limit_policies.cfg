SPECIFICATION Spec
CONSTANTS
    c1 = c1
    c2 = c2
    b1 = b1
    b2 = b2
    Callers = {c1, c2}
    Buckets = {b1, b2}
    Costs = {1, 2, 3}
    Setups <- Policies
SYMMETRY Symmetry
INVARIANTS TypeOK CallsPerPeriod CallsPerCalendarBucket RetryAfterExact LedgerExact
