SPECIFICATION Spec
CONSTANTS
    c1 = c1
    c2 = c2
    b1 = b1
    b2 = b2
    Callers = {c1}
    Buckets = {b1}
    Costs = {1, 2, 3}
    Setups <- LongDayInMemory
INVARIANT CallsPerCalendarBucket
