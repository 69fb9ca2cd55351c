SPECIFICATION CallSpec
CONSTANTS
    Attempts = 3
    Delay = 1
    Backoff = 2
    MaxDelay = 2
    Jitter = 1
    HooksRaise = TRUE
    Seconds = 1
    MaxWork = 2
    Stacks <- ComposedStacks
    Matching <- Transient
INVARIANTS CallTypeOK OncePerAttempt LatestOutcome RecordsMatchCalls TimeoutsExact
PROPERTY CallReturns
