SPECIFICATION Spec
CONSTANTS
    Callers = {c1, c2}
    FailureThreshold = 1
    ResetTimeout = 1
INVARIANT OneProbe
