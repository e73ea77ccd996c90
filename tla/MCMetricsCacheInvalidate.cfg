SPECIFICATION Spec
CONSTANTS
    Queues = {q1}
    None = None
    CacheTtlMs = 2
    MaxTime = 3
    MaxVersion = 2
    MaxInFlight = 2

CHECK_DEADLOCK FALSE
INVARIANT InvalidateForces
