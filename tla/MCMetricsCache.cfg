SPECIFICATION Spec
CONSTANTS
    Queues = {q1, q2}
    None = None
    CacheTtlMs = 2
    MaxTime = 3
    MaxVersion = 2
    MaxInFlight = 2
SYMMETRY Symmetry
CHECK_DEADLOCK FALSE
INVARIANT AnswersAreFresh
INVARIANT InvalidateHolds
PROPERTY AnswersAdvance
