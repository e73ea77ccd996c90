CONSTANTS
    q1 = q1
    q2 = q2
    j1 = j1
    j2 = j2
    Queues = {q1, q2}
    Workers = {w1, w2}
    Callers = {c1}
    Jobs = {j1}
    JobQueue <- TwoQueues
    None = None
    ModeA = FALSE
    FlowEnabled = TRUE
    DrainOnShutdown = FALSE
    LateRegistration = FALSE
SPECIFICATION Spec
INVARIANT ClosedConcurrently
CHECK_DEADLOCK FALSE
