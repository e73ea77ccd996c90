CONSTANTS
    q1 = q1
    q2 = q2
    j1 = j1
    j2 = j2
    Queues = {q1}
    Workers = {w1}
    Callers = {c1}
    Jobs = {j1}
    JobQueue <- OneQueue
    None = None
    ModeA = FALSE
    FlowEnabled = TRUE
    DrainOnShutdown = FALSE
    LateRegistration = TRUE
SPECIFICATION Spec
INVARIANT NothingLeftOpen
CHECK_DEADLOCK FALSE
