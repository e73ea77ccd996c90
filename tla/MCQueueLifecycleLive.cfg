CONSTANTS
    q1 = q1
    q2 = q2
    j1 = j1
    j2 = j2
    Queues = {q1}
    Workers = {w1, w2}
    Callers = {c1}
    Jobs = {j1, j2}
    JobQueue <- OneQueue
    None = None
    ModeA = TRUE
    FlowEnabled = FALSE
    DrainOnShutdown = FALSE
    LateRegistration = FALSE
SPECIFICATION FairSpec
PROPERTY ShutdownEnds
PROPERTY JobsSurvive
PROPERTY DeliversAtLeastOnce
CHECK_DEADLOCK FALSE
