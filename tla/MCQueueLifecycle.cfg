CONSTANTS
    q1 = q1
    q2 = q2
    j1 = j1
    j2 = j2
    Queues = {q1, q2}
    Workers = {w1, w2}
    Callers = {c1}
    Jobs = {j1, j2}
    JobQueue <- TwoQueues
    None = None
    ModeA = FALSE
    FlowEnabled = TRUE
    DrainOnShutdown = TRUE
    LateRegistration = FALSE
SYMMETRY Symmetry
SPECIFICATION Spec
INVARIANT TypeOK
INVARIANT RequestsCanEnqueue
INVARIANT ClientClosedLast
INVARIANT DrainedBeforeCut
INVARIANT NothingLeftOpen
INVARIANT LateJobsAreDrained
PROPERTY OnlyForcedJobsRerun
PROPERTY ClearedQueuesWereClosed
CHECK_DEADLOCK FALSE
