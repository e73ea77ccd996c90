\* Two callers, one queue: two calls, two faults of Redis or the connection.
SPECIFICATION Spec
CONSTANTS
    Queues = {q1}
    Callers = {c1, c2}
    plain = plain
    tagged = tagged
    Jobs <- MCJobs
    WithId = {tagged}
    Batches <- MCBatches
    MaxBulk = 2
    Repeats <- MCRepeats
    WorkerOptions <- MCWorkerOptions
    DefaultConcurrency = 2
    MaxConcurrency = 1000
    Files <- MCFiles
    Prefixes = {"tenant"}
    DefaultPrefix = "bull"
    NaN = NaN
    Undefined = Undefined
    None = None
    MaxCalls = 2
    MaxFaults = 2
SYMMETRY MCSymmetry
INVARIANT ResolvedMeansDone
INVARIANT RetryAddsOnce
INVARIANT BlamesTheRightParty
INVARIANT WorkersServeTheProducers
INVARIANT ProcessSurvives
PROPERTY RefusedCachesNothing
PROPERTY KeepsCallContract
CHECK_DEADLOCK FALSE
