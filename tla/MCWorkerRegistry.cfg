CONSTANTS
    Queues = {q1, q2}
    Workers = {w1, w2, w3, w4}
    Callers = {c1, c2}
    None = None
SYMMETRY Symmetry
SPECIFICATION ExclusiveSpec
INVARIANT QuitAfterClose
INVARIANT OneWorkerPerQueue
INVARIANT OpenConnectionsTracked
PROPERTY EntryLeavesReleased
CHECK_DEADLOCK FALSE
