CONSTANTS
    Queues = {q1}
    Workers = {w1, w2, w3}
    Callers = {c1, c2}
    None = None
SPECIFICATION RegistrySpec
INVARIANT OneWorkerPerQueue
CHECK_DEADLOCK FALSE
