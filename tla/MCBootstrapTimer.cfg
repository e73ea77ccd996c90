SPECIFICATION Spec
CONSTANTS
    other = other
    Queues = {q1, q2}
    Processors = {p1, p2}
    Listening = {p1}
    None = None
    App = App
    NaN = NaN
    Undefined = Undefined
    DrainTimeouts <- Timeouts
    CacheTtls <- SmallTtls
    DefaultDrain = 2
    MaxDelay = 3
    JobNames = {mail, other}
    CatchAll = CatchAll
    HandlerLists <- UpToTwo
CHECK_DEADLOCK FALSE
INVARIANT DrainTimerAsConfigured
