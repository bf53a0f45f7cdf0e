CONSTANTS
    Tasks = {t1}
    Waiters = {x1, x2}
    Timed = {}
    Cancelled = {x2}
    Unstoppable = {u1}
    MaxWorkers = 2
    WorkQueueSize = 1
    NoCork = FALSE
    STUB = STUB
    None = None
SPECIFICATION LiveSpec
CHECK_DEADLOCK FALSE
INVARIANTS
    TokensAccounted
    DoneMeansDone
    WaitMeansFinished
PROPERTIES
    CallsReturn
    AcceptedFinish
