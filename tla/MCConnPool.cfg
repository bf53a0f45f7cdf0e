CONSTANTS
    Conns = {k1, k2}
    Provided = {k1}
    Callers = {a1}
    Closers = {s, x}
    Shutters = {s}
    Size = 1
    Configs <- MCConfigs
    None = None
SPECIFICATION LiveSpec
CHECK_DEADLOCK FALSE
INVARIANTS
    TypeOK
    StoppedIsEmpty
    SentOnce
    WaitersAreKnown
PROPERTIES
    StoppedEnds
    CallsReturn
