SPECIFICATION Spec
CONSTANTS
    Callers = {c1, c2, c3}
    N = 2
    GoerFails = TRUE
    MaxTasks = 4
    MaxCancels = 2
    None = None
SYMMETRY Symmetry
INVARIANT AtMostN
INVARIANT CancelReachesAll
CHECK_DEADLOCK FALSE
