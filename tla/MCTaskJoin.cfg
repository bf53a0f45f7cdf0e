SPECIFICATION Spec
CONSTANTS
    Callers = {c1, c2, c3}
    N = 2
    GoerFails = FALSE
    MaxTasks = 4
    MaxCancels = 2
    None = None
SYMMETRY Symmetry
INVARIANT EndIsSeen
CHECK_DEADLOCK FALSE
