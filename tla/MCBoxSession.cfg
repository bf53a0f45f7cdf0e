CONSTANTS
    Radix = 32
    Requests <- MCRequests
    FixtureSets <- MCFixtureSets
    PackUser <- MCPackUser
    UnpackUser <- MCUnpackUser
    SizeLimit = 1100
    MaxCalls = 2
    MaxSets = 2
    MaxBreak = 60
    Nil = Nil
SPECIFICATION SessionSpec
CHECK_DEADLOCK FALSE
INVARIANTS
    RequestsReadBack
    AnswersReadBack
