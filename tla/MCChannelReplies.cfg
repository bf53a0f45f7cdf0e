CONSTANTS
    Calls = {}
    Notices = {n1}
    Replies = {r1}
    Inline = {r1}
    Watchers = {w1}
    SHUTDOWN = SHUTDOWN
    None = None
    WriteQueueSize = 1
    DisableShutdown = FALSE
    MayHijack = FALSE
    HasDeadline = TRUE
    HasOnShutdown = FALSE
    PeerShutdowns = 0
SPECIFICATION LiveSpec
CHECK_DEADLOCK FALSE
INVARIANTS
    RefusedNotSent
PROPERTIES
    SendsReturn
    OnCloseIsCalled
