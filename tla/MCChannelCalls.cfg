CONSTANTS
    Calls = {c1}
    Notices = {}
    Replies = {}
    Inline = {}
    Watchers = {}
    SHUTDOWN = SHUTDOWN
    None = None
    WriteQueueSize = 1
    DisableShutdown = FALSE
    MayHijack = TRUE
    HasDeadline = TRUE
    HasOnShutdown = TRUE
    PeerShutdowns = 1
SPECIFICATION LiveSpec
CHECK_DEADLOCK FALSE
INVARIANTS
    TypeOK
    OneResultPerCall
    StopperClosedOnce
    StrandedOnlyBeforeCheck
    ShutdownPacketIsLast
    HijackTakesLiveConn
PROPERTIES
    CallsReturn
    ImplementsLife
