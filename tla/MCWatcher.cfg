CONSTANTS
    Peers = {a, b}
    Conns = {k1, k2}
    MinAlivePeers = 1
    StrictGraceful = TRUE
    None = None
SPECIFICATION LiveSpec
CHECK_DEADLOCK FALSE
INVARIANTS
    CountersAgree
    AttachedIsHealthy
    BrokenHasCause
PROPERTIES
    NewsGoOn
