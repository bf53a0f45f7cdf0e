CONSTANTS
    Callers = {a1, a2}
    Paths = {p, q}
    x = x
    y = y
    Ids <- MCIds
    Clusters <- MCClusters
    First <- MCFirst
    MaxUpdates = 2
    MaxCalls = 2
    None = None
SPECIFICATION LiveSpec
CHECK_DEADLOCK FALSE
INVARIANTS
    ReloadSeesConfig
    OneConnPerId
PROPERTIES
    NeverOlder
    BoxReturns
