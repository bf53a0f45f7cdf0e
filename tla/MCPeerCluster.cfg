CONSTANTS
    Pools <- MCPools
    Addr <- MCAddr
    Nil = 0
    Given <- MCDistinct
SPECIFICATION Spec
INVARIANT UniquePeers
PROPERTIES
    RemovedIsGone
    ImplementsRegistry
