CONSTANTS
    Pools <- MCPools
    Addr <- MCAddr
    Nil = 0
    Given <- MCRepeated
SPECIFICATION Spec
INVARIANT UniquePeers
