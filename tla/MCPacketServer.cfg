CONSTANTS
    Datagrams <- MCDatagrams
    Sizes = {2}
    HeaderSize = 2
    Mtu = 3
    PoolSizes = {4, 8}
    QueueSize = 1
    Answerers = {g}
    Shutters = {s}
    Closers = {c}
    MaxReads = 2
    MaxSends = 3
    None = None
SPECIFICATION LiveSpec
CHECK_DEADLOCK FALSE
INVARIANTS
    DatagramsWhole
    AcceptedAccounted
PROPERTIES
    CallsReturn
