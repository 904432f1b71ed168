SPECIFICATION FairSpec
CONSTANTS
    Clients = {c1, c2, c3}
    MaxConnections = 2
    Timeout = 2
    Shutdown = 1
    PassLength = 1
    Wrap = 6
    None = None
INVARIANTS TypeOK PoolConsistent ReleasedWhenStopped TimeoutKept
PROPERTIES  StopReturns PoolProvided
