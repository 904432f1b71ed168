SPECIFICATION FairSpec
CONSTANTS
    Scripts <- OneGet
    Chunk = 4
    RequestLimit = 2
    HeaderLimit = 2
    CacheSize = 1
    Unit = 1
    None = None
PROPERTY LoopReturns
CHECK_DEADLOCK FALSE
