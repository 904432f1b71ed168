SPECIFICATION FairSpec
CONSTANTS
    Scripts <- BrowserAndCareless
    Chunk = 4
    RequestLimit = 2
    HeaderLimit = 2
    CacheSize = 1
    Unit = 1
    None = None
INVARIANTS TypeOK InStep KeptIsFramed 
PROPERTIES Ends
CHECK_DEADLOCK FALSE
