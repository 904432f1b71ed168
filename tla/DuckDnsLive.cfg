SPECIFICATION LiveSpec
CONSTANTS
    e1 = e1
    p1 = p1
    p2 = p2
    h1 = h1
    h2 = h2
    Hosts = {h1, h2}
    Addr = {e1, p1}
    NoAddr = NoAddr
    None = None
    Candidates <- OneEach
    MaxRevision = 0
PROPERTIES Converges
