SPECIFICATION FairSpec
CONSTANTS
    Nonces = {n1, n2}
    Addresses = {a1, a2, a3}
    Refused = {a3}
    None = None
    MaxLines = 3
    MaxReplies = 2
INVARIANTS TypeOK
PROPERTIES ReportsProvided Detects
