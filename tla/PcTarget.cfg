SPECIFICATION Spec
CONSTANTS
    Ssids = {home, cafe}
    Prefixes = {p1, p2}
    NoPrefix = NoPrefix
    Absent = Absent
    Limit = 1
    Wrap = 3
INVARIANTS TypeOK RestartKeepsDiscovery CoherentUnlessTorn HelperHeard
