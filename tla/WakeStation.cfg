SPECIFICATION FairSpec
CONSTANTS
    home = home
    cafe = cafe
    p1 = p1
    Networks = {home, cafe}
    Passwords = {p1}
    NoSsid = NoSsid
    Open = Open
    RouterPassword <- TwoRouters
    FormPorts <- SavedPorts
    StoredPorts <- LegacyPorts
INVARIANTS TypeOK ServersConsistent StationServed RestartKeepsSettings
PROPERTIES ForcedPortal ServiceProvided PendingResolved Recovers
