SPECIFICATION FairSpec
CONSTANTS
    home = home
    cafe = cafe
    p1 = p1
    Networks = {home}
    Passwords = {p1}
    NoSsid = NoSsid
    Open = Open
    RouterPassword <- HomeRouter
    FormPorts <- OnePort
    StoredPorts <- OnePort
PROPERTY RecoversAlways
