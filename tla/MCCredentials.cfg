CONSTANTS
    a = a
    b = b
    t = t
    k1 = k1
    k2 = k2
    k3 = k3
    k4 = k4
    k5 = k5
    k6 = k6
    i1 = i1
    i2 = i2
    h1 = h1
    Daemons = {a, b}
    Port <- OnePort
    Tunnels = {t}
    Commands = {1, 2}
    Hosts = {h1}
    Tokens = {k1, k2, k3, k4, k5, k6}
    Ids = {i1, i2}
    Versions = {1}
    TTL = 4
    MaxTroubles = 2
    MaxCommands = 2
    None = None
    Broken = Broken

SPECIFICATION Spec

SYMMETRY Symmetry

INVARIANTS
    FileIsOfDaemon
    UseKeepsToken
    OneIdentity
    RegistryRemembers
