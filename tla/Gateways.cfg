SPECIFICATION AllSpec
CONSTANTS
    Instances = {i1, i2}
    Addresses = {a1}
    Requests = {r1, r2}
    None = None
    HostTTL = 1
    AddressTTL = 1
    MaxDelay = 1
    Consoles = {w1}
    VMUsers = 2
    TTL = 1
    MaxTime = 4
    NoConsole = NoConsole
    Hosts = {h1}
    HostKeys = {k1, k2, k3}
    Sessions = {s1, s2}
    WebSessions = {s2}
    OwnKeys = {o1, o2}
    NoKey = NoKey
    Damaged = Damaged
    MaxLines = 3
    MaxReplaced = 2
SYMMETRY Symm
INVARIANTS
    AppBackendInv
    KeysInv
    HostKeyInv
PROPERTIES
    NoLateUse
CHECK_DEADLOCK FALSE
