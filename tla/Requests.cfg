SPECIFICATION AllSpec
CONSTANTS
    JTIs = {j1, j2, j3}
    Requests = {q1, q2, q3}
    NoJTI = NoJTI
    Servers = {s1}
    Callers = {r1, r2}
    Names = {n1, n2}
    NoName = NoName
    MaxFaults = 2
    Statuses = {"a", "b"}
    Gone = "gone"
    Nobody = nobody
    TTL = 2
    MaxDelay = 1
    Services = {nova, swift, nsp}
    Configured = {nova, swift}
    ViaKeystone = {nova, swift}
    Timeout = 2
    MaxReauth = 3
INVARIANTS
    TokenInv
    AtMostOneWinner
    LogoutIsFinal
    InstancesInv
    AdminInv
PROPERTIES
    StaleTokenHarmless
    LiveServerKeepsRow
    ListingsEnd
