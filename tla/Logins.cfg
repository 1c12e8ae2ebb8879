SPECIFICATION AllSpec
CONSTANTS
    Nonces = {n1, n2}
    Emails = {e1, e2}
    Callbacks = {c1, c2, c3}
    MaxPending = 1
    MaxCodeAttempts = 2
    NoEmail = NoEmail
    NoNonce = NoNonce
    Tabs = {t1, t2}
    Origins = {o1}
    Default = Default
    Accounts = {a1, a2}
    Campus = {a1}
    Users = {u1, u2}
    Admins = {u1}
    DevEmail = u1
    Requests = {r1}
    Ids = {i1, i2}
    NoRow = NoRow
    NoSession = NoSession
    TTL = 1
SYMMETRY Symmetry
INVARIANTS
    StoreInv
    AuthenticatedByMatch
    StoreLimits
    CompleteMeansDelivered
    WebLoginInv
    AccessInv
CHECK_DEADLOCK FALSE
