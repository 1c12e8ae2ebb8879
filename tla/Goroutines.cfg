SPECIFICATION AllSpec
CONSTANTS
    Nonces = {n1}
    Emails = {e1, e2}
    Callbacks = {c1, c2}
    MaxPending = 1
    MaxCodeAttempts = 2
    NoEmail = NoEmail
    NoNonce = NoNonce
    Writers = {stdout, stderr}
    MaxWrites = 2
    Limit = 2
    FlushMax = 2
    MaxShellOutput = 2
    Callers = {f1, f2, f3}
    NoCaller = NoCaller
    MaxVersion = 3
    EmptyVersions = {2}
    MaxOps = 2
    MaxLines = 5
INVARIANTS
    HandOffInv
PROPERTIES
    ImplementsOneTimeLogin
    CacheNeverOlder
    LoginsEnd
    OutputNeverStalls
    SessionEnds
    CallsReturn
CHECK_DEADLOCK FALSE
