SPECIFICATION Spec
CONSTANTS
    Objects = {1, 2}
    Unsafe = {}
    Requests = {r1, r2}
    MaxChunks = 1
INVARIANTS
    FailedStreamAborted
CHECK_DEADLOCK FALSE
