SPECIFICATION AllSpec
CONSTANTS
    Functions = {f1, f2}
    Databases = {d1, d2, d3}
    Keys = {k1, k2}
    Requests = {r1, r2}
    None = None
    MaxFunctions = 1
    MaxItems = 1
    MaxDatabases = 1
    MaxFaults = 1
    MaxRunning = 1
    MaxBuilds = 1
    MaxLength = 5
SYMMETRY Symmetry
INVARIANTS
    DataFollowsFunction
    DatabasesInv
    ExecutionInv
    ScannerAgrees
CHECK_DEADLOCK FALSE
