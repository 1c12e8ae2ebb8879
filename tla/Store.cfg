SPECIFICATION MCSpec
SYMMETRY symmetry
CONSTANTS
    Null = Null
    Empty = Empty
    Emails = {e1, e2}
    GoogleIds = {g1, g2}
    Jtis = {j1, j2}
    Servers = {s1, s2}
    Hosts = {h1}
    KeyNames = {k1}
    Swift = {c1, c2}
    Names = {n1}
    Versions = {1, 2}
    Callers = {r1}
    PageSizes = {1, 2}
    MaxRows = 2
    MaxOverlap = 2
CHECK_DEADLOCK FALSE
INVARIANTS
    ViewsInv
PROPERTIES
    WritesImplementRecords
    RowsKeepIdentity
