SPECIFICATION AllSpec
CONSTANTS
    None = None
    Requests = {r1, r2}
    MaxFaults = 1
    Names = {n1}
    Swift = {s1, s2}
    Objects = {o1, o2}
    Keys = {k1, k2, k3}
    Snapshots = {snap}
    MaxDeleted = 1
    OwnerOf <- EachItsOwn
    Files = {1, 2}
    Unsafe = {}
    MaxChunks = 2
SYMMETRY Symm
INVARIANTS
    ContainersInv
    KeyPairsInv
    DataStaysWithOwner
    TransferInv
CHECK_DEADLOCK FALSE
