SPECIFICATION Spec
CONSTANTS
    Names = {n1}
    Swift = {s1, s2}
    Objects = {o1}
    Requests = {r1, r2}
    None = None
    MaxFaults = 0
INVARIANTS
    DeletesOwnRow
CHECK_DEADLOCK FALSE
