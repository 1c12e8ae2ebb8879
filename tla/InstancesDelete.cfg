SPECIFICATION Spec
CONSTANTS
    Servers = {s1}
    Requests = {r1}
    Names = {n1}
    NoName = NoName
    MaxFaults = 0
PROPERTIES
    DeleteRemovesRow
