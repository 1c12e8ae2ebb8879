SPECIFICATION AllSpec
CONSTANTS
    Conns = {c1, c2}
    MaxConns = 1
    GwConns = {g1, g2}
    GwMembers = {g1}
    GwMaxConns = 1
    GwChanSize = 1
    GwUsers = 2
    IdleTimeout = 2
    MaxLifetime = 3
    Requests = {r1, r2}
    Upgrades = {r2}
    NoUnit = NoUnit
INVARIANTS
    ServersInv
    GracefulDrain
PROPERTIES
    ServersMoveOn
    ConsoleEnds
CHECK_DEADLOCK FALSE
