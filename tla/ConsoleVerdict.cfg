SPECIFICATION Spec
CONSTANTS
    IdleTimeout = 2
    MaxLifetime = 3
PROPERTIES
    VerdictTearsDown
CHECK_DEADLOCK FALSE
