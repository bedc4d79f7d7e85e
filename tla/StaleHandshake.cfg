SPECIFICATION Spec
CONSTANTS
    Reqs = {r1}
    MaxConns = 2
PROPERTIES
    SettledHandshakeIsHarmless
CHECK_DEADLOCK FALSE
