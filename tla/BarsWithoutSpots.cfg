SPECIFICATION Spec
CONSTANTS
    Symbols = {i1}
    MaxCalls = 3
    MaxSessions = 1
    MaxReplies = 2
PROPERTIES
    BarsHaveTheirSpots
CHECK_DEADLOCK FALSE
