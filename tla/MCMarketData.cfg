SPECIFICATION FairSpec
CONSTANTS
    Symbols = {i1, i2}
    MaxCalls = 2
    MaxSessions = 2
    MaxReplies = 2
INVARIANTS
    TrackedIsStreamed
    NoStrayEvents
PROPERTIES
    Resubscribed
CHECK_DEADLOCK FALSE
