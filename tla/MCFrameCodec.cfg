SPECIFICATION Spec
CONSTANTS
    Base = 2
    PrefixBytes = 2
    MaxFrame = 2
    MaxMessages = 3
    MaxConnections = 2
INVARIANTS
    OnlyWhatWasSent
    NothingHeldBack
    DesyncEndsTheConnection
CHECK_DEADLOCK FALSE
