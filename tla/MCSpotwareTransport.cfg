SPECIFICATION FairSpec
CONSTANTS
    Sockets = {s1, s2, s3}
    NoSocket = NoSocket
    MaxAttempt = 3
INVARIANTS
    TypeOK
    OneConnection
    LiveIsWatched
    DisconnectLeavesNothing
    ReconnectOnlyAfterSuccess
PROPERTIES
    ImplementsService
    StaysConnected
    SilenceIsNoticed
CHECK_DEADLOCK FALSE
