SPECIFICATION SSpec
CONSTANTS
    Sockets = {s1, s2, s3}
    NoSocket = NoSocket
    MaxAttempt = 2
INVARIANTS
    NothingLeftOnceDisconnected
CHECK_DEADLOCK FALSE
