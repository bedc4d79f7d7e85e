SPECIFICATION FairSpec
CONSTANTS
    Reqs = {r1, r2}
    MaxConns = 2
INVARIANTS
    IInv
    PendingOnCurrentConnection
    SettledOnce
    OneRefresh
    SentAuthenticated
PROPERTIES
    EverySendSettles
CHECK_DEADLOCK FALSE
