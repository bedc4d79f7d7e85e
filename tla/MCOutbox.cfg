SPECIFICATION FairSpec
CONSTANTS
    MaxSends = 3
    MaxConns = 2
INVARIANTS
    IInv
    OnOwnConnection
    InOrder
    OnlyTheGoneAreForgotten
PROPERTIES
    BothAreGates
    EverySendEnds
CHECK_DEADLOCK FALSE
