SPECIFICATION Spec
CONSTANTS
    Symbols = {i1, i2}
    List = List
    Callers = {c1, c2, c3, c4}
    MaxFetches = 4
SYMMETRY Symmetry
INVARIANTS
    IInv
    FailureNotCached
    NewestIsCached
    OneFetchPerSymbol
CHECK_DEADLOCK FALSE
