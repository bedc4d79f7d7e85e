SPECIFICATION Spec
CONSTANTS
    Undefined = Undefined
    ctidTraderAccountId = 7
    Calls = {"c1", "c2"}
    Alone <- Mutations
    Racing = {}
    Menu <- MCMenu
    Inputs <- MCInputs
    Contents <- MCContents
    Errors = {}
    Events <- NoEvents
    OrderOf <- MCOrderOf
    MaxMessages = 1
    MaxSessions = 1
INVARIANTS
    ResolvedWasAccepted
CHECK_DEADLOCK FALSE
