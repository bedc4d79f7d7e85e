SPECIFICATION FairSpec
CONSTANTS
    Undefined = Undefined
    ctidTraderAccountId = 7
    Calls = {"c1", "c2"}
    Alone <- Methods
    Racing <- RacingMethods
    Menu <- MCMenu
    Inputs <- MCInputs
    Contents <- MCContents
    Errors <- MCErrors
    Events <- MCEvents
    OrderOf <- MCOrderOf
    MaxMessages = 2
    MaxSessions = 2
INVARIANTS
    TypeOK
    RequestsArriveAsAsked
    AnswersReadAsMeant
    OutcomeIsTold
PROPERTIES
    ExecutedIsLearnt
CHECK_DEADLOCK FALSE
