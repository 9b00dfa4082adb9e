SPECIFICATION DiligentSpec
CONSTANTS
    Files = {a, b}
    NoFile = noFile
    Blocks = 1
    FailCodes = {2}
    ResetOnOpen = FALSE
    Careful = TRUE
    CancelsMidGet = FALSE
    Budgets <- AnyOneFault
INVARIANTS
    PutStored
PROPERTIES
    ImplementsTransfer
    CallReturns
    TransferEnds
    Recovers
