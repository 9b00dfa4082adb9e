SPECIFICATION Spec
CONSTANTS
    Files = {a, b}
    NoFile = noFile
    Blocks = 1
    FailCodes = {2}
    ResetOnOpen = TRUE
    Careful = FALSE
    CancelsMidGet = FALSE
    Budgets <- Late
INVARIANTS
    RightFile
