SPECIFICATION Spec
CONSTANTS
    Files = {a}
    NoFile = noFile
    Blocks = 2
    FailCodes = {2}
    ResetOnOpen = TRUE
    Careful = TRUE
    CancelsMidGet = TRUE
    Budgets <- NoFaults
INVARIANTS
    CancelEndsRequest
