SPECIFICATION FairStatSpec
CONSTANTS
    Files = {a, b}
    NoFile = noFile
    Blocks = 2
    FailCodes = {2}
    ResetOnOpen = TRUE
    Careful = TRUE
    CancelsMidGet = FALSE
    Budgets <- LostAndCorruptOrCrash
INVARIANTS
    FoundIsThere
    MissingIsNotThere
    StatLeavesDeviceFree
PROPERTIES
    StatReturns
