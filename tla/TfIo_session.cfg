SPECIFICATION Spec
CONSTANTS
    Files = {a, b}
    NoFile = noFile
    Blocks = 2
    FailCodes = {2}
    ResetOnOpen = TRUE
    Careful = TRUE
    CancelsMidGet = FALSE
    Budgets <- LostCorruptCrash
SYMMETRY Symm
INVARIANTS
    TypeOK
    PendingOwned
    Lockstep
    Synchronous
    DeviceFree
    KnownGoodState
