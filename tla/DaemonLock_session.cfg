SPECIFICATION FairSpec
CONSTANTS
    Procs = {p1, p2, p3}
    NoProc = noProc
    MaxBlock = 1
    MaxFds = 2
    Failing = TRUE
INVARIANTS
    OnlyOne
    NothingLeft
    PidfileNames
    WaitsNoLonger
PROPERTIES
    LockReturns
