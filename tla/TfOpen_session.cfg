SPECIFICATION FairSpec
CONSTANTS
    Procs = {p1, p2, p3}
    NoProc = noProc
    Unprivileged = {p3}
    DiskFull = {p2}
INVARIANTS
    Exclusive
    LockFreed
    HolderIsNamed
    OneHup
PROPERTIES
    OpenReturns
