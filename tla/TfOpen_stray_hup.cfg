SPECIFICATION Spec
CONSTANTS
    Procs = {p1, p2}
    NoProc = noProc
    Unprivileged = {}
    DiskFull = {}
PROPERTIES
    HupHitsHolder
