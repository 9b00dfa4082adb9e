SPECIFICATION FairSpec
CONSTANTS
    Blocks = 3
    SeqMod = 6
    MaxUploads = 3
    MaxFaults <- OnceGarbled
CHECK_DEADLOCK FALSE
INVARIANTS
    Uploaded
    FailsForAReason
PROPERTIES
    UploadEnds
