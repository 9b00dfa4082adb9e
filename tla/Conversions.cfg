SPECIFICATION ConversionsSpec
CONSTANTS
    IntMax = 3
INVARIANTS
    ChdirResolves
    SortOrder
    DatesAreDays
    WhatIsSentIsRead
    CorruptionNoticed
