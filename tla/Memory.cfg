SPECIFICATION Spec
CONSTANTS
    NSlots = 9
    PerPage = 3
    MaxPage = 2
    MaxFamily = 3
    MaxForks = 1
    NULL = NULL
    JUNK = JUNK
INVARIANT TypeOK
INVARIANT MemoryIntact
INVARIANT SlotsApart
INVARIANT SlotsAccounted
INVARIANT TablesAccounted
CHECK_DEADLOCK FALSE
