SPECIFICATION SerialSpec
CONSTANTS
    Thread = {t1}
    NSlots = 4
    PageSize = 2
    MemSize = 7
    LogSize = 3
SYMMETRY Symmetry
INVARIANT ExclusiveUpward
PROPERTY FailsOnlyWhenFull
PROPERTY StoresKept
