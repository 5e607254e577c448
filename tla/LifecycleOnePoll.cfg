SPECIFICATION MCOnePollSpec
CONSTANTS
    Rec = {r1, r2}
    Fd = {f1, f2}
    Thread = {t1, t2}
    NULL = NULL
    CanFork = FALSE
    Nul <- SomeNul
    PipeCap = 2
    FirstPid = 9
    MaxRead = 2
    MaxPid = 10
    MaxOut = 4
SYMMETRY Symmetry
INVARIANT SentInOrder
PROPERTY DestroysOnlyHalted
