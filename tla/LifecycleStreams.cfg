SPECIFICATION OnePollSpec
CONSTANTS
    Rec = {r1, r2, r3}
    Fd = {f1, f2}
    Thread = {t1}
    NULL = NULL
    CanFork = TRUE
    Nul = {}
    PipeCap = 1
    FirstPid = 0
    MaxRead = 2
    MaxPid = 3
    MaxOut = 1
SYMMETRY Symmetry
INVARIANT SentOwn
