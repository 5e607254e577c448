SPECIFICATION Spec
CONSTANTS
    Rec = {r1, r2}
    Fd = {f1, f2}
    Thread = {t1, t2}
    NULL = NULL
    CanFork = TRUE
    Nul = {}
    PipeCap = 1
    FirstPid = 0
    MaxRead = 1
    MaxPid = 2
    MaxOut = 0
SYMMETRY Symmetry
INVARIANT NeverForgotten
