SPECIFICATION FairSpec
CONSTANTS
    Rec = {r1, r2}
    Fd = {f1, f2}
    Thread = {t1}
    NULL = NULL
    CanFork = FALSE
    Nul = {}
    PipeCap = 1
    FirstPid = 0
    MaxRead = 1
    MaxPid = 1
    MaxOut = 1
PROPERTY ReadyRuns
PROPERTY HaltIsReported
