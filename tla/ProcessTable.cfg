SPECIFICATION Spec
CONSTANTS
    Thread = {main, t1}
    Main = main
    Rec = {r1, r2, r3}
    Node = {n1, n2, n3}
    NBuckets = 2
    MaxPid = 3
    NULL = NULL
    JUNK = JUNK
SYMMETRY Symmetry
INVARIANT ChainsHoldAll
INVARIANT PidsUnique
PROPERTY NeverMissed
PROPERTY FindsRight
CHECK_DEADLOCK FALSE
