SPECIFICATION Spec
CONSTANTS
    Proc = {p1, p2}
    Node = {n1, n2, n3}
    Thread = {main, t1, t2}
    Main = main
    NULL = NULL
SYMMETRY Symmetry
PROPERTY HandedOutOnce
CHECK_DEADLOCK FALSE
