SPECIFICATION SerialSpec
CONSTANTS
    Proc = {p1, p2}
    Node = {n1, n2, n3, n4}
    Thread = {main, t1}
    Main = main
    NULL = NULL
INVARIANT IInv
INVARIANT ListIntact
PROPERTY ImplementsFifo
