SPECIFICATION FairSpec
CONSTANTS
    p1 = p1
    Proc = {p1, p2}
    Origin = {p1}
    Programs <- AllPrograms
    PipeCap = 3
    Keys = {65, 90}
    MaxTyped = 4
    CodeEnd = 128
INVARIANT TypeOK
INVARIANT WideSum
INVARIANT StackRestores
INVARIANT EchoInOrder
PROPERTY FlagsSurvive
PROPERTY StoresWhereItPoints
PROPERTY SumExact
PROPERTY EchoAnswers
PROPERTY ForkPrints
CHECK_DEADLOCK FALSE
