SPECIFICATION FairSpec
CONSTANTS
    c1 = c1
    c2 = c2
    c3 = c3
    u1 = u1
    u2 = u2
    w1 = w1
    w2 = w2
    Thread = {c1, c2, c3}
    User = {u1, u2}
    Text = {w1, w2}
    Salt = {1, 2}
    Tail1 <- Tails
    Files <- Passwords
    NULL = NULL
    Fd = {3, 4}
    MaxPid = 2
    Asks <- Requests
INVARIANT AnswersOwn
INVARIANT AskedPid
INVARIANT DescriptorsAccounted
PROPERTY NamesUnique
PROPERTY AcceptedAgain
PROPERTY Answered
CHECK_DEADLOCK FALSE
