SPECIFICATION MCSpec
CONSTANTS
    Terminal = {d1, d2}
    Typed = {d1}
    None = None
    Pids = {4, 40}
    MaxOut = 1
    MaxKeys = 2
    MaxWaits = 1
    Slot = {s1, s2}
SYMMETRY Symmetry
INVARIANT PollsGoOn
INVARIANT TextRight
INVARIANT KeysTwice
INVARIANT CommandKept
CHECK_DEADLOCK FALSE
