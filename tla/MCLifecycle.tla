---------------------------- MODULE MCLifecycle ----------------------------
(* Lifecycle with a few records, descriptors and request threads, each     *)
(* kind interchangeable.                                                   *)
EXTENDS Lifecycle, TLC

Symmetry == Permutations(Rec) \cup Permutations(Fd) \cup Permutations(Thread)

\* Pid 9 writes a byte 0 between others.
SomeNul == {<<9, 2>>}

\* bound: bytes written by the last Pid
MCOnePollSpec == Init /\ [][OnePollNext /\ Len(wrote'[MaxPid]) <= 2]_vars
=============================================================================
