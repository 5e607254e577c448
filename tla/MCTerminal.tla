----------------------------- MODULE MCTerminal -----------------------------
(* Terminal, with two terminals and requests in interchangeable slots,     *)
(* until the first letter is typed or the first byte written as Next has   *)
(* it, and then with either keys or output.                                *)
EXTENDS Terminal, TLC

Symmetry == Permutations(Slot)

\* bound: keys and output, which share nothing but the slots
KeysOrOutput == pressed' = 0 \/ \A k \in Pids : proc'[k].wrote = 0

MCSpec == Init /\ [][Next /\ KeysOrOutput]_vars
=============================================================================
