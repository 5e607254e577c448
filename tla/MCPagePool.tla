----------------------------- MODULE MCPagePool -----------------------------
(* PagePool on a pool of a few slots, the last of them partly outside.     *)
EXTENDS PagePool, TLC

Symmetry == Permutations(Thread)
=============================================================================
