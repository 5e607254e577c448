--------------------------- MODULE MCProcessTable ---------------------------
(* ProcessTable with the main thread and interchangeable others.           *)
EXTENDS ProcessTable, TLC

Symmetry == Permutations(Rec) \cup Permutations(Node) \cup Permutations(Thread \ {Main})
=============================================================================
