---------------------------- MODULE MCReadyQueue ----------------------------
(* ReadyQueue on small instances: model values for processes, blocks and   *)
(* threads, interchangeable except for the main thread.                    *)
EXTENDS ReadyQueue, TLC

Symmetry == Permutations(Proc) \cup Permutations(Node)
              \cup Permutations(Thread \ {Main})
=============================================================================
