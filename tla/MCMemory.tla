------------------------------ MODULE MCMemory ------------------------------
(* Memory, with a pool of a few slots and tables.                          *)
EXTENDS Memory
=============================================================================
