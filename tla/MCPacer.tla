------------------------------ MODULE MCPacer ------------------------------
(* Pacer for TLC: threads that are all alike. *)
EXTENDS Pacer, TLC

Symmetric == Permutations(Threads)
=============================================================================
