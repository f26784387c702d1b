-------------------------- MODULE MCPipPublication --------------------------
(* TLC instances of PipPublication. *)
EXTENDS PipPublication, TLC
Symmetry == Permutations(Signals) \cup Permutations(Reconcilers)
=============================================================================
