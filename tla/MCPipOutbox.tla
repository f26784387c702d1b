---------------------------- MODULE MCPipOutbox ----------------------------
(* TLC instance of PipOutbox. *)
EXTENDS PipOutbox, TLC
Symmetry == Permutations(Events) \cup Permutations(Workers)
=============================================================================
