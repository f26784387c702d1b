------------------------------ MODULE Optional ------------------------------
(* Python's None, shared by modules that are checked together. *)
CONSTANT None
=============================================================================
