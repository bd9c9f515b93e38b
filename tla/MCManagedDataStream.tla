------------------------ MODULE MCManagedDataStream -------------------------
(* Two targets; a stream of each type. *)
EXTENDS ManagedDataStream
=============================================================================
