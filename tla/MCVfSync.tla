------------------------------ MODULE MCVfSync ------------------------------
(* Two flights, two saves, one mishap. *)
EXTENDS VfSync
=============================================================================
