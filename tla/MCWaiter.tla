------------------------------ MODULE MCWaiter ------------------------------
(* Three threads that wait and one or two that notify. *)
EXTENDS Waiter
=============================================================================
