-------------------------------- MODULE Gate --------------------------------
(***************************************************************************)
(* What Waiter promises (src/src/concurrent/Waiter.cpp): a gate that is    *)
(* opened once and for all, and that a thread passes only when it is open. *)
(***************************************************************************)
CONSTANT Waiters

VARIABLES open, passed

vars == <<open, passed>>

Init == open = FALSE /\ passed = {}

Open == open' = TRUE /\ UNCHANGED passed

Pass(t) == /\ open
           /\ passed' = passed \cup {t}
           /\ UNCHANGED open

Next == Open \/ \E t \in Waiters : Pass(t)

Spec == Init /\ [][Next]_vars
=============================================================================
