---------------------------- MODULE BlockingCall ----------------------------
(***************************************************************************)
(* What a call of a worker looks like to its caller (doc/internal/         *)
(* worker.txt): the operation is carried out once, has one outcome, and    *)
(* that outcome - a value or an exception - is what the call returns or    *)
(* throws.                                                                 *)
(***************************************************************************)
CONSTANTS Calls, Outcomes, NoOutcome

VARIABLES phase,     \* of each call
          outcome    \* of each call's operation

vars == <<phase, outcome>>

Phases == {"unused", "running", "finished", "returned", "thrown"}

Init == /\ phase = [c \in Calls |-> "unused"]
        /\ outcome = [c \in Calls |-> NoOutcome]

Call(c) == /\ phase[c] = "unused"
           /\ phase' = [phase EXCEPT ![c] = "running"]
           /\ UNCHANGED outcome

Finish(c, o) == /\ phase[c] = "running"
                /\ phase' = [phase EXCEPT ![c] = "finished"]
                /\ outcome' = [outcome EXCEPT ![c] = o]

Return(c) == /\ phase[c] = "finished"
             /\ phase' = [phase EXCEPT ![c] = IF outcome[c] = "value"
                                              THEN "returned" ELSE "thrown"]
             /\ UNCHANGED outcome

Next == \E c \in Calls : \/ Call(c)
                         \/ \E o \in Outcomes : Finish(c, o)
                         \/ Return(c)

Spec == Init /\ [][Next]_vars
=============================================================================
