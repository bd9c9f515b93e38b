---------------------------- MODULE FlightEvents -----------------------------
(***************************************************************************)
(* What the Flarm records promise the main window.  For each plane it is   *)
(* unseen, down or up, and the departures, landings and touch-and-goes     *)
(* that are reported fit together: a plane departs only when it is down,   *)
(* and lands or touches and goes only when it is up.  A plane that is lost *)
(* while it is up may still owe a landing, which is reported later, even   *)
(* when the plane has been seen again in the meantime.                     *)
(***************************************************************************)
EXTENDS Naturals

CONSTANTS
  Planes,      \* the planes, that is, their Flarm ids
  FarPlanes,   \* those whose events may be out of range
  NoEvent      \* nothing is reported

VARIABLES
  sky,         \* where each plane is
  owed,        \* landings that are still to be reported
  event        \* what the last step reported

vars == <<sky, owed, event>>

Kinds   == {"departure", "landing", "touchAndGo"}
Reports == [kind : Kinds, plane : Planes]

\* an event out of range is not reported
Reported(kind, p) == {[kind |-> kind, plane |-> p]}
                       \cup IF p \in FarPlanes THEN {NoEvent} ELSE {}

Init == /\ sky = [p \in Planes |-> "unseen"]
        /\ owed = [p \in Planes |-> 0]
        /\ event = NoEvent

Moves(p, from, to) == sky[p] = from /\ sky' = [sky EXCEPT ![p] = to]

Appear(p) == /\ Moves(p, "unseen", "down") \/ Moves(p, "unseen", "up")
             /\ event' = NoEvent
             /\ UNCHANGED owed

Depart(p) == /\ Moves(p, "down", "up")
             /\ event' \in Reported("departure", p)
             /\ UNCHANGED owed

Land(p) == /\ Moves(p, "up", "down")
           /\ event' \in Reported("landing", p)
           /\ UNCHANGED owed

TouchAndGo(p) == /\ sky[p] = "up"
                 /\ event' \in Reported("touchAndGo", p)
                 /\ UNCHANGED <<sky, owed>>

\* nothing worth reporting
Quiet == event' = NoEvent /\ UNCHANGED <<sky, owed>>

Disappear(p) == /\ sky[p] # "unseen"
                /\ sky' = [sky EXCEPT ![p] = "unseen"]
                /\ event' = NoEvent
                /\ UNCHANGED owed

DisappearLanding(p) == /\ Moves(p, "up", "unseen")
                       /\ event' \in Reported("landing", p)
                       /\ UNCHANGED owed

DisappearOwing(p) == /\ Moves(p, "up", "unseen")
                     /\ event' = NoEvent
                     /\ owed' = [owed EXCEPT ![p] = @ + 1]

LandLate(p) == /\ owed[p] > 0
               /\ owed' = [owed EXCEPT ![p] = @ - 1]
               /\ event' \in Reported("landing", p)
               /\ UNCHANGED sky

Next == Quiet \/ \E p \in Planes :
          \/ Appear(p) \/ Depart(p) \/ Land(p) \/ TouchAndGo(p)
          \/ Disappear(p) \/ DisappearLanding(p) \/ DisappearOwing(p)
          \/ LandLate(p)

Spec == Init /\ [][Next]_vars
==============================================================================
