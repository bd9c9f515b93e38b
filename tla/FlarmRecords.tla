---------------------------- MODULE FlarmRecords -----------------------------
(***************************************************************************)
(* The records of FlarmList, one per plane that can be received            *)
(* (src/src/flarm/FlarmRecord.cpp, FlarmList.cpp), and the events they     *)
(* detect.                                                                 *)
(*                                                                         *)
(* A record's state follows the situation of the plane, which is derived   *)
(* from ground speed and altitude.  Two timers take part: 3 seconds        *)
(* without a sentence remove the record (keepaliveTimer), and a motor      *)
(* glider's landing is reported only when it has stayed on the ground for  *)
(* 30 seconds (landingTimer).  FlarmList::removeFlarmRecord drops a record *)
(* from the list and its hash but does not delete it: its landing timer    *)
(* goes on, and its landing is reported when a new record of the same      *)
(* plane may exist already.                                                *)
(*                                                                         *)
(* A signal is delivered within the step that emits it: event is the       *)
(* signal of the last step.                                                *)
(***************************************************************************)
EXTENDS Naturals

CONSTANTS
  Planes,         \* the planes, that is, their Flarm ids
  Motorgliders,   \* those the cache knows as motor gliders
  FarPlanes,      \* those whose events may be beyond Settings::flarmRange
  MaxRemoved,     \* bound on a plane's removed records that still time
  NoEvent         \* nothing is reported

ASSUME RecordsAssumption ==
  /\ Motorgliders \subseteq Planes /\ FarPlanes \subseteq Planes
  /\ MaxRemoved \in Nat
  /\ NoEvent \notin [kind : {"departure", "landing", "touchAndGo"},
                     plane : Planes]

VARIABLES
  state,          \* FlarmRecord::state, "none" if the list has no record
  landingTimer,   \* whether the record's landing timer is active
  removed,        \* records removed from the list with an active timer
  event           \* the signal the last step emitted

recordVars == <<state, landingTimer, removed, event>>

States     == {"unknown", "onGround", "starting", "flying", "landing"}
Situations == {"ground", "low", "flying"}
Kinds      == {"departure", "landing", "touchAndGo"}
Reports    == [kind : Kinds, plane : Planes]

TypeOK ==
  /\ state \in [Planes -> States \cup {"none"}]
  /\ landingTimer \in [Planes -> BOOLEAN]
  /\ removed \in [Planes -> Nat]
  /\ event \in Reports \cup {NoEvent}

RecordsInit ==
  /\ state = [p \in Planes |-> "none"]
  /\ landingTimer = [p \in Planes |-> FALSE]
  /\ removed = [p \in Planes |-> 0]
  /\ event = NoEvent

\* a signal is emitted unless the plane is out of range
Emit(kind, p) == event' \in {[kind |-> kind, plane |-> p]}
                   \cup IF p \in FarPlanes THEN {NoEvent} ELSE {}
EmitNothing   == event' = NoEvent

\* FlarmRecord::stateTransition, the state that follows
NextState(s, situation) ==
  CASE situation = "ground" -> "onGround"
    [] situation = "flying" -> "flying"
    [] situation = "low"    -> IF s \in {"onGround", "starting"}
                               THEN "starting" ELSE "landing"

ChangeState(p, s) == state' = [state EXCEPT ![p] = s]

-----------------------------------------------------------------------------
(* FlarmRecord::processPflaaSentence *)

\* FlarmList::pflaaSentence, no record: the first position is measured
\* against 0 and may be implausible, which leaves the state unknown
NewRecord(p, situation) ==
  /\ state[p] = "none"
  /\ \/ ChangeState(p, NextState("unknown", situation))
     \/ ChangeState(p, "unknown")
  /\ EmitNothing
  /\ UNCHANGED <<landingTimer, removed>>

\* on the ground: stay, depart, or touch and go if the landing is pending
FromGround(p, situation) ==
  /\ state[p] = "onGround"
  /\ ChangeState(p, NextState(state[p], situation))
  /\ landingTimer' = [landingTimer EXCEPT ![p] = @ /\ situation = "ground"]
  /\ IF situation = "ground" THEN EmitNothing
     ELSE IF ~ landingTimer[p] THEN Emit("departure", p)
     ELSE IF p \in Motorgliders THEN Emit("touchAndGo", p)
     ELSE EmitNothing
  /\ UNCHANGED removed

\* (mutated: an aborted departure waits like a landing)
FromStartingWaits(p, situation) ==
  /\ state[p] = "starting"
  /\ ChangeState(p, NextState(state[p], situation))
  /\ IF situation = "ground" THEN Emit("landing", p) ELSE EmitNothing
  /\ landingTimer' = [landingTimer EXCEPT ![p] = situation = "ground"]
  /\ UNCHANGED removed

\* starting: back on the ground, the departure is aborted
FromStarting(p, situation) ==
  /\ state[p] = "starting"
  /\ ChangeState(p, NextState(state[p], situation))
  /\ IF situation = "ground" THEN Emit("landing", p) ELSE EmitNothing
  /\ UNCHANGED <<landingTimer, removed>>

\* flying and landing: down, with a motor glider's landing yet to be
\* confirmed, or up again from an approach
FromAir(p, situation) ==
  /\ state[p] \in {"flying", "landing"}
  /\ ChangeState(p, NextState(state[p], situation))
  /\ landingTimer' = [landingTimer EXCEPT ![p] =
                        @ \/ (situation = "ground" /\ p \in Motorgliders)]
  /\ IF situation = "ground" /\ p \notin Motorgliders THEN Emit("landing", p)
     ELSE IF /\ state[p] = "landing" /\ situation = "flying"
             /\ p \in Motorgliders
          THEN Emit("touchAndGo", p)
     ELSE EmitNothing
  /\ UNCHANGED removed

FromUnknown(p, situation) ==
  /\ state[p] = "unknown"
  /\ ChangeState(p, NextState(state[p], situation))
  /\ EmitNothing
  /\ UNCHANGED <<landingTimer, removed>>

\* a plausible position; any other changes nothing but the keepalive timer
Sentence(p, situation) ==
  \/ NewRecord(p, situation) \/ FromUnknown(p, situation)
  \/ FromGround(p, situation) \/ FromStarting(p, situation)
  \/ FromAir(p, situation)

-----------------------------------------------------------------------------
(* The timers *)

\* (mutated: the record's timers are deleted with it)
KeepaliveTimeoutDeletes(p) ==
  /\ state[p] # "none"
  /\ landingTimer[p] => removed[p] < MaxRemoved
  /\ ChangeState(p, "none")
  /\ landingTimer' = [landingTimer EXCEPT ![p] = FALSE]
  /\ IF state[p] = "landing" THEN Emit("landing", p) ELSE EmitNothing
  /\ UNCHANGED removed

\* (mutated: a plane lost on its approach is taken to have landed again)
KeepaliveTimeoutAnyState(p) ==
  /\ state[p] # "none"
  /\ landingTimer[p] => removed[p] < MaxRemoved
  /\ ChangeState(p, "none")
  /\ landingTimer' = [landingTimer EXCEPT ![p] = FALSE]
  /\ removed' = [removed EXCEPT ![p] = IF landingTimer[p] THEN @ + 1 ELSE @]
  /\ Emit("landing", p)

\* (mutated: a plane that is lost in the air keeps its record)
KeepaliveTimeoutKeepsFar(p) ==
  /\ state[p] # "none"
  /\ landingTimer[p] => removed[p] < MaxRemoved
  /\ ChangeState(p, IF state[p] = "flying" THEN "flyingFar" ELSE "none")
  /\ landingTimer' = [landingTimer EXCEPT ![p] = FALSE]
  /\ removed' = [removed EXCEPT ![p] = IF landingTimer[p] THEN @ + 1 ELSE @]
  /\ IF state[p] = "landing" THEN Emit("landing", p) ELSE EmitNothing

\* no sentence for 3 seconds: an approach is taken for a landing, and the
\* record is removed from the list in any state (stateFlyingFar is set just
\* before that, so no record in the list ever has it)
KeepaliveTimeout(p) ==
  /\ state[p] # "none"
  /\ landingTimer[p] => removed[p] < MaxRemoved
  /\ ChangeState(p, "none")
  /\ landingTimer' = [landingTimer EXCEPT ![p] = FALSE]
  /\ removed' = [removed EXCEPT ![p] = IF landingTimer[p] THEN @ + 1 ELSE @]
  /\ IF state[p] = "landing" THEN Emit("landing", p) ELSE EmitNothing

\* 30 seconds after a motor glider came down
LandingTimeout(p) ==
  /\ landingTimer[p]
  /\ landingTimer' = [landingTimer EXCEPT ![p] = FALSE]
  /\ IF state[p] = "onGround" THEN Emit("landing", p) ELSE EmitNothing
  /\ UNCHANGED <<state, removed>>

\* the same in a record that has been removed; its state is onGround
RemovedLandingTimeout(p) ==
  /\ removed[p] > 0
  /\ removed' = [removed EXCEPT ![p] = @ - 1]
  /\ Emit("landing", p)
  /\ UNCHANGED <<state, landingTimer>>

RecordStep(p) == \/ \E situation \in Situations : Sentence(p, situation)
                 \/ KeepaliveTimeout(p)
                 \/ LandingTimeout(p)
                 \/ RemovedLandingTimeout(p)

RecordsNext == \E p \in Planes : RecordStep(p)

RecordsSafety == RecordsInit /\ [][RecordsNext]_recordVars

\* Qt serves timers: one that stays active times out.
RecordsSpec ==
  /\ RecordsSafety
  /\ \A p \in Planes : /\ WF_recordVars(LandingTimeout(p))
                       /\ WF_recordVars(RemovedLandingTimeout(p))

-----------------------------------------------------------------------------
(* Properties *)

(***************************************************************************)
(* The landing timer runs only for a motor glider that is on the ground:   *)
(* the branches of stateTransition and landingTimeout that report          *)
(* "unexpected touch and go of glider?" after a landing and                *)
(* "landingTimeout in invalid state" are never reached.                    *)
(***************************************************************************)
TimerOnlyAtRest ==
  \A p \in Planes : landingTimer[p] => p \in Motorgliders
                                         /\ state[p] = "onGround"

\* where a plane is, as far as its record can tell
Sky(p) == CASE state[p] \in {"none", "unknown"} -> "unseen"
            [] state[p] = "onGround" -> IF landingTimer[p] THEN "up" ELSE "down"
            [] OTHER -> "up"

Events == INSTANCE FlightEvents
            WITH sky <- [p \in Planes |-> Sky(p)], owed <- removed

(***************************************************************************)
(* The signals of the records of a plane fit together, across records that *)
(* are removed and created anew and landings that are confirmed late: a    *)
(* departure follows a landing or the first sight of the plane, a landing  *)
(* or touch-and-go follows a departure or the first sight.                 *)
(***************************************************************************)
ImplementsEvents == Events!Spec

(***************************************************************************)
(* A motor glider that came down is heard of again, with its landing or    *)
(* with a touch-and-go, although its record may be removed meanwhile.      *)
(***************************************************************************)
LandingIsReported ==
  \A p \in Planes \ FarPlanes :
    landingTimer[p] ~> event \in [kind : {"landing", "touchAndGo"},
                                  plane : {p}]
==============================================================================
