---------------------------- MODULE FlarmProofs ------------------------------
(***************************************************************************)
(* For any set of planes: the landing timer runs only for a motor glider   *)
(* at rest, the signals of the records fit together as FlightEvents says,  *)
(* and the book of flights that the main window keeps from them shows in   *)
(* the air who is in the air.                                              *)
(***************************************************************************)
EXTENDS FlarmFlights, FiniteSetTheorems, TLAPS

-----------------------------------------------------------------------------
(* The records *)

RecordsInv == TypeOK /\ TimerOnlyAtRest

USE RecordsAssumption DEF Kinds, Reports, States

LEMMA NextStateType ==
  ASSUME NEW s, NEW situation \in Situations
  PROVE  NextState(s, situation) \in {"onGround", "starting", "landing", "flying"}
BY DEF NextState, Situations

LEMMA InitIInv == RecordsInit => RecordsInv
BY DEF RecordsInit, RecordsInv, TypeOK, TimerOnlyAtRest

LEMMA SentenceIInv ==
  ASSUME RecordsInv, NEW p \in Planes, NEW situation \in Situations,
         Sentence(p, situation)
  PROVE  RecordsInv'
<1> USE DEF RecordsInv, TypeOK, TimerOnlyAtRest, ChangeState, Emit, EmitNothing,
            NextState, Situations
<1>1. CASE NewRecord(p, situation)
  BY <1>1 DEF NewRecord
<1>2. CASE FromUnknown(p, situation)
  BY <1>2 DEF FromUnknown
<1>3. CASE FromGround(p, situation)
  <2>1. CASE situation = "ground"
    <3>1. state' = state /\ landingTimer' = landingTimer
      BY <1>3, <2>1 DEF FromGround
    <3> QED BY <1>3, <2>1, <3>1 DEF FromGround
  <2>2. CASE situation # "ground"
    <3>1. landingTimer' = [landingTimer EXCEPT ![p] = FALSE]
      BY <1>3, <2>2 DEF FromGround
    <3>2. event' \in Reports \cup {NoEvent}
      BY <1>3, <2>2 DEF FromGround
    <3> QED BY <1>3, <2>2, <3>1, <3>2 DEF FromGround
  <2> QED BY <2>1, <2>2
<1>4. CASE FromStarting(p, situation)
  BY <1>4 DEF FromStarting
<1>5. CASE FromAir(p, situation)
  BY <1>5 DEF FromAir
<1> QED BY <1>1, <1>2, <1>3, <1>4, <1>5 DEF Sentence

LEMMA TimeoutIInv ==
  ASSUME RecordsInv, NEW p \in Planes,
         KeepaliveTimeout(p) \/ LandingTimeout(p) \/ RemovedLandingTimeout(p)
  PROVE  RecordsInv'
<1> USE DEF RecordsInv, TypeOK, TimerOnlyAtRest, ChangeState, Emit, EmitNothing
<1>1. CASE KeepaliveTimeout(p)
  BY <1>1 DEF KeepaliveTimeout
<1>2. CASE LandingTimeout(p)
  BY <1>2 DEF LandingTimeout
<1>3. CASE RemovedLandingTimeout(p)
  BY <1>3 DEF RemovedLandingTimeout
<1> QED BY <1>1, <1>2, <1>3

LEMMA StepIInv == RecordsInv /\ [RecordsNext]_recordVars => RecordsInv'
<1> SUFFICES ASSUME RecordsInv, [RecordsNext]_recordVars PROVE RecordsInv'
  OBVIOUS
<1>1. CASE UNCHANGED recordVars
  BY <1>1 DEF RecordsInv, TypeOK, TimerOnlyAtRest, recordVars
<1>2. ASSUME NEW p \in Planes, RecordStep(p) PROVE RecordsInv'
  BY <1>2, SentenceIInv, TimeoutIInv DEF RecordStep
<1> QED BY <1>1, <1>2 DEF RecordsNext

(* The records and their timers have their types in every state. *)
THEOREM RecordsTypeCorrect == RecordsSpec => []TypeOK
<1>1. RecordsSafety => []RecordsInv
  BY InitIInv, StepIInv, PTL DEF RecordsSafety
<1> QED BY <1>1, PTL DEF RecordsSpec, RecordsInv

(* No glider ever waits for a touch-and-go, and no landing timer times out *)
(* in a plane that is not on the ground (FlarmRecord.cpp:225 and 270).     *)
THEOREM TimersRight == RecordsSpec => []TimerOnlyAtRest
<1>1. RecordsSafety => []RecordsInv
  BY InitIInv, StepIInv, PTL DEF RecordsSafety
<1> QED BY <1>1, PTL DEF RecordsSpec, RecordsInv
-----------------------------------------------------------------------------
(* The refinement *)

SkyOfAll == [p \in Planes |-> Sky(p)]

\* only plane p changes its record
Only(p) == \A q \in Planes \ {p} : /\ state'[q] = state[q]
                                  /\ landingTimer'[q] = landingTimer[q]

LEMMA SkyMoves ==
  ASSUME NEW p \in Planes, Only(p)
  PROVE  SkyOfAll' = [SkyOfAll EXCEPT ![p] = Sky(p)']
BY DEF SkyOfAll, Only, Sky

LEMMA SkyStays ==
  ASSUME NEW p \in Planes, Only(p), Sky(p)' = Sky(p)
  PROVE  SkyOfAll' = SkyOfAll
BY DEF SkyOfAll, Only, Sky

LEMMA InitMaps == RecordsInit => Events!Init
BY DEF RecordsInit, Events!Init, Sky

LEMMA NewRecordMaps ==
  ASSUME RecordsInv, NEW p \in Planes, NEW situation \in Situations,
         NewRecord(p, situation)
  PROVE  Events!Next
<1> USE DEF RecordsInv, TypeOK, TimerOnlyAtRest, NewRecord, ChangeState, EmitNothing
<1>1. Only(p) /\ SkyOfAll[p] = "unseen" /\ Sky(p) = "unseen"
  BY DEF Only, SkyOfAll, Sky
<1>2. CASE state' = [state EXCEPT ![p] = "unknown"]
  <2>1. Sky(p)' = "unseen"
    BY <1>2 DEF Sky
  <2> QED BY <1>1, <2>1, SkyStays DEF Events!Next, Events!Quiet, SkyOfAll
<1>3. CASE state' = [state EXCEPT ![p] = NextState("unknown", situation)]
  <2>1. Sky(p)' \in {"down", "up"}
    BY <1>3, NextStateType DEF Sky
  <2> QED BY <1>1, <2>1, SkyMoves
        DEF Events!Next, Events!Appear, Events!Moves, SkyOfAll
<1> QED BY <1>2, <1>3

LEMMA FromUnknownMaps ==
  ASSUME RecordsInv, NEW p \in Planes, NEW situation \in Situations,
         FromUnknown(p, situation)
  PROVE  Events!Next
<1> USE DEF RecordsInv, TypeOK, TimerOnlyAtRest, FromUnknown, ChangeState, EmitNothing
<1>1. Only(p) /\ Sky(p) = "unseen" /\ Sky(p)' \in {"down", "up"}
  BY NextStateType DEF Only, Sky
<1> QED BY <1>1, SkyMoves DEF Events!Next, Events!Appear, Events!Moves, SkyOfAll

LEMMA FromGroundMaps ==
  ASSUME RecordsInv, NEW p \in Planes, NEW situation \in Situations,
         FromGround(p, situation)
  PROVE  Events!Next
<1> USE DEF RecordsInv, TypeOK, TimerOnlyAtRest, FromGround, ChangeState, Emit,
            EmitNothing, NextState, Situations
<1>1. Only(p) /\ removed' = removed
  BY DEF Only
<1>2. CASE situation = "ground"
  <2>1. state' = state /\ landingTimer' = landingTimer /\ event' = NoEvent
    BY <1>2
  <2> QED BY <1>1, <2>1 DEF Events!Next, Events!Quiet, Sky
<1>3. CASE situation # "ground" /\ ~ landingTimer[p]
  <2>1. Sky(p) = "down" /\ Sky(p)' = "up"
    BY <1>3 DEF Sky
  <2>2. event' \in Events!Reported("departure", p)
    BY <1>3 DEF Events!Reported
  <2> QED BY <1>1, <2>1, <2>2, SkyMoves
        DEF Events!Next, Events!Depart, Events!Moves, SkyOfAll
<1>4. CASE situation # "ground" /\ landingTimer[p]
  <2>1. Sky(p) = "up" /\ Sky(p)' = "up"
    BY <1>4 DEF Sky
  <2>2. event' \in Events!Reported("touchAndGo", p)
    BY <1>4 DEF Events!Reported
  <2> QED BY <1>1, <2>1, <2>2, SkyStays
        DEF Events!Next, Events!TouchAndGo, SkyOfAll
<1> QED BY <1>2, <1>3, <1>4

LEMMA FromStartingMaps ==
  ASSUME RecordsInv, NEW p \in Planes, NEW situation \in Situations,
         FromStarting(p, situation)
  PROVE  Events!Next
<1> USE DEF RecordsInv, TypeOK, TimerOnlyAtRest, FromStarting, ChangeState, Emit,
            EmitNothing, NextState, Situations
<1>1. Only(p) /\ removed' = removed /\ Sky(p) = "up" /\ ~ landingTimer[p]
  BY DEF Only, Sky
<1>2. CASE situation = "ground"
  <2>1. Sky(p)' = "down"
    BY <1>1, <1>2 DEF Sky
  <2>2. event' \in Events!Reported("landing", p)
    BY <1>2 DEF Events!Reported
  <2> QED BY <1>1, <2>1, <2>2, SkyMoves
        DEF Events!Next, Events!Land, Events!Moves, SkyOfAll
<1>3. CASE situation # "ground"
  <2>1. Sky(p)' = "up" /\ event' = NoEvent
    BY <1>3 DEF Sky
  <2> QED BY <1>1, <2>1, SkyStays DEF Events!Next, Events!Quiet, SkyOfAll
<1> QED BY <1>2, <1>3

LEMMA FromAirMaps ==
  ASSUME RecordsInv, NEW p \in Planes, NEW situation \in Situations,
         FromAir(p, situation)
  PROVE  Events!Next
<1> USE DEF RecordsInv, TypeOK, TimerOnlyAtRest, FromAir, ChangeState, Emit,
            EmitNothing, NextState, Situations
<1>1. Only(p) /\ removed' = removed /\ Sky(p) = "up" /\ ~ landingTimer[p]
  BY DEF Only, Sky
<1>2. CASE situation = "ground" /\ p \notin Motorgliders
  <2>1. Sky(p)' = "down"
    BY <1>1, <1>2 DEF Sky
  <2>2. event' \in Events!Reported("landing", p)
    BY <1>2 DEF Events!Reported
  <2> QED BY <1>1, <2>1, <2>2, SkyMoves
        DEF Events!Next, Events!Land, Events!Moves, SkyOfAll
<1>3. CASE ~ (situation = "ground" /\ p \notin Motorgliders)
  <2>1. Sky(p)' = "up"
    BY <1>1, <1>3 DEF Sky
  <2>2. event' \in Events!Reported("touchAndGo", p) \cup {NoEvent}
    BY <1>3 DEF Events!Reported
  <2>3. SkyOfAll' = SkyOfAll /\ SkyOfAll[p] = "up"
    BY <1>1, <2>1, SkyStays DEF SkyOfAll
  <2> QED BY <1>1, <2>2, <2>3
        DEF Events!Next, Events!Quiet, Events!TouchAndGo, SkyOfAll
<1> QED BY <1>2, <1>3

LEMMA KeepaliveMaps ==
  ASSUME RecordsInv, NEW p \in Planes, KeepaliveTimeout(p)
  PROVE  Events!Next
<1> USE DEF RecordsInv, TypeOK, TimerOnlyAtRest, KeepaliveTimeout, ChangeState, Emit,
            EmitNothing
<1>1. Only(p) /\ Sky(p)' = "unseen" /\ Sky(p) \in {"unseen", "down", "up"}
  BY DEF Only, Sky
<1>2. SkyOfAll' = [SkyOfAll EXCEPT ![p] = "unseen"] /\ SkyOfAll[p] = Sky(p)
  BY <1>1, SkyMoves DEF SkyOfAll
<1>3. CASE state[p] = "landing"
  <2>1. Sky(p) = "up" /\ removed' = removed
    BY <1>3 DEF Sky
  <2>2. event' \in Events!Reported("landing", p)
    BY <1>3 DEF Events!Reported
  <2> QED BY <1>2, <2>1, <2>2
        DEF Events!Next, Events!DisappearLanding, Events!Moves, SkyOfAll
<1>4. CASE state[p] # "landing" /\ landingTimer[p]
  <2>1. Sky(p) = "up" /\ removed' = [removed EXCEPT ![p] = @ + 1]
    BY <1>4 DEF Sky
  <2> QED BY <1>2, <1>4, <2>1
        DEF Events!Next, Events!DisappearOwing, Events!Moves, SkyOfAll
<1>5. CASE state[p] # "landing" /\ ~ landingTimer[p]
  <2>1. removed' = removed /\ event' = NoEvent
    BY <1>5
  <2>2. CASE Sky(p) = "unseen"
    BY <1>1, <2>1, <2>2, SkyStays DEF Events!Next, Events!Quiet, SkyOfAll
  <2>3. CASE Sky(p) # "unseen"
    BY <1>2, <2>1, <2>3 DEF Events!Next, Events!Disappear, SkyOfAll
  <2> QED BY <2>2, <2>3
<1> QED BY <1>3, <1>4, <1>5

LEMMA LandingTimeoutMaps ==
  ASSUME RecordsInv, NEW p \in Planes, LandingTimeout(p)
  PROVE  Events!Next
<1> USE DEF RecordsInv, TypeOK, TimerOnlyAtRest, LandingTimeout, Emit
<1>1. Only(p) /\ Sky(p) = "up" /\ Sky(p)' = "down"
  BY DEF Only, Sky
<1>2. event' \in Events!Reported("landing", p)
  BY DEF Events!Reported
<1> QED BY <1>1, <1>2, SkyMoves
      DEF Events!Next, Events!Land, Events!Moves, SkyOfAll

LEMMA RemovedLandingTimeoutMaps ==
  ASSUME RecordsInv, NEW p \in Planes, RemovedLandingTimeout(p)
  PROVE  Events!Next
<1> USE DEF RecordsInv, TypeOK, RemovedLandingTimeout, Emit
<1>1. event' \in Events!Reported("landing", p)
  BY DEF Events!Reported
<1>2. SkyOfAll' = SkyOfAll
  BY DEF SkyOfAll, Sky
<1> QED BY <1>1, <1>2 DEF Events!Next, Events!LandLate, SkyOfAll

LEMMA StepMaps == RecordsInv /\ [RecordsNext]_recordVars => [Events!Next]_(Events!vars)
<1> SUFFICES ASSUME RecordsInv, [RecordsNext]_recordVars
             PROVE  Events!Next \/ UNCHANGED Events!vars
  OBVIOUS
<1>1. CASE UNCHANGED recordVars
  BY <1>1 DEF recordVars, Events!vars, Sky
<1>2. ASSUME NEW p \in Planes, RecordStep(p) PROVE Events!Next
  BY <1>2, NewRecordMaps, FromUnknownMaps, FromGroundMaps, FromStartingMaps,
     FromAirMaps, KeepaliveMaps, LandingTimeoutMaps, RemovedLandingTimeoutMaps
  DEF RecordStep, Sentence
<1> QED BY <1>1, <1>2 DEF RecordsNext

(* The departures, landings and touch-and-goes that the main window hears  *)
(* of fit together, whatever records are removed and created anew          *)
(* (FlarmRecord::stateTransition, keepaliveTimeout and landingTimeout).    *)
THEOREM RecordsImplementEvents == RecordsSpec => ImplementsEvents
<1>1. RecordsSafety => []RecordsInv
  BY InitIInv, StepIInv, PTL DEF RecordsSafety
<1>2. RecordsSafety => Events!Spec
  BY <1>1, InitMaps, StepMaps, PTL DEF RecordsSafety, Events!Spec
<1> QED BY <1>2, PTL DEF RecordsSpec, ImplementsEvents

HIDE RecordsAssumption DEF Kinds, Reports, States

-----------------------------------------------------------------------------
(* What the book knows of a plane *)

\* p is the plane of f, or its towplane
AsFlight(p, f) == f.flarmId = p \/ (p \in Known /\ f.plane = p)
AsTow(p, f)    == p \in Known /\ f.tow = p

\* f shows p in the air; it has p prepared
Air(p, f)   == \/ IsFlying(f) /\ AsFlight(p, f)
               \/ IsTowFlying(f) /\ AsTow(p, f)
Ready(p, f) == /\ IsPrepared(f) /\ DepartsHere(f)
               /\ AsFlight(p, f) \/ (IsAirtow(f) /\ AsTow(p, f))

IsUp(p) == \E id \in Ids : Air(p, flights[id])

\* nothing but one flight, or one towflight, shows p in the air
OnceUp(p) == \A i, j \in Ids :
               Air(p, flights[i]) /\ Air(p, flights[j])
                 => /\ i = j
                    /\ ~ (/\ IsFlying(flights[i]) /\ AsFlight(p, flights[i])
                          /\ IsTowFlying(flights[i]) /\ AsTow(p, flights[i]))

FlightShape(f) ==
  /\ f.flarmId # NoPlane =>
       /\ f.mode \in {"local", "coming"}
       /\ f.plane = IF f.flarmId \in Known THEN f.flarmId ELSE NoPlane
  /\ f.departed => DepartsHere(f)
  /\ f.landed => LandsHere(f)
  /\ (f.landed \/ f.towLanded) /\ DepartsHere(f) => f.departed

Contiguous == Stored = 1 .. Cardinality(Stored)

FlightsOK ==
  /\ flights \in [Ids -> Flights \cup {NoFlight}]
  /\ \A id \in Stored : FlightShape(flights[id])
  /\ Contiguous

TrackersOK ==
  /\ recent \in [Kinds -> SUBSET Planes]
  /\ moved \in [Kinds -> SUBSET Planes]
  /\ departedBy \in [Ids -> Planes \cup {NoPlane}]
  /\ clean \in SUBSET Planes

\* the way from what Flarm sees to what the book has
PlaneShown(p) ==
  /\ removed[p] = 0
  /\ p \in recent["landing"] => p \in moved["landing"]
  /\ p \in recent["departure"] /\ p \notin moved["departure"] =>
       HasLeft(p) \/ (Sky(p) # "up" /\ IsUp(p))
  /\ OnceUp(p)
  /\ Sky(p) = "up" => HasLeft(p) \/ IsUp(p)
  /\ Sky(p) # "up" =>
       \A id \in Ids : Air(p, flights[id]) => departedBy[id] # p

ShownInv == \A p \in clean : PlaneShown(p)
-----------------------------------------------------------------------------
(* Lookups *)

LEMMA FirstOf ==
  ASSUME NEW m \in SUBSET (1 .. 6), m # {}
  PROVE  \E i \in m : \A j \in m : i <= j
<1>1. CASE 1 \in m
  BY <1>1
<1>2. CASE 1 \notin m /\ 2 \in m
  BY <1>2
<1>3. CASE 1 \notin m /\ 2 \notin m /\ 3 \in m
  BY <1>3
<1>4. CASE 1 \notin m /\ 2 \notin m /\ 3 \notin m /\ 4 \in m
  BY <1>4
<1>5. CASE 1 \notin m /\ 2 \notin m /\ 3 \notin m /\ 4 \notin m
  <2>1. m \subseteq {5, 6}
    BY <1>5
  <2>2. CASE 5 \in m
    <3>1. 5 \in m /\ \A j \in m : 5 <= j
      BY <2>1, <2>2
    <3> QED BY <3>1
  <2>3. CASE 5 \notin m
    <3>1. m = {6}
      BY <2>1, <2>3
    <3> QED BY <3>1
  <2> QED BY <2>2, <2>3
<1> QED BY <1>1, <1>2, <1>3, <1>4, <1>5

LEMMA FirstMatchIn ==
  ASSUME NEW tiers, DOMAIN tiers \subseteq 1 .. 6
  PROVE  /\ \A r \in FirstMatch(tiers) : \E i \in DOMAIN tiers : r \in tiers[i]
         /\ FirstMatch(tiers) = {} => \A i \in DOMAIN tiers : tiers[i] = {}
<1> DEFINE m == {i \in DOMAIN tiers : tiers[i] # {}}
<1>1. CASE m = {}
  BY <1>1 DEF FirstMatch
<1>2. CASE m # {}
  <2> DEFINE c == CHOOSE i \in m : \A j \in m : i <= j
  <2>1. c \in m
    BY <1>2, FirstOf
  <2>2. FirstMatch(tiers) = tiers[c]
    BY <1>2 DEF FirstMatch
  <2> QED BY <2>1, <2>2
<1> QED BY <1>1, <1>2

\* the candidates, as statements about one flight
LEMMA RefsMembers ==
  /\ \A r \in PreparedFlights : r.id \in Stored /\ ~ r.tow /\ IsPrepared(flights[r.id])
  /\ \A r \in PreparedTowflights :
       r.id \in Stored /\ r.tow /\ IsPrepared(flights[r.id]) /\ IsAirtow(flights[r.id])
  /\ \A r \in FlyingFlights : r.id \in Stored /\ ~ r.tow /\ IsFlying(flights[r.id])
  /\ \A r \in FlyingTowflights : r.id \in Stored /\ r.tow /\ IsTowFlying(flights[r.id])
BY DEF PreparedFlights, PreparedTowflights, FlyingFlights, FlyingTowflights, Refs

LEMMA RefsComplete ==
  ASSUME NEW id \in Stored
  PROVE  /\ IsPrepared(flights[id]) => [id |-> id, tow |-> FALSE] \in PreparedFlights
         /\ IsPrepared(flights[id]) /\ IsAirtow(flights[id])
              => [id |-> id, tow |-> TRUE] \in PreparedTowflights
         /\ IsFlying(flights[id]) => [id |-> id, tow |-> FALSE] \in FlyingFlights
         /\ IsTowFlying(flights[id]) => [id |-> id, tow |-> TRUE] \in FlyingTowflights
BY DEF PreparedFlights, PreparedTowflights, FlyingFlights, FlyingTowflights, Refs

LEMMA FlyingFound ==
  ASSUME NEW p \in Planes, NEW r \in LookupFlying(p)
  PROVE  /\ r.id \in Stored
         /\ ~ r.tow => IsFlying(flights[r.id]) /\ AsFlight(p, flights[r.id])
         /\ r.tow => IsTowFlying(flights[r.id]) /\ AsTow(p, flights[r.id])
<1> DEFINE tiers == <<ByFlarmId(FlyingFlights, p), ByPlane(FlyingFlights, p),
                      ByPlane(FlyingTowflights, p)>>
<1>1. DOMAIN tiers = 1 .. 3 /\ DOMAIN tiers \subseteq 1 .. 6
  OBVIOUS
<1>2. PICK i \in 1 .. 3 : r \in tiers[i]
  BY <1>1, FirstMatchIn DEF LookupFlying
<1>3. i \in {1, 2, 3}
  OBVIOUS
<1>4. \/ r \in ByFlarmId(FlyingFlights, p) \/ r \in ByPlane(FlyingFlights, p)
      \/ r \in ByPlane(FlyingTowflights, p)
  BY <1>2, <1>3
<1> QED BY <1>4, RefsMembers DEF ByFlarmId, ByPlane, AsFlight, AsTow

LEMMA FlyingNotFound ==
  ASSUME NEW p \in Planes, LookupFlying(p) = {}, NEW id \in Stored
  PROVE  ~ Air(p, flights[id])
<1> DEFINE tiers == <<ByFlarmId(FlyingFlights, p), ByPlane(FlyingFlights, p),
                      ByPlane(FlyingTowflights, p)>>
<1>1. DOMAIN tiers = 1 .. 3 /\ DOMAIN tiers \subseteq 1 .. 6
  OBVIOUS
<1>2. \A i \in 1 .. 3 : tiers[i] = {}
  BY <1>1, FirstMatchIn DEF LookupFlying
<1>3. tiers[1] = {} /\ tiers[2] = {} /\ tiers[3] = {}
  BY <1>2
<1>4. /\ ByFlarmId(FlyingFlights, p) = {} /\ ByPlane(FlyingFlights, p) = {}
      /\ ByPlane(FlyingTowflights, p) = {}
  BY <1>3
<1> HIDE DEF tiers
<1> DEFINE flight == [id |-> id, tow |-> FALSE]
<1> DEFINE towed  == [id |-> id, tow |-> TRUE]
<1>5. IsFlying(flights[id]) => ~ AsFlight(p, flights[id])
  <2> SUFFICES ASSUME IsFlying(flights[id]) PROVE ~ AsFlight(p, flights[id])
    OBVIOUS
  <2>1. flight \in FlyingFlights /\ flight.id = id /\ flight.tow = FALSE
    BY RefsComplete
  <2> QED BY <1>4, <2>1 DEF ByFlarmId, ByPlane, AsFlight
<1>6. IsTowFlying(flights[id]) => ~ AsTow(p, flights[id])
  <2> SUFFICES ASSUME IsTowFlying(flights[id]) PROVE ~ AsTow(p, flights[id])
    OBVIOUS
  <2>1. towed \in FlyingTowflights /\ towed.id = id /\ towed.tow = TRUE
    BY RefsComplete
  <2> QED BY <1>4, <2>1 DEF ByPlane, AsTow
<1> QED BY <1>5, <1>6 DEF Air

LEMMA DepartureFound ==
  ASSUME NEW p \in Planes, NEW r \in LookupForDeparture(p)
  PROVE  /\ r.id \in Stored
         /\ \/ /\ IsPrepared(flights[r.id]) \/ IsFlying(flights[r.id])
               /\ AsFlight(p, flights[r.id])
            \/ /\ IsPrepared(flights[r.id]) \/ IsTowFlying(flights[r.id])
               /\ IsAirtow(flights[r.id])
               /\ AsTow(p, flights[r.id])
<1> DEFINE tiers == <<ByFlarmId(PreparedFlights, p), ByFlarmId(FlyingFlights, p),
               ByPlane(PreparedFlights, p), ByPlane(PreparedTowflights, p),
               ByPlane(FlyingFlights, p), ByPlane(FlyingTowflights, p)>>
<1>1. DOMAIN tiers = 1 .. 6 /\ DOMAIN tiers \subseteq 1 .. 6
  OBVIOUS
<1>2. PICK i \in 1 .. 6 : r \in tiers[i]
  BY <1>1, FirstMatchIn DEF LookupForDeparture
<1>3. i \in {1, 2, 3, 4, 5, 6}
  OBVIOUS
<1>4. \/ r \in ByFlarmId(PreparedFlights, p) \/ r \in ByFlarmId(FlyingFlights, p)
      \/ r \in ByPlane(PreparedFlights, p) \/ r \in ByPlane(PreparedTowflights, p)
      \/ r \in ByPlane(FlyingFlights, p) \/ r \in ByPlane(FlyingTowflights, p)
  BY <1>2, <1>3
<1> QED BY <1>4, RefsMembers DEF ByFlarmId, ByPlane, AsFlight, AsTow, IsTowFlying

LEMMA DepartureNotFound ==
  ASSUME NEW p \in Planes, LookupForDeparture(p) = {}, NEW id \in Stored
  PROVE  ~ Air(p, flights[id])
<1> DEFINE tiers == <<ByFlarmId(PreparedFlights, p), ByFlarmId(FlyingFlights, p),
               ByPlane(PreparedFlights, p), ByPlane(PreparedTowflights, p),
               ByPlane(FlyingFlights, p), ByPlane(FlyingTowflights, p)>>
<1>1. DOMAIN tiers = 1 .. 6 /\ DOMAIN tiers \subseteq 1 .. 6
  OBVIOUS
<1>2. \A i \in 1 .. 6 : tiers[i] = {}
  BY <1>1, FirstMatchIn DEF LookupForDeparture
<1>3. /\ tiers[1] = {} /\ tiers[2] = {} /\ tiers[3] = {}
      /\ tiers[4] = {} /\ tiers[5] = {} /\ tiers[6] = {}
  BY <1>2
<1>4. /\ ByFlarmId(PreparedFlights, p) = {} /\ ByFlarmId(FlyingFlights, p) = {}
      /\ ByPlane(PreparedFlights, p) = {} /\ ByPlane(PreparedTowflights, p) = {}
      /\ ByPlane(FlyingFlights, p) = {} /\ ByPlane(FlyingTowflights, p) = {}
  BY <1>3
<1> HIDE DEF tiers
<1> DEFINE flight == [id |-> id, tow |-> FALSE]
<1> DEFINE towed  == [id |-> id, tow |-> TRUE]
<1>5. flight.id = id /\ flight.tow = FALSE /\ towed.id = id /\ towed.tow = TRUE
  OBVIOUS
<1>6. IsFlying(flights[id]) => ~ AsFlight(p, flights[id])
  BY <1>4, <1>5, RefsComplete DEF ByFlarmId, ByPlane, AsFlight
<1>7. IsTowFlying(flights[id]) => ~ AsTow(p, flights[id])
  BY <1>4, <1>5, RefsComplete DEF ByPlane, AsTow
<1> QED BY <1>6, <1>7 DEF Air

\* what is prepared for a plane
LEMMA PreparedForIs ==
  ASSUME NEW p \in Planes, NEW id \in Stored, IsPrepared(flights[id]),
         AsFlight(p, flights[id]) \/ (IsAirtow(flights[id]) /\ AsTow(p, flights[id]))
  PROVE  \E r \in PreparedFor(p) : r.id = id
<1> DEFINE flight == [id |-> id, tow |-> FALSE]
<1> DEFINE towed  == [id |-> id, tow |-> TRUE]
<1>1. flight.id = id /\ flight.tow = FALSE /\ towed.id = id /\ towed.tow = TRUE
  OBVIOUS
<1>2. CASE AsFlight(p, flights[id])
  <2>1. flight \in PreparedFlights
    BY RefsComplete
  <2> QED BY <1>1, <1>2, <2>1 DEF PreparedFor, ByFlarmId, ByPlane, AsFlight
<1>3. CASE IsAirtow(flights[id]) /\ AsTow(p, flights[id])
  <2>1. towed \in PreparedTowflights
    BY <1>3, RefsComplete
  <2> QED BY <1>1, <1>3, <2>1 DEF PreparedFor, ByPlane, AsTow
<1> QED BY <1>2, <1>3

\* what the book shows in the air
LEMMA InTheAirIs ==
  ASSUME NEW p \in Planes
  PROVE  /\ InTheAir(p) # {} <=> IsUp(p)
         /\ \A r \in InTheAir(p) : r.id \in Ids /\ Air(p, flights[r.id])
         /\ ~ InTheAirTwice(p) => OnceUp(p)
<1>1. ASSUME NEW r \in InTheAir(p) PROVE r.id \in Ids /\ Air(p, flights[r.id])
  <2>1. \/ r \in ByFlarmId(FlyingFlights, p) \/ r \in ByPlane(FlyingFlights, p)
        \/ r \in ByPlane(FlyingTowflights, p)
    BY <1>1 DEF InTheAir, ByPlane
  <2> QED BY <2>1, RefsMembers DEF ByPlane, ByFlarmId, Air, AsFlight, AsTow, Stored
<1>2. ASSUME NEW id \in Ids
      PROVE  /\ IsFlying(flights[id]) /\ AsFlight(p, flights[id])
                  => [id |-> id, tow |-> FALSE] \in InTheAir(p)
             /\ IsTowFlying(flights[id]) /\ AsTow(p, flights[id])
                  => [id |-> id, tow |-> TRUE] \in InTheAir(p)
  <2> DEFINE flight == [id |-> id, tow |-> FALSE]
  <2> DEFINE towed  == [id |-> id, tow |-> TRUE]
  <2>1. flight.id = id /\ flight.tow = FALSE /\ towed.id = id /\ towed.tow = TRUE
    OBVIOUS
  <2>2. IsFlying(flights[id]) \/ IsTowFlying(flights[id]) => id \in Stored
    BY DEF IsFlying, IsTowFlying, IsAirtow, DepartsHere, LandsHere, NoFlight, Stored
  <2>3. ASSUME IsFlying(flights[id]), AsFlight(p, flights[id])
        PROVE  flight \in InTheAir(p)
    <3>1. flight \in FlyingFlights
      BY <2>2, <2>3, RefsComplete
    <3> HIDE DEF flight
    <3> QED BY <2>1, <2>3, <3>1 DEF InTheAir, ByPlane, ByFlarmId, AsFlight
  <2>4. ASSUME IsTowFlying(flights[id]), AsTow(p, flights[id])
        PROVE  towed \in InTheAir(p)
    <3>1. towed \in FlyingTowflights
      BY <2>2, <2>4, RefsComplete
    <3> HIDE DEF towed
    <3> QED BY <2>1, <2>4, <3>1 DEF InTheAir, ByPlane, AsTow
  <2> QED BY <2>3, <2>4
<1>3. IsUp(p) => InTheAir(p) # {}
  BY <1>2 DEF IsUp, Air
<1>4. InTheAir(p) # {} => IsUp(p)
  BY <1>1 DEF IsUp
<1>5. ASSUME ~ InTheAirTwice(p), NEW i \in Ids, NEW j \in Ids,
             Air(p, flights[i]), Air(p, flights[j])
      PROVE  /\ i = j
             /\ ~ (/\ IsFlying(flights[i]) /\ AsFlight(p, flights[i])
                   /\ IsTowFlying(flights[i]) /\ AsTow(p, flights[i]))
  <2>1. PICK r \in InTheAir(p) : r.id = i
    BY <1>2, <1>5 DEF Air
  <2>2. PICK s \in InTheAir(p) : s.id = j
    BY <1>2, <1>5 DEF Air
  <2>3. [id |-> i, tow |-> FALSE] # [id |-> i, tow |-> TRUE]
    OBVIOUS
  <2> QED BY <1>2, <1>5, <2>1, <2>2, <2>3 DEF InTheAirTwice
<1> QED BY <1>1, <1>3, <1>4, <1>5 DEF OnceUp

-----------------------------------------------------------------------------
(* What departures and landings do to a flight *)

LEMMA StoredIs ==
  ASSUME FlightsOK, NEW id \in Stored
  PROVE  id \in Ids /\ flights[id] \in Flights /\ FlightShape(flights[id])
BY DEF FlightsOK, Stored

LEMMA NoFlightIs ==
  ASSUME NEW p PROVE ~ Air(p, NoFlight)
BY DEF Air, IsFlying, IsTowFlying, IsAirtow, DepartsHere, LandsHere,
       NoFlight

LEMMA FlightsSeparate ==
  NoFlight \notin Flights
<1>1. \A f \in Flights : f.mode # "none"
  BY DEF Flights
<1>2. NoFlight.mode = "none"
  BY DEF NoFlight
<1> QED BY <1>1, <1>2

LEMMA OnePlaneEach ==
  ASSUME NEW f \in Flights, FlightShape(f), NEW p \in Planes, NEW q \in Planes,
         AsFlight(p, f), AsFlight(q, f)
  PROVE  p = q
BY FlightsAssumption DEF AsFlight, FlightShape, Flights

SameButTimes(f, g) ==
  /\ g \in Flights
  /\ g.plane = f.plane /\ g.flarmId = f.flarmId /\ g.tow = f.tow /\ g.mode = f.mode

LEMMA DepartedFlight ==
  ASSUME NEW f \in Flights, FlightShape(f), CanDepart(f),
         NEW g, g = [f EXCEPT !.departed = TRUE]
  PROVE  /\ SameButTimes(f, g) /\ FlightShape(g) /\ g.departed
         /\ \A p \in Planes : /\ ~ Air(p, f)
                              /\ Ready(p, f) => \/ Air(p, g)
                                                \/ g.mode = "leaving" /\ AsFlight(p, g)
                              /\ AsFlight(p, f) \/ (IsAirtow(f) /\ AsTow(p, f)) => Ready(p, f)
<1>1. /\ SameButTimes(f, g) /\ g.departed /\ g.landed = f.landed
      /\ g.towLanded = f.towLanded /\ DepartsHere(f) /\ ~ f.departed
  BY DEF SameButTimes, Flights, CanDepart
<1>2. ~ f.landed /\ ~ f.towLanded /\ DepartsHere(g) /\ (LandsHere(g) <=> LandsHere(f))
      /\ (IsAirtow(g) <=> IsAirtow(f))
  BY <1>1 DEF FlightShape, DepartsHere, LandsHere, SameButTimes, IsAirtow
<1>3. FlightShape(g)
  BY <1>1, <1>2 DEF FlightShape, SameButTimes
<1>4. ASSUME NEW p \in Planes
      PROVE  (AsFlight(p, g) <=> AsFlight(p, f)) /\ (AsTow(p, g) <=> AsTow(p, f))
  BY <1>1 DEF AsFlight, AsTow, SameButTimes
<1>5. /\ IsPrepared(f) /\ ~ IsFlying(f) /\ ~ IsTowFlying(f) /\ ~ IsPrepared(g)
  BY <1>1, <1>2 DEF IsPrepared, Happened, IsFlying, IsTowFlying
<1>6. /\ LandsHere(g) => IsFlying(g)
      /\ IsAirtow(g) => IsTowFlying(g)
      /\ ~ LandsHere(g) => g.mode = "leaving"
  BY <1>1, <1>2 DEF IsFlying, IsTowFlying, DepartsHere, LandsHere
<1>7. ASSUME NEW p \in Planes
      PROVE  /\ ~ Air(p, f)
             /\ Ready(p, f) => Air(p, g) \/ (g.mode = "leaving" /\ AsFlight(p, g))
             /\ AsFlight(p, f) \/ (IsAirtow(f) /\ AsTow(p, f)) => Ready(p, f)
  <2>1. ~ Air(p, f)
    BY <1>5 DEF Air
  <2>2. Ready(p, f) <=> (AsFlight(p, f) \/ (IsAirtow(f) /\ AsTow(p, f)))
    BY <1>1, <1>5 DEF Ready
  <2> QED BY <2>1, <2>2, <1>2, <1>4, <1>6 DEF Air
<1> QED BY <1>1, <1>3, <1>7

LEMMA LandedFlight ==
  ASSUME NEW f \in Flights, FlightShape(f), CanLand(f),
         NEW g, g = [f EXCEPT !.landed = TRUE]
  PROVE  /\ SameButTimes(f, g) /\ FlightShape(g) /\ g.departed = f.departed
         /\ ~ IsPrepared(g)
         /\ \A p \in Planes :
              /\ Air(p, g) <=> IsTowFlying(f) /\ AsTow(p, f)
              /\ ~ AsFlight(p, f) => (Air(p, g) <=> Air(p, f))
<1>1. /\ SameButTimes(f, g) /\ g.departed = f.departed /\ g.landed
      /\ g.towLanded = f.towLanded /\ LandsHere(f) /\ ~ f.landed
      /\ DepartsHere(f) => f.departed
  BY DEF SameButTimes, Flights, CanLand
<1>2. (DepartsHere(g) <=> DepartsHere(f)) /\ LandsHere(g) /\ (IsAirtow(g) <=> IsAirtow(f))
  BY <1>1 DEF DepartsHere, LandsHere, SameButTimes, IsAirtow
<1>3. FlightShape(g)
  BY <1>1, <1>2 DEF FlightShape, SameButTimes
<1>4. ~ IsFlying(g) /\ ~ IsPrepared(g)
  BY <1>1, <1>2 DEF IsPrepared, Happened, IsFlying
<1>5. IsTowFlying(g) <=> IsTowFlying(f)
  BY <1>1, <1>2 DEF IsTowFlying
<1>6. ASSUME NEW p \in Planes
      PROVE  (AsFlight(p, g) <=> AsFlight(p, f)) /\ (AsTow(p, g) <=> AsTow(p, f))
  BY <1>1 DEF AsFlight, AsTow, SameButTimes
<1>7. ASSUME NEW p \in Planes
      PROVE  Air(p, g) <=> IsTowFlying(f) /\ AsTow(p, f)
  BY <1>4, <1>5, <1>6 DEF Air
<1> QED BY <1>1, <1>3, <1>4, <1>7 DEF Air

LEMMA TowLandedFlight ==
  ASSUME NEW f \in Flights, FlightShape(f), IsAirtow(f), CanTowLand(f),
         NEW g, g = [f EXCEPT !.towLanded = TRUE]
  PROVE  /\ SameButTimes(f, g) /\ FlightShape(g) /\ g.departed = f.departed
         /\ ~ IsPrepared(g)
         /\ \A p \in Planes :
              /\ Air(p, g) <=> IsFlying(f) /\ AsFlight(p, f)
              /\ ~ AsTow(p, f) => (Air(p, g) <=> Air(p, f))
<1>1. /\ SameButTimes(f, g) /\ g.departed = f.departed /\ g.landed = f.landed
      /\ g.towLanded /\ DepartsHere(f) /\ f.departed
  BY DEF SameButTimes, Flights, CanTowLand, IsAirtow
<1>2. (LandsHere(g) <=> LandsHere(f)) /\ DepartsHere(g) /\ IsAirtow(g)
  BY <1>1 DEF DepartsHere, LandsHere, SameButTimes, IsAirtow
<1>3. FlightShape(g)
  BY <1>1, <1>2 DEF FlightShape, SameButTimes
<1>4. ~ IsTowFlying(g) /\ ~ IsPrepared(g) /\ ~ IsPrepared(f)
  BY <1>1, <1>2 DEF IsPrepared, Happened, IsTowFlying
<1>5. IsFlying(g) <=> IsFlying(f)
  BY <1>1, <1>2 DEF IsFlying
<1>6. ASSUME NEW p \in Planes
      PROVE  AsFlight(p, g) <=> AsFlight(p, f)
  BY <1>1 DEF AsFlight, SameButTimes
<1>7. ASSUME NEW p \in Planes
      PROVE  Air(p, g) <=> IsFlying(f) /\ AsFlight(p, f)
  BY <1>4, <1>5, <1>6 DEF Air
<1> QED BY <1>1, <1>3, <1>4, <1>7 DEF Air

-----------------------------------------------------------------------------
(* Steps of the book *)

\* one flight departs, lands, or its towplane lands
Departs(id) == /\ CanDepart(flights[id])
               /\ flights' = [flights EXCEPT ![id] = [flights[id] EXCEPT !.departed = TRUE]]
Lands(id) == /\ CanLand(flights[id])
             /\ flights' = [flights EXCEPT ![id] = [flights[id] EXCEPT !.landed = TRUE]]
LandsTow(id) == /\ IsAirtow(flights[id]) /\ CanTowLand(flights[id])
                /\ flights' = [flights EXCEPT ![id] = [flights[id] EXCEPT !.towLanded = TRUE]]

\* a flight is created
Enters(f) ==
  /\ Cardinality(Stored) < MaxFlights
  /\ flights' = [flights EXCEPT ![Cardinality(Stored) + 1] = f]
  /\ f \in Flights /\ FlightShape(f)

LEMMA FreeId ==
  ASSUME FlightsOK, Cardinality(Stored) < MaxFlights
  PROVE  /\ Cardinality(Stored) + 1 \in Ids
         /\ flights[Cardinality(Stored) + 1] = NoFlight
         /\ \A f \in Flights : flights' = [flights EXCEPT ![Cardinality(Stored) + 1] = f]
               => Contiguous'
<1> DEFINE c == Cardinality(Stored)
<1>1. IsFiniteSet(Ids) /\ Stored \subseteq Ids
  BY FS_Interval, FlightsAssumption DEF Ids, Stored
<1>2. IsFiniteSet(Stored) /\ c \in Nat
  BY <1>1, FS_Subset, FS_CardinalityType
<1>3. Stored = 1 .. c
  BY DEF FlightsOK, Contiguous
<1>4. c + 1 \in Ids /\ c + 1 \notin Stored
  <2> HIDE DEF c
  <2> QED BY <1>2, <1>3, FlightsAssumption DEF Ids, c
<1>5. flights[c + 1] = NoFlight
  BY <1>4 DEF Stored
<1>6. ASSUME NEW f \in Flights, flights' = [flights EXCEPT ![c + 1] = f]
      PROVE  Contiguous'
  <2>1. f # NoFlight
    BY FlightsSeparate
  <2>2. \A id \in Ids : flights'[id] = IF id = c + 1 THEN f ELSE flights[id]
    BY <1>6 DEF FlightsOK
  <2>3. Stored' = Stored \cup {c + 1}
    BY <2>1, <2>2, <1>4 DEF Stored
  <2>4. Stored' = 1 .. c + 1
    <3> HIDE DEF c
    <3> QED BY <2>3, <1>2, <1>3
  <2>5. Cardinality(Stored') = c + 1
    BY <2>3, <1>2, <1>4, FS_AddElement
  <2> QED BY <2>4, <2>5 DEF Contiguous
<1> QED BY <1>4, <1>5, <1>6

\* what stays true of the other flights
LEMMA UpdateKeeps ==
  ASSUME FlightsOK, NEW id \in Stored, NEW g, SameButTimes(flights[id], g),
         FlightShape(g), flights[id].departed => g.departed,
         flights' = [flights EXCEPT ![id] = g]
  PROVE  /\ FlightsOK'
         /\ \A p \in Planes : HasLeft(p) => HasLeft(p)'
<1>1. id \in Ids /\ flights[id] \in Flights /\ g \in Flights /\ g # NoFlight
  BY StoredIs, FlightsSeparate DEF FlightsOK, SameButTimes
<1>2. \A i \in Ids : flights'[i] = IF i = id THEN g ELSE flights[i]
  BY DEF FlightsOK
<1>3. Stored' = Stored
  BY <1>1, <1>2 DEF Stored
<1>4. flights' \in [Ids -> Flights \cup {NoFlight}]
  BY <1>1 DEF FlightsOK
<1>5. \A i \in Stored' : FlightShape(flights'[i])
  BY <1>2, <1>3 DEF FlightsOK, Stored
<1>6. Contiguous'
  BY <1>3 DEF FlightsOK, Contiguous
<1>8. \A p \in Planes : HasLeft(p) => HasLeft(p)'
  BY <1>2, <1>3 DEF HasLeft, Stored, SameButTimes
<1>9. FlightsOK'
  BY <1>4, <1>5, <1>6 DEF FlightsOK
<1> QED BY <1>8, <1>9

LEMMA EnterKeeps ==
  ASSUME FlightsOK, NEW f, Enters(f)
  PROVE  /\ FlightsOK'
         /\ \A p \in Planes : HasLeft(p) => HasLeft(p)'
         /\ \E n \in Ids : /\ flights[n] = NoFlight
                           /\ flights' = [flights EXCEPT ![n] = f]
<1> DEFINE n == Cardinality(Stored) + 1
<1>1. n \in Ids /\ flights[n] = NoFlight /\ Contiguous' /\ f # NoFlight
  BY FreeId, FlightsSeparate DEF FlightsOK, Enters
<1>2. \A i \in Ids : flights'[i] = IF i = n THEN f ELSE flights[i]
  BY DEF FlightsOK, Enters
<1> HIDE DEF n
<1>3. Stored' = Stored \cup {n}
  BY <1>1, <1>2 DEF Stored
<1>4. flights' \in [Ids -> Flights \cup {NoFlight}]
  BY <1>1, <1>2 DEF FlightsOK, Enters, n
<1>5. \A i \in Stored' : FlightShape(flights'[i])
  BY <1>2, <1>3 DEF FlightsOK, Stored, Enters
<1>7. \A p \in Planes : HasLeft(p) => HasLeft(p)'
  BY <1>1, <1>2, <1>3 DEF HasLeft, Stored
<1>8. FlightsOK'
  BY <1>1, <1>4, <1>5 DEF FlightsOK
<1> QED BY <1>1, <1>7, <1>8 DEF Enters, n

-----------------------------------------------------------------------------
(* What a step means for one plane *)

Unaffected(p) ==
  \A id \in Ids :
    Air(p, flights'[id]) <=> Air(p, flights[id])

\* no new event is on record, and what was counted as one move still is
NoNews(p, kind) ==
  /\ p \in recent'[kind] => p \in recent[kind]
  /\ p \in recent'[kind] /\ p \in moved[kind] => p \in moved'[kind]

LEMMA StaysShown ==
  ASSUME NEW p \in Planes, PlaneShown(p), Unaffected(p), HasLeft(p) => HasLeft(p)', OnceUp(p)',
         Sky(p)' = "up" <=> Sky(p) = "up", removed'[p] = removed[p],
         NoNews(p, "departure"), NoNews(p, "landing"),
         \A id \in Ids : departedBy'[id] = p => departedBy[id] = p
  PROVE  PlaneShown(p)'
<1>1. IsUp(p)' <=> IsUp(p)
  BY DEF IsUp, Unaffected
<1> USE DEF NoNews, PlaneShown
<1>2. (removed[p] = 0)' /\ (p \in recent["landing"] => p \in moved["landing"])'
  OBVIOUS
<1>3. (p \in recent["departure"] /\ p \notin moved["departure"] =>
         HasLeft(p) \/ (Sky(p) # "up" /\ IsUp(p)))'
  BY <1>1
<1>5. (Sky(p) = "up" => HasLeft(p) \/ IsUp(p))'
  BY <1>1
<1>6. (Sky(p) # "up" =>
         \A id \in Ids : Air(p, flights[id]) => departedBy[id] # p)'
  BY DEF Unaffected
<1> QED BY <1>2, <1>3, <1>5, <1>6

LEMMA UnaffectedSame ==
  ASSUME NEW p \in Planes, flights' = flights
  PROVE  Unaffected(p) /\ (HasLeft(p) => HasLeft(p)') /\ (OnceUp(p) => OnceUp(p)')
BY DEF Unaffected, HasLeft, Stored, OnceUp

LEMMA UnaffectedOther ==
  ASSUME NEW p \in Planes, flights \in [Ids -> Flights \cup {NoFlight}], NEW id \in Ids, NEW g,
         flights' = [flights EXCEPT ![id] = g],
         Air(p, g) <=> Air(p, flights[id])
  PROVE  Unaffected(p)
<1>1. \A i \in Ids : flights'[i] = IF i = id THEN g ELSE flights[i]
  OBVIOUS
<1> QED BY <1>1 DEF Unaffected

LEMMA DepartsMeans ==
  ASSUME FlightsOK, NEW id \in Stored, Departs(id)
  PROVE  /\ FlightsOK' /\ id \in Ids
         /\ \A p \in Planes :
              /\ HasLeft(p) => HasLeft(p)'
              /\ ~ AsFlight(p, flights[id])
                   /\ ~ (IsAirtow(flights[id]) /\ AsTow(p, flights[id]))
                 => Unaffected(p)
              /\ \A i \in Ids : i # id => flights'[i] = flights[i]
              /\ AsFlight(p, flights[id])
                   \/ (IsAirtow(flights[id]) /\ AsTow(p, flights[id]))
                 => /\ Ready(p, flights[id]) /\ ~ Air(p, flights[id])
                    /\ Air(p, flights'[id]) \/ HasLeft(p)'
<1> DEFINE f == flights[id]
<1> DEFINE g == [f EXCEPT !.departed = TRUE]
<1>1. id \in Ids /\ f \in Flights /\ FlightShape(f)
  BY StoredIs DEF FlightsOK
<1>2. CanDepart(f) /\ flights' = [flights EXCEPT ![id] = g]
  BY DEF Departs
<1> HIDE DEF g
<1>3. /\ SameButTimes(f, g) /\ FlightShape(g) /\ g.departed
      /\ \A p \in Planes : /\ ~ Air(p, f)
                           /\ Ready(p, f) => Air(p, g) \/ (g.mode = "leaving" /\ AsFlight(p, g))
                           /\ AsFlight(p, f) \/ (IsAirtow(f) /\ AsTow(p, f)) => Ready(p, f)
  BY <1>1, <1>2, DepartedFlight DEF g
<1> HIDE DEF f
<1>4. FlightsOK' /\ \A p \in Planes : HasLeft(p) => HasLeft(p)'
  BY <1>1, <1>2, <1>3, UpdateKeeps DEF f
<1>5. \A i \in Ids : flights'[i] = IF i = id THEN g ELSE flights[i]
  BY <1>2 DEF FlightsOK
<1>6. IsAirtow(g) <=> IsAirtow(f)
  BY <1>2, <1>3 DEF CanDepart, DepartsHere, SameButTimes, IsAirtow
<1>7. ASSUME NEW p \in Planes, ~ AsFlight(p, f), ~ (IsAirtow(f) /\ AsTow(p, f))
      PROVE  Unaffected(p)
  <2>1. ~ Air(p, g)
    BY <1>3, <1>6, <1>7 DEF Air, AsFlight, AsTow, SameButTimes, IsTowFlying
  <2> QED BY <1>1, <1>2, <1>3, <1>6, <2>1, UnaffectedOther DEF f, FlightsOK
<1>8. ASSUME NEW p \in Planes, AsFlight(p, f) \/ (IsAirtow(f) /\ AsTow(p, f))
      PROVE  Ready(p, f) /\ ~ Air(p, f) /\ (Air(p, g) \/ HasLeft(p)')
  <2>1. Ready(p, f) /\ ~ Air(p, f)
    BY <1>3, <1>8
  <2>3. g.mode = "leaving" /\ AsFlight(p, g) => HasLeft(p)'
    <3> SUFFICES ASSUME g.mode = "leaving", AsFlight(p, g) PROVE HasLeft(p)'
      OBVIOUS
    <3>1. g.plane = p
      BY <1>3, FlightsAssumption DEF FlightShape, AsFlight
    <3>2. g # NoFlight
      BY <1>3, FlightsSeparate DEF SameButTimes
    <3> QED BY <1>1, <1>3, <1>5, <3>1, <3>2 DEF HasLeft, Stored
  <2> QED BY <1>3, <2>1, <2>3
<1> QED BY <1>1, <1>4, <1>5, <1>7, <1>8 DEF f

LEMMA LandsMeans ==
  ASSUME FlightsOK, NEW id \in Stored, Lands(id)
  PROVE  /\ FlightsOK' /\ id \in Ids
         /\ \A p \in Planes :
              /\ HasLeft(p) => HasLeft(p)'
              /\ ~ AsFlight(p, flights[id]) => Unaffected(p)
              /\ Air(p, flights'[id])
                   => IsTowFlying(flights[id]) /\ AsTow(p, flights[id])
         /\ \A i \in Ids : i # id => flights'[i] = flights[i]
<1> DEFINE f == flights[id]
<1> DEFINE g == [f EXCEPT !.landed = TRUE]
<1>1. id \in Ids /\ f \in Flights /\ FlightShape(f)
  BY StoredIs DEF FlightsOK
<1>2. CanLand(f) /\ flights' = [flights EXCEPT ![id] = g]
  BY DEF Lands
<1> HIDE DEF g
<1>3. /\ SameButTimes(f, g) /\ FlightShape(g) /\ g.departed = f.departed
      /\ \A p \in Planes : /\ ~ AsFlight(p, f) => (Air(p, g) <=> Air(p, f))
                           /\ Air(p, g) => IsTowFlying(f) /\ AsTow(p, f)
  BY <1>1, <1>2, LandedFlight DEF g
<1> HIDE DEF f
<1>4. FlightsOK' /\ \A p \in Planes : HasLeft(p) => HasLeft(p)'
  BY <1>1, <1>2, <1>3, UpdateKeeps DEF f
<1>5. \A i \in Ids : flights'[i] = IF i = id THEN g ELSE flights[i]
  BY <1>2 DEF FlightsOK
<1>6. ASSUME NEW p \in Planes, ~ AsFlight(p, f) PROVE Unaffected(p)
  BY <1>1, <1>2, <1>3, <1>6, UnaffectedOther DEF f, FlightsOK
<1> QED BY <1>1, <1>3, <1>4, <1>5, <1>6 DEF f

LEMMA LandsTowMeans ==
  ASSUME FlightsOK, NEW id \in Stored, LandsTow(id)
  PROVE  /\ FlightsOK' /\ id \in Ids
         /\ \A p \in Planes :
              /\ HasLeft(p) => HasLeft(p)'
              /\ ~ AsTow(p, flights[id]) => Unaffected(p)
              /\ Air(p, flights'[id])
                   => IsFlying(flights[id]) /\ AsFlight(p, flights[id])
         /\ \A i \in Ids : i # id => flights'[i] = flights[i]
<1> DEFINE f == flights[id]
<1> DEFINE g == [f EXCEPT !.towLanded = TRUE]
<1>1. id \in Ids /\ f \in Flights /\ FlightShape(f)
  BY StoredIs DEF FlightsOK
<1>2. CanTowLand(f) /\ IsAirtow(f) /\ flights' = [flights EXCEPT ![id] = g]
  BY DEF LandsTow
<1> HIDE DEF g
<1>3. /\ SameButTimes(f, g) /\ FlightShape(g) /\ g.departed = f.departed
      /\ \A p \in Planes : /\ ~ AsTow(p, f) => (Air(p, g) <=> Air(p, f))
                           /\ Air(p, g) => IsFlying(f) /\ AsFlight(p, f)
  BY <1>1, <1>2, TowLandedFlight DEF g
<1> HIDE DEF f
<1>4. FlightsOK' /\ \A p \in Planes : HasLeft(p) => HasLeft(p)'
  BY <1>1, <1>2, <1>3, UpdateKeeps DEF f
<1>5. \A i \in Ids : flights'[i] = IF i = id THEN g ELSE flights[i]
  BY <1>2 DEF FlightsOK
<1>6. ASSUME NEW p \in Planes, ~ AsTow(p, f) PROVE Unaffected(p)
  BY <1>1, <1>2, <1>3, <1>6, UnaffectedOther DEF f, FlightsOK
<1> QED BY <1>1, <1>3, <1>4, <1>5, <1>6 DEF f

LEMMA EntersMeans ==
  ASSUME FlightsOK, NEW f, Enters(f)
  PROVE  /\ FlightsOK'
         /\ \A p \in Planes :
              /\ HasLeft(p) => HasLeft(p)'
              /\ ~ Air(p, f) => Unaffected(p)
         /\ \E n \in Ids : /\ flights'[n] = f /\ flights[n] = NoFlight
                           /\ \A i \in Ids : i # n => flights'[i] = flights[i]
<1>1. PICK n \in Ids : flights[n] = NoFlight /\ flights' = [flights EXCEPT ![n] = f]
  BY EnterKeeps
<1>2. \A i \in Ids : flights'[i] = IF i = n THEN f ELSE flights[i]
  BY <1>1 DEF FlightsOK
<1>3. ASSUME NEW p \in Planes, ~ Air(p, f) PROVE Unaffected(p)
  BY <1>1, <1>3, NoFlightIs, UnaffectedOther DEF FlightsOK
<1> QED BY <1>1, <1>2, <1>3, EnterKeeps

-----------------------------------------------------------------------------
(* The signals of a record *)

Signal(kind, q) == event' = [kind |-> kind, plane |-> q]

Heard(q) ==
  \/ /\ event' = NoEvent
     /\ \/ removed'[q] = removed[q] \/ removed[q] > 0
        \/ Sky(q) = "up" /\ Sky(q)' # "up"
  \/ /\ Signal("departure", q)
     /\ Sky(q) = "down" /\ Sky(q)' = "up" /\ removed'[q] = removed[q]
  \/ /\ Signal("landing", q)
     /\ \/ Sky(q) = "up" /\ Sky(q)' # "up" /\ removed'[q] = removed[q]
        \/ removed[q] > 0
  \/ /\ Signal("touchAndGo", q)
     /\ Sky(q) = "up" /\ Sky(q)' = "up" /\ removed'[q] = removed[q]

LEMMA OthersStay ==
  ASSUME TypeOK, NEW q \in Planes, RecordStep(q)
  PROVE  \A p \in Planes \ {q} : Sky(p)' = Sky(p) /\ removed'[p] = removed[p]
<1>1. ASSUME NEW p \in Planes \ {q}
      PROVE  /\ state'[p] = state[p] /\ landingTimer'[p] = landingTimer[p]
             /\ removed'[p] = removed[p]
  <2> USE DEF TypeOK, ChangeState
  <2>1. ASSUME NEW situation \in Situations, Sentence(q, situation)
        PROVE  /\ state'[p] = state[p] /\ landingTimer'[p] = landingTimer[p]
               /\ removed'[p] = removed[p]
    BY <2>1 DEF Sentence, NewRecord, FromUnknown, FromGround, FromStarting, FromAir
  <2> QED BY <2>1
        DEF RecordStep, KeepaliveTimeout, LandingTimeout, RemovedLandingTimeout
<1> QED BY <1>1 DEF Sky

LEMMA SentenceHeard ==
  ASSUME RecordsInv, NEW q \in Planes, NEW situation \in Situations,
         Sentence(q, situation)
  PROVE  Heard(q)
<1> USE DEF RecordsInv, TypeOK, TimerOnlyAtRest, ChangeState, Emit, EmitNothing,
            NextState, Situations, States
<1>1. CASE NewRecord(q, situation)
  BY <1>1 DEF NewRecord, Heard
<1>2. CASE FromUnknown(q, situation)
  BY <1>2 DEF FromUnknown, Heard
<1>3. CASE FromGround(q, situation)
  <2>1. CASE situation = "ground"
    BY <1>3, <2>1 DEF FromGround, Heard
  <2>2. CASE situation # "ground"
    <3>1. /\ Sky(q) = IF landingTimer[q] THEN "up" ELSE "down"
          /\ Sky(q)' = "up" /\ removed' = removed
      BY <1>3, <2>2 DEF FromGround, Sky
    <3>2. IF landingTimer[q] THEN Signal("touchAndGo", q) \/ event' = NoEvent
          ELSE Signal("departure", q) \/ event' = NoEvent
      BY <1>3, <2>2 DEF FromGround, Signal
    <3> QED BY <3>1, <3>2 DEF Heard
  <2> QED BY <2>1, <2>2
<1>4. CASE FromStarting(q, situation)
  <2>1. CASE situation = "ground"
    <3>1. Sky(q) = "up" /\ Sky(q)' = "down" /\ removed' = removed
      BY <1>4, <2>1 DEF FromStarting, Sky
    <3>2. Signal("landing", q) \/ event' = NoEvent
      BY <1>4, <2>1 DEF FromStarting, Signal
    <3> QED BY <3>1, <3>2 DEF Heard
  <2>2. CASE situation # "ground"
    BY <1>4, <2>2 DEF FromStarting, Heard
  <2> QED BY <2>1, <2>2
<1>5. CASE FromAir(q, situation)
  <2>1. Sky(q) = "up" /\ removed' = removed
    BY <1>5 DEF FromAir, Sky
  <2>2. CASE situation = "ground" /\ q \notin Motorgliders
    <3>1. Sky(q)' = "down"
      BY <1>5, <2>2 DEF FromAir, Sky
    <3>2. Signal("landing", q) \/ event' = NoEvent
      BY <1>5, <2>2 DEF FromAir, Signal
    <3> QED BY <2>1, <3>1, <3>2 DEF Heard
  <2>3. CASE ~ (situation = "ground" /\ q \notin Motorgliders)
    <3>1. Sky(q)' = "up"
      BY <1>5, <2>3 DEF FromAir, Sky
    <3>2. Signal("touchAndGo", q) \/ event' = NoEvent
      BY <1>5, <2>3 DEF FromAir, Signal
    <3> QED BY <2>1, <3>1, <3>2 DEF Heard
  <2> QED BY <2>2, <2>3
<1> QED BY <1>1, <1>2, <1>3, <1>4, <1>5 DEF Sentence

LEMMA StepHeard ==
  ASSUME RecordsInv, NEW q \in Planes, RecordStep(q)
  PROVE  Heard(q)
<1> USE DEF RecordsInv, TypeOK, TimerOnlyAtRest, ChangeState, Emit, EmitNothing, States
<1>1. CASE KeepaliveTimeout(q)
  <2>1. Sky(q)' = "unseen"
    BY <1>1 DEF KeepaliveTimeout, Sky
  <2>2. CASE state[q] = "landing"
    <3>1. Sky(q) = "up" /\ removed'[q] = removed[q]
      BY <1>1, <2>2 DEF KeepaliveTimeout, Sky
    <3>2. Signal("landing", q) \/ event' = NoEvent
      BY <1>1, <2>2 DEF KeepaliveTimeout, Signal
    <3> QED BY <2>1, <3>1, <3>2 DEF Heard
  <2>3. CASE state[q] # "landing"
    <3>1. event' = NoEvent
      BY <1>1, <2>3 DEF KeepaliveTimeout
    <3>2. removed'[q] = removed[q] \/ landingTimer[q]
      BY <1>1 DEF KeepaliveTimeout
    <3>3. landingTimer[q] => Sky(q) = "up"
      BY DEF Sky
    <3> QED BY <2>1, <3>1, <3>2, <3>3 DEF Heard
  <2> QED BY <2>2, <2>3
<1>2. CASE LandingTimeout(q)
  <2>1. Sky(q) = "up" /\ Sky(q)' = "down" /\ removed' = removed
    BY <1>2 DEF LandingTimeout, Sky
  <2>2. Signal("landing", q) \/ event' = NoEvent
    BY <1>2 DEF LandingTimeout, Signal
  <2> QED BY <2>1, <2>2 DEF Heard
<1>3. CASE RemovedLandingTimeout(q)
  <2>1. removed[q] > 0 /\ (Signal("landing", q) \/ event' = NoEvent)
    BY <1>3 DEF RemovedLandingTimeout, Signal
  <2> QED BY <1>3, <2>1 DEF RemovedLandingTimeout, Heard
<1> QED BY <1>1, <1>2, <1>3, SentenceHeard DEF RecordStep
-----------------------------------------------------------------------------
(* The slots *)

Tracks(kind, ids) ==
  /\ recent' \in [Kinds -> SUBSET Planes]
  /\ \A k \in Kinds : \A p \in Planes :
       p \in recent'[k] <=> p \in recent[k] \/ (k = kind /\ p \in ids)

LEMMA TrackTracks ==
  ASSUME recent \in [Kinds -> SUBSET Planes], NEW kind \in Kinds,
         NEW ids \in SUBSET (Planes \cup {NoPlane}), Track(kind, ids)
  PROVE  Tracks(kind, ids)
BY FlightsAssumption DEF Track, Tracks

LEMMA FlarmIds ==
  ASSUME NEW f \in Flights, FlightShape(f)
  PROVE  /\ FlarmIdOf(f) \in Planes \cup {NoPlane}
         /\ TowIdOf(f) \in Planes \cup {NoPlane}
         /\ \A p \in Planes :
              /\ AsFlight(p, f) => FlarmIdOf(f) = p
              /\ FlarmIdOf(f) = p => AsFlight(p, f)
              /\ TowIdOf(f) = p <=> IsAirtow(f) /\ AsTow(p, f)
<1>1. f.plane \in Known \cup {NoPlane} /\ f.flarmId \in Planes \cup {NoPlane}
      /\ f.tow \in Known \cup {NoPlane}
  BY DEF Flights
<1>2. FlarmIdOf(f) \in Planes \cup {NoPlane} /\ TowIdOf(f) \in Planes \cup {NoPlane}
  BY <1>1, FlightsAssumption DEF FlarmIdOf, TowIdOf
<1>3. ASSUME NEW p \in Planes
      PROVE  /\ AsFlight(p, f) => FlarmIdOf(f) = p
             /\ FlarmIdOf(f) = p => AsFlight(p, f)
  BY <1>1, FlightsAssumption DEF FlarmIdOf, AsFlight, FlightShape
<1>4. ASSUME NEW p \in Planes
      PROVE  TowIdOf(f) = p <=> IsAirtow(f) /\ AsTow(p, f)
  BY <1>1, FlightsAssumption DEF TowIdOf, AsTow
<1> QED BY <1>2, <1>3, <1>4

\* a departure is not handled because it is recent, because the plane is
\* flying in the book, or because it is taken for that of a coming flight
DepartureIgnored(q) ==
  /\ flights' = flights /\ recent' = recent
  /\ \/ q \in recent["departure"] \/ IsUp(q)
     \/ \E r \in PreparedFor(q) : ~ DepartsHere(flights[r.id])

DepartureStarts(q) ==
  \E id \in Stored :
    /\ Departs(id) /\ Ready(q, flights[id])
    /\ Tracks("departure", {FlarmIdOf(flights[id]), TowIdOf(flights[id])})

\* a flight is created, with the preselected towplane
DepartureEnters(q) ==
  /\ ~ IsUp(q)
  /\ \E f : /\ Enters(f) /\ f.flarmId = q /\ Air(q, f)
            /\ f.departed /\ ~ f.towLanded
            /\ Tracks("departure", {q, TowIdOf(f)}) \/ Tracks("departure", {})

LEMMA NewFlight ==
  ASSUME NEW q \in Planes, NEW mode \in {"local", "coming"}
  PROVE  /\ FlarmFlight(q, mode) \in Flights
         /\ FlarmFlight(q, mode).flarmId = q /\ FlarmFlight(q, mode).mode = mode
         /\ FlarmFlight(q, mode).plane = IF q \in Known THEN q ELSE NoPlane
         /\ FlarmFlight(q, mode).tow = NoPlane
         /\ ~ FlarmFlight(q, mode).departed /\ ~ FlarmFlight(q, mode).landed
         /\ ~ FlarmFlight(q, mode).towLanded
BY FlightsAssumption DEF FlarmFlight, Flights

LEMMA DepartureSlot ==
  ASSUME FlightsOK, recent \in [Kinds -> SUBSET Planes],
         NEW q \in Planes, DepartureDetected(q)
  PROVE  DepartureIgnored(q) \/ DepartureStarts(q) \/ DepartureEnters(q)
<1>1. CASE q \in recent["departure"]
  BY <1>1 DEF DepartureDetected, DepartureIgnored, bookVars
<1>2. ASSUME q \notin recent["departure"], NEW r \in LookupForDeparture(q),
             IF IsFlying(flights[r.id]) \/ ~ CanDepart(flights[r.id])
             THEN UNCHANGED bookVars ELSE Depart(r.id)
      PROVE  DepartureIgnored(q) \/ DepartureStarts(q)
  <2> DEFINE f == flights[r.id]
  <2>1. /\ r.id \in Stored /\ r.id \in Ids /\ f \in Flights /\ FlightShape(f)
        /\ \/ (IsPrepared(f) \/ IsFlying(f)) /\ AsFlight(q, f)
           \/ (IsPrepared(f) \/ IsTowFlying(f)) /\ IsAirtow(f) /\ AsTow(q, f)
    BY DepartureFound, StoredIs DEF FlightsOK
  <2>3. CASE IsFlying(f) \/ ~ CanDepart(f)
    <3>1. flights' = flights /\ recent' = recent
      BY <1>2, <2>3 DEF bookVars
    <3>2. CASE Air(q, f)
      BY <2>1, <3>1, <3>2 DEF DepartureIgnored, IsUp
    <3>3. CASE ~ Air(q, f)
      <4>1. IsPrepared(f) /\ (AsFlight(q, f) \/ IsAirtow(f))
        BY <2>1, <3>3 DEF Air
      <4>2. ~ IsFlying(f)
        BY <2>1, <4>1 DEF IsFlying, IsPrepared, Happened, FlightShape
      <4>3. ~ DepartsHere(f)
        BY <2>3, <4>1, <4>2 DEF IsPrepared, Happened, CanDepart
      <4>4. AsFlight(q, f)
        BY <2>1, <4>1, <4>3 DEF IsAirtow
      <4>5. \E s \in PreparedFor(q) : s.id = r.id
        BY <2>1, <4>1, <4>4, PreparedForIs
      <4> QED BY <3>1, <4>3, <4>5 DEF DepartureIgnored
    <3> QED BY <3>2, <3>3
  <2>4. CASE ~ IsFlying(f) /\ CanDepart(f)
    <3>1. Depart(r.id)
      BY <1>2, <2>4
    <3>2. Departs(r.id) /\ Track("departure", {FlarmIdOf(f), TowIdOf(f)})
      BY <2>4, <3>1 DEF Depart, Update, Departs
    <3>3. Tracks("departure", {FlarmIdOf(f), TowIdOf(f)})
      BY <2>1, <3>2, FlarmIds, TrackTracks DEF Kinds
    <3>4. Ready(q, f)
      BY <2>1, <2>4 DEF Ready, CanDepart, IsTowFlying
    <3> QED BY <2>1, <3>2, <3>3, <3>4 DEF DepartureStarts
  <2> QED BY <2>3, <2>4
<1>3. ASSUME LookupForDeparture(q) = {}, NEW tow \in Preselected,
             Create([FlarmFlight(q, "local") EXCEPT !.departed = TRUE, !.tow = tow],
                    "departure")
      PROVE  DepartureEnters(q)
  <2> DEFINE f == [FlarmFlight(q, "local") EXCEPT !.departed = TRUE, !.tow = tow]
  <2>1. /\ f \in Flights /\ f.mode = "local" /\ f.flarmId = q /\ f.tow = tow
        /\ f.plane = IF q \in Known THEN q ELSE NoPlane
        /\ f.departed /\ ~ f.landed /\ ~ f.towLanded
    <3> DEFINE g == FlarmFlight(q, "local")
    <3>1. /\ g \in Flights /\ g.flarmId = q /\ g.mode = "local"
          /\ g.plane = IF q \in Known THEN q ELSE NoPlane
          /\ ~ g.departed /\ ~ g.landed /\ ~ g.towLanded
      BY NewFlight
    <3> HIDE DEF g
    <3>2. f = [g EXCEPT !.departed = TRUE, !.tow = tow]
      BY DEF g
    <3>3. tow \in Known \cup {NoPlane}
      BY FlightsAssumption
    <3> HIDE DEF f
    <3> QED BY <3>1, <3>2, <3>3 DEF Flights
  <2>2. Create(f, "departure")
    BY <1>3
  <2> HIDE DEF f
  <2>3. FlightShape(f)
    BY <2>1 DEF FlightShape, DepartsHere
  <2>4. Air(q, f) /\ FlarmIdOf(f) = q
    BY <2>1, FlightsAssumption DEF Air, IsFlying, LandsHere, AsFlight, FlarmIdOf
  <2>5. ~ IsUp(q)
    BY <1>3, DepartureNotFound, NoFlightIs DEF IsUp, Stored
  <2>6. Enters(f)
    BY <2>1, <2>2, <2>3 DEF Enters, Create
  <2>7. Tracks("departure", {q, TowIdOf(f)}) \/ Tracks("departure", {})
    <3>1. CASE recent' = recent
      BY <3>1 DEF Tracks
    <3>2. CASE Track("departure", {FlarmIdOf(f)} \cup {TowIdOf(f)})
      <4>1. {FlarmIdOf(f)} \cup {TowIdOf(f)} = {q, TowIdOf(f)}
        BY <2>4
      <4>2. {q, TowIdOf(f)} \in SUBSET (Planes \cup {NoPlane})
        BY <2>1, <2>3, FlarmIds
      <4> QED BY <3>2, <4>1, <4>2, TrackTracks DEF Kinds
    <3> QED BY <2>2, <3>1, <3>2 DEF Create
  <2> QED BY <2>1, <2>4, <2>5, <2>6, <2>7 DEF DepartureEnters
<1> QED BY <1>1, <1>2, <1>3 DEF DepartureDetected

\* what a landing means for the book
LandingEnds(q) ==
  \E id \in Stored :
    \/ /\ Lands(id) /\ AsFlight(q, flights[id]) /\ IsFlying(flights[id])
       /\ Tracks("landing", {q})
    \/ /\ LandsTow(id) /\ AsTow(q, flights[id]) /\ IsTowFlying(flights[id])
       /\ Tracks("landing", {q})

\* a flight of q that came from elsewhere
ComesFrom(q, f) == /\ Enters(f) /\ f.flarmId = q /\ f.mode = "coming" /\ f.tow = NoPlane
                   /\ ~ f.departed

LandingEnters(q) ==
  /\ ~ IsUp(q)
  /\ \E f : /\ ComesFrom(q, f)
            /\ Tracks("landing", {q}) \/ Tracks("landing", {})

LEMMA ComingFlight ==
  ASSUME NEW q \in Planes, NEW f \in Flights, f.flarmId = q, f.mode = "coming",
         f.tow = NoPlane, ~ f.departed,
         f.plane = IF q \in Known THEN q ELSE NoPlane
  PROVE  /\ FlightShape(f)
         /\ \A p \in Planes : ~ Air(p, f) /\ (AsFlight(p, f) => p = q)
         /\ FlarmIdOf(f) = q /\ TowIdOf(f) = NoPlane
<1>1. ~ DepartsHere(f) /\ LandsHere(f)
  BY DEF DepartsHere, LandsHere
<1>2. FlightShape(f)
  BY <1>1, FlightsAssumption DEF FlightShape
<1>3. ~ IsFlying(f) /\ ~ IsTowFlying(f)
  BY <1>1 DEF IsFlying, IsTowFlying, IsAirtow
<1>4. \A p \in Planes : ~ Air(p, f)
  BY <1>3 DEF Air
<1>5. \A p \in Planes : AsFlight(p, f) => p = q
  BY FlightsAssumption DEF AsFlight
<1>6. FlarmIdOf(f) = q /\ TowIdOf(f) = NoPlane
  BY <1>1, FlightsAssumption DEF FlarmIdOf, TowIdOf, IsAirtow
<1> QED BY <1>2, <1>4, <1>5, <1>6

LEMMA CreatedTracks ==
  ASSUME recent \in [Kinds -> SUBSET Planes], NEW q \in Planes, NEW f,
         NEW kind \in {"landing", "touchAndGo"}, Create(f, kind), FlarmIdOf(f) = q
  PROVE  Tracks(kind, {q}) \/ Tracks(kind, {})
<1>1. CASE recent' = recent
  BY <1>1 DEF Tracks
<1>2. CASE Track(kind, {FlarmIdOf(f)} \cup {})
  <2>1. Track(kind, {q})
    BY <1>2
  <2> QED BY <2>1, TrackTracks DEF Kinds
<1> QED BY <1>1, <1>2 DEF Create

LEMMA LandingSlot ==
  ASSUME FlightsOK, recent \in [Kinds -> SUBSET Planes], NEW q \in Planes,
         LandingDetected(q)
  PROVE  \/ q \in recent["landing"] /\ flights' = flights /\ recent' = recent
         \/ LandingEnds(q) \/ LandingEnters(q)
<1>1. CASE q \in recent["landing"]
  BY <1>1 DEF LandingDetected, bookVars
<1>2. ASSUME NEW r \in LookupFlying(q),
             IF r.tow THEN LandTow(r.id) ELSE Land(r.id)
      PROVE  LandingEnds(q)
  <2> DEFINE f == flights[r.id]
  <2>1. /\ r.id \in Stored /\ r.id \in Ids /\ f \in Flights /\ FlightShape(f)
        /\ ~ r.tow => IsFlying(f) /\ AsFlight(q, f)
        /\ r.tow => IsTowFlying(f) /\ AsTow(q, f)
    BY FlyingFound, StoredIs DEF FlightsOK
  <2>3. CASE r.tow
    <3>1. LandsTow(r.id) /\ Track("landing", {TowIdOf(f)})
      BY <1>2, <2>1, <2>3 DEF LandTow, Update, LandsTow, CanTowLand, IsTowFlying
    <3>2. TowIdOf(f) = q
      BY <2>1, <2>3, FlarmIds DEF IsTowFlying
    <3>3. Tracks("landing", {q})
      BY <3>1, <3>2, TrackTracks DEF Kinds
    <3> QED BY <2>1, <2>3, <3>1, <3>3 DEF LandingEnds
  <2>4. CASE ~ r.tow
    <3>1. Lands(r.id) /\ Track("landing", {FlarmIdOf(f)})
      BY <1>2, <2>1, <2>4 DEF Land, Update, Lands, CanLand, IsFlying
    <3>2. FlarmIdOf(f) = q
      BY <2>1, <2>4, FlarmIds
    <3>3. Tracks("landing", {q})
      BY <3>1, <3>2, TrackTracks DEF Kinds
    <3> QED BY <2>1, <2>4, <3>1, <3>3 DEF LandingEnds
  <2> QED BY <2>3, <2>4
<1>3. ASSUME LookupFlying(q) = {},
             Create([FlarmFlight(q, "coming") EXCEPT !.landed = TRUE], "landing")
      PROVE  LandingEnters(q)
  <2> DEFINE f == [FlarmFlight(q, "coming") EXCEPT !.landed = TRUE]
  <2>1. /\ f \in Flights /\ f.mode = "coming" /\ f.flarmId = q /\ f.tow = NoPlane
        /\ f.plane = IF q \in Known THEN q ELSE NoPlane
        /\ ~ f.departed /\ f.landed
    <3> DEFINE g == FlarmFlight(q, "coming")
    <3>1. /\ g \in Flights /\ g.flarmId = q /\ g.mode = "coming" /\ g.tow = NoPlane
          /\ g.plane = IF q \in Known THEN q ELSE NoPlane
          /\ ~ g.departed
      BY NewFlight
    <3> HIDE DEF g
    <3>2. f = [g EXCEPT !.landed = TRUE]
      BY DEF g
    <3> HIDE DEF f
    <3> QED BY <3>1, <3>2 DEF Flights
  <2>2. Create(f, "landing")
    BY <1>3
  <2> HIDE DEF f
  <2>3. FlightShape(f) /\ FlarmIdOf(f) = q
    BY <2>1, ComingFlight
  <2>4. ComesFrom(q, f)
    BY <2>1, <2>2, <2>3 DEF ComesFrom, Enters, Create
  <2>5. Tracks("landing", {q}) \/ Tracks("landing", {})
    BY <2>2, <2>3, CreatedTracks
  <2>6. ~ IsUp(q)
    BY <1>3, FlyingNotFound, NoFlightIs DEF IsUp, Stored
  <2> QED BY <2>4, <2>5, <2>6 DEF LandingEnters
<1> QED BY <1>1, <1>2, <1>3 DEF LandingDetected

LEMMA TouchAndGoSlot ==
  ASSUME FlightsOK, recent \in [Kinds -> SUBSET Planes], NEW q \in Planes,
         TouchAndGoDetected(q)
  PROVE  /\ Tracks("touchAndGo", {q}) \/ Tracks("touchAndGo", {})
         /\ flights' = flights \/ (~ IsUp(q) /\ \E f : ComesFrom(q, f))
<1>1. CASE UNCHANGED bookVars
  BY <1>1 DEF bookVars, Tracks
<1>2. ASSUME NEW r \in LookupFlying(q), ~ r.tow, TouchAndGo(r.id)
      PROVE  flights' = flights /\ Tracks("touchAndGo", {q})
  <2> DEFINE f == flights[r.id]
  <2>1. r.id \in Stored /\ r.id \in Ids /\ f \in Flights /\ FlightShape(f) /\ AsFlight(q, f)
    BY <1>2, FlyingFound, StoredIs DEF FlightsOK
  <2>2. flights' = flights /\ Track("touchAndGo", {FlarmIdOf(f)})
    BY <1>2, <2>1 DEF TouchAndGo, Update, FlightsOK
  <2>3. FlarmIdOf(f) = q
    BY <2>1, FlarmIds
  <2> QED BY <2>2, <2>3, TrackTracks DEF Kinds
<1>3. ASSUME LookupFlying(q) = {}, Create(FlarmFlight(q, "coming"), "touchAndGo")
      PROVE  /\ Tracks("touchAndGo", {q}) \/ Tracks("touchAndGo", {})
             /\ ~ IsUp(q) /\ \E f : ComesFrom(q, f)
  <2> DEFINE f == FlarmFlight(q, "coming")
  <2>1. /\ f \in Flights /\ f.mode = "coming" /\ f.flarmId = q /\ f.tow = NoPlane
        /\ f.plane = IF q \in Known THEN q ELSE NoPlane
        /\ ~ f.departed
    BY NewFlight
  <2>2. Create(f, "touchAndGo")
    BY <1>3
  <2> HIDE DEF f
  <2>3. FlightShape(f) /\ FlarmIdOf(f) = q
    BY <2>1, ComingFlight
  <2>4. ComesFrom(q, f)
    BY <2>1, <2>2, <2>3 DEF ComesFrom, Enters, Create
  <2>5. Tracks("touchAndGo", {q}) \/ Tracks("touchAndGo", {})
    BY <2>2, <2>3, CreatedTracks
  <2>6. ~ IsUp(q)
    BY <1>3, FlyingNotFound, NoFlightIs DEF IsUp, Stored
  <2> QED BY <2>4, <2>5, <2>6
<1> QED BY <1>1, <1>2, <1>3 DEF TouchAndGoDetected

-----------------------------------------------------------------------------
(* Steps of the records *)

LEMMA SlotOf ==
  ASSUME NEW q \in Planes, Heard(q), Slots
  PROVE  \/ event' = NoEvent /\ flights' = flights /\ recent' = recent
         \/ Signal("departure", q) /\ DepartureDetected(q)
         \/ Signal("landing", q) /\ LandingDetected(q)
         \/ Signal("touchAndGo", q) /\ TouchAndGoDetected(q)
<1>1. event' \in Reports => event' # NoEvent
  BY RecordsAssumption DEF Reports, Kinds
<1>2. \A k \in Kinds : \A p \in Planes :
        [kind |-> k, plane |-> p] \in Reports /\ [kind |-> k, plane |-> p].kind = k
        /\ [kind |-> k, plane |-> p].plane = p
  BY DEF Reports
<1>3. event' = NoEvent => flights' = flights /\ recent' = recent
  BY <1>1, <1>2 DEF Slots, bookVars, Kinds
<1>4. ASSUME NEW p \in Planes,
             \/ event' = [kind |-> "departure", plane |-> p] /\ DepartureDetected(p)
             \/ event' = [kind |-> "landing", plane |-> p] /\ LandingDetected(p)
             \/ event' = [kind |-> "touchAndGo", plane |-> p] /\ TouchAndGoDetected(p)
      PROVE  \/ Signal("departure", q) /\ DepartureDetected(q)
             \/ Signal("landing", q) /\ LandingDetected(q)
             \/ Signal("touchAndGo", q) /\ TouchAndGoDetected(q)
  <2>1. event' \in Reports /\ event'.plane = p
    BY <1>2, <1>4 DEF Kinds
  <2>2. event'.plane = q
    BY <1>1, <1>2, <2>1 DEF Heard, Signal, Kinds
  <2>3. p = q
    BY <2>1, <2>2
  <2> QED BY <1>4, <2>3 DEF Signal
<1>5. \/ event' = NoEvent
      \/ \E p \in Planes :
           \/ event' = [kind |-> "departure", plane |-> p] /\ DepartureDetected(p)
           \/ event' = [kind |-> "landing", plane |-> p] /\ LandingDetected(p)
           \/ event' = [kind |-> "touchAndGo", plane |-> p] /\ TouchAndGoDetected(p)
  BY DEF Slots
<1> QED BY <1>3, <1>4, <1>5

\* what the history says of plane p after a step of q
Seen(p, q) ==
  /\ p \in clean /\ ~ Gap(p) /\ OnceUp(p)' /\ ~ DepartureSwallowed(p)
  /\ \A k \in {"departure", "landing"} :
       p \in moved'[k] <=> p \in moved[k] \/ (p = q /\ Signal(k, q))
  /\ \A id \in Ids :
       departedBy'[id] = p =>
         \/ departedBy[id] = p /\ (flights'[id] = flights[id] \/ ~ Signal("departure", q))
         \/ p = q /\ Signal("departure", q)

LEMMA WatchSeen ==
  ASSUME TrackersOK, NEW q \in Planes, Heard(q), Watch
  PROVE  TrackersOK' \/ recent' \notin [Kinds -> SUBSET Planes]
<1>1. clean' \in SUBSET Planes
  BY DEF Watch, TrackersOK
<1>2. moved' \in [Kinds -> SUBSET Planes]
  BY <1>1 DEF Watch
<1>3. event' = NoEvent \/ (event' # NoEvent /\ event'.plane = q)
  BY RecordsAssumption DEF Heard, Signal
<1>4. departedBy' \in [Ids -> Planes \cup {NoPlane}]
  BY <1>3 DEF Watch, TrackersOK
<1> QED BY <1>1, <1>2, <1>4 DEF TrackersOK

LEMMA OnceUpIs == \A p \in Planes : ~ InTheAirTwice(p) => OnceUp(p)
BY InTheAirIs

LEMMA OnceUpNext == (\A p \in Planes : ~ InTheAirTwice(p) => OnceUp(p))'
BY OnceUpIs, PTL

LEMMA SeenBy ==
  ASSUME TrackersOK, NEW q \in Planes, Heard(q), Watch, NEW p \in clean'
  PROVE  Seen(p, q) /\ p \in Planes
<1>1. /\ p \in clean /\ ~ Gap(p) /\ p \in Planes
      /\ ~ InTheAirTwice(p)' /\ ~ DepartureSwallowed(p)
  BY DEF Watch, TrackersOK
<1>5. OnceUp(p)'
  BY <1>1, OnceUpNext
<1>2. \/ event' = NoEvent
      \/ \E kind \in Kinds : /\ Signal(kind, q) /\ event' # NoEvent
                             /\ event'.plane = q /\ event'.kind = kind
  BY RecordsAssumption DEF Heard, Signal, Kinds
<1>3. ASSUME NEW k \in {"departure", "landing"}
      PROVE  p \in moved'[k] <=> p \in moved[k] \/ (p = q /\ Signal(k, q))
  <2>1. k \in Kinds /\ k # "touchAndGo"
    BY DEF Kinds
  <2>2. p \in moved'[k] <=> p \in moved[k] \/ event' = [kind |-> k, plane |-> p]
    BY <2>1 DEF Watch
  <2>3. event' = [kind |-> k, plane |-> p] <=> p = q /\ Signal(k, q)
    <3>1. [kind |-> k, plane |-> p].plane = p /\ [kind |-> k, plane |-> p] # NoEvent
      BY <1>1, <2>1, RecordsAssumption DEF Kinds
    <3> QED BY <1>2, <3>1 DEF Signal
  <2> QED BY <2>2, <2>3
<1>4. ASSUME NEW id \in Ids, departedBy'[id] = p
      PROVE  \/ departedBy[id] = p /\ (flights'[id] = flights[id] \/ ~ Signal("departure", q))
             \/ p = q /\ Signal("departure", q)
  <2>1. departedBy'[id] = IF /\ event' # NoEvent /\ flights'[id] # flights[id]
                             /\ event'.kind = "departure"
                          THEN event'.plane ELSE departedBy[id]
    BY DEF Watch
  <2>2. Signal("departure", q) => /\ event' # NoEvent /\ event'.kind = "departure"
                                  /\ event'.plane = q
    BY RecordsAssumption DEF Signal
  <2>3. event' # NoEvent /\ event'.kind = "departure" => Signal("departure", q)
    BY <1>2 DEF Signal
  <2> QED BY <1>4, <2>1, <2>2, <2>3
<1> QED BY <1>1, <1>3, <1>4, <1>5 DEF Seen

\* a plane that the step is not about
LEMMA OtherPlane ==
  ASSUME NEW p \in Planes, NEW q \in Planes, p # q, PlaneShown(p), Seen(p, q),
         Sky(p)' = Sky(p), removed'[p] = removed[p],
         Unaffected(p), HasLeft(p) => HasLeft(p)',
         \A k \in {"departure", "landing"} : p \in recent'[k] => p \in recent[k]
  PROVE  PlaneShown(p)'
<1>1. NoNews(p, "departure") /\ NoNews(p, "landing")
  BY DEF NoNews, Seen
<1>2. \A id \in Ids : departedBy'[id] = p => departedBy[id] = p
  BY DEF Seen
<1> QED BY <1>1, <1>2, StaysShown DEF Seen

\* nothing is reported
LEMMA QuietShown ==
  ASSUME NEW p \in Planes, NEW q \in Planes, PlaneShown(p), Seen(p, q), Heard(q),
         event' = NoEvent, flights' = flights, recent' = recent,
         p # q => Sky(p)' = Sky(p) /\ removed'[p] = removed[p]
  PROVE  PlaneShown(p)'
<1>1. \A k \in Kinds : ~ Signal(k, q)
  BY RecordsAssumption DEF Signal, Kinds
<1>2. Sky(p)' = "up" <=> Sky(p) = "up"
  BY DEF Seen, Gap
<1>3. removed'[p] = removed[p]
  BY <1>1, <1>2 DEF Heard, PlaneShown, Kinds
<1>4. NoNews(p, "departure") /\ NoNews(p, "landing")
  BY DEF NoNews, Seen
<1>5. \A id \in Ids : departedBy'[id] = p => departedBy[id] = p
  BY <1>1 DEF Seen, Kinds
<1> QED BY <1>2, <1>3, <1>4, <1>5, StaysShown, UnaffectedSame DEF Seen

\* the departure of one plane of an airtow, for the other
LEMMA PartnerShown ==
  ASSUME NEW p \in Planes, NEW q \in Planes, p # q, PlaneShown(p), Seen(p, q),
         Sky(p)' = Sky(p), removed'[p] = removed[p], Signal("departure", q),
         NEW id \in Ids, ~ Air(p, flights[id]), Air(p, flights'[id]) \/ HasLeft(p)',
         \A i \in Ids : i # id => flights'[i] = flights[i],
         HasLeft(p) => HasLeft(p)',
         p \in recent'["landing"] => p \in recent["landing"]
  PROVE  PlaneShown(p)'
<1>1. OnceUp(p)' /\ removed'[p] = 0
      /\ (p \in recent'["landing"] => p \in moved'["landing"])
  BY DEF PlaneShown, Seen
<1>2. HasLeft(p)' \/ (Sky(p) # "up" /\ IsUp(p)')
  <2> SUFFICES ASSUME ~ HasLeft(p)' PROVE Sky(p) # "up" /\ IsUp(p)'
    OBVIOUS
  <2>1. Air(p, flights'[id])
    OBVIOUS
  <2>2. ~ IsUp(p)
    <3> SUFFICES ASSUME NEW i \in Ids, Air(p, flights[i]) PROVE FALSE
      BY DEF IsUp
    <3>1. i # id /\ Air(p, flights'[i])
      OBVIOUS
    <3> QED BY <1>1, <2>1, <3>1 DEF OnceUp
  <2> QED BY <2>1, <2>2 DEF PlaneShown, IsUp
<1>3. \A i \in Ids : departedBy'[i] = p => departedBy[i] = p /\ flights'[i] = flights[i]
  BY DEF Seen
<1>4. Sky(p) # "up" => \A i \in Ids : Air(p, flights'[i]) => departedBy'[i] # p
  BY <1>3 DEF PlaneShown
<1> QED BY <1>1, <1>2, <1>4 DEF PlaneShown

LEMMA DepartureOther ==
  ASSUME FlightsOK, recent \in [Kinds -> SUBSET Planes],
         NEW p \in Planes, NEW q \in Planes, p # q, PlaneShown(p), Seen(p, q),
         Sky(p)' = Sky(p), removed'[p] = removed[p], Signal("departure", q),
         DepartureIgnored(q) \/ DepartureStarts(q) \/ DepartureEnters(q)
  PROVE  PlaneShown(p)'
<1>1. CASE DepartureIgnored(q)
  BY <1>1, OtherPlane, UnaffectedSame DEF DepartureIgnored
<1>2. CASE DepartureStarts(q)
  <2>1. PICK id \in Stored :
          /\ Departs(id)
          /\ Tracks("departure", {FlarmIdOf(flights[id]), TowIdOf(flights[id])})
    BY <1>2 DEF DepartureStarts
  <2>2. flights[id] \in Flights /\ FlightShape(flights[id])
    BY StoredIs DEF FlightsOK
  <2>3. p \in recent'["landing"] => p \in recent["landing"]
    BY <2>1 DEF Tracks, Kinds
  <2>4. CASE AsFlight(p, flights[id]) \/ (IsAirtow(flights[id]) /\ AsTow(p, flights[id]))
    <3>1. /\ id \in Ids /\ (HasLeft(p) => HasLeft(p)') /\ ~ Air(p, flights[id])
          /\ Air(p, flights'[id]) \/ HasLeft(p)'
          /\ \A i \in Ids : i # id => flights'[i] = flights[i]
      BY <2>1, <2>4, DepartsMeans
    <3> QED BY <2>3, <3>1, PartnerShown
  <2>5. CASE ~ (AsFlight(p, flights[id]) \/ (IsAirtow(flights[id]) /\ AsTow(p, flights[id])))
    <3>1. Unaffected(p) /\ (HasLeft(p) => HasLeft(p)')
      BY <2>1, <2>5, DepartsMeans
    <3>2. p # FlarmIdOf(flights[id]) /\ p # TowIdOf(flights[id])
      BY <2>2, <2>5, FlarmIds
    <3>3. p \in recent'["departure"] => p \in recent["departure"]
      BY <2>1, <3>2 DEF Tracks, Kinds
    <3> QED BY <2>3, <3>1, <3>3, OtherPlane
  <2> QED BY <2>4, <2>5
<1>3. CASE DepartureEnters(q)
  <2>1. PICK f : /\ Enters(f) /\ f.flarmId = q
                 /\ f.departed /\ ~ f.towLanded
                 /\ Tracks("departure", {q, TowIdOf(f)}) \/ Tracks("departure", {})
    BY <1>3 DEF DepartureEnters
  <2>2. f \in Flights /\ FlightShape(f)
    BY <2>1 DEF Enters
  <2>3. ~ AsFlight(p, f)
    BY <2>1, <2>2, OnePlaneEach DEF AsFlight
  <2>4. HasLeft(p) => HasLeft(p)'
    BY <2>1, EntersMeans
  <2>5. p \in recent'["landing"] => p \in recent["landing"]
    BY <2>1 DEF Tracks, Kinds
  <2>6. CASE Air(p, f)
    <3>1. PICK n \in Ids : /\ flights'[n] = f /\ flights[n] = NoFlight
                           /\ \A i \in Ids : i # n => flights'[i] = flights[i]
      BY <2>1, EntersMeans
    <3>2. ~ Air(p, flights[n]) /\ Air(p, flights'[n])
      BY <2>6, <3>1, NoFlightIs
    <3> QED BY <2>4, <2>5, <3>1, <3>2, PartnerShown
  <2>7. CASE ~ Air(p, f)
    <3>1. Unaffected(p)
      BY <2>1, <2>7, EntersMeans
    <3>2. p # TowIdOf(f)
      <4>1. IsAirtow(f) /\ AsTow(p, f) => IsTowFlying(f)
        <5>1. f.departed /\ ~ f.towLanded
          BY <2>1
        <5> QED BY <5>1 DEF IsTowFlying
      <4> QED BY <2>2, <2>7, <4>1, FlarmIds DEF Air
    <3>3. p \in recent'["departure"] => p \in recent["departure"]
      BY <2>1, <3>2 DEF Tracks, Kinds
    <3> QED BY <2>4, <2>5, <3>1, <3>3, OtherPlane
  <2> QED BY <2>6, <2>7
<1> QED BY <1>1, <1>2, <1>3

LEMMA DepartureSelf ==
  ASSUME FlightsOK, NEW q \in Planes, PlaneShown(q), Seen(q, q),
         Signal("departure", q), q \notin moved["departure"],
         Sky(q) = "down", Sky(q)' = "up", removed'[q] = removed[q],
         recent \in [Kinds -> SUBSET Planes],
         DepartureIgnored(q) \/ DepartureStarts(q) \/ DepartureEnters(q)
  PROVE  PlaneShown(q)'
<1>1. q \in moved'["departure"]
  BY DEF Seen
<1>2. /\ HasLeft(q) => HasLeft(q)'
      /\ HasLeft(q)' \/ IsUp(q)'
      /\ q \in recent'["landing"] => q \in recent["landing"]
  <2>1. CASE DepartureIgnored(q)
    <3>1. flights' = flights /\ recent' = recent /\ Stored' = Stored
      BY <2>1 DEF DepartureIgnored, Stored
    <3>2. (HasLeft(q)' <=> HasLeft(q)) /\ (IsUp(q)' <=> IsUp(q))
      BY <3>1 DEF HasLeft, IsUp
    <3>3. HasLeft(q) \/ IsUp(q)
      BY <2>1 DEF DepartureIgnored, PlaneShown, Seen, DepartureSwallowed, Signal
    <3> QED BY <3>1, <3>2, <3>3 DEF PlaneShown
  <2>2. CASE DepartureStarts(q)
    <3>1. PICK id \in Stored :
            /\ Departs(id) /\ Ready(q, flights[id])
            /\ Tracks("departure", {FlarmIdOf(flights[id]), TowIdOf(flights[id])})
      BY <2>2 DEF DepartureStarts
    <3>2. /\ id \in Ids /\ (HasLeft(q) => HasLeft(q)')
          /\ Air(q, flights'[id]) \/ HasLeft(q)'
          /\ \A i \in Ids : i # id => flights'[i] = flights[i]
      BY <3>1, DepartsMeans DEF Ready
    <3>3. q \in recent'["landing"] => q \in recent["landing"]
      BY <3>1 DEF Tracks, Kinds
    <3> QED BY <3>2, <3>3 DEF IsUp, PlaneShown
  <2>3. CASE DepartureEnters(q)
    <3>1. PICK f : /\ Enters(f) /\ Air(q, f)
                   /\ Tracks("departure", {q, TowIdOf(f)}) \/ Tracks("departure", {})
      BY <2>3 DEF DepartureEnters
    <3>2. HasLeft(q) => HasLeft(q)'
      BY <3>1, EntersMeans
    <3>3. PICK n \in Ids : flights'[n] = f /\ \A i \in Ids : i # n => flights'[i] = flights[i]
      BY <3>1, EntersMeans
    <3>4. q \in recent'["landing"] => q \in recent["landing"]
      BY <3>1 DEF Tracks, Kinds
    <3> QED BY <3>1, <3>2, <3>3, <3>4 DEF IsUp, PlaneShown
  <2> QED BY <2>1, <2>2, <2>3
<1>3. q \in recent'["landing"] => q \in moved'["landing"]
  BY <1>2 DEF PlaneShown, Seen
<1>4. removed'[q] = 0 /\ OnceUp(q)'
  BY DEF PlaneShown, Seen
<1> QED BY <1>1, <1>2, <1>3, <1>4 DEF PlaneShown

LEMMA ComesMeans ==
  ASSUME FlightsOK, NEW q \in Planes, NEW f, ComesFrom(q, f)
  PROVE  /\ FlightsOK'
         /\ HasLeft(q) => HasLeft(q)'
         /\ \A p \in Planes : ~ Air(p, f)
         /\ \A p \in Planes : p # q => Unaffected(p) /\ (HasLeft(p) => HasLeft(p)')
         /\ \E n \in Ids : /\ flights'[n] = f /\ flights[n] = NoFlight
                           /\ \A i \in Ids : i # n => flights'[i] = flights[i]
<1>1. Enters(f) /\ f \in Flights /\ FlightShape(f)
  BY DEF ComesFrom, Enters
<1>2. \A p \in Planes : ~ Air(p, f)
  BY DEF ComesFrom, Air, IsFlying, IsTowFlying
<1>3. \A p \in Planes : AsFlight(p, f) => p = q
  BY <1>1, OnePlaneEach DEF ComesFrom, AsFlight
<1> QED BY <1>1, <1>2, <1>3, EntersMeans

LEMMA LandingOther ==
  ASSUME FlightsOK, recent \in [Kinds -> SUBSET Planes],
         NEW p \in Planes, NEW q \in Planes, p # q, PlaneShown(p), Seen(p, q),
         Sky(p)' = Sky(p), removed'[p] = removed[p],
         \/ flights' = flights /\ recent' = recent
         \/ LandingEnds(q) \/ LandingEnters(q)
  PROVE  PlaneShown(p)'
<1>1. CASE flights' = flights /\ recent' = recent
  BY <1>1, OtherPlane, UnaffectedSame
<1>2. CASE LandingEnds(q)
  <2>1. PICK id \in Stored :
          \/ Lands(id) /\ AsFlight(q, flights[id]) /\ Tracks("landing", {q})
          \/ LandsTow(id) /\ AsTow(q, flights[id]) /\ Tracks("landing", {q})
    BY <1>2 DEF LandingEnds
  <2>2. \A k \in {"departure", "landing"} : p \in recent'[k] => p \in recent[k]
    BY <2>1 DEF Tracks, Kinds
  <2>3. flights[id] \in Flights /\ FlightShape(flights[id])
    BY StoredIs DEF FlightsOK
  <2>4. Unaffected(p) /\ (HasLeft(p) => HasLeft(p)')
    <3>1. CASE Lands(id) /\ AsFlight(q, flights[id])
      <4>1. ~ AsFlight(p, flights[id])
        BY <2>3, <3>1, OnePlaneEach
      <4> QED BY <3>1, <4>1, LandsMeans
    <3>2. CASE LandsTow(id) /\ AsTow(q, flights[id])
      <4>1. ~ AsTow(p, flights[id])
        BY <3>2 DEF AsTow
      <4> QED BY <3>2, <4>1, LandsTowMeans
    <3> QED BY <2>1, <3>1, <3>2
  <2> QED BY <2>2, <2>4, OtherPlane
<1>3. CASE LandingEnters(q)
  <2>1. PICK f : ComesFrom(q, f) /\ (Tracks("landing", {q}) \/ Tracks("landing", {}))
    BY <1>3 DEF LandingEnters
  <2>2. \A k \in {"departure", "landing"} : p \in recent'[k] => p \in recent[k]
    BY <2>1 DEF Tracks, Kinds
  <2> QED BY <2>1, <2>2, ComesMeans, OtherPlane
<1> QED BY <1>1, <1>2, <1>3

LEMMA LandingSelf ==
  ASSUME FlightsOK, recent \in [Kinds -> SUBSET Planes],
         NEW q \in Planes, PlaneShown(q), Seen(q, q), Signal("landing", q),
         q \notin moved["landing"],
         Sky(q) = "up", Sky(q)' # "up", removed'[q] = removed[q],
         LandingEnds(q) \/ LandingEnters(q)
  PROVE  PlaneShown(q)'
<1>1. q \in moved'["landing"] /\ (q \in moved["departure"] => q \in moved'["departure"])
  BY DEF Seen
<1>2. /\ HasLeft(q) => HasLeft(q)'
      /\ ~ IsUp(q)'
      /\ q \in recent'["departure"] => q \in recent["departure"]
  <2>1. CASE LandingEnds(q)
    <3>1. PICK id \in Stored :
            \/ /\ Lands(id) /\ AsFlight(q, flights[id]) /\ IsFlying(flights[id])
               /\ Tracks("landing", {q})
            \/ /\ LandsTow(id) /\ AsTow(q, flights[id]) /\ IsTowFlying(flights[id])
               /\ Tracks("landing", {q})
      BY <2>1 DEF LandingEnds
    <3>2. /\ id \in Ids /\ (HasLeft(q) => HasLeft(q)') /\ Air(q, flights[id])
          /\ Air(q, flights'[id]) => /\ IsFlying(flights[id]) /\ AsFlight(q, flights[id])
                                     /\ IsTowFlying(flights[id]) /\ AsTow(q, flights[id])
          /\ \A i \in Ids : i # id => flights'[i] = flights[i]
      BY <3>1, LandsMeans, LandsTowMeans DEF Air
    <3>3. ~ IsUp(q)'
      BY <3>2 DEF PlaneShown, OnceUp, IsUp
    <3>4. q \in recent'["departure"] => q \in recent["departure"]
      BY <3>1 DEF Tracks, Kinds
    <3> QED BY <3>2, <3>3, <3>4
  <2>2. CASE LandingEnters(q)
    <3>1. PICK f : /\ ComesFrom(q, f)
                   /\ Tracks("landing", {q}) \/ Tracks("landing", {})
      BY <2>2 DEF LandingEnters
    <3>2. (HasLeft(q) => HasLeft(q)') /\ ~ Air(q, f)
      BY <3>1, ComesMeans
    <3>3. PICK n \in Ids : flights'[n] = f /\ \A i \in Ids : i # n => flights'[i] = flights[i]
      BY <3>1, ComesMeans
    <3>4. q \in recent'["departure"] => q \in recent["departure"]
      BY <3>1 DEF Tracks, Kinds
    <3>5. ~ IsUp(q)'
      BY <2>2, <3>2, <3>3 DEF IsUp, LandingEnters
    <3> QED BY <3>2, <3>4, <3>5
  <2> QED BY <2>1, <2>2
<1>3. q \in recent'["departure"] /\ q \notin moved'["departure"] => HasLeft(q)'
  BY <1>1, <1>2 DEF PlaneShown
<1>4. removed'[q] = 0 /\ OnceUp(q)'
  BY DEF PlaneShown, Seen
<1>5. \A i \in Ids : ~ Air(q, flights'[i])
  BY <1>2 DEF IsUp
<1> QED BY <1>1, <1>2, <1>3, <1>4, <1>5 DEF PlaneShown

LEMMA TouchAndGoShown ==
  ASSUME FlightsOK, NEW p \in Planes, NEW q \in Planes, PlaneShown(p), Seen(p, q),
         Signal("touchAndGo", q), Sky(p)' = "up" <=> Sky(p) = "up",
         p = q => Sky(p) = "up",
         removed'[p] = removed[p],
         Tracks("touchAndGo", {q}) \/ Tracks("touchAndGo", {}),
         flights' = flights \/ (~ IsUp(q) /\ \E f : ComesFrom(q, f))
  PROVE  PlaneShown(p)'
<1>1. NoNews(p, "departure") /\ NoNews(p, "landing")
  BY DEF NoNews, Seen, Tracks, Kinds
<1>2. event' # [kind |-> "departure", plane |-> q]
  <2>1. [kind |-> "departure", plane |-> q].kind # [kind |-> "touchAndGo", plane |-> q].kind
    OBVIOUS
  <2> QED BY <2>1 DEF Signal
<1>3. \A id \in Ids : departedBy'[id] = p => departedBy[id] = p
  BY <1>2 DEF Seen, Signal
<1>4. CASE flights' = flights
  BY <1>1, <1>3, <1>4, StaysShown, UnaffectedSame DEF Seen
<1>5. ASSUME ~ IsUp(q), NEW f, ComesFrom(q, f) PROVE PlaneShown(p)'
  <2>1. CASE p # q
    BY <1>1, <1>3, <1>5, <2>1, StaysShown, ComesMeans DEF Seen
  <2>2. CASE p = q
    <3>1. HasLeft(p) /\ HasLeft(p)'
      BY <1>5, <2>2, ComesMeans DEF PlaneShown
    <3>2. /\ removed'[p] = 0 /\ (p \in recent'["landing"] => p \in moved'["landing"])
          /\ OnceUp(p)'
      BY <1>1 DEF PlaneShown, NoNews, Seen
    <3>3. Sky(p)' = "up"
      BY <2>2
    <3> QED BY <3>1, <3>2, <3>3 DEF PlaneShown
  <2> QED BY <2>1, <2>2
<1> QED BY <1>4, <1>5

LEMMA BookKept ==
  ASSUME FlightsOK, recent \in [Kinds -> SUBSET Planes],
         NEW q \in Planes, Heard(q), Slots
  PROVE  FlightsOK' /\ recent' \in [Kinds -> SUBSET Planes]
<1>1. CASE flights' = flights /\ recent' = recent
  <2>1. Stored' = Stored
    BY <1>1 DEF Stored
  <2> QED BY <1>1, <2>1 DEF FlightsOK, Contiguous
<1>2. CASE DepartureDetected(q)
  <2>1. CASE DepartureIgnored(q)
    BY <1>1, <2>1 DEF DepartureIgnored
  <2>2. CASE DepartureStarts(q)
    BY <2>2, DepartsMeans DEF DepartureStarts, Tracks
  <2>3. CASE DepartureEnters(q)
    BY <2>3, EntersMeans DEF DepartureEnters, Tracks
  <2> QED BY <1>2, <2>1, <2>2, <2>3, DepartureSlot
<1>3. CASE LandingDetected(q)
  <2>1. CASE LandingEnds(q)
    BY <2>1, LandsMeans, LandsTowMeans DEF LandingEnds, Tracks
  <2>2. CASE LandingEnters(q)
    BY <2>2, EntersMeans DEF LandingEnters, ComesFrom, Tracks
  <2> QED BY <1>1, <1>3, <2>1, <2>2, LandingSlot
<1>4. CASE TouchAndGoDetected(q)
  <2>1. recent' \in [Kinds -> SUBSET Planes]
    BY <1>4, TouchAndGoSlot DEF Tracks
  <2>2. CASE flights' = flights
    <3>1. Stored' = Stored
      BY <2>2 DEF Stored
    <3> QED BY <2>1, <2>2, <3>1 DEF FlightsOK, Contiguous
  <2>3. ASSUME NEW f, ComesFrom(q, f) PROVE FlightsOK'
    BY <2>3, ComesMeans
  <2> QED BY <1>4, <2>1, <2>2, <2>3, TouchAndGoSlot
<1> QED BY <1>1, <1>2, <1>3, <1>4, SlotOf

LEMMA FlarmShown ==
  ASSUME RecordsInv, FlightsOK, TrackersOK,
         NEW q \in Planes, Flarm(q), NEW p \in clean', PlaneShown(p)
  PROVE  PlaneShown(p)'
<1>1. Heard(q) /\ Slots /\ Unhurried /\ Watch
  BY StepHeard DEF Flarm
<1>2. Seen(p, q) /\ p \in Planes /\ p \in clean
  BY <1>1, SeenBy DEF Seen
<1>3. p # q => Sky(p)' = Sky(p) /\ removed'[p] = removed[p]
  BY <1>2, OthersStay DEF RecordsInv, Flarm
<1>4. recent \in [Kinds -> SUBSET Planes]
  BY DEF TrackersOK
<1>5. ASSUME NEW k \in Kinds, Signal(k, q)
      PROVE  /\ p = q => q \notin moved[k]
             /\ \A l \in Kinds : Signal(l, q) => l = k
             /\ event' # NoEvent
  <2>1. event' # NoEvent /\ event'.kind = k /\ event'.plane = q
    BY <1>5, RecordsAssumption DEF Signal, Kinds
  <2> QED BY <1>2, <1>1, <2>1 DEF Unhurried, Signal
<1>6. removed[p] = 0
  BY DEF PlaneShown
<1>7. CASE event' = NoEvent /\ flights' = flights /\ recent' = recent
  BY <1>1, <1>2, <1>3, <1>7, QuietShown
<1>8. CASE Signal("departure", q) /\ DepartureDetected(q)
  <2>1. DepartureIgnored(q) \/ DepartureStarts(q) \/ DepartureEnters(q)
    BY <1>4, <1>8, DepartureSlot
  <2>2. CASE p # q
    BY <1>2, <1>3, <1>4, <1>8, <2>1, <2>2, DepartureOther
  <2>3. CASE p = q
    <3>1. Sky(q) = "down" /\ Sky(q)' = "up" /\ removed'[q] = removed[q]
          /\ q \notin moved["departure"]
      BY <1>1, <1>5, <1>8, <2>3 DEF Heard, Kinds
    <3> QED BY <1>2, <1>4, <1>8, <2>1, <2>3, <3>1, DepartureSelf
  <2> QED BY <2>2, <2>3
<1>9. CASE Signal("landing", q) /\ LandingDetected(q)
  <2>1. \/ q \in recent["landing"] /\ flights' = flights /\ recent' = recent
        \/ LandingEnds(q) \/ LandingEnters(q)
    BY <1>4, <1>9, LandingSlot
  <2>2. CASE p # q
    BY <1>2, <1>3, <1>4, <2>1, <2>2, LandingOther
  <2>3. CASE p = q
    <3>1. Sky(q) = "up" /\ Sky(q)' # "up" /\ removed'[q] = removed[q]
          /\ q \notin moved["landing"]
      BY <1>1, <1>5, <1>6, <1>9, <2>3 DEF Heard, Kinds
    <3>2. LandingEnds(q) \/ LandingEnters(q)
      BY <2>1, <2>3, <3>1 DEF PlaneShown
    <3> QED BY <1>2, <1>4, <1>9, <2>3, <3>1, <3>2, LandingSelf
  <2> QED BY <2>2, <2>3
<1>10. CASE Signal("touchAndGo", q) /\ TouchAndGoDetected(q)
  <2>1. /\ Tracks("touchAndGo", {q}) \/ Tracks("touchAndGo", {})
        /\ flights' = flights \/ (~ IsUp(q) /\ \E f : ComesFrom(q, f))
    BY <1>4, <1>10, TouchAndGoSlot
  <2>2. Sky(q) = "up" /\ Sky(q)' = "up" /\ removed'[q] = removed[q]
    BY <1>1, <1>5, <1>10 DEF Heard, Kinds
  <2> QED BY <1>2, <1>3, <1>10, <2>1, <2>2, TouchAndGoShown
<1> QED BY <1>1, <1>7, <1>8, <1>9, <1>10, SlotOf
-----------------------------------------------------------------------------
(* Steps of the user and of time *)

LEMMA ExpireKeeps ==
  ASSUME FlightsOK, TrackersOK, NEW kind \in Kinds, NEW q \in Planes, Expire(kind, q)
  PROVE  /\ FlightsOK' /\ TrackersOK' /\ clean' = clean
         /\ \A p \in clean : PlaneShown(p) => PlaneShown(p)'
<1>1. /\ flights' = flights /\ departedBy' = departedBy /\ clean' = clean
      /\ UNCHANGED <<state, landingTimer, removed>>
      /\ recent' = [recent EXCEPT ![kind] = @ \ {q}]
      /\ moved' = [moved EXCEPT ![kind] = @ \ {q}]
  BY DEF Expire, Undisturbed
<1>2. Stored' = Stored
  BY <1>1 DEF Stored
<1>3. FlightsOK'
  BY <1>1, <1>2 DEF FlightsOK, Contiguous
<1>4. TrackersOK'
  BY <1>1 DEF TrackersOK
<1>5. ASSUME NEW p \in clean, PlaneShown(p) PROVE PlaneShown(p)'
  <2>1. p \in Planes
    BY DEF TrackersOK
  <2>2. ASSUME NEW k \in Kinds PROVE NoNews(p, k)
    <3>1. /\ recent'[k] = IF k = kind THEN recent[k] \ {q} ELSE recent[k]
          /\ moved'[k] = IF k = kind THEN moved[k] \ {q} ELSE moved[k]
      BY <1>1 DEF TrackersOK
    <3> QED BY <3>1 DEF NoNews
  <2>3. Sky(p)' = Sky(p) /\ removed'[p] = removed[p]
    BY <1>1 DEF Sky
  <2> QED BY <1>1, <1>5, <2>1, <2>2, <2>3, StaysShown, UnaffectedSame DEF Kinds, PlaneShown
<1> QED BY <1>1, <1>3, <1>4, <1>5

LEMMA PrepareEnters ==
  ASSUME FlightsOK, NEW plane \in Known, NEW tow \in Towplanes \cup {NoPlane},
         NEW mode \in Modes, Prepare(plane, tow, mode)
  PROVE  \E f : /\ Enters(f) /\ ~ f.departed
                /\ UNCHANGED <<state, landingTimer, removed, recent, moved, departedBy, clean>>
<1> DEFINE f == [plane |-> plane, flarmId |-> NoPlane, tow |-> tow, mode |-> mode,
                 departed |-> FALSE, landed |-> FALSE, towLanded |-> FALSE]
<1>1. /\ f.plane = plane /\ f.flarmId = NoPlane /\ f.tow = tow /\ f.mode = mode
      /\ ~ f.departed /\ ~ f.landed /\ ~ f.towLanded /\ f \in Flights
  BY FlightsAssumption DEF Flights
<1>2. /\ Cardinality(Stored) < MaxFlights
      /\ flights' = [flights EXCEPT ![Cardinality(Stored) + 1] = f]
      /\ UNCHANGED <<state, landingTimer, removed, recent, moved, departedBy, clean>>
  BY DEF Prepare, Undisturbed
<1> HIDE DEF f
<1>3. FlightShape(f)
  BY <1>1, <1>2, FlightsAssumption DEF FlightShape
<1>4. Enters(f)
  BY <1>1, <1>2, <1>3 DEF Enters
<1> QED BY <1>1, <1>2, <1>4

LEMMA PrepareShown ==
  ASSUME FlightsOK, NEW p \in Planes, PlaneShown(p),
         NEW f, Enters(f), ~ f.departed,
         UNCHANGED <<state, landingTimer, removed, recent, moved, departedBy, clean>>
  PROVE  PlaneShown(p)'
<1>1. ~ Air(p, f)
  BY DEF Air, IsFlying, IsTowFlying
<1>2. Unaffected(p) /\ (HasLeft(p) => HasLeft(p)')
  BY <1>1, EntersMeans
<1>4. OnceUp(p)'
  <2>1. PICK n \in Ids : /\ flights'[n] = f
                         /\ \A i \in Ids : i # n => flights'[i] = flights[i]
    BY EntersMeans
  <2> QED BY <1>1, <2>1 DEF OnceUp, PlaneShown
<1>3. Sky(p)' = Sky(p) /\ NoNews(p, "departure") /\ NoNews(p, "landing")
  BY DEF Sky, NoNews
<1> QED BY <1>2, <1>3, <1>4, StaysShown

\* the user departs or lands a flight
LEMMA EditKeeps ==
  ASSUME FlightsOK, TrackersOK, NEW id \in Stored, Edit(id)
  PROVE  /\ FlightsOK' /\ TrackersOK' /\ clean' \subseteq clean
         /\ \A p \in clean' : PlaneShown(p) => PlaneShown(p)'
<1> DEFINE f == flights[id]
<1>1. id \in Ids /\ f \in Flights /\ FlightShape(f)
  BY StoredIs DEF FlightsOK
<1>2. /\ clean' = clean \ {FlarmIdOf(f), f.plane, TowIdOf(f)}
      /\ UNCHANGED <<state, landingTimer, removed, moved, departedBy>>
      /\ \/ CanDepart(f) /\ Depart(id)
         \/ CanLand(f) /\ Land(id)
         \/ IsAirtow(f) /\ CanTowLand(f) /\ LandTow(id)
         \/ CanTouchAndGo(f) /\ TouchAndGo(id)
  BY DEF Edit, Undisturbed
<1>3. \E kind \in Kinds : /\ recent' \in [Kinds -> SUBSET Planes]
                          /\ \A k \in Kinds : \A p \in Planes :
                               p \in recent'[k] => \/ p \in recent[k]
                                                   \/ p \in {FlarmIdOf(f), TowIdOf(f)}
  <2>1. \E kind \in Kinds : \E ids \in SUBSET {FlarmIdOf(f), TowIdOf(f)} : Track(kind, ids)
    BY <1>2 DEF Depart, Land, LandTow, TouchAndGo, Update, Kinds
  <2>2. FlarmIdOf(f) \in Planes \cup {NoPlane} /\ TowIdOf(f) \in Planes \cup {NoPlane}
    BY <1>1, FlarmIds
  <2> HIDE DEF f
  <2>3. PICK kind \in Kinds : \E ids \in SUBSET {FlarmIdOf(f), TowIdOf(f)} : Track(kind, ids)
    BY <2>1
  <2>4. PICK ids : ids \in SUBSET {FlarmIdOf(f), TowIdOf(f)} /\ Track(kind, ids)
    BY <2>3
  <2>5. Tracks(kind, ids)
    BY <2>2, <2>4, TrackTracks DEF TrackersOK
  <2> QED BY <2>4, <2>5 DEF Tracks
<1>4. /\ FlightsOK'
      /\ \A p \in Planes : /\ HasLeft(p) => HasLeft(p)'
                           /\ ~ AsFlight(p, f) /\ ~ (IsAirtow(f) /\ AsTow(p, f))
                                => Unaffected(p)
  <2>1. CASE CanDepart(f) /\ Depart(id)
    BY <2>1, DepartsMeans DEF Depart, Update, Departs
  <2>2. CASE CanLand(f) /\ Land(id)
    BY <2>2, LandsMeans DEF Land, Update, Lands
  <2>3. CASE IsAirtow(f) /\ CanTowLand(f) /\ LandTow(id)
    BY <2>3, LandsTowMeans DEF LandTow, Update, LandsTow
  <2>4. CASE TouchAndGo(id)
    <3>1. flights' = flights
      BY <1>1, <2>4 DEF TouchAndGo, Update, FlightsOK
    <3>2. Stored' = Stored
      BY <3>1 DEF Stored
    <3> QED BY <3>1, <3>2, UnaffectedSame DEF FlightsOK, Contiguous
  <2> QED BY <1>2, <2>1, <2>2, <2>3, <2>4
<1>5. TrackersOK'
  BY <1>2, <1>3 DEF TrackersOK
<1>6. ASSUME NEW p \in clean', PlaneShown(p) PROVE PlaneShown(p)'
  <2>1. p \in Planes /\ p # FlarmIdOf(f) /\ p # TowIdOf(f)
    BY <1>2 DEF TrackersOK
  <2>2. ~ AsFlight(p, f) /\ ~ (IsAirtow(f) /\ AsTow(p, f))
    BY <1>1, <2>1, FlarmIds
  <2>3. NoNews(p, "departure") /\ NoNews(p, "landing")
    BY <1>2, <1>3, <2>1 DEF NoNews, Kinds
  <2>4. Sky(p)' = Sky(p)
    BY <1>2 DEF Sky
  <2>5. OnceUp(p)'
    <3>1. \A i \in Ids : i # id => flights'[i] = flights[i]
      BY <1>2 DEF Depart, Land, LandTow, TouchAndGo, Update, FlightsOK
    <3>2. /\ Unaffected(p) /\ ~ Air(p, flights[id])
      BY <1>4, <2>1, <2>2 DEF Air, IsTowFlying
    <3> QED BY <1>1, <1>6, <3>1, <3>2 DEF OnceUp, Unaffected, PlaneShown
  <2> QED BY <1>2, <1>4, <1>6, <2>1, <2>2, <2>3, <2>4, <2>5, StaysShown
<1> QED BY <1>2, <1>4, <1>5, <1>6
-----------------------------------------------------------------------------
(* The book, in every state *)

FlightsInv == RecordsInv /\ TrackersOK /\ FlightsOK

LEMMA InitFlightsInv == Init => FlightsInv /\ ShownInv
<1> SUFFICES ASSUME Init PROVE FlightsInv /\ ShownInv
  OBVIOUS
<1>1. RecordsInv
  BY InitIInv DEF Init
<1>2. TrackersOK
  BY DEF Init, TrackersOK
<1>3. Stored = {} /\ \A id \in Ids : flights[id] = NoFlight
  BY DEF Init, Stored
<1>4. FlightsOK
  <2>1. Contiguous
    BY <1>3, FS_EmptySet DEF Contiguous
  <2> QED BY <1>3, <2>1 DEF Init, FlightsOK
<1>5. ShownInv
  <2>1. ASSUME NEW p \in Planes PROVE PlaneShown(p)
    <3>1. removed[p] = 0 /\ Sky(p) = "unseen"
      BY DEF Init, RecordsInit, Sky
    <3>2. recent["departure"] = {} /\ recent["landing"] = {}
      BY DEF Init, Kinds
    <3>3. \A id \in Ids : ~ Air(p, flights[id])
      BY <1>3, NoFlightIs
    <3> QED BY <3>1, <3>2, <3>3 DEF PlaneShown, OnceUp
  <2> QED BY <1>2, <2>1 DEF ShownInv, TrackersOK
<1> QED BY <1>1, <1>2, <1>4, <1>5 DEF FlightsInv

LEMMA UndisturbedRecords ==
  ASSUME RecordsInv, UNCHANGED <<state, landingTimer, removed>>, event' = NoEvent
  PROVE  RecordsInv'
BY DEF RecordsInv, TypeOK, TimerOnlyAtRest

LEMMA StutterKeeps ==
  ASSUME FlightsInv, UNCHANGED vars
  PROVE  FlightsInv' /\ (ShownInv => ShownInv')
<1>1. RecordsInv'
  BY StepIInv DEF FlightsInv, vars, recordVars
<1>2. /\ flights' = flights /\ recent' = recent /\ moved' = moved
      /\ departedBy' = departedBy /\ clean' = clean /\ Stored' = Stored
      /\ UNCHANGED <<state, landingTimer, removed>>
  BY DEF vars, recordVars, flightVars, Stored
<1>3. TrackersOK' /\ FlightsOK'
  BY <1>2 DEF FlightsInv, TrackersOK, FlightsOK, Contiguous
<1>4. ASSUME ShownInv, NEW p \in clean PROVE PlaneShown(p)'
  <2>1. p \in Planes /\ PlaneShown(p) /\ Sky(p)' = Sky(p)
    BY <1>2, <1>4 DEF FlightsInv, TrackersOK, ShownInv, Sky
  <2>2. NoNews(p, "departure") /\ NoNews(p, "landing")
    BY <1>2 DEF NoNews
  <2> QED BY <1>2, <2>1, <2>2, StaysShown, UnaffectedSame DEF PlaneShown
<1> QED BY <1>1, <1>2, <1>3, <1>4 DEF FlightsInv, ShownInv

LEMMA StepFlightsInv ==
  ASSUME FlightsInv, [Next]_vars
  PROVE  FlightsInv'
<1> USE DEF FlightsInv
<1>1. CASE UNCHANGED vars
  BY <1>1, StutterKeeps
<1>2. ASSUME NEW q \in Planes, Flarm(q) PROVE FlightsInv'
  <2>1. RecordsInv'
    BY <1>2, StepIInv DEF Flarm, RecordsNext
  <2>2. Heard(q) /\ Slots /\ Watch
    BY <1>2, StepHeard DEF Flarm
  <2>3. FlightsOK' /\ recent' \in [Kinds -> SUBSET Planes]
    BY <2>2, BookKept DEF TrackersOK
  <2>4. TrackersOK'
    BY <2>2, <2>3, WatchSeen
  <2> QED BY <2>1, <2>3, <2>4
<1>3. ASSUME NEW kind \in Kinds, NEW p \in Planes, Expire(kind, p) PROVE FlightsInv'
  <2>1. RecordsInv'
    BY <1>3, UndisturbedRecords DEF Expire, Undisturbed, EmitNothing
  <2> QED BY <1>3, <2>1, ExpireKeeps
<1>4. ASSUME NEW plane \in Known, NEW tow \in Towplanes \cup {NoPlane}, NEW mode \in Modes,
             Prepare(plane, tow, mode)
      PROVE  FlightsInv'
  <2>1. RecordsInv'
    BY <1>4, UndisturbedRecords DEF Prepare, Undisturbed, EmitNothing
  <2>2. PICK f : /\ Enters(f)
                 /\ UNCHANGED <<state, landingTimer, removed, recent, moved, departedBy, clean>>
    BY <1>4, PrepareEnters
  <2>3. FlightsOK' /\ TrackersOK'
    BY <2>2, EntersMeans DEF TrackersOK
  <2> QED BY <2>1, <2>3
<1>5. ASSUME NEW id \in Stored, Edit(id) PROVE FlightsInv'
  <2>1. RecordsInv'
    BY <1>5, UndisturbedRecords DEF Edit, Undisturbed, EmitNothing
  <2> QED BY <1>5, <2>1, EditKeeps
<1> QED BY <1>1, <1>2, <1>3, <1>4, <1>5 DEF Next

LEMMA StepShownInv ==
  ASSUME FlightsInv, ShownInv, [Next]_vars
  PROVE  ShownInv'
<1>1. CASE UNCHANGED vars
  BY <1>1, StutterKeeps
<1>2. ASSUME NEW q \in Planes, Flarm(q), NEW p \in clean' PROVE PlaneShown(p)'
  <2>1. PlaneShown(p)
    BY <1>2 DEF Flarm, Watch, ShownInv
  <2> QED BY <1>2, <2>1, FlarmShown DEF FlightsInv
<1>3. ASSUME NEW kind \in Kinds, NEW p \in Planes, Expire(kind, p) PROVE ShownInv'
  BY <1>3, ExpireKeeps DEF ShownInv, FlightsInv
<1>4. ASSUME NEW plane \in Known, NEW tow \in Towplanes \cup {NoPlane}, NEW mode \in Modes,
             Prepare(plane, tow, mode)
      PROVE  ShownInv'
  <2>1. PICK f : /\ Enters(f) /\ ~ f.departed
                 /\ UNCHANGED <<state, landingTimer, removed, recent, moved, departedBy, clean>>
    BY <1>4, PrepareEnters DEF FlightsInv
  <2>2. ASSUME NEW p \in clean PROVE PlaneShown(p)'
    BY <2>1, PrepareShown DEF TrackersOK, ShownInv, FlightsInv
  <2> QED BY <2>1, <2>2 DEF ShownInv
<1>5. ASSUME NEW id \in Stored, Edit(id) PROVE ShownInv'
  BY <1>5, EditKeeps DEF ShownInv, FlightsInv
<1> QED BY <1>1, <1>2, <1>3, <1>4, <1>5 DEF Next, ShownInv

LEMMA ShownMeans ==
  ASSUME FlightsInv, ShownInv
  PROVE  BookShowsTheAir
<1> SUFFICES ASSUME NEW p \in clean
             PROVE  /\ Sky(p) = "up" => InTheAir(p) # {} \/ HasLeft(p)
                    /\ Sky(p) = "down" => \A r \in InTheAir(p) : departedBy[r.id] # p
  BY DEF BookShowsTheAir
<1>1. p \in Planes /\ PlaneShown(p)
  BY DEF FlightsInv, ShownInv, TrackersOK
<1>2. /\ InTheAir(p) # {} <=> IsUp(p)
      /\ \A r \in InTheAir(p) : r.id \in Ids /\ Air(p, flights[r.id])
  BY <1>1, InTheAirIs
<1> QED BY <1>1, <1>2 DEF PlaneShown

(* As long as Flarm sees every move of a plane, the user does not depart   *)
(* or land its flights, it is not shown in the air twice and no coming     *)
(* flight has swallowed its departure, the book shows it in the air when   *)
(* it is up, and not by its own departure when it is down                  *)
(* (MainWindow::flarmList_departureDetected and its neighbours): for any   *)
(* planes, any flights that are prepared, in any number for each plane,    *)
(* and any towplanes that are preselected.                                 *)
THEOREM BookRight == Spec => []BookShowsTheAir
<1>1. Spec => [](FlightsInv /\ ShownInv)
  BY InitFlightsInv, StepFlightsInv, StepShownInv, PTL DEF Spec
<1> QED BY <1>1, ShownMeans, PTL

LEMMA SecondIgnored ==
  ASSUME FlightsInv, [Next]_vars
  PROVE  [\A p \in Planes :
            /\ event' = [kind |-> "departure", plane |-> p]
            /\ InTheAir(p) # {}
            => \/ flights' = flights
               \/ \E r \in PreparedFor(p) :
                    flights' = [flights EXCEPT ![r.id].departed = TRUE]]_vars
<1> SUFFICES ASSUME Next, NEW p \in Planes, InTheAir(p) # {},
                    event' = [kind |-> "departure", plane |-> p]
             PROVE  \/ flights' = flights
                    \/ \E r \in PreparedFor(p) :
                         flights' = [flights EXCEPT ![r.id].departed = TRUE]
  OBVIOUS
<1> USE DEF FlightsInv
<1>1. IsUp(p) /\ event' # NoEvent
  BY InTheAirIs, RecordsAssumption
<1>2. PICK q \in Planes : Flarm(q)
  BY <1>1 DEF Next, Expire, Prepare, Edit, Undisturbed, EmitNothing
<1>3. Heard(q) /\ Slots
  BY <1>2, StepHeard DEF Flarm
<1>4. p = q /\ Signal("departure", p)
  BY <1>1, <1>3 DEF Heard, Signal
<1>5. CASE DepartureDetected(p)
  <2>1. CASE DepartureIgnored(p)
    BY <2>1 DEF DepartureIgnored
  <2>2. CASE DepartureStarts(p)
    <3>1. PICK id \in Stored : Departs(id) /\ Ready(p, flights[id])
      BY <2>2 DEF DepartureStarts
    <3>2. PICK r \in PreparedFor(p) : r.id = id
      BY <3>1, PreparedForIs DEF Ready
    <3>3. flights' = [flights EXCEPT ![r.id].departed = TRUE]
      BY <3>1, <3>2 DEF Departs
    <3> QED BY <3>3
  <2>3. CASE DepartureEnters(p)
    BY <1>1, <2>3 DEF DepartureEnters
  <2> QED BY <1>1, <1>5, <2>1, <2>2, <2>3, DepartureSlot DEF TrackersOK
<1>6. CASE event' = NoEvent
  BY <1>1, <1>6
<1>7. CASE Signal("landing", q) \/ Signal("touchAndGo", q)
  BY <1>4, <1>7 DEF Signal
<1> QED BY <1>3, <1>4, <1>5, <1>6, <1>7, SlotOf

(* A departure that is detected of a plane that the book has in the air,   *)
(* because its partner in an airtow was detected first or by mistake,      *)
(* changes no flight (MainWindow.cpp:2599), except that it departs the     *)
(* next flight of the plane if that is prepared already; for any flights   *)
(* that are prepared, departed, landed and created in any order.           *)
THEOREM SecondDeparture == Spec => SecondDepartureIgnored
<1>1. Spec => []FlightsInv
  BY InitFlightsInv, StepFlightsInv, PTL DEF Spec
<1>2. FlightsInv /\ [Next]_vars =>
        [\A p \in Planes :
            /\ event' = [kind |-> "departure", plane |-> p]
            /\ InTheAir(p) # {}
            => \/ flights' = flights
               \/ \E r \in PreparedFor(p) :
                    flights' = [flights EXCEPT ![r.id].departed = TRUE]]_vars
  BY SecondIgnored
<1> QED BY <1>1, <1>2, PTL DEF Spec, SecondDepartureIgnored
==============================================================================
