---------------------------- MODULE FlarmFlights -----------------------------
(***************************************************************************)
(* The book of flights that the main window keeps from what Flarm detects  *)
(* and the user enters (src/src/gui/windows/MainWindow.cpp), on top of the *)
(* records that detect it.                                                 *)
(*                                                                         *)
(* A signal of a record is handled by a slot of the main window in the     *)
(* same step: it looks for the flight in the cache, by Flarm id, then by   *)
(* plane, and departs or lands it, or creates one.  A flight may have a    *)
(* towplane; its towflight is not stored but follows from the flight.      *)
(* Times, landing counts and people are left out.  All happens on one day, *)
(* one write at a time (FlightCache has overlapping ones); a write that    *)
(* is canceled is a signal that is lost, as one out of range is.           *)
(***************************************************************************)
EXTENDS FlarmRecords, FiniteSets

CONSTANTS
  Known,          \* the planes in the database, with their Flarm ids
  Towplanes,      \* those that tow and are not towed
  NoPlane,        \* the invalid id, the empty Flarm id
  Modes,          \* the modes of the flights the user prepares
  Preselected,    \* the towplanes of Settings::preselectedLaunchMethod, if any,
                  \* which the user may change
  MaxFlights,     \* bound on flights in the database
  MayEdit         \* whether the user departs and lands flights

ASSUME FlightsAssumption ==
  /\ Known \subseteq Planes /\ Motorgliders \subseteq Known
  /\ Towplanes \subseteq Known
  /\ NoPlane \notin Planes
  /\ Modes \subseteq {"local", "coming", "leaving"}
  /\ Preselected \subseteq Towplanes \cup {NoPlane}
  /\ MaxFlights \in Nat
  /\ MayEdit \in BOOLEAN

VARIABLES
  flights,        \* the flights in the database and in the cache, by id
  recent,         \* departureTracker, landingTracker, touchAndGoTracker:
                  \* the Flarm ids with an event in the last 10 seconds
  moved,          \* history: the planes with a signal in the last 10 seconds
  departedBy,     \* history: the plane whose signal departed a flight
  clean           \* history: the planes Flarm saw without a gap, the user did
                  \* not interfere with, and no deviation has affected

bookVars   == <<flights, recent>>
flightVars == <<flights, recent, moved, departedBy, clean>>
vars       == <<recordVars, flightVars>>

Ids      == 1 .. MaxFlights
NoFlight == [mode |-> "none"]
Flights  == [plane : Known \cup {NoPlane}, flarmId : Planes \cup {NoPlane},
             tow : Known \cup {NoPlane}, mode : {"local", "coming", "leaving"},
             departed : BOOLEAN, landed : BOOLEAN, towLanded : BOOLEAN]

FlightsTypeOK ==
  /\ TypeOK
  /\ flights \in [Ids -> Flights \cup {NoFlight}]
  /\ recent \in [Kinds -> SUBSET Planes]
  /\ moved \in [Kinds -> SUBSET Planes]
  /\ departedBy \in [Ids -> Planes \cup {NoPlane}]
  /\ clean \in SUBSET Planes
  /\ \A id \in Ids : id > 1 /\ flights[id] # NoFlight
                       => flights[id - 1] # NoFlight

Init == /\ RecordsInit
        /\ flights = [id \in Ids |-> NoFlight]
        /\ recent = [k \in Kinds |-> {}]
        /\ moved = [k \in Kinds |-> {}]
        /\ departedBy = [id \in Ids |-> NoPlane]
        /\ clean = Planes

-----------------------------------------------------------------------------
(* Flights (src/src/model/Flight.cpp) *)

Stored == {id \in Ids : flights[id] # NoFlight}

DepartsHere(f) == f.mode \in {"local", "leaving"}
LandsHere(f)   == f.mode \in {"local", "coming"}
Happened(f)    == \/ DepartsHere(f) /\ f.departed
                  \/ LandsHere(f) /\ f.landed
IsPrepared(f)  == ~ Happened(f)
IsFlying(f)    == f.departed /\ LandsHere(f) /\ ~ f.landed
IsAirtow(f)    == DepartsHere(f) /\ f.tow # NoPlane

\* isFlying of the towflight that makeTowflight returns; it is a local one
IsTowFlying(f) == IsAirtow(f) /\ f.departed /\ ~ f.towLanded

CanDepart(f)     == /\ ~ (LandsHere(f) /\ f.landed)
                    /\ DepartsHere(f) /\ ~ f.departed
CanLand(f)       == /\ ~ f.landed /\ LandsHere(f)
                    /\ DepartsHere(f) => f.departed
CanTowLand(f)    == ~ f.towLanded /\ (DepartsHere(f) => f.departed)
CanTouchAndGo(f) == ~ f.landed /\ (DepartsHere(f) => f.departed)

-----------------------------------------------------------------------------
(* FlightLookup *)

Refs(ids, tow) == [id : ids, tow : {tow}]

PreparedFlights    == Refs({id \in Stored : IsPrepared(flights[id])}, FALSE)
PreparedTowflights == Refs({id \in Stored : /\ IsPrepared(flights[id])
                                            /\ IsAirtow(flights[id])}, TRUE)
FlyingFlights      == Refs({id \in Stored : IsFlying(flights[id])}, FALSE)
FlyingTowflights   == Refs({id \in Stored : IsTowFlying(flights[id])}, TRUE)

ByFlarmId(refs, p) == {r \in refs : flights[r.id].flarmId = p}
ByPlane(refs, p)   ==
  {r \in refs : /\ p \in Known
                /\ p = IF r.tow THEN flights[r.id].tow ELSE flights[r.id].plane}

\* the matches among the first candidates that have any; the database gives
\* the order of equal ones
FirstMatch(tiers) ==
  LET matching == {i \in DOMAIN tiers : tiers[i] # {}}
  IN  IF matching = {} THEN {}
      ELSE tiers[CHOOSE i \in matching : \A j \in matching : i <= j]

LookupFlying(p) == FirstMatch(<<ByFlarmId(FlyingFlights, p),
                                ByPlane(FlyingFlights, p),
                                ByPlane(FlyingTowflights, p)>>)

\* (mutated: flights that have already departed are not considered)
LookupPreparedOnly(p) ==
  FirstMatch(<<ByFlarmId(PreparedFlights, p),
               ByPlane(PreparedFlights, p), ByPlane(PreparedTowflights, p)>>)

LookupForDeparture(p) ==
  FirstMatch(<<ByFlarmId(PreparedFlights, p), ByFlarmId(FlyingFlights, p),
               ByPlane(PreparedFlights, p), ByPlane(PreparedTowflights, p),
               ByPlane(FlyingFlights, p), ByPlane(FlyingTowflights, p)>>)

-----------------------------------------------------------------------------
(* Writing flights *)

\* MainWindow::determineFlarmId
FlarmIdOf(f) == IF f.flarmId # NoPlane THEN f.flarmId ELSE f.plane
TowIdOf(f)   == IF IsAirtow(f) THEN f.tow ELSE NoPlane

\* (mutated: also flights without a Flarm id are tracked)
TrackAny(kind, ids) == recent' = [recent EXCEPT ![kind] = @ \cup ids]

\* EventTimeTracker::eventNow
Track(kind, ids) == recent' = [recent EXCEPT ![kind] = @ \cup (ids \ {NoPlane})]

\* DbManager::updateObject, then the tracker
Update(id, f, kind, ids) ==
  flights' = [flights EXCEPT ![id] = f] /\ Track(kind, ids)

Depart(id) == Update(id, [flights[id] EXCEPT !.departed = TRUE], "departure",
                     {FlarmIdOf(flights[id]), TowIdOf(flights[id])})
Land(id)   == Update(id, [flights[id] EXCEPT !.landed = TRUE], "landing",
                     {FlarmIdOf(flights[id])})
LandTow(id) == Update(id, [flights[id] EXCEPT !.towLanded = TRUE], "landing",
                      {TowIdOf(flights[id])})
TouchAndGo(id) == Update(id, flights[id], "touchAndGo", {FlarmIdOf(flights[id])})

\* createObject; the cache need not have the flight yet when its Flarm ids
\* are looked up for the tracker
Create(f, kind) ==
  /\ Cardinality(Stored) < MaxFlights
  /\ flights' = [flights EXCEPT ![Cardinality(Stored) + 1] = f]
  /\ \/ Track(kind, {FlarmIdOf(f)} \cup
                      IF kind = "departure" THEN {TowIdOf(f)} ELSE {})
     \/ UNCHANGED recent

\* createFlarmFlight
FlarmFlight(p, mode) ==
  [plane |-> IF p \in Known THEN p ELSE NoPlane, flarmId |-> p,
   tow |-> NoPlane, mode |-> mode,
   departed |-> FALSE, landed |-> FALSE, towLanded |-> FALSE]

-----------------------------------------------------------------------------
(* The slots for the signals of FlarmList *)

\* nonInteractiveDepartFlight, unless the flight is flying already
DepartureDetected(p) ==
  IF p \in recent["departure"] THEN UNCHANGED bookVars
  ELSE \/ \E r \in LookupForDeparture(p) :
            IF IsFlying(flights[r.id]) \/ ~ CanDepart(flights[r.id])
            THEN UNCHANGED bookVars ELSE Depart(r.id)
       \/ /\ LookupForDeparture(p) = {}
          /\ \E tow \in Preselected :
               Create([FlarmFlight(p, "local") EXCEPT !.departed = TRUE, !.tow = tow],
                      "departure")

\* (mutated: the towplane's landing lands the glider)
LandingDetectedOfFlight(p) ==
  IF p \in recent["landing"] THEN UNCHANGED bookVars
  ELSE \/ \E r \in LookupFlying(p) : CanLand(flights[r.id]) /\ Land(r.id)
       \/ /\ LookupFlying(p) = {}
          /\ Create([FlarmFlight(p, "coming") EXCEPT !.landed = TRUE], "landing")

\* (mutated: landings are compared with departures)
LandingDetectedWrongTracker(p) ==
  IF p \in recent["departure"] THEN UNCHANGED bookVars
  ELSE \/ \E r \in LookupFlying(p) : IF r.tow THEN LandTow(r.id) ELSE Land(r.id)
       \/ /\ LookupFlying(p) = {}
          /\ Create([FlarmFlight(p, "coming") EXCEPT !.landed = TRUE], "landing")

\* nonInteractiveLandFlight, nonInteractiveLandTowflight; what is flying can
\* land
LandingDetected(p) ==
  IF p \in recent["landing"] THEN UNCHANGED bookVars
  ELSE \/ \E r \in LookupFlying(p) : IF r.tow THEN LandTow(r.id) ELSE Land(r.id)
       \/ /\ LookupFlying(p) = {}
          /\ Create([FlarmFlight(p, "coming") EXCEPT !.landed = TRUE], "landing")

\* nonInteractiveTouchAndGo; ignored for towflights
TouchAndGoDetected(p) ==
  IF p \in recent["touchAndGo"] THEN UNCHANGED bookVars
  ELSE \/ \E r \in LookupFlying(p) :
            IF r.tow THEN UNCHANGED bookVars ELSE TouchAndGo(r.id)
       \/ /\ LookupFlying(p) = {}
          /\ Create(FlarmFlight(p, "coming"), "touchAndGo")

\* the signal of the same step is handled
Slots ==
  \/ event' = NoEvent /\ UNCHANGED bookVars
  \/ \E p \in Planes :
       \/ event' = [kind |-> "departure", plane |-> p] /\ DepartureDetected(p)
       \/ event' = [kind |-> "landing", plane |-> p] /\ LandingDetected(p)
       \/ event' = [kind |-> "touchAndGo", plane |-> p] /\ TouchAndGoDetected(p)

-----------------------------------------------------------------------------
(* Steps *)

\* what the book shows in the air with the plane, and prepared for it
InTheAir(p) == ByFlarmId(FlyingFlights, p)
                 \cup ByPlane(FlyingFlights \cup FlyingTowflights, p)
PreparedFor(p) == ByFlarmId(PreparedFlights, p)
                    \cup ByPlane(PreparedFlights \cup PreparedTowflights, p)

\* the plane was up and is not, or is up and was not, and nothing was reported
Gap(p) == /\ event' = NoEvent
          /\ Sky(p) # Sky(p)'
          /\ Sky(p) = "up" \/ Sky(p)' = "up"

(* Deviations: a plane they affect is not clean any more *)

\* A flight of the plane is departed while another shows it in the air: one that
\* was prepared for later, or one created with the preselected towplane.
InTheAirTwice(p) == \E r, s \in InTheAir(p) : r # s

\* A flight that comes here is prepared for the plane, is found for its
\* departure, and cannot depart.
DepartureSwallowed(p) ==
  /\ event' = [kind |-> "departure", plane |-> p]
  /\ \E r \in PreparedFor(p) : ~ DepartsHere(flights[r.id])

\* A plane does not do the same twice in 10 seconds.
Unhurried == event' # NoEvent /\ event'.plane \in clean
               => event'.plane \notin moved[event'.kind]

\* history is kept of the planes that are clean
Watch ==
  /\ clean' = {p \in clean :
                 ~ Gap(p) /\ ~ InTheAirTwice(p)' /\ ~ DepartureSwallowed(p)}
  /\ moved' = [kind \in Kinds |->
       {p \in clean' : \/ p \in moved[kind]
                       \/ /\ kind # "touchAndGo"
                          /\ event' = [kind |-> kind, plane |-> p]}]
  /\ departedBy' = [id \in Ids |->
       IF /\ event' # NoEvent /\ flights'[id] # flights[id]
          /\ event'.kind = "departure"
       THEN event'.plane ELSE departedBy[id]]

Flarm(p) == RecordStep(p) /\ Slots /\ Unhurried /\ Watch

Undisturbed == UNCHANGED <<state, landingTimer, removed>> /\ EmitNothing

\* 10 seconds pass: EventTimeTracker::eventWithin
Expire(kind, p) ==
  /\ p \in recent[kind] \cup moved[kind]
  /\ recent' = [recent EXCEPT ![kind] = @ \ {p}]
  /\ moved' = [moved EXCEPT ![kind] = @ \ {p}]
  /\ Undisturbed
  /\ UNCHANGED <<flights, departedBy, clean>>

\* the user enters a flight in the flight window
Prepare(plane, tow, mode) ==
  /\ tow # NoPlane => plane \notin Towplanes
  /\ Cardinality(Stored) < MaxFlights
  /\ flights' = [flights EXCEPT ![Cardinality(Stored) + 1] =
       [plane |-> plane, flarmId |-> NoPlane, tow |-> tow, mode |-> mode,
        departed |-> FALSE, landed |-> FALSE, towLanded |-> FALSE]]
  /\ Undisturbed
  /\ UNCHANGED <<recent, moved, departedBy, clean>>

\* interactiveDepartFlight, interactiveLandFlight, interactiveLandTowflight
\* and interactiveTouchAndGo; the questions they ask are answered with yes.
\* Bound: the user interferes only as long as all planes are clean.
Edit(id) ==
  /\ MayEdit /\ clean = Planes
  /\ LET f == flights[id]
     IN  /\ \/ CanDepart(f) /\ Depart(id)
            \/ CanLand(f) /\ Land(id)
            \/ IsAirtow(f) /\ CanTowLand(f) /\ LandTow(id)
            \/ CanTouchAndGo(f) /\ TouchAndGo(id)
         /\ clean' = clean \ {FlarmIdOf(f), f.plane, TowIdOf(f)}
  /\ Undisturbed
  /\ UNCHANGED <<moved, departedBy>>

\* Bound: the properties are about clean planes, and a plane that is not
\* never becomes clean again; what follows the last one is not explored.
Next == /\ clean # {}
        /\ \/ \E p \in Planes : Flarm(p)
           \/ \E kind \in Kinds, p \in Planes : Expire(kind, p)
           \/ \E plane \in Known, tow \in Towplanes \cup {NoPlane},
                 mode \in Modes : Prepare(plane, tow, mode)
           \/ \E id \in Stored : Edit(id)

Spec == Init /\ [][Next]_vars

-----------------------------------------------------------------------------
(* Properties *)

\* it has left for another airfield
HasLeft(p) == \E id \in Stored : /\ flights[id].plane = p
                                 /\ flights[id].mode = "leaving"
                                 /\ flights[id].departed

(***************************************************************************)
(* The book shows in the air who is in the air, as far as Flarm saw every  *)
(* move of the plane: who departed is flying in the book, as a flight or   *)
(* as a towplane, whichever of the two planes of an airtow is detected     *)
(* first; who landed is not, except in a flight that its partner in an     *)
(* airtow has departed.  No landing of one ends the flight of the other.   *)
(* This holds of a plane for which several flights are prepared, until one *)
(* is departed before another has landed (InTheAirTwice), and until its    *)
(* departure is taken for that of a coming flight (DepartureSwallowed).    *)
(***************************************************************************)
BookShowsTheAir ==
  \A p \in clean :
    /\ Sky(p) = "up" => InTheAir(p) # {} \/ HasLeft(p)
    /\ Sky(p) = "down" => \A r \in InTheAir(p) : departedBy[r.id] # p

(***************************************************************************)
(* The departure of a plane that is flying in the book already changes no  *)
(* flight, or, against the comment, departs the next one if that is        *)
(* prepared already: the slot looks at prepared flights first.  It adds    *)
(* the flying flights to its candidates so that "we can handle the case    *)
(* that the flight has already departed (this can happen when both a plane *)
(* and the towplane have a Flarm, or if a departure is misdetected)"       *)
(* (MainWindow.cpp:2599).                                                  *)
(***************************************************************************)
SecondDepartureIgnored ==
  [][\A p \in Planes :
       /\ event' = [kind |-> "departure", plane |-> p]
       /\ InTheAir(p) # {}
       => \/ flights' = flights
          \/ \E r \in PreparedFor(p) :
               flights' = [flights EXCEPT ![r.id].departed = TRUE]]_vars
==============================================================================
