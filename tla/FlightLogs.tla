----------------------------- MODULE FlightLogs -----------------------------
(***************************************************************************)
(* Flights as tables and log books see them (src/src/model/Flight.cpp),    *)
(* and the log books made of a list of flights (src/src/statistics/).      *)
(*                                                                         *)
(* What the user enters of a flight is its kind; what happens to it is its *)
(* effective day, whether it has landed, and its towplane.  A prepared     *)
(* flight has no day.  A flight that departs here has departed when it has *)
(* a day, and one that comes from elsewhere has landed.  Locations other   *)
(* than here, touch-and-goes and times are left out: within a day, flights *)
(* are in the order of their ids.                                          *)
(***************************************************************************)
EXTENDS Integers, SequencesExt

CONSTANTS
  Kinds,       \* what flights are entered as
  Gliders,     \* planes that are gliders or motor gliders
  MaxFlights,  \* bound on the flights ever created
  LastDay      \* the last day of the run

InvalidId == 0
NoDay     == 0
Ids       == 1 .. MaxFlights
Days      == 1 .. LastDay

ASSUME KindsAssumption ==
  \A k \in Kinds : /\ k.mode \in {"local", "leaving", "coming"}
                   /\ {k.method, k.plane, k.towplane, k.pilot, k.copilot,
                       k.towpilot} \subseteq Nat
                   \* the editor enters no launch method for coming flights
                   /\ k.mode = "coming" => k.method = InvalidId
ASSUME SizesAssumption == MaxFlights \in Nat /\ LastDay \in Nat \ {0}

Methods == {k.method : k \in Kinds} \ {InvalidId}
ASSUME MethodsAssumption == IsFiniteSet(Methods)
Planes  == (UNION {{k.plane, k.towplane} : k \in Kinds}) \ {InvalidId}

\* the types of the launch methods
Types == [Methods -> {"winch", "airtow"}]

Flight == [id : Ids, kind : Kinds, day : Days \cup {NoDay}, landed : BOOLEAN,
           towLanded : BOOLEAN, tow : BOOLEAN]

Mode(f) == IF f.tow THEN "local" ELSE f.kind.mode

DepartsHere(f) == Mode(f) \in {"local", "leaving"}
LandsHere(f)   == Mode(f) \in {"local", "coming"}

Departed(f) == DepartsHere(f) /\ f.day # NoDay

Plane(f)   == IF f.tow THEN f.kind.towplane ELSE f.kind.plane
Pilot(f)   == IF f.tow THEN f.kind.towpilot ELSE f.kind.pilot
Copilot(f) == IF f.tow THEN InvalidId ELSE f.kind.copilot

Happened(f) == (DepartsHere(f) /\ Departed(f)) \/ (LandsHere(f) /\ f.landed)
IsPrepared(f) == ~ Happened(f)

Finished(f) == IF f.tow THEN f.landed
               ELSE IF LandsHere(f) THEN f.landed ELSE Departed(f)

IsFlying(f) == Departed(f) /\ LandsHere(f) /\ ~ f.landed

NumLandings(f) == IF LandsHere(f) /\ f.landed THEN 1 ELSE 0

\* a set of numbers in order; the elements of a sequence that pass a test, and
\* their number
InOrder(ids) == CHOOSE s \in [1 .. Cardinality(ids) -> ids] :
                  \A i, j \in DOMAIN s : i < j => s[i] < s[j]
Where(flights, Test(_))  == {n \in DOMAIN flights : Test(flights[n])}
Select(flights, Test(_)) == LET at == InOrder(Where(flights, Test))
                            IN  [n \in DOMAIN at |-> flights[at[n]]]
Count(flights, Test(_))  == Cardinality(Where(flights, Test))

CountFlying(flights)   == Count(flights, IsFlying)
CountHappened(flights) == Count(flights, Happened)

\* Flight::sort of flights that happened
Earlier(f, g) == f.day < g.day \/ (f.day = g.day /\ f.id < g.id)

\* std::sort; a flight and its towflight are equal, and come in any order
Sorted(flights) ==
  LET D  == DOMAIN flights
      at == CHOOSE p \in Injection(D, D) : \A i, j \in D :
              i < j => ~ Earlier(flights[p[j]], flights[p[i]])
  IN  [n \in D |-> flights[at[n]]]

IsAirtow(f, types) ==
  DepartsHere(f) /\ f.kind.method # InvalidId /\ types[f.kind.method] = "airtow"

\* The towflight has the id of the flight, its departure, and its own landing.
MakeTowflight(f) == [f EXCEPT !.tow = TRUE, !.landed = f.towLanded,
                              !.towLanded = FALSE]

MakeTowflights(flights, types) ==
  LET airtows == Select(flights, LAMBDA f : IsAirtow(f, types))
  IN  [n \in DOMAIN airtows |-> MakeTowflight(airtows[n])]

-----------------------------------------------------------------------------
(* Plane logs *)

CollectiveLogEntryPossible(prev, f) ==
  /\ Mode(prev) = "local" /\ Mode(f) = "local"
  /\ Plane(f) \in Gliders \/ (prev.tow /\ f.tow)

\* one turn of the loop: merge with the open entry, or begin another
Accumulate(log, f) ==
  IF log.open # <<>> /\ ~ CollectiveLogEntryPossible(Last(log.open), f)
  THEN [entries |-> Append(log.entries, log.open), open |-> <<f>>]
  ELSE [log EXCEPT !.open = Append(@, f)]

NoEntries == [entries |-> <<>>, open |-> <<>>]

\* the flights of a plane that are over, and those of a pilot: nobody asks for
\* another mode than that without flight instructors
OfPlane(plane, flights) ==
  Sorted(Select(flights, LAMBDA f : Finished(f) /\ Plane(f) = plane))
OfPilot(person, flights) ==
  Sorted(Select(flights, LAMBDA f : Finished(f) /\ Pilot(f) = person))

\* (mutated: the entry that is open at the end is forgotten)
ClosedEntries(plane, flights) ==
  FoldLeft(Accumulate, NoEntries, OfPlane(plane, flights)).entries

\* PlaneLog::createNew: each entry is made of a sequence of flights
PlaneLog(plane, flights) ==
  LET log == FoldLeft(Accumulate, NoEntries, OfPlane(plane, flights))
  IN  Append(log.entries, log.open)

PlaneEntry(flights) ==
  [date       |-> Last(flights).day,
   landings   |-> SumFunction([n \in DOMAIN flights |-> NumLandings(flights[n])]),
   towflights |-> Count(flights, LAMBDA f : f.tow),
   valid      |-> \A n \in DOMAIN flights : Finished(flights[n])]

AllFinished(flights) == {flights[n] : n \in Where(flights, Finished)}

\* the logs of all planes that have one
PlaneLogs(flights) ==
  [p \in {Plane(f) : f \in AllFinished(flights)} \ {InvalidId} |->
     LET log == PlaneLog(p, flights)
     IN  [n \in DOMAIN log |-> PlaneEntry(log[n])]]

-----------------------------------------------------------------------------
(* Pilot logs and launch methods *)

\* the logs of all who were in a flight; that of a copilot may be empty
PilotLogs(flights) ==
  [p \in (UNION {{Pilot(f), Copilot(f)} : f \in AllFinished(flights)}) \ {InvalidId}
     |-> OfPilot(p, flights)]

\* Flights without a launch method are counted under the invalid id, which
\* names no launch method; it has no line.
LaunchMethodStatistics(flights) ==
  [methods |-> [m \in Methods |->
                  Count(flights, LAMBDA f : Happened(f) /\ ~ f.tow
                                              /\ f.kind.method = m)],
   towflights |-> Count(flights, LAMBDA f : Happened(f) /\ f.tow)]
=============================================================================
