---------------------------- MODULE FlightErrors ----------------------------
(***************************************************************************)
(* What a flight says and what is wrong with it: the part of               *)
(* src/src/model/Flight.cpp that depends on no other flight.  The table of *)
(* flights shows these errors in red, the editor lists them.               *)
(*                                                                         *)
(* The times of a flight are left out (with the errors that compare them), *)
(* and its type is what the rules tell apart: "normal" stands for          *)
(* refresher training, tows and flights without a type as well, "guest"    *)
(* for both kinds of passenger flights.                                    *)
(***************************************************************************)
EXTENDS Naturals, FiniteSets

CONSTANTS
  None,           \* invalidId
  Persons,        \* people, in the database or not
  LastName,       \* their names
  FirstName,
  Planes,
  Gliders,        \* those whose category is glider
  SingleSeaters,  \* those with numSeats=1
  Methods,        \* the launch methods: a function to what they are
  MaxLandings,    \* bound on the number of landings
  RecordTowpilot  \* the setting; anonymousMode is off

MethodTypes == [type : {"self", "winch", "airtow"}, towplaneKnown : BOOLEAN,
                personRequired : BOOLEAN]
Names       == {LastName[p] : p \in Persons} \cup {FirstName[p] : p \in Persons}

ASSUME ErrorsAssumption ==
  /\ DOMAIN LastName = Persons /\ DOMAIN FirstName = Persons
  /\ Gliders \subseteq Planes /\ SingleSeaters \subseteq Planes
  /\ None \notin Persons \cup Planes \cup DOMAIN Methods
  /\ Methods \in [DOMAIN Methods -> MethodTypes]
  /\ "" \notin Names
  /\ MaxLandings \in Nat /\ RecordTowpilot \in BOOLEAN

Roles  == {"pilot", "copilot", "towpilot"}
Types  == {"normal", "training2", "training1", "guest"}
Modes  == {"local", "coming", "leaving"}
Places == {"", "home", "away"}   \* home is the location in the settings

DepartsHere(mode) == mode # "coming"
LandsHere(mode)   == mode # "leaving"
CopilotRecorded(type)    == type \notin {"training1", "guest"}
SupervisorRecorded(type) == type = "training1"

\* the two parts of a name, "" if not given
Name   == [last : Names \cup {""}, first : Names \cup {""}]
NoName == [last |-> "", first |-> ""]
NameOf(p) == [last |-> LastName[p], first |-> FirstName[p]]

\* id and name: the person, or the incomplete name of one not identified
Flight ==
  [type : Types, mode : Modes, towMode : Modes,
   plane : Planes \cup {None}, towplane : Planes \cup {None},
   method : DOMAIN Methods \cup {None},
   id : [Roles -> Persons \cup {None}], name : [Roles -> Name],
   supervisor : Persons \cup {None},
   departed : BOOLEAN, landed : BOOLEAN, towLanded : BOOLEAN,
   from : Places, to : Places, towTo : Places, landings : 0 .. MaxLandings]

IsMethod(method, type) == method # None /\ Methods[method].type = type
IsAirtow(f) == DepartsHere(f.mode) /\ IsMethod(f.method, "airtow")
TowplaneKnown(method) == Methods[method].towplaneKnown

CopilotSpecified(f) ==
  /\ ~ SupervisorRecorded(f.type)
  /\ f.id["copilot"] # None \/ f.name["copilot"] # NoName

\* checkPerson: a name without a person
NotIdentified == [pilot |-> "pilotNotIdentified", copilot |-> "copilotNotIdentified",
                  towpilot |-> "towpilotNotIdentified"]

Incomplete(f, role) ==
  IF f.id[role] = None /\ f.name[role] # NoName
  THEN {NotIdentified[role]} ELSE {}

PeopleErrors(f) ==
  Incomplete(f, "pilot")
  \cup (IF CopilotRecorded(f.type) \/ SupervisorRecorded(f.type)
        THEN Incomplete(f, "copilot") ELSE {})
  \cup (IF RecordTowpilot /\ IsMethod(f.method, "airtow")
        THEN Incomplete(f, "towpilot") ELSE {})
  \cup {e \in {"pilotMissing", "pilotEqualsCopilot", "trainingWithoutInstructor",
               "pilotEqualsTowpilot"} :
         CASE e = "pilotMissing" ->
                /\ f.id["pilot"] = None /\ f.name["pilot"] = NoName
                /\ f.method # None /\ Methods[f.method].personRequired
           [] e = "pilotEqualsCopilot" ->
                /\ CopilotRecorded(f.type)
                /\ f.id["pilot"] # None /\ f.id["pilot"] = f.id["copilot"]
           [] e = "trainingWithoutInstructor" ->
                f.type = "training2" /\ ~ CopilotSpecified(f)
           [] e = "pilotEqualsTowpilot" ->
                /\ RecordTowpilot /\ IsMethod(f.method, "airtow")
                /\ f.id["towpilot"] # None /\ f.id["pilot"] = f.id["towpilot"]}

PlaneErrors(f) ==
  {e \in {"planeMissing", "trainingInSingleSeater", "copilotInSingleSeater",
          "passengerFlightInSingleSeater", "gliderSelfLaunch",
          "gliderMultipleLandings", "gliderLandingsWithoutLandingTime"} :
    CASE e = "planeMissing" -> f.plane = None
      [] e = "trainingInSingleSeater" ->
           f.plane \in SingleSeaters /\ f.type = "training2"
      [] e = "copilotInSingleSeater" ->
           /\ f.plane \in SingleSeaters
           /\ CopilotRecorded(f.type) /\ CopilotSpecified(f)
      [] e = "passengerFlightInSingleSeater" ->
           f.plane \in SingleSeaters /\ f.type = "guest"
      [] e = "gliderSelfLaunch" ->
           f.plane \in Gliders /\ IsMethod(f.method, "self")
      [] e = "gliderMultipleLandings" ->
           /\ f.plane \in Gliders
           /\ f.method # None /\ Methods[f.method].type # "airtow"
           /\ f.landings > 1
      [] e = "gliderLandingsWithoutLandingTime" ->
           /\ f.plane \in Gliders
           /\ f.method # None /\ Methods[f.method].type # "airtow"
           /\ f.landings > 0 /\ ~ f.landed}

StatusErrors(f) ==
  {e \in {"landingLocationEqualsDepartureLocation", "landingWithoutDeparture",
          "launchMethodMissing", "landingsWithoutDeparture", "numLandingsZero",
          "departureLocationMissing", "landingLocationMissing"} :
    CASE e = "landingLocationEqualsDepartureLocation" ->
           f.mode # "local" /\ f.from = f.to
      [] e = "landingWithoutDeparture" ->
           f.mode = "local" /\ f.landed /\ ~ f.departed
      [] e = "launchMethodMissing" ->
           DepartsHere(f.mode) /\ f.departed /\ f.method = None
      [] e = "landingsWithoutDeparture" ->
           DepartsHere(f.mode) /\ ~ f.departed /\ f.landings > 0
      [] e = "numLandingsZero" ->
           LandsHere(f.mode) /\ f.landed /\ f.landings = 0
      [] e = "departureLocationMissing" ->
           (f.departed \/ ~ DepartsHere(f.mode)) /\ f.from = ""
      [] e = "landingLocationMissing" ->
           (f.landed \/ ~ LandsHere(f.mode)) /\ f.to = ""}

TowflightErrors(f) ==
  IF ~ IsMethod(f.method, "airtow") THEN {}
  ELSE {e \in {"towflightLandingLocationMissing", "towplaneMissing",
               "towplaneIsGlider"} :
         CASE e = "towflightLandingLocationMissing" ->
                (f.towLanded \/ ~ LandsHere(f.towMode)) /\ f.towTo = ""
           [] e = "towplaneMissing" ->
                ~ TowplaneKnown(f.method) /\ f.towplane = None
           [] e = "towplaneIsGlider" ->
                ~ TowplaneKnown(f.method) /\ f.towplane \in Gliders}

\* getErrorsImpl
Errors(f) == PeopleErrors(f) \cup PlaneErrors(f) \cup StatusErrors(f)
             \cup TowflightErrors(f)

-----------------------------------------------------------------------------
DepartNow(f) == [f EXCEPT !.departed = TRUE]

LandNow(f) == [f EXCEPT !.landed = TRUE, !.landings = @ + 1,
                        !.to = IF @ = "" THEN "home" ELSE @]
=============================================================================
