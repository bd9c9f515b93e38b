----------------------------- MODULE FlightForm -----------------------------
(***************************************************************************)
(* The editor of a flight (src/src/gui/windows/FlightWindow.cpp): what is  *)
(* in its fields, which of them are shown, how one changes others, and how *)
(* OK and Now make a flight of them, in steps between which the user       *)
(* answers questions and may abort.                                        *)
(*                                                                         *)
(* What else may happen to the flight while it is edited is the subject of *)
(* FlightEditor.  Questions about what the table does not mark (medicals,  *)
(* planes and people that are flying, equal towpilots and copilots or      *)
(* planes, Flarm ids) are left out; to abort is always possible.  A plane  *)
(* that is no glider stands for an airplane.                               *)
(***************************************************************************)
EXTENDS FlightErrors

CONSTANTS
  KnownPeople,     \* the people in the database at the beginning
  StoredFlights,   \* the flights to begin with
  MaxSteps         \* bound on the user's steps: windows opened, changes made

ASSUME FormAssumption ==
  /\ KnownPeople \subseteq Persons
  /\ StoredFlights \subseteq Flight
  /\ "unknown" \notin Planes \cup {None}
  /\ MaxSteps \in Nat

VARIABLES
  row,       \* the flight last written
  people,    \* the people in the database, and in the cache
  mode,      \* of the window: "create" or "edit"
  stage,     \* "closed", "open", or what is to be determined next
  form,      \* the fields
  selected,  \* selectedPilot, selectedCopilot, selectedTowpilot
  flight,    \* the flight being determined
  now,       \* Now was pressed, not OK
  asked,     \* history: the problems the user was asked about since
  entered,   \* history: the names as they were then
  touched,   \* history: something was changed or decided anew
  steps      \* the steps taken by the user

session == <<mode, stage, form, selected, flight, now, asked, entered, touched>>
vars    == <<row, people, session, steps>>

\* a plane is one that is known, None, or a registration not known as it is
Form == [type : Types, mode : Modes, towMode : Modes,
         plane : Planes \cup {None, "unknown"},
         towplane : Planes \cup {None, "unknown"},
         method : DOMAIN Methods \cup {None}, name : [Roles -> Name],
         departed : BOOLEAN, landed : BOOLEAN, towLanded : BOOLEAN,
         from : Places, to : Places, towTo : Places, landings : 0 .. MaxLandings]

NoNames   == [role \in Roles |-> NoName]
NoPersons == [role \in Roles |-> None]

\* fillData; the constructor
BlankForm == [type |-> "normal", mode |-> "local", towMode |-> "local",
              plane |-> None, towplane |-> None, method |-> None,
              name |-> NoNames, departed |-> FALSE, landed |-> FALSE,
              towLanded |-> FALSE, from |-> "home", to |-> "home",
              towTo |-> "home", landings |-> 0]

BlankFlight == [type |-> "normal", mode |-> "local", towMode |-> "local",
                plane |-> None, towplane |-> None, method |-> None,
                id |-> NoPersons, name |-> NoNames, supervisor |-> None,
                departed |-> FALSE, landed |-> FALSE, towLanded |-> FALSE,
                from |-> "", to |-> "", towTo |-> "", landings |-> 0]

TypeOK ==
  /\ row \in Flight /\ flight \in Flight /\ form \in Form
  /\ people \subseteq Persons
  /\ mode \in {"create", "edit"}
  /\ stage \in {"closed", "open", "planes", "pilot", "copilot", "towpilot",
                "write"}
  /\ selected \in [Roles -> Persons \cup {None}]
  /\ entered \in [Roles -> Name]
  /\ steps \in 0 .. MaxSteps

Init ==
  /\ row \in StoredFlights
  /\ people = KnownPeople
  /\ mode = "create" /\ stage = "closed"
  /\ form = BlankForm /\ selected = NoPersons /\ flight = BlankFlight
  /\ now = FALSE /\ asked = {} /\ entered = NoNames /\ touched = FALSE
  /\ steps = 0

-----------------------------------------------------------------------------
(* Which fields are active, which is to say shown and used *)

TowplaneActive(f) == IsAirtow(f) /\ ~ TowplaneKnown(f.method)

Active(f, role) ==
  CASE role = "pilot"    -> TRUE
    [] role = "copilot"  -> CopilotRecorded(f.type) \/ SupervisorRecorded(f.type)
    [] role = "towpilot" -> IsAirtow(f) /\ RecordTowpilot

DepartureTimeActive(f) == DepartsHere(f.mode) /\ f.departed
LandingTimeActive(f)   == LandsHere(f.mode) /\ f.landed
TowLandingActive(f)    == IsAirtow(f) /\ f.towLanded

NowPossible == /\ mode = "create"
               /\ ~ DepartureTimeActive(form) /\ ~ LandingTimeActive(form)
               /\ ~ TowLandingActive(form)

-----------------------------------------------------------------------------
(* Opening the window *)

\* (mutated: the supervisor is not looked for)
SelectedCopilotOnly(f) == f.id["copilot"]

SelectedCopilot(f) ==
  IF SupervisorRecorded(f.type) THEN f.supervisor ELSE f.id["copilot"]

SelectedOf(f) == [f.id EXCEPT !["copilot"] = SelectedCopilot(f)]

\* flightToFields; of a flight that is repeated, without times and landings
FlightToFields(f, repeat) ==
  [x \in DOMAIN BlankForm |->
    CASE x = "name" ->
           [role \in Roles |-> LET p == SelectedOf(f)[role]
                               IN  IF p \in people THEN NameOf(p)
                                   ELSE f.name[role]]
      [] x \in {"departed", "landed", "towLanded", "landings"} /\ repeat ->
           BlankForm[x]
      [] OTHER -> f[x]]

Open(m, fields, persons) ==
  /\ stage = "closed" /\ steps < MaxSteps
  /\ steps' = steps + 1
  /\ stage' = "open" /\ mode' = m
  /\ form' = fields /\ selected' = persons
  /\ flight' = BlankFlight /\ now' = FALSE
  /\ asked' = {} /\ entered' = NoNames /\ touched' = FALSE
  /\ UNCHANGED <<row, people>>

CreateFlight == Open("create", BlankForm, NoPersons)
RepeatFlight == Open("create", FlightToFields(row, TRUE), SelectedOf(row))
EditFlight   == Open("edit", FlightToFields(row, FALSE), SelectedOf(row))

-----------------------------------------------------------------------------
(* The user's changes *)

Change(fields) ==
  /\ stage = "open" /\ steps < MaxSteps
  /\ steps' = steps + 1
  /\ form' = fields
  /\ touched' = TRUE
  /\ UNCHANGED <<row, people, mode, stage, flight, now, asked, entered>>

Set(x, v) == form[x] # v /\ Change([form EXCEPT ![x] = v]) /\ UNCHANGED selected

\* fillNames: the other part, if it was empty and only one name matches
Completed(name, part) ==
  LET other   == IF part = "last" THEN "first" ELSE "last"
      matches == {NameOf(p)[other] : p \in {q \in people :
                                              NameOf(q)[part] = name[part]}}
  IN  IF name[other] = "" /\ name[part] # "" /\ Cardinality(matches) = 1
      THEN [name EXCEPT ![other] = CHOOSE n \in matches : TRUE] ELSE name

\* getUniquePersonIdByName (last name, first name)
UniquePerson(last, first) ==
  LET matches == {p \in people : LastName[p] = last /\ FirstName[p] = first}
  IN  IF Cardinality(matches) = 1 THEN CHOOSE p \in matches : TRUE ELSE None

\* fillFirstNames and fillLastNames pass the first name first
EnterName(role, part, v) ==
  /\ Active(form, role)
  /\ form.name[role][part] # v
  /\ LET name == Completed([form.name[role] EXCEPT ![part] = v], part)
     IN  /\ Change([form EXCEPT !.name[role] = name])
         /\ selected' = [selected EXCEPT ![role] =
                           UniquePerson(name.first, name.last)]

CanBeChanged(place) == place \in {"", "home"}
Relocated(place, to) == IF CanBeChanged(place) THEN to ELSE place

\* flightModeChanged
EnterMode(m) ==
  /\ form.mode # m
  /\ Change(CASE mode = "edit" -> [form EXCEPT !.mode = m]
              [] mode = "create" /\ DepartsHere(m) ->
                   [form EXCEPT !.mode = m, !.from = Relocated(@, "home"),
                                !.to = Relocated(@, "")]
              [] OTHER -> [form EXCEPT !.mode = m, !.from = Relocated(@, "")])
  /\ UNCHANGED selected

\* registrationChanged: planes other than gliders are launched by themselves
EnterPlane(p) ==
  /\ form.plane # p
  /\ LET selfLaunch == {m \in DOMAIN Methods : Methods[m].type = "self"}
         method     == IF p \in Planes \ Gliders /\ form.method = None
                          /\ selfLaunch # {}
                       THEN CHOOSE m \in selfLaunch : TRUE ELSE form.method
     IN  Change([form EXCEPT !.plane = p, !.method = method])
  /\ UNCHANGED selected

EnterTowplane(p) == TowplaneActive(form) /\ Set("towplane", p)
EnterMethod(m)   == DepartsHere(form.mode) /\ Set("method", m)
EnterTowMode(m)  == IsAirtow(form) /\ Set("towMode", m)
EnterDeparted    == DepartsHere(form.mode) /\ Set("departed", ~ form.departed)

\* landingTimeCheckboxChanged
EnterLanded ==
  /\ LandsHere(form.mode)
  /\ Change(IF form.landed
            THEN [form EXCEPT !.landed = FALSE, !.to = Relocated(@, "")]
            ELSE [form EXCEPT !.landed = TRUE, !.to = Relocated(@, "home"),
                              !.landings = IF @ = 0 THEN 1 ELSE @])
  /\ UNCHANGED selected

\* towflightLandingTimeCheckboxChanged
EnterTowLanded ==
  /\ IsAirtow(form)
  /\ LET landed == ~ form.towLanded
         home   == IF LandsHere(form.towMode) /\ landed THEN "home" ELSE ""
     IN  Change([form EXCEPT !.towLanded = landed, !.towTo = Relocated(@, home)])
  /\ UNCHANGED selected

Edit ==
  \/ \E role \in Roles, part \in {"last", "first"}, v \in Names \cup {""} :
       EnterName(role, part, v)
  \/ \E t \in Types : Set("type", t)
  \/ \E m \in Modes : EnterMode(m) \/ EnterTowMode(m)
  \/ \E m \in DOMAIN Methods \cup {None} : EnterMethod(m)
  \/ \E p \in Planes \cup {None, "unknown"} : EnterPlane(p) \/ EnterTowplane(p)
  \/ EnterDeparted \/ EnterLanded \/ EnterTowLanded
  \/ \E x \in {"from", "to"}, place \in Places : Set(x, place)
  \/ \E place \in Places : IsAirtow(form) /\ Set("towTo", place)
  \/ \E n \in 0 .. MaxLandings - 1 : Set("landings", n)

Close == /\ stage = "open"
         /\ stage' = "closed"
         /\ UNCHANGED <<row, people, mode, form, selected, flight, now, asked,
                        entered, touched, steps>>

-----------------------------------------------------------------------------
(* OK and Now: determineFlight *)

DetermineFlightBasic ==
  [x \in DOMAIN BlankFlight |->
    CASE x \in {"type", "mode", "from", "to", "landings"} -> form[x]
      [] x = "method" -> IF DepartsHere(form.mode) THEN form.method ELSE None
      [] x \in {"towMode", "towTo"} ->
           IF IsAirtow(form) THEN form[x] ELSE BlankFlight[x]
      [] x = "id" -> [role \in Roles |-> IF Active(form, role)
                                         THEN selected[role] ELSE None]
      [] x = "departed"  -> DepartureTimeActive(form)
      [] x = "landed"    -> LandingTimeActive(form)
      [] x = "towLanded" -> TowLandingActive(form)
      [] OTHER -> BlankFlight[x]]

\* (mutated: what is prepared is not checked)
CheckDepartedOnly(f, departNow) ==
  {e \in StatusErrors([f EXCEPT !.departed = @ \/ departNow]) : f.departed}

\* checkFlightPhase1
CheckPhase1(f, departNow) ==
  {e \in {"launchMethodMissing", "departureLocationMissing",
          "landingLocationMissing", "landingLocationEqualsDepartureLocation",
          "landingWithoutDeparture", "numLandingsZero",
          "towflightLandingLocationMissing"} :
    CASE e = "launchMethodMissing" ->
           /\ departNow \/ f.departed
           /\ DepartsHere(f.mode) /\ f.method = None
      [] e = "departureLocationMissing" ->
           (f.departed \/ ~ DepartsHere(f.mode)) /\ f.from = ""
      [] e = "landingLocationMissing" ->
           (f.landed \/ ~ LandsHere(f.mode)) /\ f.to = ""
      [] e = "landingLocationEqualsDepartureLocation" ->
           DepartsHere(f.mode) # LandsHere(f.mode) /\ f.from = f.to
      [] e = "landingWithoutDeparture" ->
           f.mode = "local" /\ f.landed /\ ~ f.departed
      [] e = "numLandingsZero" ->
           LandsHere(f.mode) /\ f.landed /\ f.landings = 0
      [] e = "towflightLandingLocationMissing" ->
           f.towLanded /\ ~ LandsHere(f.towMode) /\ f.towTo = ""}

\* okButton_clicked, nowButton_clicked
Accept ==
  /\ stage = "open"
  /\ \E n \in BOOLEAN : (n => NowPossible) /\ now' = n
  /\ flight' = DetermineFlightBasic
  /\ asked' = CheckPhase1(DetermineFlightBasic, now')
  /\ entered' = form.name
  /\ stage' = "planes"
  /\ UNCHANGED <<row, people, mode, form, selected, touched, steps>>

Abort == /\ stage \notin {"closed", "open"}
         /\ stage' = "open" /\ flight' = BlankFlight
         /\ UNCHANGED <<row, people, mode, form, selected, now, asked, entered,
                        touched, steps>>

\* determinePlane: a plane that is not known as it was entered is found with
\* the prefix for registrations, or created
PlanesFor(field) == IF field = "unknown" THEN Planes ELSE {field}

\* checkFlightPhase2
CheckPhase2(f) ==
  LET airtow == IsMethod(f.method, "airtow")
      self   == IsMethod(f.method, "self")
  IN  {e \in {"gliderMultipleLandings", "gliderLandingsWithoutLandingTime",
              "gliderSelfLaunch", "passengerFlightInSingleSeater",
              "trainingInSingleSeater", "towplaneIsGlider"} :
        CASE e = "gliderMultipleLandings" ->
               /\ f.plane \in Gliders /\ f.method # None /\ ~ airtow
               /\ f.landings > 1
          [] e = "gliderLandingsWithoutLandingTime" ->
               f.plane \in Gliders /\ ~ airtow /\ f.landings > 0 /\ ~ f.landed
          [] e = "gliderSelfLaunch" -> f.plane \in Gliders /\ self
          [] e = "passengerFlightInSingleSeater" ->
               /\ f.plane \in SingleSeaters /\ f.method # None /\ ~ self
               /\ f.type = "guest"
          [] e = "trainingInSingleSeater" ->
               /\ f.plane \in SingleSeaters /\ f.method # None /\ ~ self
               /\ f.type = "training2"
          [] e = "towplaneIsGlider" -> f.towplane \in Gliders}

\* determineFlightPlanes
DeterminePlanes ==
  /\ stage = "planes"
  /\ \E p \in PlanesFor(form.plane),
        t \in IF TowplaneActive(form) THEN PlanesFor(form.towplane) ELSE {None} :
       LET f == [flight EXCEPT !.plane = p, !.towplane = t]
       IN  /\ flight' = f
           /\ asked' = asked \cup CheckPhase2(f)
                 \cup {e \in {"planeMissing"} : p = None}
                 \cup {e \in {"towplaneMissing"} : TowplaneActive(form) /\ t = None}
           /\ form' = [form EXCEPT !.plane = p,
                         !.towplane = IF TowplaneActive(form) THEN t ELSE @]
  /\ stage' = "pilot"
  /\ UNCHANGED <<row, people, mode, selected, now, entered, touched, steps>>

Matches(p, name) == /\ name.last # "" => LastName[p] = name.last
                    /\ name.first # "" => FirstName[p] = name.first

\* (mutated: the candidates are looked up as the fields are filled)
FillingCandidates(name) ==
  {p \in people : Matches(p, [last |-> name.first, first |-> name.last])}

\* getPersonIdsByName, getPersonIdsByLastName, getPersonIdsByFirstName
Candidates(name) == {p \in people : Matches(p, name)}

\* what determinePerson may return, with the incomplete name it sets; a person
\* that is created has the parts of the name that are given
Outcomes(name) ==
  LET complete   == name.last # "" /\ name.first # ""
      candidates == Candidates(name)
      found   == {[person |-> p, name |-> NoName] : p \in candidates}
      created == {[person |-> p, name |-> NoName] :
                   p \in {q \in Persons \ people : Matches(q, name)}}
      unknown == [person |-> None, name |-> name]
  IN  CASE name = NoName -> {unknown}
        [] complete /\ candidates = {} -> created
        [] complete /\ Cardinality(candidates) = 1 -> found
        [] OTHER -> found \cup created \cup {unknown}

\* the pilot of a flight that is launched by others is not required
Required(role) ==
  CASE role = "pilot" -> /\ DepartsHere(flight.mode)
                         /\ flight.method = None \/ IsMethod(flight.method, "self")
    [] role = "copilot" -> FALSE
    [] role = "towpilot" -> TRUE

AskedFor(role, o) ==
  CASE o.person # None -> {}
    [] o.name # NoName -> {NotIdentified[role]}
    [] OTHER -> {e \in {"pilotMissing"} : role = "pilot" /\ Required(role)}

\* (mutated: a person left unknown is forgotten)
EnteredPerson(role, o) ==
  IF role = "copilot" /\ SupervisorRecorded(flight.type)
  THEN [flight EXCEPT !.supervisor = o.person]
  ELSE [flight EXCEPT !.id[role] = o.person]

\* the supervisor of solo training is entered in the copilot's fields
WithPerson(role, o) ==
  IF role = "copilot" /\ SupervisorRecorded(flight.type)
  THEN [flight EXCEPT !.supervisor = o.person]
  ELSE [flight EXCEPT !.id[role] = o.person, !.name[role] = o.name]

\* determineFlightPeople: determineAndEnterPerson for each of the three
DeterminePerson(role, next) ==
  /\ stage = role
  /\ \E o \in IF Active(form, role) THEN Outcomes(form.name[role])
              ELSE {[person |-> None, name |-> NoName]} :
       /\ flight' = WithPerson(role, o)
       /\ asked' = asked \cup AskedFor(role, o)
       /\ people' = people \cup ({o.person} \ {None})
       /\ selected' = [selected EXCEPT ![role] = o.person]
       /\ form' = IF o.person = None THEN form
                  ELSE [form EXCEPT !.name[role] = NameOf(o.person)]
       /\ touched' = (touched \/ (Active(form, role) /\ o.person # selected[role]))
  /\ stage' = next
  /\ UNCHANGED <<row, mode, now, entered, steps>>

\* checkFlightPhase3
CheckPhase3(f) ==
  {e \in {"pilotEqualsCopilot", "pilotEqualsTowpilot",
          "trainingWithoutInstructor", "copilotInSingleSeater"} :
    CASE e = "pilotEqualsCopilot" ->
           f.id["pilot"] # None /\ f.id["pilot"] = f.id["copilot"]
      [] e = "pilotEqualsTowpilot" ->
           f.id["pilot"] # None /\ f.id["pilot"] = f.id["towpilot"]
      [] e = "trainingWithoutInstructor" ->
           f.type = "training2" /\ ~ CopilotSpecified(f)
      [] e = "copilotInSingleSeater" ->
           f.plane \in SingleSeaters /\ CopilotSpecified(f)}

\* the flight, departed or landed if Now was pressed, is written
Write ==
  /\ stage = "write"
  /\ row' = CASE now /\ DepartsHere(form.mode) -> DepartNow(flight)
              [] now /\ ~ DepartsHere(form.mode) -> LandNow(flight)
              [] OTHER -> flight
  /\ asked' = asked \cup CheckPhase3(flight)
  /\ stage' = "closed"
  /\ UNCHANGED <<people, mode, form, selected, flight, now, entered, touched,
                 steps>>

-----------------------------------------------------------------------------
Determine == \/ DeterminePlanes
             \/ DeterminePerson("pilot", "copilot")
             \/ DeterminePerson("copilot", "towpilot")
             \/ DeterminePerson("towpilot", "write")

Next == \/ CreateFlight \/ RepeatFlight \/ EditFlight
        \/ Edit \/ Close
        \/ Accept \/ Determine \/ Abort \/ Write

Spec == Init /\ [][Next]_vars

-----------------------------------------------------------------------------
(* Properties *)

Writes == stage = "write" /\ stage' = "closed"

(* The person written in a role is the one whose name was in its fields     *)
(* when OK was pressed; who could not be identified is written by name; and *)
(* nobody is written in a role that the type and the launch of the flight   *)
(* do not have, although the fields remember them (FlightWindow.cpp 798-962,*)
(* 1210-1262, 1491-1650).  Supervisors have no name (deviation).            *)
WrittenIsEntered ==
  [][Writes => \A role \in Roles :
       LET solo == role = "copilot" /\ SupervisorRecorded(row'.type)
           who  == IF solo THEN row'.supervisor ELSE row'.id[role]
       IN  IF ~ Active(form, role) THEN who = None /\ row'.name[role] = NoName
           ELSE IF who # None THEN Matches(who, entered[role])
           ELSE solo \/ row'.name[role] = entered[role]]_vars

\* nothing is recorded in a flight that the window does not show; a person who
\* is identified goes without the incomplete name
NothingHidden(f) ==
  /\ ~ DepartsHere(f.mode) => f.method = None /\ ~ f.departed
  /\ ~ LandsHere(f.mode) => ~ f.landed
  /\ ~ IsAirtow(f) => f.towMode = "local" /\ f.towTo = "" /\ ~ f.towLanded
  /\ ~ TowplaneActive(f) => f.towplane = None
  /\ \A role \in Roles : /\ ~ Active(f, role) => f.id[role] = None
                         /\ ~ Active(f, role) \/ f.id[role] # None =>
                              f.name[role] = NoName
  /\ IF SupervisorRecorded(f.type) THEN f.name["copilot"] = NoName
     ELSE f.supervisor = None

(* A flight that is opened and saved as it is stays the same, whichever     *)
(* program wrote it: what the window shows is the flight, and what it does  *)
(* not show is not needed (FlightWindow.cpp 798-962).  Solo training gets   *)
(* its supervisor for a copilot as well (deviation); a person who was       *)
(* deleted is decided anew.                                                 *)
UnchangedIsKept ==
  [][Writes /\ mode = "edit" /\ ~ touched =>
       row' = [row EXCEPT !.id["copilot"] =
                 IF SupervisorRecorded(row.type) THEN row'.id["copilot"] ELSE @]]_vars

\* what no question of the window is about, although the row is marked
NotAsked(f) ==
  {"landingsWithoutDeparture", "towflightLandingLocationMissing"}
  \cup (IF now THEN {"departureLocationMissing",
                     "landingLocationEqualsDepartureLocation"} ELSE {})
  \cup (IF f.method = None \/ IsMethod(f.method, "self")
        THEN {"trainingInSingleSeater", "passengerFlightInSingleSeater"}
        ELSE {"pilotMissing"})

(* A flight that is marked in the table for an error was written by a user  *)
(* who was asked about that error and confirmed it: the checks of the       *)
(* editor (FlightWindow.cpp 973-1176) cover those of the flight (Flight.cpp *)
(* 650-790), except for what NotAsked lists.                                *)
ErrorsWereAsked == [][Writes => Errors(row') \subseteq asked' \cup NotAsked(row')]_vars
=============================================================================
