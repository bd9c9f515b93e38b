-------------------------- MODULE FlightFormProofs --------------------------
(***************************************************************************)
(* For any people, planes, launch methods and flights, whatever is entered *)
(* in the editor and whoever is deleted or merged in the list beside it:   *)
(* what the editor writes is what was entered, it asks about the errors,   *)
(* it keeps what was not changed, and who is entered exists.               *)
(***************************************************************************)
EXTENDS PeopleList, FiniteSetTheorems, TLAPS

-----------------------------------------------------------------------------
(* The shape of what the window works on *)

FormFields   == DOMAIN BlankForm
FlightFields == DOMAIN BlankFlight

Shaped(f) ==
  /\ f = [x \in FlightFields |-> f[x]]
  /\ f.id = [role \in Roles |-> f.id[role]]
  /\ f.name = [role \in Roles |-> f.name[role]]
  /\ f.mode \in Modes /\ f.landings \in Nat
  /\ f.departed \in BOOLEAN /\ f.landed \in BOOLEAN /\ f.towLanded \in BOOLEAN

FormShaped(f) == /\ DOMAIN f = FormFields /\ DOMAIN f.name = Roles
                 /\ f.mode \in Modes /\ f.landings \in Nat

ShapeInv == /\ Shaped(row) /\ Shaped(flight) /\ FormShaped(form)
            /\ DOMAIN selected = Roles
            /\ people \subseteq Persons
            /\ mode = "edit" => ~ now

LEMMA FieldFacts ==
  /\ FlightFields = {"type", "mode", "towMode", "plane", "towplane", "method", "id",
                     "name", "supervisor", "departed", "landed", "towLanded", "from",
                     "to", "towTo", "landings"}
  /\ FormFields = FlightFields \ {"id", "supervisor"}
BY DEF FlightFields, FormFields, BlankFlight, BlankForm

LEMMA StoredShaped == ASSUME NEW f \in Flight PROVE Shaped(f)
BY FieldFacts DEF Shaped, Flight

LEMMA BlankShaped ==
  Shaped(BlankFlight) /\ FormShaped(BlankForm) /\ DOMAIN NoPersons = Roles
BY FieldFacts DEF Shaped, FormShaped, FormFields, BlankFlight, BlankForm, NoPersons, NoNames,
                  Modes

LEMMA BasicTimes ==
  /\ DetermineFlightBasic.departed = (DepartsHere(form.mode) /\ form.departed)
  /\ DetermineFlightBasic.landed = (LandsHere(form.mode) /\ form.landed)
  /\ DetermineFlightBasic.towLanded = (IsAirtow(form) /\ form.towLanded)
BY DEF DetermineFlightBasic, BlankFlight, DepartureTimeActive, LandingTimeActive,
       TowLandingActive

LEMMA BasicShaped == FormShaped(form) => Shaped(DetermineFlightBasic)
<1> SUFFICES ASSUME FormShaped(form) PROVE Shaped(DetermineFlightBasic)
  OBVIOUS
<1> DEFINE f == DetermineFlightBasic
<1>1. /\ f = [x \in FlightFields |-> f[x]]
      /\ f.id = [role \in Roles |-> f.id[role]]
      /\ f.name = [role \in Roles |-> f.name[role]]
      /\ f.mode \in Modes /\ f.landings \in Nat
  BY FieldFacts DEF FormShaped, DetermineFlightBasic, FlightFields, BlankFlight, NoNames
<1>2. f.departed \in BOOLEAN /\ f.landed \in BOOLEAN /\ f.towLanded \in BOOLEAN
  BY BasicTimes
<1> QED
  BY <1>1, <1>2 DEF Shaped

LEMMA PlanesShaped ==
  ASSUME NEW f, Shaped(f), NEW p, NEW t
  PROVE  Shaped([f EXCEPT !.plane = p, !.towplane = t])
BY FieldFacts DEF Shaped

LEMMA PersonShaped ==
  ASSUME NEW role, NEW o, Shaped(flight)
  PROVE  Shaped(WithPerson(role, o))
BY FieldFacts DEF Shaped, WithPerson

LEMMA NowShaped ==
  ASSUME NEW f, Shaped(f)
  PROVE  Shaped(DepartNow(f)) /\ Shaped(LandNow(f))
<1>1. Shaped(DepartNow(f))
  BY FieldFacts DEF Shaped, DepartNow
<1>2. Shaped(LandNow(f))
  <2> DEFINE to == IF f.to = "" THEN "home" ELSE f.to
  <2>1. LandNow(f) = [f EXCEPT !.landed = TRUE, !.landings = f.landings + 1, !.to = to]
    BY DEF LandNow
  <2>2. f.landings + 1 \in Nat
    BY DEF Shaped
  <2> HIDE DEF to
  <2> QED
    BY <2>1, <2>2, FieldFacts DEF Shaped
<1> QED
  BY <1>1, <1>2

LEMMA FieldsShaped ==
  ASSUME NEW f, Shaped(f), NEW repeat
  PROVE  FormShaped(FlightToFields(f, repeat)) /\ DOMAIN SelectedOf(f) = Roles
BY FieldFacts DEF Shaped, FormShaped, FlightToFields, SelectedOf, FormFields, BlankForm

LEMMA EditShaped ==
  ASSUME ShapeInv, Edit
  PROVE  FormShaped(form') /\ DOMAIN selected' = Roles
<1>1. FormShaped(form) /\ DOMAIN selected = Roles
  BY DEF ShapeInv
<1>2. ASSUME NEW role \in Roles, NEW part, NEW v, EnterName(role, part, v)
      PROVE  FormShaped(form') /\ DOMAIN selected' = Roles
  BY <1>1, <1>2, FieldFacts DEF EnterName, Change, FormShaped
<1>3. ASSUME NEW x \in {"type", "method", "towMode", "towplane", "departed", "from",
                        "to", "towTo"},
             NEW v, Set(x, v)
      PROVE  FormShaped(form') /\ DOMAIN selected' = Roles
  BY <1>1, <1>3, FieldFacts DEF Set, Change, FormShaped
<1>4. ASSUME NEW n \in 0 .. MaxLandings - 1, Set("landings", n)
      PROVE  FormShaped(form') /\ DOMAIN selected' = Roles
  <2>1. MaxLandings \in Nat
    BY ErrorsAssumption
  <2>2. n \in Nat
    BY <2>1
  <2> QED
    BY <1>1, <1>4, <2>2, FieldFacts DEF Set, Change, FormShaped
<1>5. ASSUME NEW m \in Modes, EnterMode(m)
      PROVE  FormShaped(form') /\ DOMAIN selected' = Roles
  BY <1>1, <1>5, FieldFacts DEF EnterMode, Change, FormShaped
<1>6. ASSUME NEW p, EnterPlane(p)
      PROVE  FormShaped(form') /\ DOMAIN selected' = Roles
  <2>1. PICK method : form' = [form EXCEPT !.plane = p, !.method = method]
    BY <1>6 DEF EnterPlane, Change
  <2>2. selected' = selected
    BY <1>6 DEF EnterPlane
  <2> QED
    BY <1>1, <2>1, <2>2, FieldFacts DEF FormShaped
<1>7. CASE EnterLanded
  BY <1>1, <1>7, FieldFacts DEF EnterLanded, Change, FormShaped
<1>8. CASE EnterTowLanded
  BY <1>1, <1>8, FieldFacts DEF EnterTowLanded, Change, FormShaped
<1> QED
  BY <1>2, <1>3, <1>4, <1>5, <1>6, <1>7, <1>8
     DEF Edit, EnterTowplane, EnterMethod, EnterTowMode, EnterDeparted

LEMMA OutcomeFacts ==
  ASSUME NEW name, NEW o \in Outcomes(name), people \subseteq Persons
  PROVE  /\ o.person \in Persons \cup {None}
         /\ o.person # None => Matches(o.person, name) /\ o.name = NoName
         /\ o.person = None => o.name = name
<1> DEFINE found   == {[person |-> p, name |-> NoName] : p \in Candidates(name)}
           created == {[person |-> p, name |-> NoName] :
                         p \in {q \in Persons \ people : Matches(q, name)}}
<1>1. o \in found \cup created \cup {[person |-> None, name |-> name]}
  BY DEF Outcomes
<1>2. \A p \in Persons : p # None
  BY ErrorsAssumption
<1>3. CASE o \in found
  <2>1. PICK p \in Candidates(name) : o = [person |-> p, name |-> NoName]
    BY <1>3
  <2>2. p \in Persons /\ Matches(p, name)
    BY DEF Candidates
  <2> QED
    BY <2>1, <2>2, <1>2
<1>4. CASE o \in created
  <2>1. PICK p \in Persons : o = [person |-> p, name |-> NoName] /\ Matches(p, name)
    BY <1>4
  <2> QED
    BY <2>1, <1>2
<1>5. CASE o = [person |-> None, name |-> name]
  BY <1>5
<1> QED
  BY <1>1, <1>3, <1>4, <1>5

\* what DeterminePerson takes for a person
Answers(role) == IF Active(form, role) THEN Outcomes(form.name[role])
                 ELSE {[person |-> None, name |-> NoName]}

LEMMA AnswerFacts ==
  ASSUME NEW role, NEW o \in Answers(role), people \subseteq Persons
  PROVE  /\ o.person \in Persons \cup {None}
         /\ o.person # None => /\ Active(form, role)
                               /\ Matches(o.person, form.name[role])
                               /\ o.name = NoName
         /\ o.person = None => o.name = IF Active(form, role) THEN form.name[role]
                                        ELSE NoName
<1>1. CASE Active(form, role)
  BY <1>1, OutcomeFacts DEF Answers
<1>2. CASE ~ Active(form, role)
  BY <1>2 DEF Answers
<1> QED
  BY <1>1, <1>2

LEMMA ShapeOfForm ==
  ASSUME ShapeInv, Next
  PROVE  ShapeInv'
<1> USE DEF ShapeInv
<1>1. CASE CreateFlight \/ RepeatFlight \/ EditFlight
  BY <1>1, BlankShaped, FieldsShaped DEF CreateFlight, RepeatFlight, EditFlight, Open
<1>2. CASE Edit
  <2>1. UNCHANGED <<row, flight, people, mode, now>>
    BY <1>2 DEF Edit, EnterName, Set, EnterMode, EnterMethod, EnterTowMode, EnterPlane,
                EnterTowplane, EnterDeparted, EnterLanded, EnterTowLanded, Change
  <2> QED
    BY <1>2, <2>1, EditShaped
<1>3. CASE Close
  BY <1>3 DEF Close
<1>4. CASE Accept
  <2>1. mode = "edit" => ~ now'
    BY <1>4 DEF Accept, NowPossible
  <2> QED
    BY <1>4, <2>1, BasicShaped DEF Accept
<1>5. CASE Abort
  BY <1>5, BlankShaped DEF Abort
<1>6. CASE DeterminePlanes
  <2>1. PICK p, t, u : /\ flight' = [flight EXCEPT !.plane = p, !.towplane = t]
                       /\ form' = [form EXCEPT !.plane = p, !.towplane = u]
    BY <1>6 DEF DeterminePlanes
  <2>2. FormShaped(form')
    BY <2>1, FieldFacts DEF FormShaped
  <2> QED
    BY <1>6, <2>1, <2>2, PlanesShaped DEF DeterminePlanes
<1>7. ASSUME NEW role \in Roles, NEW next, DeterminePerson(role, next)
      PROVE  ShapeInv'
  <2>1. PICK o \in Answers(role) :
          /\ flight' = WithPerson(role, o)
          /\ people' = people \cup ({o.person} \ {None})
          /\ selected' = [selected EXCEPT ![role] = o.person]
          /\ form' = IF o.person = None THEN form
                     ELSE [form EXCEPT !.name[role] = NameOf(o.person)]
    BY <1>7 DEF DeterminePerson, Answers
  <2>2. o.person \in Persons \cup {None}
    BY AnswerFacts
  <2>3. FormShaped(form') /\ DOMAIN selected' = Roles
    BY <2>1, FieldFacts DEF FormShaped
  <2>4. UNCHANGED <<row, mode, now>>
    BY <1>7 DEF DeterminePerson
  <2> QED
    BY <2>1, <2>2, <2>3, <2>4, PersonShaped
<1>8. CASE Write
  BY <1>8, NowShaped DEF Write
<1> QED
  BY <1>1, <1>2, <1>3, <1>4, <1>5, <1>6, <1>7, <1>8 DEF Next, Determine, Roles

LEMMA ReplacedShaped ==
  ASSUME NEW f, Shaped(f), NEW wrong, NEW correct
  PROVE  Shaped([f EXCEPT !.id = Replaced(@, wrong, correct, Roles)])
<1> DEFINE ids == Replaced(f.id, wrong, correct, Roles)
<1>1. ids = [role \in Roles |-> ids[role]]
  <2>1. DOMAIN f.id = Roles
    BY DEF Shaped
  <2> QED
    BY <2>1 DEF Replaced
<1> HIDE DEF ids
<1>2. Shaped([f EXCEPT !.id = ids])
  BY <1>1, FieldFacts DEF Shaped
<1> QED
  BY <1>2 DEF ids

LEMMA ShapePreserved == ShapeInv /\ [ListNext]_listVars => ShapeInv'
<1> SUFFICES ASSUME ShapeInv, [ListNext]_listVars PROVE ShapeInv'
  OBVIOUS
<1>1. CASE UNCHANGED listVars
  BY <1>1 DEF listVars, vars, session, ShapeInv
<1>2. CASE FormStep
  BY <1>2, ShapeOfForm DEF FormStep
<1>3. CASE Merge
  <2>1. PICK correct, wrong : \/ row' = row
                              \/ row' = [row EXCEPT !.id = Replaced(@, wrong, correct, Roles)]
    BY <1>3 DEF Merge, MergeCanceled, MergeDone
  <2>2. UNCHANGED <<flight, form, selected, mode, now>> /\ people' \subseteq people
    BY <1>3 DEF Merge, MergeCanceled, MergeDone, ListStep, Delete
  <2> QED
    BY <2>1, <2>2, ReplacedShaped DEF ShapeInv
<1>4. ASSUME NEW p, DeletePerson(p)
      PROVE  ShapeInv'
  BY <1>4 DEF DeletePerson, ListStep, Delete, ShapeInv
<1> QED
  BY <1>1, <1>2, <1>3, <1>4 DEF ListNext

LEMMA ShapeInitially == ListInit => ShapeInv
BY BlankShaped, StoredShaped, FormAssumption DEF ListInit, Init, ShapeInv

-----------------------------------------------------------------------------
(* What is determined, and what was asked about it *)

Determining == stage \notin {"closed", "open"}

PlanesDetermined == stage \in {"pilot", "copilot", "towpilot", "write"}

Determined(role) ==
  CASE role = "pilot"    -> stage \in {"copilot", "towpilot", "write"}
    [] role = "copilot"  -> stage \in {"towpilot", "write"}
    [] role = "towpilot" -> stage = "write"

BasicFields == {"type", "mode", "from", "to", "landings", "method", "towMode",
                "towTo", "departed", "landed", "towLanded"}

\* what the copilot's fields are entered for
Solo(f, role) == role = "copilot" /\ SupervisorRecorded(f.type)
Who(f, role)  == IF Solo(f, role) THEN f.supervisor ELSE f.id[role]

BasicInv ==
  Determining => /\ \A x \in BasicFields : flight[x] = DetermineFlightBasic[x]
                 /\ CheckPhase1(flight, now) \subseteq asked

PlanesInv ==
  PlanesDetermined =>
    /\ CheckPhase2(flight) \subseteq asked
    /\ flight.plane = None => "planeMissing" \in asked
    /\ TowplaneActive(form) /\ flight.towplane = None => "towplaneMissing" \in asked

\* the one entered is the one whose name was in the fields
EnteredAs(role) ==
  IF ~ Active(form, role) THEN Who(flight, role) = None /\ flight.name[role] = NoName
  ELSE IF Who(flight, role) # None THEN Matches(Who(flight, role), entered[role])
  ELSE Solo(flight, role) \/ flight.name[role] = entered[role]

RoleAsked(role) ==
  /\ Incomplete(flight, role) \subseteq asked
  /\ role = "pilot" /\ flight.id[role] = None /\ flight.name[role] = NoName
     /\ Required(role) => "pilotMissing" \in asked

RoleInv(role) ==
  IF Determined(role) THEN EnteredAs(role) /\ RoleAsked(role)
  ELSE Determining => flight.name[role] = NoName /\ entered[role] = form.name[role]

WindowInv == BasicInv /\ PlanesInv /\ \A role \in Roles : RoleInv(role)

LEMMA NotDetermining == stage' \in {"closed", "open"} => WindowInv'
BY DEF WindowInv, BasicInv, PlanesInv, RoleInv, Determining, PlanesDetermined, Determined, Roles

\* the planes and the names do not say which fields are shown
LEMMA FormKept ==
  ASSUME \A x \in FormFields \ {"plane", "towplane", "name"} : form'[x] = form[x]
  PROVE  /\ \A x \in BasicFields : DetermineFlightBasic'[x] = DetermineFlightBasic[x]
         /\ TowplaneActive(form') <=> TowplaneActive(form)
         /\ \A role \in Roles : Active(form', role) <=> Active(form, role)
<1>1. \A x \in {"type", "mode", "method", "towMode", "departed", "landed", "towLanded",
                "from", "to", "towTo", "landings"} : form'[x] = form[x]
  BY FieldFacts
<1>2. IsAirtow(form') <=> IsAirtow(form)
  BY <1>1 DEF IsAirtow
<1>3. TowplaneActive(form') <=> TowplaneActive(form)
  BY <1>1, <1>2 DEF TowplaneActive
<1>4. \A role \in Roles : Active(form', role) <=> Active(form, role)
  BY <1>1, <1>2 DEF Active, Roles
<1>5. ASSUME NEW x \in BasicFields
      PROVE  DetermineFlightBasic'[x] = DetermineFlightBasic[x]
  <2>1. CASE x \in {"type", "mode", "from", "to", "landings"}
    <3>1. form'[x] = form[x]
      BY <1>1, <2>1
    <3> QED
      BY <2>1, <3>1 DEF DetermineFlightBasic, BlankFlight
  <2>2. CASE x = "method"
    BY <1>1, <2>2 DEF DetermineFlightBasic, BlankFlight
  <2>3. CASE x \in {"towMode", "towTo"}
    BY <1>1, <1>2, <2>3 DEF DetermineFlightBasic, BlankFlight
  <2>4. CASE x \in {"departed", "landed", "towLanded"}
    BY <1>1, <1>2, <2>4 DEF DetermineFlightBasic, BlankFlight, DepartureTimeActive,
                            LandingTimeActive, TowLandingActive
  <2> QED
    BY <2>1, <2>2, <2>3, <2>4 DEF BasicFields
<1> QED
  BY <1>3, <1>4, <1>5

LEMMA Check1Kept ==
  ASSUME NEW f, NEW g, NEW n, \A x \in BasicFields : f[x] = g[x]
  PROVE  CheckPhase1(f, n) = CheckPhase1(g, n)
<1>1. /\ f.mode = g.mode /\ f.method = g.method /\ f.from = g.from /\ f.to = g.to
      /\ f.departed = g.departed /\ f.landed = g.landed /\ f.landings = g.landings
      /\ f.towLanded = g.towLanded /\ f.towMode = g.towMode /\ f.towTo = g.towTo
  BY DEF BasicFields
<1> QED
  BY <1>1 DEF CheckPhase1

LEMMA Check2Kept ==
  ASSUME NEW f, NEW g, \A x \in BasicFields \cup {"plane", "towplane"} : f[x] = g[x]
  PROVE  CheckPhase2(f) = CheckPhase2(g)
<1>1. /\ f.type = g.type /\ f.method = g.method /\ f.landings = g.landings
      /\ f.landed = g.landed /\ f.plane = g.plane /\ f.towplane = g.towplane
  BY DEF BasicFields
<1> QED
  BY <1>1 DEF CheckPhase2

LEMMA AcceptWindow ==
  ASSUME Accept
  PROVE  WindowInv'
<1>1. /\ flight' = DetermineFlightBasic /\ asked' = CheckPhase1(DetermineFlightBasic, now')
      /\ UNCHANGED <<form, selected, people>> /\ entered' = form.name /\ stage' = "planes"
  BY DEF Accept
<1>2. DetermineFlightBasic' = DetermineFlightBasic
  BY <1>1 DEF DetermineFlightBasic
<1>3. BasicInv'
  BY <1>1, <1>2 DEF BasicInv
<1>4. \A role \in Roles : flight'.name[role] = NoName
  BY <1>1 DEF DetermineFlightBasic, BlankFlight, NoNames
<1> QED
  BY <1>1, <1>3, <1>4
     DEF WindowInv, PlanesInv, RoleInv, PlanesDetermined, Determined, Determining, Roles

LEMMA PlanesWindow ==
  ASSUME ShapeInv, WindowInv, DeterminePlanes
  PROVE  WindowInv'
<1>1. PICK p, t :
        /\ flight' = [flight EXCEPT !.plane = p, !.towplane = t]
        /\ asked' = asked \cup CheckPhase2(flight')
                      \cup {e \in {"planeMissing"} : p = None}
                      \cup {e \in {"towplaneMissing"} : TowplaneActive(form) /\ t = None}
        /\ form' = [form EXCEPT !.plane = p,
                      !.towplane = IF TowplaneActive(form) THEN t ELSE @]
  BY DEF DeterminePlanes
<1>2. stage = "planes" /\ stage' = "pilot" /\ UNCHANGED <<now, entered, selected>>
  BY DEF DeterminePlanes
<1>3. Shaped(flight) /\ FormShaped(form)
  BY DEF ShapeInv
<1>4. /\ \A x \in FlightFields \ {"plane", "towplane"} : flight'[x] = flight[x]
      /\ flight'.plane = p /\ flight'.towplane = t
  BY <1>1, <1>3, FieldFacts DEF Shaped
<1>5. \A x \in FormFields \ {"plane", "towplane"} : form'[x] = form[x]
  BY <1>1, <1>3, FieldFacts DEF FormShaped
<1>6. \A x \in BasicFields : flight'[x] = flight[x]
  BY <1>4, FieldFacts DEF BasicFields
<1>7. BasicInv'
  <2>1. \A x \in BasicFields : flight'[x] = DetermineFlightBasic'[x]
    BY <1>2, <1>5, <1>6, FormKept DEF WindowInv, BasicInv, Determining
  <2>2. CheckPhase1(flight', now') = CheckPhase1(flight, now)
    BY <1>2, <1>6, Check1Kept
  <2> QED
    BY <1>1, <1>2, <2>1, <2>2 DEF WindowInv, BasicInv, Determining
<1>8. PlanesInv'
  BY <1>1, <1>4, <1>5, FormKept DEF PlanesInv
<1>9. ASSUME NEW role \in Roles
      PROVE  RoleInv(role)'
  <2>1. flight'.name = flight.name /\ form'.name = form.name
    BY <1>4, <1>5, FieldFacts
  <2> QED
    BY <1>2, <2>1 DEF WindowInv, RoleInv, Determined, Determining, Roles
<1> QED
  BY <1>7, <1>8, <1>9 DEF WindowInv

Turns == {<<"pilot", "copilot">>, <<"copilot", "towpilot">>, <<"towpilot", "write">>}

LEMMA PersonWindow ==
  ASSUME ShapeInv, WindowInv, NEW role \in Roles, NEW next, <<role, next>> \in Turns,
         DeterminePerson(role, next)
  PROVE  WindowInv'
<1>1. PICK o \in Answers(role) :
        /\ flight' = WithPerson(role, o)
        /\ asked' = asked \cup AskedFor(role, o)
        /\ form' = IF o.person = None THEN form
                   ELSE [form EXCEPT !.name[role] = NameOf(o.person)]
  BY DEF DeterminePerson, Answers
<1>2. stage = role /\ stage' = next /\ UNCHANGED <<now, entered>>
  BY DEF DeterminePerson
<1>3. Shaped(flight) /\ FormShaped(form) /\ people \subseteq Persons
  BY DEF ShapeInv
<1>4. /\ o.person # None => /\ Active(form, role)
                           /\ Matches(o.person, form.name[role]) /\ o.name = NoName
      /\ o.person = None => o.name = IF Active(form, role) THEN form.name[role]
                                     ELSE NoName
  BY <1>3, AnswerFacts
<1>5. /\ \A x \in FlightFields \ {"id", "name", "supervisor"} : flight'[x] = flight[x]
      /\ \A r \in Roles \ {role} : /\ flight'.id[r] = flight.id[r]
                                   /\ flight'.name[r] = flight.name[r]
      /\ role # "copilot" => flight'.supervisor = flight.supervisor
      /\ IF Solo(flight, role)
         THEN flight'.supervisor = o.person /\ flight'.name[role] = flight.name[role]
         ELSE flight'.id[role] = o.person /\ flight'.name[role] = o.name
  BY <1>1, <1>3, FieldFacts DEF Shaped, WithPerson, Solo
<1>6. /\ \A x \in FormFields \ {"name"} : form'[x] = form[x]
      /\ \A r \in Roles \ {role} : form'.name[r] = form.name[r]
  BY <1>1, <1>3, FieldFacts DEF FormShaped
<1>7. \A x \in BasicFields \cup {"plane", "towplane"} : flight'[x] = flight[x]
  BY <1>5, FieldFacts DEF BasicFields
<1>8. BasicInv'
  <2>1. \A x \in BasicFields : flight'[x] = DetermineFlightBasic'[x]
    BY <1>2, <1>6, <1>7, FormKept DEF WindowInv, BasicInv, Determining, Roles
  <2>2. CheckPhase1(flight', now') = CheckPhase1(flight, now)
    BY <1>2, <1>7, Check1Kept
  <2> QED
    BY <1>1, <1>2, <2>1, <2>2 DEF WindowInv, BasicInv, Determining, Roles
<1>9. PlanesInv'
  <2>1. CheckPhase2(flight') = CheckPhase2(flight)
    BY <1>7, Check2Kept
  <2>2. TowplaneActive(form') <=> TowplaneActive(form)
    BY <1>6, FormKept
  <2> QED
    BY <1>1, <1>2, <1>7, <2>1, <2>2 DEF WindowInv, PlanesInv, PlanesDetermined, Roles
<1>10. flight'.type = flight.type /\ flight'.mode = flight.mode /\ flight'.method = flight.method
  BY <1>7 DEF BasicFields
<1>11. \A r \in Roles : Active(form', r) <=> Active(form, r)
  BY <1>6, FormKept
<1>12. flight.type = form.type
  BY <1>2 DEF WindowInv, BasicInv, Determining, BasicFields, Roles, DetermineFlightBasic,
              BlankFlight
<1>13. ASSUME NEW r \in Roles \ {role}
       PROVE  RoleInv(r)'
  <2>1. /\ Determined(r)' <=> Determined(r)
        /\ Determining /\ Determining'
    BY <1>2 DEF Determined, Determining, Turns, Roles
  <2>2. /\ Who(flight', r) = Who(flight, r)
        /\ flight'.name[r] = flight.name[r] /\ flight'.id[r] = flight.id[r]
    BY <1>5, <1>10 DEF Who, Solo
  <2>3. /\ Solo(flight', r) <=> Solo(flight, r)
        /\ Incomplete(flight', r) = Incomplete(flight, r)
        /\ Required(r)' <=> Required(r)
    BY <1>10, <2>2 DEF Solo, Incomplete, Required, Roles
  <2>4. CASE Determined(r)
    BY <1>1, <1>2, <1>11, <2>1, <2>2, <2>3, <2>4
       DEF WindowInv, RoleInv, EnteredAs, RoleAsked
  <2>5. CASE ~ Determined(r)
    BY <1>2, <1>6, <2>1, <2>2, <2>5 DEF WindowInv, RoleInv
  <2> QED
    BY <2>4, <2>5
<1>14. RoleInv(role)'
  <2>1. ~ Determined(role) /\ Determining /\ Determined(role)'
    BY <1>2 DEF Determined, Determining, Turns, Roles
  <2>2. flight.name[role] = NoName /\ entered[role] = form.name[role]
    BY <2>1 DEF WindowInv, RoleInv
  <2>3. Solo(flight', role) <=> Solo(flight, role)
    BY <1>10 DEF Solo
  <2>4. Solo(flight, role) => Active(form, role)
    BY <1>12 DEF Solo, Active
  <2>5. Who(flight', role) = o.person
    BY <1>5, <2>3 DEF Who
  <2>6. flight'.name[role] = IF Solo(flight, role) THEN NoName ELSE o.name
    BY <1>5, <2>2
  <2>7. EnteredAs(role)'
    BY <1>2, <1>4, <1>11, <2>2, <2>3, <2>4, <2>5, <2>6 DEF EnteredAs
  <2>8. RoleAsked(role)'
    <3>1. Required(role)' <=> Required(role)
      BY <1>10 DEF Required, Roles
    <3>2. CASE Solo(flight, role)
      BY <2>6, <3>2 DEF RoleAsked, Incomplete, Solo
    <3>3. CASE ~ Solo(flight, role)
      <4>1. flight'.id[role] = o.person /\ flight'.name[role] = o.name
        BY <1>5, <3>3
      <4> QED
        BY <1>1, <3>1, <4>1 DEF RoleAsked, Incomplete, AskedFor
    <3> QED
      BY <3>2, <3>3
  <2> QED
    BY <2>1, <2>7, <2>8 DEF RoleInv
<1> QED
  BY <1>8, <1>9, <1>13, <1>14 DEF WindowInv

LEMMA WindowPreserved == ShapeInv /\ WindowInv /\ [ListNext]_listVars => WindowInv'
<1> SUFFICES ASSUME ShapeInv, WindowInv, [ListNext]_listVars PROVE WindowInv'
  OBVIOUS
<1>1. CASE UNCHANGED listVars
  <2>1. UNCHANGED <<stage, form, selected, flight, now, asked, entered>>
    BY <1>1 DEF listVars, vars, session
  <2>2. DetermineFlightBasic' = DetermineFlightBasic
    BY <2>1 DEF DetermineFlightBasic
  <2>3. BasicInv'
    BY <2>1, <2>2 DEF WindowInv, BasicInv, Determining
  <2>4. PlanesInv'
    BY <2>1 DEF WindowInv, PlanesInv, PlanesDetermined
  <2>5. \A role \in Roles : RoleInv(role)'
    BY <2>1 DEF WindowInv, RoleInv, EnteredAs, RoleAsked, Required, Determined, Determining
  <2> QED
    BY <2>3, <2>4, <2>5 DEF WindowInv
<1>2. CASE FormStep
  <2>1. CASE CreateFlight \/ RepeatFlight \/ EditFlight
    BY <2>1, NotDetermining DEF CreateFlight, RepeatFlight, EditFlight, Open
  <2>2. CASE Edit
    <3>1. stage' = "open"
      BY <2>2 DEF Edit, EnterName, Set, EnterMode, EnterMethod, EnterTowMode, EnterPlane,
                  EnterTowplane, EnterDeparted, EnterLanded, EnterTowLanded, Change
    <3> QED
      BY <3>1, NotDetermining
  <2>3. CASE Close \/ Abort \/ Write
    BY <2>3, NotDetermining DEF Close, Abort, Write
  <2> QED
    BY <1>2, <2>1, <2>2, <2>3, AcceptWindow, PlanesWindow, PersonWindow
       DEF FormStep, Next, Determine, Turns, Roles
<1>3. CASE Merge \/ \E p \in Persons : DeletePerson(p)
  BY <1>3, NotDetermining DEF Merge, MergeCanceled, MergeDone, DeletePerson, ListStep
<1> QED
  BY <1>1, <1>2, <1>3 DEF ListNext

LEMMA WindowInitially == ListInit => WindowInv
BY DEF ListInit, Init, WindowInv, BasicInv, PlanesInv, RoleInv, Determining, PlanesDetermined,
       Determined, Roles

-----------------------------------------------------------------------------
(* What is written *)

LEMMA OnlyWriteWrites ==
  ASSUME ListNext, Writes
  PROVE  Write
<1>1. FormStep
  BY DEF Writes, ListNext, Merge, MergeCanceled, MergeDone, DeletePerson, ListStep
<1>2. ASSUME NEW role \in Roles, NEW next \in {"copilot", "towpilot", "write"},
             DeterminePerson(role, next)
      PROVE  FALSE
  BY <1>2 DEF DeterminePerson, Writes
<1>3. ~ Edit
  BY DEF Writes, Edit, EnterName, Set, EnterMode, EnterMethod, EnterTowMode, EnterPlane,
         EnterTowplane, EnterDeparted, EnterLanded, EnterTowLanded, Change
<1> QED
  BY <1>1, <1>2, <1>3
     DEF FormStep, Next, Writes, CreateFlight, RepeatFlight, EditFlight, Open, Close, Accept,
         Determine, DeterminePlanes, Abort, Roles

\* Now records that the flight departed, or that it landed
LEMMA WrittenFlight ==
  ASSUME ShapeInv, Write
  PROVE  /\ row' = CASE now /\ DepartsHere(form.mode) -> DepartNow(flight)
                     [] now /\ ~ DepartsHere(form.mode) -> LandNow(flight)
                     [] OTHER -> flight
         /\ \A x \in FlightFields \ {"departed", "landed", "landings", "to"} :
              row'[x] = flight[x]
         /\ now => IF DepartsHere(form.mode)
                   THEN /\ row'.departed /\ row'.landed = flight.landed
                        /\ row'.landings = flight.landings /\ row'.to = flight.to
                   ELSE /\ row'.landed /\ row'.departed = flight.departed
                        /\ row'.landings = flight.landings + 1
                        /\ row'.to = IF flight.to = "" THEN "home" ELSE flight.to
         /\ ~ now => row' = flight
<1>1. Shaped(flight)
  BY DEF ShapeInv
<1>2. row' = CASE now /\ DepartsHere(form.mode) -> DepartNow(flight)
               [] now /\ ~ DepartsHere(form.mode) -> LandNow(flight)
               [] OTHER -> flight
  BY DEF Write
<1>3. CASE now /\ DepartsHere(form.mode)
  <2>1. row' = DepartNow(flight)
    BY <1>2, <1>3
  <2> QED
    BY <1>1, <1>2, <1>3, <2>1, FieldFacts DEF Shaped, DepartNow
<1>4. CASE now /\ ~ DepartsHere(form.mode)
  <2>1. row' = LandNow(flight)
    BY <1>2, <1>4
  <2> QED
    BY <1>1, <1>2, <1>4, <2>1, FieldFacts DEF Shaped, LandNow
<1>5. CASE ~ now
  <2>1. row' = flight
    BY <1>2, <1>5
  <2> QED
    BY <1>2, <1>5, <2>1
<1> QED
  BY <1>3, <1>4, <1>5

LEMMA EnteredStep ==
  ASSUME ShapeInv, WindowInv, ListNext, Writes, NEW role \in Roles
  PROVE  LET solo == role = "copilot" /\ SupervisorRecorded(row'.type)
             who  == IF solo THEN row'.supervisor ELSE row'.id[role]
         IN  IF ~ Active(form, role) THEN who = None /\ row'.name[role] = NoName
             ELSE IF who # None THEN Matches(who, entered[role])
             ELSE solo \/ row'.name[role] = entered[role]
<1>1. Write
  BY OnlyWriteWrites
<1>2. /\ row'.type = flight.type /\ row'.id = flight.id /\ row'.name = flight.name
      /\ row'.supervisor = flight.supervisor
  BY <1>1, WrittenFlight, FieldFacts
<1>3. Determined(role)
  BY <1>1 DEF Write, Determined, Roles
<1>4. EnteredAs(role)
  BY <1>3 DEF WindowInv, RoleInv
<1> QED
  BY <1>2, <1>4 DEF EnteredAs, Who, Solo

(* The person written in a role is the one whose name was in the fields of  *)
(* the role when OK was pressed, who could not be identified is written by  *)
(* name, and nobody is written where the flight has no such role: for any   *)
(* people, whichever are created, deleted or merged beside the window       *)
(* (FlightWindow.cpp: determineFlightBasic, determineFlightPeople).         *)
THEOREM EnteredIsWritten == ListSpec => WrittenIsEntered
<1>1. ShapeInv /\ WindowInv /\ [ListNext]_listVars =>
        [Writes => \A role \in Roles :
           LET solo == role = "copilot" /\ SupervisorRecorded(row'.type)
               who  == IF solo THEN row'.supervisor ELSE row'.id[role]
           IN  IF ~ Active(form, role) THEN who = None /\ row'.name[role] = NoName
               ELSE IF who # None THEN Matches(who, entered[role])
               ELSE solo \/ row'.name[role] = entered[role]]_vars
  BY EnteredStep DEF listVars
<1> QED
  BY <1>1, ShapeInitially, ShapePreserved, WindowInitially, WindowPreserved, PTL
     DEF ListSpec, WrittenIsEntered
-----------------------------------------------------------------------------
(* What is wrong with what is written *)

LEMMA PeopleAsked ==
  ASSUME ShapeInv, WindowInv, Write
  PROVE  PeopleErrors(row') \subseteq asked' \cup NotAsked(row')
<1>1. /\ row'.type = flight.type /\ row'.id = flight.id /\ row'.name = flight.name
      /\ row'.method = flight.method /\ row'.mode = flight.mode
  BY WrittenFlight, FieldFacts
<1>2. asked' = asked \cup CheckPhase3(flight) /\ stage = "write"
  BY DEF Write
<1>3. \A role \in Roles : RoleAsked(role)
  BY <1>2 DEF WindowInv, RoleInv, Determined, Roles
<1>4. \A role \in Roles : Incomplete(row', role) \subseteq asked'
  BY <1>1, <1>2, <1>3 DEF RoleAsked, Incomplete
<1>5. flight.method # None => DepartsHere(flight.mode)
  BY <1>2 DEF WindowInv, BasicInv, Determining, BasicFields, DetermineFlightBasic, BlankFlight
<1>6. ASSUME row'.id["pilot"] = None, row'.name["pilot"] = NoName, row'.method # None
      PROVE  "pilotMissing" \in asked' \cup NotAsked(row')
  <2>1. CASE IsMethod(row'.method, "self")
    BY <1>1, <1>2, <1>3, <1>5, <1>6, <2>1 DEF RoleAsked, Required, Roles
  <2>2. CASE ~ IsMethod(row'.method, "self")
    BY <1>6, <2>2 DEF NotAsked
  <2> QED
    BY <2>1, <2>2
<1>7. ASSUME row'.id["pilot"] # None,
             row'.id["pilot"] = row'.id["copilot"] \/ row'.id["pilot"] = row'.id["towpilot"]
      PROVE  {"pilotEqualsCopilot", "pilotEqualsTowpilot"} \cap PeopleErrors(row')
               \subseteq asked'
  BY <1>1, <1>2, <1>7 DEF PeopleErrors, CheckPhase3, Incomplete, NotIdentified
<1>8. row'.type = "training2" /\ ~ CopilotSpecified(row') =>
        "trainingWithoutInstructor" \in asked'
  BY <1>1, <1>2 DEF CheckPhase3, CopilotSpecified
<1>9. ASSUME NEW e \in PeopleErrors(row')
      PROVE  e \in asked' \cup NotAsked(row')
  <2>1. CASE \E role \in Roles : e \in Incomplete(row', role)
    BY <1>4, <2>1
  <2>2. CASE e \in {"pilotMissing", "pilotEqualsCopilot", "trainingWithoutInstructor",
                    "pilotEqualsTowpilot"}
    BY <1>6, <1>7, <1>8, <1>9, <2>2 DEF PeopleErrors, Incomplete, NotIdentified, Roles
  <2> QED
    BY <1>9, <2>1, <2>2 DEF PeopleErrors, Roles
<1> QED
  BY <1>9

LEMMA BasicsAsked ==
  ASSUME ShapeInv, WindowInv, Write
  PROVE  /\ CheckPhase1(flight, now) \cup CheckPhase2(flight) \subseteq asked'
         /\ flight.plane = None => "planeMissing" \in asked'
         /\ TowplaneActive(flight) /\ flight.towplane = None => "towplaneMissing" \in asked'
         /\ flight.mode = form.mode
         /\ flight.method # None => DepartsHere(flight.mode)
         /\ ~ LandsHere(flight.mode) => ~ flight.landed
<1>1. stage = "write" /\ asked \subseteq asked'
  BY DEF Write
<1>2. BasicInv /\ PlanesInv /\ Determining /\ PlanesDetermined
  BY <1>1 DEF WindowInv, Determining, PlanesDetermined
<1>3. /\ flight.mode = form.mode
      /\ flight.method = IF DepartsHere(form.mode) THEN form.method ELSE None
      /\ flight.landed = LandingTimeActive(form)
  BY <1>2 DEF BasicInv, BasicFields, DetermineFlightBasic, BlankFlight
<1>4. TowplaneActive(flight) => TowplaneActive(form)
  BY <1>3 DEF TowplaneActive, IsAirtow
<1> QED
  BY <1>1, <1>2, <1>3, <1>4 DEF BasicInv, PlanesInv, LandingTimeActive

LEMMA GliderFacts ==
  ASSUME NEW f, NEW e \in PlaneErrors(f)
  PROVE  /\ e = "gliderMultipleLandings" =>
              /\ f.plane \in Gliders /\ f.method # None
              /\ ~ IsMethod(f.method, "airtow") /\ f.landings > 1
         /\ e = "gliderLandingsWithoutLandingTime" =>
              /\ f.plane \in Gliders /\ f.method # None
              /\ ~ IsMethod(f.method, "airtow") /\ f.landings > 0 /\ ~ f.landed
BY DEF PlaneErrors, IsMethod

LEMMA PlaneAsked ==
  ASSUME ShapeInv, WindowInv, Write
  PROVE  PlaneErrors(row') \subseteq asked' \cup NotAsked(row')
<1>1. /\ row'.type = flight.type /\ row'.id = flight.id /\ row'.name = flight.name
      /\ row'.method = flight.method /\ row'.mode = flight.mode
      /\ row'.plane = flight.plane
  BY WrittenFlight, FieldFacts
<1>2. asked' = asked \cup CheckPhase3(flight)
  BY DEF Write
<1>3. row'.method # None => row'.landings = flight.landings
  BY <1>1, BasicsAsked, WrittenFlight
<1>4. row'.method # None /\ ~ row'.landed => ~ flight.landed
  BY <1>1, BasicsAsked, WrittenFlight
<1>5. /\ CheckPhase2(flight) \subseteq asked'
      /\ flight.plane = None => "planeMissing" \in asked'
  BY BasicsAsked
<1>6. ASSUME NEW e \in PlaneErrors(row')
      PROVE  e \in asked' \cup NotAsked(row')
  <2>1. CASE e = "planeMissing"
    BY <1>1, <1>5, <1>6, <2>1 DEF PlaneErrors
  <2>2. CASE e \in {"trainingInSingleSeater", "passengerFlightInSingleSeater"}
    BY <1>1, <1>5, <1>6, <2>2 DEF PlaneErrors, CheckPhase2, NotAsked
  <2>3. CASE e = "copilotInSingleSeater"
    BY <1>1, <1>2, <1>6, <2>3 DEF PlaneErrors, CheckPhase3, CopilotSpecified
  <2>4. CASE e = "gliderSelfLaunch"
    BY <1>1, <1>5, <1>6, <2>4 DEF PlaneErrors, CheckPhase2
  <2>5. CASE e = "gliderMultipleLandings"
    <3>1. /\ flight.plane \in Gliders /\ flight.method # None
          /\ ~ IsMethod(flight.method, "airtow") /\ flight.landings > 1
      BY <1>1, <1>3, <1>6, <2>5, GliderFacts
    <3> QED
      BY <1>5, <2>5, <3>1 DEF CheckPhase2
  <2>6. CASE e = "gliderLandingsWithoutLandingTime"
    <3>1. /\ flight.plane \in Gliders /\ ~ IsMethod(flight.method, "airtow")
          /\ flight.landings > 0 /\ ~ row'.landed /\ row'.method # None
      BY <1>1, <1>3, <1>6, <2>6, GliderFacts
    <3>2. ~ flight.landed
      BY <1>4, <3>1
    <3> QED
      BY <1>5, <2>6, <3>1, <3>2 DEF CheckPhase2
  <2> QED
    BY <1>6, <2>1, <2>2, <2>3, <2>4, <2>5, <2>6 DEF PlaneErrors
<1> QED
  BY <1>6

\* the same questions, of a flight that may depart now
LEMMA StatusFacts ==
  ASSUME NEW f, NEW e \in StatusErrors(f)
  PROVE  \/ e = "landingLocationEqualsDepartureLocation" /\ f.mode # "local" /\ f.from = f.to
         \/ e = "landingWithoutDeparture" /\ f.mode = "local" /\ f.landed /\ ~ f.departed
         \/ e = "launchMethodMissing" /\ DepartsHere(f.mode) /\ f.departed /\ f.method = None
         \/ e = "landingsWithoutDeparture"
         \/ e = "numLandingsZero" /\ LandsHere(f.mode) /\ f.landed /\ f.landings = 0
         \/ e = "departureLocationMissing" /\ (f.departed \/ ~ DepartsHere(f.mode)) /\ f.from = ""
         \/ e = "landingLocationMissing" /\ (f.landed \/ ~ LandsHere(f.mode)) /\ f.to = ""
BY DEF StatusErrors

LEMMA Phase1Facts ==
  ASSUME NEW f, NEW n
  PROVE  /\ f.mode # "local" /\ f.from = f.to /\ f.mode \in Modes =>
              "landingLocationEqualsDepartureLocation" \in CheckPhase1(f, n)
         /\ f.mode = "local" /\ f.landed /\ ~ f.departed =>
              "landingWithoutDeparture" \in CheckPhase1(f, n)
         /\ DepartsHere(f.mode) /\ (n \/ f.departed) /\ f.method = None =>
              "launchMethodMissing" \in CheckPhase1(f, n)
         /\ LandsHere(f.mode) /\ f.landed /\ f.landings = 0 =>
              "numLandingsZero" \in CheckPhase1(f, n)
         /\ (f.departed \/ ~ DepartsHere(f.mode)) /\ f.from = "" =>
              "departureLocationMissing" \in CheckPhase1(f, n)
         /\ (f.landed \/ ~ LandsHere(f.mode)) /\ f.to = "" =>
              "landingLocationMissing" \in CheckPhase1(f, n)
BY DEF CheckPhase1, DepartsHere, LandsHere, Modes

LEMMA StatusAsked ==
  ASSUME ShapeInv, WindowInv, Write
  PROVE  StatusErrors(row') \subseteq asked' \cup NotAsked(row')
<1>1. /\ row'.method = flight.method /\ row'.mode = flight.mode
      /\ row'.from = flight.from
  BY WrittenFlight, FieldFacts
<1>2. CheckPhase1(flight, now) \subseteq asked' /\ flight.mode = form.mode
  BY BasicsAsked
<1>3. flight.mode \in Modes /\ flight.landings \in Nat
  BY DEF ShapeInv, Shaped
<1>4. ASSUME NEW e \in StatusErrors(row')
      PROVE  e \in asked' \cup NotAsked(row')
  <2>1. CASE e \in {"landingsWithoutDeparture"}
    BY <2>1 DEF NotAsked
  <2>2. CASE ~ now
    <3>1. row' = flight
      BY <2>2, WrittenFlight
    <3> QED
      BY <1>2, <1>3, <1>4, <2>1, <3>1, StatusFacts, Phase1Facts
  <2>3. CASE now /\ DepartsHere(form.mode)
    <3>1. /\ row'.departed /\ row'.landed = flight.landed
          /\ row'.landings = flight.landings /\ row'.to = flight.to
      BY <2>3, WrittenFlight
    <3>2. CASE e \in {"departureLocationMissing", "landingLocationEqualsDepartureLocation"}
      BY <2>3, <3>2 DEF NotAsked
    <3> QED
      BY <1>1, <1>2, <1>4, <2>1, <2>3, <3>1, <3>2, StatusFacts, Phase1Facts
  <2>4. CASE now /\ ~ DepartsHere(form.mode)
    <3>1. row'.landings = flight.landings + 1
      BY <2>4, WrittenFlight
    <3>2. row'.landings # 0
      BY <1>3, <3>1
    <3>3. row'.mode = "coming" /\ row'.to # ""
      BY <1>1, <1>2, <2>4, WrittenFlight DEF DepartsHere
    <3>4. CASE e \in {"departureLocationMissing", "landingLocationEqualsDepartureLocation"}
      BY <2>4, <3>4 DEF NotAsked
    <3> QED
      BY <1>1, <1>2, <1>4, <2>1, <2>4, <3>2, <3>3, <3>4, StatusFacts DEF DepartsHere
  <2> QED
    BY <2>2, <2>3, <2>4
<1> QED
  BY <1>4

LEMMA TowflightAsked ==
  ASSUME ShapeInv, WindowInv, Write
  PROVE  TowflightErrors(row') \subseteq asked' \cup NotAsked(row')
<1>1. /\ row'.method = flight.method /\ row'.mode = flight.mode
      /\ row'.towplane = flight.towplane
  BY WrittenFlight, FieldFacts
<1>2. IsMethod(row'.method, "airtow") => IsAirtow(flight)
  BY <1>1, BasicsAsked DEF IsMethod, IsAirtow
<1>3. CheckPhase2(flight) \subseteq asked'
  BY BasicsAsked
<1>4. ASSUME NEW e \in TowflightErrors(row')
      PROVE  e \in asked' \cup NotAsked(row')
  <2>1. CASE e = "towflightLandingLocationMissing"
    BY <2>1 DEF NotAsked
  <2>2. CASE e = "towplaneMissing"
    <3>1. TowplaneActive(flight) /\ flight.towplane = None
      BY <1>1, <1>2, <1>4, <2>2 DEF TowflightErrors, TowplaneActive
    <3> QED
      BY <2>2, <3>1, BasicsAsked
  <2>3. CASE e = "towplaneIsGlider"
    BY <1>1, <1>3, <1>4, <2>3 DEF TowflightErrors, CheckPhase2
  <2> QED
    BY <1>4, <2>1, <2>2, <2>3 DEF TowflightErrors
<1> QED
  BY <1>4

(* Every error for which a flight is marked in the table was put to the     *)
(* user who wrote it, except for what NotAsked lists: for any launch        *)
(* methods, planes, people and entries, and whether OK or Now was pressed   *)
(* (FlightWindow.cpp: checkFlightPhase1 to 3; Flight.cpp: getErrorsImpl).   *)
THEOREM AskedAboutErrors == ListSpec => ErrorsWereAsked
<1>1. ShapeInv /\ WindowInv /\ [ListNext]_listVars =>
        [Writes => Errors(row') \subseteq asked' \cup NotAsked(row')]_vars
  BY OnlyWriteWrites, PeopleAsked, PlaneAsked, StatusAsked, TowflightAsked
     DEF listVars, Errors
<1> QED
  BY <1>1, ShapeInitially, ShapePreserved, WindowInitially, WindowPreserved, PTL
     DEF ListSpec, ErrorsWereAsked

-----------------------------------------------------------------------------
(* What is kept of a flight that is saved as it was *)

Untouched == mode = "edit" /\ ~ touched /\ stage # "closed"

HiddenRole(role) ==
  Determined(role) => \/ Active(form, role) /\ flight.id[role] = None
                      \/ flight.name[role] = NoName

HiddenInv ==
  /\ NothingHidden(row) /\ row.plane # "unknown" /\ row.towplane # "unknown"
  /\ Determining => IF SupervisorRecorded(flight.type) THEN flight.name["copilot"] = NoName
                    ELSE flight.supervisor = None
  /\ PlanesDetermined => /\ flight.plane # "unknown" /\ flight.towplane # "unknown"
                         /\ ~ TowplaneActive(form) => flight.towplane = None
  /\ \A role \in Roles : HiddenRole(role)

KeptForm ==
  /\ \A x \in FormFields \ {"name"} : form[x] = row[x]
  /\ \A role \in Roles : /\ selected[role] = SelectedOf(row)[role]
                         /\ selected[role] = None => form.name[role] = row.name[role]

KeptRole(role) ==
  Determined(role) => /\ Who(flight, role) = Who(row, role)
                      /\ flight.name[role] = row.name[role]

KeptInv ==
  Untouched => /\ KeptForm
               /\ PlanesDetermined => /\ flight.plane = row.plane
                                      /\ flight.towplane = row.towplane
               /\ \A role \in Roles : KeptRole(role)

SavedInv == HiddenInv /\ KeptInv

LEMMA SameShown ==
  ASSUME NEW f, NEW g, f.type = g.type, f.mode = g.mode, f.method = g.method
  PROVE  /\ IsAirtow(f) <=> IsAirtow(g)
         /\ TowplaneActive(f) <=> TowplaneActive(g)
         /\ \A role \in Roles : Active(f, role) <=> Active(g, role)
BY DEF IsAirtow, TowplaneActive, Active, Roles

LEMMA SelectedFacts ==
  ASSUME NEW f, Shaped(f), NEW role \in Roles
  PROVE  SelectedOf(f)[role] = Who(f, role)
BY DEF Shaped, SelectedOf, SelectedCopilot, Who, Solo, Roles

LEMMA NotDeterminingSaved ==
  ASSUME HiddenInv, UNCHANGED row, stage' \in {"closed", "open"}, (Untouched => KeptForm)'
  PROVE  SavedInv'
BY DEF SavedInv, HiddenInv, KeptInv, HiddenRole, KeptRole, Determining, PlanesDetermined,
       Determined, Roles

LEMMA OpenSaved ==
  ASSUME ShapeInv, SavedInv, CreateFlight \/ RepeatFlight \/ EditFlight
  PROVE  SavedInv'
<1>1. UNCHANGED <<row, people>> /\ stage' = "open"
  BY DEF CreateFlight, RepeatFlight, EditFlight, Open
<1>2. Shaped(row) /\ people \subseteq Persons
  BY DEF ShapeInv
<1>3. CASE CreateFlight \/ RepeatFlight
  <2>1. ~ Untouched'
    BY <1>3 DEF CreateFlight, RepeatFlight, Open, Untouched
  <2> QED
    BY <1>1, <2>1, NotDeterminingSaved DEF SavedInv
<1>4. CASE EditFlight
  <2>1. form' = FlightToFields(row, FALSE) /\ selected' = SelectedOf(row)
    BY <1>4 DEF EditFlight, Open
  <2>2. \A x \in FormFields \ {"name"} : form'[x] = row[x]
    BY <2>1, FieldFacts DEF FlightToFields, FormFields
  <2>3. None \notin people
    BY <1>2, ErrorsAssumption
  <2>4. ASSUME NEW role \in Roles, SelectedOf(row)[role] = None
        PROVE  form'.name[role] = row.name[role]
    BY <2>1, <2>3, <2>4, FieldFacts DEF FlightToFields, FormFields
  <2>5. KeptForm'
    <3>1. SelectedOf(row)' = SelectedOf(row)
      BY <1>1
    <3> QED
      BY <1>1, <2>1, <2>2, <2>4, <3>1 DEF KeptForm
  <2> QED
    BY <1>1, <2>5, NotDeterminingSaved DEF SavedInv
<1> QED
  BY <1>3, <1>4

LEMMA AcceptSaved ==
  ASSUME ShapeInv, SavedInv, Accept
  PROVE  SavedInv'
<1>1. /\ flight' = DetermineFlightBasic /\ stage' = "planes" /\ stage = "open"
      /\ UNCHANGED <<row, form, selected, mode, touched>>
  BY DEF Accept
<1>2. flight'.name = NoNames /\ flight'.supervisor = None
  BY <1>1 DEF DetermineFlightBasic, BlankFlight
<1>3. HiddenInv'
  BY <1>1, <1>2 DEF SavedInv, HiddenInv, HiddenRole, PlanesDetermined, Determined, Roles, NoNames
<1>4. KeptInv'
  <2>1. (Untouched => KeptForm)'
    BY <1>1 DEF SavedInv, KeptInv, Untouched, KeptForm
  <2> QED
    BY <1>1, <2>1 DEF KeptInv, KeptRole, PlanesDetermined, Determined, Roles
<1> QED
  BY <1>3, <1>4 DEF SavedInv

LEMMA PlanesSaved ==
  ASSUME ShapeInv, WindowInv, SavedInv, DeterminePlanes
  PROVE  SavedInv'
<1>1. PICK p \in PlanesFor(form.plane),
           t \in IF TowplaneActive(form) THEN PlanesFor(form.towplane) ELSE {None} :
        /\ flight' = [flight EXCEPT !.plane = p, !.towplane = t]
        /\ form' = [form EXCEPT !.plane = p,
                      !.towplane = IF TowplaneActive(form) THEN t ELSE @]
  BY DEF DeterminePlanes
<1>2. stage = "planes" /\ stage' = "pilot" /\ UNCHANGED <<row, selected, mode, touched>>
  BY DEF DeterminePlanes
<1>3. Shaped(flight) /\ Shaped(row) /\ FormShaped(form)
  BY DEF ShapeInv
<1>4. /\ \A x \in FlightFields \ {"plane", "towplane"} : flight'[x] = flight[x]
      /\ flight'.plane = p /\ flight'.towplane = t
  BY <1>1, <1>3, FieldFacts DEF Shaped
<1>5. /\ \A x \in FormFields \ {"plane", "towplane"} : form'[x] = form[x]
      /\ form'.plane = p
      /\ form'.towplane = IF TowplaneActive(form) THEN t ELSE form.towplane
  BY <1>1, <1>3, FieldFacts DEF FormShaped
<1>6. TowplaneActive(form') <=> TowplaneActive(form)
  BY <1>5, FormKept
<1>7. /\ p # "unknown" /\ t # "unknown"
      /\ form.plane # "unknown" => p = form.plane
      /\ TowplaneActive(form) /\ form.towplane # "unknown" => t = form.towplane
      /\ ~ TowplaneActive(form) => t = None
  BY <1>1, FormAssumption DEF PlanesFor
<1>8. HiddenInv'
  <2>1. /\ flight'.name = flight.name /\ flight'.supervisor = flight.supervisor
        /\ flight'.type = flight.type
    BY <1>4, FieldFacts
  <2> QED
    BY <1>2, <1>4, <1>6, <1>7, <2>1
       DEF SavedInv, HiddenInv, HiddenRole, Determining, Determined, Roles
<1>9. ASSUME Untouched'
      PROVE  KeptForm' /\ flight'.plane = row'.plane /\ flight'.towplane = row'.towplane
  <2>1. Untouched /\ KeptForm
    BY <1>2, <1>9 DEF Untouched, SavedInv, KeptInv
  <2>2. /\ form.plane = row.plane /\ form.towplane = row.towplane
        /\ form.type = row.type /\ form.mode = row.mode /\ form.method = row.method
    BY <2>1, FieldFacts DEF KeptForm
  <2>3. TowplaneActive(form) <=> TowplaneActive(row)
    BY <2>2, SameShown
  <2>4. p = row.plane /\ t = row.towplane
    BY <1>7, <2>2, <2>3 DEF SavedInv, HiddenInv, NothingHidden
  <2>5. \A x \in FormFields \ {"name"} : form'[x] = form[x]
    BY <1>5, <2>2, <2>4
  <2>6. form'.name = form.name
    BY <1>5, FieldFacts
  <2>7. KeptForm'
    BY <1>2, <2>1, <2>5, <2>6 DEF KeptForm
  <2> QED
    BY <1>2, <1>4, <2>4, <2>7
<1>10. KeptInv'
  BY <1>2, <1>9 DEF KeptInv, KeptRole, Determined, Roles
<1> QED
  BY <1>8, <1>10 DEF SavedInv

LEMMA PersonSaved ==
  ASSUME ShapeInv, WindowInv, SavedInv, NEW role \in Roles, NEW next,
         <<role, next>> \in Turns, DeterminePerson(role, next)
  PROVE  SavedInv'
<1>1. PICK o \in Answers(role) :
        /\ flight' = WithPerson(role, o)
        /\ selected' = [selected EXCEPT ![role] = o.person]
        /\ form' = IF o.person = None THEN form
                   ELSE [form EXCEPT !.name[role] = NameOf(o.person)]
        /\ touched' = (touched \/ (Active(form, role) /\ o.person # selected[role]))
  BY DEF DeterminePerson, Answers
<1>2. stage = role /\ stage' = next /\ UNCHANGED <<row, mode>>
  BY DEF DeterminePerson
<1>3. /\ Shaped(flight) /\ Shaped(row) /\ FormShaped(form)
      /\ DOMAIN selected = Roles /\ people \subseteq Persons
  BY DEF ShapeInv
<1>4. /\ o.person # None => Active(form, role) /\ o.name = NoName
      /\ o.person = None => o.name = IF Active(form, role) THEN form.name[role]
                                     ELSE NoName
  BY <1>3, AnswerFacts
<1>5. /\ \A x \in FlightFields \ {"id", "name", "supervisor"} : flight'[x] = flight[x]
      /\ \A r \in Roles \ {role} : /\ flight'.id[r] = flight.id[r]
                                   /\ flight'.name[r] = flight.name[r]
      /\ Solo(flight, role) \/ flight'.supervisor = flight.supervisor
      /\ IF Solo(flight, role)
         THEN flight'.supervisor = o.person /\ flight'.name[role] = flight.name[role]
         ELSE flight'.id[role] = o.person /\ flight'.name[role] = o.name
  BY <1>1, <1>3, FieldFacts DEF Shaped, WithPerson, Solo
<1>6. /\ \A x \in FormFields \ {"name"} : form'[x] = form[x]
      /\ \A r \in Roles \ {role} : form'.name[r] = form.name[r]
      /\ o.person = None => form'.name[role] = form.name[role]
  BY <1>1, <1>3, FieldFacts DEF FormShaped
<1>7. /\ selected'[role] = o.person
      /\ \A r \in Roles \ {role} : selected'[r] = selected[r]
  BY <1>1, <1>3
<1>8. /\ flight'.type = flight.type /\ flight'.plane = flight.plane
      /\ flight'.towplane = flight.towplane
  BY <1>5, FieldFacts
<1>9. /\ TowplaneActive(form') <=> TowplaneActive(form)
      /\ \A r \in Roles : Active(form', r) <=> Active(form, r)
  BY <1>6, FormKept
<1>10. Determining /\ Determining' /\ ~ Determined(role) /\ Determined(role)'
       /\ (PlanesDetermined /\ PlanesDetermined')
  BY <1>2 DEF Determining, PlanesDetermined, Determined, Turns, Roles
<1>11. \A r \in Roles \ {role} : Determined(r)' <=> Determined(r)
  BY <1>2 DEF Determined, Turns, Roles
<1>12. flight.type = form.type
  BY <1>10 DEF WindowInv, BasicInv, BasicFields, DetermineFlightBasic, BlankFlight
<1>13. flight.name[role] = NoName
  BY <1>10 DEF WindowInv, RoleInv
<1>14. Solo(flight', role) <=> Solo(flight, role)
  BY <1>8 DEF Solo
<1>15. HiddenInv'
  <2>1. IF SupervisorRecorded(flight'.type) THEN flight'.name["copilot"] = NoName
        ELSE flight'.supervisor = None
    BY <1>5, <1>8, <1>10, <1>13 DEF SavedInv, HiddenInv, Solo, Roles
  <2>2. \A r \in Roles \ {role} : HiddenRole(r)'
    BY <1>5, <1>9, <1>11 DEF SavedInv, HiddenInv, HiddenRole
  <2>3. HiddenRole(role)'
    BY <1>4, <1>5, <1>9, <1>13 DEF HiddenRole
  <2> QED
    BY <1>2, <1>8, <1>9, <1>10, <2>1, <2>2, <2>3 DEF SavedInv, HiddenInv
<1>16. ASSUME Untouched'
       PROVE  KeptForm' /\ \A r \in Roles : KeptRole(r)'
  <2>1. /\ Untouched /\ KeptForm
        /\ Active(form, role) => o.person = selected[role]
    BY <1>1, <1>2, <1>10, <1>16 DEF Untouched, SavedInv, KeptInv, Determining
  <2>2. form.type = row.type /\ form.mode = row.mode /\ form.method = row.method
    BY <2>1, FieldFacts DEF KeptForm
  <2>3. \A r \in Roles : Active(form, r) <=> Active(row, r)
    BY <2>2, SameShown
  <2>4. selected[role] = Who(row, role)
    BY <1>3, <2>1, SelectedFacts DEF KeptForm
  <2>5. Solo(row, role) => Active(row, role)
    BY DEF Solo, Active
  <2>6. ~ Active(row, role) => Who(row, role) = None /\ row.name[role] = NoName
    BY <2>5 DEF SavedInv, HiddenInv, NothingHidden, Who
  <2>7. o.person = Who(row, role)
    BY <1>4, <2>1, <2>3, <2>4, <2>6
  <2>8. KeptForm'
    <3>1. SelectedOf(row)' = SelectedOf(row)
      BY <1>2
    <3>2. \A r \in Roles : selected'[r] = SelectedOf(row)[r]
      BY <1>3, <1>7, <2>1, <2>7, SelectedFacts DEF KeptForm
    <3>3. \A r \in Roles : selected'[r] = None => form'.name[r] = row.name[r]
      BY <1>4, <1>6, <1>7, <2>1, <2>3, <2>4, <2>7 DEF KeptForm
    <3>4. \A x \in FormFields \ {"name"} : form'[x] = row[x]
      BY <1>6, <2>1 DEF KeptForm
    <3> QED
      BY <1>2, <3>1, <3>2, <3>3, <3>4 DEF KeptForm
  <2>9. \A r \in Roles \ {role} : KeptRole(r)'
    <3>1. \A r \in Roles \ {role} : Who(flight', r) = Who(flight, r)
      BY <1>5, <1>8 DEF Who, Solo
    <3>2. Who(row', role) = Who(row, role)
      BY <1>2
    <3> QED
      BY <1>2, <1>5, <1>11, <2>1, <3>1 DEF SavedInv, KeptInv, KeptRole
  <2>10. KeptRole(role)'
    <3>1. Who(flight', role) = o.person
      BY <1>5, <1>14 DEF Who
    <3>2. Solo(flight, role) <=> Solo(row, role)
      BY <1>12, <2>2 DEF Solo
    <3>3. CASE Solo(flight, role)
      <4>1. flight'.name[role] = NoName /\ row.name[role] = NoName
        BY <1>5, <1>13, <3>2, <3>3 DEF SavedInv, HiddenInv, NothingHidden, Solo
      <4> QED
        BY <1>2, <2>7, <3>1, <4>1 DEF KeptRole
    <3>4. CASE ~ Solo(flight, role)
      <4>1. flight'.name[role] = o.name
        BY <1>5, <3>4
      <4>2. Who(row, role) # None => row.name[role] = NoName
        BY <3>2, <3>4 DEF Who, SavedInv, HiddenInv, NothingHidden
      <4>3. o.name = row.name[role]
        BY <1>4, <2>1, <2>3, <2>4, <2>6, <2>7, <4>2 DEF KeptForm
      <4> QED
        BY <1>2, <2>7, <3>1, <4>1, <4>3 DEF KeptRole
    <3> QED
      BY <3>3, <3>4
  <2> QED
    BY <2>8, <2>9, <2>10
<1>17. Untouched' => flight'.plane = row'.plane /\ flight'.towplane = row'.towplane
  BY <1>1, <1>2, <1>8, <1>10 DEF Untouched, SavedInv, KeptInv, Determining
<1>18. KeptInv'
  BY <1>16, <1>17 DEF KeptInv
<1> QED
  BY <1>15, <1>18 DEF SavedInv

LEMMA BasicsOfForm ==
  ASSUME WindowInv, stage = "write"
  PROVE  /\ flight.type = form.type /\ flight.mode = form.mode
         /\ flight.from = form.from /\ flight.to = form.to
         /\ flight.landings = form.landings
         /\ flight.method = IF DepartsHere(form.mode) THEN form.method ELSE None
         /\ IF IsAirtow(form) THEN flight.towMode = form.towMode /\ flight.towTo = form.towTo
            ELSE flight.towMode = "local" /\ flight.towTo = ""
         /\ flight.departed = (DepartsHere(form.mode) /\ form.departed)
         /\ flight.landed = (LandsHere(form.mode) /\ form.landed)
         /\ flight.towLanded = (IsAirtow(form) /\ form.towLanded)
<1>1. \A x \in BasicFields : flight[x] = DetermineFlightBasic[x]
  BY DEF WindowInv, BasicInv, Determining
<1>2. /\ flight.departed = DetermineFlightBasic.departed
      /\ flight.landed = DetermineFlightBasic.landed
      /\ flight.towLanded = DetermineFlightBasic.towLanded
  BY <1>1 DEF BasicFields
<1>3. /\ flight.departed = (DepartsHere(form.mode) /\ form.departed)
      /\ flight.landed = (LandsHere(form.mode) /\ form.landed)
      /\ flight.towLanded = (IsAirtow(form) /\ form.towLanded)
  BY <1>2, BasicTimes
<1> QED
  BY <1>1, <1>3 DEF BasicFields, DetermineFlightBasic, BlankFlight

LEMMA WriteSaved ==
  ASSUME ShapeInv, WindowInv, SavedInv, Write
  PROVE  SavedInv'
<1>1. stage = "write" /\ stage' = "closed"
  BY DEF Write
<1>2. /\ \A x \in FlightFields \ {"departed", "landed", "landings", "to"} :
            row'[x] = flight[x]
      /\ now => IF DepartsHere(form.mode) THEN row'.landed = flight.landed
                ELSE row'.departed = flight.departed
      /\ ~ now => row' = flight
  BY WrittenFlight
<1>3. /\ row'.type = flight.type /\ row'.mode = flight.mode /\ row'.method = flight.method
      /\ row'.towMode = flight.towMode /\ row'.towTo = flight.towTo
      /\ row'.towLanded = flight.towLanded /\ row'.plane = flight.plane
      /\ row'.towplane = flight.towplane /\ row'.id = flight.id /\ row'.name = flight.name
      /\ row'.supervisor = flight.supervisor
  BY <1>2, FieldFacts
<1>4. /\ Determining /\ PlanesDetermined /\ \A role \in Roles : Determined(role)
  BY <1>1 DEF Determining, PlanesDetermined, Determined, Roles
<1>5. /\ flight.type = form.type /\ flight.mode = form.mode
      /\ flight.method = IF DepartsHere(form.mode) THEN form.method ELSE None
      /\ ~ DepartsHere(form.mode) => ~ flight.departed
      /\ ~ LandsHere(form.mode) => ~ flight.landed
      /\ ~ IsAirtow(form) => /\ flight.towMode = "local" /\ flight.towTo = ""
                            /\ ~ flight.towLanded
  BY <1>1, BasicsOfForm
<1>6. /\ IsAirtow(row') <=> IsAirtow(form)
      /\ TowplaneActive(row') <=> TowplaneActive(form)
      /\ \A role \in Roles : Active(row', role) <=> Active(form, role)
  BY <1>3, <1>5 DEF IsAirtow, TowplaneActive, Active, Roles
<1>7. ~ DepartsHere(row'.mode) => row'.method = None /\ ~ row'.departed
  <2>1. CASE ~ now
    BY <1>2, <1>3, <1>5, <2>1
  <2>2. CASE now
    BY <1>2, <1>3, <1>5, <2>2
  <2> QED
    BY <2>1, <2>2
<1>8. ~ LandsHere(row'.mode) => ~ row'.landed
  <2>1. CASE ~ now
    BY <1>2, <1>3, <1>5, <2>1
  <2>2. CASE now
    BY <1>2, <1>3, <1>5, <2>2 DEF DepartsHere, LandsHere
  <2> QED
    BY <2>1, <2>2
<1>9. ASSUME NEW role \in Roles
      PROVE  /\ ~ Active(row', role) => row'.id[role] = None
             /\ ~ Active(row', role) \/ row'.id[role] # None => row'.name[role] = NoName
  <2>1. EnteredAs(role) /\ HiddenRole(role)
    BY <1>4 DEF WindowInv, RoleInv, SavedInv, HiddenInv
  <2>2. Solo(flight, role) => Active(form, role)
    BY <1>5 DEF Solo, Active
  <2> QED
    BY <1>3, <1>4, <1>6, <2>1, <2>2 DEF EnteredAs, HiddenRole, Who
<1>10. NothingHidden(row') /\ row'.plane # "unknown" /\ row'.towplane # "unknown"
  BY <1>3, <1>4, <1>5, <1>6, <1>7, <1>8, <1>9 DEF NothingHidden, SavedInv, HiddenInv
<1>11. HiddenInv'
  BY <1>1, <1>10 DEF HiddenInv, HiddenRole, Determining, PlanesDetermined, Determined, Roles
<1>12. KeptInv'
  BY <1>1 DEF KeptInv, Untouched
<1> QED
  BY <1>11, <1>12 DEF SavedInv

\* the list changes people, and touches the window if it is open
LEMMA ListSaved ==
  ASSUME ShapeInv, SavedInv, ListStep, NothingHidden(row'), row'.plane = row.plane,
         row'.towplane = row.towplane
  PROVE  SavedInv'
<1>1. stage' = stage /\ stage \in {"closed", "open"} /\ touched' = (touched \/ stage = "open")
  BY DEF ListStep
<1>2. HiddenInv'
  BY <1>1 DEF SavedInv, HiddenInv, HiddenRole, Determining, PlanesDetermined, Determined, Roles
<1>3. KeptInv'
  BY <1>1 DEF KeptInv, Untouched
<1> QED
  BY <1>2, <1>3 DEF SavedInv

LEMMA MergedHidden ==
  ASSUME NEW f, Shaped(f), NothingHidden(f), NEW wrong, None \notin wrong, NEW correct,
         NEW g, g = [f EXCEPT !.id = Replaced(@, wrong, correct, Roles)]
  PROVE  NothingHidden(g) /\ g.plane = f.plane /\ g.towplane = f.towplane
<1> DEFINE ids == Replaced(f.id, wrong, correct, Roles)
<1>1. \A role \in Roles : ids[role] = f.id[role] \/ f.id[role] \in wrong
  BY DEF Replaced, Shaped
<1> HIDE DEF ids
<1>2. g.id = ids /\ \A x \in FlightFields \ {"id"} : g[x] = f[x]
  BY FieldFacts DEF Shaped, ids
<1>3. /\ g.type = f.type /\ g.mode = f.mode /\ g.method = f.method
      /\ g.departed = f.departed /\ g.landed = f.landed /\ g.towMode = f.towMode
      /\ g.towTo = f.towTo /\ g.towLanded = f.towLanded /\ g.towplane = f.towplane
      /\ g.name = f.name /\ g.supervisor = f.supervisor /\ g.plane = f.plane
  BY <1>2, FieldFacts
<1>4. /\ IsAirtow(g) <=> IsAirtow(f)
      /\ TowplaneActive(g) <=> TowplaneActive(f)
      /\ \A role \in Roles : Active(g, role) <=> Active(f, role)
  BY <1>3, SameShown
<1>5. \A role \in Roles : f.id[role] = None => g.id[role] = None
  BY <1>1, <1>2
<1>6. ASSUME NEW role \in Roles
      PROVE  /\ ~ Active(g, role) => g.id[role] = None
             /\ ~ Active(g, role) \/ g.id[role] # None => g.name[role] = NoName
  BY <1>3, <1>4, <1>5 DEF NothingHidden
<1> QED
  BY <1>3, <1>4, <1>6 DEF NothingHidden

LEMMA SavedPreserved == ShapeInv /\ WindowInv /\ SavedInv /\ [ListNext]_listVars => SavedInv'
<1> SUFFICES ASSUME ShapeInv, WindowInv, SavedInv, [ListNext]_listVars PROVE SavedInv'
  OBVIOUS
<1>1. CASE UNCHANGED listVars
  <2>1. UNCHANGED <<row, mode, stage, form, selected, flight, touched>>
    BY <1>1 DEF listVars, vars, session
  <2>2. HiddenInv'
    BY <2>1 DEF SavedInv, HiddenInv, HiddenRole, Determining, PlanesDetermined, Determined
  <2>3. KeptInv'
    BY <2>1 DEF SavedInv, KeptInv, KeptForm, KeptRole, Untouched, PlanesDetermined, Determined
  <2> QED
    BY <2>2, <2>3 DEF SavedInv
<1>2. CASE FormStep
  <2>1. CASE Edit
    <3>1. /\ UNCHANGED row /\ stage' = "open" /\ touched' = TRUE
      BY <2>1 DEF Edit, EnterName, Set, EnterMode, EnterMethod, EnterTowMode, EnterPlane,
                  EnterTowplane, EnterDeparted, EnterLanded, EnterTowLanded, Change
    <3> QED
      BY <3>1, NotDeterminingSaved DEF Untouched, SavedInv
  <2>2. CASE Close
    BY <2>2, NotDeterminingSaved DEF Close, Untouched, SavedInv
  <2>3. CASE Abort
    <3>1. /\ UNCHANGED <<row, form, selected, mode, touched>>
          /\ stage' = "open" /\ stage # "closed"
      BY <2>3 DEF Abort
    <3>2. (Untouched => KeptForm)'
      BY <3>1 DEF SavedInv, KeptInv, KeptForm, Untouched
    <3> QED
      BY <3>1, <3>2, NotDeterminingSaved DEF SavedInv
  <2> QED
    BY <1>2, <2>1, <2>2, <2>3, OpenSaved, AcceptSaved, PlanesSaved, PersonSaved, WriteSaved
       DEF FormStep, Next, Determine, Turns, Roles
<1>3. CASE Merge
  <2>1. PICK correct, wrong : /\ wrong \subseteq people
                              /\ MergeCanceled(correct, wrong) \/ MergeDone(correct, wrong)
    BY <1>3 DEF Merge
  <2>2. ListStep
    BY <2>1 DEF MergeCanceled, MergeDone
  <2>3. row' = row \/ row' = [row EXCEPT !.id = Replaced(@, wrong, correct, Roles)]
    BY <2>1 DEF MergeCanceled, MergeDone
  <2>4. Shaped(row) /\ NothingHidden(row) /\ None \notin wrong
    BY <2>1, ErrorsAssumption DEF ShapeInv, SavedInv, HiddenInv
  <2>5. CASE row' = row
    BY <2>2, <2>4, <2>5, ListSaved
  <2>6. CASE row' = [row EXCEPT !.id = Replaced(@, wrong, correct, Roles)]
    <3>1. NothingHidden(row') /\ row'.plane = row.plane /\ row'.towplane = row.towplane
      BY <2>4, <2>6, MergedHidden
    <3> QED
      BY <2>2, <3>1, ListSaved
  <2> QED
    BY <2>3, <2>5, <2>6
<1>4. ASSUME NEW p, DeletePerson(p)
      PROVE  SavedInv'
  <2>1. ListStep /\ row' = row /\ NothingHidden(row)
    BY <1>4 DEF DeletePerson, SavedInv, HiddenInv
  <2> QED
    BY <2>1, ListSaved
<1> QED
  BY <1>1, <1>2, <1>3, <1>4 DEF ListNext

LEMMA SavedInitially ==
  ASSUME \A f \in StoredFlights : NothingHidden(f)
  PROVE  ListInit => SavedInv
<1> SUFFICES ASSUME ListInit PROVE SavedInv
  OBVIOUS
<1>1. row \in Flight /\ NothingHidden(row) /\ stage = "closed"
  BY FormAssumption DEF ListInit, Init
<1>2. row.plane # "unknown" /\ row.towplane # "unknown"
  BY <1>1, FormAssumption DEF Flight
<1> QED
  BY <1>1, <1>2 DEF SavedInv, HiddenInv, HiddenRole, KeptInv, Untouched, Determining,
                    PlanesDetermined, Determined, Roles

LEMMA SameRecord ==
  ASSUME NEW f, NEW g, Shaped(f), Shaped(g),
         \A x \in FlightFields \ {"id", "name"} : f[x] = g[x],
         \A role \in Roles : f.name[role] = g.name[role],
         \A role \in Roles \ {"copilot"} : f.id[role] = g.id[role]
  PROVE  f = [g EXCEPT !.id["copilot"] = f.id["copilot"]]
<1> DEFINE h == [g EXCEPT !.id["copilot"] = f.id["copilot"]]
<1>1. f.name = g.name
  BY DEF Shaped
<1>2. h.id = f.id
  BY FieldFacts DEF Shaped, Roles
<1>3. \A x \in FlightFields : h[x] = f[x]
  BY <1>1, <1>2, FieldFacts DEF Shaped
<1>4. h = [x \in FlightFields |-> h[x]] /\ f = [x \in FlightFields |-> f[x]]
  BY DEF Shaped
<1> HIDE DEF h
<1>5. h = f
  BY <1>3, <1>4
<1> QED
  BY <1>5 DEF h

LEMMA SavedStep ==
  ASSUME ShapeInv, ShapeInv', WindowInv, SavedInv, ListNext, Writes, mode = "edit", ~ touched
  PROVE  row' = [row EXCEPT !.id["copilot"] =
                   IF SupervisorRecorded(row.type) THEN row'.id["copilot"] ELSE @]
<1>1. Write /\ stage = "write"
  BY OnlyWriteWrites DEF Write
<1>2. Untouched /\ PlanesDetermined /\ \A role \in Roles : Determined(role)
  BY <1>1 DEF Untouched, PlanesDetermined, Determined, Roles
<1>3. row' = flight
  BY <1>1, WrittenFlight DEF ShapeInv
<1>4. Shaped(row) /\ Shaped(flight)
  BY DEF ShapeInv
<1>5. /\ KeptForm /\ flight.plane = row.plane /\ flight.towplane = row.towplane
      /\ \A role \in Roles : /\ Who(flight, role) = Who(row, role)
                             /\ flight.name[role] = row.name[role]
  BY <1>2 DEF SavedInv, KeptInv, KeptRole
<1>6. /\ form.type = row.type /\ form.mode = row.mode /\ form.method = row.method
      /\ form.from = row.from /\ form.to = row.to /\ form.landings = row.landings
      /\ form.towMode = row.towMode /\ form.towTo = row.towTo
      /\ form.departed = row.departed /\ form.landed = row.landed
      /\ form.towLanded = row.towLanded
  BY <1>5, FieldFacts DEF KeptForm
<1>7. IsAirtow(form) <=> IsAirtow(row)
  BY <1>6, SameShown
<1>8. NothingHidden(row)
  BY DEF SavedInv, HiddenInv
<1>9. flight.departed = row.departed
  BY <1>1, <1>4, <1>6, <1>8, BasicsOfForm DEF NothingHidden, Shaped
<1>10. flight.landed = row.landed
  BY <1>1, <1>4, <1>6, <1>8, BasicsOfForm DEF NothingHidden, Shaped
<1>11. flight.towLanded = row.towLanded
  BY <1>1, <1>4, <1>6, <1>7, <1>8, BasicsOfForm DEF NothingHidden, Shaped
<1>12. flight.method = row.method
  BY <1>1, <1>6, <1>8, BasicsOfForm DEF NothingHidden
<1>13. flight.towMode = row.towMode /\ flight.towTo = row.towTo
  BY <1>1, <1>6, <1>7, <1>8, BasicsOfForm DEF NothingHidden
<1>14. /\ flight.type = row.type /\ flight.mode = row.mode /\ flight.from = row.from
       /\ flight.to = row.to /\ flight.landings = row.landings
  BY <1>1, <1>6, BasicsOfForm
<1>15. flight.supervisor = row.supervisor
  <2>1. CASE SupervisorRecorded(row.type)
    BY <1>5, <1>14, <2>1 DEF Who, Solo, Roles
  <2>2. CASE ~ SupervisorRecorded(row.type)
    BY <1>2, <1>8, <1>14, <2>2
       DEF SavedInv, HiddenInv, NothingHidden, PlanesDetermined, Determining
  <2> QED
    BY <2>1, <2>2
<1>16. \A x \in FlightFields \ {"id", "name"} : flight[x] = row[x]
  BY <1>5, <1>9, <1>10, <1>11, <1>12, <1>13, <1>14, <1>15, FieldFacts
<1>17. /\ \A role \in Roles \ {"copilot"} : flight.id[role] = row.id[role]
       /\ ~ SupervisorRecorded(row.type) => flight.id["copilot"] = row.id["copilot"]
  BY <1>5, <1>14 DEF Who, Solo, Roles
<1>18. flight = [row EXCEPT !.id["copilot"] = flight.id["copilot"]]
  BY <1>4, <1>5, <1>16, <1>17, SameRecord
<1>19. flight.id["copilot"] = IF SupervisorRecorded(row.type) THEN flight.id["copilot"]
                              ELSE row.id["copilot"]
  BY <1>17
<1> QED
  BY <1>3, <1>18, <1>19

(* A flight that is opened and saved without a change is written as it was, *)
(* however the list beside the window changed the people before, provided   *)
(* that the flights in the database at the beginning record nothing that    *)
(* the window does not show: the window itself then never writes any        *)
(* (FlightWindow.cpp: flightToFields, determineFlight).                     *)
THEOREM UnchangedStays ==
  ASSUME \A f \in StoredFlights : NothingHidden(f)
  PROVE  ListSpec => UnchangedIsKept
<1>1. ShapeInv /\ ShapeInv' /\ WindowInv /\ SavedInv /\ [ListNext]_listVars =>
        [Writes /\ mode = "edit" /\ ~ touched =>
           row' = [row EXCEPT !.id["copilot"] =
                     IF SupervisorRecorded(row.type) THEN row'.id["copilot"] ELSE @]]_vars
  BY SavedStep DEF listVars
<1> QED
  BY <1>1, ShapeInitially, ShapePreserved, WindowInitially, WindowPreserved,
     SavedInitially, SavedPreserved, PTL DEF ListSpec, UnchangedIsKept

-----------------------------------------------------------------------------
(* Who is entered is in the database *)

Known(p) == p \in people \cup {None}

\* whom the cache or the window may remember
Remembered(p) == Known(p) \/ p \in overlooked \cup remembered

\* the roles that have been determined are those of people who are known; as
\* long as the window determines them, nobody is deleted
DeterminedInv ==
  /\ Determined("pilot") => Known(flight.id["pilot"])
  /\ Determined("copilot") => \/ SupervisorRecorded(flight.type)
                              \/ Known(flight.id["copilot"])
  /\ Determined("towpilot") => Known(flight.id["towpilot"])
  /\ Determining => Known(flight.supervisor)

\* the copilot of solo training comes from what is remembered
RememberedInv ==
  /\ stage # "closed" => Remembered(selected["copilot"])
  /\ Determining => Remembered(flight.id["copilot"])

\* merging does not touch supervisors, neither in the database nor in the cache
RowInv == /\ Remembered(row.id["copilot"])
          /\ row.supervisor = stored["supervisor"]

UseInv == DeterminedInv /\ RememberedInv /\ RowInv /\ PeopleInUseExist

\* nobody is deleted, and no flight is written
Nothing == /\ people \subseteq people'
           /\ UNCHANGED <<row, stored, overlooked, remembered>>

LEMMA WindowUse ==
  ASSUME UseInv, Nothing, DeterminedInv', RememberedInv'
  PROVE  UseInv'
BY DEF UseInv, Nothing, RowInv, Remembered, Known, PeopleInUseExist

ColumnsInv == DOMAIN stored = Columns

LEMMA ColumnsOfPeople ==
  ASSUME NEW f
  PROVE  /\ \A role \in Roles : PeopleOf(f)[role] = f.id[role]
         /\ PeopleOf(f)["supervisor"] = f.supervisor
         /\ DOMAIN PeopleOf(f) = Columns
BY DEF PeopleOf, Columns, Roles

LEMMA OpenUse ==
  ASSUME ShapeInv, UseInv, Nothing, CreateFlight \/ RepeatFlight \/ EditFlight
  PROVE  UseInv'
<1>1. stage' = "open" /\ (selected' = NoPersons \/ selected' = SelectedOf(row))
  BY DEF CreateFlight, RepeatFlight, EditFlight, Open
<1>2. NoPersons["copilot"] = None
  BY DEF NoPersons, Roles
<1>3. SelectedOf(row)["copilot"] \in {row.supervisor, row.id["copilot"]}
  BY DEF ShapeInv, Shaped, SelectedOf, SelectedCopilot, Roles
<1>4. Remembered(row.supervisor)
  BY DEF UseInv, RowInv, PeopleInUseExist, Remembered, Known
<1>5. Remembered(selected["copilot"])'
  BY <1>1, <1>2, <1>3, <1>4 DEF UseInv, RowInv, Nothing, Remembered, Known
<1>6. DeterminedInv' /\ RememberedInv'
  BY <1>1, <1>5 DEF DeterminedInv, RememberedInv, Determined, Determining
<1> QED
  BY <1>6, WindowUse

LEMMA UniqueKnown ==
  ASSUME NEW last, NEW first
  PROVE  Known(UniquePerson(last, first))
<1> DEFINE matches == {p \in people : LastName[p] = last /\ FirstName[p] = first}
<1>1. CASE Cardinality(matches) = 1
  <2>1. matches # {}
    BY <1>1, FS_EmptySet
  <2>2. (CHOOSE p \in matches : TRUE) \in people
    BY <2>1
  <2> QED
    BY <1>1, <2>2 DEF UniquePerson, Known
<1>2. CASE Cardinality(matches) # 1
  BY <1>2 DEF UniquePerson, Known
<1> QED
  BY <1>1, <1>2

LEMMA EditUse ==
  ASSUME ShapeInv, UseInv, Nothing, Edit
  PROVE  UseInv'
<1>1. stage = "open" /\ UNCHANGED <<stage, people>>
  BY DEF Edit, EnterName, Set, EnterMode, EnterMethod, EnterTowMode, EnterPlane,
         EnterTowplane, EnterDeparted, EnterLanded, EnterTowLanded, Change
<1>2. \/ selected' = selected
      \/ \E role \in Roles : \E last, first :
           selected' = [selected EXCEPT ![role] = UniquePerson(last, first)]
  BY DEF Edit, EnterName, Set, EnterMode, EnterMethod, EnterTowMode, EnterPlane,
         EnterTowplane, EnterDeparted, EnterLanded, EnterTowLanded, Change
<1>3. Remembered(selected'["copilot"])
  BY <1>1, <1>2, UniqueKnown DEF UseInv, RememberedInv, Remembered, ShapeInv, Roles
<1>4. DeterminedInv' /\ RememberedInv'
  BY <1>1, <1>3 DEF DeterminedInv, RememberedInv, Determined, Determining, Nothing,
                    Remembered, Known
<1> QED
  BY <1>4, WindowUse

LEMMA AcceptUse ==
  ASSUME ShapeInv, UseInv, Nothing, Accept
  PROVE  UseInv'
<1>1. /\ stage = "open" /\ stage' = "planes" /\ UNCHANGED <<people, selected>>
      /\ flight' = DetermineFlightBasic
  BY DEF Accept
<1>2. /\ DetermineFlightBasic.supervisor = None
      /\ DetermineFlightBasic.id["copilot"] \in {selected["copilot"], None}
  BY DEF DetermineFlightBasic, BlankFlight, Roles
<1>3. DeterminedInv' /\ RememberedInv'
  BY <1>1, <1>2 DEF UseInv, DeterminedInv, RememberedInv, Determined, Determining,
                    Nothing, Remembered, Known
<1> QED
  BY <1>3, WindowUse

LEMMA PlanesUse ==
  ASSUME ShapeInv, UseInv, Nothing, DeterminePlanes
  PROVE  UseInv'
<1>1. /\ stage = "planes" /\ stage' = "pilot" /\ UNCHANGED <<people, selected>>
      /\ \E p, t : flight' = [flight EXCEPT !.plane = p, !.towplane = t]
  BY DEF DeterminePlanes
<1>2. flight'.supervisor = flight.supervisor /\ flight'.id = flight.id
  BY <1>1, FieldFacts DEF ShapeInv, Shaped
<1>3. DeterminedInv' /\ RememberedInv'
  BY <1>1, <1>2 DEF UseInv, DeterminedInv, RememberedInv, Determined, Determining,
                    Nothing, Remembered, Known
<1> QED
  BY <1>3, WindowUse

LEMMA StopUse ==
  ASSUME UseInv, Nothing, Close \/ Abort
  PROVE  UseInv'
<1>1. /\ stage' \in {"closed", "open"} /\ stage # "closed"
      /\ UNCHANGED <<people, selected>>
  BY DEF Close, Abort
<1>2. DeterminedInv' /\ RememberedInv'
  BY <1>1 DEF UseInv, DeterminedInv, RememberedInv, Determined, Determining, Nothing,
              Remembered, Known
<1> QED
  BY <1>2, WindowUse

LEMMA PersonUse ==
  ASSUME ShapeInv, UseInv, Nothing, NEW role \in Roles, NEW next,
         <<role, next>> \in Turns, DeterminePerson(role, next)
  PROVE  UseInv'
<1>1. PICK o : /\ flight' = WithPerson(role, o)
               /\ people' = people \cup ({o.person} \ {None})
               /\ selected' = [selected EXCEPT ![role] = o.person]
  BY DEF DeterminePerson
<1>2. stage = role /\ stage' = next
  BY DEF DeterminePerson
<1>3. o.person \in people' \cup {None} /\ people \subseteq people'
  BY <1>1
<1>4. Shaped(flight) /\ DeterminedInv /\ RememberedInv /\ DOMAIN selected = Roles
  BY DEF ShapeInv, UseInv
<1>5. /\ flight'.type = flight.type
      /\ \A r \in Roles \ {role} : flight'.id[r] = flight.id[r]
      /\ IF role = "copilot" /\ SupervisorRecorded(flight.type)
         THEN flight'.id = flight.id /\ flight'.supervisor = o.person
         ELSE flight'.id[role] = o.person /\ flight'.supervisor = flight.supervisor
  BY <1>1, <1>4, FieldFacts DEF WithPerson, Shaped, Roles
<1>6. DeterminedInv'
  BY <1>2, <1>3, <1>4, <1>5 DEF DeterminedInv, Determined, Determining, Known, Roles, Turns
<1>7. /\ Remembered(selected["copilot"]) /\ Remembered(flight.id["copilot"])
      /\ selected'["copilot"] \in {selected["copilot"], o.person}
      /\ flight'.id["copilot"] \in {flight.id["copilot"], o.person}
  BY <1>1, <1>2, <1>4, <1>5 DEF RememberedInv, Determining, Roles
<1>8. RememberedInv'
  BY <1>3, <1>7 DEF RememberedInv, Remembered, Known, Nothing
<1> QED
  BY <1>6, <1>8, WindowUse

LEMMA WriteUse ==
  ASSUME ShapeInv, UseInv, Write, stored' = PeopleOf(row'),
         UNCHANGED <<overlooked, remembered>>
  PROVE  UseInv'
<1>1. /\ row'.id = flight.id /\ row'.type = flight.type
      /\ row'.supervisor = flight.supervisor
  BY WrittenFlight, FieldFacts
<1>2. stage = "write" /\ stage' = "closed" /\ UNCHANGED people
  BY DEF Write
<1>3. DeterminedInv' /\ RememberedInv'
  BY <1>2 DEF DeterminedInv, RememberedInv, Determined, Determining
<1>4. /\ \A role \in Roles : stored'[role] = flight.id[role]
      /\ stored'["supervisor"] = flight.supervisor
  BY <1>1, ColumnsOfPeople
<1>5. /\ Known(flight.id["pilot"]) /\ Known(flight.id["towpilot"])
      /\ SupervisorRecorded(flight.type) \/ Known(flight.id["copilot"])
      /\ Known(flight.supervisor) /\ Remembered(flight.id["copilot"])
  BY <1>2 DEF UseInv, DeterminedInv, RememberedInv, Determined, Determining
<1>6. PeopleInUseExist' /\ RowInv'
  BY <1>1, <1>2, <1>4, <1>5 DEF PeopleInUseExist, RowInv, Remembered, Known, Roles
<1> QED
  BY <1>3, <1>6 DEF UseInv

LEMMA FormUse ==
  ASSUME ShapeInv, UseInv, FormStep
  PROVE  UseInv'
<1>1. CASE Write
  BY <1>1, WriteUse DEF Write, FormStep, Writes
<1>2. CASE CreateFlight \/ RepeatFlight \/ EditFlight
  <2>1. Nothing
    BY <1>2 DEF CreateFlight, RepeatFlight, EditFlight, Open, FormStep, Writes, Nothing
  <2> QED
    BY <1>2, <2>1, OpenUse
<1>3. CASE Edit
  <2>1. Nothing
    BY <1>3 DEF Edit, EnterName, Set, EnterMode, EnterMethod, EnterTowMode, EnterPlane,
                EnterTowplane, EnterDeparted, EnterLanded, EnterTowLanded, Change,
                FormStep, Writes, Nothing
  <2> QED
    BY <1>3, <2>1, EditUse
<1>4. CASE Close \/ Accept \/ Abort \/ DeterminePlanes
  <2>1. Nothing
    BY <1>4 DEF Close, Accept, Abort, DeterminePlanes, FormStep, Writes, Nothing
  <2> QED
    BY <1>4, <2>1, StopUse, AcceptUse, PlanesUse
<1>5. ASSUME NEW role \in Roles, NEW next, <<role, next>> \in Turns,
             DeterminePerson(role, next)
      PROVE  UseInv'
  <2>1. Nothing
    BY <1>5 DEF FormStep, Writes, DeterminePerson, Turns, Nothing
  <2> QED
    BY <1>5, <2>1, PersonUse
<1> QED
  BY <1>1, <1>2, <1>3, <1>4, <1>5 DEF FormStep, Next, Determine, Turns, Roles

\* people who are no pilot, copilot or towpilot are deleted
LEMMA ListUse ==
  ASSUME UseInv, ListStep, row'.type = row.type, row'.supervisor = row.supervisor,
         NEW persons, \A p \in persons : ~ Used(stored', p), Delete(persons),
         \A role \in Roles : Known(stored[role]) => Known(stored'[role]),
         Remembered(stored["copilot"]) => Remembered(stored'["copilot"]),
         Remembered(row.id["copilot"]) => Remembered(row'.id["copilot"]),
         stored'["supervisor"] = stored["supervisor"]
  PROVE  UseInv'
<1>1. stage' = stage /\ stage \in {"closed", "open"} /\ selected' = selected
  BY DEF ListStep
<1>2. /\ people \ persons \subseteq people'
      /\ overlooked \subseteq overlooked' /\ remembered \subseteq remembered'
  BY DEF Delete
<1>3. \A role \in Roles : stored'[role] \notin persons
  BY DEF Used
<1>4. \A role \in Roles : Known(stored[role]) => Known(stored[role])'
  BY <1>2, <1>3 DEF Known
<1>5. Remembered(stored["copilot"]) => Remembered(stored["copilot"])'
  BY <1>2, <1>3 DEF Known, Remembered, Roles
<1>6. Remembered(row.id["copilot"])'
  <2>1. Remembered(row'.id["copilot"])
    BY DEF UseInv, RowInv
  <2>2. row'.id["copilot"] \in persons => row'.id["copilot"] \in remembered'
    BY DEF Delete
  <2> QED
    BY <1>2, <2>1, <2>2 DEF Known, Remembered
<1>7. stored["supervisor"] \in persons => stored["supervisor"] \in overlooked'
  BY DEF Delete
<1>8. stage = "open" /\ selected["copilot"] \in persons =>
        selected["copilot"] \in remembered'
  BY DEF Delete
<1>9. DeterminedInv' /\ RememberedInv'
  BY <1>1, <1>2, <1>8 DEF UseInv, DeterminedInv, RememberedInv, Determined, Determining,
                          Remembered, Known
<1>10. RowInv' /\ PeopleInUseExist'
  BY <1>2, <1>4, <1>5, <1>6, <1>7 DEF UseInv, RowInv, PeopleInUseExist, Remembered, Known,
                                      Roles
<1> QED
  BY <1>9, <1>10 DEF UseInv

LEMMA MergeUse ==
  ASSUME ShapeInv, UseInv, ColumnsInv, NEW correct \in people,
         NEW wrong \in SUBSET (people \ {correct}),
         MergeCanceled(correct, wrong) \/ MergeDone(correct, wrong)
  PROVE  UseInv'
<1>1. ListStep
  BY DEF MergeCanceled, MergeDone
<1>2. \E columns \in SUBSET Roles : stored' = Replaced(stored, wrong, correct, columns)
  BY DEF MergeCanceled, MergeDone, FirstColumns, LastColumns, UpdateOrder, Roles
<1>3. /\ \A role \in Roles : stored'[role] \in {stored[role], correct}
      /\ stored'["supervisor"] = stored["supervisor"]
  BY <1>2 DEF Replaced, ColumnsInv, Columns, Roles
<1>4. row' = row \/ row' = [row EXCEPT !.id = Replaced(@, wrong, correct, Roles)]
  BY DEF MergeCanceled, MergeDone
<1>5. row'.type = row.type /\ row'.supervisor = row.supervisor
  BY <1>4, FieldFacts DEF ShapeInv, Shaped
<1>6. row'.id["copilot"] \in {row.id["copilot"], correct}
  BY <1>4, FieldFacts DEF ShapeInv, Shaped, Replaced, Roles
<1>7. /\ \A role \in Roles : Known(stored[role]) => Known(stored'[role])
      /\ Remembered(stored["copilot"]) => Remembered(stored'["copilot"])
      /\ Remembered(row.id["copilot"]) => Remembered(row'.id["copilot"])
  BY <1>3, <1>6 DEF Known, Remembered, Roles
<1>8. CASE UNCHANGED <<people, deleted, overlooked, remembered>>
  <2>1. Delete({})
    BY <1>8 DEF Delete
  <2> QED
    BY <1>1, <1>3, <1>5, <1>7, <2>1, ListUse
<1>9. CASE Delete({p \in wrong : ~ Used(stored', p)})
  BY <1>1, <1>3, <1>5, <1>7, <1>9, ListUse
<1> QED
  BY <1>8, <1>9 DEF MergeCanceled, MergeDone

LEMMA DeleteUse ==
  ASSUME UseInv, NEW p \in Persons, DeletePerson(p)
  PROVE  UseInv'
<1>1. /\ ListStep /\ ~ Used(stored', p) /\ Delete({p})
      /\ UNCHANGED <<row, stored>>
  BY DEF DeletePerson
<1> QED
  BY <1>1, ListUse

LEMMA ColumnsStay == ColumnsInv /\ [ListNext]_listVars => ColumnsInv'
BY ColumnsOfPeople DEF ColumnsInv, ListNext, FormStep, Merge, MergeCanceled, MergeDone, Replaced,
                       DeletePerson, listVars, list

LEMMA UseInitially == ListInit => UseInv /\ ColumnsInv
<1> SUFFICES ASSUME ListInit PROVE UseInv /\ ColumnsInv
  OBVIOUS
<1>1. /\ row \in StoredFlights /\ people = KnownPeople /\ stage = "closed"
      /\ stored = PeopleOf(row)
  BY DEF ListInit, Init
<1>2. DeterminedInv /\ RememberedInv
  BY <1>1 DEF DeterminedInv, RememberedInv, Determined, Determining
<1>3. /\ \A role \in Roles : Known(stored[role]) /\ stored[role] = row.id[role]
      /\ Known(stored["supervisor"]) /\ stored["supervisor"] = row.supervisor
  BY <1>1, ListAssumption, ColumnsOfPeople DEF Known
<1>4. RowInv /\ PeopleInUseExist
  BY <1>3 DEF RowInv, PeopleInUseExist, Remembered, Known, Roles
<1> QED
  BY <1>1, <1>2, <1>4, ColumnsOfPeople DEF UseInv, ColumnsInv

LEMMA UsePreserved ==
  ShapeInv /\ ColumnsInv /\ UseInv /\ [ListNext]_listVars => UseInv'
<1> SUFFICES ASSUME ShapeInv, ColumnsInv, UseInv, [ListNext]_listVars
             PROVE  UseInv'
  OBVIOUS
<1>1. CASE UNCHANGED listVars
  BY <1>1 DEF listVars, list, vars, session, UseInv, DeterminedInv, RememberedInv, RowInv,
              Determined, Determining, PeopleInUseExist, Remembered, Known
<1>2. CASE Merge
  BY <1>2, MergeUse DEF Merge
<1> QED
  BY <1>1, <1>2, FormUse, DeleteUse DEF ListNext

(* Whoever is entered in a flight in the database is in the database,       *)
(* however many people are deleted and merged beside the window, and        *)
(* wherever a merge is canceled or loses its connection (DbManager.cpp:     *)
(* mergePeople; ObjectListWindow.cpp: checkAndDelete): with two exceptions, *)
(* both of them defects of the code.  Who was deleted while the supervisor  *)
(* stays the supervisor, and the copilot of solo training may be who was    *)
(* deleted while the cache or the window remembered them.                   *)
THEOREM PeopleStay == ListSpec => []PeopleInUseExist
<1>1. UseInv => PeopleInUseExist
  BY DEF UseInv
<1> QED
  BY <1>1, ShapeInitially, ShapePreserved, UseInitially, UsePreserved, ColumnsStay, PTL
     DEF ListSpec
=============================================================================
