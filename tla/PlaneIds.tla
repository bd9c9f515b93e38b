------------------------------ MODULE PlaneIds ------------------------------
(***************************************************************************)
(* Planes and their Flarm ids: the list of planes with its editor, the     *)
(* check for conflicting ids (FlarmIdCheck), the plane lookup with         *)
(* FlarmNet, the identification of a flight's plane and the update of its  *)
(* Flarm id (PlaneIdentification, FlarmIdUpdate), on their own and within  *)
(* the flight window, on the hashes that the cache keeps of planes.        *)
(*                                                                         *)
(* Every dialog keeps the user from all other windows, so at most one is   *)
(* on top.  A write is done, with the event that the cache applies, or     *)
(* canceled without effect; FlightCache has the cases in between.  All     *)
(* flights are of today and were created automatically; a plane keeps the  *)
(* registration that it was created with.                                  *)
(***************************************************************************)
EXTENDS Naturals, Sequences

CONSTANTS
  MaxPlanes,       \* bound on the ids that the database gives to planes
  Registrations,
  FlarmIds,
  Blank,           \* no registration, no Flarm id
  Flights, FlarmOf,
  PlanesBefore,    \* the planes that flights may have in the beginning
  Stored,          \* the planes in the beginning, by id
  FlarmNetFile,    \* the registrations of the FlarmNet records, by Flarm id
  MaxSelected,     \* bound on the planes selected in the list
  MaxOperations    \* bound on what the user starts

Nobody == 0        \* invalidId
Ids    == 1 .. MaxPlanes
Copies == [id : Ids \cup {Nobody}, registration : Registrations \cup {Blank},
           flarmId : FlarmIds \cup {Blank}]

ASSUME PlaneAssumption ==
  /\ MaxPlanes \in Nat
  /\ Blank \notin FlarmIds \cup Registrations \cup Flights
  /\ FlarmOf \in [Flights -> FlarmIds]
  /\ FlarmNetFile \in [FlarmIds -> Registrations \cup {Blank}]
  /\ PlanesBefore \subseteq {Nobody} \cup DOMAIN Stored
  /\ Stored \in Seq(Copies) /\ Len(Stored) <= MaxPlanes
  /\ \A id \in DOMAIN Stored : Stored[id].id = id
  /\ \A id, other \in DOMAIN Stored :
       Stored[id].flarmId = Stored[other].flarmId /\ id # other
       => Stored[id].flarmId = Blank

VARIABLES
  cache,       \* the planes as the cache holds them, and its hashes
  nextId,      \* AUTO_INCREMENT of the table
  flarmNet,    \* the FlarmNet records
  planeOf,     \* the planes of the flights
  selection,   \* copies of the planes that are to be edited after this one
  dialog,      \* what is on top
  form,        \* the flight window
  operations,  \* started by the user so far
  excused      \* whether two planes may have the same Flarm id

vars == <<cache, nextId, flarmNet, planeOf, selection, dialog, form,
          operations, excused>>

NoPlane  == [id |-> Nobody, registration |-> Blank, flarmId |-> Blank]
NoDialog == [at |-> "none"]
\* asked: what the dialogs were opened for.  plane: the copy that they started
\* from; edited: the one about to be written, other: the plane it conflicts with
Asked  == {"list", "identify", "update", "opening", "plane", "towplane", "saving"}
Dialog == [at : {"editor", "conflict", "query", "use", "create"}, asked : Asked,
           flight : Flights \cup {Blank}, plane : Copies, edited : Copies,
           other : Ids \cup {Nobody}]
Form   == [at : {"closed", "opening", "open", "towplane", "saving"},
           flight : Flights \cup {Blank}, original : Ids \cup {Nobody},
           plane : Ids \cup {Nobody}, refused : BOOLEAN]
NoForm == [at |-> "closed", flight |-> Blank, original |-> Nobody,
           plane |-> Nobody, refused |-> FALSE]

Planes == cache.planes
Known  == DOMAIN Planes

TypeOK ==
  /\ Known \subseteq 1 .. nextId - 1 /\ nextId \in 1 .. MaxPlanes + 1
  /\ \A id \in Known : Planes[id] \in Copies /\ Planes[id].id = id
  /\ cache.byRegistration \subseteq (Registrations \cup {Blank}) \X Ids
  /\ cache.byFlarmId \subseteq (FlarmIds \cup {Blank}) \X Ids
  /\ cache.byUsage \subseteq Copies
  /\ flarmNet \in [FlarmIds -> Registrations \cup {Blank}]
  /\ planeOf \in [Flights -> Ids \cup {Nobody}]
  /\ \A i \in DOMAIN selection : selection[i] \in Copies
  /\ dialog \in {NoDialog} \cup Dialog
  /\ form \in Form
  /\ operations \in 0 .. MaxOperations
  /\ excused \in BOOLEAN

-----------------------------------------------------------------------------
(* The cache *)

Added(c, plane) ==
  [planes         |-> [id \in {plane.id} \cup DOMAIN c.planes |->
                         IF id = plane.id THEN plane ELSE c.planes[id]],
   byRegistration |-> c.byRegistration \cup {<<plane.registration, plane.id>>},
   byFlarmId      |-> c.byFlarmId \cup {<<plane.flarmId, plane.id>>},
   byUsage        |-> c.byUsage \cup {plane}]

\* (mutated: the hash of Flarm ids keeps the old one)
DeletedButFlarmId(c, id) ==
  [planes         |-> [other \in DOMAIN c.planes \ {id} |-> c.planes[other]],
   byRegistration |-> c.byRegistration \ {<<c.planes[id].registration, id>>},
   byFlarmId      |-> c.byFlarmId,
   byUsage        |-> {p \in c.byUsage : p.id # id}]

Deleted(c, id) ==
  [planes         |-> [other \in DOMAIN c.planes \ {id} |-> c.planes[other]],
   byRegistration |-> c.byRegistration \ {<<c.planes[id].registration, id>>},
   byFlarmId      |-> c.byFlarmId \ {<<c.planes[id].flarmId, id>>},
   byUsage        |-> {p \in c.byUsage : p.id # id}]

Updated(c, plane) == Added(Deleted(c, plane.id), plane)

\* refreshPlanes
Refreshed(planes) ==
  [planes         |-> planes,
   byRegistration |-> {<<planes[id].registration, id>> : id \in DOMAIN planes},
   byFlarmId      |-> {<<planes[id].flarmId, id>> : id \in DOMAIN planes},
   byUsage        |-> {planes[id] : id \in DOMAIN planes}]

\* getPlaneIdByRegistration, getPlaneIdsByFlarmId: any of several
IdsByRegistration(r) == {id \in Ids : <<r, id>> \in cache.byRegistration}
IdsByFlarmId(c, flarmId) == {id \in Ids : <<flarmId, id>> \in c.byFlarmId}

Init ==
  /\ cache = Refreshed(Stored)
  /\ nextId = Len(Stored) + 1
  /\ flarmNet = FlarmNetFile
  /\ planeOf \in [Flights -> PlanesBefore]
  /\ selection = <<>> /\ dialog = NoDialog /\ form = NoForm
  /\ operations = 0 /\ excused = FALSE

\* (mutated: FlarmNet is asked first)
FlarmNetFirst(c, flarmId) ==
  LET registered == {id \in Ids : <<flarmNet[flarmId], id>> \in c.byRegistration}
      unless     == {id \in registered : c.planes[id].flarmId \in {Blank, flarmId}}
  IN  IF unless # {}
      THEN {[plane |-> id, registration |-> flarmNet[flarmId]] : id \in unless}
      ELSE {[plane |-> id, registration |-> Blank] : id \in IdsByFlarmId(c, flarmId)}

\* what lookupPlane may find: a plane, or the registration FlarmNet knows
Lookup(c, flarmId) ==
  LET r == flarmNet[flarmId]
      registered == {id \in Ids : <<r, id>> \in c.byRegistration}
  IN  IF IdsByFlarmId(c, flarmId) # {}
      THEN {[plane |-> id, registration |-> Blank] :
              id \in IdsByFlarmId(c, flarmId)}
      ELSE IF r = Blank
      THEN {}
      ELSE IF registered = {}
      THEN {[plane |-> Nobody, registration |-> r]}
      ELSE {[plane |-> id, registration |-> r] :
              id \in {i \in registered : c.planes[i].flarmId \in {Blank, flarmId}}}

-----------------------------------------------------------------------------
(* Conflicts of Flarm ids *)

\* (mutated: the planes that are being created are not checked)
ConflictingOfKnown(flarmId, id) ==
  IF flarmId = Blank \/ id = Nobody THEN {} ELSE IdsByFlarmId(cache, flarmId) \ {id}

\* findConflictingPlane
Conflicting(flarmId, id) ==
  IF flarmId = Blank THEN {} ELSE IdsByFlarmId(cache, flarmId) \ {id}

\* getPossibleResolutions
Resolutions(old, new) ==
  IF new = old
  THEN {"clear", "ignore"}
  ELSE {"clear", "keep", "ignore"} \cup IF old = Blank THEN {} ELSE {"swap"}

\* interactiveApply: the Flarm ids of this plane and of the other one
OwnId(resolution, old, new) == IF resolution = "keep" THEN old ELSE new
OtherId(resolution, old, new) == IF resolution = "clear" THEN Blank ELSE old

\* the cache after the other plane has been updated
OtherUpdated(c, d, resolution) ==
  IF resolution \in {"clear", "swap"}
  THEN Updated(c, [c.planes[d.other] EXCEPT
                     !.flarmId = OtherId(resolution, d.plane.flarmId,
                                         d.edited.flarmId)])
  ELSE c

\* What may leave two planes with one Flarm id: the user ignores the conflict,
\* or gives the other plane an id that this one no longer has, or still has
\* because the second of the two writes was canceled.
Stale(d)  == d.plane.id # Nobody /\ Planes[d.plane.id].flarmId # d.plane.flarmId
Excuse(d, resolution) ==
  \/ resolution = "ignore"
  \/ resolution = "swap"
     /\ (Stale(d) \/ cache'.planes[d.plane.id].flarmId # d.edited.flarmId)
  \/ resolution = "keep" /\ Stale(d)

-----------------------------------------------------------------------------
(* What the dialogs lead to *)

Open(at, asked, flight, plane) ==
  [at |-> at, asked |-> asked, flight |-> flight, plane |-> plane,
   edited |-> NoPlane, other |-> Nobody]

\* an editor or a question has ended with a plane, or without
Return(d, id) ==
  /\ IF d.asked = "list" /\ id # Nobody /\ selection # <<>>
     THEN /\ dialog' = Open("editor", "list", Blank, Head(selection))
          /\ selection' = Tail(selection)
     ELSE dialog' = NoDialog /\ selection' = <<>>
  /\ \/ d.asked = "identify" /\ id # Nobody
        /\ planeOf' = [planeOf EXCEPT ![d.flight] = id]
     \/ UNCHANGED planeOf       \* also where the write is canceled
  /\ form' = IF d.asked \in {"list", "identify"} THEN form
              ELSE IF d.asked = "opening" \/ id = Nobody
              THEN [form EXCEPT !.at = "open"]
              ELSE IF d.asked = "plane"
              THEN [form EXCEPT !.at = "towplane", !.plane = id]
              ELSE [form EXCEPT !.at = "saving"]

\* interactiveUpdateFlarmId has returned: the window writes the flight
Finish(asked, ok, refused) ==
  /\ dialog' = NoDialog /\ UNCHANGED selection
  /\ \/ /\ asked = "saving" /\ ok
        /\ planeOf' = [planeOf EXCEPT ![form.flight] = form.plane]
        /\ form' = [NoForm EXCEPT !.refused = refused]
     \/ /\ asked = "saving"
        /\ form' = [form EXCEPT !.at = "open"] /\ UNCHANGED planeOf
     \/ asked = "update" /\ UNCHANGED <<form, planeOf>>

\* writeToDatabase, on top of what has been written of another plane
Write(d, c, plane) ==
  \/ /\ plane.id # Nobody
     /\ cache' = Updated(c, plane) /\ UNCHANGED nextId /\ Return(d, plane.id)
  \/ /\ plane.id = Nobody /\ nextId <= MaxPlanes
     /\ cache' = Added(c, [plane EXCEPT !.id = nextId])
     /\ nextId' = nextId + 1 /\ Return(d, nextId)

Unwritten(d, c) ==
  /\ cache' = c /\ dialog' = Open("editor", d.asked, d.flight, d.plane)
  /\ UNCHANGED <<nextId, selection, form, planeOf>>

\* checkAndUpdate, from a copy of the plane
UpdatePlane(asked, c, plane, flarmId) ==
  \/ /\ cache' = IF flarmId = plane.flarmId THEN c
                 ELSE Updated(c, [plane EXCEPT !.flarmId = flarmId])
     /\ Finish(asked, TRUE, flarmId = plane.flarmId)
  \/ /\ flarmId # plane.flarmId /\ cache' = c
     /\ Finish(asked, FALSE, FALSE)

-----------------------------------------------------------------------------
(* The editor of a plane, and the choice it may have to ask for *)

Locked == {"identify", "opening", "plane", "towplane"}

\* fieldsToObject, on_buttonBox_accepted
EditorOk ==
  /\ dialog.at = "editor"
  /\ \E r \in Registrations, flarmId \in FlarmIds \cup {Blank} :
       LET edited == [dialog.plane EXCEPT !.registration = r, !.flarmId = flarmId]
           others == Conflicting(flarmId, edited.id)
       IN  /\ dialog.asked \in {"plane", "towplane"} => r = dialog.plane.registration
           /\ dialog.asked \in Locked => flarmId = dialog.plane.flarmId
           /\ IF edited.id = Nobody
              THEN IdsByRegistration(r) = {}
              ELSE r = dialog.plane.registration
           /\ \/ /\ others = {}
                 /\ Write(dialog, cache, edited) \/ Unwritten(dialog, cache)
              \/ \E other \in others :
                   /\ dialog' = [dialog EXCEPT !.at = "conflict",
                                              !.edited = edited, !.other = other]
                   /\ UNCHANGED <<cache, nextId, selection, form, planeOf>>
  /\ UNCHANGED <<flarmNet, operations, excused>>

EditorCancel ==
  /\ dialog.at = "editor" /\ Return(dialog, Nobody)
  /\ UNCHANGED <<cache, nextId, flarmNet, operations, excused>>

\* showChoiceDialog, interactiveApply
Resolve ==
  /\ dialog.at = "conflict"
  /\ \E resolution \in Resolutions(dialog.plane.flarmId, dialog.edited.flarmId) :
       LET c   == OtherUpdated(cache, dialog, resolution)
           own == OwnId(resolution, dialog.plane.flarmId, dialog.edited.flarmId)
       IN  /\ IF dialog.asked \in {"update", "saving"}
              THEN /\ UpdatePlane(dialog.asked, c, dialog.plane, own)
                   /\ UNCHANGED nextId
              ELSE \/ Write(dialog, c, [dialog.edited EXCEPT !.flarmId = own])
                   \/ Unwritten(dialog, c)
           /\ excused' = (excused \/ Excuse(dialog, resolution))
  /\ UNCHANGED <<flarmNet, operations>>

\* the choice or the first of the writes is canceled
ResolveCancel ==
  /\ dialog.at = "conflict"
  /\ IF dialog.asked \in {"update", "saving"}
     THEN Finish(dialog.asked, FALSE, FALSE) /\ UNCHANGED <<cache, nextId>>
     ELSE Unwritten(dialog, cache)
  /\ UNCHANGED <<flarmNet, operations, excused>>

-----------------------------------------------------------------------------
(* FlarmIdUpdate and PlaneIdentification *)

\* canUpdateSilently
Silently(plane, flight, original, manual) ==
  /\ ~ manual /\ original = Nobody /\ plane.flarmId = Blank
  /\ IdsByFlarmId(cache, FlarmOf[flight]) = {}

\* checkAndUpdate
CheckAndUpdate(asked, flight, plane) ==
  LET new    == FlarmOf[flight]
      others == Conflicting(new, plane.id)
  IN  \/ others = {} /\ UpdatePlane(asked, cache, plane, new)
      \/ \E other \in others :
           /\ dialog' = [Open("conflict", asked, flight, plane) EXCEPT
                          !.edited = [plane EXCEPT !.flarmId = new],
                          !.other = other]
           /\ UNCHANGED <<cache, selection, form, planeOf>>

\* interactiveUpdateFlarmId; asked is "update" for the manual operation
UpdateFlarmId(asked, flight, id, original) ==
  IF id \notin Known
  THEN Finish(asked, TRUE, TRUE) /\ UNCHANGED cache
  ELSE LET plane == Planes[id] IN
       IF plane.flarmId = FlarmOf[flight]
       THEN Finish(asked, TRUE, FALSE) /\ UNCHANGED cache
       ELSE IF Silently(plane, flight, original, asked = "update")
       THEN CheckAndUpdate(asked, flight, plane)
       ELSE /\ dialog' = Open("query", asked, flight, plane)
            /\ UNCHANGED <<cache, selection, form, planeOf>>

AnswerUpdate ==
  /\ dialog.at = "query"
  /\ \/ CheckAndUpdate(dialog.asked, dialog.flight, dialog.plane)
     \/ Finish(dialog.asked, TRUE, TRUE) /\ UNCHANGED cache            \* No
     \/ /\ dialog.asked = "saving" /\ Finish("saving", FALSE, FALSE) \* Cancel
        /\ UNCHANGED cache
  /\ UNCHANGED <<nextId, flarmNet, operations, excused>>

\* interactiveIdentifyPlane: the question it comes to, if any
Questions(asked, flight) ==
  {IF found.plane = Nobody
   THEN Open("create", asked, flight,
             [id |-> Nobody, registration |-> found.registration,
              flarmId |-> FlarmOf[flight]])
   ELSE Open("use", asked, flight, Planes[found.plane]) :
     found \in {r \in Lookup(cache, FlarmOf[flight]) :
                 r.plane = Nobody \/ r.plane # planeOf[flight]}}

AnswerIdentify ==
  /\ \/ dialog.at = "use" /\ Return(dialog, dialog.plane.id)
     \/ /\ dialog.at = "create" /\ dialog' = [dialog EXCEPT !.at = "editor"]
        /\ UNCHANGED <<selection, form, planeOf>>
     \/ dialog.at \in {"use", "create"} /\ Return(dialog, Nobody)
  /\ UNCHANGED <<cache, nextId, flarmNet, operations, excused>>

-----------------------------------------------------------------------------
(* What the user starts *)

Idle == dialog = NoDialog /\ form.at \in {"closed", "open"}
Starts == /\ Idle /\ operations < MaxOperations /\ operations' = operations + 1
          /\ UNCHANGED excused

NewPlane ==
  /\ Starts /\ dialog' = Open("editor", "list", Blank, NoPlane)
  /\ UNCHANGED <<cache, nextId, flarmNet, planeOf, selection, form>>

\* on_actionEdit_triggered: copies of all selected planes are made at once
EditPlanes ==
  /\ Starts
  /\ \E n \in 1 .. MaxSelected : \E ids \in [1 .. n -> Known] :
       /\ \A i, j \in 1 .. n : ids[i] = ids[j] => i = j
       /\ dialog' = Open("editor", "list", Blank, Planes[ids[1]])
       /\ selection' = [i \in 1 .. n - 1 |-> Planes[ids[i + 1]]]
  /\ UNCHANGED <<cache, nextId, flarmNet, planeOf, form>>

DeletePlane ==
  /\ Starts
  /\ \E id \in Known : /\ \A flight \in Flights : planeOf[flight] # id
                       /\ cache' = Deleted(cache, id)
  /\ UNCHANGED <<nextId, flarmNet, planeOf, selection, dialog, form>>

\* interactiveImport: creating the records may be canceled
ImportFlarmNet ==
  /\ Starts /\ flarmNet' \in {FlarmNetFile, [flarmId \in FlarmIds |-> Blank]}
  /\ UNCHANGED <<cache, nextId, planeOf, selection, dialog, form>>

\* on_identifyPlaneAction_triggered
IdentifyPlane ==
  /\ Starts
  /\ \E flight \in Flights : dialog' \in Questions("identify", flight)
  /\ UNCHANGED <<cache, nextId, flarmNet, planeOf, selection, form>>

\* on_updateFlarmIdAction_triggered
UpdateThisFlarmId ==
  /\ Starts
  /\ \E flight \in Flights :
       planeOf[flight] # Nobody
       /\ UpdateFlarmId("update", flight, planeOf[flight], planeOf[flight])
  /\ UNCHANGED <<nextId, flarmNet>>

-----------------------------------------------------------------------------
(* The flight window *)

\* editFlight, identifyPlane
OpenForm ==
  /\ Starts /\ form.at = "closed"
  /\ \E flight \in Flights :
       LET questions == IF planeOf[flight] = Nobody
                        THEN Questions("opening", flight) ELSE {}
           opened == [NoForm EXCEPT !.flight = flight, !.original = planeOf[flight]]
       IN  IF questions = {}
           THEN form' = [opened EXCEPT !.at = "open"] /\ UNCHANGED dialog
           ELSE form' = [opened EXCEPT !.at = "opening"] /\ dialog' \in questions
  /\ UNCHANGED <<cache, nextId, flarmNet, planeOf, selection>>

CloseForm ==
  /\ Idle /\ form.at = "open" /\ form' = NoForm
  /\ UNCHANGED <<cache, nextId, flarmNet, planeOf, selection, dialog, operations,
                 excused>>

\* determinePlane: a plane that is not known is offered to be created, with
\* the Flarm id of the flight whichever of its planes it is
Determine(asked, found) ==
  \E r \in Registrations :
    \/ \E id \in IdsByRegistration(r) : form' = found[id] /\ UNCHANGED dialog
    \/ /\ IdsByRegistration(r) = {} /\ UNCHANGED form
       /\ dialog' = Open("editor", asked, form.flight,
                         [id |-> Nobody, registration |-> r,
                          flarmId |-> FlarmOf[form.flight]])

FormOk ==
  /\ Idle /\ form.at = "open"
  /\ \/ Determine("plane", [id \in Ids |->
          [form EXCEPT !.at = "towplane", !.plane = id]])
     \/ form' = [form EXCEPT !.at = "towplane", !.plane = Nobody]
        /\ UNCHANGED dialog
  /\ UNCHANGED <<cache, nextId, flarmNet, planeOf, selection, operations, excused>>

FormTowplane ==
  /\ dialog = NoDialog /\ form.at = "towplane"
  /\ \/ Determine("towplane", [id \in Ids |-> [form EXCEPT !.at = "saving"]])
     \/ form' = [form EXCEPT !.at = "saving"] /\ UNCHANGED dialog
  /\ UNCHANGED <<cache, nextId, flarmNet, planeOf, selection, operations, excused>>

FormSave ==
  /\ dialog = NoDialog /\ form.at = "saving"
  /\ UpdateFlarmId("saving", form.flight, form.plane, form.original)
  /\ UNCHANGED <<nextId, flarmNet, operations, excused>>

-----------------------------------------------------------------------------
Next ==
  \/ EditorOk \/ EditorCancel \/ Resolve \/ ResolveCancel
  \/ AnswerUpdate \/ AnswerIdentify
  \/ NewPlane \/ EditPlanes \/ DeletePlane \/ ImportFlarmNet
  \/ IdentifyPlane \/ UpdateThisFlarmId
  \/ OpenForm \/ CloseForm \/ FormOk \/ FormTowplane \/ FormSave

Spec == Init /\ [][Next]_vars

\* The hashes find each plane of the cache by its registration and its Flarm
\* id, and nothing else, and the wizard offers every plane once, as it is.
\* (Cache_hashUpdates.cpp)
HashesAgree == cache = Refreshed(Planes)

\* No Flarm id belongs to two planes, unless the user chose to ignore that, or
\* canceled half of an exchange, or edited a plane from a copy that an earlier
\* exchange had put out of date.  (FlarmIdCheck)
IdsAreUnique ==
  excused \/ \A id, other \in Known :
    Planes[id].flarmId = Planes[other].flarmId /\ id # other
    => Planes[id].flarmId = Blank

\* Flarm finds the plane of a flight that has been saved in the window, if the
\* user did not refuse to give the plane the Flarm id.  (updateFlarmId)
SavedIsFound ==
  [][form.at = "saving" /\ form'.at = "closed" /\ ~ form'.refused /\ ~ excused'
     => {found.plane : found \in Lookup(cache', FlarmOf[form.flight])}
        = {form.plane}]_vars
=============================================================================
