--------------------------- MODULE PlaneIdsProofs ---------------------------
(***************************************************************************)
(* For any planes, flights and Flarm ids: the hashes of the cache agree    *)
(* with its planes, no Flarm id belongs to two planes but where the user   *)
(* let it, and the plane of a flight that has been saved is found.         *)
(***************************************************************************)
EXTENDS PlaneIds, SequenceTheorems, TLAPS

USE DEF Nobody, Ids

-----------------------------------------------------------------------------
(* The cache as a function of the planes *)

Sound(c) ==
  /\ c = Refreshed(c.planes)
  /\ \A id \in DOMAIN c.planes :
       id \in Ids /\ c.planes[id] \in Copies /\ c.planes[id].id = id

Unique(c) ==
  \A id, other \in DOMAIN c.planes :
    c.planes[id].flarmId = c.planes[other].flarmId /\ id # other
    => c.planes[id].flarmId = Blank

LEMMA RefreshedSound ==
  ASSUME NEW planes,
         \A id \in DOMAIN planes :
           id \in Ids /\ planes[id] \in Copies /\ planes[id].id = id
  PROVE  Sound(Refreshed(planes)) /\ Refreshed(planes).planes = planes
BY DEF Sound, Refreshed

LEMMA DeletedSound ==
  ASSUME NEW c, Sound(c), NEW id \in DOMAIN c.planes
  PROVE  /\ Sound(Deleted(c, id))
         /\ Deleted(c, id).planes = [other \in DOMAIN c.planes \ {id} |-> c.planes[other]]
<1> DEFINE rest == [other \in DOMAIN c.planes \ {id} |-> c.planes[other]]
<1>1. /\ c.byRegistration = {<<c.planes[i].registration, i>> : i \in DOMAIN c.planes}
      /\ c.byFlarmId = {<<c.planes[i].flarmId, i>> : i \in DOMAIN c.planes}
      /\ c.byUsage = {c.planes[i] : i \in DOMAIN c.planes}
  BY DEF Sound, Refreshed
<1>2. /\ DOMAIN rest = DOMAIN c.planes \ {id}
      /\ \A i \in DOMAIN c.planes \ {id} : rest[i] = c.planes[i]
      /\ \A i \in DOMAIN c.planes : c.planes[i].id = i
  BY DEF Sound
<1> HIDE DEF rest
<1>3. c.byRegistration \ {<<c.planes[id].registration, id>>}
      = {<<rest[i].registration, i>> : i \in DOMAIN rest}
  <2>1. ASSUME NEW i \in DOMAIN c.planes
        PROVE  <<c.planes[i].registration, i>>
                 = <<c.planes[id].registration, id>> <=> i = id
    OBVIOUS
  <2> QED BY <1>1, <1>2, <2>1
<1>4. c.byFlarmId \ {<<c.planes[id].flarmId, id>>}
      = {<<rest[i].flarmId, i>> : i \in DOMAIN rest}
  <2>1. ASSUME NEW i \in DOMAIN c.planes
        PROVE  <<c.planes[i].flarmId, i>> = <<c.planes[id].flarmId, id>> <=> i = id
    OBVIOUS
  <2> QED BY <1>1, <1>2, <2>1
<1>5. {p \in c.byUsage : p.id # id} = {rest[i] : i \in DOMAIN rest}
  <2>1. \A p : p \in c.byUsage /\ p.id # id
              <=> \E i \in DOMAIN c.planes \ {id} : p = c.planes[i]
    BY <1>1, <1>2
  <2>2. \A p : p \in {rest[i] : i \in DOMAIN rest}
              <=> \E i \in DOMAIN c.planes \ {id} : p = c.planes[i]
    BY <1>2
  <2> QED BY <2>1, <2>2
<1>6. Deleted(c, id) = Refreshed(rest)
  BY <1>3, <1>4, <1>5 DEF Deleted, Refreshed, rest
<1>7. \A i \in DOMAIN rest : i \in Ids /\ rest[i] \in Copies /\ rest[i].id = i
  BY <1>2 DEF Sound
<1> QED BY <1>6, <1>7, RefreshedSound DEF rest

LEMMA AddedSound ==
  ASSUME NEW c, Sound(c), NEW plane \in Copies,
         plane.id \in Ids, plane.id \notin DOMAIN c.planes
  PROVE  /\ Sound(Added(c, plane))
         /\ Added(c, plane).planes
            = [i \in {plane.id} \cup DOMAIN c.planes |->
                 IF i = plane.id THEN plane ELSE c.planes[i]]
<1> DEFINE more == [i \in {plane.id} \cup DOMAIN c.planes |->
                      IF i = plane.id THEN plane ELSE c.planes[i]]
<1>1. /\ c.byRegistration = {<<c.planes[i].registration, i>> : i \in DOMAIN c.planes}
      /\ c.byFlarmId = {<<c.planes[i].flarmId, i>> : i \in DOMAIN c.planes}
      /\ c.byUsage = {c.planes[i] : i \in DOMAIN c.planes}
  BY DEF Sound, Refreshed
<1>2. /\ DOMAIN more = {plane.id} \cup DOMAIN c.planes
      /\ more[plane.id] = plane
      /\ \A i \in DOMAIN c.planes : more[i] = c.planes[i]
  OBVIOUS
<1> HIDE DEF more
<1>3. c.byRegistration \cup {<<plane.registration, plane.id>>}
      = {<<more[i].registration, i>> : i \in DOMAIN more}
  BY <1>1, <1>2
<1>4. c.byFlarmId \cup {<<plane.flarmId, plane.id>>}
      = {<<more[i].flarmId, i>> : i \in DOMAIN more}
  BY <1>1, <1>2
<1>5. c.byUsage \cup {plane} = {more[i] : i \in DOMAIN more}
  BY <1>1, <1>2
<1>6. Added(c, plane) = Refreshed(more)
  BY <1>3, <1>4, <1>5 DEF Added, Refreshed, more
<1>7. \A i \in DOMAIN more : i \in Ids /\ more[i] \in Copies /\ more[i].id = i
  BY <1>2 DEF Sound
<1>8. Sound(Refreshed(more)) /\ Refreshed(more).planes = more
  BY <1>7, RefreshedSound
<1> QED BY <1>6, <1>8 DEF more

LEMMA UpdatedSound ==
  ASSUME NEW c, Sound(c), NEW plane \in Copies, plane.id \in DOMAIN c.planes
  PROVE  /\ Sound(Updated(c, plane))
         /\ DOMAIN Updated(c, plane).planes = DOMAIN c.planes
         /\ \A i \in DOMAIN c.planes :
              Updated(c, plane).planes[i]
              = IF i = plane.id THEN plane ELSE c.planes[i]
<1> DEFINE less == Deleted(c, plane.id)
<1>1. Sound(less) /\ less.planes = [i \in DOMAIN c.planes \ {plane.id} |-> c.planes[i]]
  BY DeletedSound
<1>2. plane.id \in Ids
  BY DEF Sound
<1> HIDE DEF less
<1>3. /\ Sound(Added(less, plane))
      /\ Added(less, plane).planes
         = [i \in {plane.id} \cup DOMAIN less.planes |->
              IF i = plane.id THEN plane ELSE less.planes[i]]
  BY <1>1, <1>2, AddedSound
<1>4. Updated(c, plane) = Added(less, plane)
  BY DEF Updated, less
<1> QED BY <1>1, <1>3, <1>4

LEMMA FoundByFlarmId ==
  ASSUME NEW c, Sound(c), NEW flarmId
  PROVE  IdsByFlarmId(c, flarmId)
         = {id \in DOMAIN c.planes : c.planes[id].flarmId = flarmId}
BY DEF IdsByFlarmId, Sound, Refreshed

-----------------------------------------------------------------------------
(* The inductive invariant *)

Updates == {"update", "saving"}
Within  == {"opening", "plane", "towplane", "saving"}

CacheInv == Sound(cache) /\ nextId \in Nat \ {0} /\ Known \subseteq 1 .. nextId - 1

FlightsInv ==
  /\ flarmNet \in [FlarmIds -> Registrations \cup {Blank}]
  /\ planeOf \in [Flights -> Ids \cup {Nobody}]

\* copies may be out of date, but not of planes that do not exist
SelectionInv ==
  /\ selection \in Seq(Copies)
  /\ \A i \in 1 .. Len(selection) : selection[i].id \in Known
  /\ selection # <<>> => dialog # NoDialog /\ dialog.asked = "list"

\* a conflict is one as long as it is asked about
ConflictInv ==
  /\ dialog.edited.id = dialog.plane.id
  /\ dialog.edited.flarmId # Blank
  /\ dialog.other \in Known \ {dialog.plane.id}
  /\ Planes[dialog.other].flarmId = dialog.edited.flarmId
  /\ dialog.plane.id = Nobody
       => dialog.plane.flarmId \in {Blank, dialog.edited.flarmId}
  /\ dialog.asked \in Updates => dialog.edited.flarmId = FlarmOf[dialog.flight]

DialogInv ==
  dialog # NoDialog =>
    /\ dialog \in Dialog
    /\ dialog.plane.id \in Known \cup {Nobody}
    /\ dialog.asked = "list" /\ dialog.plane.id = Nobody
         => dialog.plane.flarmId = Blank
    /\ dialog.at = "query" => dialog.asked \in Updates
    /\ dialog.asked \in Within => form.at # "closed"
    /\ dialog.asked \in Updates
         => /\ dialog.at \in {"query", "conflict"}
            /\ dialog.plane.id \in Known /\ dialog.flight \in Flights
    /\ dialog.asked = "saving"
         => /\ form.at = "saving" /\ form.flight = dialog.flight
            /\ form.plane = dialog.plane.id
    /\ dialog.at = "conflict" => ConflictInv

FormInv == form \in Form /\ (form.at # "closed" => form.flight \in Flights)

UniqueInv == excused \/ Unique(cache)

IInv ==
  CacheInv /\ FlightsInv /\ SelectionInv /\ DialogInv /\ FormInv /\ UniqueInv

LEMMA InitIInv == Init => IInv
<1> SUFFICES ASSUME Init PROVE IInv
  OBVIOUS
<1> USE PlaneAssumption
<1>1. \A id \in DOMAIN Stored :
        id \in Ids /\ Stored[id] \in Copies /\ Stored[id].id = id
  OBVIOUS
<1>2. Sound(cache) /\ Planes = Stored
  BY <1>1, RefreshedSound DEF Init, Planes
<1>3. CacheInv
  BY <1>2 DEF CacheInv, Init, Known
<1>4. FlightsInv
  <2>1. PlanesBefore \subseteq Ids \cup {Nobody}
    BY <1>1
  <2> QED BY <2>1 DEF FlightsInv, Init
<1>5. SelectionInv /\ DialogInv
  BY DEF SelectionInv, DialogInv, Init
<1>6. FormInv
  BY DEF FormInv, Init, Form, NoForm
<1>7. UniqueInv
  BY <1>2 DEF UniqueInv, Unique, Planes
<1> QED BY <1>3, <1>4, <1>5, <1>6, <1>7 DEF IInv

-----------------------------------------------------------------------------
(* What the operations of the dialogs leave *)

LEMMA OpenKeeps ==
  ASSUME NEW at \in {"editor", "query", "use", "create"}, NEW asked \in Asked,
         NEW flight \in Flights \cup {Blank}, NEW plane \in Copies,
         dialog' = Open(at, asked, flight, plane),
         plane.id \in Known' \cup {Nobody},
         asked = "list" /\ plane.id = Nobody => plane.flarmId = Blank,
         at = "query" <=> asked \in Updates,
         asked \in Within => form'.at # "closed",
         asked \in Updates => plane.id \in Known' /\ flight \in Flights,
         asked = "saving" => /\ form'.at = "saving" /\ form'.flight = flight
                             /\ form'.plane = plane.id
  PROVE  DialogInv'
<1>1. NoPlane \in Copies
  BY DEF NoPlane, Copies
<1>2. /\ dialog' \in Dialog /\ dialog'.at = at /\ dialog'.asked = asked
      /\ dialog'.flight = flight /\ dialog'.plane = plane
  BY <1>1 DEF Open, Dialog
<1> QED BY <1>2 DEF DialogInv, Updates, Within

LEMMA ClosedKeeps ==
  ASSUME dialog' = NoDialog, selection' = <<>>
  PROVE  DialogInv' /\ SelectionInv'
BY DEF DialogInv, SelectionInv, NoDialog

LEMMA ReturnKeeps ==
  ASSUME SelectionInv, DialogInv, FormInv, FlightsInv, dialog # NoDialog,
         dialog.asked \notin Updates, NEW id \in Ids \cup {Nobody},
         Known \subseteq Known', Known' \subseteq Ids,
         UNCHANGED flarmNet, Return(dialog, id)
  PROVE  SelectionInv' /\ DialogInv' /\ FormInv' /\ FlightsInv'
<1> USE DEF Updates
<1>1. /\ dialog \in Dialog /\ dialog.asked \in Asked
      /\ dialog.asked \in Within => form.at # "closed"
  BY DEF DialogInv, Dialog
<1>2. FormInv'
  <2>1. CASE dialog.asked \in {"list", "identify"}
    BY <2>1 DEF Return, FormInv
  <2>2. CASE dialog.asked \notin {"list", "identify"}
             /\ (dialog.asked = "opening" \/ id = Nobody)
    <3>1. form' = [form EXCEPT !.at = "open"]
      BY <2>2 DEF Return
    <3> QED BY <3>1, <2>2, <1>1 DEF FormInv, Form, Within, Asked
  <2>3. CASE dialog.asked = "plane" /\ id # Nobody
    <3>1. form' = [form EXCEPT !.at = "towplane", !.plane = id]
      BY <2>3 DEF Return
    <3> QED BY <3>1, <2>3, <1>1 DEF FormInv, Form, Within
  <2>4. CASE dialog.asked = "towplane" /\ id # Nobody
    <3>1. form' = [form EXCEPT !.at = "saving"]
      BY <2>4 DEF Return
    <3> QED BY <3>1, <2>4, <1>1 DEF FormInv, Form, Within
  <2> QED BY <1>1, <2>1, <2>2, <2>3, <2>4 DEF Asked
<1>3. FlightsInv'
  BY DEF Return, FlightsInv
<1>4. CASE dialog.asked = "list" /\ id # Nobody /\ selection # <<>>
  <2>1. /\ dialog' = Open("editor", "list", Blank, Head(selection))
        /\ selection' = Tail(selection)
    BY <1>4 DEF Return
  <2>2. /\ selection \in Seq(Copies) /\ Len(selection) \in Nat \ {0}
        /\ \A i \in 1 .. Len(selection) : selection[i].id \in Known
    BY <1>4, EmptySeq DEF SelectionInv
  <2>3. /\ Head(selection) \in Copies /\ Head(selection) = selection[1]
        /\ selection' \in Seq(Copies) /\ Len(selection') = Len(selection) - 1
        /\ \A i \in 1 .. Len(selection') : selection'[i] = selection[i + 1]
    BY <1>4, <2>1, <2>2, HeadTailProperties
  <2>4. /\ Head(selection).id \in Known'
        /\ \A i \in 1 .. Len(selection') : selection'[i].id \in Known'
    <3>1. Head(selection).id \in Known
      BY <2>2, <2>3
    <3>2. ASSUME NEW i \in 1 .. Len(selection') PROVE selection'[i].id \in Known
      <4>1. i + 1 \in 1 .. Len(selection) /\ selection'[i] = selection[i + 1]
        BY <2>2, <2>3
      <4> QED BY <2>2, <4>1
    <3> QED BY <3>1, <3>2
  <2>5. Head(selection).id # Nobody
    BY <2>4
  <2>6. DialogInv'
    <3> DEFINE plane == Head(selection)
    <3>1. plane \in Copies /\ plane.id \in Known' /\ plane.id # Nobody
      BY <2>3, <2>4, <2>5
    <3> HIDE DEF plane
    <3>2. dialog' = Open("editor", "list", Blank, plane)
      BY <2>1 DEF plane
    <3> QED BY <3>1, <3>2, OpenKeeps DEF Asked, Within
  <2> QED BY <1>2, <1>3, <2>1, <2>3, <2>4, <2>6 DEF SelectionInv, Open, NoDialog
<1>5. CASE ~ (dialog.asked = "list" /\ id # Nobody /\ selection # <<>>)
  <2>1. dialog' = NoDialog /\ selection' = <<>>
    BY <1>5 DEF Return
  <2> QED BY <1>2, <1>3, <2>1, ClosedKeeps
<1> QED BY <1>4, <1>5

LEMMA UnwrittenKeeps ==
  ASSUME SelectionInv, DialogInv, FormInv, FlightsInv, dialog # NoDialog,
         dialog.asked \notin Updates, NEW c,
         Known \subseteq Known', UNCHANGED flarmNet, Unwritten(dialog, c)
  PROVE  SelectionInv' /\ DialogInv' /\ FormInv' /\ FlightsInv'
<1>1. /\ dialog.asked \in Asked /\ dialog.flight \in Flights \cup {Blank}
      /\ dialog.plane \in Copies /\ dialog.plane.id \in Known' \cup {Nobody}
      /\ dialog.asked = "list" /\ dialog.plane.id = Nobody
           => dialog.plane.flarmId = Blank
      /\ dialog.asked \in Within => form.at # "closed"
  BY DEF DialogInv, Dialog
<1>2. /\ dialog' = Open("editor", dialog.asked, dialog.flight, dialog.plane)
      /\ selection' = selection /\ form' = form /\ planeOf' = planeOf
  BY DEF Unwritten
<1>3. DialogInv'
  BY <1>1, <1>2, OpenKeeps DEF Updates
<1>4. SelectionInv'
  BY <1>2 DEF SelectionInv, Open, NoDialog
<1> QED BY <1>2, <1>3, <1>4 DEF FormInv, FlightsInv

LEMMA FinishKeeps ==
  ASSUME SelectionInv, FormInv, FlightsInv, selection = <<>>, UNCHANGED flarmNet,
         NEW asked \in Updates, asked = "saving" => form.at = "saving",
         NEW ok \in BOOLEAN, NEW refused \in BOOLEAN, Finish(asked, ok, refused)
  PROVE  SelectionInv' /\ DialogInv' /\ FormInv' /\ FlightsInv'
<1>1. selection' = <<>> /\ dialog' = NoDialog
  BY DEF Finish
<1>2. SelectionInv' /\ DialogInv'
  BY <1>1, ClosedKeeps
<1>3. FormInv'
  BY DEF Finish, FormInv, Form, NoForm
<1>4. FlightsInv'
  BY DEF Finish, FlightsInv, FormInv, Form
<1> QED BY <1>2, <1>3, <1>4

-----------------------------------------------------------------------------
(* What a write leaves of the cache *)

\* the plane was written on top of c, or was not
WrittenOn(c, plane) ==
  \/ cache' = c /\ nextId' = nextId
  \/ plane.id \in Known /\ cache' = Updated(c, plane) /\ nextId' = nextId
  \/ /\ plane.id = Nobody /\ nextId \in Ids
     /\ cache' = Added(c, [plane EXCEPT !.id = nextId]) /\ nextId' = nextId + 1

\* no other plane has its Flarm id
Fits(c, plane) ==
  \/ plane.flarmId = Blank
  \/ \A i \in DOMAIN c.planes : c.planes[i].flarmId = plane.flarmId => i = plane.id

LEMMA WrittenInv ==
  ASSUME CacheInv, NEW c, Sound(c), DOMAIN c.planes = Known, NEW plane \in Copies,
         WrittenOn(c, plane)
  PROVE  CacheInv' /\ Known \subseteq Known' /\ Known' \subseteq Ids
<1>1. CASE cache' = c /\ nextId' = nextId
  BY <1>1 DEF CacheInv, Known, Planes, Sound
<1>2. CASE plane.id \in Known /\ cache' = Updated(c, plane) /\ nextId' = nextId
  <2>1. Sound(cache') /\ Known' = Known
    BY <1>2, UpdatedSound DEF Known, Planes
  <2> QED BY <1>2, <2>1 DEF CacheInv, Sound, Known, Planes
<1>3. CASE /\ plane.id = Nobody /\ nextId \in Ids
           /\ cache' = Added(c, [plane EXCEPT !.id = nextId]) /\ nextId' = nextId + 1
  <2> DEFINE new == [plane EXCEPT !.id = nextId]
  <2>1. new \in Copies /\ new.id = nextId /\ nextId \notin Known /\ nextId \in Ids
    BY <1>3 DEF Copies, CacheInv
  <2> HIDE DEF new
  <2>2. /\ Sound(Added(c, new))
        /\ Added(c, new).planes = [i \in {new.id} \cup DOMAIN c.planes |->
                                     IF i = new.id THEN new ELSE c.planes[i]]
    BY <2>1, AddedSound
  <2>3. Sound(cache') /\ Known' = {nextId} \cup Known
    BY <1>3, <2>1, <2>2 DEF new, Known, Planes
  <2>4. nextId' \in Nat \ {0} /\ Known' \subseteq 1 .. nextId' - 1
    BY <1>3, <2>3 DEF CacheInv
  <2>5. Known' \subseteq Ids
    BY <2>3 DEF Sound, Known, Planes
  <2> QED BY <2>3, <2>4, <2>5 DEF CacheInv
<1> QED BY <1>1, <1>2, <1>3 DEF WrittenOn

LEMMA WrittenUnique ==
  ASSUME CacheInv, NEW c, Sound(c), DOMAIN c.planes = Known, NEW plane \in Copies,
         WrittenOn(c, plane), Unique(c), Fits(c, plane)
  PROVE  Unique(cache')
<1>1. CASE cache' = c
  BY <1>1
<1>2. CASE plane.id \in Known /\ cache' = Updated(c, plane)
  <2>1. /\ DOMAIN Updated(c, plane).planes = DOMAIN c.planes
        /\ \A i \in DOMAIN c.planes :
             Updated(c, plane).planes[i] = IF i = plane.id THEN plane ELSE c.planes[i]
    BY <1>2, UpdatedSound
  <2> DEFINE after == Updated(c, plane).planes
  <2> HIDE DEF after
  <2>2. ASSUME NEW i \in DOMAIN c.planes, NEW j \in DOMAIN c.planes, i # j,
               after[i].flarmId = after[j].flarmId
        PROVE  after[i].flarmId = Blank
    BY <2>1, <2>2 DEF after, Unique, Fits
  <2>3. DOMAIN after = DOMAIN c.planes /\ cache'.planes = after
    BY <1>2, <2>1 DEF after
  <2> QED BY <2>2, <2>3 DEF Unique
<1>3. CASE /\ plane.id = Nobody /\ nextId \in Ids
           /\ cache' = Added(c, [plane EXCEPT !.id = nextId])
  <2> DEFINE new == [plane EXCEPT !.id = nextId]
  <2>1. /\ new \in Copies /\ new.id = nextId /\ nextId \notin Known
        /\ nextId \in Ids /\ new.flarmId = plane.flarmId
    BY <1>3 DEF Copies, CacheInv
  <2> HIDE DEF new
  <2>2. Added(c, new).planes = [i \in {new.id} \cup DOMAIN c.planes |->
                                  IF i = new.id THEN new ELSE c.planes[i]]
    BY <2>1, AddedSound
  <2>3. /\ DOMAIN Added(c, new).planes = {new.id} \cup DOMAIN c.planes
        /\ Added(c, new).planes[new.id] = new
        /\ \A i \in DOMAIN c.planes : Added(c, new).planes[i] = c.planes[i]
    BY <2>1, <2>2
  <2>4. \A i \in DOMAIN c.planes : i # plane.id
    BY <1>3 DEF CacheInv
  <2>5. \A i \in DOMAIN c.planes :
          c.planes[i].flarmId = new.flarmId => new.flarmId = Blank
    BY <2>1, <2>4 DEF Fits
  <2>6. cache' = Added(c, new)
    BY <1>3 DEF new
  <2> QED BY <2>3, <2>5, <2>6 DEF Unique
<1> QED BY <1>1, <1>2, <1>3 DEF WrittenOn

LEMMA WriteStep ==
  ASSUME IInv, dialog # NoDialog, dialog.asked \notin Updates,
         NEW c, Sound(c), DOMAIN c.planes = Known,
         NEW plane \in Copies, plane.id = dialog.plane.id, UNCHANGED flarmNet,
         Write(dialog, c, plane) \/ Unwritten(dialog, c)
  PROVE  /\ CacheInv' /\ FlightsInv' /\ SelectionInv' /\ DialogInv' /\ FormInv'
         /\ WrittenOn(c, plane)
<1> USE DEF IInv
<1>1. plane.id \in Known \cup {Nobody}
  BY DEF DialogInv
<1>2. CASE plane.id # Nobody /\ Write(dialog, c, plane)
  <2>1. /\ cache' = Updated(c, plane) /\ nextId' = nextId
        /\ plane.id \in Known /\ Return(dialog, plane.id)
    BY <1>1, <1>2 DEF Write
  <2>2. WrittenOn(c, plane)
    BY <2>1 DEF WrittenOn
  <2>3. CacheInv' /\ Known \subseteq Known' /\ Known' \subseteq Ids
    BY <2>2, WrittenInv
  <2>4. plane.id \in Ids
    BY <2>1, <2>3
  <2> QED BY <2>1, <2>2, <2>3, <2>4, ReturnKeeps
<1>3. CASE plane.id = Nobody /\ Write(dialog, c, plane)
  <2>1. /\ cache' = Added(c, [plane EXCEPT !.id = nextId]) /\ nextId' = nextId + 1
        /\ nextId \in Ids /\ Return(dialog, nextId)
    BY <1>3 DEF Write, CacheInv
  <2>2. WrittenOn(c, plane)
    BY <1>3, <2>1 DEF WrittenOn
  <2>3. CacheInv' /\ Known \subseteq Known' /\ Known' \subseteq Ids
    BY <2>2, WrittenInv
  <2> QED BY <2>1, <2>2, <2>3, ReturnKeeps
<1>4. CASE Unwritten(dialog, c)
  <2>1. WrittenOn(c, plane)
    BY <1>4 DEF Unwritten, WrittenOn
  <2>2. CacheInv' /\ Known \subseteq Known'
    BY <2>1, WrittenInv
  <2> QED BY <1>4, <2>1, <2>2, UnwrittenKeeps
<1> QED BY <1>2, <1>3, <1>4

LEMMA UpdateStep ==
  ASSUME IInv, NEW asked \in Updates, selection = <<>>,
         asked = "saving" => form.at = "saving",
         NEW c, Sound(c), DOMAIN c.planes = Known,
         NEW plane \in Copies, plane.id \in Known,
         NEW flarmId \in FlarmIds \cup {Blank},
         UNCHANGED <<nextId, flarmNet>>, UpdatePlane(asked, c, plane, flarmId)
  PROVE  /\ CacheInv' /\ FlightsInv' /\ SelectionInv' /\ DialogInv' /\ FormInv'
         /\ WrittenOn(c, [plane EXCEPT !.flarmId = flarmId])
<1> USE DEF IInv
<1> DEFINE new == [plane EXCEPT !.flarmId = flarmId]
<1>1. new \in Copies /\ new.id = plane.id
  BY DEF Copies
<1>2. cache' = c \/ cache' = Updated(c, new)
  BY DEF UpdatePlane
<1> HIDE DEF new
<1>3. WrittenOn(c, new)
  BY <1>1, <1>2 DEF WrittenOn
<1>4. CacheInv'
  BY <1>1, <1>3, WrittenInv
<1>5. \E ok, refused \in BOOLEAN : Finish(asked, ok, refused)
  BY DEF UpdatePlane
<1> QED BY <1>3, <1>4, <1>5, FinishKeeps DEF new

-----------------------------------------------------------------------------
(* The actions of the dialogs *)

LEMMA Conflicts ==
  ASSUME IInv, NEW flarmId, NEW id
  PROVE  Conflicting(flarmId, id)
         = IF flarmId = Blank THEN {}
           ELSE {i \in Known : Planes[i].flarmId = flarmId /\ i # id}
<1>1. IdsByFlarmId(cache, flarmId) = {i \in Known : Planes[i].flarmId = flarmId}
  BY FoundByFlarmId DEF IInv, CacheInv, Known, Planes
<1> QED BY <1>1 DEF Conflicting

LEMMA EditorOkInv ==
  ASSUME IInv, EditorOk
  PROVE  IInv'
<1> USE DEF IInv
<1>1. PICK r \in Registrations, flarmId \in FlarmIds \cup {Blank} :
        LET edited == [dialog.plane EXCEPT !.registration = r, !.flarmId = flarmId]
            others == Conflicting(flarmId, edited.id)
        IN  /\ dialog.asked \in Locked => flarmId = dialog.plane.flarmId
            /\ \/ /\ others = {}
                  /\ Write(dialog, cache, edited) \/ Unwritten(dialog, cache)
               \/ \E other \in others :
                    /\ dialog' = [dialog EXCEPT !.at = "conflict",
                                               !.edited = edited, !.other = other]
                    /\ UNCHANGED <<cache, nextId, selection, form, planeOf>>
  BY DEF EditorOk
<1> DEFINE edited == [dialog.plane EXCEPT !.registration = r, !.flarmId = flarmId]
           others == Conflicting(flarmId, edited.id)
<1>2. /\ dialog \in Dialog /\ dialog.at = "editor" /\ dialog # NoDialog
      /\ dialog.asked \notin Updates /\ dialog.plane \in Copies
      /\ flarmNet' = flarmNet /\ excused' = excused
  <2>1. dialog.at = "editor" /\ flarmNet' = flarmNet /\ excused' = excused
    BY DEF EditorOk
  <2>2. dialog # NoDialog
    BY <2>1 DEF NoDialog
  <2> QED BY <2>1, <2>2 DEF DialogInv, Dialog
<1>3. edited \in Copies /\ edited.id = dialog.plane.id /\ edited.flarmId = flarmId
  BY <1>2 DEF Copies
<1> HIDE DEF edited, others
<1>4. Sound(cache) /\ DOMAIN cache.planes = Known
  BY DEF CacheInv, Known, Planes
<1>5. others = IF flarmId = Blank THEN {}
               ELSE {i \in Known : Planes[i].flarmId = flarmId /\ i # dialog.plane.id}
  <2>1. Conflicting(flarmId, dialog.plane.id)
        = IF flarmId = Blank THEN {}
          ELSE {i \in Known : Planes[i].flarmId = flarmId /\ i # dialog.plane.id}
    BY Conflicts
  <2> QED BY <1>3, <2>1 DEF others
<1>6. CASE others = {} /\ (Write(dialog, cache, edited) \/ Unwritten(dialog, cache))
  <2>1. /\ CacheInv' /\ FlightsInv' /\ SelectionInv' /\ DialogInv' /\ FormInv'
        /\ WrittenOn(cache, edited)
    BY <1>2, <1>3, <1>4, <1>6, WriteStep
  <2>2. Fits(cache, edited)
    BY <1>3, <1>4, <1>5, <1>6 DEF Fits, Planes
  <2>3. UniqueInv'
    BY <1>2, <1>3, <1>4, <2>1, <2>2, WrittenUnique DEF UniqueInv
  <2> QED BY <2>1, <2>3
<1>7. ASSUME NEW other \in others,
             dialog' = [dialog EXCEPT !.at = "conflict", !.edited = edited,
                                      !.other = other],
             UNCHANGED <<cache, nextId, selection, form, planeOf>>
      PROVE  IInv'
  <2>1. /\ other \in Known \ {dialog.plane.id} /\ Planes[other].flarmId = flarmId
        /\ flarmId # Blank /\ other \in Ids
    BY <1>4, <1>5, <1>7 DEF Sound
  <2>2. /\ dialog' \in Dialog /\ dialog'.at = "conflict" /\ dialog'.edited = edited
        /\ dialog'.other = other /\ dialog'.plane = dialog.plane
        /\ dialog'.asked = dialog.asked /\ dialog'.flight = dialog.flight
    BY <1>2, <1>3, <1>7, <2>1 DEF Dialog
  <2>3. dialog.plane.id = Nobody
          => dialog.plane.flarmId = Blank \/ dialog.plane.flarmId = flarmId
    BY <1>1, <1>2 DEF DialogInv, Dialog, Asked, Locked, Updates
  <2>4. Planes' = Planes /\ Known' = Known
    BY <1>7 DEF Known, Planes
  <2>5. ConflictInv'
    BY <1>2, <1>3, <2>1, <2>2, <2>3, <2>4 DEF ConflictInv
  <2>6. DialogInv'
    BY <1>2, <1>7, <2>2, <2>4, <2>5 DEF DialogInv
  <2>7. SelectionInv'
    BY <1>2, <1>7, <2>2, <2>4 DEF SelectionInv, NoDialog
  <2>8. CacheInv' /\ FlightsInv' /\ FormInv' /\ UniqueInv'
    BY <1>2, <1>7, <2>4 DEF CacheInv, FlightsInv, FormInv, UniqueInv
  <2> QED BY <2>6, <2>7, <2>8
<1> QED BY <1>1, <1>6, <1>7 DEF edited, others

LEMMA EditorCancelInv ==
  ASSUME IInv, EditorCancel
  PROVE  IInv'
<1> USE DEF IInv
<1>1. dialog # NoDialog /\ dialog.asked \notin Updates
  BY DEF EditorCancel, DialogInv, NoDialog
<1>2. /\ Return(dialog, Nobody) /\ cache' = cache /\ nextId' = nextId
      /\ flarmNet' = flarmNet /\ excused' = excused
  BY DEF EditorCancel
<1>3. Known' = Known /\ Known \subseteq Ids
  BY <1>2 DEF Known, Planes, CacheInv, Sound
<1>4. CacheInv' /\ UniqueInv'
  BY <1>2, <1>3 DEF CacheInv, UniqueInv
<1> QED BY <1>1, <1>2, <1>3, <1>4, ReturnKeeps

LEMMA InConflict ==
  ASSUME IInv, dialog.at = "conflict"
  PROVE  /\ dialog \in Dialog /\ dialog # NoDialog /\ ConflictInv
         /\ dialog.plane \in Copies /\ dialog.edited \in Copies
         /\ dialog.plane.flarmId \in FlarmIds \cup {Blank}
         /\ dialog.edited.flarmId \in FlarmIds \cup {Blank}
<1>1. dialog # NoDialog
  BY DEF NoDialog
<1>2. dialog \in Dialog /\ ConflictInv
  BY <1>1 DEF IInv, DialogInv
<1> QED BY <1>1, <1>2 DEF Dialog, Copies

LEMMA OtherWritten ==
  ASSUME IInv, dialog.at = "conflict",
         NEW resolution \in {"clear", "keep", "swap", "ignore"}
  PROVE  LET c     == OtherUpdated(cache, dialog, resolution)
             given == OtherId(resolution, dialog.plane.flarmId, dialog.edited.flarmId)
         IN  /\ Sound(c) /\ DOMAIN c.planes = Known
             /\ \A i \in Known \ {dialog.other} : c.planes[i] = Planes[i]
             /\ c.planes[dialog.other].flarmId
                = IF resolution \in {"clear", "swap"} THEN given
                  ELSE Planes[dialog.other].flarmId
<1> DEFINE c     == OtherUpdated(cache, dialog, resolution)
           given == OtherId(resolution, dialog.plane.flarmId, dialog.edited.flarmId)
           other == [Planes[dialog.other] EXCEPT !.flarmId = given]
<1>1. Sound(cache) /\ DOMAIN cache.planes = Known /\ cache.planes = Planes
  BY DEF IInv, CacheInv, Known, Planes
<1>2. dialog.other \in Known /\ given \in FlarmIds \cup {Blank}
  BY InConflict DEF ConflictInv, OtherId
<1>3. other \in Copies /\ other.id = dialog.other /\ other.flarmId = given
  BY <1>1, <1>2 DEF Sound, Copies
<1>4. c = IF resolution \in {"clear", "swap"} THEN Updated(cache, other) ELSE cache
  BY <1>1 DEF OtherUpdated
<1> HIDE DEF c, other, given
<1>5. /\ Sound(Updated(cache, other)) /\ DOMAIN Updated(cache, other).planes = Known
      /\ \A i \in Known : Updated(cache, other).planes[i]
                         = IF i = other.id THEN other ELSE Planes[i]
  BY <1>1, <1>2, <1>3, UpdatedSound
<1>6. /\ Sound(c) /\ DOMAIN c.planes = Known
      /\ \A i \in Known \ {dialog.other} : c.planes[i] = Planes[i]
      /\ c.planes[dialog.other].flarmId
         = IF resolution \in {"clear", "swap"} THEN given
           ELSE Planes[dialog.other].flarmId
  BY <1>1, <1>2, <1>3, <1>4, <1>5
<1> QED BY <1>6 DEF c, given

\* Unless excused, a resolution ends the conflict and makes no other.
LEMMA ResolveUnique ==
  ASSUME IInv, dialog.at = "conflict", Unique(cache),
         NEW resolution
           \in Resolutions(dialog.plane.flarmId, dialog.edited.flarmId),
         NEW plane \in Copies, plane.id = dialog.plane.id,
         plane.flarmId
           = OwnId(resolution, dialog.plane.flarmId, dialog.edited.flarmId),
         WrittenOn(OtherUpdated(cache, dialog, resolution), plane),
         ~ Excuse(dialog, resolution)
  PROVE  Unique(cache')
<1> DEFINE c   == OtherUpdated(cache, dialog, resolution)
           old == dialog.plane.flarmId
           new == dialog.edited.flarmId
           id  == dialog.plane.id
           other == dialog.other
<1>1. resolution \in {"clear", "keep", "swap"}
  BY DEF Resolutions, Excuse
<1>2. /\ Sound(c) /\ DOMAIN c.planes = Known
      /\ \A i \in Known \ {other} : c.planes[i] = Planes[i]
      /\ c.planes[other].flarmId
         = IF resolution = "clear" THEN Blank
           ELSE IF resolution = "swap" THEN old ELSE Planes[other].flarmId
  BY <1>1, OtherWritten DEF OtherId
<1>3. /\ other \in Known /\ other # id /\ new # Blank
      /\ Planes[other].flarmId = new
      /\ id = Nobody => old = Blank \/ old = new
  BY InConflict DEF ConflictInv
<1>4. \A i, j \in Known : Planes[i].flarmId = Planes[j].flarmId /\ i # j
                         => Planes[i].flarmId = Blank
  BY DEF Unique, Known, Planes
<1>5. CacheInv /\ id \in Known \cup {Nobody}
  BY InConflict DEF IInv, DialogInv
<1>6. WrittenOn(c, plane) /\ plane.id = id
  OBVIOUS
<1>7. Stale(dialog) <=> id # Nobody /\ Planes[id].flarmId # old
  BY DEF Stale
<1>8. plane.flarmId = IF resolution = "keep" THEN old ELSE new
  BY DEF OwnId
<1>9. resolution = "swap"
        => /\ new # old /\ old # Blank /\ ~ Stale(dialog)
           /\ cache'.planes[id].flarmId = new
  BY DEF Excuse, Resolutions
<1>10. resolution = "keep" => new # old /\ ~ Stale(dialog)
  BY DEF Excuse, Resolutions
<1> HIDE DEF c, old, new, id, other
<1>11. CASE resolution = "clear"
  <2>1. Unique(c)
    BY <1>2, <1>4, <1>11 DEF Unique
  <2>2. Fits(c, plane)
    BY <1>2, <1>3, <1>4, <1>6, <1>8, <1>11 DEF Fits
  <2> QED BY <1>2, <1>5, <1>6, <2>1, <2>2, WrittenUnique
<1>12. CASE resolution = "keep"
  <2>1. Unique(c)
    BY <1>2, <1>4, <1>12 DEF Unique
  <2>2. Fits(c, plane)
    BY <1>2, <1>3, <1>4, <1>5, <1>6, <1>7, <1>8, <1>10, <1>12 DEF Fits
  <2> QED BY <1>2, <1>5, <1>6, <2>1, <2>2, WrittenUnique
<1>13. CASE resolution = "swap"
  <2>1. id \in Known /\ Planes[id].flarmId = old
    BY <1>3, <1>5, <1>7, <1>9, <1>13
  <2>2. cache' # c
    BY <1>2, <1>3, <1>9, <1>13, <2>1
  <2>3. cache' = Updated(c, plane)
    BY <1>5, <1>6, <2>1, <2>2 DEF WrittenOn, CacheInv, Sound, Known, Planes
  <2>4. /\ DOMAIN Updated(c, plane).planes = Known
        /\ \A i \in Known : Updated(c, plane).planes[i]
                           = IF i = id THEN plane ELSE c.planes[i]
    BY <1>2, <1>6, <2>1, UpdatedSound
  <2>5. /\ DOMAIN cache'.planes = Known
        /\ cache'.planes[id].flarmId = new /\ cache'.planes[other].flarmId = old
        /\ \A i \in Known \ {id, other} : cache'.planes[i] = Planes[i]
    BY <1>2, <1>3, <1>8, <1>13, <2>1, <2>3, <2>4
  <2>6. \A i \in Known \ {id, other} :
          Planes[i].flarmId # new /\ Planes[i].flarmId # old
    BY <1>3, <1>4, <1>9, <1>13, <2>1
  <2> QED BY <1>3, <1>4, <1>9, <1>13, <2>1, <2>5, <2>6 DEF Unique
<1> QED BY <1>1, <1>11, <1>12, <1>13

LEMMA ResolveInv ==
  ASSUME IInv, Resolve
  PROVE  IInv'
<1>1. PICK resolution \in Resolutions(dialog.plane.flarmId, dialog.edited.flarmId) :
        LET c   == OtherUpdated(cache, dialog, resolution)
            own == OwnId(resolution, dialog.plane.flarmId, dialog.edited.flarmId)
        IN  /\ IF dialog.asked \in Updates
               THEN /\ UpdatePlane(dialog.asked, c, dialog.plane, own)
                    /\ UNCHANGED nextId
               ELSE \/ Write(dialog, c, [dialog.edited EXCEPT !.flarmId = own])
                    \/ Unwritten(dialog, c)
            /\ excused' = (excused \/ Excuse(dialog, resolution))
  BY DEF Resolve, Updates
<1> DEFINE c   == OtherUpdated(cache, dialog, resolution)
           own == OwnId(resolution, dialog.plane.flarmId, dialog.edited.flarmId)
           toUpdate == [dialog.plane EXCEPT !.flarmId = own]
           toWrite  == [dialog.edited EXCEPT !.flarmId = own]
           Done == CacheInv' /\ FlightsInv' /\ SelectionInv' /\ DialogInv' /\ FormInv'
<1>2. dialog.at = "conflict" /\ flarmNet' = flarmNet
  BY DEF Resolve
<1>3. resolution \in {"clear", "keep", "swap", "ignore"}
  BY DEF Resolutions
<1>4. Sound(c) /\ DOMAIN c.planes = Known
  BY <1>2, <1>3, OtherWritten
<1>5. /\ dialog # NoDialog /\ dialog.plane \in Copies /\ dialog.edited \in Copies
      /\ own \in FlarmIds \cup {Blank} /\ dialog.edited.id = dialog.plane.id
  BY <1>2, InConflict DEF OwnId, ConflictInv
<1>6. ASSUME NEW plane \in Copies, plane.id = dialog.plane.id, plane.flarmId = own,
             WrittenOn(c, plane)
      PROVE  UniqueInv'
  <2>1. CASE excused \/ Excuse(dialog, resolution)
    BY <1>1, <2>1 DEF UniqueInv
  <2>2. CASE ~ excused /\ ~ Excuse(dialog, resolution)
    <3>1. Unique(cache)
      BY <2>2 DEF IInv, UniqueInv
    <3>2. Unique(cache')
      BY <1>2, <1>6, <2>2, <3>1, ResolveUnique
    <3> QED BY <3>2 DEF UniqueInv
  <2> QED BY <2>1, <2>2
<1>7. CASE dialog.asked \in Updates
  <2>1. /\ selection = <<>> /\ dialog.plane.id \in Known
        /\ dialog.asked = "saving" => form.at = "saving"
    BY <1>5, <1>7 DEF IInv, SelectionInv, DialogInv, Updates
  <2>2. UpdatePlane(dialog.asked, c, dialog.plane, own) /\ nextId' = nextId
    BY <1>1, <1>7
  <2> HIDE DEF c, own
  <2>3. Done /\ WrittenOn(c, toUpdate)
    BY <1>2, <1>4, <1>5, <1>7, <2>1, <2>2, UpdateStep
  <2>4. /\ toUpdate \in Copies /\ toUpdate.id = dialog.plane.id
        /\ toUpdate.flarmId = own
    BY <1>5 DEF Copies
  <2> QED BY <1>6, <2>3, <2>4 DEF IInv
<1>8. CASE dialog.asked \notin Updates
  <2>1. Write(dialog, c, toWrite) \/ Unwritten(dialog, c)
    BY <1>1, <1>8
  <2> HIDE DEF c, own
  <2>2. toWrite \in Copies /\ toWrite.id = dialog.plane.id /\ toWrite.flarmId = own
    BY <1>5 DEF Copies
  <2> HIDE DEF toWrite
  <2>3. Done /\ WrittenOn(c, toWrite)
    BY <1>2, <1>4, <1>5, <1>8, <2>1, <2>2, WriteStep
  <2> QED BY <1>6, <2>2, <2>3 DEF IInv
<1> QED BY <1>7, <1>8

LEMMA SameCache ==
  ASSUME IInv, UNCHANGED <<cache, nextId, excused>>
  PROVE  CacheInv' /\ UniqueInv' /\ Known' = Known /\ Known \subseteq Ids
BY DEF IInv, CacheInv, UniqueInv, Known, Planes, Sound

LEMMA ResolveCancelInv ==
  ASSUME IInv, ResolveCancel
  PROVE  IInv'
<1>1. dialog.at = "conflict" /\ flarmNet' = flarmNet /\ excused' = excused
  BY DEF ResolveCancel
<1>2. dialog # NoDialog
  BY <1>1, InConflict
<1>3. CASE dialog.asked \in Updates
  <2>1. Finish(dialog.asked, FALSE, FALSE) /\ UNCHANGED <<cache, nextId>>
    BY <1>3 DEF ResolveCancel, Updates
  <2>2. selection = <<>> /\ (dialog.asked = "saving" => form.at = "saving")
    BY <1>2, <1>3 DEF IInv, SelectionInv, DialogInv, Updates
  <2> QED BY <1>1, <1>3, <2>1, <2>2, FinishKeeps, SameCache DEF IInv
<1>4. CASE dialog.asked \notin Updates
  <2>1. Unwritten(dialog, cache)
    BY <1>4 DEF ResolveCancel, Updates
  <2>2. cache' = cache /\ nextId' = nextId
    BY <2>1 DEF Unwritten
  <2> QED BY <1>1, <1>2, <1>4, <2>1, <2>2, UnwrittenKeeps, SameCache DEF IInv
<1> QED BY <1>3, <1>4

LEMMA CheckAndUpdateInv ==
  ASSUME IInv, NEW asked \in Updates, selection = <<>>, NEW flight \in Flights,
         NEW plane \in Copies, plane.id \in Known,
         asked = "saving" => /\ form.at = "saving" /\ form.flight = flight
                             /\ form.plane = plane.id,
         CheckAndUpdate(asked, flight, plane),
         UNCHANGED <<nextId, flarmNet, excused>>
  PROVE  IInv'
<1> DEFINE new    == FlarmOf[flight]
           others == Conflicting(new, plane.id)
           edited == [plane EXCEPT !.flarmId = new]
<1>1. new \in FlarmIds /\ new # Blank
  BY PlaneAssumption
<1>2. edited \in Copies /\ edited.id = plane.id /\ edited.flarmId = new
  BY <1>1 DEF Copies
<1>3. others = {i \in Known : Planes[i].flarmId = new /\ i # plane.id}
  BY <1>1, Conflicts
<1>4. Sound(cache) /\ DOMAIN cache.planes = Known /\ cache.planes = Planes
  BY DEF IInv, CacheInv, Known, Planes
<1>5. \/ others = {} /\ UpdatePlane(asked, cache, plane, new)
      \/ \E other \in others :
           /\ dialog' = [Open("conflict", asked, flight, plane) EXCEPT
                          !.edited = edited, !.other = other]
           /\ UNCHANGED <<cache, selection, form, planeOf>>
  BY DEF CheckAndUpdate
<1> HIDE DEF new, others, edited
<1>6. CASE others = {} /\ UpdatePlane(asked, cache, plane, new)
  <2>1. /\ CacheInv' /\ FlightsInv' /\ SelectionInv' /\ DialogInv' /\ FormInv'
        /\ WrittenOn(cache, edited)
    BY <1>1, <1>4, <1>6, UpdateStep DEF edited
  <2>2. Fits(cache, edited)
    BY <1>2, <1>3, <1>4, <1>6 DEF Fits
  <2>3. UniqueInv'
    BY <1>2, <1>4, <2>1, <2>2, WrittenUnique DEF IInv, UniqueInv
  <2> QED BY <2>1, <2>3 DEF IInv
<1>7. ASSUME NEW other \in others,
             dialog' = [Open("conflict", asked, flight, plane) EXCEPT
                          !.edited = edited, !.other = other],
             UNCHANGED <<cache, selection, form, planeOf>>
      PROVE  IInv'
  <2>1. /\ CacheInv' /\ UniqueInv' /\ Known' = Known /\ Known \subseteq Ids
        /\ Planes' = Planes
    BY <1>7, SameCache DEF Planes
  <2>2. /\ dialog' \in Dialog /\ dialog'.at = "conflict" /\ dialog'.asked = asked
        /\ dialog'.flight = flight /\ dialog'.plane = plane
        /\ dialog'.edited = edited /\ dialog'.other = other
    BY <1>2, <1>3, <1>7, <2>1 DEF Open, Dialog, Asked, Updates
  <2>3. ConflictInv'
    BY <1>1, <1>2, <1>3, <1>7, <2>1, <2>2 DEF ConflictInv, CacheInv, new
  <2>4. DialogInv'
    BY <1>7, <2>1, <2>2, <2>3 DEF DialogInv, Updates, Within
  <2>5. SelectionInv' /\ FlightsInv' /\ FormInv'
    BY <1>7 DEF IInv, SelectionInv, FlightsInv, FormInv
  <2> QED BY <2>1, <2>4, <2>5 DEF IInv
<1> QED BY <1>5, <1>6, <1>7

LEMMA UpdateFlarmIdInv ==
  ASSUME IInv, NEW asked \in Updates, selection = <<>>, NEW flight \in Flights,
         NEW id, NEW original,
         asked = "saving" => /\ form.at = "saving" /\ form.flight = flight
                             /\ form.plane = id,
         UpdateFlarmId(asked, flight, id, original),
         UNCHANGED <<nextId, flarmNet, excused>>
  PROVE  IInv'
<1>1. ASSUME NEW refused \in BOOLEAN, Finish(asked, TRUE, refused), cache' = cache
      PROVE  IInv'
  BY <1>1, FinishKeeps, SameCache DEF IInv
<1>2. CASE id \notin Known
  BY <1>1, <1>2 DEF UpdateFlarmId
<1>3. CASE id \in Known
  <2> DEFINE plane == Planes[id]
  <2>1. plane \in Copies /\ plane.id = id
    BY <1>3 DEF IInv, CacheInv, Sound, Known, Planes
  <2>2. CASE plane.flarmId = FlarmOf[flight]
    BY <1>1, <1>3, <2>2 DEF UpdateFlarmId
  <2>3. CASE CheckAndUpdate(asked, flight, plane)
    BY <1>3, <2>1, <2>3, CheckAndUpdateInv
  <2>4. CASE /\ dialog' = Open("query", asked, flight, plane)
             /\ UNCHANGED <<cache, selection, form, planeOf>>
    <3> HIDE DEF plane
    <3>1. CacheInv' /\ UniqueInv' /\ Known' = Known
      BY <2>4, SameCache
    <3>2. asked \in Asked /\ (asked \in Within => form'.at # "closed")
      BY <2>4 DEF Updates, Asked, Within
    <3>3. DialogInv'
      BY <1>3, <2>1, <2>4, <3>1, <3>2, OpenKeeps DEF Updates
    <3>4. SelectionInv' /\ FlightsInv' /\ FormInv'
      BY <2>4 DEF IInv, SelectionInv, FlightsInv, FormInv
    <3> QED BY <3>1, <3>3, <3>4 DEF IInv
  <2> QED BY <1>3, <2>2, <2>3, <2>4 DEF UpdateFlarmId
<1> QED BY <1>2, <1>3

LEMMA AnswerUpdateInv ==
  ASSUME IInv, AnswerUpdate
  PROVE  IInv'
<1>1. dialog.at = "query" /\ UNCHANGED <<nextId, flarmNet, excused>>
  BY DEF AnswerUpdate
<1>2. dialog # NoDialog
  BY <1>1 DEF NoDialog
<1>3. /\ dialog.asked \in Updates /\ dialog.flight \in Flights
      /\ dialog.plane \in Copies /\ dialog.plane.id \in Known /\ selection = <<>>
      /\ dialog.asked = "saving" => /\ form.at = "saving"
                                    /\ form.flight = dialog.flight
                                    /\ form.plane = dialog.plane.id
  BY <1>1, <1>2 DEF IInv, DialogInv, Dialog, SelectionInv, Updates
<1>4. CASE CheckAndUpdate(dialog.asked, dialog.flight, dialog.plane)
  BY <1>1, <1>3, <1>4, CheckAndUpdateInv
<1>5. ASSUME NEW ok \in BOOLEAN, NEW refused \in BOOLEAN,
             Finish(dialog.asked, ok, refused), cache' = cache
      PROVE  IInv'
  BY <1>1, <1>3, <1>5, FinishKeeps, SameCache DEF IInv
<1> QED BY <1>4, <1>5 DEF AnswerUpdate

LEMMA AnswerIdentifyInv ==
  ASSUME IInv, AnswerIdentify
  PROVE  IInv'
<1>1. /\ dialog.at \in {"use", "create"}
      /\ UNCHANGED <<cache, nextId, flarmNet, excused>>
  BY DEF AnswerIdentify
<1>2. dialog # NoDialog
  BY <1>1 DEF NoDialog
<1>3. /\ dialog \in Dialog /\ dialog.asked \notin Updates
      /\ dialog.plane.id \in Known \cup {Nobody}
  BY <1>1, <1>2 DEF IInv, DialogInv
<1>4. CacheInv' /\ UniqueInv' /\ Known' = Known /\ Known \subseteq Ids
  BY <1>1, SameCache
<1>5. ASSUME NEW id \in Ids \cup {Nobody}, Return(dialog, id)
      PROVE  IInv'
  BY <1>1, <1>2, <1>3, <1>4, <1>5, ReturnKeeps DEF IInv
<1>6. CASE /\ dialog' = [dialog EXCEPT !.at = "editor"]
           /\ UNCHANGED <<selection, form, planeOf>>
  <2>1. /\ dialog' \in Dialog /\ dialog'.at = "editor" /\ dialog'.asked = dialog.asked
        /\ dialog'.plane = dialog.plane /\ dialog'.flight = dialog.flight
    BY <1>3, <1>6 DEF Dialog
  <2>2. DialogInv'
    BY <1>2, <1>3, <1>4, <1>6, <2>1 DEF IInv, DialogInv, Updates
  <2>3. dialog' # NoDialog
    BY <2>1 DEF NoDialog
  <2>4. SelectionInv' /\ FlightsInv' /\ FormInv'
    BY <1>1, <1>4, <1>6, <2>1, <2>3 DEF IInv, SelectionInv, FlightsInv, FormInv
  <2> QED BY <1>4, <2>2, <2>4 DEF IInv
<1> QED BY <1>3, <1>4, <1>5, <1>6 DEF AnswerIdentify

-----------------------------------------------------------------------------
(* What the user starts *)

LEMMA NothingOpen ==
  ASSUME IInv, dialog = NoDialog
  PROVE  selection = <<>>
BY DEF IInv, SelectionInv

LEMMA OpenedInv ==
  ASSUME IInv, dialog = NoDialog, UNCHANGED <<cache, nextId, flarmNet, planeOf, excused>>,
         FormInv', selection' = <<>>, dialog' = NoDialog \/ DialogInv'
  PROVE  IInv'
<1>1. DialogInv' /\ SelectionInv'
  BY DEF DialogInv, SelectionInv
<1>2. FlightsInv'
  BY DEF IInv, FlightsInv
<1> QED BY <1>1, <1>2, SameCache DEF IInv

LEMMA QuestionsOpen ==
  ASSUME IInv, NEW asked, NEW flight \in Flights,
         NEW question \in Questions(asked, flight)
  PROVE  \E at \in {"create", "use"}, plane \in Copies :
           /\ question = Open(at, asked, flight, plane)
           /\ plane.id \in Known \cup {Nobody}
<1>1. PICK found \in Lookup(cache, FlarmOf[flight]) :
        question = IF found.plane = Nobody
                   THEN Open("create", asked, flight,
                             [id |-> Nobody, registration |-> found.registration,
                              flarmId |-> FlarmOf[flight]])
                   ELSE Open("use", asked, flight, Planes[found.plane])
  BY DEF Questions
<1>2. /\ \A id \in IdsByFlarmId(cache, FlarmOf[flight]) : id \in Known
      /\ \A r : \A id \in {i \in Ids : <<r, i>> \in cache.byRegistration} : id \in Known
  <2>1. Sound(cache) /\ cache.planes = Planes /\ DOMAIN Planes = Known
    BY DEF IInv, CacheInv, Planes, Known
  <2>2. cache.byRegistration = {<<Planes[i].registration, i>> : i \in Known}
    BY <2>1 DEF Sound, Refreshed
  <2>3. IdsByFlarmId(cache, FlarmOf[flight]) \subseteq Known
    BY <2>1, FoundByFlarmId
  <2> QED BY <2>2, <2>3
<1>3. /\ found.plane \in Known \cup {Nobody}
      /\ found.registration \in Registrations \cup {Blank}
  <2>1. flarmNet[FlarmOf[flight]] \in Registrations \cup {Blank}
    BY PlaneAssumption DEF IInv, FlightsInv
  <2> DEFINE r == flarmNet[FlarmOf[flight]]
             ids == IdsByFlarmId(cache, FlarmOf[flight])
             registered == {i \in Ids : <<r, i>> \in cache.byRegistration}
             fitting == {i \in registered :
                           cache.planes[i].flarmId \in {Blank, FlarmOf[flight]}}
  <2>2. (\A id \in ids : id \in Known) /\ (\A id \in registered : id \in Known)
    BY <1>2
  <2>3. Lookup(cache, FlarmOf[flight])
        = IF ids # {} THEN {[plane |-> id, registration |-> Blank] : id \in ids}
          ELSE IF r = Blank THEN {}
          ELSE IF registered = {} THEN {[plane |-> Nobody, registration |-> r]}
          ELSE {[plane |-> id, registration |-> r] : id \in fitting}
    BY DEF Lookup
  <2>4. \A id \in fitting : id \in Known
    BY <2>2
  <2> HIDE DEF r, ids, registered, fitting
  <2>5. \/ \E id \in ids : found = [plane |-> id, registration |-> Blank]
        \/ found = [plane |-> Nobody, registration |-> r]
        \/ \E id \in fitting : found = [plane |-> id, registration |-> r]
    BY <2>3
  <2>6. r \in Registrations \cup {Blank}
    BY <2>1 DEF r
  <2> QED BY <2>2, <2>4, <2>5, <2>6
<1>4. CASE found.plane = Nobody
  <2> DEFINE plane == [id |-> Nobody, registration |-> found.registration,
                       flarmId |-> FlarmOf[flight]]
  <2>1. plane \in Copies /\ plane.id = Nobody
    BY <1>3, PlaneAssumption DEF Copies
  <2> QED BY <1>1, <1>4, <2>1
<1>5. CASE found.plane # Nobody
  <2>1. Planes[found.plane] \in Copies /\ Planes[found.plane].id \in Known
    BY <1>3, <1>5 DEF IInv, CacheInv, Sound, Known, Planes
  <2> QED BY <1>1, <1>5, <2>1
<1> QED BY <1>4, <1>5

LEMMA NewPlaneInv ==
  ASSUME IInv, NewPlane
  PROVE  IInv'
<1>1. /\ dialog = NoDialog /\ dialog' = Open("editor", "list", Blank, NoPlane)
      /\ UNCHANGED <<cache, nextId, flarmNet, planeOf, selection, form, excused>>
  BY DEF NewPlane, Starts, Idle
<1>2. NoPlane \in Copies /\ NoPlane.id = Nobody /\ NoPlane.flarmId = Blank
  BY DEF NoPlane, Copies
<1>3. DialogInv'
  BY <1>1, <1>2, OpenKeeps DEF Asked, Updates, Within
<1>4. FormInv' /\ selection' = <<>>
  BY <1>1, NothingOpen DEF IInv, FormInv
<1> QED BY <1>1, <1>3, <1>4, OpenedInv

LEMMA EditPlanesInv ==
  ASSUME IInv, EditPlanes
  PROVE  IInv'
<1>1. PICK n \in 1 .. MaxSelected : \E ids \in [1 .. n -> Known] :
        /\ dialog' = Open("editor", "list", Blank, Planes[ids[1]])
        /\ selection' = [i \in 1 .. n - 1 |-> Planes[ids[i + 1]]]
  BY DEF EditPlanes
<1>2. PICK ids \in [1 .. n -> Known] :
        /\ dialog' = Open("editor", "list", Blank, Planes[ids[1]])
        /\ selection' = [i \in 1 .. n - 1 |-> Planes[ids[i + 1]]]
  BY <1>1
<1>3. /\ dialog = NoDialog
      /\ UNCHANGED <<cache, nextId, flarmNet, planeOf, form, excused>>
  BY DEF EditPlanes, Starts, Idle
<1>4. CacheInv' /\ UniqueInv' /\ Known' = Known
  BY <1>3, SameCache
<1>5. \A id \in Known : Planes[id] \in Copies /\ Planes[id].id = id /\ id # Nobody
  BY DEF IInv, CacheInv, Sound, Known, Planes
<1>6. n \in Nat /\ n >= 1 /\ \A i \in 1 .. n : ids[i] \in Known
  OBVIOUS
<1>7. DialogInv'
  <2> DEFINE plane == Planes[ids[1]]
  <2>1. plane \in Copies /\ plane.id \in Known /\ plane.id # Nobody
    BY <1>5, <1>6
  <2>2. dialog' = Open("editor", "list", Blank, plane)
    BY <1>2
  <2> HIDE DEF plane
  <2> QED BY <1>4, <2>1, <2>2, OpenKeeps DEF Asked, Updates, Within
<1>8. SelectionInv'
  <2>1. \A i \in 1 .. n - 1 : Planes[ids[i + 1]] \in Copies
                            /\ Planes[ids[i + 1]].id \in Known
    BY <1>5, <1>6
  <2>2. n - 1 \in Nat
    BY <1>6
  <2>3. selection' \in Seq(Copies) /\ Len(selection') = n - 1
    BY <1>2, <2>1, <2>2
  <2>4. dialog' # NoDialog /\ dialog'.asked = "list"
    BY <1>2 DEF Open, NoDialog
  <2> QED BY <1>2, <1>4, <2>1, <2>3, <2>4 DEF SelectionInv
<1>9. FlightsInv' /\ FormInv'
  BY <1>3 DEF IInv, FlightsInv, FormInv
<1> QED BY <1>4, <1>7, <1>8, <1>9 DEF IInv

LEMMA DeletePlaneInv ==
  ASSUME IInv, DeletePlane
  PROVE  IInv'
<1>1. PICK id \in Known : cache' = Deleted(cache, id)
  BY DEF DeletePlane
<1>2. /\ dialog = NoDialog
      /\ UNCHANGED <<nextId, flarmNet, planeOf, selection, dialog, form, excused>>
  BY DEF DeletePlane, Starts, Idle
<1>3. Sound(cache) /\ cache.planes = Planes /\ DOMAIN Planes = Known
  BY DEF IInv, CacheInv, Planes, Known
<1>4. /\ Sound(cache')
      /\ cache'.planes = [other \in Known \ {id} |-> Planes[other]]
  BY <1>1, <1>3, DeletedSound
<1>5. /\ Known' = Known \ {id}
      /\ \A i \in Known \ {id} : Planes'[i] = Planes[i]
  BY <1>4 DEF Known, Planes
<1>6. CacheInv'
  BY <1>2, <1>4, <1>5 DEF IInv, CacheInv
<1>7. UniqueInv'
  BY <1>2, <1>3, <1>5 DEF IInv, UniqueInv, Unique, Known, Planes
<1>8. DialogInv' /\ SelectionInv'
  BY <1>2, ClosedKeeps, NothingOpen
<1>9. FlightsInv' /\ FormInv'
  BY <1>2 DEF IInv, FlightsInv, FormInv
<1> QED BY <1>6, <1>7, <1>8, <1>9 DEF IInv

LEMMA ImportInv ==
  ASSUME IInv, ImportFlarmNet
  PROVE  IInv'
<1>1. /\ dialog = NoDialog /\ UNCHANGED <<cache, nextId, planeOf, form, excused>>
      /\ UNCHANGED <<selection, dialog>>
      /\ flarmNet' \in {FlarmNetFile, [flarmId \in FlarmIds |-> Blank]}
  BY DEF ImportFlarmNet, Starts, Idle
<1>2. FlightsInv' /\ FormInv'
  BY <1>1, PlaneAssumption DEF IInv, FlightsInv, FormInv
<1>3. DialogInv' /\ SelectionInv'
  BY <1>1, ClosedKeeps, NothingOpen
<1> QED BY <1>1, <1>2, <1>3, SameCache DEF IInv

LEMMA IdentifyPlaneInv ==
  ASSUME IInv, IdentifyPlane
  PROVE  IInv'
<1>1. PICK flight \in Flights : dialog' \in Questions("identify", flight)
  BY DEF IdentifyPlane
<1>2. /\ dialog = NoDialog
      /\ UNCHANGED <<cache, nextId, flarmNet, planeOf, selection, form, excused>>
  BY DEF IdentifyPlane, Starts, Idle
<1>3. PICK at \in {"create", "use"}, plane \in Copies :
        /\ dialog' = Open(at, "identify", flight, plane)
        /\ plane.id \in Known \cup {Nobody}
  BY <1>1, QuestionsOpen
<1>4. Known' = Known
  BY <1>2, SameCache
<1>5. DialogInv'
  BY <1>3, <1>4, OpenKeeps DEF Asked, Updates, Within
<1>6. FormInv' /\ selection' = <<>>
  BY <1>2, NothingOpen DEF IInv, FormInv
<1> QED BY <1>2, <1>5, <1>6, OpenedInv

LEMMA UpdateThisFlarmIdInv ==
  ASSUME IInv, UpdateThisFlarmId
  PROVE  IInv'
<1>1. PICK flight \in Flights :
        UpdateFlarmId("update", flight, planeOf[flight], planeOf[flight])
  BY DEF UpdateThisFlarmId
<1>2. dialog = NoDialog /\ UNCHANGED <<nextId, flarmNet, excused>>
  BY DEF UpdateThisFlarmId, Starts, Idle
<1> QED BY <1>1, <1>2, NothingOpen, UpdateFlarmIdInv DEF Updates

-----------------------------------------------------------------------------
(* The flight window *)

LEMMA OpenFormInv ==
  ASSUME IInv, OpenForm
  PROVE  IInv'
<1>1. PICK flight \in Flights :
        LET questions == IF planeOf[flight] = Nobody
                         THEN Questions("opening", flight) ELSE {}
            opened == [NoForm EXCEPT !.flight = flight, !.original = planeOf[flight]]
        IN  \/ form' = [opened EXCEPT !.at = "open"] /\ UNCHANGED dialog
            \/ form' = [opened EXCEPT !.at = "opening"] /\ dialog' \in questions
  BY DEF OpenForm
<1>2. /\ dialog = NoDialog
      /\ UNCHANGED <<cache, nextId, flarmNet, planeOf, selection, excused>>
  BY DEF OpenForm, Starts, Idle
<1>3. planeOf[flight] \in Ids \cup {Nobody}
  BY DEF IInv, FlightsInv
<1>4. FormInv' /\ form'.at # "closed"
  BY <1>1, <1>3 DEF NoForm, FormInv, Form
<1>5. CASE dialog' \in Questions("opening", flight)
  <2>1. PICK at \in {"create", "use"}, plane \in Copies :
          /\ dialog' = Open(at, "opening", flight, plane)
          /\ plane.id \in Known \cup {Nobody}
    BY <1>5, QuestionsOpen
  <2>2. Known' = Known
    BY <1>2, SameCache
  <2>3. DialogInv'
    BY <1>4, <2>1, <2>2, OpenKeeps DEF Asked, Updates, Within
  <2> QED BY <1>2, <1>4, <2>3, NothingOpen, OpenedInv
<1>6. CASE dialog' = NoDialog
  BY <1>2, <1>4, <1>6, NothingOpen, OpenedInv
<1> QED BY <1>1, <1>2, <1>5, <1>6

LEMMA CloseFormInv ==
  ASSUME IInv, CloseForm
  PROVE  IInv'
<1>1. /\ dialog = NoDialog /\ form' = NoForm /\ dialog' = NoDialog
      /\ UNCHANGED <<cache, nextId, flarmNet, planeOf, selection, excused>>
  BY DEF CloseForm, Idle
<1>2. FormInv'
  BY <1>1 DEF FormInv, Form, NoForm
<1> QED BY <1>1, <1>2, NothingOpen, OpenedInv

LEMMA DetermineInv ==
  ASSUME IInv, dialog = NoDialog, form.at # "closed",
         NEW asked \in {"plane", "towplane"}, NEW found,
         \A id \in Ids : found[id] \in Form /\ found[id].at # "closed"
                        /\ found[id].flight = form.flight,
         Determine(asked, found),
         UNCHANGED <<cache, nextId, flarmNet, planeOf, selection, excused>>
  PROVE  IInv'
<1>1. form \in Form /\ form.flight \in Flights
  BY DEF IInv, FormInv
<1>2. PICK r \in Registrations :
        \/ \E id \in IdsByRegistration(r) : form' = found[id] /\ UNCHANGED dialog
        \/ /\ UNCHANGED form
           /\ dialog' = Open("editor", asked, form.flight,
                             [id |-> Nobody, registration |-> r,
                              flarmId |-> FlarmOf[form.flight]])
  BY DEF Determine
<1>3. CASE \E id \in IdsByRegistration(r) : form' = found[id] /\ UNCHANGED dialog
  <2>1. FormInv'
    BY <1>1, <1>3 DEF FormInv, IdsByRegistration
  <2> QED BY <1>3, <2>1, NothingOpen, OpenedInv
<1>4. CASE /\ UNCHANGED form
           /\ dialog' = Open("editor", asked, form.flight,
                             [id |-> Nobody, registration |-> r,
                              flarmId |-> FlarmOf[form.flight]])
  <2> DEFINE plane == [id |-> Nobody, registration |-> r,
                       flarmId |-> FlarmOf[form.flight]]
  <2>1. plane \in Copies /\ plane.id = Nobody
    BY <1>1, PlaneAssumption DEF Copies
  <2>2. dialog' = Open("editor", asked, form.flight, plane)
    BY <1>4
  <2> HIDE DEF plane
  <2>3. asked \in Asked /\ asked \notin Updates /\ asked # "list"
    BY DEF Asked, Updates
  <2>4. DialogInv'
    BY <1>1, <1>4, <2>1, <2>2, <2>3, OpenKeeps DEF Updates
  <2>5. FormInv'
    BY <1>4 DEF IInv, FormInv
  <2> QED BY <2>4, <2>5, NothingOpen, OpenedInv
<1> QED BY <1>2, <1>3, <1>4

LEMMA FormOkInv ==
  ASSUME IInv, FormOk \/ FormTowplane
  PROVE  IInv'
<1>1. /\ dialog = NoDialog /\ form.at # "closed" /\ form \in Form
      /\ UNCHANGED <<cache, nextId, flarmNet, planeOf, selection, excused>>
  BY DEF FormOk, FormTowplane, Idle, IInv, FormInv
<1> DEFINE glider == [id \in Ids |-> [form EXCEPT !.at = "towplane", !.plane = id]]
           tow    == [id \in Ids |-> [form EXCEPT !.at = "saving"]]
<1>2. \A id \in Ids : /\ glider[id] \in Form /\ glider[id].at # "closed"
                      /\ glider[id].flight = form.flight
  BY <1>1 DEF Form
<1>3. \A id \in Ids : /\ tow[id] \in Form /\ tow[id].at # "closed"
                      /\ tow[id].flight = form.flight
  BY <1>1 DEF Form
<1>4. \/ Determine("plane", glider) \/ Determine("towplane", tow)
      \/ /\ dialog' = NoDialog
         /\ \/ form' = [form EXCEPT !.at = "towplane", !.plane = Nobody]
            \/ form' = [form EXCEPT !.at = "saving"]
  BY <1>1 DEF FormOk, FormTowplane
<1> HIDE DEF glider, tow
<1>5. CASE Determine("plane", glider) \/ Determine("towplane", tow)
  BY <1>1, <1>2, <1>3, <1>5, DetermineInv
<1>6. CASE /\ dialog' = NoDialog
           /\ \/ form' = [form EXCEPT !.at = "towplane", !.plane = Nobody]
              \/ form' = [form EXCEPT !.at = "saving"]
  <2>1. FormInv'
    BY <1>1, <1>6 DEF IInv, FormInv, Form
  <2> QED BY <1>1, <1>6, <2>1, NothingOpen, OpenedInv
<1> QED BY <1>4, <1>5, <1>6

LEMMA FormSaveInv ==
  ASSUME IInv, FormSave
  PROVE  IInv'
<1>1. /\ dialog = NoDialog /\ form.at = "saving"
      /\ UpdateFlarmId("saving", form.flight, form.plane, form.original)
      /\ UNCHANGED <<nextId, flarmNet, excused>>
  BY DEF FormSave
<1>2. form.flight \in Flights
  BY <1>1 DEF IInv, FormInv
<1> QED BY <1>1, <1>2, NothingOpen, UpdateFlarmIdInv DEF Updates

LEMMA StepIInv == IInv /\ [Next]_vars => IInv'
<1> SUFFICES ASSUME IInv, [Next]_vars PROVE IInv'
  OBVIOUS
<1>1. CASE UNCHANGED vars
  <2>1. /\ UNCHANGED <<cache, nextId, excused>>
        /\ UNCHANGED <<flarmNet, planeOf, selection, dialog, form>>
    BY <1>1 DEF vars
  <2>2. CacheInv' /\ UniqueInv' /\ Known' = Known /\ Planes' = Planes
    BY <2>1, SameCache DEF Planes
  <2>3. ConflictInv' <=> ConflictInv
    BY <2>1, <2>2 DEF ConflictInv
  <2>4. DialogInv'
    BY <2>1, <2>2, <2>3 DEF IInv, DialogInv
  <2> QED BY <2>1, <2>2, <2>4 DEF IInv, SelectionInv, FlightsInv, FormInv
<1>2. CASE \/ EditorOk \/ EditorCancel \/ Resolve \/ ResolveCancel
           \/ AnswerUpdate \/ AnswerIdentify
  BY <1>2, EditorOkInv, EditorCancelInv, ResolveInv, ResolveCancelInv,
     AnswerUpdateInv, AnswerIdentifyInv
<1>3. CASE \/ NewPlane \/ EditPlanes \/ DeletePlane \/ ImportFlarmNet
           \/ IdentifyPlane \/ UpdateThisFlarmId
  BY <1>3, NewPlaneInv, EditPlanesInv, DeletePlaneInv, ImportInv,
     IdentifyPlaneInv, UpdateThisFlarmIdInv
<1>4. CASE OpenForm \/ CloseForm \/ FormOk \/ FormTowplane \/ FormSave
  BY <1>4, OpenFormInv, CloseFormInv, FormOkInv, FormSaveInv
<1> QED BY <1>1, <1>2, <1>3, <1>4 DEF Next

-----------------------------------------------------------------------------
(* A flight that has been saved *)

Saved == form.at = "saving" /\ form'.at = "closed" /\ ~ form'.refused

\* the plane of the form has the Flarm id of the flight
Given == /\ form.plane \in DOMAIN cache'.planes
         /\ cache'.planes[form.plane].flarmId = FlarmOf[form.flight]

LEMMA FinishSaves ==
  ASSUME IInv, Saved, NEW asked, NEW ok \in BOOLEAN, NEW refused \in BOOLEAN,
         Finish(asked, ok, refused)
  PROVE  asked = "saving" /\ ~ refused
<1>1. form \in Form
  BY DEF IInv, FormInv
<1>2. [form EXCEPT !.at = "open"].at = "open"
  BY <1>1 DEF Form
<1>3. [NoForm EXCEPT !.refused = refused].refused = refused
  BY DEF NoForm
<1> QED BY <1>2, <1>3 DEF Finish, Saved

LEMMA UpdateSaves ==
  ASSUME IInv, Saved, NEW asked, NEW c, Sound(c),
         NEW plane \in Copies, plane.id \in DOMAIN c.planes,
         NEW flarmId \in FlarmIds \cup {Blank},
         UpdatePlane(asked, c, plane, flarmId)
  PROVE  /\ asked = "saving" /\ flarmId # plane.flarmId
         /\ plane.id \in DOMAIN cache'.planes
         /\ cache'.planes[plane.id].flarmId = flarmId
<1> DEFINE new == [plane EXCEPT !.flarmId = flarmId]
<1>1. new \in Copies /\ new.id = plane.id /\ new.flarmId = flarmId
  BY DEF Copies
<1>2. asked = "saving" /\ flarmId # plane.flarmId
  BY FinishSaves DEF UpdatePlane
<1>3. cache' = Updated(c, new)
  <2>1. ~ Finish(asked, FALSE, FALSE)
    <3>1. [form EXCEPT !.at = "open"].at = "open"
      BY DEF IInv, FormInv, Form
    <3> QED BY <1>2, <3>1 DEF Finish, Saved
  <2> QED BY <1>2, <2>1 DEF UpdatePlane
<1> HIDE DEF new
<1>4. DOMAIN cache'.planes = DOMAIN c.planes /\ cache'.planes[new.id] = new
  BY <1>1, <1>3, UpdatedSound
<1> QED BY <1>1, <1>2, <1>4

LEMMA UpdateAsked ==
  ASSUME IInv, Saved, NEW asked, NEW c, NEW plane, NEW flarmId,
         UpdatePlane(asked, c, plane, flarmId)
  PROVE  asked = "saving"
<1> DEFINE refused == flarmId = plane.flarmId
<1>1. Finish(asked, TRUE, refused) \/ Finish(asked, FALSE, FALSE)
  BY DEF UpdatePlane
<1>2. refused \in BOOLEAN
  OBVIOUS
<1> HIDE DEF refused
<1>3. CASE Finish(asked, TRUE, refused)
  BY <1>2, <1>3, FinishSaves
<1>4. CASE Finish(asked, FALSE, FALSE)
  BY <1>4, FinishSaves
<1> QED BY <1>1, <1>3, <1>4

LEMMA CheckSaves ==
  ASSUME IInv, Saved, NEW asked, NEW plane \in Copies, plane.id \in Known,
         plane.id = form.plane, form.flight \in Flights,
         CheckAndUpdate(asked, form.flight, plane)
  PROVE  Given
<1>1. UpdatePlane(asked, cache, plane, FlarmOf[form.flight])
  BY DEF CheckAndUpdate, Saved
<1>2. Sound(cache) /\ plane.id \in DOMAIN cache.planes
      /\ FlarmOf[form.flight] \in FlarmIds
  BY PlaneAssumption DEF IInv, CacheInv, Known, Planes
<1> QED BY <1>1, <1>2, UpdateSaves DEF Given

LEMMA FormSaves ==
  ASSUME IInv, Saved, FormSave
  PROVE  Given
<1> DEFINE plane == Planes[form.plane]
<1>1. form.flight \in Flights
  BY DEF IInv, FormInv, Saved
<1>2. UpdateFlarmId("saving", form.flight, form.plane, form.original)
  BY DEF FormSave
<1>3. form.plane \in Known
  BY <1>2, FinishSaves DEF UpdateFlarmId
<1>4. plane \in Copies /\ plane.id = form.plane
  BY <1>3 DEF IInv, CacheInv, Sound, Known, Planes
<1>5. CASE plane.flarmId = FlarmOf[form.flight]
  BY <1>2, <1>3, <1>5 DEF UpdateFlarmId, Given, Known, Planes
<1>6. CASE CheckAndUpdate("saving", form.flight, plane)
  BY <1>1, <1>3, <1>4, <1>6, CheckSaves
<1> QED BY <1>2, <1>3, <1>5, <1>6 DEF UpdateFlarmId, Saved

\* a dialog that the window waits for with the flight is about its flight
LEMMA SavingDialog ==
  ASSUME IInv, dialog # NoDialog, dialog.asked = "saving"
  PROVE  /\ dialog.plane \in Copies /\ dialog.plane.id \in Known
         /\ form.plane = dialog.plane.id /\ form.flight = dialog.flight
         /\ form.flight \in Flights
BY DEF IInv, DialogInv, Dialog, Updates

LEMMA AnswerSaves ==
  ASSUME IInv, Saved, AnswerUpdate
  PROVE  Given
<1>1. dialog # NoDialog
  BY DEF AnswerUpdate, NoDialog
<1>2. CheckAndUpdate(dialog.asked, dialog.flight, dialog.plane)
  <2>1. ~ Finish(dialog.asked, TRUE, TRUE)
    BY FinishSaves
  <2>2. ~ Finish("saving", FALSE, FALSE)
    <3>1. [form EXCEPT !.at = "open"].at = "open"
      BY DEF IInv, FormInv, Form
    <3> QED BY <3>1 DEF Finish, Saved
  <2> QED BY <2>1, <2>2 DEF AnswerUpdate
<1>3. dialog.asked = "saving"
  BY <1>2, UpdateAsked DEF CheckAndUpdate, Saved
<1> QED BY <1>1, <1>2, <1>3, SavingDialog, CheckSaves

LEMMA ReturnStays ==
  ASSUME IInv, NEW d, NEW id, Return(d, id)
  PROVE  ~ Saved
<1>1. form \in Form
  BY DEF IInv, FormInv
<1>2. /\ [form EXCEPT !.at = "open"].at = "open"
      /\ [form EXCEPT !.at = "towplane", !.plane = id].at = "towplane"
      /\ [form EXCEPT !.at = "saving"].at = "saving"
  BY <1>1 DEF Form
<1> QED BY <1>2 DEF Return, Saved

LEMMA ResolveSaves ==
  ASSUME IInv, Saved, Resolve
  PROVE  Given
<1>1. dialog.at = "conflict"
  BY DEF Resolve
<1>2. PICK resolution \in Resolutions(dialog.plane.flarmId, dialog.edited.flarmId) :
        LET c   == OtherUpdated(cache, dialog, resolution)
            own == OwnId(resolution, dialog.plane.flarmId, dialog.edited.flarmId)
        IN  IF dialog.asked \in {"update", "saving"}
            THEN UpdatePlane(dialog.asked, c, dialog.plane, own)
            ELSE \/ Write(dialog, c, [dialog.edited EXCEPT !.flarmId = own])
                 \/ Unwritten(dialog, c)
  BY DEF Resolve
<1> DEFINE c   == OtherUpdated(cache, dialog, resolution)
           own == OwnId(resolution, dialog.plane.flarmId, dialog.edited.flarmId)
<1>3. ~ Unwritten(dialog, c)
  BY DEF Unwritten, Saved
<1>4. ~ Write(dialog, c, [dialog.edited EXCEPT !.flarmId = own])
  BY ReturnStays DEF Write
<1>5. UpdatePlane(dialog.asked, c, dialog.plane, own)
  BY <1>2, <1>3, <1>4
<1>6. dialog.asked = "saving"
  BY <1>5, UpdateAsked
<1>7. /\ dialog # NoDialog /\ ConflictInv
      /\ dialog.plane.flarmId \in FlarmIds \cup {Blank}
      /\ dialog.edited.flarmId \in FlarmIds \cup {Blank}
  BY <1>1, InConflict
<1>8. dialog.edited.flarmId = FlarmOf[form.flight]
  BY <1>6, <1>7, SavingDialog DEF ConflictInv, Updates
<1>9. resolution \in {"clear", "keep", "swap", "ignore"}
  BY DEF Resolutions
<1>10. Sound(c) /\ DOMAIN c.planes = Known
  BY <1>1, <1>9, OtherWritten
<1>11. own \in {dialog.plane.flarmId, dialog.edited.flarmId}
  BY DEF OwnId
<1> HIDE DEF c, own
<1>12. /\ own # dialog.plane.flarmId
       /\ dialog.plane.id \in DOMAIN cache'.planes
       /\ cache'.planes[dialog.plane.id].flarmId = own
  BY <1>5, <1>6, <1>7, <1>10, <1>11, SavingDialog, UpdateSaves
<1> QED BY <1>6, <1>7, <1>8, <1>11, <1>12, SavingDialog DEF Given

LEMMA OnlySaves ==
  ASSUME IInv, Saved, [Next]_vars
  PROVE  Given
<1>1. form'.at # form.at /\ form.at \notin {"closed", "open"}
  BY DEF Saved
<1>2. ~ UNCHANGED vars
  BY <1>1 DEF vars
<1>3. ~ EditorOk
  BY <1>1, ReturnStays DEF EditorOk, Write, Unwritten
<1>4. ~ EditorCancel /\ ~ AnswerIdentify
  BY <1>1, ReturnStays DEF EditorCancel, AnswerIdentify
<1>5. ~ ResolveCancel
  <2>1. ~ Unwritten(dialog, cache)
    BY <1>1 DEF Unwritten
  <2>2. ~ Finish(dialog.asked, FALSE, FALSE)
    <3>1. [form EXCEPT !.at = "open"].at = "open"
      BY DEF IInv, FormInv, Form
    <3>2. [NoForm EXCEPT !.refused = FALSE].at = "closed"
      BY DEF NoForm
    <3> QED BY <3>1 DEF Finish, Saved
  <2> QED BY <2>1, <2>2 DEF ResolveCancel
<1>6. ~ NewPlane /\ ~ EditPlanes /\ ~ DeletePlane /\ ~ ImportFlarmNet
      /\ ~ IdentifyPlane /\ ~ UpdateThisFlarmId /\ ~ OpenForm /\ ~ CloseForm /\ ~ FormOk
  BY <1>1 DEF NewPlane, EditPlanes, DeletePlane, ImportFlarmNet, IdentifyPlane,
              UpdateThisFlarmId, OpenForm, CloseForm, FormOk, Starts, Idle
<1>7. ~ FormTowplane
  BY <1>1 DEF FormTowplane, Saved
<1> QED BY <1>2, <1>3, <1>4, <1>5, <1>6, <1>7, FormSaves, AnswerSaves, ResolveSaves
        DEF Next

LEMMA GivenIsFound ==
  ASSUME IInv, IInv', Given, ~ excused', form.flight \in Flights
  PROVE  {found.plane : found \in Lookup(cache', FlarmOf[form.flight])} = {form.plane}
<1> DEFINE c == cache'
           flarmId == FlarmOf[form.flight]
<1>1. Sound(c) /\ Unique(c) /\ flarmId # Blank
  BY PlaneAssumption DEF IInv, CacheInv, UniqueInv
<1>2. form.plane \in DOMAIN c.planes /\ c.planes[form.plane].flarmId = flarmId
  BY DEF Given
<1> HIDE DEF c, flarmId
<1>3. IdsByFlarmId(c, flarmId) = {form.plane}
  BY <1>1, <1>2, FoundByFlarmId DEF Unique
<1>4. Lookup(c, flarmId) = {[plane |-> form.plane, registration |-> Blank]}
  BY <1>3 DEF Lookup
<1>5. {found.plane : found \in Lookup(c, flarmId)} = {form.plane}
  BY <1>4
<1> QED BY <1>5 DEF c, flarmId

-----------------------------------------------------------------------------
(* For every behaviour *)

\* Whatever the user does in the windows, and whichever writes are canceled,
\* the hashes of planes in the cache are those that reading the planes anew
\* would give. (Cache_hashUpdates.cpp)
THEOREM HashesRight == Spec => []HashesAgree
<1>1. IInv => HashesAgree
  BY DEF IInv, CacheInv, Sound, HashesAgree, Planes
<1> QED BY <1>1, InitIInv, StepIInv, PTL DEF Spec

\* However the planes with a conflict are resolved, from the list, in the
\* flight window or for a flight, no Flarm id ends up with two planes, unless
\* it was excused. (FlarmIdCheck)
THEOREM IdsUnique == Spec => []IdsAreUnique
<1>1. IInv => IdsAreUnique
  BY DEF IInv, UniqueInv, Unique, IdsAreUnique, Known, Planes
<1> QED BY <1>1, InitIInv, StepIInv, PTL DEF Spec

\* After a flight has been saved with its plane given the Flarm id, the next
\* lookup by this id finds that plane and no other. (FlarmIdUpdate)
THEOREM SavedFound == Spec => SavedIsFound
<1>1. ASSUME IInv, IInv', [Next]_vars
      PROVE  [form.at = "saving" /\ form'.at = "closed" /\ ~ form'.refused /\ ~ excused'
              => {found.plane : found \in Lookup(cache', FlarmOf[form.flight])}
                 = {form.plane}]_vars
  <2> SUFFICES ASSUME Saved, ~ excused'
               PROVE  {found.plane : found \in Lookup(cache', FlarmOf[form.flight])}
                      = {form.plane}
    BY DEF Saved
  <2>1. Given
    BY <1>1, OnlySaves
  <2>2. form.flight \in Flights
    BY <1>1 DEF IInv, FormInv, Saved
  <2> QED BY <1>1, <2>1, <2>2, GivenIsFound
<1> QED BY <1>1, InitIInv, StepIInv, PTL DEF Spec, SavedIsFound
=============================================================================
