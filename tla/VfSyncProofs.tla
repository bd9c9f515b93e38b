---------------------------- MODULE VfSyncProofs ----------------------------
(***************************************************************************)
(* For any number of flights, saves, entries and mishaps: what is at       *)
(* VereinsFlieger is known, what is marked is there, and what was entered  *)
(* is kept, with the exceptions that the properties name.                  *)
(***************************************************************************)
EXTENDS VfSync, SequenceTheorems, TLAPS

-----------------------------------------------------------------------------
(* The inductive invariant *)

\* an entry that is remembered for a flight is one of this flight
Held(vf, f) == vf # 0 => vf \in 1 .. Len(entries) /\ entries[vf].flight = f

UpToDate(row) ==
  /\ row.vf # 0 /\ entries[row.vf].form = row.form
  /\ entries[row.vf].landed => row.landed

EntriesInv == \A n \in 1 .. Len(entries) : entries[n].flight \in 1 .. lastId

RowsInv ==
  \A f \in DOMAIN rows : /\ Held(rows[f].vf, f)
                         /\ rows[f].uploaded => UpToDate(rows[f])

\* what an open window knows of its flight
EditorInv ==
  /\ editor.phase = "closed" => editor.id = 0
  /\ editor.id \in {0} \cup DOMAIN rows
  /\ editor.id = 0 => editor.vf = 0
  /\ editor.id # 0 => /\ Held(editor.vf, editor.id)
                      /\ editor.seen = rows[editor.id].landed
                      /\ editor.landed = rows[editor.id].landed
                           \/ editor.id \in overtaken
  /\ InDialog =>
       /\ editor.flight.vf = editor.vf /\ ~ editor.flight.uploaded
       /\ Target \in Flights
       /\ editor.id # 0 /\ editor.id \notin overtaken /\ rows[editor.id].landed
            => editor.flight.landed

\* a flight of which a copy waits to be written back
PendingInv(f) ==
  /\ f \in DOMAIN rows
  /\ Held(Copy(f).vf, f) /\ ~ rows[f].uploaded
  /\ f \notin doubtful => Copy(f).vf = rows[f].vf
  /\ f \notin overtaken => /\ Copy(f).form = rows[f].form
                           /\ Copy(f).landed = rows[f].landed

\* the entry that the server has stored for the current flight
StoredEntry == IF Copy(sync.current).vf = 0 THEN Len(entries)
               ELSE Copy(sync.current).vf

SyncInv ==
  /\ sync.stage = "upload" =>
       /\ sync.current \in Flights \ sync.left /\ sync.request # "none"
       /\ \A f \in Pending : PendingInv(f)
       /\ sync.request = "stored" =>
            /\ StoredEntry \in 1 .. Len(entries)
            /\ entries[StoredEntry] = Entry(sync.current, Copy(sync.current))
  /\ sync.stage # "upload" => sync.request = "none"

\* it is not yet remembered where the flight was added
JustAdded(n, f) == /\ sync.stage = "upload" /\ sync.request = "stored"
                   /\ sync.current = f /\ Copy(f).vf = 0 /\ n = Len(entries)

KnownInv ==
  \A n \in 1 .. Len(entries), f \in DOMAIN rows \ doubtful :
    entries[n].flight = f => rows[f].vf = n \/ JustAdded(n, f)

ToldInv ==
  /\ \A f \in DOMAIN rows \ overtaken :
       rows[f].form = told[f].form /\ (told[f].landed => rows[f].landed)
  /\ \A f \in Flights : f > lastId => ~ told[f].landed

IInv == /\ TypeOK /\ EntriesInv /\ RowsInv /\ EditorInv /\ SyncInv
        /\ KnownInv /\ ToldInv

EntryRecords == [flight : Flights, form : 0 .. MaxSaves, landed : BOOLEAN]

USE EditorAssumption, SyncAssumption

-----------------------------------------------------------------------------
(* Lemmas about single operators *)

LEMMA BlankIsFlight == Blank \in Flight
BY DEF Blank, Flight

LEMMA IdleIsSync == Idle \in Sync
BY DEF Idle, Sync, Blank, Flight

\* what the loop makes of the worker: a flight of those left, or the end
LEMMA NextFlightStep ==
  ASSUME NEW s \in Sync, NEW t \in NextFlight(s)
  PROVE  /\ t \in Sync
         /\ t.stage = "signout" => t.request = "none"
         /\ t.stage # "signout" =>
              /\ t.stage = "upload" /\ t.request = "sent"
              /\ t.current \in s.left /\ t.left = s.left \ {t.current}
              /\ t.snapshot = s.snapshot
<1>1. CASE s.left = {} \/ s.cancelled
  <2>1. t = [Idle EXCEPT !.stage = "signout", !.cancelled = s.cancelled]
    BY <1>1 DEF NextFlight
  <2>2. t.stage = "signout" /\ t.request = "none"
    BY <2>1 DEF Idle
  <2>3. t \in Sync
    <3>1. s.cancelled \in BOOLEAN
      BY DEF Sync
    <3> QED BY <2>1, <3>1, IdleIsSync DEF Sync
  <2> QED BY <2>2, <2>3
<1>2. CASE ~ (s.left = {} \/ s.cancelled)
  <2>1. PICK f \in s.left :
          t = [s EXCEPT !.stage = "upload", !.left = @ \ {f}, !.current = f,
                        !.request = "sent"]
    BY <1>2 DEF NextFlight
  <2>2. f \in 0 .. MaxFlights
    BY <2>1 DEF Sync, Flights
  <2>3. /\ t.stage = "upload" /\ t.request = "sent" /\ t.current = f
        /\ t.left = s.left \ {f} /\ t.snapshot = s.snapshot
    BY <2>1 DEF Sync
  <2>4. t \in Sync
    BY <2>1, <2>2 DEF Sync
  <2> QED BY <2>3, <2>4
<1> QED BY <1>1, <1>2

-----------------------------------------------------------------------------
(* The entries *)

\* The entries of a flight stay its, and an uploaded one stays as it is.
EntriesKept ==
  /\ \A n \in 1 .. Len(entries) :
       n \in 1 .. Len(entries') /\ entries'[n].flight = entries[n].flight
  /\ \A n \in 1 .. Len(entries') :
       n \notin 1 .. Len(entries) => entries'[n].flight \in DOMAIN rows
  /\ \A f \in DOMAIN rows :
       rows[f].uploaded => entries'[rows[f].vf] = entries[rows[f].vf]

StoreAt(n) ==
  /\ entries' \in Seq(EntryRecords) /\ Len(entries') <= MaxEntries
  /\ 1 .. Len(entries') = 1 .. Len(entries) \cup {n}
  /\ n \in Nat \ {0}
  /\ entries'[n] = Entry(sync.current, Copy(sync.current))
  /\ \A m \in 1 .. Len(entries) : m # n => entries'[m] = entries[m]
  /\ IF Copy(sync.current).vf = 0
     THEN n = Len(entries') /\ n \notin 1 .. Len(entries)
     ELSE n = Copy(sync.current).vf /\ n \in 1 .. Len(entries)

LEMMA StoreFacts ==
  ASSUME TypeOK, RowsInv, SyncInv, sync.stage = "upload", Store
  PROVE  \E n : StoreAt(n) /\ EntriesKept
<1> DEFINE f == sync.current
           c == sync.snapshot[f]
           e == Entry(f, c)
<1>1. /\ sync \in Sync /\ f \in Flights /\ f \in Pending /\ PendingInv(f)
      /\ entries \in Seq(EntryRecords)
  BY DEF TypeOK, SyncInv, Pending, EntryRecords
<1>2. c \in Flight
  BY <1>1 DEF Sync
<1>3. e \in EntryRecords
  BY <1>1, <1>2 DEF Entry, EntryRecords, Flight
<1>4. e.flight = f /\ f \in DOMAIN rows /\ ~ rows[f].uploaded /\ Held(c.vf, f)
  BY <1>1 DEF Entry, PendingInv, Copy
<1>5. Len(entries) \in Nat /\ Len(entries) <= MaxEntries
  BY <1>1, LenProperties DEF TypeOK
<1> HIDE DEF e
<1>8. \A g \in DOMAIN rows : rows[g].uploaded =>
        rows[g].vf \in 1 .. Len(entries) /\ entries[rows[g].vf].flight = g
  BY DEF RowsInv, UpToDate, Held
<1>6. CASE c.vf = 0
  <2>1. entries' = Append(entries, e) /\ Len(entries) < MaxEntries
    BY <1>6 DEF Store, AddFlight, Copy, e
  <2>2. /\ entries' \in Seq(EntryRecords) /\ Len(entries') = Len(entries) + 1
        /\ \A m \in 1 .. Len(entries) : entries'[m] = entries[m]
        /\ entries'[Len(entries) + 1] = e
    BY <1>1, <1>3, <2>1, AppendProperties
  <2>3. StoreAt(Len(entries) + 1)
    BY <1>5, <1>6, <2>1, <2>2 DEF StoreAt, Copy, e
  <2> QED BY <1>4, <1>5, <1>8, <2>2, <2>3 DEF EntriesKept
<1>7. CASE c.vf # 0
  <2>1. entries' = [entries EXCEPT ![c.vf] = e]
    BY <1>7 DEF Store, EditEntry, Copy, e
  <2>2. c.vf \in 1 .. Len(entries) /\ entries[c.vf].flight = f
    BY <1>4, <1>7 DEF Held
  <2>3. /\ entries' \in Seq(EntryRecords) /\ Len(entries') = Len(entries)
        /\ \A m \in 1 .. Len(entries) : entries'[m] = IF m = c.vf THEN e ELSE entries[m]
    BY <1>1, <1>3, <2>1, <2>2, ExceptSeq
  <2>4. StoreAt(c.vf)
    BY <1>5, <1>7, <2>2, <2>3 DEF StoreAt, Copy, e
  <2>5. \A g \in DOMAIN rows : rows[g].uploaded => rows[g].vf # c.vf
    BY <1>4, <1>8, <2>2
  <2> QED BY <1>4, <1>8, <2>2, <2>3, <2>4, <2>5 DEF EntriesKept
<1> QED BY <1>6, <1>7

\* What concerns neither the worker nor the way its entries are remembered.
LEMMA RestKept ==
  ASSUME IInv, EntriesKept, UNCHANGED <<editorVars, told, overtaken>>
  PROVE  EntriesInv' /\ RowsInv' /\ EditorInv' /\ ToldInv'
<1>1. /\ rows' = rows /\ lastId' = lastId /\ editor' = editor
      /\ told' = told /\ overtaken' = overtaken
  BY DEF editorVars
<1>2. EntriesInv'
  BY <1>1 DEF EntriesInv, EntriesKept, IInv, TypeOK, EditorTypeOK
<1>3. ASSUME NEW vf, NEW f, Held(vf, f)
      PROVE  Held(vf, f)'
  BY <1>3 DEF Held, EntriesKept
<1>4. RowsInv'
  BY <1>1, <1>3 DEF RowsInv, UpToDate, EntriesKept, IInv
<1>5. EditorInv'
  BY <1>1, <1>3 DEF EditorInv, InDialog, Target, IInv
<1>6. ToldInv'
  BY <1>1 DEF ToldInv, IInv
<1> QED BY <1>2, <1>4, <1>5, <1>6

LEMMA NothingStored ==
  ASSUME IInv, entries' = entries
  PROVE  EntriesKept
BY DEF EntriesKept, IInv

\* A copy that waits is as good after a step of the worker as before it.
LEMMA PendingKept ==
  ASSUME EntriesKept, UNCHANGED <<rows, overtaken>>, doubtful \subseteq doubtful',
         sync'.snapshot = sync.snapshot, NEW f, PendingInv(f)
  PROVE  PendingInv(f)'
BY DEF EntriesKept, PendingInv, Copy, Held

-----------------------------------------------------------------------------
(* The steps of the worker *)

\* what a step of the worker that writes no row has to see to
WorkerKeeps ==
  /\ UNCHANGED <<editorVars, told, overtaken>>
  /\ entries' \in Seq(EntryRecords) /\ Len(entries') <= MaxEntries
  /\ EntriesKept
  /\ mishaps' \in 0 .. MaxMishaps
  /\ doubtful \subseteq doubtful' /\ doubtful' \subseteq Flights

\* nothing is on its way to be remembered
KnownForSure ==
  \A n \in 1 .. Len(entries'), f \in DOMAIN rows \ doubtful' :
    entries'[n].flight = f => rows[f].vf = n

LEMMA WorkerStep ==
  ASSUME IInv, WorkerKeeps, sync' \in Sync, SyncInv', KnownInv'
  PROVE  IInv'
<1>1. EntriesInv' /\ RowsInv' /\ EditorInv' /\ ToldInv'
  BY RestKept DEF WorkerKeeps
<1>2. EditorTypeOK'
  BY DEF WorkerKeeps, editorVars, IInv, TypeOK, EditorTypeOK
<1>3. TypeOK'
  BY <1>2 DEF WorkerKeeps, TypeOK, IInv, EntryRecords
<1> QED BY <1>1, <1>3 DEF IInv

LEMMA UnchangedEntries ==
  ASSUME IInv, UNCHANGED <<editorVars, told, overtaken, entries, doubtful>>,
         mishaps' = mishaps \/ Mishap
  PROVE  WorkerKeeps
BY NothingStored DEF WorkerKeeps, IInv, TypeOK, EntryRecords, Mishap

\* the steps before and after the uploads
LEMMA OutsideStep ==
  ASSUME IInv, UNCHANGED <<editorVars, history, entries>>,
         mishaps' = mishaps \/ Mishap, sync.stage # "upload",
         sync' \in Sync, sync'.stage # "upload", sync'.request = "none"
  PROVE  IInv'
<1>1. WorkerKeeps
  BY UnchangedEntries DEF history
<1>2. SyncInv'
  BY DEF SyncInv
<1>3. KnownInv'
  BY DEF KnownInv, JustAdded, IInv, history, editorVars
<1> QED BY <1>1, <1>2, <1>3, WorkerStep

LEMMA LoopStep ==
  ASSUME IInv, WorkerKeeps, KnownForSure, sync.stage = "upload",
         NEW s \in Sync, s.left = sync.left, s.snapshot = sync.snapshot,
         sync' \in NextFlight(s)
  PROVE  IInv'
<1>1. /\ sync' \in Sync
      /\ sync'.stage = "signout" => sync'.request = "none"
      /\ sync'.stage # "signout" =>
           /\ sync'.stage = "upload" /\ sync'.request = "sent"
           /\ sync'.current \in sync.left /\ sync'.left = sync.left \ {sync'.current}
           /\ sync'.snapshot = sync.snapshot
  BY NextFlightStep
<1>2. SyncInv'
  <2>1. CASE sync'.stage = "signout"
    BY <1>1, <2>1 DEF SyncInv
  <2>2. CASE sync'.stage # "signout"
    <3>1. Pending' \subseteq Pending /\ sync'.current \in Flights
      BY <1>1, <2>2 DEF Pending, IInv, TypeOK, Sync
    <3>2. ASSUME NEW f \in Pending'
          PROVE  PendingInv(f)'
      <4>1. PendingInv(f)
        BY <3>1, <3>2 DEF IInv, SyncInv
      <4> QED BY <1>1, <2>2, <4>1, PendingKept DEF WorkerKeeps, editorVars
    <3> QED BY <1>1, <2>2, <3>1, <3>2 DEF SyncInv
  <2> QED BY <2>1, <2>2
<1>3. KnownInv'
  BY DEF KnownInv, KnownForSure, WorkerKeeps, editorVars
<1> QED BY <1>1, <1>2, <1>3, WorkerStep

LEMMA ServerStoresStep ==
  ASSUME IInv, ServerStores
  PROVE  IInv'
<1>1. /\ sync.request = "sent" /\ Store /\ sync' = [sync EXCEPT !.request = "stored"]
      /\ UNCHANGED <<rows, lastId, editor, saves, mishaps, told, overtaken, doubtful>>
  BY DEF ServerStores, editorVars, history
<1>2. sync.stage = "upload" /\ sync \in Sync
  BY <1>1 DEF IInv, SyncInv, TypeOK
<1>3. /\ sync' \in Sync /\ sync'.stage = "upload" /\ sync'.request = "stored"
      /\ sync'.current = sync.current /\ sync'.left = sync.left
      /\ sync'.snapshot = sync.snapshot
  BY <1>1, <1>2 DEF Sync
<1>4. PICK n : StoreAt(n) /\ EntriesKept
  BY <1>1, <1>2, StoreFacts DEF IInv
<1>5. WorkerKeeps
  BY <1>1, <1>4 DEF WorkerKeeps, StoreAt, editorVars, IInv, TypeOK
<1>6. SyncInv'
  <2>1. Pending' = Pending
    BY <1>2, <1>3 DEF Pending
  <2>2. ASSUME NEW f \in Pending
        PROVE  PendingInv(f)'
    <3>1. PendingInv(f)
      BY <1>2 DEF IInv, SyncInv
    <3> QED BY <1>1, <1>3, <1>4, <3>1, PendingKept
  <2>3. StoredEntry' = n
    BY <1>3, <1>4 DEF StoredEntry, StoreAt, Copy
  <2>4. n \in 1 .. Len(entries') /\ entries'[n] = Entry(sync.current, Copy(sync.current))
    BY <1>4 DEF StoreAt
  <2>5. Entry(sync.current, Copy(sync.current))' = Entry(sync.current, Copy(sync.current))
    BY <1>3 DEF Entry, Copy
  <2> QED BY <1>2, <1>3, <2>1, <2>2, <2>3, <2>4, <2>5 DEF SyncInv, IInv
<1>7. KnownInv'
  <2> SUFFICES ASSUME NEW m \in 1 .. Len(entries'), NEW f \in DOMAIN rows \ doubtful,
                      entries'[m].flight = f
               PROVE  rows[f].vf = m \/ JustAdded(m, f)'
    BY <1>1 DEF KnownInv
  <2>1. CASE m \in 1 .. Len(entries)
    <3>1. entries[m].flight = f /\ ~ JustAdded(m, f)
      BY <1>1, <1>4, <2>1 DEF EntriesKept, JustAdded
    <3> QED BY <2>1, <3>1 DEF KnownInv, IInv
  <2>2. CASE m \notin 1 .. Len(entries)
    <3>1. m = n /\ Copy(sync.current).vf = 0 /\ n = Len(entries')
      BY <1>4, <2>2 DEF StoreAt
    <3>2. entries'[n].flight = sync.current
      BY <1>4 DEF StoreAt, Entry
    <3> QED BY <1>3, <3>1, <3>2 DEF JustAdded, Copy
  <2> QED BY <2>1, <2>2
<1> QED BY <1>3, <1>5, <1>6, <1>7, WorkerStep

LEMMA RefusedStep ==
  ASSUME IInv, sync.request = "refused", UNCHANGED <<editorVars, entries, history>>,
         mishaps' = mishaps \/ Mishap,
         NEW s \in Sync, s.left = sync.left, s.snapshot = sync.snapshot,
         sync' \in NextFlight(s)
  PROVE  IInv'
<1>1. WorkerKeeps
  BY UnchangedEntries DEF history
<1>2. sync.stage = "upload"
  BY DEF IInv, SyncInv
<1>3. KnownForSure
  BY DEF KnownForSure, IInv, KnownInv, JustAdded, history
<1> QED BY <1>1, <1>2, <1>3, LoopStep

LEMMA UnansweredStep ==
  ASSUME IInv, NEW s \in Sync, s.left = sync.left, s.snapshot = sync.snapshot,
         Unanswered(NextFlight(s))
  PROVE  IInv'
<1> DEFINE f == sync.current
<1>1. /\ sync.request \in {"sent", "stored"} /\ Mishap /\ sync' \in NextFlight(s)
      /\ UNCHANGED entries \/ (sync.request = "sent" /\ Store)
      /\ doubtful' = IF Copy(f).vf = 0 THEN doubtful \cup {f} ELSE doubtful
      /\ UNCHANGED <<rows, lastId, editor, saves, told, overtaken>>
  BY DEF Unanswered, editorVars
<1>2. sync.stage = "upload" /\ f \in Flights
  BY <1>1 DEF IInv, SyncInv
<1>3. doubtful \subseteq doubtful' /\ doubtful' \subseteq Flights
  BY <1>1, <1>2 DEF IInv, TypeOK
<1>4. CASE UNCHANGED entries
  <2>1. WorkerKeeps
    BY <1>1, <1>3, <1>4, NothingStored
       DEF WorkerKeeps, IInv, TypeOK, EntryRecords, Mishap, editorVars
  <2>2. KnownForSure
    BY <1>1, <1>3, <1>4 DEF KnownForSure, IInv, KnownInv, JustAdded
  <2> QED BY <1>1, <1>2, <2>1, <2>2, LoopStep
<1>5. CASE sync.request = "sent" /\ Store
  <2>1. PICK n : StoreAt(n) /\ EntriesKept
    BY <1>2, <1>5, StoreFacts DEF IInv
  <2>2. WorkerKeeps
    BY <1>1, <1>3, <2>1 DEF WorkerKeeps, StoreAt, Mishap, editorVars, IInv, TypeOK
  <2>3. KnownForSure
    <3> SUFFICES ASSUME NEW m \in 1 .. Len(entries'), NEW g \in DOMAIN rows \ doubtful',
                        entries'[m].flight = g
                 PROVE  rows[g].vf = m
      BY DEF KnownForSure
    <3>1. CASE m \in 1 .. Len(entries)
      <4>1. entries[m].flight = g /\ ~ JustAdded(m, g) /\ g \notin doubtful
        BY <1>3, <1>5, <2>1, <3>1 DEF EntriesKept, JustAdded
      <4> QED BY <3>1, <4>1 DEF KnownInv, IInv
    <3>2. CASE m \notin 1 .. Len(entries)
      <4>1. g = f /\ Copy(f).vf = 0
        BY <2>1, <3>2 DEF StoreAt, Entry
      <4> QED BY <1>1, <4>1
    <3> QED BY <3>1, <3>2
  <2> QED BY <1>1, <1>2, <2>2, <2>3, LoopStep
<1> QED BY <1>1, <1>4, <1>5

LEMMA CancelStep ==
  ASSUME IInv, Cancel
  PROVE  IInv'
<1> DEFINE s == [sync EXCEPT !.cancelled = TRUE]
<1>1. s \in Sync /\ s.left = sync.left /\ s.snapshot = sync.snapshot
  BY DEF IInv, TypeOK, Sync
<1>2. CASE Unanswered(NextFlight(s))
  BY <1>1, <1>2, UnansweredStep
<1>3. CASE /\ sync.request = "refused" /\ Mishap /\ sync' \in NextFlight(s)
           /\ UNCHANGED <<editorVars, entries, history>>
  BY <1>1, <1>3, RefusedStep
<1> QED BY <1>2, <1>3 DEF Cancel

LEMMA SignedInStep ==
  ASSUME IInv, SignedIn
  PROVE  IInv'
<1> DEFINE all == FlightsUnimportedVF
<1>1. PICK chosen \in SUBSET all :
        /\ mishaps' = mishaps \/ Mishap
        /\ sync' \in NextFlight([sync EXCEPT !.left = chosen,
                       !.snapshot = [f \in Flights |-> IF f \in all THEN rows[f] ELSE Blank]])
  BY DEF SignedIn
<1> DEFINE copies == [f \in Flights |-> IF f \in all THEN rows[f] ELSE Blank]
           s == [sync EXCEPT !.left = chosen, !.snapshot = copies]
<1>2. /\ sync.stage = "signin" /\ UNCHANGED <<editorVars, entries, history>>
  BY DEF SignedIn
<1>3. /\ all \subseteq DOMAIN rows /\ DOMAIN rows \subseteq Flights
      /\ \A f \in all : rows[f] \in Flight /\ ~ rows[f].uploaded
  BY DEF FlightsUnimportedVF, IInv, TypeOK, EditorTypeOK, RowsInv, UpToDate, Flights
<1> HIDE DEF all
<1>4. copies \in [Flights -> Flight]
  BY <1>3 DEF Blank, Flight
<1>5. s \in Sync /\ s.left = chosen /\ s.snapshot = copies
  BY <1>3, <1>4 DEF Sync, IInv, TypeOK
<1> HIDE DEF s
<1>6. sync' \in NextFlight(s)
  BY <1>1 DEF s
<1>7. /\ sync' \in Sync
      /\ sync'.stage = "signout" => sync'.request = "none"
      /\ sync'.stage # "signout" =>
           /\ sync'.stage = "upload" /\ sync'.request = "sent"
           /\ sync'.current \in chosen /\ sync'.left = chosen \ {sync'.current}
           /\ sync'.snapshot = copies
  BY <1>5, <1>6, NextFlightStep
<1>8. SyncInv'
  <2>1. CASE sync'.stage = "signout"
    BY <1>7, <2>1 DEF SyncInv
  <2>2. CASE sync'.stage # "signout"
    <3>1. Pending' \subseteq all /\ sync'.current \in Flights
      BY <1>3, <1>7, <2>2 DEF Pending
    <3>2. ASSUME NEW f \in Pending'
          PROVE  PendingInv(f)'
      <4>1. f \in all /\ f \in Flights /\ f \in DOMAIN rows /\ rows' = rows
            /\ Copy(f)' = rows[f]
        BY <1>2, <1>3, <1>7, <2>2, <3>1, <3>2 DEF Copy, editorVars
      <4>2. Held(rows[f].vf, f)'
        BY <1>2, <4>1 DEF IInv, RowsInv, Held
      <4> QED BY <1>3, <4>1, <4>2 DEF PendingInv
    <3> QED BY <1>7, <2>2, <3>1, <3>2 DEF SyncInv
  <2> QED BY <2>1, <2>2
<1>9. KnownInv'
  BY <1>2 DEF KnownInv, JustAdded, IInv, editorVars, history
<1>10. WorkerKeeps
  BY <1>1, <1>2, UnchangedEntries DEF history
<1> QED BY <1>7, <1>8, <1>9, <1>10, WorkerStep

\* an open window after a row was written
LEMMA WindowFollows ==
  ASSUME TypeOK, EditorInv, NEW f \in DOMAIN rows, NEW row \in Flight,
         UpdateObject(f, row), entries' = entries, overtaken \subseteq overtaken',
         InDialog /\ editor.id = f => f \in overtaken'
  PROVE  /\ editor' \in Editor
         /\ UNCHANGED lastId => EditorInv'
<1>1. /\ DOMAIN rows' = DOMAIN rows /\ rows'[f] = row
      /\ \A g \in DOMAIN rows : g # f => rows'[g] = rows[g]
      /\ editor' = CacheChanged(editor, f, row)
  BY DEF UpdateObject, With
<1>2. editor \in Editor /\ row.landed \in BOOLEAN
  BY DEF TypeOK, EditorTypeOK, Flight
<1>3. /\ editor' \in Editor /\ editor'.phase = editor.phase /\ editor'.id = editor.id
      /\ editor'.vf = editor.vf /\ editor'.flight = editor.flight
  BY <1>1, <1>2 DEF CacheChanged, Editor
<1>4. CASE editor.id # f
  <2>1. editor' = editor
    BY <1>1, <1>4 DEF CacheChanged
  <2> QED BY <1>1, <1>3, <1>4, <2>1 DEF EditorInv, InDialog, Target, Held
<1>5. CASE editor.id = f
  <2>1. f # 0 /\ f \in Flights
    BY DEF TypeOK, EditorTypeOK, Flights
  <2>2. editor.phase # "closed"
    BY <1>5, <2>1 DEF EditorInv
  <2>3. editor'.seen = row.landed
    BY <1>1, <1>2, <1>5, <2>2 DEF CacheChanged, Editor
  <2>4. editor'.landed = row.landed \/ f \in overtaken'
    BY <1>1, <1>2, <1>5, <2>1, <2>2 DEF CacheChanged, Editor, EditorInv
  <2> QED BY <1>1, <1>3, <1>5, <2>1, <2>2, <2>3, <2>4
          DEF EditorInv, InDialog, Target, Held
<1> QED BY <1>4, <1>5

LEMMA UploadedStep ==
  ASSUME IInv, Uploaded
  PROVE  IInv'
<1> PICK f, c, row : f = sync.current /\ c = sync.snapshot[f] /\ row = WrittenBack(f)
  OBVIOUS
<1>1. /\ sync.request = "stored" /\ ~ InDialog /\ UpdateObject(f, row)
      /\ sync' \in NextFlight(sync)
      /\ UNCHANGED <<lastId, saves, entries, mishaps, told, overtaken, doubtful>>
  BY DEF Uploaded, history
<1>2. /\ sync.stage = "upload" /\ sync \in Sync /\ f \in Flights \ sync.left
      /\ f \in Pending /\ PendingInv(f) /\ StoredEntry \in 1 .. Len(entries)
      /\ entries[StoredEntry] = Entry(f, c)
  BY <1>1 DEF IInv, SyncInv, TypeOK, Pending, Copy
<1>3. c \in Flight /\ f \in DOMAIN rows
  BY <1>2 DEF Sync, PendingInv
<1>4. /\ row = [c EXCEPT !.vf = StoredEntry, !.uploaded = TRUE]
      /\ StoredEntry \in 0 .. MaxEntries
  <2>1. Len(entries) \in Nat /\ Len(entries) <= MaxEntries
    BY LenProperties DEF IInv, TypeOK
  <2> QED BY <1>2, <1>3, <2>1 DEF WrittenBack, StoredEntry, Copy, Flight
<1>5. /\ row \in Flight /\ row.vf = StoredEntry /\ row.uploaded
      /\ row.form = c.form /\ row.landed = c.landed
  BY <1>3, <1>4 DEF Flight
<1>6. /\ DOMAIN rows' = DOMAIN rows /\ rows'[f] = row
      /\ \A g \in DOMAIN rows : g # f => rows'[g] = rows[g]
  BY <1>1, <1>3 DEF UpdateObject, With
<1>7. EditorInv' /\ editor' \in Editor
  BY <1>1, <1>3, <1>5, WindowFollows DEF IInv
<1>8. /\ sync' \in Sync
      /\ sync'.stage = "signout" => sync'.request = "none"
      /\ sync'.stage # "signout" =>
           /\ sync'.stage = "upload" /\ sync'.request = "sent"
           /\ sync'.current \in sync.left /\ sync'.left = sync.left \ {sync'.current}
           /\ sync'.snapshot = sync.snapshot
  BY <1>1, <1>2, NextFlightStep
<1>9. TypeOK'
  BY <1>1, <1>5, <1>6, <1>7, <1>8 DEF TypeOK, EditorTypeOK, IInv
<1>10. EntriesInv'
  BY <1>1 DEF EntriesInv, IInv
<1>11. RowsInv'
  <2>1. Held(row.vf, f)' /\ UpToDate(row)'
    BY <1>1, <1>2, <1>5 DEF Held, UpToDate, Entry
  <2>2. ASSUME NEW g \in DOMAIN rows, g # f
        PROVE  Held(rows[g].vf, g)' /\ (rows'[g].uploaded => UpToDate(rows[g])')
    BY <1>1, <1>6, <2>2 DEF Held, UpToDate, RowsInv, IInv
  <2> QED BY <1>1, <1>5, <1>6, <2>1, <2>2 DEF RowsInv, Held, UpToDate
<1>12. SyncInv'
  <2>1. CASE sync'.stage = "signout"
    BY <1>8, <2>1 DEF SyncInv
  <2>2. CASE sync'.stage # "signout"
    <3>1. Pending' \subseteq sync.left /\ sync'.current \in Flights
      BY <1>2, <1>8, <2>2 DEF Pending, Sync
    <3>2. ASSUME NEW g \in Pending'
          PROVE  PendingInv(g)'
      <4>1. g # f /\ PendingInv(g)
        BY <1>2, <3>1 DEF IInv, SyncInv, Pending
      <4> QED BY <1>1, <1>6, <1>8, <2>2, <4>1 DEF PendingInv, Copy, Held
    <3> QED BY <1>8, <2>2, <3>1, <3>2 DEF SyncInv
  <2> QED BY <2>1, <2>2
<1>13. KnownInv'
  <2> SUFFICES ASSUME NEW n \in 1 .. Len(entries), NEW g \in DOMAIN rows \ doubtful,
                      entries[n].flight = g
               PROVE  rows'[g].vf = n
    BY <1>1, <1>6 DEF KnownInv
  <2>1. rows[g].vf = n \/ JustAdded(n, g)
    BY DEF IInv, KnownInv
  <2>2. CASE g # f
    BY <1>6, <2>1, <2>2 DEF JustAdded
  <2>3. CASE g = f
    <3>1. c.vf = rows[f].vf
      BY <1>2, <2>3 DEF PendingInv, Copy
    <3> QED BY <1>5, <1>6, <2>1, <2>3, <3>1 DEF JustAdded, StoredEntry, Copy
  <2> QED BY <2>2, <2>3
<1>14. ToldInv'
  BY <1>1, <1>2, <1>5, <1>6 DEF ToldInv, IInv, PendingInv, Copy
<1> QED BY <1>7, <1>9, <1>10, <1>11, <1>12, <1>13, <1>14 DEF IInv

-----------------------------------------------------------------------------
(* What happens meanwhile *)

\* steps that concern the window only
LEMMA WindowStep ==
  ASSUME IInv, UNCHANGED <<rows, lastId, entries, sync, mishaps, history>>,
         editor' \in Editor, saves' \in 0 .. MaxSaves, EditorInv'
  PROVE  IInv'
<1>1. TypeOK'
  BY DEF history, IInv, TypeOK, EditorTypeOK
<1>2. EntriesInv' /\ ToldInv'
  BY DEF history, IInv, EntriesInv, ToldInv
<1>3. RowsInv'
  BY DEF IInv, RowsInv, Held, UpToDate
<1>4. SyncInv'
  BY DEF history, IInv, SyncInv, Pending, PendingInv, Copy, Held, StoredEntry, Entry
<1>5. KnownInv'
  BY DEF history, IInv, KnownInv, JustAdded, Copy
<1> QED BY <1>1, <1>2, <1>3, <1>4, <1>5 DEF IInv

LEMMA ClosedFits ==
  ASSUME editor' = Closed
  PROVE  editor' \in Editor /\ EditorInv'
BY DEF Closed, Editor, Blank, Flight, EditorInv, InDialog

LEMMA OpenStep ==
  ASSUME IInv, MainWindow, ~ \E f \in Flights : Delete(f)
  PROVE  IInv'
<1>1. UNCHANGED <<rows, lastId, saves, entries, sync, mishaps, history>>
  BY DEF MainWindow, Meanwhile, CreateFlight, RepeatFlight, EditFlight, Open
<1>2. CASE editor' = [Closed EXCEPT !.phase = "open"]
  <2>1. editor' = [phase |-> "open", id |-> 0, vf |-> 0, seen |-> FALSE,
                   landed |-> FALSE, flight |-> Blank]
    BY <1>2 DEF Closed
  <2>2. editor' \in Editor
    BY <2>1, BlankIsFlight DEF Editor
  <2>3. EditorInv'
    BY <2>1 DEF EditorInv, InDialog
  <2> QED BY <1>1, <2>2, <2>3, WindowStep DEF IInv, TypeOK, EditorTypeOK
<1>3. ASSUME NEW f \in Flights, EditFlight(f)
      PROVE  IInv'
  <2>1. f \in DOMAIN rows /\ f # 0 /\ editor' = FlightToFields(f)
    BY <1>3 DEF EditFlight, Open, Flights
  <2>2. rows[f] \in Flight /\ Held(rows[f].vf, f)
    BY <2>1 DEF IInv, TypeOK, EditorTypeOK, RowsInv
  <2>3. editor' \in Editor
    BY <2>1, <2>2 DEF FlightToFields, Editor, Flights, Flight, Blank
  <2>4. EditorInv'
    BY <1>1, <2>1, <2>2 DEF EditorInv, FlightToFields, InDialog, Held
  <2> QED BY <1>1, <2>3, <2>4, WindowStep DEF IInv, TypeOK, EditorTypeOK
<1> QED BY <1>2, <1>3 DEF MainWindow, CreateFlight, RepeatFlight, Open

LEMMA DeleteStep ==
  ASSUME IInv, MainWindow, NEW f \in Flights, Delete(f)
  PROVE  IInv'
<1>1. /\ sync.stage = "idle" /\ ~ InDialog
      /\ rows' = [g \in DOMAIN rows \ {f} |-> rows[g]]
      /\ editor' = IF editor.id = f THEN Closed ELSE editor
      /\ UNCHANGED <<lastId, saves, entries, sync, mishaps, told, overtaken, doubtful>>
  BY DEF MainWindow, Meanwhile, Delete, history
<1>2. EditorInv' /\ editor' \in Editor
  <2>1. CASE editor.id = f
    BY <1>1, <2>1, ClosedFits
  <2>2. CASE editor.id # f
    BY <1>1, <2>2 DEF IInv, TypeOK, EditorTypeOK, EditorInv, InDialog, Target, Held
  <2> QED BY <2>1, <2>2
<1>3. TypeOK'
  BY <1>1, <1>2 DEF IInv, TypeOK, EditorTypeOK
<1>4. EntriesInv' /\ ToldInv'
  BY <1>1 DEF IInv, EntriesInv, ToldInv
<1>5. RowsInv'
  BY <1>1 DEF IInv, RowsInv, Held, UpToDate
<1>6. SyncInv'
  BY <1>1 DEF IInv, SyncInv
<1>7. KnownInv'
  BY <1>1 DEF IInv, KnownInv, JustAdded
<1> QED BY <1>2, <1>3, <1>4, <1>5, <1>6, <1>7 DEF IInv

LEMMA WindowOrAnswerStep ==
  ASSUME IInv, Window \/ Answer
  PROVE  IInv'
<1>1. UNCHANGED <<rows, lastId, entries, sync, mishaps, history>>
  BY DEF Window, Answer, Meanwhile, CloseWindow, Accept, Determined, Aborted
<1>2. editor \in Editor /\ EditorInv /\ saves \in 0 .. MaxSaves
  BY DEF IInv, TypeOK, EditorTypeOK
<1>3. CASE CloseWindow
  BY <1>1, <1>2, <1>3, ClosedFits, WindowStep DEF CloseWindow
<1>4. CASE Accept
  <2>1. /\ editor.phase = "open" /\ Target \in Flights
        /\ editor' = [editor EXCEPT !.phase = "asking", !.flight = DetermineFlightBasic]
        /\ saves' = saves + 1 /\ saves < MaxSaves
    BY <1>4 DEF Accept
  <2>2. DetermineFlightBasic \in Flight
    BY <1>2, <2>1 DEF DetermineFlightBasic, Flight, Editor
  <2>3. editor' \in Editor
    BY <1>2, <2>1, <2>2 DEF Editor
  <2>4. EditorInv'
    BY <1>1, <1>2, <2>1, <2>2
       DEF EditorInv, Editor, InDialog, Target, Held, DetermineFlightBasic, history
  <2> QED BY <1>1, <1>2, <2>1, <2>3, <2>4, WindowStep
<1>5. CASE Determined
  <2>1. PICK now \in BOOLEAN :
          /\ editor.phase = "asking" /\ UNCHANGED saves
          /\ editor' = [editor EXCEPT !.phase = "writing",
                                      !.flight.landed = editor.flight.landed \/ now]
    BY <1>5 DEF Determined
  <2>2. editor' \in Editor
    BY <1>2, <2>1 DEF Editor, Flight
  <2>3. EditorInv'
    BY <1>1, <1>2, <2>1 DEF EditorInv, Editor, Flight, InDialog, Target, Held, history
  <2> QED BY <1>1, <1>2, <2>1, <2>2, <2>3, WindowStep
<1>6. CASE Aborted
  <2>1. /\ editor.phase = "asking" /\ UNCHANGED saves
        /\ editor' = [editor EXCEPT !.phase = "open", !.flight = Blank]
    BY <1>6 DEF Aborted
  <2>2. editor' \in Editor
    BY <1>2, <2>1, BlankIsFlight DEF Editor
  <2>3. EditorInv'
    BY <1>1, <1>2, <2>1 DEF EditorInv, Editor, InDialog, Target, Held, history
  <2> QED BY <1>1, <1>2, <2>1, <2>2, <2>3, WindowStep
<1> QED BY <1>3, <1>4, <1>5, <1>6 DEF Window, Answer

LEMMA LandReportedStep ==
  ASSUME IInv, NEW f \in Flights, LandReported(f)
  PROVE  IInv'
<1> DEFINE row == [rows[f] EXCEPT !.landed = TRUE]
<1>1. /\ f \in DOMAIN rows /\ UpdateObject(f, row)
      /\ told' = [told EXCEPT ![f].landed = TRUE]
      /\ overtaken' = overtaken \cup ({f} \cap (Pending \cup
                        IF InDialog THEN {editor.id} ELSE {}))
      /\ UNCHANGED <<lastId, saves, entries, sync, mishaps, doubtful>>
  BY DEF LandReported, Land, Meanwhile
<1>2. rows[f] \in Flight
  BY <1>1 DEF IInv, TypeOK, EditorTypeOK
<1>3. /\ row \in Flight /\ row.landed /\ row.vf = rows[f].vf
      /\ row.uploaded = rows[f].uploaded /\ row.form = rows[f].form
  BY <1>2 DEF Flight
<1> HIDE DEF row
<1>4. /\ DOMAIN rows' = DOMAIN rows /\ rows'[f] = row
      /\ \A g \in DOMAIN rows : g # f => rows'[g] = rows[g]
  BY <1>1 DEF UpdateObject, With
<1>5. EditorInv' /\ editor' \in Editor
  BY <1>1, <1>3, WindowFollows DEF IInv
<1>6. /\ told' \in [Flights -> [form : 0 .. MaxSaves, landed : BOOLEAN]]
      /\ told'[f].form = told[f].form
      /\ \A g \in Flights : g # f => told'[g] = told[g]
  BY <1>1 DEF IInv, TypeOK
<1>7. TypeOK'
  BY <1>1, <1>3, <1>4, <1>5, <1>6 DEF IInv, TypeOK, EditorTypeOK
<1>8. EntriesInv'
  BY <1>1 DEF IInv, EntriesInv
<1>9. RowsInv'
  BY <1>1, <1>3, <1>4 DEF IInv, RowsInv, Held, UpToDate
<1>10. SyncInv'
  BY <1>1, <1>3, <1>4
     DEF IInv, SyncInv, Pending, PendingInv, Copy, Held, StoredEntry, Entry
<1>11. KnownInv'
  BY <1>1, <1>3, <1>4 DEF IInv, KnownInv, JustAdded, Copy
<1>12. ToldInv'
  <2>1. \A g \in Flights : g > lastId => g # f
    BY <1>1 DEF IInv, TypeOK, EditorTypeOK, Flights
  <2> QED BY <1>1, <1>3, <1>4, <1>6, <2>1 DEF IInv, ToldInv, TypeOK, EditorTypeOK, Flights
<1> QED BY <1>5, <1>7, <1>8, <1>9, <1>10, <1>11, <1>12 DEF IInv

\* the window after a write that was carried out or canceled: closed, or open
\* with what the row says
LEMMA WindowAfterWrite ==
  ASSUME IInv, WriteToDatabase \/ WriteCanceled, entries' = entries,
         overtaken \subseteq overtaken'
  PROVE  editor' \in Editor /\ EditorInv'
<1> PICK f, open :
      f = editor.id /\ open = [editor EXCEPT !.phase = "open", !.flight = Blank]
  OBVIOUS
<1>1. /\ editor \in Editor /\ EditorInv /\ editor.phase = "writing"
      /\ Stored \/ UNCHANGED <<rows, lastId>>
  BY DEF IInv, TypeOK, EditorTypeOK, WriteToDatabase, WriteCanceled
<1>2. CASE WriteToDatabase
  BY <1>2, ClosedFits DEF WriteToDatabase
<1>3. /\ open \in Editor /\ open.phase = "open" /\ open.id = f
      /\ open.vf = editor.vf /\ open.seen = editor.seen /\ open.landed = editor.landed
  BY <1>1, BlankIsFlight DEF Editor
<1>4. CASE WriteCanceled /\ f = 0
  <2>1. editor' = open
    BY <1>4 DEF WriteCanceled
  <2> QED BY <1>1, <1>3, <1>4, <2>1 DEF EditorInv, InDialog
<1>5. CASE WriteCanceled /\ f # 0
  <2>1. /\ editor' = CacheChanged(open, f, rows'[f])
        /\ f \in DOMAIN rows /\ Target = f
    BY <1>1, <1>5 DEF WriteCanceled, EditorInv, Target
  <2>2. DOMAIN rows' = DOMAIN rows /\ rows'[f] \in Flight
    BY <1>1, <2>1 DEF Stored, With, IInv, TypeOK, EditorTypeOK, Editor
  <2>3. rows'[f].landed \in BOOLEAN
    BY <2>2 DEF Flight
  <2>4. /\ editor' \in Editor /\ editor'.phase = "open" /\ editor'.id = f
        /\ editor'.vf = editor.vf /\ editor'.seen = rows'[f].landed
        /\ editor'.landed = rows'[f].landed
             \/ (editor'.landed = editor.landed /\ editor.seen = rows'[f].landed)
    <3>1. CASE rows'[f].landed # open.seen
      <4>1. PICK landed \in BOOLEAN : landed = rows'[f].landed
        BY <2>3
      <4>2. editor' = [open EXCEPT !.landed = landed, !.seen = landed]
        BY <1>3, <2>1, <3>1, <4>1 DEF CacheChanged
      <4>3. /\ editor' \in Editor /\ editor'.phase = open.phase
            /\ editor'.id = open.id /\ editor'.vf = open.vf
            /\ editor'.seen = landed /\ editor'.landed = landed
        BY <1>3, <4>1, <4>2 DEF Editor
      <4> QED BY <1>3, <4>1, <4>3
    <3>2. CASE rows'[f].landed = open.seen
      <4>1. editor' = open
        BY <2>1, <3>2 DEF CacheChanged
      <4> QED BY <1>3, <3>2, <4>1
    <3> QED BY <3>1, <3>2
  <2>5. editor'.landed = rows'[f].landed \/ f \in overtaken'
    BY <1>1, <1>5, <2>4 DEF EditorInv
  <2>6. Held(editor.vf, f)'
    BY <1>1, <1>5, <2>4 DEF EditorInv, Held
  <2> QED BY <1>5, <2>1, <2>2, <2>4, <2>5, <2>6 DEF EditorInv, InDialog, Held
<1> QED BY <1>2, <1>4, <1>5 DEF WriteCanceled

LEMMA WriteStep ==
  ASSUME IInv, Write
  PROVE  IInv'
<1> PICK f, row : f = Target /\ row = editor.flight
  OBVIOUS
<1>1. /\ UNCHANGED <<entries, sync, mishaps, saves>> /\ Remember
      /\ editor.phase = "writing" /\ editor \in Editor /\ EditorInv /\ InDialog
      /\ Stored \/ UNCHANGED <<rows, lastId>>
  BY DEF Write, Meanwhile, WriteToDatabase, WriteCanceled, InDialog,
         IInv, TypeOK, EditorTypeOK
<1>2. /\ row \in Flight /\ f \in Flights /\ ~ row.uploaded /\ Held(row.vf, f)
      /\ f \in DOMAIN rows \/ (f = lastId + 1 /\ row.vf = 0)
      /\ f \in DOMAIN rows /\ f \notin overtaken /\ rows[f].landed => row.landed
    <2>1. row \in Flight
      BY <1>1 DEF Editor
    <2>2. CASE editor.id = 0
      <3>1. lastId + 1 \notin DOMAIN rows
        BY DEF IInv, TypeOK, EditorTypeOK
      <3> QED BY <1>1, <2>1, <2>2, <3>1 DEF EditorInv, Target, Held
    <2>3. CASE editor.id # 0
      <3>1. f = editor.id /\ f \in DOMAIN rows /\ f \in Flights
        BY <1>1, <2>3 DEF EditorInv, Target
      <3>2. row.vf = editor.vf /\ ~ row.uploaded /\ Held(editor.vf, f)
        BY <1>1, <2>3, <3>1 DEF EditorInv
      <3>3. f \notin overtaken /\ rows[f].landed => row.landed
        BY <1>1, <2>3, <3>1 DEF EditorInv
      <3> QED BY <2>1, <3>1, <3>2, <3>3
    <2> QED BY <2>2, <2>3
<1>3. CASE rows' = rows
  <2>1. lastId' = lastId
    <3>1. CASE Stored
      <4>1. f \in DOMAIN rows
        BY <1>3, <3>1 DEF Stored, With
      <4>2. lastId + 1 \notin DOMAIN rows
        BY DEF IInv, TypeOK, EditorTypeOK
      <4> QED BY <3>1, <4>1, <4>2 DEF Stored, Target
    <3> QED BY <1>1, <3>1
  <2>2. UNCHANGED history
    BY <1>1, <1>3 DEF Remember
  <2>3. editor' \in Editor /\ EditorInv'
    BY <1>1, <2>2, WindowAfterWrite DEF Write, history
  <2> QED BY <1>1, <1>3, <2>1, <2>2, <2>3, WindowStep DEF IInv, TypeOK, EditorTypeOK
<1>4. CASE rows' # rows
  <2>1. /\ told' = [told EXCEPT ![f] = [form |-> row.form, landed |-> row.landed \/ @.landed]]
        /\ overtaken' = overtaken \cup ({f} \cap Pending)
        /\ doubtful' = IF f \in DOMAIN rows /\ rows[f].vf # row.vf
                       THEN doubtful \cup {f} ELSE doubtful
    BY <1>1, <1>4 DEF Remember
  <2>2. /\ DOMAIN rows' = {f} \cup DOMAIN rows /\ rows'[f] = row
        /\ \A g \in DOMAIN rows : g # f => rows'[g] = rows[g]
    BY <1>1, <1>4 DEF Stored, With
  <2>3. /\ lastId' \in lastId .. MaxFlights
        /\ f \in 1 .. lastId' /\ DOMAIN rows' \subseteq 1 .. lastId'
        /\ f \in DOMAIN rows => lastId' = lastId
        /\ f \notin DOMAIN rows => f = lastId + 1 /\ lastId' = f
    <3>1. Stored /\ DOMAIN rows \subseteq 1 .. lastId /\ lastId \in 0 .. MaxFlights
      BY <1>1, <1>4 DEF IInv, TypeOK, EditorTypeOK
    <3>2. CASE editor.id = 0
      BY <1>2, <2>2, <3>1, <3>2 DEF Stored, Target, Flights
    <3>3. CASE editor.id # 0
      BY <1>1, <2>2, <3>1, <3>3 DEF Stored, Target, EditorInv
    <3> QED BY <3>2, <3>3
  <2>4. overtaken \subseteq overtaken' /\ doubtful \subseteq doubtful'
    BY <2>1
  <2>5. editor' \in Editor /\ EditorInv'
    BY <1>1, <2>4, WindowAfterWrite DEF Write
  <2>6. /\ told' \in [Flights -> [form : 0 .. MaxSaves, landed : BOOLEAN]]
        /\ told'[f].form = row.form /\ told'[f].landed = (row.landed \/ told[f].landed)
        /\ \A g \in Flights : g # f => told'[g] = told[g]
    BY <1>2, <2>1 DEF IInv, TypeOK, Flight
  <2>7. TypeOK'
    <3>1. EditorTypeOK'
      BY <1>1, <1>2, <2>2, <2>3, <2>5 DEF IInv, TypeOK, EditorTypeOK
    <3>2. overtaken' \subseteq Flights /\ doubtful' \subseteq Flights
      BY <1>2, <2>1 DEF IInv, TypeOK
    <3> QED BY <1>1, <2>6, <3>1, <3>2 DEF IInv, TypeOK
  <2>8. EntriesInv'
    BY <1>1, <2>3 DEF IInv, TypeOK, EditorTypeOK, EntriesInv
  <2>9. RowsInv'
    <3>1. Held(row.vf, f)'
      BY <1>1, <1>2 DEF Held
    <3> QED BY <1>1, <1>2, <2>2, <3>1 DEF IInv, RowsInv, Held, UpToDate
  <2>10. SyncInv'
    <3>1. CASE sync.stage # "upload"
      BY <1>1, <3>1 DEF IInv, SyncInv
    <3>2. CASE sync.stage = "upload"
      <4>1. Pending' = Pending /\ Copy(sync.current)' = Copy(sync.current)
        BY <1>1 DEF Pending, Copy
      <4>2. ASSUME NEW g \in Pending
            PROVE  PendingInv(g)'
        <5>1. PendingInv(g)
          BY <3>2 DEF IInv, SyncInv
        <5>2. CASE g # f
          BY <1>1, <2>1, <2>2, <5>1, <5>2 DEF PendingInv, Copy, Held
        <5>3. CASE g = f
          <6>1. f \in DOMAIN rows /\ f \in overtaken'
            BY <2>1, <4>2, <5>1, <5>3 DEF PendingInv
          <6>2. f \notin doubtful' => sync.snapshot[f].vf = row.vf
            BY <2>1, <5>1, <5>3, <6>1 DEF PendingInv, Copy
          <6>3. Held(sync.snapshot[f].vf, f)'
            BY <1>1, <5>1, <5>3 DEF PendingInv, Copy, Held
          <6> QED BY <1>1, <1>2, <2>2, <5>3, <6>1, <6>2, <6>3 DEF PendingInv, Copy
        <5> QED BY <5>2, <5>3
      <4> QED BY <1>1, <3>2, <4>1, <4>2 DEF IInv, SyncInv, StoredEntry, Entry, Copy
    <3> QED BY <3>1, <3>2
  <2>11. KnownInv'
    <3> SUFFICES ASSUME NEW n \in 1 .. Len(entries), NEW g \in DOMAIN rows' \ doubtful',
                        entries[n].flight = g
                 PROVE  rows'[g].vf = n \/ JustAdded(n, g)
      BY <1>1 DEF KnownInv, JustAdded, Copy
    <3>1. g \in DOMAIN rows
      <4>1. g \in 1 .. lastId /\ lastId \in Nat
        BY DEF IInv, EntriesInv, TypeOK, EditorTypeOK
      <4> QED BY <2>2, <2>3, <4>1
    <3>2. rows[g].vf = n \/ JustAdded(n, g)
      BY <2>4, <3>1 DEF IInv, KnownInv
    <3>3. CASE g # f
      BY <2>2, <3>1, <3>2, <3>3
    <3>4. CASE g = f
      BY <2>1, <2>2, <3>1, <3>2, <3>4
    <3> QED BY <3>3, <3>4
  <2>12. ToldInv'
    <3>1. ASSUME f \notin overtaken', told'[f].landed
          PROVE  row.landed
      <4>1. CASE f \in DOMAIN rows
        BY <1>2, <2>4, <2>6, <3>1, <4>1 DEF IInv, ToldInv
      <4>2. CASE f \notin DOMAIN rows
        <5>1. ~ told[f].landed
          BY <1>2, <2>3, <4>2 DEF IInv, ToldInv, TypeOK, EditorTypeOK
        <5> QED BY <2>6, <3>1, <5>1
      <4> QED BY <4>1, <4>2
    <3>2. \A g \in DOMAIN rows' : g \in Flights
      BY <2>3 DEF Flights
    <3>3. \A g \in Flights : g > lastId' => g # f /\ g > lastId
      BY <2>3 DEF Flights, IInv, TypeOK, EditorTypeOK
    <3> QED BY <2>2, <2>4, <2>6, <3>1, <3>2, <3>3 DEF IInv, ToldInv
  <2> QED BY <2>5, <2>7, <2>8, <2>9, <2>10, <2>11, <2>12 DEF IInv
<1> QED BY <1>3, <1>4

-----------------------------------------------------------------------------
(* The theorems *)

LEMMA InitIInv == Init => IInv
<1> SUFFICES ASSUME Init
             PROVE  IInv
  OBVIOUS
<1>1. /\ DOMAIN rows = {1} /\ rows[1] = Blank /\ lastId = 1 /\ 1 \in Flights
      /\ entries = <<>> /\ editor = Closed /\ sync = Idle
  BY DEF Init, Flights
<1>2. entries \in Seq(EntryRecords) /\ Len(entries) = 0
  BY <1>1, EmptySeq
<1>3. editor \in Editor /\ editor.phase = "closed" /\ editor.id = 0 /\ editor.vf = 0
  BY <1>1, BlankIsFlight DEF Closed, Editor
<1>4. TypeOK
  BY <1>1, <1>2, <1>3, BlankIsFlight, IdleIsSync
     DEF Init, TypeOK, EditorTypeOK, EntryRecords
<1>5. sync.stage = "idle" /\ sync.request = "none"
  BY <1>1 DEF Idle
<1>6. EntriesInv /\ KnownInv
  BY <1>2 DEF EntriesInv, KnownInv
<1>7. RowsInv
  BY <1>1 DEF RowsInv, Held, Blank
<1>8. EditorInv
  BY <1>3 DEF EditorInv, InDialog
<1>9. SyncInv /\ ToldInv
  BY <1>1, <1>5 DEF Init, SyncInv, ToldInv, Blank
<1> QED BY <1>4, <1>6, <1>7, <1>8, <1>9 DEF IInv

LEMMA StepIInv == IInv /\ [Next]_vars => IInv'
<1> SUFFICES ASSUME IInv, [Next]_vars
             PROVE  IInv'
  OBVIOUS
<1>1. CASE Start \/ GotToken \/ NotSignedIn \/ ScriptFails \/ SignedOut
  <2>1. /\ sync.stage # "upload" /\ sync \in Sync /\ sync.request = "none"
        /\ UNCHANGED <<editorVars, history, entries>>
        /\ mishaps' = mishaps \/ Mishap
    BY <1>1 DEF Start, GotToken, NotSignedIn, ScriptFails, SignedOut,
                IInv, TypeOK, SyncInv, Mishap
  <2>2. sync' \in Sync /\ sync'.stage # "upload" /\ sync'.request = "none"
    <3>1. CASE NotSignedIn \/ ScriptFails \/ SignedOut
      <4>1. sync' = Idle
        BY <3>1 DEF NotSignedIn, ScriptFails, SignedOut
      <4>2. Idle.stage = "idle" /\ Idle.request = "none"
        BY DEF Idle
      <4> QED BY <4>1, <4>2, IdleIsSync
    <3>2. CASE Start
      <4>1. sync' = [Idle EXCEPT !.stage = "token"]
        BY <3>2 DEF Start
      <4>2. sync' \in Sync
        BY <4>1, IdleIsSync DEF Sync
      <4> QED BY <4>1, <4>2 DEF Idle
    <3>3. CASE GotToken
      BY <2>1, <3>3 DEF GotToken, Sync
    <3> QED BY <1>1, <3>1, <3>2, <3>3
  <2> QED BY <2>1, <2>2, OutsideStep
<1>2. CASE ServerStores
  BY <1>2, ServerStoresStep
<1>3. CASE ServerRefuses
  <2>1. /\ sync.stage = "upload" /\ sync \in Sync /\ sync.request = "sent"
        /\ sync' = [sync EXCEPT !.request = "refused"]
        /\ UNCHANGED <<editorVars, history, entries>> /\ Mishap
    BY <1>3 DEF ServerRefuses, IInv, TypeOK, SyncInv
  <2>2. /\ sync' \in Sync /\ sync'.stage = "upload" /\ sync'.request = "refused"
        /\ sync'.current = sync.current /\ sync'.left = sync.left
        /\ sync'.snapshot = sync.snapshot
    BY <2>1 DEF Sync
  <2>3. WorkerKeeps
    BY <2>1, UnchangedEntries DEF history
  <2>4. SyncInv'
    <3>1. ASSUME NEW f \in Pending
          PROVE  PendingInv(f)'
      <4>1. PendingInv(f)
        BY <2>1, <3>1 DEF IInv, SyncInv
      <4> QED BY <2>1, <2>2, <2>3, <4>1, PendingKept DEF WorkerKeeps, editorVars
    <3>2. Pending' = Pending
      BY <2>1, <2>2 DEF Pending
    <3> QED BY <2>1, <2>2, <3>1, <3>2 DEF IInv, SyncInv
  <2>5. KnownInv'
    BY <2>1, <2>2 DEF IInv, KnownInv, JustAdded, editorVars, history
  <2> QED BY <2>2, <2>3, <2>4, <2>5, WorkerStep
<1>4. CASE SignedIn
  BY <1>4, SignedInStep
<1>5. CASE Uploaded
  BY <1>5, UploadedStep
<1>6. CASE NotUploaded
  BY <1>6, RefusedStep DEF NotUploaded, IInv, TypeOK
<1>7. CASE AnswerLost
  BY <1>7, UnansweredStep DEF AnswerLost, IInv, TypeOK
<1>8. CASE Cancel
  BY <1>8, CancelStep
<1>9. CASE MainWindow
  BY <1>9, OpenStep, DeleteStep
<1>10. CASE Window \/ Answer
  BY <1>10, WindowOrAnswerStep
<1>11. CASE Write
  BY <1>11, WriteStep
<1>12. CASE \E f \in Flights : LandReported(f)
  BY <1>12, LandReportedStep
<1>13. CASE UNCHANGED vars
  <2>1. /\ UNCHANGED <<rows, lastId, entries, sync, mishaps, history>>
        /\ editor' = editor /\ saves' = saves
    BY <1>13 DEF vars, editorVars
  <2>2. EditorInv'
    BY <2>1 DEF IInv, EditorInv, InDialog, Target, Held, history
  <2> QED BY <2>1, <2>2, WindowStep DEF IInv, TypeOK, EditorTypeOK
<1> QED BY <1>1, <1>2, <1>3, <1>4, <1>5, <1>6, <1>7, <1>8, <1>9, <1>10, <1>11,
           <1>12, <1>13 DEF Next, Server, Worker

LEMMA AlwaysIInv == Spec => []IInv
BY InitIInv, StepIInv, PTL DEF Spec

\* The worker, the table, the window and the server keep to their types
\* (vereinsfliegersyncworker.cpp, FlightWindow.cpp).
THEOREM SyncTypeCorrect == Spec => []TypeOK
<1>1. IInv => TypeOK
  BY DEF IInv
<1> QED BY <1>1, AlwaysIInv, PTL

\* No flight is entered twice at VereinsFlieger but where an answer was lost or
\* an editor has forgotten the entry (vereinsfliegersyncworker.cpp 166-187).
THEOREM EntriesStayKnown == Spec => []EntriesAreKnown
<1>1. IInv => EntriesAreKnown
  <2> SUFFICES ASSUME IInv, NEW n \in DOMAIN entries,
                      entries[n].flight \in DOMAIN rows \ doubtful
               PROVE  \/ rows[entries[n].flight].vf = n
                      \/ sync.current = entries[n].flight /\ sync.request = "stored"
    BY DEF EntriesAreKnown
  <2>1. DOMAIN entries = 1 .. Len(entries)
    BY LenProperties DEF IInv, TypeOK
  <2> QED BY <2>1 DEF IInv, KnownInv, JustAdded
<1> QED BY <1>1, AlwaysIInv, PTL

\* A flight marked as uploaded is at VereinsFlieger as it was last entered
\* (vereinsfliegersyncworker.cpp 178-187, FlightWindow.cpp 906).
THEOREM UploadedStaysCurrent == Spec => []UploadedIsCurrent
<1>1. IInv => UploadedIsCurrent
  BY DEF IInv, RowsInv, UpToDate, Held, UploadedIsCurrent
<1> QED BY <1>1, AlwaysIInv, PTL

\* What was entered or reported stays in the table, but for what a copy of the
\* worker or of the window has overtaken.
THEOREM EnteredStays == Spec => []EnteredIsKept
<1>1. IInv => EnteredIsKept
  BY DEF IInv, ToldInv, EnteredIsKept
<1> QED BY <1>1, AlwaysIInv, PTL
=============================================================================
