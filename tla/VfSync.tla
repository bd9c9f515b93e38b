------------------------------- MODULE VfSync -------------------------------
(***************************************************************************)
(* The upload to VereinsFlieger (src/src/db/vfsync/) and what the same     *)
(* program does to the flights meanwhile: sync () runs in the GUI thread,  *)
(* and every request runs an event loop in which an open editor and the    *)
(* slots of Flarm may write.  Its dialog blocks the main window.           *)
(***************************************************************************)
EXTENDS FlightEditor, Sequences

CONSTANT MaxMishaps     \* bound on failed and canceled requests

ASSUME SyncAssumption == MaxMishaps \in Nat /\ MaxFlights >= 1

VARIABLES
  entries,    \* the entries at VereinsFlieger (external); the id is the index
  sync,       \* the worker
  mishaps,    \* requests failed or canceled so far
  told,       \* what was last entered or reported of each flight
  overtaken,  \* flights written while a copy of them waited to be written
  doubtful    \* flights whose entry is not known, or no longer

history == <<told, overtaken, doubtful>>
vars    == <<editorVars, entries, sync, mishaps, history>>

\* snapshot: flightMap; left: what foreach has yet to reach; request: whether
\* the server has yet to see the upload of current, has stored or refused it
Sync == [stage : {"idle", "token", "signin", "upload", "signout"},
         left : SUBSET Flights, current : 0 .. MaxFlights,
         request : {"none", "sent", "stored", "refused"}, cancelled : BOOLEAN,
         snapshot : [Flights -> Flight]]
Idle == [stage |-> "idle", left |-> {}, current |-> 0, request |-> "none",
         cancelled |-> FALSE, snapshot |-> [f \in Flights |-> Blank]]

TypeOK == /\ EditorTypeOK
          /\ entries \in Seq([flight : Flights, form : 0 .. MaxSaves,
                             landed : BOOLEAN])
          /\ Len(entries) <= MaxEntries
          /\ sync \in Sync
          /\ mishaps \in 0 .. MaxMishaps
          /\ told \in [Flights -> [form : 0 .. MaxSaves, landed : BOOLEAN]]
          /\ overtaken \subseteq Flights /\ doubtful \subseteq Flights

Copy(f) == sync.snapshot[f]

\* the flights of which a copy will be written back
Pending == IF sync.stage = "upload" THEN sync.left \cup {sync.current} ELSE {}

-----------------------------------------------------------------------------
(* The requests before the flights *)

Mishap == mishaps < MaxMishaps /\ mishaps' = mishaps + 1

\* on_actionSync_triggered
Start == /\ sync.stage = "idle" /\ ~ InDialog
         /\ sync' = [Idle EXCEPT !.stage = "token"]
         /\ UNCHANGED <<editorVars, entries, mishaps, history>>

GotToken == /\ sync.stage = "token" /\ ~ InDialog
            /\ sync' = [sync EXCEPT !.stage = "signin"]
            /\ UNCHANGED <<editorVars, entries, mishaps, history>>

\* retrieveAccesstoken or signin fails or is canceled
NotSignedIn == /\ sync.stage \in {"token", "signin"} /\ ~ InDialog
               /\ Mishap
               /\ sync' = Idle
               /\ UNCHANGED <<editorVars, entries, history>>

\* (mutated: flights edited after their upload are not found)
OnlyNew == {f \in DOMAIN rows : rows[f].vf = 0}

\* getFlightsUnimportedVF
FlightsUnimportedVF == {f \in DOMAIN rows : rows[f].vf = 0 \/ ~ rows[f].uploaded}

\* the head of the loop over the flights, and what follows the loop
NextFlight(s) ==
  IF s.left = {} \/ s.cancelled
  THEN {[Idle EXCEPT !.stage = "signout", !.cancelled = s.cancelled]}
  ELSE {[s EXCEPT !.stage = "upload", !.left = @ \ {f}, !.current = f,
                  !.request = "sent"] : f \in s.left}

\* signin succeeds; the flights are fetched.  A proxy script may leave some out.
SignedIn ==
  /\ sync.stage = "signin" /\ ~ InDialog
  /\ LET all == FlightsUnimportedVF
     IN  \E chosen \in SUBSET all :
           /\ IF chosen = all THEN UNCHANGED mishaps ELSE Mishap
           /\ sync' \in NextFlight([sync EXCEPT !.left = chosen,
                                     !.snapshot = [f \in Flights |-> IF f \in all THEN rows[f] ELSE Blank]])
  /\ UNCHANGED <<editorVars, entries, history>>

\* the proxy script could not be run
ScriptFails == /\ sync.stage = "signin" /\ ~ InDialog
               /\ Mishap
               /\ sync' = Idle
               /\ UNCHANGED <<editorVars, entries, history>>

-----------------------------------------------------------------------------
(* The upload of a flight *)

Entry(f, copy) == [flight |-> f, form |-> copy.form, landed |-> copy.landed]

\* flight/add and flight/edit, as the server carries them out
AddFlight(f, copy) == /\ Len(entries) < MaxEntries
                      /\ entries' = Append(entries, Entry(f, copy))

EditEntry(f, copy) == entries' = [entries EXCEPT ![copy.vf] = Entry(f, copy)]

Store == LET f == sync.current
         IN  IF Copy(f).vf = 0 THEN AddFlight(f, Copy(f)) ELSE EditEntry(f, Copy(f))

ServerStores == /\ sync.request = "sent"
                /\ Store
                /\ sync' = [sync EXCEPT !.request = "stored"]
                /\ UNCHANGED <<editorVars, mishaps, history>>

ServerRefuses == /\ sync.request = "sent"
                 /\ Mishap
                 /\ sync' = [sync EXCEPT !.request = "refused"]
                 /\ UNCHANGED <<editorVars, entries, history>>

\* (mutated: a flight is marked without its entry)
MarkedOnly(f) == [Copy(f) EXCEPT !.uploaded = TRUE]

\* what is written back: the copy, with its entry
WrittenBack(f) ==
  [Copy(f) EXCEPT !.vf = IF @ = 0 THEN Len(entries) ELSE @, !.uploaded = TRUE]

Uploaded == /\ sync.request = "stored" /\ ~ InDialog
            /\ UpdateObject(sync.current, WrittenBack(sync.current))
            /\ sync' \in NextFlight(sync)
            /\ UNCHANGED <<lastId, saves, entries, mishaps, history>>

NotUploaded == /\ sync.request = "refused" /\ ~ InDialog
               /\ sync' \in NextFlight(sync)
               /\ UNCHANGED <<editorVars, entries, mishaps, history>>

\* The answer does not come: the server may have stored the flight or not, or
\* may yet store it.
Unanswered(next) ==
  /\ sync.request \in {"sent", "stored"} /\ ~ InDialog
  /\ Mishap
  /\ UNCHANGED entries \/ (sync.request = "sent" /\ Store)
  /\ sync' \in next
  /\ doubtful' = IF Copy(sync.current).vf = 0 THEN doubtful \cup {sync.current}
                 ELSE doubtful
  /\ UNCHANGED <<editorVars, told, overtaken>>

AnswerLost == Unanswered(NextFlight(sync))

\* cancelButtonClicked; the button can be pressed once
Cancel ==
  /\ ~ sync.cancelled
  /\ LET s == [sync EXCEPT !.cancelled = TRUE]
     IN  \/ Unanswered(NextFlight(s))
         \/ /\ sync.stage = "upload" /\ sync.request = "refused" /\ ~ InDialog
            /\ Mishap /\ sync' \in NextFlight(s)
            /\ UNCHANGED <<editorVars, entries, history>>

\* signout, whatever its answer; finished is emitted
SignedOut == /\ sync.stage = "signout" /\ ~ InDialog
             /\ sync' = Idle
             /\ UNCHANGED <<editorVars, entries, mishaps, history>>

-----------------------------------------------------------------------------
(* What happens meanwhile *)

Meanwhile == UNCHANGED <<entries, sync, mishaps>>

\* Only the main window opens editors and deletes; the dialog blocks it.
MainWindow ==
  /\ sync.stage = "idle" /\ Meanwhile /\ UNCHANGED history
  /\ \/ CreateFlight
     \/ \E f \in Flights : RepeatFlight(f) \/ EditFlight(f) \/ Delete(f)

Window == /\ CloseWindow \/ Accept
          /\ Meanwhile /\ UNCHANGED history

Answer == /\ Determined \/ Aborted
          /\ Meanwhile /\ UNCHANGED history

\* The row was written by the editor, or it was not.
Remember ==
  LET f == Target
  IN  IF rows' = rows THEN UNCHANGED history
      ELSE /\ told' = [told EXCEPT ![f] = [form |-> editor.flight.form,
                         landed |-> editor.flight.landed \/ @.landed]]
           /\ overtaken' = overtaken \cup ({f} \cap Pending)
           /\ doubtful' = IF f \in DOMAIN rows /\ rows[f].vf # editor.flight.vf
                          THEN doubtful \cup {f} ELSE doubtful

Write == (WriteToDatabase \/ WriteCanceled) /\ Remember /\ Meanwhile

LandReported(f) ==
  /\ Land(f) /\ Meanwhile
  /\ told' = [told EXCEPT ![f].landed = TRUE]
  /\ overtaken' = overtaken \cup ({f} \cap (Pending \cup
                    IF InDialog THEN {editor.id} ELSE {}))
  /\ UNCHANGED doubtful

-----------------------------------------------------------------------------
\* A flight has been prepared.
Init == /\ rows = [f \in {1} |-> Blank] /\ lastId = 1 /\ saves = 0
        /\ editor = Closed
        /\ entries = <<>> /\ sync = Idle /\ mishaps = 0
        /\ told = [f \in Flights |-> [form |-> 0, landed |-> FALSE]]
        /\ overtaken = {} /\ doubtful = {}

Server == ServerStores \/ ServerRefuses
Worker == \/ GotToken \/ NotSignedIn \/ SignedIn \/ ScriptFails
          \/ Uploaded \/ NotUploaded \/ AnswerLost \/ SignedOut

Next == Start \/ Server \/ Worker \/ Cancel \/ MainWindow \/ Window \/ Answer
        \/ Write \/ \E f \in Flights : LandReported(f)

Spec == Init /\ [][Next]_vars

\* The server and the network answer in the end, the user answers what he is
\* asked and syncs again.
FairSpec == /\ Spec /\ WF_vars(Start) /\ WF_vars(Server) /\ WF_vars(Worker)
            /\ WF_vars(Answer) /\ WF_vars(Write)

-----------------------------------------------------------------------------
(* Properties *)

(* Every entry at VereinsFlieger is the one that its flight remembers, so  *)
(* that no flight is ever entered twice, except where an answer to an add  *)
(* was lost or an editor opened before the upload has forgotten the entry. *)
(* (vereinsfliegersyncworker.cpp: a flight is added only if it has none.)  *)
EntriesAreKnown ==
  \A n \in DOMAIN entries :
    LET f == entries[n].flight
    IN  f \in DOMAIN rows \ doubtful =>
          \/ rows[f].vf = n
          \/ sync.current = f /\ sync.request = "stored"

(* A flight that is marked as uploaded is at VereinsFlieger as it was last *)
(* entered in an editor (determineFlightBasic takes the mark away).  A     *)
(* landing reported afterwards does not take the mark away, but the server *)
(* never shows one that the table does not.                                *)
UploadedIsCurrent ==
  \A f \in DOMAIN rows :
    rows[f].uploaded =>
      LET e == entries[rows[f].vf]
      IN  e.flight = f /\ e.form = rows[f].form /\ (e.landed => rows[f].landed)

(* What was last entered and reported of a flight is what the table has,   *)
(* except where it was written between the fetching of the flights and the *)
(* end of its upload, or a landing was reported while its editor asked     *)
(* questions: the copies written after that are the older ones.            *)
EnteredIsKept ==
  \A f \in DOMAIN rows \ overtaken :
    rows[f].form = told[f].form /\ (told[f].landed => rows[f].landed)

(* A user who keeps syncing gets every flight uploaded in the end.         *)
AllGetUploaded ==
  \A f \in Flights : []<>(f \in DOMAIN rows => rows[f].uploaded)
=============================================================================
