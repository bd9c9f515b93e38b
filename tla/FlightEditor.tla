---------------------------- MODULE FlightEditor ----------------------------
(***************************************************************************)
(* The table of flights as one computer's editor (src/src/gui/windows/     *)
(* FlightWindow.cpp) and its Flarm slots write it.                         *)
(*                                                                         *)
(* A flight is what only the editor enters (form, a revision), what Flarm  *)
(* and the main window change too (landed stands for the departure and     *)
(* landing values), and what remembers its upload (vf: the entry at        *)
(* VereinsFlieger, uploaded).  Checks and questions to the user (planes,   *)
(* people, medicals, Flarm ids) only take time or end in an abort.         *)
(***************************************************************************)
EXTENDS Naturals

CONSTANTS
  MaxFlights,   \* bound on the flights ever created
  MaxSaves,     \* bound on the presses of OK or Now
  MaxEntries    \* bound on the entries at VereinsFlieger; 0 is none

ASSUME EditorAssumption == MaxFlights \in Nat /\ MaxSaves \in Nat /\ MaxEntries \in Nat

VARIABLES
  rows,     \* the table: a function of the ids of its flights
  lastId,   \* the table's AUTO_INCREMENT
  editor,   \* the window
  saves     \* revisions of forms so far

editorVars == <<rows, lastId, editor, saves>>

Flights == 1 .. MaxFlights
Flight  == [vf : 0 .. MaxEntries, uploaded : BOOLEAN, form : 0 .. MaxSaves,
            landed : BOOLEAN]
Blank   == [vf |-> 0, uploaded |-> FALSE, form |-> 0, landed |-> FALSE]

\* id: originalFlightId, or 0 when creating; vf, seen: of originalFlight;
\* landed: the fields; flight: what determineFlight has determined
Editor == [phase : {"closed", "open", "asking", "writing"}, id : 0 .. MaxFlights,
           vf : 0 .. MaxEntries, seen : BOOLEAN, landed : BOOLEAN, flight : Flight]
Closed == [phase |-> "closed", id |-> 0, vf |-> 0, seen |-> FALSE,
           landed |-> FALSE, flight |-> Blank]

EditorTypeOK == /\ DOMAIN rows \subseteq 1 .. lastId
                /\ \A f \in DOMAIN rows : rows[f] \in Flight
                /\ lastId \in 0 .. MaxFlights
                /\ editor \in Editor
                /\ saves \in 0 .. MaxSaves

\* A dialog run by exec () blocks all windows.
InDialog == editor.phase \in {"asking", "writing"}

-----------------------------------------------------------------------------
(* What others write *)

\* (mutated: the window does not follow)
Unmoved(e, f, row) == e

CacheChanged(e, f, row) ==
  IF e.phase # "closed" /\ e.id = f /\ row.landed # e.seen
  THEN [e EXCEPT !.landed = row.landed, !.seen = row.landed] ELSE e

With(f, row) == [g \in {f} \cup DOMAIN rows |-> IF g = f THEN row ELSE rows[g]]

\* Database::updateObject: REPLACE INTO, and an event
UpdateObject(f, row) ==
  /\ rows' = With(f, row)
  /\ editor' = CacheChanged(editor, f, row)

\* Flarm's slots, and Land in the main window
Land(f) ==
  /\ f \in DOMAIN rows /\ ~ rows[f].landed
  /\ UpdateObject(f, [rows[f] EXCEPT !.landed = TRUE])
  /\ UNCHANGED <<lastId, saves>>

\* on_actionDelete_triggered; the editor of the flight is rejected
Delete(f) ==
  /\ f \in DOMAIN rows /\ ~ InDialog
  /\ rows' = [g \in DOMAIN rows \ {f} |-> rows[g]]
  /\ editor' = IF editor.id = f THEN Closed ELSE editor
  /\ UNCHANGED <<lastId, saves>>

-----------------------------------------------------------------------------
(* The window *)

Open(e) == /\ ~ InDialog
           /\ editor' = e
           /\ UNCHANGED <<rows, lastId, saves>>

CreateFlight == lastId < MaxFlights /\ Open([Closed EXCEPT !.phase = "open"])

\* (mutated: the entry of the flight that is repeated is kept)
RepeatWithEntry(f) ==
  /\ f \in DOMAIN rows /\ lastId < MaxFlights
  /\ Open([Closed EXCEPT !.phase = "open", !.vf = rows[f].vf])

RepeatFlight(f) ==
  /\ f \in DOMAIN rows /\ lastId < MaxFlights
  /\ Open([Closed EXCEPT !.phase = "open"])

FlightToFields(f) == [phase |-> "open", id |-> f, vf |-> rows[f].vf,
                      seen |-> rows[f].landed, landed |-> rows[f].landed,
                      flight |-> Blank]

EditFlight(f) == f \in DOMAIN rows /\ Open(FlightToFields(f))

CloseWindow == /\ editor.phase = "open"
               /\ editor' = Closed
               /\ UNCHANGED <<rows, lastId, saves>>

\* determineFlightBasic
DetermineFlightBasic == [vf |-> editor.vf, uploaded |-> FALSE, form |-> saves + 1,
                         landed |-> editor.landed]

\* the row that is written: a new one gets its id from the table
Target == IF editor.id = 0 THEN lastId + 1 ELSE editor.id

\* okButton_clicked, nowButton_clicked: the fields are read first of all
Accept == /\ editor.phase = "open" /\ saves < MaxSaves /\ Target \in Flights
          /\ editor' = [editor EXCEPT !.phase = "asking",
                                      !.flight = DetermineFlightBasic]
          /\ saves' = saves + 1
          /\ UNCHANGED <<rows, lastId>>

\* the user confirms or completes everything; Now lands the flight
Determined == /\ editor.phase = "asking"
              /\ \E now \in BOOLEAN :
                   editor' = [editor EXCEPT !.phase = "writing",
                                            !.flight.landed = @ \/ now]
              /\ UNCHANGED <<rows, lastId, saves>>

\* AbortedException
Aborted == /\ editor.phase = "asking"
           /\ editor' = [editor EXCEPT !.phase = "open", !.flight = Blank]
           /\ UNCHANGED <<rows, lastId, saves>>

Stored == /\ rows' = With(Target, editor.flight)
          /\ lastId' = IF editor.id = 0 THEN Target ELSE lastId

WriteToDatabase == /\ editor.phase = "writing"
                   /\ Stored
                   /\ editor' = Closed
                   /\ UNCHANGED saves

\* The write was canceled, with or without effect.  The window stays open.
WriteCanceled ==
  /\ editor.phase = "writing"
  /\ Stored \/ UNCHANGED <<rows, lastId>>
  /\ LET open == [editor EXCEPT !.phase = "open", !.flight = Blank]
     IN  editor' = IF editor.id = 0 THEN open
                   ELSE CacheChanged(open, editor.id, rows'[editor.id])
  /\ UNCHANGED saves
=============================================================================
