----------------------------- MODULE PeopleList -----------------------------
(***************************************************************************)
(* The list of people beside the editor of a flight: people are deleted    *)
(* and merged while the window is open and remembers some of them.         *)
(* (src/src/gui/windows/objectList, DbManager::mergePeople)                *)
(*                                                                         *)
(* The dialogs of either keep the user from the other, so a list operation *)
(* is a step.  Its statements may be canceled or lose their connection in  *)
(* between, which shows in what of it reaches the database.  row is the    *)
(* flight in the cache from here on.  A deletion that is canceled (the     *)
(* cache then keeps who may be gone) is left out.                          *)
(***************************************************************************)
EXTENDS FlightForm

\* the database is in order at the beginning
ASSUME ListAssumption ==
  \A f \in StoredFlights : /\ \A role \in Roles : f.id[role] \in KnownPeople \cup {None}
                           /\ f.supervisor \in KnownPeople \cup {None}

VARIABLES
  stored,      \* the columns with people of the flight in the database
  deleted,     \* the ids that are not given again
  overlooked,  \* history: who was deleted while the supervisor of the flight
  remembered   \* history: who was deleted while the copilot of the flight in
               \* the cache, or in the open window

list     == <<stored, deleted, overlooked, remembered>>
listVars == <<vars, list>>

\* pilot_id, copilot_id, towpilot_id, supervisor_id
Columns == Roles \cup {"supervisor"}
PeopleOf(f) == [c \in Columns |-> IF c = "supervisor" THEN f.supervisor ELSE f.id[c]]

ListInit == /\ Init
            /\ stored = PeopleOf(row)
            /\ deleted = {} /\ overlooked = {} /\ remembered = {}

FormStep ==
  /\ Next
  /\ (people' \ people) \cap deleted = {}
  /\ stored' = IF Writes THEN PeopleOf(row') ELSE stored
  /\ UNCHANGED <<deleted, overlooked, remembered>>

-----------------------------------------------------------------------------
(* What the list does *)

\* (mutated: the flights of the cache are searched, not those stored)
UsedInCache(ids, p) == \E role \in Roles : row.id[role] = p

\* Database::objectUsed <Person>, Flight::referencesPersonCondition: nobody
\* looks for supervisors (deviation)
Used(ids, p) == \E role \in Roles : ids[role] = p

\* the columns of the wrong people that an UPDATE has replaced
Replaced(ids, wrong, correct, columns) ==
  [c \in DOMAIN ids |-> IF c \in columns /\ ids[c] \in wrong THEN correct ELSE ids[c]]

\* the columns are updated in this order, in one transaction; the supervisor's
\* is not (deviation)
UpdateOrder == <<"pilot", "copilot", "towpilot">>
FirstColumns(n) == {UpdateOrder[i] : i \in 1 .. n}
LastColumns(n)  == Roles \ FirstColumns(n)

\* the list can be used while the window is, and the window while the list is
ListStep ==
  /\ stage \in {"closed", "open"} /\ steps < MaxSteps
  /\ steps' = steps + 1
  /\ touched' = (touched \/ stage = "open")
  /\ UNCHANGED <<mode, stage, form, selected, flight, now, asked, entered>>

Delete(persons) ==
  /\ people' = people \ persons
  /\ deleted' = deleted \cup persons
  /\ overlooked' = overlooked \cup {p \in persons : p = stored["supervisor"]}
  /\ remembered' = remembered \cup
                     {p \in persons : \/ p = row'.id["copilot"]
                                      \/ stage = "open" /\ p = selected["copilot"]}

\* ObjectListWindow::checkAndDelete
DeletePerson(p) ==
  /\ p \in people /\ ~ Used(stored, p)
  /\ UNCHANGED <<row, stored>>
  /\ Delete({p})
  /\ ListStep

\* mergePeople is canceled: the transaction is not rolled back, and the next
\* BEGIN commits what there is of it, unless the connection was cut
MergeCanceled(correct, wrong) ==
  /\ \E n \in 0 .. 3 :
       stored' = Replaced(stored, wrong, correct, FirstColumns(n))
  /\ ListStep
  /\ UNCHANGED <<row, people, deleted, overlooked, remembered>>

\* mergePeople: if the connection is lost within, what came before is gone and
\* the rest is done without a transaction; who is still in use is not deleted
MergeDone(correct, wrong) ==
  /\ \E n \in 0 .. 3 :
       stored' = Replaced(stored, wrong, correct, LastColumns(n))
  /\ row' = [row EXCEPT !.id = Replaced(@, wrong, correct, Roles)]
  /\ \/ Delete({p \in wrong : ~ Used(stored', p)})
     \/ UNCHANGED <<people, deleted, overlooked, remembered>>
  /\ ListStep

Merge == \E correct \in people : \E wrong \in SUBSET (people \ {correct}) :
           wrong # {} /\ (MergeCanceled(correct, wrong) \/ MergeDone(correct, wrong))

ListNext == FormStep \/ Merge \/ \E p \in Persons : DeletePerson(p)

ListSpec == ListInit /\ [][ListNext]_listVars

-----------------------------------------------------------------------------
(* Who is entered in a flight in the database is in the database: nobody is *)
(* deleted who is in use, and no window writes a person that was deleted or *)
(* merged with another one while it was open.  DbManager.cpp:737 says so    *)
(* "under no circumstances"; the code deviates in two cases, and in no      *)
(* other.  A person who is in use as the supervisor only is deleted, and    *)
(* stays the supervisor.  And whom the cache and the window remember as the *)
(* copilot is written in solo training, which has none, without looking     *)
(* whether the person is still there (FlightWindow.cpp:910, 1237-1242).     *)
PeopleInUseExist ==
  /\ \A role \in Roles \ {"copilot"} : stored[role] \in people \cup {None}
  /\ stored["supervisor"] \in people \cup {None} \cup overlooked
  /\ \/ stored["copilot"] \in people \cup {None}
     \/ /\ SupervisorRecorded(row.type)
        /\ stored["copilot"] \in overlooked \cup remembered
=============================================================================
