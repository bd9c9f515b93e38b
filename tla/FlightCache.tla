---------------------------- MODULE FlightCache -----------------------------
(***************************************************************************)
(* The flights of the cache (src/src/db/cache/Cache.cpp) and the database  *)
(* they come from.                                                         *)
(*                                                                         *)
(* Three threads take part.  The DbWorker writes and, when the write is    *)
(* committed, emits a DbEvent that is queued for the GUI thread; the GUI   *)
(* thread applies queued events to the cache and starts operations; the    *)
(* CacheWorker refreshes lists by reading the database first and           *)
(* installing what it read, under dataMutex, later.  All use one database  *)
(* connection, so a read sees writes that are not committed yet.           *)
(*                                                                         *)
(* The GUI thread waits for each operation in a dialog whose event loop    *)
(* applies events and lets Flarm start further operations: MaxNesting is   *)
(* how many may be under way.  Other computers write to the same database, *)
(* which the cache is not told of: that is what a full refresh is for.     *)
(*                                                                         *)
(* A flight is its day and a revision that stands for the rest of the row; *)
(* a prepared flight has no day.  A list is kept per flight, as the        *)
(* sequence of its copies in the list.                                     *)
(***************************************************************************)
EXTENDS Naturals, Sequences

CONSTANTS
  Stored,       \* flights in the database at the start, with ids 1 .. Stored
  Days,         \* the days flights can be on, positive
  Today,        \* the day the program is started
  LastDay,      \* the last day it runs
  None,         \* no flight
  MaxWrites,    \* bound on writes
  MaxRefreshes, \* bound on refreshes
  MaxNesting,   \* operations under way at once
  MayCancel,    \* whether the user cancels operations
  MayShare      \* whether other computers write to the database

NoDay == 0      \* the null QDate

ASSUME CacheAssumption ==
  /\ Stored \in Nat
  /\ Days \subseteq Nat \ {NoDay}
  /\ Today \in Nat \ {NoDay} /\ LastDay \in Nat
  /\ MaxWrites \in Nat /\ MaxRefreshes \in Nat /\ MaxNesting \in Nat \ {0}
  /\ {MayCancel, MayShare} \subseteq BOOLEAN
  /\ None \notin [day : Nat, rev : Nat]

Ids == 1 .. Stored + MaxWrites

VARIABLES
  rows,        \* the flights table, as the connection sees it
  lastId,      \* its auto-increment counter
  clock,       \* QDate::currentDate ()
  list,        \* flightsToday, flightsOther and preparedFlights
  todayDate, otherDate, byId,     \* Cache members; byId is flightsById
  events,      \* DbEvents queued for the GUI thread
  tasks,       \* tasks queued for the DbWorker
  writer,      \* the task being performed by the DbWorker
  refreshes,   \* refreshes queued for the CacheWorker
  refresher,   \* the refresh being performed by the CacheWorker
  writes, started,   \* writes and refreshes started so far
  disturbed    \* history: what a refresh installed may be out of date

cacheVars   == <<list, todayDate, otherDate, byId>>
workerVars  == <<tasks, writer, refreshes, refresher>>
countVars   == <<writes, started>>
vars == <<rows, lastId, clock, list, todayDate, otherDate, byId, events, tasks,
          writer, refreshes, refresher, writes, started, disturbed>>

Flights  == [day : Days \cup {NoDay}, rev : 0 .. MaxWrites]
Lists    == {"today", "other", "prepared"}
Idle     == [at |-> "idle"]
Range(s) == {s[i] : i \in DOMAIN s}

Tasks == [type : {"create"}, flight : Flights]
           \cup [type : {"update"}, id : Ids, flight : Flights]
           \cup [type : {"delete"}, id : Ids]
Events == [type : {"add", "change"}, id : Ids, flight : Flights]
            \cup [type : {"delete"}, id : Ids]
Steps == [list : Lists, date : Days \cup {NoDay}]
Plans == [full : BOOLEAN, steps : Seq(Steps)]

TypeOK ==
  /\ rows \in [Ids -> Flights \cup {None}]
  /\ lastId \in Nat
  /\ clock \in Nat
  /\ list \in [Lists -> [Ids -> Seq(Flights)]]
  /\ todayDate \in Nat /\ otherDate \in Nat
  /\ byId \in [Ids -> Flights \cup {None}]
  /\ events \in Seq(Events)
  /\ tasks \in Seq(Tasks)
  /\ writer \in {Idle} \cup [at : {"executed"}, event : Events,
                             before : Flights \cup {None}]
  /\ refreshes \in Seq(Plans)
  /\ refresher = Idle \/
       refresher \in [at : {"read", "install"}, plan : Plans, date : Nat,
                      found : [Ids -> Flights \cup {None}],
                      clean : BOOLEAN, allClean : BOOLEAN]
  /\ writes \in 0 .. MaxWrites /\ started \in 0 .. MaxRefreshes
  /\ disturbed \in BOOLEAN

NoFlights == [i \in Ids |-> None]

\* the full refresh of DbManager::refreshCache
FullPlan == [full |-> TRUE,
             steps |-> <<[list |-> "today", date |-> NoDay],
                         [list |-> "other", date |-> NoDay],
                         [list |-> "prepared", date |-> NoDay]>>]

Copies(id, day) == IF rows[id] # None /\ rows[id].day = day
                   THEN <<rows[id]>> ELSE <<>>

\* DbManager::connect has opened the database and refreshed the cache
Init ==
  /\ rows \in {r \in [Ids -> [day : Days \cup {NoDay}, rev : {0}] \cup {None}] :
                \A id \in Ids : r[id] = None <=> id > Stored}
  /\ lastId = Stored
  /\ clock = Today
  /\ list = [l \in Lists |-> [id \in Ids |->
               CASE l = "today"    -> Copies(id, Today)
                 [] l = "other"    -> <<>>
                 [] l = "prepared" -> Copies(id, NoDay)]]
  /\ byId = [id \in Ids |-> IF \E l \in Lists : list[l][id] # <<>>
                             THEN rows[id] ELSE None]
  /\ todayDate = Today /\ otherDate = NoDay
  /\ events = <<>> /\ tasks = <<>> /\ refreshes = <<>>
  /\ writer = Idle /\ refresher = Idle
  /\ writes = 0 /\ started = 0
  /\ disturbed = FALSE

-----------------------------------------------------------------------------
(* The cache reacts to events, in the GUI thread *)

IsPrepared(f) == f.day = NoDay

\* the list a flight belongs to, "none" if the cache is not interested
ListFor(f) == IF IsPrepared(f) THEN "prepared"
              ELSE IF f.day = todayDate THEN "today"
              ELSE IF f.day = otherDate THEN "other"
              ELSE "none"

\* EntityList::replaceOrAdd
ReplaceOrAdd(copies, f) == IF copies = <<>> THEN <<f>>
                           ELSE [n \in DOMAIN copies |-> f]

\* Cache::objectAdded
ObjectAdded(id, f) ==
  IF ListFor(f) \in Lists
  THEN /\ list' = [list EXCEPT ![ListFor(f)][id] = Append(@, f)]
       /\ byId' = [byId EXCEPT ![id] = f]
  ELSE UNCHANGED <<list, byId>>

\* (mutated: not removed from the other lists)
UpdateOneList(id, f) ==
  /\ list' = [l \in Lists |-> IF l = ListFor(f)
                              THEN [list[l] EXCEPT ![id] = ReplaceOrAdd(@, f)]
                              ELSE list[l]]
  /\ byId' = IF ListFor(f) \in Lists THEN [byId EXCEPT ![id] = f] ELSE byId

\* in its list the flight is replaced or added, from the others removed
ObjectUpdated(id, f) ==
  /\ list' = [l \in Lists |-> [list[l] EXCEPT ![id] =
                 IF l = ListFor(f) THEN ReplaceOrAdd(@, f) ELSE <<>>]]
  /\ byId' = IF ListFor(f) \in Lists THEN [byId EXCEPT ![id] = f] ELSE byId

ObjectDeleted(id) ==
  /\ list' = [l \in Lists |-> [list[l] EXCEPT ![id] = <<>>]]
  /\ byId' = [byId EXCEPT ![id] = None]

\* Cache::dbChanged, called by the event loop
DbChanged ==
  /\ events # <<>>
  /\ LET e == Head(events)
     IN  \/ e.type = "add"    /\ ObjectAdded(e.id, e.flight)
         \/ e.type = "change" /\ ObjectUpdated(e.id, e.flight)
         \/ e.type = "delete" /\ ObjectDeleted(e.id)
  /\ events' = Tail(events)
  /\ UNCHANGED <<rows, lastId, clock, todayDate, otherDate, disturbed>>
  /\ UNCHANGED workerVars /\ UNCHANGED countVars

-----------------------------------------------------------------------------
(* The GUI thread starts operations *)

Busy(worker) == IF worker = Idle THEN 0 ELSE 1

UnderWay == Len(tasks) + Busy(writer) + Len(refreshes) + Busy(refresher)

\* The user's next input is handled after the events queued before it;
\* Flarm and timers are served by the event loop of a dialog.
MayStart == IF UnderWay = 0 THEN events = <<>> ELSE UnderWay < MaxNesting

StartWrite(task) ==
  /\ MayStart
  /\ writes < MaxWrites
  /\ writes' = writes + 1
  /\ tasks' = Append(tasks, task)
  /\ UNCHANGED <<rows, lastId, clock, events, started, disturbed>>
  /\ UNCHANGED <<writer, refreshes, refresher>> /\ UNCHANGED cacheVars

NewFlights == [day : Days \cup {NoDay}, rev : {writes + 1}]
Listed     == {id \in Ids : \E l \in Lists : list[l][id] # <<>>}

Create == \E f \in NewFlights : StartWrite([type |-> "create", flight |-> f])

\* cache.getObject (id), some setters, DbManager::updateObject
Update == \E id \in Listed, f \in NewFlights :
            /\ byId[id] # None
            /\ StartWrite([type |-> "update", id |-> id, flight |-> f])

Delete == \E id \in Listed : StartWrite([type |-> "delete", id |-> id])

StartRefresh(plan) ==
  /\ MayStart
  /\ started < MaxRefreshes
  /\ started' = started + 1
  /\ refreshes' = Append(refreshes, plan)
  /\ UNCHANGED <<rows, lastId, clock, events, writes, disturbed>>
  /\ UNCHANGED <<tasks, writer, refresher>> /\ UNCHANGED cacheVars

\* DbManager::refreshCache
RefreshAll == StartRefresh(FullPlan)

\* MainWindow::setDisplayDate -> DbManager::fetchFlights
FetchFlights ==
  \E day \in Days \ {clock, otherDate} :
    StartRefresh([full |-> FALSE, steps |-> <<[list |-> "other", date |-> day]>>])

Midnight == /\ clock < LastDay
            /\ clock' = clock + 1
            /\ UNCHANGED <<rows, lastId, events, disturbed>>
            /\ UNCHANGED cacheVars /\ UNCHANGED workerVars
            /\ UNCHANGED countVars

-----------------------------------------------------------------------------
(* The DbWorker: Database::createObject, updateObject and deleteObject *)

Event(task) ==
  CASE task.type = "create" -> [type |-> "add", id |-> lastId + 1,
                                flight |-> task.flight]
    [] task.type = "update" -> [type |-> "change", id |-> task.id,
                                flight |-> task.flight]
    [] task.type = "delete" -> [type |-> "delete", id |-> task.id]

\* transaction, then INSERT, REPLACE or DELETE; no WHERE on the old contents
Execute ==
  /\ writer = Idle
  /\ tasks # <<>>
  /\ LET e == Event(Head(tasks))
     IN  /\ rows' = [rows EXCEPT ![e.id] = IF e.type = "delete" THEN None
                                           ELSE e.flight]
         /\ lastId' = IF e.type = "add" THEN e.id ELSE lastId
         /\ writer' = [at |-> "executed", event |-> e, before |-> rows[e.id]]
  /\ tasks' = Tail(tasks)
  /\ refresher' = IF refresher = Idle THEN Idle
                  ELSE [refresher EXCEPT !.clean = FALSE]
  /\ UNCHANGED <<clock, events, refreshes, disturbed>>
  /\ UNCHANGED cacheVars /\ UNCHANGED countVars

\* (mutated: the event carries the object as it was before)
EmitBefore ==
  /\ writer # Idle
  /\ events' = Append(events, IF writer.event.type = "delete"
                              THEN writer.event
                              ELSE [writer.event EXCEPT !.flight = writer.before])
  /\ writer' = Idle
  /\ UNCHANGED <<rows, lastId, clock, tasks, refreshes, refresher, disturbed>>
  /\ UNCHANGED cacheVars /\ UNCHANGED countVars

\* (mutated: updateObject emits no event)
EmitNoChange ==
  /\ writer # Idle
  /\ events' = IF writer.event.type = "change" THEN events
               ELSE Append(events, writer.event)
  /\ writer' = Idle
  /\ UNCHANGED <<rows, lastId, clock, tasks, refreshes, refresher, disturbed>>
  /\ UNCHANGED cacheVars /\ UNCHANGED countVars

\* commit, emit dbEvent
CommitAndEmit ==
  /\ writer # Idle
  /\ events' = Append(events, writer.event)
  /\ writer' = Idle
  /\ UNCHANGED <<rows, lastId, clock, tasks, refreshes, refresher, disturbed>>
  /\ UNCHANGED cacheVars /\ UNCHANGED countVars

\* cancelConnection before the statement: it throws, nothing is done
CancelTask ==
  /\ MayCancel
  /\ writer = Idle
  /\ tasks # <<>>
  /\ tasks' = Tail(tasks)
  /\ UNCHANGED <<rows, lastId, clock, events, writer, refreshes, refresher,
                 disturbed>>
  /\ UNCHANGED cacheVars /\ UNCHANGED countVars

\* cancelConnection during COMMIT: it throws, there is no event, and the
\* server may or may not have committed (Database.cpp 2-8)
CancelCommit ==
  /\ MayCancel
  /\ writer # Idle
  /\ \/ UNCHANGED rows
     \/ rows' = [rows EXCEPT ![writer.event.id] = writer.before]
  /\ writer' = Idle
  /\ disturbed' = TRUE
  /\ refresher' = IF refresher = Idle THEN Idle
                  ELSE [refresher EXCEPT !.clean = FALSE, !.allClean = FALSE]
  /\ UNCHANGED <<lastId, clock, events, tasks, refreshes>>
  /\ UNCHANGED cacheVars /\ UNCHANGED countVars

-----------------------------------------------------------------------------
(* Another computer creates, changes or deletes a flight; it counts as a   *)
(* write for the bound *)

RemoteWrite ==
  /\ MayShare
  /\ writes < MaxWrites
  /\ writes' = writes + 1
  /\ \E id \in 1 .. lastId + 1, f \in NewFlights \cup {None} :
       /\ rows[id] = None => id = lastId + 1 /\ f # None
       /\ writer # Idle => writer.event.id # id    \* the row is locked
       /\ rows' = [rows EXCEPT ![id] = f]
       /\ lastId' = IF id > lastId THEN id ELSE lastId
  /\ disturbed' = TRUE
  /\ refresher' = IF refresher = Idle THEN Idle
                  ELSE [refresher EXCEPT !.clean = FALSE, !.allClean = FALSE]
  /\ UNCHANGED <<clock, events, tasks, writer, refreshes, started>>
  /\ UNCHANGED cacheVars

-----------------------------------------------------------------------------
(* The CacheWorker: Cache::refreshAll and fetchFlightsOther *)

TakeRefresh ==
  /\ refresher = Idle
  /\ refreshes # <<>>
  /\ refresher' = [at |-> "read", plan |-> Head(refreshes), date |-> NoDay,
                   found |-> NoFlights, clean |-> TRUE, allClean |-> TRUE]
  /\ refreshes' = Tail(refreshes)
  /\ UNCHANGED <<rows, lastId, clock, events, tasks, writer, disturbed>>
  /\ UNCHANGED cacheVars /\ UNCHANGED countVars

Refreshing(at) == refresher # Idle /\ refresher.at = at
Step     == Head(refresher.plan.steps)
StepDate == IF Step.list = "today" THEN clock
            ELSE IF Step.list = "other" /\ Step.date = NoDay THEN otherDate
            ELSE Step.date

\* what follows a step of the plan
Continue(r) == IF Tail(r.plan.steps) = <<>> THEN Idle
               ELSE [r EXCEPT !.at = "read", !.plan.steps = Tail(@)]

\* Database::getPreparedFlights or getFlightsDate, without dataMutex
ReadList ==
  /\ Refreshing("read")
  /\ Step.list = "other" => StepDate # NoDay
  /\ refresher' = [refresher EXCEPT
       !.at = "install",
       !.date = StepDate,
       !.found = [id \in Ids |->
                    IF rows[id] # None /\ rows[id].day = StepDate
                    THEN rows[id] ELSE None],
       !.clean = (writer = Idle /\ events = <<>>)]
  /\ UNCHANGED <<rows, lastId, clock, events, tasks, writer, refreshes,
                 disturbed>>
  /\ UNCHANGED cacheVars /\ UNCHANGED countVars

\* (mutated: the refresh does not go on after the early return)
SkipOtherAndStay ==
  /\ Refreshing("read")
  /\ Step.list = "other" /\ StepDate = NoDay
  /\ UNCHANGED vars

\* refreshFlightsOther: if (otherDate.isNull ()) return
SkipOther ==
  /\ Refreshing("read")
  /\ Step.list = "other" /\ StepDate = NoDay
  /\ refresher' = Continue(refresher)
  /\ UNCHANGED <<rows, lastId, clock, events, tasks, writer, refreshes,
                 disturbed>>
  /\ UNCHANGED cacheVars /\ UNCHANGED countVars

\* (mutated: what was found is added to the list)
AppendFound(copies, found) ==
  [id \in Ids |-> IF found[id] = None THEN copies[id]
                  ELSE Append(copies[id], found[id])]

\* targetList.replaceList (newFlights)
ReplaceList(copies, found) ==
  [id \in Ids |-> IF found[id] = None THEN <<>> ELSE <<found[id]>>]

\* the synchronized part of refreshFlightsOf
Install ==
  /\ Refreshing("install")
  /\ LET found    == refresher.found
         allClean == refresher.allClean /\ refresher.clean
         last     == Tail(refresher.plan.steps) = <<>>
     IN  /\ list' = [list EXCEPT ![Step.list] = ReplaceList(@, found)]
         /\ byId' = [id \in Ids |-> IF found[id] # None THEN found[id]
                                    ELSE IF list[Step.list][id] # <<>> THEN None
                                    ELSE byId[id]]
         /\ todayDate' = IF Step.list = "today" THEN refresher.date
                         ELSE todayDate
         /\ otherDate' = IF Step.list = "other" THEN refresher.date
                         ELSE otherDate
         /\ refresher' = Continue([refresher EXCEPT !.allClean = allClean])
         /\ disturbed' = IF ~refresher.clean THEN TRUE
                         ELSE disturbed /\ ~(last /\ allClean /\
                                             refresher.plan.full)
  /\ UNCHANGED <<rows, lastId, clock, events, tasks, writer, refreshes>>
  /\ UNCHANGED countVars

\* monitor.progress or the database throws OperationCanceledException
CancelRefresh ==
  /\ MayCancel
  /\ Refreshing("read")
  /\ refresher' = Idle
  /\ disturbed' = (disturbed \/ refresher.plan.full)
  /\ UNCHANGED <<rows, lastId, clock, events, tasks, writer, refreshes>>
  /\ UNCHANGED cacheVars /\ UNCHANGED countVars

-----------------------------------------------------------------------------
Gui         == Create \/ Update \/ Delete \/ RefreshAll \/ FetchFlights
DbWorker    == Execute \/ CommitAndEmit
CacheWorker == TakeRefresh \/ ReadList \/ SkipOther \/ Install
Cancel      == CancelTask \/ CancelCommit \/ CancelRefresh

Next == DbChanged \/ Gui \/ Midnight \/ DbWorker \/ RemoteWrite \/ CacheWorker
        \/ Cancel

Spec == Init /\ [][Next]_vars

\* The threads run and events are delivered; the user need not act.
FairSpec == /\ Spec
            /\ WF_vars(DbChanged) /\ WF_vars(DbWorker) /\ WF_vars(CacheWorker)

-----------------------------------------------------------------------------
(* Properties *)

Quiet == UnderWay = 0 /\ events = <<>>

Mirrored ==
  \A id \in Ids :
    /\ list["today"][id] = Copies(id, todayDate)
    /\ list["prepared"][id] = Copies(id, NoDay)
    /\ otherDate \notin {NoDay, todayDate} =>
         list["other"][id] = Copies(id, otherDate)

(* With operations nested in dialogs and canceled, only these things make  *)
(* a list go wrong: a write of another computer, a write that was canceled *)
(* during its COMMIT, a write or an event that falls between a refresh's   *)
(* read and its installing, and a full refresh that was canceled half way. *)
(* A full refresh that nothing overlaps puts all lists right (Cache.h 35:  *)
(* "The Cache tracks changes to the Database").                            *)
MirrorUnlessDisturbed == Quiet /\ ~disturbed => Mirrored

(* A listed flight that is found by its id when nothing is under way is as *)
(* it is in the database, unless the cache was disturbed: an edit, which   *)
(* starts from what getObject returns and writes the whole row, overwrites *)
(* no change that its author has not seen.                                 *)
EditsSeeTheRow ==
  Quiet /\ ~disturbed =>
    \A id \in Listed : byId[id] # None => byId[id] = rows[id]

(* Once the writes and refreshes stop, everything that was started ends,   *)
(* and unless it was disturbed the cache has caught up for good.           *)
CatchesUp == <>[](Quiet /\ (disturbed \/ Mirrored))
=============================================================================
