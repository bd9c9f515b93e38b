----------------------------- MODULE FlightTable ----------------------------
(***************************************************************************)
(* The flight table of the main window: the flight list                    *)
(* (src/src/gui/windows/MainWindow.cpp) that follows the cache by events,  *)
(* the towflights that FlightProxyList adds to it, and the view, which     *)
(* knows of both only by the signals of the item models.                   *)
(*                                                                         *)
(* Everything happens in the GUI thread.  Fetching the flights of another  *)
(* date waits in a dialog, in whose event loop the slots of Flarm go on.   *)
(* The cache's lists are as FlightCache shows them to be in the absence of *)
(* writes while they are being read: here, events and reads are atomic.    *)
(***************************************************************************)
EXTENDS FlightLogs

VARIABLES
  today,       \* QDate::currentDate ()
  rows,        \* the flights in the database: a function of their ids
  lastId,      \* its AUTO_INCREMENT
  types,       \* the launch methods' types, in the cache
  cache,       \* the ids on the lists of the cache, and its two dates
  enabled,     \* databaseActionsEnabled
  displayDate,
  showPrepared,\* of the FlightSortFilterProxyModel
  fetch,       \* the fetch that the user waits for
  table,       \* list: flightList; tows: towflights; view: the rows it shows;
               \* active, total: the labels, NoNumber for "-"
  stale        \* history: flights whose towflights are out of date, because
               \* their launch method changed or they are not in the cache

vars == <<today, rows, lastId, types, cache, enabled, displayDate, showPrepared,
          fetch, table, stale>>

NoNumber == -1
NoFetch  == [date |-> NoDay, stage |-> "none"]

\* A flight as it can be entered: what has not happened has not landed, and a
\* towplane lands before what it towed.
Entered(id) ==
  {f \in [id : {id}, kind : Kinds, day : (1 .. today) \cup {NoDay},
          landed : BOOLEAN, towLanded : BOOLEAN, tow : {FALSE}] :
     /\ f.kind.mode = "coming" => (f.landed <=> f.day # NoDay)
     /\ f.landed => f.kind.mode # "leaving" /\ f.day # NoDay
     /\ f.towLanded => f.kind.towplane # InvalidId /\ f.day # NoDay
     /\ f.landed /\ f.kind.towplane # InvalidId => f.towLanded}

Lists   == {"today", "other", "prepared"}
NoLists == [l \in Lists |-> {}]

TypeOK ==
  /\ today \in Days
  /\ DOMAIN rows \subseteq 1 .. lastId /\ lastId \in 0 .. MaxFlights
  /\ \A id \in DOMAIN rows : rows[id] \in Entered(id)
  /\ types \in Types
  /\ \A l \in Lists : cache.lists[l] \subseteq DOMAIN rows
  /\ {cache.todayDate, cache.otherDate} \subseteq Days \cup {NoDay}
  /\ displayDate \in Days
  /\ fetch \in [date : Days \cup {NoDay}, stage : {"none", "waiting", "fetched",
                                                   "canceled"}]
  /\ \A part \in {table.list, table.tows, table.view} :
       \A n \in DOMAIN part : part[n] \in Flight
  /\ {table.active, table.total} \subseteq {NoNumber} \cup 0 .. MaxFlights
  /\ stale \subseteq Ids /\ {enabled, showPrepared} \subseteq BOOLEAN

-----------------------------------------------------------------------------
(* The cache (see FlightCache) *)

OnDate(date) == {id \in DOMAIN rows' : rows'[id].day = date}

Prepared == {id \in DOMAIN rows' : IsPrepared(rows'[id])}

ListFor(f) == IF IsPrepared(f) THEN "prepared"
              ELSE IF f.day = cache.todayDate THEN "today"
              ELSE IF f.day = cache.otherDate THEN "other" ELSE "none"

InCache(id, c) == \E l \in Lists : id \in c.lists[l]

\* (mutated: a deleted flight stays on its list)
DbChangedKeeps(id) ==
  cache' = [cache EXCEPT !.lists = [l \in Lists |->
              IF id \notin DOMAIN rows' \/ ListFor(rows'[id]) # l
              THEN @[l] ELSE @[l] \cup {id}]]

\* dbChanged: into the one list, out of the others
DbChanged(id) ==
  cache' = [cache EXCEPT !.lists = [l \in Lists |->
              IF id \in DOMAIN rows' /\ ListFor(rows'[id]) = l
              THEN @[l] \cup {id} ELSE @[l] \ {id}]]

\* refreshAll; the flights of the other date only if there is one
RefreshCache ==
  cache' = [cache EXCEPT !.todayDate = today,
              !.lists = [today    |-> OnDate(today),
                         other    |-> IF cache.otherDate = NoDay THEN @.other
                                      ELSE OnDate(cache.otherDate),
                         prepared |-> Prepared]]

FetchFlightsOther(date) ==
  cache' = [cache EXCEPT !.otherDate = date, !.lists.other = OnDate(date)]

Clear == cache' = [lists |-> NoLists, todayDate |-> NoDay, otherDate |-> NoDay]

ListOf(ids) == LET sorted == InOrder(ids)
               IN  [n \in DOMAIN sorted |-> rows'[sorted[n]]]

-----------------------------------------------------------------------------
(* The views behind the proxy list *)

ProxyRows(t) == t.list \o t.tows

ViewInserted(t, n) == [t EXCEPT !.view = InsertAt(@, n, ProxyRows(t)[n])]
ViewRemoved(t, n)  == [t EXCEPT !.view = RemoveAt(@, n)]
ViewChanged(t, n)  == [t EXCEPT !.view = ReplaceAt(@, n, ProxyRows(t)[n])]
ViewReset(t)       == [t EXCEPT !.view = ProxyRows(t)]

(* The proxy list *)

\* the index of the first with an id, 0 if there is none
IndexOf(flights, id) == SelectInSeq(flights, LAMBDA f : f.id = id)

\* FlightProxyList::isAirtow
ProxyIsAirtow(f) == f.kind.method # InvalidId /\ types'[f.kind.method] = "airtow"

\* added behind all others
AddTowflightFor(t, f) ==
  LET added == [t EXCEPT !.tows = Append(@, MakeTowflight(f))]
  IN  ViewInserted(added, Len(ProxyRows(added)))

RemoveTowflight(t, n) ==
  ViewRemoved([t EXCEPT !.tows = RemoveAt(@, n)], Len(t.list) + n)

\* made anew from the flight in the cache, if it is still an airtow.  What the
\* hash keeps of a flight that left all lists is the flight as it was before.
UpdateTowflight(t, id, n) ==
  IF InCache(id, cache') /\ ProxyIsAirtow(rows'[id])
  THEN [t EXCEPT !.tows[n] = MakeTowflight(rows'[id])] ELSE t

SourceModelRowsInserted(t, n) ==
  LET seen == ViewInserted(t, n)
  IN  IF ProxyIsAirtow(t.list[n]) THEN AddTowflightFor(seen, t.list[n]) ELSE seen

\* before a flight is removed, so is its towflight
SourceModelRowsAboutToBeRemoved(t, n) ==
  LET tow == IndexOf(t.tows, t.list[n].id)
  IN  IF tow = 0 THEN t ELSE RemoveTowflight(t, tow)

\* (mutated: a flight that becomes an airtow gets no towflight)
DataChangedNoAdd(t, n) ==
  LET seen == ViewChanged(t, n)
      f    == t.list[n]
      tow  == IndexOf(t.tows, f.id)
  IN  IF tow = 0 THEN seen
      ELSE IF ProxyIsAirtow(f)
           THEN ViewChanged(UpdateTowflight(seen, f.id, tow), Len(t.list) + tow)
           ELSE RemoveTowflight(seen, tow)

SourceModelDataChanged(t, n) ==
  LET seen == ViewChanged(t, n)
      f    == t.list[n]
      tow  == IndexOf(t.tows, f.id)
  IN  IF ProxyIsAirtow(f)
      THEN IF tow = 0 THEN AddTowflightFor(seen, f)
           ELSE ViewChanged(UpdateTowflight(seen, f.id, tow), Len(t.list) + tow)
      ELSE IF tow = 0 THEN seen ELSE RemoveTowflight(seen, tow)

\* the towflights of the airtows, in the order of the list
SourceModelModelReset(t) ==
  LET airtows == InOrder({n \in DOMAIN t.list : ProxyIsAirtow(t.list[n])})
  IN  ViewReset([t EXCEPT !.tows = [n \in DOMAIN airtows |->
                                      MakeTowflight(t.list[airtows[n]])]])

-----------------------------------------------------------------------------
(* The flight list *)

FlightListChanged(t) ==
  [t EXCEPT !.active = IF enabled' /\ displayDate' = today'
                       THEN CountFlying(t.list) ELSE NoNumber,
            !.total  = IF enabled' THEN CountHappened(t.list) ELSE NoNumber]

AppendFlight(t, f) ==
  LET longer == [t EXCEPT !.list = Append(@, f)]
  IN  FlightListChanged(SourceModelRowsInserted(longer, Len(longer.list)))

\* MutableObjectList::removeAt
RemoveAtIndex(t, n) ==
  LET ready == SourceModelRowsAboutToBeRemoved(t, n)
  IN  FlightListChanged(ViewRemoved([ready EXCEPT !.list = RemoveAt(@, n)], n))

ReplaceAtIndex(t, n, f) ==
  FlightListChanged(SourceModelDataChanged([t EXCEPT !.list[n] = f], n))

ReplaceList(t, flights) ==
  FlightListChanged(SourceModelModelReset([t EXCEPT !.list = flights]))

\* removeById: the first with the id, until there is none
RemoveById(t, id) ==
  LET done[n \in 0 .. Len(t.list)] ==
        IF n = 0 THEN t
        ELSE LET first == IndexOf(done[n - 1].list, id)
             IN  IF first = 0 THEN done[n - 1]
                 ELSE RemoveAtIndex(done[n - 1], first)
  IN  done[Len(t.list)]

\* replaceById, for each with the id of f
ReplaceById(t, f) ==
  LET done[n \in 0 .. Len(t.list)] ==
        IF n = 0 THEN t
        ELSE IF t.list[n].id = f.id
             THEN ReplaceAtIndex(done[n - 1], n, f) ELSE done[n - 1]
  IN  done[Len(t.list)]

ReplaceOrAdd(t, f) == IF IndexOf(t.list, f.id) = 0 THEN AppendFlight(t, f)
                      ELSE ReplaceById(t, f)

-----------------------------------------------------------------------------
(* The main window *)

\* refreshFlights, on the table t
RefreshFlights(t) ==
  LET isToday == displayDate' = today'
  IN  /\ table' = ReplaceList(t,
           IF ~ enabled' THEN <<>>
           ELSE IF isToday THEN ListOf(cache'.lists.today)
                                  \o ListOf(cache'.lists.prepared)
           ELSE ListOf(cache'.lists.other))
      /\ showPrepared' = IF enabled' THEN isToday ELSE showPrepared
      /\ stale' = {}

\* setDisplayDate, for a date that is not displayed or forced; the first half
\* if the date is to be fetched
SetDisplayDate(t, date) ==
  IF date = today \/ date = cache'.otherDate
  THEN displayDate' = date /\ RefreshFlights(t) /\ UNCHANGED fetch
  ELSE /\ fetch' = [date |-> date, stage |-> "waiting"]
       /\ UNCHANGED <<displayDate, showPrepared, stale>> /\ table' = t

Fetching == fetch.stage # "none"

Interesting(f) == IsPrepared(f) \/ f.day = displayDate

\* cacheChanged, typeAdd; the display may be set to be reset on new flights
FlightAdded(f) ==
  LET t    == IF Interesting(f) THEN AppendFlight(table, f) ELSE table
      date == IF IsPrepared(f) THEN today ELSE f.day
  IN  \/ /\ UNCHANGED <<displayDate, showPrepared, fetch, stale>>
         /\ table' = t
      \/ date # displayDate /\ SetDisplayDate(t, date)

\* (mutated: a flight that leaves the displayed date stays in the list)
FlightChangedStays(f) ==
  /\ UNCHANGED <<displayDate, showPrepared, fetch>>
  /\ table' = IF Interesting(f) THEN ReplaceOrAdd(table, f) ELSE table
  /\ stale' = stale \ {f.id}

\* typeChange
FlightChanged(f) ==
  /\ UNCHANGED <<displayDate, showPrepared, fetch>>
  /\ table' = IF Interesting(f) THEN ReplaceOrAdd(table, f)
              ELSE RemoveById(table, f.id)
  /\ stale' = IF InCache(f.id, cache') THEN stale \ {f.id} ELSE stale \cup {f.id}

FlightDeleted(id) == /\ UNCHANGED <<displayDate, showPrepared, fetch>>
                     /\ table' = RemoveById(table, id)
                     /\ stale' = stale \ {id}

Elsewhere == UNCHANGED <<today, types, enabled>>

\* In the dialog of a fetch, only Flarm enters flights; they are today's.
MayEnter(f) == enabled /\ (Fetching => f.day = today)

Create == /\ lastId < MaxFlights
          /\ Elsewhere
          /\ lastId' = lastId + 1
          /\ \E f \in Entered(lastId') :
               /\ MayEnter(f)
               /\ rows' = [id \in DOMAIN rows \cup {f.id} |->
                             IF id = f.id THEN f ELSE rows[id]]
               /\ DbChanged(f.id)
               /\ FlightAdded(f)

Change(id) == /\ id \in DOMAIN rows
              /\ UNCHANGED lastId /\ Elsewhere
              /\ \E f \in Entered(id) \ {rows[id]} :
                   /\ MayEnter(f)
                   /\ Fetching => f.kind = rows[id].kind
                   /\ rows' = [rows EXCEPT ![id] = f]
                   /\ DbChanged(id)
                   /\ FlightChanged(f)

Delete(id) == /\ id \in DOMAIN rows /\ enabled /\ ~ Fetching
              /\ UNCHANGED lastId /\ Elsewhere
              /\ rows' = [i \in DOMAIN rows \ {id} |-> rows[i]]
              /\ DbChanged(id)
              /\ FlightDeleted(id)

\* A launch method is edited.  The table does not look at it.
ChangeMethod(m) ==
  /\ enabled /\ ~ Fetching
  /\ types' = [types EXCEPT ![m] = IF @ = "winch" THEN "airtow" ELSE "winch"]
  /\ stale' = stale \cup {table.list[n].id : n \in
                {n \in DOMAIN table.list : table.list[n].kind.method = m}}
  /\ UNCHANGED <<today, rows, lastId, cache, enabled, displayDate, showPrepared,
                 fetch, table>>

Stored == UNCHANGED <<rows, lastId>>

\* on_actionSetDisplayDate_triggered
SelectDate(date) == /\ enabled /\ ~ Fetching
                    /\ UNCHANGED cache /\ Stored /\ Elsewhere
                    /\ SetDisplayDate(table, date)

\* the CacheWorker
Fetch == /\ fetch.stage = "waiting"
         /\ Stored
         /\ FetchFlightsOther(fetch.date)
         /\ fetch' = [fetch EXCEPT !.stage = "fetched"]
         /\ UNCHANGED <<displayDate, showPrepared, table, stale>> /\ Elsewhere

Cancel == /\ fetch.stage = "waiting"
          /\ fetch' = [fetch EXCEPT !.stage = "canceled"]
          /\ UNCHANGED <<cache, displayDate, showPrepared, table, stale>>
          /\ Stored /\ Elsewhere

\* setDisplayDate, the second half
Fetched == /\ fetch.stage \in {"fetched", "canceled"}
           /\ fetch' = NoFetch
           /\ displayDate' = IF fetch.stage = "fetched" THEN cache.otherDate
                             ELSE displayDate
           /\ UNCHANGED cache /\ Stored /\ Elsewhere
           /\ RefreshFlights(table)

\* on_actionRefreshAll_triggered
RefreshAll == /\ enabled /\ ~ Fetching
              /\ UNCHANGED <<displayDate, fetch>> /\ Stored /\ Elsewhere
              /\ RefreshCache
              /\ RefreshFlights(table)

\* actionRefreshTable: from the cache alone
RefreshTable == /\ ~ Fetching
                /\ UNCHANGED <<cache, displayDate, fetch>> /\ Stored /\ Elsewhere
                /\ RefreshFlights(table)

\* DbManager::disconnect and stateDisconnected
Disconnect == /\ enabled /\ ~ Fetching
              /\ enabled' = FALSE
              /\ Clear
              /\ UNCHANGED <<today, types, displayDate, fetch>> /\ Stored
              /\ RefreshFlights(table)

\* DbManager::connect has refreshed the cache; stateConnected
Connect == /\ ~ enabled
           /\ enabled' = TRUE
           /\ displayDate' = today
           /\ UNCHANGED <<today, types, fetch>> /\ Stored
           /\ RefreshCache
           /\ RefreshFlights(table)

\* Nothing is told of midnight.
Midnight == /\ today < LastDay
            /\ today' = today + 1
            /\ UNCHANGED <<types, enabled, cache, displayDate, showPrepared,
                           fetch, table, stale>> /\ Stored

-----------------------------------------------------------------------------
Init == /\ today = 1 /\ lastId = 0 /\ rows = <<>>
        /\ types \in Types
        /\ cache = [lists |-> NoLists, todayDate |-> NoDay, otherDate |-> NoDay]
        /\ enabled = FALSE /\ displayDate = today /\ showPrepared = TRUE
        /\ fetch = NoFetch /\ stale = {}
        /\ table = [list |-> <<>>, tows |-> <<>>, view |-> <<>>,
                    active |-> NoNumber, total |-> NoNumber]

Next == \/ Create
        \/ \E id \in Ids : Change(id) \/ Delete(id)
        \/ \E m \in Methods : ChangeMethod(m)
        \/ \E date \in Days : SelectDate(date)
        \/ Fetch \/ Cancel \/ Fetched
        \/ RefreshAll \/ RefreshTable \/ Disconnect \/ Connect \/ Midnight

Spec == Init /\ [][Next]_vars

-----------------------------------------------------------------------------
(* Properties *)

\* FlightSortFilterProxyModel::filterAcceptsRow, no flights being hidden
FilterAcceptsRow(f) == IsPrepared(f) => showPrepared /\ ~ f.tow

ShownFlights ==
  {table.view[n] : n \in {n \in DOMAIN table.view :
                            FilterAcceptsRow(table.view[n]) /\ ~ table.view[n].tow}}

\* where the towflights of a flight are
TowflightsOf(id) == {n \in DOMAIN table.tows : table.tows[n].id = id}

(* What the view has gathered from the signals is the flights of the list, *)
(* each airtow followed by one towflight made of it, and the labels count  *)
(* the list (FlightProxyList.cpp:330: the towflights follow the flights).  *)
(* Excepted are the towflights of flights whose launch method has changed  *)
(* and of those that the cache does not keep: it would still find them as  *)
(* they were.                                                              *)
ViewShowsTheList ==
  /\ table.view = ProxyRows(table)
  /\ table.total = IF enabled THEN CountHappened(table.list) ELSE NoNumber
  /\ table.active \in {NoNumber, CountFlying(table.list)}
  /\ \A n \in DOMAIN table.list :
       LET f == table.list[n]
       IN  f.id \notin stale =>
             IF IsAirtow(f, types)
             THEN \E m \in DOMAIN table.tows :
                    /\ TowflightsOf(f.id) = {m}
                    /\ table.tows[m] = MakeTowflight(f)
             ELSE TowflightsOf(f.id) = {}
  /\ \A n \in DOMAIN table.tows : IndexOf(table.list, table.tows[n].id) # 0

(* The table shows exactly the flights of the displayed date, today also   *)
(* the prepared ones, whatever happens while a date is being fetched and   *)
(* also if the fetch is canceled; except after midnight until the next     *)
(* refresh, and when the displayed date is not one that the cache keeps.   *)
ShownIsTheDay ==
  /\ enabled /\ cache.todayDate = today
  /\ displayDate = today \/ (displayDate = cache.otherDate /\ ~ Fetching)
  =>
    ShownFlights = {rows[id] : id \in {id \in DOMAIN rows :
                      \/ rows[id].day = displayDate
                      \/ IsPrepared(rows[id]) /\ displayDate = today}}

(* Each finished flight is in one entry of the log of its plane and, if it *)
(* has a pilot, in one of the pilot's log, its landing is counted once, and *)
(* the launch methods account for all flights that happened and have one;  *)
(* their towflights are those of the table, found there in another way.    *)
LogsAccountForAll ==
  LET flights == table.list \o MakeTowflights(table.list, types)
      planes  == PlaneLogs(flights)
      pilots  == PilotLogs(flights)
      methods == LaunchMethodStatistics(flights)
  IN  /\ \A p \in Planes :
           LET entries  == PlaneLog(p, flights)
               Here(f)  == Finished(f) /\ Plane(f) = p
               Lands(f) == Here(f) /\ LandsHere(f) /\ f.landed
           IN  IF p \in DOMAIN planes
               THEN /\ Count(flights, Here) =
                         SumFunction([n \in DOMAIN entries |-> Len(entries[n])])
                    /\ Count(flights, Lands) =
                         SumFunction([n \in DOMAIN planes[p] |-> planes[p][n].landings])
               ELSE Count(flights, Here) = 0
      /\ SumFunction([p \in DOMAIN pilots |-> Len(pilots[p])]) =
           Count(flights, LAMBDA f : Finished(f) /\ Pilot(f) # InvalidId)
      /\ SumFunction(methods.methods) + methods.towflights =
           Count(flights, LAMBDA f : Happened(f) /\
                            (f.tow \/ f.kind.method # InvalidId))
      /\ stale = {} => methods.towflights = CountHappened(table.tows)
=============================================================================
