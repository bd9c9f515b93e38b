-------------------------- MODULE FlightCacheProofs -------------------------
(***************************************************************************)
(* For any flights, days, operations, refreshes and nesting: unless the    *)
(* cache was disturbed since the last full refresh, its lists mirror the   *)
(* database when nothing is under way.                                     *)
(***************************************************************************)
EXTENDS FlightCache, TLAPS

-----------------------------------------------------------------------------
(* The inductive invariant: what holds always *)

Row     == [day : Nat, rev : Nat]
Change  == [type : {"add", "change"}, id : Nat, flight : Row]
             \cup [type : {"delete"}, id : Nat]
Job     == [type : {"create"}, flight : Row]
             \cup [type : {"update"}, id : Nat, flight : Row]
             \cup [type : {"delete"}, id : Nat]

\* the steps a plan still has: those of a full refresh, or the one of a fetch
AllSteps   == FullPlan.steps
LastTwo    == Tail(AllSteps)
LastOne    == Tail(LastTwo)
FetchPlans == {[full |-> FALSE, steps |-> <<[list |-> "other", date |-> day]>>] :
                 day \in Nat \ {NoDay}}
NewPlans   == {FullPlan} \cup FetchPlans
Plan       == [full : {TRUE}, steps : {AllSteps, LastTwo, LastOne}] \cup FetchPlans
Refresh    == [at : {"read", "install"}, plan : Plan, date : Nat,
               found : [Ids -> Row \cup {None}],
               clean : BOOLEAN, allClean : BOOLEAN]

Typed ==
  /\ rows \in [Ids -> Row \cup {None}] /\ lastId \in Nat
  /\ clock \in Nat \ {NoDay} /\ todayDate \in Nat \ {NoDay} /\ otherDate \in Nat
  /\ list \in [Lists -> [Ids -> Seq(Row)]]
  /\ byId \in [Ids -> Row \cup {None}]
  /\ events \in Seq(Change) /\ tasks \in Seq(Job)
  /\ writer # Idle => /\ writer.event \in Change
                      /\ writer.event.id \in Ids => writer.before \in Row \cup {None}
  /\ refreshes \in Seq(NewPlans)
  /\ refresher \in {Idle} \cup Refresh
  /\ writes \in Nat /\ disturbed \in BOOLEAN

\* ids are given once: nothing is known of one that is still to come
IdsInv ==
  /\ \A id \in Ids : id > lastId =>
       /\ rows[id] = None
       /\ \A l \in Lists : list[l][id] = <<>>
       /\ refresher # Idle => refresher.found[id] = None
  /\ \A n \in DOMAIN events : events[n].id <= lastId
  /\ writer # Idle => writer.event.id <= lastId
  /\ \A n \in DOMAIN tasks : tasks[n].type # "create" => tasks[n].id <= lastId

\* there is another date if there are flights of one
OtherInv == otherDate = NoDay => \A id \in Ids : list["other"][id] = <<>>

\* what was found is what there is, if nothing came in between
FoundInv ==
  refresher # Idle /\ refresher.at = "install" =>
    /\ (Step.list = "prepared") <=> (refresher.date = NoDay)
    /\ refresher.clean =>
         /\ writer = Idle /\ events = <<>>
         /\ \A id \in Ids :
              refresher.found[id] =
                IF rows[id] # None /\ rows[id].day = refresher.date
                THEN rows[id] ELSE None

CleanInv == refresher # Idle /\ ~ refresher.allClean => disturbed

-----------------------------------------------------------------------------
(* ... and what holds of the lists that can be trusted *)

\* the lists a full refresh has installed
Done == IF refresher.plan.steps = AllSteps THEN {}
        ELSE IF refresher.plan.steps = LastTwo THEN {"today"}
        ELSE {"today", "other"}

Trusted == IF refresher # Idle /\ refresher.plan.full
           THEN IF refresher.allClean THEN Done ELSE {}
           ELSE IF disturbed THEN {} ELSE Lists

\* the changes that are on their way to the cache
Queue == IF writer = Idle THEN events ELSE Append(events, writer.event)

Awaited(id) == \E n \in DOMAIN Queue : Queue[n].id = id

Result(e) == IF e.type = "delete" THEN None ELSE e.flight

\* the last of the changes to a flight makes it what it is, and only the first
\* adds it
QueueInv ==
  \A n \in DOMAIN Queue :
    /\ (\A m \in DOMAIN Queue : m > n => Queue[m].id # Queue[n].id)
         => (Queue[n].id \in Ids => rows[Queue[n].id] = Result(Queue[n]))
    /\ Queue[n].type = "add" =>
         \A m \in DOMAIN Queue : m < n => Queue[m].id # Queue[n].id

DateOf(l) == IF l = "today" THEN todayDate
             ELSE IF l = "other" THEN otherDate ELSE NoDay

\* the other list is not kept while its date is the one of the first
Kept(l) == l = "other" => otherDate \notin {NoDay, todayDate}

Tracked(l, id) ==
  IF Awaited(id)
  THEN /\ Kept(l) => Len(list[l][id]) <= 1
       /\ \A n \in DOMAIN Queue :
            Queue[n].id = id /\ Queue[n].type = "add" => list[l][id] = <<>>
  ELSE /\ Kept(l) => list[l][id] = Copies(id, DateOf(l))
       /\ list[l][id] # <<>> => byId[id] \in {None, rows[id]}

TrustInv ==
  /\ Trusted # {} => QueueInv
  /\ \A l \in Trusted, id \in Ids : Tracked(l, id)

IInv == Typed /\ IdsInv /\ OtherInv /\ FoundInv /\ CleanInv /\ TrustInv
-----------------------------------------------------------------------------
(* Plans *)

LEMMA StepsFacts ==
  /\ AllSteps \in Seq([list : Lists, date : {NoDay}])
  /\ Head(AllSteps) = [list |-> "today", date |-> NoDay]
  /\ Head(LastTwo) = [list |-> "other", date |-> NoDay]
  /\ Head(LastOne) = [list |-> "prepared", date |-> NoDay]
  /\ Tail(LastOne) = <<>> /\ LastTwo # <<>> /\ LastOne # <<>>
  /\ AllSteps # LastTwo /\ AllSteps # LastOne /\ LastTwo # LastOne
BY DEF AllSteps, LastTwo, LastOne, FullPlan, Lists, NoDay

LEMMA FullPlanIsPlan == FullPlan \in Plan /\ FullPlan = [full |-> TRUE, steps |-> AllSteps]
BY DEF FullPlan, Plan, AllSteps

\* the list and the date of a step
LEMMA HeadFacts ==
  ASSUME NEW p \in Plan
  PROVE  /\ Head(p.steps).list \in Lists
         /\ p.full \in BOOLEAN
         /\ ~ p.full => /\ Head(p.steps).list = "other"
                        /\ Head(p.steps).date \in Nat \ {NoDay}
         /\ p.full => /\ Head(p.steps).date = NoDay
                      /\ p.steps = AllSteps => Head(p.steps).list = "today"
                      /\ p.steps = LastTwo => Head(p.steps).list = "other"
                      /\ p.steps = LastOne => Head(p.steps).list = "prepared"
                      /\ p.steps \in {AllSteps, LastTwo, LastOne}
<1>1. CASE p \in FetchPlans
  <2>1. PICK day \in Nat \ {NoDay} :
          p = [full |-> FALSE, steps |-> <<[list |-> "other", date |-> day]>>]
    BY <1>1 DEF FetchPlans
  <2> DEFINE step == [list |-> "other", date |-> day]
  <2>2. Head(<<step>>) = step
    OBVIOUS
  <2> QED BY <2>1, <2>2 DEF Lists
<1>2. CASE p \in [full : {TRUE}, steps : {AllSteps, LastTwo, LastOne}]
  <2>1. p.steps \in {AllSteps, LastTwo, LastOne} /\ p.full
    BY <1>2
  <2> QED BY <2>1, StepsFacts DEF Lists
<1> QED BY <1>1, <1>2 DEF Plan

LEMMA TailFacts ==
  ASSUME NEW p \in Plan
  PROVE  \/ /\ Tail(p.steps) = <<>>
            /\ p.full => p.steps = LastOne
         \/ /\ Tail(p.steps) # <<>>
            /\ [p EXCEPT !.steps = Tail(p.steps)] \in Plan
            /\ p.full
            /\ p.steps = AllSteps => Tail(p.steps) = LastTwo
            /\ p.steps = LastTwo => Tail(p.steps) = LastOne
            /\ p.steps # LastOne
<1>1. CASE p \in FetchPlans
  <2>1. PICK day : p = [full |-> FALSE, steps |-> <<[list |-> "other", date |-> day]>>]
    BY <1>1 DEF FetchPlans
  <2>2. Tail(<<[list |-> "other", date |-> day]>>) = <<>>
    OBVIOUS
  <2> QED BY <2>1, <2>2
<1>2. CASE p \in [full : {TRUE}, steps : {AllSteps, LastTwo, LastOne}]
  <2>1. p.steps \in {AllSteps, LastTwo, LastOne} /\ p.full
    BY <1>2
  <2>2. ASSUME NEW s \in {LastTwo, LastOne}
        PROVE  [p EXCEPT !.steps = s] \in Plan
    BY <1>2 DEF Plan
  <2>3. Tail(AllSteps) = LastTwo /\ Tail(LastTwo) = LastOne
    BY DEF LastTwo, LastOne
  <2> QED BY <2>1, <2>2, <2>3, StepsFacts
<1> QED BY <1>1, <1>2 DEF Plan

LEMMA ContinueFacts ==
  ASSUME NEW r \in Refresh
  PROVE  \/ /\ Tail(r.plan.steps) = <<>> /\ Continue(r) = Idle
            /\ r.plan.full => r.plan.steps = LastOne
         \/ /\ Tail(r.plan.steps) # <<>>
            /\ Continue(r) \in Refresh /\ Continue(r) # Idle
            /\ Continue(r).at = "read" /\ Continue(r).plan.full /\ r.plan.full
            /\ Continue(r).found = r.found /\ Continue(r).allClean = r.allClean
            /\ r.plan.steps = AllSteps => Continue(r).plan.steps = LastTwo
            /\ r.plan.steps = LastTwo => Continue(r).plan.steps = LastOne
            /\ r.plan.steps # LastOne
<1>1. r.plan \in Plan
  BY DEF Refresh
<1>2. CASE Tail(r.plan.steps) = <<>>
  BY <1>1, <1>2, TailFacts DEF Continue
<1>3. CASE Tail(r.plan.steps) # <<>>
  <2> DEFINE p == [r.plan EXCEPT !.steps = Tail(r.plan.steps)]
             c == [r EXCEPT !.at = "read", !.plan = p]
  <2>1. Continue(r) = c
    BY <1>3 DEF Continue
  <2>2. p \in Plan /\ r.plan.full
    BY <1>1, <1>3, TailFacts
  <2>3. r.plan \in [full : {TRUE}, steps : {AllSteps, LastTwo, LastOne}]
    <3>1. SUFFICES ASSUME r.plan \in FetchPlans
                   PROVE  FALSE
      BY <1>1 DEF Plan
    <3>2. PICK day :
            r.plan = [full |-> FALSE, steps |-> <<[list |-> "other", date |-> day]>>]
      BY <3>1 DEF FetchPlans
    <3>3. r.plan.full = FALSE
      BY <3>2
    <3> QED BY <2>2, <3>3
  <2>4. p.full = r.plan.full /\ p.steps = Tail(r.plan.steps)
    BY <2>3
  <2> HIDE DEF p
  <2>5. /\ c \in Refresh /\ c # Idle /\ c.at = "read" /\ c.plan = p
        /\ c.found = r.found /\ c.allClean = r.allClean
    BY <2>2 DEF Refresh, Idle
  <2> HIDE DEF c
  <2> QED BY <1>1, <1>3, <2>1, <2>2, <2>4, <2>5, TailFacts
<1> QED BY <1>2, <1>3

-----------------------------------------------------------------------------
(* Sequences *)

LEMMA AppendFacts ==
  ASSUME NEW S, NEW s \in Seq(S), NEW x \in S
  PROVE  /\ Append(s, x) \in Seq(S) /\ Append(s, x) # <<>>
         /\ Len(s) \in Nat /\ Len(Append(s, x)) = Len(s) + 1
         /\ DOMAIN s = 1 .. Len(s) /\ DOMAIN Append(s, x) = 1 .. Len(s) + 1
         /\ Append(s, x)[Len(s) + 1] = x
         /\ \A n \in DOMAIN s : n \in DOMAIN Append(s, x) /\ Append(s, x)[n] = s[n]
         /\ \A n \in DOMAIN Append(s, x) :
              \/ Append(s, x)[n] = x /\ n = Len(s) + 1
              \/ n \in DOMAIN s /\ Append(s, x)[n] = s[n]
OBVIOUS

LEMMA AppendToEmpty == 
  \A x : Append(<<>>, x) = <<x>> /\ Len(<<x>>) <= 1 /\ Len(<<>>) <= 1
OBVIOUS

LEMMA TailOfSeq ==
  ASSUME NEW S, NEW s \in Seq(S), s # <<>>
  PROVE  /\ Head(s) \in S /\ Tail(s) \in Seq(S) /\ Head(s) = s[1]
         /\ Len(s) \in Nat \ {0} /\ Len(Tail(s)) = Len(s) - 1
         /\ DOMAIN s = 1 .. Len(s) /\ DOMAIN Tail(s) = 1 .. Len(s) - 1
         /\ \A n \in DOMAIN Tail(s) : Tail(s)[n] = s[n + 1]
OBVIOUS

-----------------------------------------------------------------------------
(* Steps that leave alone what the invariant speaks of *)

Basic == Typed /\ IdsInv /\ OtherInv /\ FoundInv /\ CleanInv

\* what is tracked still is, if neither the rows nor the lists change
LEMMA StillTracked ==
  ASSUME UNCHANGED <<rows, list, byId, todayDate, otherDate>>, Queue' = Queue
  PROVE  /\ QueueInv => QueueInv'
         /\ \A l, id : Tracked(l, id) => Tracked(l, id)'
<1>1. QueueInv => QueueInv'
  BY DEF QueueInv
<1>2. ASSUME NEW l, NEW id, Tracked(l, id)
      PROVE  Tracked(l, id)'
  BY <1>2 DEF Tracked, Awaited, Kept, DateOf, Copies
<1> QED BY <1>1, <1>2

LEMMA Untouched ==
  ASSUME TrustInv, UNCHANGED <<rows, list, byId, todayDate, otherDate>>,
         Queue' = Queue, Trusted' \subseteq Trusted
  PROVE  TrustInv'
BY StillTracked DEF TrustInv

LEMMA StutterStep ==
  ASSUME Basic, TrustInv, UNCHANGED vars
  PROVE  Basic' /\ TrustInv'
<1>1. Basic'
  BY DEF Basic, Typed, IdsInv, OtherInv, FoundInv, CleanInv, Step, vars
<1>2. Queue' = Queue /\ Trusted' = Trusted
  BY DEF Queue, Trusted, Done, vars
<1> QED BY <1>1, <1>2, Untouched DEF vars

LEMMA StartWriteStep ==
  ASSUME Basic, TrustInv, NEW task \in Job, StartWrite(task),
         task.type # "create" => task.id <= lastId
  PROVE  Basic' /\ TrustInv'
<1> USE DEF StartWrite, cacheVars
<1>1. tasks' \in Seq(Job)
  BY DEF Basic, Typed
<1>2. Typed'
  BY <1>1 DEF Basic, Typed
<1>3. \A n \in DOMAIN tasks' : tasks'[n].type # "create" => tasks'[n].id <= lastId
  <2>1. tasks \in Seq(Job)
    BY DEF Basic, Typed
  <2>2. \A n \in DOMAIN tasks' : \/ tasks'[n] = task
                                 \/ n \in DOMAIN tasks /\ tasks'[n] = tasks[n]
    BY <2>1, AppendFacts
  <2> QED BY <2>2 DEF Basic, IdsInv
<1>4. IdsInv' /\ OtherInv' /\ FoundInv' /\ CleanInv'
  BY <1>3 DEF Basic, IdsInv, OtherInv, FoundInv, CleanInv, Step
<1>5. Queue' = Queue /\ Trusted' = Trusted
  BY DEF Queue, Trusted, Done
<1> QED BY <1>2, <1>4, <1>5, Untouched DEF Basic

LEMMA StartRefreshStep ==
  ASSUME Basic, TrustInv, NEW plan \in NewPlans, StartRefresh(plan)
  PROVE  Basic' /\ TrustInv'
<1> USE DEF StartRefresh, cacheVars
<1>1. refreshes' \in Seq(NewPlans)
  BY DEF Basic, Typed
<1>2. Basic'
  BY <1>1 DEF Basic, Typed, IdsInv, OtherInv, FoundInv, CleanInv, Step
<1>3. Queue' = Queue /\ Trusted' = Trusted
  BY DEF Queue, Trusted, Done
<1> QED BY <1>2, <1>3, Untouched

LEMMA GuiStep ==
  ASSUME Basic, TrustInv, Gui
  PROVE  Basic' /\ TrustInv'
<1>1. NewFlights \subseteq Row
  <2>1. writes + 1 \in Nat /\ Days \cup {NoDay} \subseteq Nat
    BY CacheAssumption DEF Basic, Typed, NoDay
  <2> QED BY <2>1 DEF NewFlights, Row
<1>2. \A id \in Listed : id \in Nat /\ id <= lastId
  BY CacheAssumption DEF Basic, Typed, IdsInv, Listed, Ids
<1>3. CASE Create
  <2>1. PICK f \in NewFlights : StartWrite([type |-> "create", flight |-> f])
    BY <1>3 DEF Create
  <2>2. [type |-> "create", flight |-> f] \in Job
    BY <1>1 DEF Job
  <2> QED BY <2>1, <2>2, StartWriteStep
<1>4. CASE Update
  <2>1. PICK id \in Listed, f \in NewFlights :
          StartWrite([type |-> "update", id |-> id, flight |-> f])
    BY <1>4 DEF Update
  <2>2. [type |-> "update", id |-> id, flight |-> f] \in Job
    BY <1>1, <1>2 DEF Job
  <2> QED BY <1>2, <2>1, <2>2, StartWriteStep
<1>5. CASE Delete
  <2>1. PICK id \in Listed : StartWrite([type |-> "delete", id |-> id])
    BY <1>5 DEF Delete
  <2>2. [type |-> "delete", id |-> id] \in Job
    BY <1>2 DEF Job
  <2> QED BY <1>2, <2>1, <2>2, StartWriteStep
<1>6. CASE RefreshAll
  BY <1>6, StartRefreshStep DEF RefreshAll, NewPlans
<1>7. CASE FetchFlights
  <2>1. PICK day \in Days : StartRefresh(
          [full |-> FALSE, steps |-> <<[list |-> "other", date |-> day]>>])
    BY <1>7 DEF FetchFlights
  <2>2. [full |-> FALSE, steps |-> <<[list |-> "other", date |-> day]>>] \in NewPlans
    BY CacheAssumption DEF NewPlans, FetchPlans
  <2> QED BY <2>1, <2>2, StartRefreshStep
<1> QED BY <1>3, <1>4, <1>5, <1>6, <1>7 DEF Gui

LEMMA MidnightStep ==
  ASSUME Basic, TrustInv, Midnight
  PROVE  Basic' /\ TrustInv'
<1> USE DEF Midnight, cacheVars, workerVars, countVars
<1>1. Basic'
  BY DEF Basic, Typed, IdsInv, OtherInv, FoundInv, CleanInv, Step, NoDay
<1>2. Queue' = Queue /\ Trusted' = Trusted
  BY DEF Queue, Trusted, Done
<1> QED BY <1>1, <1>2, Untouched

\* a task that was canceled before its statement
LEMMA CancelTaskStep ==
  ASSUME Basic, TrustInv, CancelTask
  PROVE  Basic' /\ TrustInv'
<1> USE DEF CancelTask, cacheVars, countVars
<1>1. /\ tasks' \in Seq(Job)
      /\ \A n \in DOMAIN tasks' : n + 1 \in DOMAIN tasks /\ tasks'[n] = tasks[n + 1]
  BY DEF Basic, Typed
<1>2. Basic'
  BY <1>1 DEF Basic, Typed, IdsInv, OtherInv, FoundInv, CleanInv, Step
<1>3. Queue' = Queue /\ Trusted' = Trusted
  BY DEF Queue, Trusted, Done
<1> QED BY <1>2, <1>3, Untouched

LEMMA TakeRefreshStep ==
  ASSUME Basic, TrustInv, TakeRefresh
  PROVE  Basic' /\ TrustInv'
<1> USE DEF TakeRefresh, cacheVars, countVars
<1>1. Head(refreshes) \in NewPlans /\ refreshes' \in Seq(NewPlans)
  BY DEF Basic, Typed
<1>2. NewPlans \subseteq Plan
  BY FullPlanIsPlan DEF NewPlans, Plan
<1> DEFINE plan == Head(refreshes)
<1>3. refresher' \in Refresh /\ refresher'.at = "read" /\ refresher'.plan = plan
      /\ refresher'.found = NoFlights /\ refresher'.allClean = TRUE
  BY <1>1, <1>2 DEF Refresh, NoFlights, NoDay
<1>4. Basic'
  BY <1>1, <1>3 DEF Basic, Typed, IdsInv, OtherInv, FoundInv, CleanInv, NoFlights
<1>5. plan.full => plan.steps = AllSteps
  <2>1. CASE plan = FullPlan
    BY <2>1 DEF AllSteps
  <2>2. CASE plan \in FetchPlans
    <3>1. PICK day :
            plan = [full |-> FALSE, steps |-> <<[list |-> "other", date |-> day]>>]
      BY <2>2 DEF FetchPlans
    <3> QED BY <3>1
  <2> QED BY <1>1, <2>1, <2>2 DEF NewPlans
<1>6. Queue' = Queue /\ Trusted' \subseteq Trusted
  BY <1>3, <1>5 DEF Queue, Trusted, Done
<1> QED BY <1>4, <1>6, Untouched

LEMMA CancelRefreshStep ==
  ASSUME Basic, TrustInv, CancelRefresh
  PROVE  Basic' /\ TrustInv'
<1> USE DEF CancelRefresh, Refreshing, cacheVars, countVars
<1>1. refresher.plan.full \in BOOLEAN
  BY HeadFacts DEF Basic, Typed, Refresh
<1>2. Basic'
  BY <1>1 DEF Basic, Typed, IdsInv, OtherInv, FoundInv, CleanInv
<1>3. Queue' = Queue /\ Trusted' \subseteq Trusted
  BY <1>1 DEF Queue, Trusted, Done
<1> QED BY <1>2, <1>3, Untouched

LEMMA CommitStep ==
  ASSUME Basic, TrustInv, CommitAndEmit
  PROVE  Basic' /\ TrustInv'
<1> USE DEF CommitAndEmit, cacheVars, countVars
<1>1. events' \in Seq(Change)
  BY AppendFacts DEF Basic, Typed
<1>2. \A n \in DOMAIN events' : \/ events'[n] = writer.event
                                \/ n \in DOMAIN events /\ events'[n] = events[n]
  <2>1. events \in Seq(Change) /\ writer.event \in Change
    BY DEF Basic, Typed
  <2> QED BY <2>1, AppendFacts
<1>3. Typed' /\ IdsInv'
  BY <1>1, <1>2 DEF Basic, Typed, IdsInv
<1>4. OtherInv' /\ FoundInv' /\ CleanInv'
  BY DEF Basic, OtherInv, FoundInv, CleanInv, Step
<1>5. Queue' = Queue /\ Trusted' = Trusted
  BY DEF Queue, Trusted, Done
<1> QED BY <1>3, <1>4, <1>5, Untouched DEF Basic

-----------------------------------------------------------------------------
(* Steps after which nothing is trusted *)

LEMMA RefresherKept ==
  ASSUME Typed, refresher # Idle, NEW clean \in BOOLEAN, NEW allClean \in BOOLEAN,
         refresher' = [refresher EXCEPT !.clean = clean, !.allClean = allClean]
  PROVE  /\ refresher' \in Refresh /\ refresher' # Idle
         /\ refresher'.at = refresher.at /\ refresher'.plan = refresher.plan
         /\ refresher'.date = refresher.date /\ refresher'.found = refresher.found
         /\ refresher'.clean = clean /\ refresher'.allClean = allClean
BY DEF Typed, Refresh, Idle

\* a refresh that is under way is known to be out of date
Spoiled == IF refresher = Idle THEN refresher' = Idle
           ELSE refresher' = [refresher EXCEPT !.clean = FALSE, !.allClean = FALSE]

LEMMA SpoiledFacts ==
  ASSUME Typed, CleanInv, Spoiled, disturbed'
  PROVE  /\ Trusted' = {} /\ CleanInv'
         /\ refresher' \in {Idle} \cup Refresh
         /\ refresher' # Idle => /\ refresher # Idle /\ ~ refresher'.clean
                                 /\ refresher'.found = refresher.found
                                 /\ refresher'.date = refresher.date
                                 /\ refresher'.at = refresher.at
                                 /\ refresher'.plan = refresher.plan
<1>1. CASE refresher = Idle
  BY <1>1 DEF Spoiled, Trusted, CleanInv
<1>2. CASE refresher # Idle
  <2>1. refresher' = [refresher EXCEPT !.clean = FALSE, !.allClean = FALSE]
    BY <1>2 DEF Spoiled
  <2>2. /\ refresher' \in Refresh
        /\ ~ refresher'.clean /\ ~ refresher'.allClean
        /\ refresher'.found = refresher.found /\ refresher'.date = refresher.date
        /\ refresher'.at = refresher.at /\ refresher'.plan = refresher.plan
    BY <1>2, <2>1, RefresherKept
  <2>3. Trusted' = {}
    BY <2>2 DEF Trusted
  <2> QED BY <1>2, <2>2, <2>3 DEF CleanInv
<1> QED BY <1>1, <1>2

LEMMA RemoteWriteStep ==
  ASSUME Basic, TrustInv, RemoteWrite
  PROVE  Basic' /\ TrustInv'
<1>1. PICK id \in 1 .. lastId + 1, f \in NewFlights \cup {None} :
        /\ rows' = [rows EXCEPT ![id] = f]
        /\ lastId' = IF id > lastId THEN id ELSE lastId
  BY DEF RemoteWrite
<1>2. /\ writes' \in Nat /\ disturbed' /\ Spoiled
      /\ UNCHANGED <<clock, events, tasks, writer, refreshes, list, todayDate,
                     otherDate, byId>>
  BY DEF RemoteWrite, Spoiled, cacheVars, Basic, Typed
<1>3. f \in Row \cup {None}
  <2>1. writes + 1 \in Nat /\ Days \cup {NoDay} \subseteq Nat
    BY CacheAssumption DEF Basic, Typed, NoDay
  <2> QED BY <2>1 DEF NewFlights, Row
<1>4. id \in Nat /\ lastId \in Nat /\ lastId' \in Nat
      /\ lastId <= lastId' /\ id <= lastId'
  BY <1>1 DEF Basic, Typed
<1>5. rows' \in [Ids -> Row \cup {None}]
  BY <1>1, <1>3 DEF Basic, Typed
<1>6. Trusted' = {} /\ CleanInv'
  BY <1>2, SpoiledFacts DEF Basic
<1>7. Typed'
  BY <1>2, <1>4, <1>5, SpoiledFacts DEF Basic, Typed
<1>8. IdsInv'
  <2>1. ASSUME NEW i \in Ids, i > lastId'
        PROVE  /\ rows'[i] = None
               /\ \A l \in Lists : list'[l][i] = <<>>
               /\ refresher' # Idle => refresher'.found[i] = None
    <3>1. i > lastId /\ i # id /\ i \in Nat
      BY <1>4, <2>1, CacheAssumption DEF Ids
    <3> QED BY <1>1, <1>2, <3>1, SpoiledFacts DEF Basic, Typed, IdsInv
  <2>2. /\ \A n \in DOMAIN events : events[n] \in Change
        /\ \A n \in DOMAIN tasks : tasks[n] \in Job
    BY DEF Basic, Typed
  <2>3. \A n : n \in Nat /\ n <= lastId => n <= lastId'
    BY <1>4
  <2>4. \A e \in Change : e.id \in Nat
    BY DEF Change
  <2>5. \A t \in Job : t.type # "create" => t.id \in Nat
    BY DEF Job
  <2>6. writer # Idle => writer.event \in Change
    BY DEF Basic, Typed
  <2> QED BY <1>2, <2>1, <2>2, <2>3, <2>4, <2>5, <2>6 DEF Basic, IdsInv
<1>9. OtherInv' /\ FoundInv'
  BY <1>2, SpoiledFacts DEF Basic, OtherInv, FoundInv, Step
<1> QED BY <1>6, <1>7, <1>8, <1>9 DEF Basic, TrustInv

LEMMA CancelCommitStep ==
  ASSUME Basic, TrustInv, CancelCommit
  PROVE  Basic' /\ TrustInv'
<1>1. /\ writer # Idle /\ writer' = Idle /\ disturbed' /\ Spoiled
      /\ UNCHANGED <<lastId, clock, events, tasks, refreshes, list, todayDate,
                     otherDate, byId, writes>>
      /\ \/ rows' = rows
         \/ rows' = [rows EXCEPT ![writer.event.id] = writer.before]
  BY DEF CancelCommit, Spoiled, cacheVars, countVars
<1>2. writer.event.id \in Nat /\ writer.event.id <= lastId /\ lastId \in Nat
  BY <1>1 DEF Basic, Typed, IdsInv, Change
<1>3. rows' \in [Ids -> Row \cup {None}]
  BY <1>1 DEF Basic, Typed
<1>4. Typed' /\ Trusted' = {} /\ CleanInv'
  BY <1>1, <1>3, SpoiledFacts DEF Basic, Typed
<1>5. \A i \in Ids : i > lastId => rows'[i] = rows[i]
  BY <1>1, <1>2, CacheAssumption DEF Ids, Basic, Typed
<1>6. IdsInv'
  BY <1>1, <1>5, SpoiledFacts DEF Basic, IdsInv
<1>7. OtherInv' /\ FoundInv'
  BY <1>1, SpoiledFacts DEF Basic, OtherInv, FoundInv, Step
<1> QED BY <1>4, <1>6, <1>7 DEF Basic, TrustInv

-----------------------------------------------------------------------------
(* Steps of a refresh *)

LEMMA ReadListStep ==
  ASSUME Basic, TrustInv, ReadList
  PROVE  Basic' /\ TrustInv'
<1> USE DEF ReadList, Refreshing, cacheVars, countVars
<1>1. refresher \in Refresh /\ refresher.plan \in Plan
  BY DEF Basic, Typed, Refresh
<1> DEFINE what == [id \in Ids |-> IF rows[id] # None /\ rows[id].day = StepDate
                                   THEN rows[id] ELSE None]
           undisturbed == writer = Idle /\ events = <<>>
<1>2. /\ StepDate \in Nat
      /\ Step.list = "prepared" <=> StepDate = NoDay
  <2>1. clock \in Nat /\ clock # NoDay /\ otherDate \in Nat /\ NoDay \in Nat
    BY DEF Basic, Typed, NoDay
  <2>2. /\ Step.list \in Lists /\ Step.date \in Nat
        /\ Step.list = "other" \/ Step.date = NoDay
    BY <1>1, <2>1, HeadFacts DEF Step
  <2> QED BY <2>1, <2>2 DEF StepDate, Lists
<1>3. what \in [Ids -> Row \cup {None}] /\ undisturbed \in BOOLEAN
  BY DEF Basic, Typed
<1>4. refresher' = [refresher EXCEPT !.at = "install", !.date = StepDate,
                                     !.found = what, !.clean = undisturbed]
  OBVIOUS
<1> HIDE DEF what, undisturbed
<1>5. /\ refresher' \in Refresh /\ refresher' # Idle
      /\ refresher'.plan = refresher.plan /\ refresher'.date = StepDate
      /\ refresher'.found = what /\ refresher'.clean = undisturbed
      /\ refresher'.allClean = refresher.allClean
  BY <1>1, <1>2, <1>3, <1>4 DEF Refresh, Idle
<1>6. Step' = Step
  BY <1>5 DEF Step
<1>7. Typed' /\ OtherInv' /\ CleanInv'
  BY <1>5 DEF Basic, Typed, OtherInv, CleanInv
<1>8. IdsInv'
  BY <1>5 DEF Basic, IdsInv, what
<1>9. FoundInv'
  <2>1. /\ undisturbed => writer' = Idle /\ events' = <<>>
        /\ rows' = rows
    BY DEF undisturbed
  <2>2. \A id \in Ids : what[id] = IF rows[id] # None /\ rows[id].day = StepDate
                                   THEN rows[id] ELSE None
    BY DEF what
  <2> HIDE DEF ReadList
  <2> QED BY <1>2, <1>5, <1>6, <2>1, <2>2 DEF FoundInv
<1>10. Queue' = Queue /\ Trusted' = Trusted
  BY <1>5 DEF Queue, Trusted, Done
<1> QED BY <1>7, <1>8, <1>9, <1>10, Untouched DEF Basic

LEMMA SkipOtherStep ==
  ASSUME Basic, TrustInv, SkipOther
  PROVE  Basic' /\ TrustInv'
<1> USE DEF SkipOther, Refreshing, cacheVars, countVars
<1>1. refresher \in Refresh /\ refresher.plan \in Plan
  BY DEF Basic, Typed, Refresh
<1>2. Step.date = NoDay /\ otherDate = NoDay
  BY DEF StepDate
<1>3. refresher.plan.full /\ refresher.plan.steps = LastTwo
  BY <1>1, <1>2, HeadFacts DEF Step
<1>4. /\ refresher' \in Refresh /\ refresher' # Idle /\ refresher'.at = "read"
      /\ refresher'.plan.full /\ refresher'.plan.steps = LastOne
      /\ refresher'.found = refresher.found
      /\ refresher'.allClean = refresher.allClean
  BY <1>1, <1>3, ContinueFacts, StepsFacts
<1>5. Basic'
  BY <1>4 DEF Basic, Typed, IdsInv, OtherInv, FoundInv, CleanInv
<1>6. Queue' = Queue
  BY DEF Queue
<1>7. \/ Trusted' = {}
      \/ Trusted' = {"today", "other"} /\ Trusted = {"today"}
  BY <1>3, <1>4, StepsFacts DEF Trusted, Done
<1>8. \A id \in Ids : Tracked("other", id)
  BY <1>2 DEF Tracked, Kept, Basic, OtherInv
<1> QED BY <1>5, <1>6, <1>7, <1>8, StillTracked DEF TrustInv

\* what an installed list leaves of the refresh, and of what is trusted
LEMMA InstallFacts ==
  ASSUME Basic, Install
  PROVE  /\ refresher \in Refresh /\ Step.list \in Lists
         /\ refresher' = Idle \/ /\ refresher' \in Refresh /\ refresher' # Idle
                                 /\ refresher'.at = "read"
                                 /\ refresher'.found = refresher.found
         /\ CleanInv'
         /\ ~ refresher.clean => Trusted' = {}
         /\ \A l \in Trusted' : l # Step.list => /\ l \in Trusted
                                                 /\ l = "other" => Step.list = "prepared"
<1> USE DEF Install, Refreshing
<1>1. refresher \in Refresh /\ refresher.plan \in Plan
  BY DEF Basic, Typed, Refresh
<1> DEFINE all == refresher.allClean /\ refresher.clean
           r   == [refresher EXCEPT !.allClean = all]
<1>2. all \in BOOLEAN
  OBVIOUS
<1>3. refresher' = Continue(r)
  OBVIOUS
<1> DEFINE last == Tail(refresher.plan.steps) = <<>>
<1>4. disturbed' = IF ~refresher.clean THEN TRUE
                   ELSE disturbed /\ ~(last /\ all /\ refresher.plan.full)
  OBVIOUS
<1>5. /\ Step.list \in Lists
      /\ ~ refresher.plan.full => Step.list = "other"
      /\ refresher.plan.full =>
           \/ refresher.plan.steps = AllSteps /\ Step.list = "today"
           \/ refresher.plan.steps = LastTwo /\ Step.list = "other"
           \/ refresher.plan.steps = LastOne /\ Step.list = "prepared"
  BY <1>1, HeadFacts DEF Step
<1>6. refresher # Idle /\ (~ refresher.allClean => disturbed)
  BY DEF Basic, CleanInv
<1> HIDE DEF all, Install
<1>7. /\ r \in Refresh /\ r.plan = refresher.plan /\ r.found = refresher.found
      /\ r.allClean = all
  BY <1>1, <1>2 DEF Refresh
<1> HIDE DEF r
<1>8. CASE last
  <2>1. refresher' = Idle /\ (refresher.plan.full => refresher.plan.steps = LastOne)
    BY <1>3, <1>7, <1>8, ContinueFacts
  <2>2. CASE refresher.plan.full
    <3>1. CASE all
      <4>1. Trusted = {"today", "other"} /\ Step.list = "prepared"
        BY <1>5, <1>6, <2>1, <2>2, <3>1, StepsFacts DEF Trusted, Done, all
      <4>2. Trusted' \subseteq Lists
        BY <2>1 DEF Trusted
      <4> QED BY <1>1, <1>5, <2>1, <3>1, <4>1, <4>2 DEF Lists, CleanInv, all
    <3>2. CASE ~ all
      <4>1. disturbed'
        BY <1>4, <1>6, <3>2 DEF all
      <4> QED BY <1>1, <1>5, <2>1, <4>1 DEF Trusted, CleanInv
    <3> QED BY <3>1, <3>2
  <2>3. CASE ~ refresher.plan.full
    <3>1. Step.list = "other"
      BY <1>5, <2>3
    <3>2. Trusted' \subseteq Trusted /\ (~ refresher.clean => Trusted' = {})
      BY <1>4, <2>1, <2>3 DEF Trusted
    <3> QED BY <1>1, <1>5, <2>1, <3>1, <3>2 DEF CleanInv
  <2> QED BY <2>2, <2>3
<1>9. CASE ~ last
  <2>1. /\ refresher' \in Refresh /\ refresher' # Idle
        /\ refresher'.at = "read" /\ refresher'.plan.full /\ refresher.plan.full
        /\ refresher'.found = refresher.found /\ refresher'.allClean = all
        /\ refresher.plan.steps = AllSteps => refresher'.plan.steps = LastTwo
        /\ refresher.plan.steps = LastTwo => refresher'.plan.steps = LastOne
        /\ refresher.plan.steps # LastOne
    BY <1>3, <1>7, <1>9, ContinueFacts
  <2>2. CleanInv'
    BY <1>4, <1>6, <1>9, <2>1 DEF CleanInv, all
  <2>3. CASE ~ all
    <3>1. Trusted' = {}
      BY <2>1, <2>3 DEF Trusted
    <3> QED BY <1>1, <1>5, <2>1, <2>2, <3>1
  <2>4. CASE all
    <3>1. \/ /\ refresher.plan.steps = AllSteps /\ Step.list = "today"
             /\ Trusted' = {"today"}
          \/ /\ refresher.plan.steps = LastTwo /\ Step.list = "other"
             /\ Trusted' = {"today", "other"} /\ Trusted = {"today"}
      BY <1>5, <1>6, <2>1, <2>4, StepsFacts DEF Trusted, Done, all
    <3> QED BY <1>1, <1>5, <2>1, <2>2, <2>4, <3>1 DEF all
  <2> QED BY <2>3, <2>4
<1> QED BY <1>8, <1>9

LEMMA InstallStep ==
  ASSUME Basic, TrustInv, Install
  PROVE  Basic' /\ TrustInv'
<1> DEFINE l0 == Step.list
           found == refresher.found
<1>1. /\ refresher # Idle /\ refresher.at = "install"
      /\ list' = [list EXCEPT ![l0] = ReplaceList(@, found)]
      /\ byId' = [id \in Ids |-> IF found[id] # None THEN found[id]
                                 ELSE IF list[l0][id] # <<>> THEN None
                                 ELSE byId[id]]
      /\ todayDate' = IF l0 = "today" THEN refresher.date ELSE todayDate
      /\ otherDate' = IF l0 = "other" THEN refresher.date ELSE otherDate
      /\ disturbed' \in BOOLEAN
      /\ UNCHANGED <<rows, lastId, clock, events, tasks, writer, refreshes, writes>>
  BY DEF Install, Refreshing, countVars, Basic, Typed
<1>2. /\ refresher \in Refresh /\ l0 \in Lists /\ refresher.date \in Nat
      /\ found \in [Ids -> Row \cup {None}]
      /\ refresher' \in {Idle} \cup Refresh
      /\ refresher' # Idle => /\ refresher'.at = "read"
                              /\ refresher'.found = found
  BY InstallFacts DEF Refresh
<1>3. /\ l0 = "prepared" <=> refresher.date = NoDay
      /\ refresher.clean =>
           /\ writer = Idle /\ events = <<>>
           /\ \A id \in Ids : found[id] = IF rows[id] # None /\ rows[id].day = refresher.date
                                          THEN rows[id] ELSE None
  BY <1>1 DEF Basic, FoundInv
<1>4. \A l \in Trusted' : l # l0 => /\ l \in Trusted
                                    /\ l = "other" => l0 = "prepared"
  BY InstallFacts
<1>5. /\ list \in [Lists -> [Ids -> Seq(Row)]] /\ byId \in [Ids -> Row \cup {None}]
      /\ rows \in [Ids -> Row \cup {None}]
  BY DEF Basic, Typed
<1>6. CleanInv'
  BY InstallFacts
<1> HIDE DEF l0, found
<1>7. list' \in [Lists -> [Ids -> Seq(Row)]]
  <2>1. ReplaceList(list[l0], found) \in [Ids -> Seq(Row)]
    BY <1>2 DEF ReplaceList
  <2> QED BY <1>1, <1>2, <1>5, <2>1
<1>8. \A l \in Lists, id \in Ids :
        list'[l][id] = IF l # l0 THEN list[l][id]
                       ELSE IF found[id] = None THEN <<>> ELSE <<found[id]>>
  BY <1>1, <1>2, <1>5 DEF ReplaceList
<1>9. Typed'
  <2>1. byId' \in [Ids -> Row \cup {None}]
    BY <1>1, <1>2, <1>5
  <2>2. todayDate' \in Nat \ {NoDay} /\ otherDate' \in Nat
    BY <1>1, <1>2, <1>3 DEF Basic, Typed
  <2> QED BY <1>1, <1>2, <1>7, <2>1, <2>2 DEF Basic, Typed
<1>10. IdsInv'
  <2>1. \A id \in Ids : id > lastId => found[id] = None
    BY <1>1 DEF Basic, IdsInv, found
  <2> QED BY <1>1, <1>2, <1>8, <2>1 DEF Basic, IdsInv
<1>11. OtherInv'
  BY <1>1, <1>3, <1>8 DEF Basic, OtherInv, Lists
<1>12. FoundInv'
  BY <1>2 DEF FoundInv
<1>13. CASE ~ refresher.clean
  BY <1>6, <1>9, <1>10, <1>11, <1>12, <1>13, InstallFacts DEF Basic, TrustInv
<1>14. CASE refresher.clean
  <2>1. Queue' = <<>> /\ QueueInv' /\ \A id : ~ Awaited(id)'
    BY <1>1, <1>3, <1>14 DEF Queue, QueueInv, Awaited
  <2>2. \A id : ~ Awaited(id)
    BY <1>1, <1>3, <1>14 DEF Queue, Awaited
  <2>3. Trusted' \subseteq Lists
    BY DEF Trusted, Done, Lists
  <2>4. ASSUME NEW l \in Trusted', NEW id \in Ids
        PROVE  Tracked(l, id)'
    <3>1. CASE l = l0
      <4>1. DateOf(l)' = refresher.date
        BY <1>1, <1>2, <1>3, <3>1 DEF DateOf, Lists
      <4>2. list'[l][id] = Copies(id, refresher.date)
        BY <1>2, <1>3, <1>8, <1>14, <3>1 DEF Copies
      <4>3. list'[l][id] # <<>> => byId'[id] = rows[id]
        BY <1>1, <1>2, <1>3, <1>8, <1>14, <3>1
      <4> QED BY <1>1, <2>1, <4>1, <4>2, <4>3 DEF Tracked, Copies
    <3>2. CASE l # l0
      <4>1. Tracked(l, id) /\ l \in Lists
        BY <1>4, <2>3, <3>2 DEF TrustInv
      <4>2. Kept(l)' = Kept(l) /\ DateOf(l)' = DateOf(l)
        BY <1>1, <1>4, <3>2 DEF Kept, DateOf
      <4>3. list'[l][id] = list[l][id]
        BY <1>8, <3>2, <4>1
      <4>4. list[l][id] # <<>> => byId'[id] \in {None, rows[id]}
        BY <1>1, <1>3, <1>14, <2>2, <4>1 DEF Tracked
      <4> QED BY <1>1, <2>1, <2>2, <4>1, <4>2, <4>3, <4>4 DEF Tracked, Copies
    <3> QED BY <3>1, <3>2
  <2> QED BY <1>6, <1>9, <1>10, <1>11, <1>12, <2>1, <2>4 DEF Basic, TrustInv
<1> QED BY <1>13, <1>14

-----------------------------------------------------------------------------
(* A statement is carried out: one more change is on its way *)

LEMMA EventFacts ==
  ASSUME Typed, IdsInv, tasks # <<>>
  PROVE  LET e == Event(Head(tasks))
         IN  /\ e \in Change
             /\ e.type = "add" => e.id = lastId + 1
             /\ e.type # "add" => e.id <= lastId
             /\ Result(e) \in Row \cup {None}
<1> DEFINE task == Head(tasks)
           e    == Event(task)
<1>1. task \in Job /\ (task.type # "create" => task.id <= lastId) /\ lastId \in Nat
  <2>1. tasks \in Seq(Job)
    BY DEF Typed
  <2>2. task = tasks[1] /\ 1 \in DOMAIN tasks /\ task \in Job
    BY <2>1, TailOfSeq
  <2> QED BY <2>2 DEF Typed, IdsInv
<1> HIDE DEF task
<1>2. CASE task.type = "create"
  <2>1. task.flight \in Row /\ e = [type |-> "add", id |-> lastId + 1, flight |-> task.flight]
    BY <1>1, <1>2 DEF Job, Event
  <2> QED BY <1>1, <2>1 DEF Change, Result, task
<1>3. CASE task.type = "update"
  <2>1. /\ task.flight \in Row /\ task.id \in Nat
        /\ e = [type |-> "change", id |-> task.id, flight |-> task.flight]
    BY <1>1, <1>3 DEF Job, Event
  <2> QED BY <1>1, <1>3, <2>1 DEF Change, Result, task
<1>4. CASE task.type = "delete"
  <2>1. task.id \in Nat /\ e = [type |-> "delete", id |-> task.id]
    BY <1>1, <1>4 DEF Job, Event
  <2> QED BY <1>1, <1>4, <2>1 DEF Change, Result, task
<1> QED BY <1>1, <1>2, <1>3, <1>4 DEF Job

LEMMA ExecuteStep ==
  ASSUME Basic, TrustInv, Execute
  PROVE  Basic' /\ TrustInv'
<1> DEFINE e == Event(Head(tasks))
<1>1. /\ writer = Idle /\ tasks # <<>>
      /\ rows' = [rows EXCEPT ![e.id] = Result(e)]
      /\ lastId' = IF e.type = "add" THEN e.id ELSE lastId
      /\ writer' = [at |-> "executed", event |-> e, before |-> rows[e.id]]
      /\ tasks' = Tail(tasks)
      /\ refresher' = IF refresher = Idle THEN Idle
                      ELSE [refresher EXCEPT !.clean = FALSE]
      /\ UNCHANGED <<clock, events, refreshes, disturbed, list, todayDate,
                     otherDate, byId, writes>>
  BY DEF Execute, Result, cacheVars, countVars
<1>2. /\ e \in Change
      /\ e.type = "add" => e.id = lastId + 1
      /\ e.type # "add" => e.id <= lastId
      /\ Result(e) \in Row \cup {None}
  BY <1>1, EventFacts DEF Basic
<1> HIDE DEF e
<1>3. /\ e.id \in Nat /\ lastId \in Nat /\ lastId' \in Nat
      /\ lastId <= lastId' /\ e.id <= lastId'
  BY <1>1, <1>2 DEF Basic, Typed, Change
<1>4. /\ rows \in [Ids -> Row \cup {None}] /\ events \in Seq(Change)
      /\ tasks \in Seq(Job)
  BY DEF Basic, Typed
<1>5. rows' \in [Ids -> Row \cup {None}]
  BY <1>1, <1>2, <1>4
<1>6. writer' # Idle /\ writer'.event = e /\ writer'.before = rows[e.id]
  BY <1>1 DEF Idle
<1>7. /\ refresher' = Idle <=> refresher = Idle
      /\ refresher' # Idle => /\ refresher' \in Refresh /\ ~ refresher'.clean
                              /\ refresher'.at = refresher.at
                              /\ refresher'.found = refresher.found
                              /\ refresher'.date = refresher.date
                              /\ refresher'.plan = refresher.plan
                              /\ refresher'.allClean = refresher.allClean
  <2>1. CASE refresher = Idle
    BY <1>1, <2>1
  <2>2. CASE refresher # Idle
    <3>1. refresher \in Refresh /\ refresher' = [refresher EXCEPT !.clean = FALSE]
      BY <1>1, <2>2 DEF Basic, Typed
    <3> QED BY <2>2, <3>1 DEF Refresh, Idle
  <2> QED BY <2>1, <2>2
<1>8. /\ tasks' \in Seq(Job)
      /\ \A n \in DOMAIN tasks' : n + 1 \in DOMAIN tasks /\ tasks'[n] = tasks[n + 1]
  BY <1>1, <1>4
<1>9. Typed'
  BY <1>1, <1>2, <1>3, <1>4, <1>5, <1>6, <1>7, <1>8 DEF Basic, Typed
<1>10. \A n : n \in Nat /\ n <= lastId => n <= lastId'
  BY <1>3
<1>11. \A n \in DOMAIN events : events[n].id \in Nat /\ events[n].id <= lastId
  BY <1>4 DEF Basic, IdsInv, Change
<1>12. \A i \in Ids : i # e.id => rows'[i] = rows[i]
  BY <1>1, <1>4
<1>13. IdsInv'
  <2>1. ASSUME NEW i \in Ids, i > lastId'
        PROVE  /\ rows'[i] = None
               /\ \A l \in Lists : list'[l][i] = <<>>
               /\ refresher' # Idle => refresher'.found[i] = None
    <3>1. i > lastId /\ i # e.id
      BY <1>3, <2>1, CacheAssumption DEF Ids
    <3> QED BY <1>1, <1>7, <1>12, <3>1 DEF Basic, IdsInv
  <2>2. \A n \in DOMAIN tasks' :
          tasks'[n].type # "create" => tasks'[n].id \in Nat /\ tasks'[n].id <= lastId
    BY <1>4, <1>8 DEF Basic, IdsInv, Job
  <2> QED BY <1>1, <1>3, <1>6, <1>10, <1>11, <2>1, <2>2 DEF IdsInv
<1>14. OtherInv' /\ FoundInv' /\ CleanInv'
  BY <1>1, <1>7 DEF Basic, OtherInv, FoundInv, CleanInv, Step
<1>15. Trusted' = Trusted
  BY <1>1, <1>7 DEF Trusted, Done
<1>16. Queue = events /\ Queue' = Append(events, e)
  BY <1>1, <1>6 DEF Queue
<1> DEFINE new == Len(events) + 1
<1>17. /\ new \in DOMAIN Queue' /\ Queue'[new] = e
       /\ \A n \in DOMAIN events : /\ n \in DOMAIN Queue' /\ Queue'[n] = events[n]
                                   /\ new > n
       /\ \A n \in DOMAIN Queue' : n \in DOMAIN events \/ n = new
       /\ \A m, n \in DOMAIN Queue' : m < n => m \in DOMAIN events
  <2> DEFINE q == Append(events, e)
  <2>1. /\ Len(events) \in Nat /\ DOMAIN events = 1 .. Len(events)
        /\ DOMAIN q = 1 .. new /\ q[new] = e
        /\ \A n \in DOMAIN events : q[n] = events[n]
    BY <1>2, <1>4, AppendFacts
  <2> HIDE DEF q
  <2> QED BY <1>16, <2>1 DEF q
<1> HIDE DEF new
<1>18. QueueInv => QueueInv'
  <2> SUFFICES ASSUME QueueInv PROVE QueueInv'
    OBVIOUS
  <2> DEFINE NoneAfter(n) == \A m \in DOMAIN Queue' : m > n => Queue'[m].id # Queue'[n].id
             NoneBefore(n) == \A m \in DOMAIN Queue' : m < n => Queue'[m].id # Queue'[n].id
  <2>1. ASSUME NEW n \in DOMAIN Queue'
        PROVE  /\ NoneAfter(n) => (Queue'[n].id \in Ids => rows'[Queue'[n].id] = Result(Queue'[n]))
               /\ Queue'[n].type = "add" => NoneBefore(n)
    <3>1. CASE n = new
      <4>1. e.id \in Ids => rows'[e.id] = Result(e)
        BY <1>1, <1>4
      <4>2. e.type = "add" => \A m \in DOMAIN events : events[m].id # e.id
        BY <1>2, <1>3, <1>11
      <4> QED BY <1>17, <3>1, <4>1, <4>2
    <3>2. CASE n \in DOMAIN events
      <4>1. Queue'[n] = events[n] /\ new > n
        BY <1>17, <3>2
      <4>2. ASSUME NoneAfter(n), events[n].id \in Ids
            PROVE  rows'[events[n].id] = Result(events[n])
        <5>1. events[n].id # e.id
          BY <1>17, <4>1, <4>2
        <5>2. \A m \in DOMAIN events : m > n => events[m].id # events[n].id
          BY <1>17, <4>1, <4>2
        <5> QED BY <1>12, <1>16, <3>2, <4>2, <5>1, <5>2 DEF QueueInv
      <4>3. events[n].type = "add" => NoneBefore(n)
        BY <1>16, <1>17, <3>2, <4>1 DEF QueueInv
      <4> HIDE DEF NoneAfter, NoneBefore
      <4> QED BY <4>1, <4>2, <4>3
    <3> QED BY <1>17, <3>1, <3>2
  <2> QED BY <2>1 DEF QueueInv, Result
<1>19. \A i : Awaited(i)' <=> Awaited(i) \/ i = e.id
  BY <1>16, <1>17 DEF Awaited
<1>20. ASSUME NEW l \in Lists, NEW id \in Ids, Tracked(l, id)
       PROVE  Tracked(l, id)'
  <2>1. Kept(l)' = Kept(l) /\ DateOf(l)' = DateOf(l) /\ list'[l] = list[l] /\ byId' = byId
    BY <1>1 DEF Kept, DateOf
  <2>2. CASE id # e.id
    <3>1. rows'[id] = rows[id] /\ (Awaited(id)' <=> Awaited(id))
      BY <1>12, <1>19, <2>2
    <3>2. \A n \in DOMAIN Queue' : Queue'[n].id = id => n \in DOMAIN Queue /\ Queue[n] = Queue'[n]
      BY <1>16, <1>17, <2>2
    <3> QED BY <1>20, <2>1, <3>1, <3>2 DEF Tracked, Copies
  <2>3. CASE id = e.id
    <3>1. Awaited(id)'
      BY <1>19, <2>3
    <3>2. Kept(l) => Len(list[l][id]) <= 1
      <4>1. \A day : Len(Copies(id, day)) <= 1
        BY DEF Copies
      <4> QED BY <1>20, <4>1 DEF Tracked
    <3>3. ASSUME NEW n \in DOMAIN Queue', Queue'[n].id = id, Queue'[n].type = "add"
          PROVE  list[l][id] = <<>>
      <4>1. CASE n = new
        <5>1. e.type = "add"
          BY <1>17, <3>3, <4>1
        <5>2. e.id > lastId
          BY <1>2, <1>3, <5>1
        <5> QED BY <2>3, <5>2 DEF Basic, IdsInv
      <4>2. CASE n \in DOMAIN events
        <5>1. events[n].id = id /\ events[n].type = "add"
          BY <1>17, <3>3, <4>2
        <5> QED BY <1>16, <1>20, <4>2, <5>1 DEF Tracked, Awaited
      <4> QED BY <1>17, <4>1, <4>2
    <3> QED BY <2>1, <3>1, <3>2, <3>3 DEF Tracked
  <2> QED BY <2>2, <2>3
<1>21. Trusted \subseteq Lists
  BY DEF Trusted, Done, Lists
<1>22. TrustInv'
  BY <1>15, <1>18, <1>20, <1>21 DEF TrustInv
<1> QED BY <1>9, <1>13, <1>14, <1>22 DEF Basic

-----------------------------------------------------------------------------
(* An event is applied: one change less is on its way *)

\* the copies a list has of the flight of an event, after it was applied
Applied(e, l, copies) ==
  IF e.type = "delete" THEN <<>>
  ELSE IF l # ListFor(e.flight) THEN IF e.type = "add" THEN copies ELSE <<>>
  ELSE IF e.type = "add" THEN Append(copies, e.flight)
  ELSE ReplaceOrAdd(copies, e.flight)

LEMMA ListForFacts ==
  ASSUME Typed, NEW f \in Row, NEW l \in Lists
  PROVE  /\ l = ListFor(f) => f.day = DateOf(l)
         /\ Kept(l) /\ f.day = DateOf(l) => l = ListFor(f)
         /\ l = "other" /\ otherDate = NoDay => l # ListFor(f)
BY DEF Typed, Row, ListFor, IsPrepared, DateOf, Kept, Lists

LEMMA ReplaceOrAddFacts ==
  ASSUME NEW s \in Seq(Row), NEW f \in Row
  PROVE  /\ ReplaceOrAdd(s, f) \in Seq(Row) /\ Append(s, f) \in Seq(Row)
         /\ Len(s) <= 1 => ReplaceOrAdd(s, f) = <<f>>
<1>1. CASE s = <<>>
  BY <1>1 DEF ReplaceOrAdd
<1>2. CASE s # <<>>
  <2> DEFINE r == [n \in DOMAIN s |-> f]
  <2>1. ReplaceOrAdd(s, f) = r /\ DOMAIN s = 1 .. Len(s) /\ Len(s) \in Nat \ {0}
    BY <1>2 DEF ReplaceOrAdd
  <2>2. r \in Seq(Row)
    BY <2>1
  <2>3. ASSUME Len(s) <= 1
        PROVE  r = <<f>>
    <3>1. DOMAIN s = 1 .. 1
      BY <2>1, <2>3
    <3>2. r = [n \in 1 .. 1 |-> f]
      BY <3>1
    <3> QED BY <3>2
  <2> QED BY <2>1, <2>2, <2>3
<1> QED BY <1>1, <1>2

LEMMA AppliedFacts ==
  ASSUME Typed, DbChanged
  PROVE  LET e == Head(events)
         IN  /\ list' \in [Lists -> [Ids -> Seq(Row)]]
             /\ byId' \in [Ids -> Row \cup {None}]
             /\ \A l \in Lists, id \in Ids :
                  list'[l][id] = IF id = e.id THEN Applied(e, l, list[l][id])
                                 ELSE list[l][id]
             /\ \A id \in Ids :
                  byId'[id] = IF id # e.id THEN byId[id]
                              ELSE IF e.type = "delete" THEN None
                              ELSE IF ListFor(e.flight) \in Lists THEN e.flight
                              ELSE byId[id]
<1> DEFINE e == Head(events)
           f == e.flight
<1>1. /\ e \in Change
      /\ \/ e.type = "add" /\ ObjectAdded(e.id, f)
         \/ e.type = "change" /\ ObjectUpdated(e.id, f)
         \/ e.type = "delete" /\ ObjectDeleted(e.id)
  BY TailOfSeq DEF DbChanged, Typed
<1> HIDE DEF e
<1>2. list \in [Lists -> [Ids -> Seq(Row)]] /\ byId \in [Ids -> Row \cup {None}]
  BY DEF Typed
<1>3. e.type # "delete" => f \in Row
  BY <1>1 DEF Change
<1>4. ASSUME e.type # "delete", NEW s \in Seq(Row)
      PROVE  Append(s, f) \in Seq(Row) /\ ReplaceOrAdd(s, f) \in Seq(Row)
  BY <1>3, <1>4, ReplaceOrAddFacts
<1> HIDE DEF f
<1> DEFINE Goal ==
      /\ list' \in [Lists -> [Ids -> Seq(Row)]]
      /\ byId' \in [Ids -> Row \cup {None}]
      /\ \A l \in Lists, id \in Ids :
           list'[l][id] = IF id = e.id THEN Applied(e, l, list[l][id])
                          ELSE list[l][id]
      /\ \A id \in Ids :
           byId'[id] = IF id # e.id THEN byId[id]
                       ELSE IF e.type = "delete" THEN None
                       ELSE IF ListFor(f) \in Lists THEN f
                       ELSE byId[id]
<1>5. ASSUME e.type = "add"
      PROVE  Goal
  <2>1. ObjectAdded(e.id, f)
    BY <1>1, <1>5
  <2>2. CASE ListFor(f) \in Lists
    <3>1. /\ list' = [list EXCEPT ![ListFor(f)][e.id] = Append(@, f)]
          /\ byId' = [byId EXCEPT ![e.id] = f]
      BY <2>1, <2>2 DEF ObjectAdded
    <3>2. list' \in [Lists -> [Ids -> Seq(Row)]]
      BY <1>2, <1>4, <1>5, <2>2, <3>1
    <3>3. byId' \in [Ids -> Row \cup {None}]
      BY <1>2, <1>3, <1>5, <3>1
    <3> QED BY <1>2, <1>5, <2>2, <3>1, <3>2, <3>3 DEF Applied, f
  <2>3. CASE ListFor(f) \notin Lists
    BY <1>2, <1>5, <2>1, <2>3 DEF ObjectAdded, Applied, f
  <2> QED BY <2>2, <2>3
<1>6. ASSUME e.type = "change"
      PROVE  Goal
  <2>1. /\ list' = [l \in Lists |-> [list[l] EXCEPT ![e.id] =
                      IF l = ListFor(f) THEN ReplaceOrAdd(@, f) ELSE <<>>]]
        /\ byId' = IF ListFor(f) \in Lists THEN [byId EXCEPT ![e.id] = f] ELSE byId
    BY <1>1, <1>6 DEF ObjectUpdated
  <2>2. list' \in [Lists -> [Ids -> Seq(Row)]]
    <3>1. ASSUME NEW l \in Lists
          PROVE  [list[l] EXCEPT ![e.id] = IF l = ListFor(f) THEN ReplaceOrAdd(@, f)
                                           ELSE <<>>] \in [Ids -> Seq(Row)]
      <4>1. list[l] \in [Ids -> Seq(Row)]
        BY <1>2
      <4>2. CASE e.id \in Ids
        <5>1. ReplaceOrAdd(list[l][e.id], f) \in Seq(Row) /\ <<>> \in Seq(Row)
          BY <1>4, <1>6, <4>1, <4>2
        <5> QED BY <4>1, <4>2, <5>1
      <4> QED BY <4>1, <4>2
    <3> QED BY <2>1, <3>1
  <2>3. byId' \in [Ids -> Row \cup {None}]
    BY <1>2, <1>3, <1>6, <2>1
  <2> QED BY <1>2, <1>6, <2>1, <2>2, <2>3 DEF Applied, f
<1>7. ASSUME e.type = "delete"
      PROVE  Goal
  <2>1. /\ list' = [l \in Lists |-> [list[l] EXCEPT ![e.id] = <<>>]]
        /\ byId' = [byId EXCEPT ![e.id] = None]
    BY <1>1, <1>7 DEF ObjectDeleted
  <2>2. list' \in [Lists -> [Ids -> Seq(Row)]]
    <3>1. <<>> \in Seq(Row)
      OBVIOUS
    <3>2. ASSUME NEW l \in Lists
          PROVE  [list[l] EXCEPT ![e.id] = <<>>] \in [Ids -> Seq(Row)]
      BY <1>2, <3>1
    <3> QED BY <2>1, <3>2
  <2>3. byId' \in [Ids -> Row \cup {None}]
    BY <1>2, <2>1
  <2> QED BY <1>2, <1>7, <2>1, <2>2, <2>3 DEF Applied
<1>8. Goal
  BY <1>1, <1>5, <1>6, <1>7
<1> QED BY <1>8 DEF e, f

LEMMA QueueFacts ==
  ASSUME Typed, DbChanged
  PROVE  /\ 1 \in DOMAIN Queue /\ Queue[1] = Head(events)
         /\ \A n \in DOMAIN Queue : n \in Nat /\ n >= 1 /\ Queue[n] \in Change
         /\ \A n \in DOMAIN Queue' : /\ n \in Nat \ {0} /\ n + 1 \in DOMAIN Queue
                                     /\ Queue'[n] = Queue[n + 1]
         /\ \A n \in DOMAIN Queue : n = 1 \/ n - 1 \in DOMAIN Queue'
<1>1. events # <<>> /\ events' = Tail(events) /\ writer' = writer
  BY DEF DbChanged, workerVars
<1>2. events \in Seq(Change) /\ (writer # Idle => writer.event \in Change)
  BY DEF Typed
<1>3. /\ Len(events) \in Nat \ {0} /\ DOMAIN events = 1 .. Len(events)
      /\ Head(events) = events[1] /\ Tail(events) \in Seq(Change)
      /\ Len(Tail(events)) = Len(events) - 1
      /\ DOMAIN Tail(events) = 1 .. Len(events) - 1
      /\ \A n \in DOMAIN Tail(events) : Tail(events)[n] = events[n + 1]
  BY <1>1, <1>2, TailOfSeq
<1>4. CASE writer = Idle
  BY <1>1, <1>2, <1>3, <1>4 DEF Queue
<1>5. CASE writer # Idle
  <2> DEFINE w == writer.event
             q == Append(events, w)
             t == Append(Tail(events), w)
  <2>1. Queue = q /\ Queue' = t
    BY <1>1, <1>5 DEF Queue
  <2>2. /\ DOMAIN q = 1 .. Len(events) + 1 /\ q[Len(events) + 1] = w
        /\ \A n \in 1 .. Len(events) : q[n] = events[n]
    BY <1>2, <1>3, <1>5, AppendFacts
  <2>3. /\ DOMAIN t = 1 .. Len(events) /\ t[Len(events)] = w
        /\ \A n \in 1 .. Len(events) - 1 : t[n] = events[n + 1]
    BY <1>2, <1>3, <1>5, AppendFacts
  <2>4. q \in Seq(Change)
    BY <1>2, <1>5
  <2> HIDE DEF q, t, w
  <2>5. \A n \in DOMAIN q : q[n] \in Change
    BY <2>4
  <2>6. \A n \in DOMAIN t : n + 1 \in DOMAIN q /\ t[n] = q[n + 1]
    BY <1>3, <2>2, <2>3
  <2> QED BY <1>3, <2>1, <2>2, <2>3, <2>5, <2>6
<1> QED BY <1>4, <1>5

LEMMA DbChangedStep ==
  ASSUME Basic, TrustInv, DbChanged
  PROVE  Basic' /\ TrustInv'
<1> DEFINE e == Head(events)
<1>1. /\ events # <<>> /\ events' = Tail(events)
      /\ UNCHANGED <<rows, lastId, clock, todayDate, otherDate, disturbed, tasks,
                     writer, refreshes, refresher, writes>>
  BY DEF DbChanged, workerVars, countVars
<1>2. /\ list' \in [Lists -> [Ids -> Seq(Row)]]
      /\ byId' \in [Ids -> Row \cup {None}]
      /\ \A l \in Lists, id \in Ids :
           list'[l][id] = IF id = e.id THEN Applied(e, l, list[l][id])
                          ELSE list[l][id]
      /\ \A id \in Ids :
           byId'[id] = IF id # e.id THEN byId[id]
                       ELSE IF e.type = "delete" THEN None
                       ELSE IF ListFor(e.flight) \in Lists THEN e.flight
                       ELSE byId[id]
  BY AppliedFacts DEF Basic
<1>3. /\ 1 \in DOMAIN Queue /\ Queue[1] = e
      /\ \A n \in DOMAIN Queue : n \in Nat /\ n >= 1 /\ Queue[n] \in Change
      /\ \A n \in DOMAIN Queue' : /\ n \in Nat \ {0} /\ n + 1 \in DOMAIN Queue
                                  /\ Queue'[n] = Queue[n + 1]
      /\ \A n \in DOMAIN Queue : n = 1 \/ n - 1 \in DOMAIN Queue'
  BY QueueFacts DEF Basic
<1>4. /\ events \in Seq(Change) /\ events' \in Seq(Change)
      /\ e \in Change /\ e.id <= lastId /\ lastId \in Nat
      /\ \A n \in DOMAIN events' : events'[n].id <= lastId
  <2>1. events \in Seq(Change) /\ lastId \in Nat
    BY DEF Basic, Typed
  <2>2. /\ e \in Change /\ e = events[1] /\ 1 \in DOMAIN events
        /\ events' \in Seq(Change)
        /\ \A n \in DOMAIN events' : n + 1 \in DOMAIN events /\ events'[n] = events[n + 1]
    BY <1>1, <2>1, TailOfSeq
  <2> QED BY <2>1, <2>2 DEF Basic, IdsInv
<1> HIDE DEF e
<1>5. e.id \in Nat /\ (e.type # "delete" => e.flight \in Row)
  BY <1>4 DEF Change
<1>6. /\ list \in [Lists -> [Ids -> Seq(Row)]] /\ rows \in [Ids -> Row \cup {None}]
      /\ byId \in [Ids -> Row \cup {None}] /\ Typed
  BY DEF Basic, Typed
<1>7. Typed'
  BY <1>1, <1>2, <1>4 DEF Basic, Typed
<1>8. IdsInv'
  <2>1. \A id \in Ids : id > lastId => id # e.id
    BY <1>4, <1>5, CacheAssumption DEF Ids
  <2> QED BY <1>1, <1>2, <1>4, <2>1 DEF Basic, IdsInv
<1>9. OtherInv'
  <2> SUFFICES ASSUME otherDate = NoDay, NEW id \in Ids
               PROVE  list'["other"][id] = <<>>
    BY <1>1 DEF OtherInv
  <2>1. list["other"][id] = <<>> /\ "other" \in Lists
    BY DEF Basic, OtherInv, Lists
  <2>2. e.type # "delete" => "other" # ListFor(e.flight)
    BY <1>5, <1>6, <2>1, ListForFacts
  <2> QED BY <1>2, <2>1, <2>2 DEF Applied
<1>10. FoundInv' /\ CleanInv'
  BY <1>1 DEF Basic, FoundInv, CleanInv, Step
<1>11. Trusted' = Trusted /\ Trusted \subseteq Lists
  BY <1>1 DEF Trusted, Done, Lists
<1>12. QueueInv => QueueInv'
  <2> SUFFICES ASSUME QueueInv PROVE QueueInv'
    OBVIOUS
  <2> SUFFICES ASSUME NEW n \in DOMAIN Queue'
      PROVE  /\ (\A m \in DOMAIN Queue' : m > n => Queue'[m].id # Queue'[n].id)
                  => (Queue'[n].id \in Ids => rows[Queue'[n].id] = Result(Queue'[n]))
             /\ Queue'[n].type = "add" =>
                  \A m \in DOMAIN Queue' : m < n => Queue'[m].id # Queue'[n].id
    BY <1>1 DEF QueueInv, Result
  <2>1. n \in Nat /\ n + 1 \in DOMAIN Queue /\ Queue'[n] = Queue[n + 1]
    BY <1>3
  <2>2. ASSUME \A m \in DOMAIN Queue' : m > n => Queue'[m].id # Queue'[n].id
        PROVE  \A m \in DOMAIN Queue : m > n + 1 => Queue[m].id # Queue[n + 1].id
    <3> SUFFICES ASSUME NEW m \in DOMAIN Queue, m > n + 1
                 PROVE  Queue[m].id # Queue[n + 1].id
      OBVIOUS
    <3>1. m \in Nat /\ m - 1 \in DOMAIN Queue' /\ m - 1 > n /\ (m - 1) + 1 = m
      BY <1>3, <2>1
    <3>2. Queue'[m - 1] = Queue[m]
      BY <1>3, <3>1
    <3> QED BY <2>1, <2>2, <3>1, <3>2
  <2>3. ASSUME NEW m \in DOMAIN Queue', m < n
        PROVE  Queue'[m] = Queue[m + 1] /\ m + 1 < n + 1 /\ m + 1 \in DOMAIN Queue
    BY <1>3, <2>1, <2>3
  <2> QED BY <2>1, <2>2, <2>3 DEF QueueInv
<1>13. \A id : Awaited(id) <=> Awaited(id)' \/ id = e.id
  <2>1. ASSUME NEW n \in DOMAIN Queue
        PROVE  Queue[n] = e \/ \E m \in DOMAIN Queue' : Queue'[m] = Queue[n]
    <3>1. CASE n = 1
      BY <1>3, <3>1
    <3>2. CASE n # 1
      <4>1. n - 1 \in DOMAIN Queue' /\ (n - 1) + 1 = n
        BY <1>3, <3>2
      <4> QED BY <1>3, <4>1
    <3> QED BY <3>1, <3>2
  <2> QED BY <1>3, <2>1 DEF Awaited
<1>14. ASSUME NEW l \in Lists, NEW id \in Ids, Tracked(l, id), QueueInv
       PROVE  Tracked(l, id)'
  <2> DEFINE copies == list[l][id]
             f      == e.flight
  <2>1. Kept(l)' = Kept(l) /\ DateOf(l)' = DateOf(l) /\ rows' = rows
    BY <1>1 DEF Kept, DateOf
  <2>2. copies \in Seq(Row)
    BY <1>6
  <2>3. CASE id # e.id
    <3>1. list'[l][id] = copies /\ byId'[id] = byId[id]
      BY <1>2, <2>3
    <3>2. Awaited(id)' <=> Awaited(id)
      BY <1>13, <2>3
    <3>3. \A n \in DOMAIN Queue' : n + 1 \in DOMAIN Queue /\ Queue'[n] = Queue[n + 1]
      BY <1>3
    <3> QED BY <1>14, <2>1, <3>1, <3>2, <3>3 DEF Tracked, Copies
  <2>4. CASE id = e.id
    <3>1. Awaited(id) /\ list'[l][id] = Applied(e, l, copies)
      BY <1>2, <1>13, <2>4
    <3>2. Kept(l) => Len(copies) <= 1
      BY <1>14, <3>1 DEF Tracked
    <3>3. e.type = "add" => copies = <<>>
      BY <1>3, <1>14, <2>4, <3>1 DEF Tracked
    <3>4. /\ e.type # "delete" => f \in Row /\ <<f>> \in Seq(Row) /\ Len(<<f>>) = 1
          /\ e.type \in {"add", "change", "delete"}
      BY <1>4, <1>5 DEF Change
    <3>5. CASE Awaited(id)'
      <4>1. Kept(l) => Len(list'[l][id]) <= 1
        <5>1. Kept(l) /\ e.type = "change" => ReplaceOrAdd(copies, f) = <<f>>
          BY <2>2, <3>2, <3>4, ReplaceOrAddFacts
        <5>2. e.type = "add" => Append(copies, f) = <<f>>
          BY <3>3, AppendToEmpty
        <5>3. Kept(l) => Applied(e, l, copies) \in {<<>>, <<f>>}
          BY <3>3, <3>4, <5>1, <5>2 DEF Applied
        <5>4. Len(<<f>>) <= 1 /\ Len(<<>>) <= 1
          BY AppendToEmpty
        <5> QED BY <3>1, <5>3, <5>4
      <4>2. ASSUME NEW n \in DOMAIN Queue', Queue'[n].id = id
            PROVE  Queue'[n].type # "add"
        <5>1. n + 1 \in DOMAIN Queue /\ Queue'[n] = Queue[n + 1] /\ 1 < n + 1
          <6>1. /\ n \in Nat \ {0} /\ n + 1 \in DOMAIN Queue
                /\ Queue'[n] = Queue[n + 1]
            BY <1>3
          <6> QED BY <6>1
        <5> QED BY <1>3, <1>14, <2>4, <4>2, <5>1 DEF QueueInv
      <4> QED BY <2>1, <3>5, <4>1, <4>2 DEF Tracked
    <3>6. CASE ~ Awaited(id)'
      <4>1. rows[id] = Result(e)
        <5>1. ASSUME NEW m \in DOMAIN Queue, m > 1
              PROVE  Queue[m].id # e.id
          <6>1. m - 1 \in DOMAIN Queue' /\ (m - 1) + 1 = m
            BY <1>3, <5>1
          <6>2. Queue'[m - 1] = Queue[m]
            BY <1>3, <6>1
          <6> QED BY <2>4, <3>6, <6>1, <6>2 DEF Awaited
        <5> QED BY <1>3, <1>14, <2>4, <5>1 DEF QueueInv
      <4>2. Kept(l) => list'[l][id] = Copies(id, DateOf(l))
        <5> SUFFICES ASSUME Kept(l)
                     PROVE  Applied(e, l, copies) = Copies(id, DateOf(l))
          BY <3>1
        <5>1. CASE e.type = "delete"
          BY <4>1, <5>1 DEF Applied, Copies, Result
        <5>2. CASE e.type # "delete"
          <6>1. rows[id] = f /\ f # None /\ f \in Row
            BY <3>4, <4>1, <5>2, CacheAssumption DEF Result, Row
          <6>2. l = ListFor(f) <=> f.day = DateOf(l)
            BY <1>6, <6>1, ListForFacts
          <6>3. e.type = "change" => ReplaceOrAdd(copies, f) = <<f>>
            BY <2>2, <3>2, <6>1, ReplaceOrAddFacts
          <6>4. e.type = "add" => Append(copies, f) = <<f>>
            BY <3>3, AppendToEmpty
          <6> QED BY <3>3, <3>4, <5>2, <6>1, <6>2, <6>3, <6>4 DEF Applied, Copies
        <5> QED BY <5>1, <5>2
      <4>3. list'[l][id] # <<>> => byId'[id] \in {None, rows[id]}
        <5>1. list'[l][id] # <<>> => e.type # "delete" /\ ListFor(f) = l
          BY <3>1, <3>3 DEF Applied
        <5>2. e.type # "delete" /\ ListFor(f) = l => byId'[id] = f
          BY <1>2, <2>4
        <5> QED BY <4>1, <5>1, <5>2 DEF Result
      <4> QED BY <2>1, <3>6, <4>2, <4>3 DEF Tracked, Copies
    <3> QED BY <3>5, <3>6
  <2> QED BY <2>3, <2>4
<1>15. TrustInv'
  BY <1>11, <1>12, <1>14 DEF TrustInv
<1> QED BY <1>7, <1>8, <1>9, <1>10, <1>15 DEF Basic

-----------------------------------------------------------------------------
(* The theorems *)

LEMMA Initially == Init => IInv
<1> SUFFICES ASSUME Init PROVE IInv
  OBVIOUS
<1> USE CacheAssumption
<1>1. rows \in [Ids -> Row \cup {None}]
  <2>1. [day : Days \cup {NoDay}, rev : {0}] \subseteq Row
    <3>1. Days \cup {NoDay} \subseteq Nat /\ 0 \in Nat
      BY DEF NoDay
    <3> QED BY <3>1 DEF Row
  <2>2. rows \in [Ids -> [day : Days \cup {NoDay}, rev : {0}] \cup {None}]
    BY DEF Init
  <2> QED BY <2>1, <2>2
<1>2. \A id, day : id \in Ids => Copies(id, day) \in Seq(Row)
  BY <1>1 DEF Copies
<1>3. /\ \A id \in Ids : /\ list["today"][id] = Copies(id, Today)
                         /\ list["other"][id] = <<>>
                         /\ list["prepared"][id] = Copies(id, NoDay)
      /\ list = [l \in Lists |-> [id \in Ids |-> list[l][id]]]
  <2> DEFINE copies(l, id) == CASE l = "today"    -> Copies(id, Today)
                                [] l = "other"    -> <<>>
                                [] l = "prepared" -> Copies(id, NoDay)
  <2>1. list = [l \in Lists |-> [id \in Ids |-> copies(l, id)]]
    BY DEF Init
  <2>2. \A id : /\ copies("today", id) = Copies(id, Today)
                /\ copies("other", id) = <<>>
                /\ copies("prepared", id) = Copies(id, NoDay)
    OBVIOUS
  <2>3. {"today", "other", "prepared"} \subseteq Lists
    BY DEF Lists
  <2> HIDE DEF copies
  <2> QED BY <2>1, <2>2, <2>3
<1>4. list \in [Lists -> [Ids -> Seq(Row)]]
  <2>1. \A l \in Lists, id \in Ids : list[l][id] \in Seq(Row)
    <3>1. <<>> \in Seq(Row)
      OBVIOUS
    <3>2. \A id \in Ids : Copies(id, Today) \in Seq(Row) /\ Copies(id, NoDay) \in Seq(Row)
      BY <1>2
    <3>3. \A id \in Ids : /\ list["today"][id] \in Seq(Row)
                          /\ list["other"][id] \in Seq(Row)
                          /\ list["prepared"][id] \in Seq(Row)
      BY <1>3, <3>1, <3>2
    <3> QED BY <3>3 DEF Lists
  <2> HIDE DEF Lists
  <2> QED BY <1>3, <2>1
<1>5. byId \in [Ids -> Row \cup {None}]
  BY <1>1 DEF Init
<1>6. events = <<>> /\ tasks = <<>> /\ writer = Idle /\ refresher = Idle
  BY DEF Init
<1>7. Typed
  <2>1. /\ lastId \in Nat /\ clock \in Nat \ {NoDay} /\ todayDate \in Nat \ {NoDay}
        /\ otherDate \in Nat /\ writes \in Nat /\ disturbed \in BOOLEAN
    BY DEF Init, NoDay
  <2>2. events \in Seq(Change) /\ tasks \in Seq(Job) /\ refreshes \in Seq(NewPlans)
    BY DEF Init
  <2> QED BY <1>1, <1>4, <1>5, <1>6, <2>1, <2>2 DEF Typed
<1>8. IdsInv
  <2>1. \A id \in Ids : id > lastId => rows[id] = None
    BY DEF Init
  <2>2. ASSUME NEW id \in Ids, id > lastId
        PROVE  \A l \in Lists : list[l][id] = <<>>
    <3>1. \A day : Copies(id, day) = <<>>
      BY <2>1, <2>2 DEF Copies
    <3> QED BY <1>3, <3>1 DEF Lists
  <2>3. DOMAIN events = {} /\ DOMAIN tasks = {}
    BY <1>6
  <2> HIDE DEF Lists
  <2> QED BY <1>6, <2>1, <2>2, <2>3 DEF IdsInv
<1>9. OtherInv /\ FoundInv /\ CleanInv
  BY <1>3, <1>6 DEF OtherInv, FoundInv, CleanInv, Lists
<1>10. TrustInv
  <2>1. Queue = <<>> /\ Trusted \subseteq Lists
    BY <1>6 DEF Queue, Trusted
  <2>2. QueueInv /\ \A id : ~ Awaited(id)
    BY <2>1 DEF QueueInv, Awaited
  <2>3. todayDate = Today /\ otherDate = NoDay
    BY DEF Init
  <2>4. ASSUME NEW l \in Lists, NEW id \in Ids
        PROVE  Tracked(l, id)
    <3>1. Kept(l) => list[l][id] = Copies(id, DateOf(l))
      BY <1>3, <2>3 DEF Kept, DateOf, Lists
    <3>2. list[l][id] # <<>> => byId[id] = rows[id]
      BY DEF Init
    <3> QED BY <2>2, <3>1, <3>2 DEF Tracked
  <2> QED BY <2>1, <2>2, <2>4 DEF TrustInv
<1> QED BY <1>7, <1>8, <1>9, <1>10 DEF IInv

LEMMA Preserved == IInv /\ [Next]_vars => IInv'
<1> SUFFICES ASSUME IInv, [Next]_vars PROVE IInv'
  OBVIOUS
<1>1. Basic /\ TrustInv
  BY DEF IInv, Basic
<1>2. CASE DbChanged
  BY <1>1, <1>2, DbChangedStep DEF IInv, Basic
<1>3. CASE Gui
  BY <1>1, <1>3, GuiStep DEF IInv, Basic
<1>4. CASE Midnight
  BY <1>1, <1>4, MidnightStep DEF IInv, Basic
<1>5. CASE DbWorker
  BY <1>1, <1>5, ExecuteStep, CommitStep DEF DbWorker, IInv, Basic
<1>6. CASE RemoteWrite
  BY <1>1, <1>6, RemoteWriteStep DEF IInv, Basic
<1>7. CASE CacheWorker
  BY <1>1, <1>7, TakeRefreshStep, ReadListStep, SkipOtherStep, InstallStep
     DEF CacheWorker, IInv, Basic
<1>8. CASE Cancel
  BY <1>1, <1>8, CancelTaskStep, CancelCommitStep, CancelRefreshStep
     DEF Cancel, IInv, Basic
<1>9. CASE UNCHANGED vars
  BY <1>1, <1>9, StutterStep DEF IInv, Basic
<1> QED BY <1>2, <1>3, <1>4, <1>5, <1>6, <1>7, <1>8, <1>9 DEF Next

LEMMA AtRest ==
  ASSUME IInv, Quiet, ~ disturbed
  PROVE  \A l \in Lists, id \in Ids : Tracked(l, id) /\ ~ Awaited(id)
<1>1. writer = Idle /\ refresher = Idle /\ events = <<>>
  <2>1. Len(tasks) \in Nat /\ Len(refreshes) \in Nat
    BY DEF IInv, Typed
  <2>2. Busy(writer) \in {0, 1} /\ Busy(refresher) \in {0, 1}
    BY DEF Busy
  <2>3. Busy(writer) = 0 /\ Busy(refresher) = 0
    BY <2>1, <2>2 DEF Quiet, UnderWay
  <2> QED BY <2>3 DEF Busy, Quiet
<1>2. Trusted = Lists /\ Queue = <<>>
  BY <1>1 DEF Trusted, Queue
<1> QED BY <1>2 DEF IInv, TrustInv, Awaited

(* When nothing is under way the lists are the rows of the database, unless *)
(* one of the four things happened that put them wrong and no full refresh  *)
(* has put them right since (Cache.cpp: dbChanged, refreshFlightsOf;        *)
(* Database.cpp: createObject, updateObject).                               *)
THEOREM ListsMirror == Spec => []MirrorUnlessDisturbed
<1>1. IInv => MirrorUnlessDisturbed
  <2> SUFFICES ASSUME IInv, Quiet, ~ disturbed PROVE Mirrored
    BY DEF MirrorUnlessDisturbed
  <2>1. \A l \in Lists, id \in Ids : Kept(l) => list[l][id] = Copies(id, DateOf(l))
    BY AtRest DEF Tracked
  <2> QED BY <2>1 DEF Mirrored, Kept, DateOf, Lists
<1> QED BY <1>1, Initially, Preserved, PTL DEF Spec

(* What an edit starts from is the row of the database, under the same      *)
(* condition (Cache.cpp: insertion into and removal from flightsById).      *)
THEOREM EditsStartFromRows == Spec => []EditsSeeTheRow
<1>1. IInv => EditsSeeTheRow
  <2> SUFFICES ASSUME IInv, Quiet, ~ disturbed, NEW id \in Listed, byId[id] # None
               PROVE  byId[id] = rows[id]
    BY DEF EditsSeeTheRow
  <2>1. PICK l \in Lists : list[l][id] # <<>> /\ id \in Ids
    BY DEF Listed
  <2> QED BY <2>1, AtRest DEF Tracked
<1> QED BY <1>1, Initially, Preserved, PTL DEF Spec

=============================================================================
