# Startkladde: TLA+ specifications

Startkladde is the flight log of a gliding club: a Qt program that several
computers of an airfield run against one MySQL database.  It has the parts that
make programs hard to test: worker threads that the GUI waits for in dialogs
with event loops of their own, a cache that follows the database by events, a
connection that is broken on purpose in order to cancel a statement, a schema
that is migrated by whichever program comes first, Flarm receivers that detect
departures and landings on their own, an upload that writes flights back while
they are being edited, and editors that ask one question after the other.

This directory specifies those parts in TLA+, model-checks them with TLC and
proves some of what matters most with TLAPS.  Paths below are relative to the
repository's `src/`; line numbers are given where a definition depends on them.
`PROJECT.json` maps every definition to the lines it models.

## 1. Inventory

### Threads and blocking calls (`concurrent/`, `gui/windows/MonitorDialog.cpp`)

| Part | State | Operations |
|---|---|---|
| `Waiter` | mutex, flag, condition variable | `wait`, `notify` |
| `Returner` | a value or an exception, a `Waiter` | `returnValue`, `exception`, `wait`, `returnedValue` |
| `OperationMonitor`, `OperationMonitorInterface` | reference count, `canceled`, `hasEnded`, status | copy, destroy, `progress`, `cancel`, `setEnded` |
| `MonitorDialog` | its event loop | `monitor`, `reject` |
| `DbWorker`, `CacheWorker`, `InterfaceWorker`, `MigratorWorker` | a thread with a queue of slots | one slot per operation |

The GUI thread declares a Returner and a monitor on its stack, posts an
operation to a worker, shows a dialog and waits.  *Hard:* the worker signals two
objects in an order that depends on the slot; the dialog's event loop lets
Flarm events and timers start a second call on top of the first; an operation
may end before the dialog is connected.  *Correct* means: no lost wakeup; the
Returner outlives its use; what is returned is what the operation produced;
nested calls end.

### Cache (`db/cache/`)

State: lists of people, planes and launch methods; three lists of flights
(today's, another day's, prepared), hashes by id and by name, `todayDate`,
`otherDate`; all under `dataMutex`.  Operations: refresh everything or a list
(in the CacheWorker), `dbChanged` (in the GUI thread), lookups, `clear`.  The
cache is told of changes by `DbEvent`s that are queued between threads.  *Hard:*
a refresh reads before it locks; events are queued while it does; midnight;
cancellation half way; hashes that are kept in step by adding and deleting.
*Correct:* at rest, the lists are the rows of the database; the hashes are those
of the lists; no edit starts from stale data.

### Database and its connection (`db/Database.cpp`, `db/DbManager.cpp`, `db/interface/`, `net/TcpProxy.cpp`)

`Database` wraps each write in a transaction and emits an event after the
commit.  `DbManager` connects, migrates, refreshes and offers the blocking
calls.  `ThreadSafeInterface` has a thread of its own that carries out
statements one after the other and pings when idle; `DefaultInterface` opens,
reopens and retries; `TcpProxy` stands between the program and the server so
that a statement can be canceled by breaking the connection.  *Hard:*
connections lost at any point, cancels that arrive when there is nothing to
cancel, keepalives in a transaction, closing while a keepalive hangs.
*Correct:* a success means the writes are there; every statement ends.

### Migrations (`db/migration/`, `db/migrations/`, `db/schema/`)

State: the tables and columns of the database and the table of applied
versions.  Operations: load the schema of `CurrentSchema`, migrate, up, down;
deciding which of these is needed on connecting.  *Hard:* MySQL commits each
schema change at once, so a program can be interrupted anywhere; two programs
may migrate the same database; `current_schema.yaml` is two migrations behind
the migrations in the program.  *Correct:* a connected program finds every
column; recorded versions were applied; trying again succeeds.

### Flarm (`flarm/`, `gui/windows/MainWindow.cpp`)

`FlarmList` keeps a `FlarmRecord` per received plane: a state machine with a
keepalive timer and a landing timer.  Its signals reach slots of `MainWindow`,
which look the plane up among the prepared and flying flights (`FlightLookup`,
`PlaneLookup`) and depart, land or create flights, ignoring repetitions within
ten seconds.  *Hard:* records that are removed with a timer running; airtows of
which both planes have Flarm, in any order; flights that the user prepares and
edits meanwhile.  *Correct:* what is reported fits together; the book shows in
the air who is in the air.

### Data streams (`io/dataStream/`, `flarm/Flarm.cpp`, `nmea/GpsTracker.cpp`)

`DataStream` (serial port, TCP socket or file) lives in the thread of a
`BackgroundDataStream`; `ManagedDataStream`, in the GUI thread, asks it to open,
close and apply parameters by queued calls, hears of it by queued signals, and
adds a state, a data timer and a reconnect timer.  The settings replace the
stream or its target at any time.  *Hard:* signals of a stream that was replaced
are still queued; parameters change under the stream's feet; timers outlive
what they were started for.  *Correct:* what is shown is what the stream does;
new settings take effect; a wanted connection comes back.

### Synchronization with VereinsFlieger (`db/vfsync/`)

The worker fetches the flights that are not uploaded, adds or edits each at the
server over HTTPS, one after the other, and writes each back with its entry's
id, marked as uploaded.  Each request waits in an event loop.  *Hard:* answers
that are lost after the server has stored the flight; cancels; flights that are
saved or landed between being fetched and being written back; editors opened
before.  *Correct:* no flight is entered twice; what is marked is there as it
is; nothing entered is lost; who keeps syncing gets everything uploaded.

### Flight editor (`gui/windows/FlightWindow.cpp`, `model/Flight.cpp`)

The fields, what each changes in others, which are shown; OK and Now read them,
determine planes and people (asking whom it cannot identify), check in three
phases and write.  `Flight` has the rules that everything relies on:
departing, landing, touch-and-go, and what is wrong with a flight.  *Hard:* the
flight changes in the database meanwhile; fields that are hidden keep their
values; remembered people are deleted or merged; every dialog may be aborted.
*Correct:* what is written is what was entered, nothing untouched is changed,
and no error was passed over in silence.

### Lists of objects (`gui/windows/objectList/`, `gui/windows/objectEditor/`, `db/DbManager.cpp`)

People and planes are created, edited, deleted and merged.  *Hard:* several
selected objects are edited one after the other from copies; the check whether
an object is used and its deletion are two tasks; merging is four statements.
*Correct:* nobody in use disappears; Flarm ids stay unique (`FlarmIdCheck`,
`FlarmIdUpdate`, `PlaneIdentification`).

### Flight table and log books (`model/flightList/`, `gui/windows/MainWindow.cpp`, `statistics/`)

The flight list follows the cache by events, `FlightProxyList` adds a row for
each towflight, the view knows of both by the signals of item models only.
`PlaneLog`, `PilotLog` and `LaunchMethodStatistics` are made of the displayed day.
*Hard:* rows that are inserted, moved and removed in two stacked models; fetching
a date in a dialog in whose event loop Flarm goes on; midnight; a launch method
whose type changes.  *Correct:* the view shows the list, the list is the day, the
books account for every flight.

### The rest

Plugins, map, NMEA parsing, settings, translation, widgets, processes, scripts:
sequential code or presentation.  `PROJECT.json` lists each of these with what is
or is not modelled of it.

## 2. Modules

| Module | Models | Built on |
|---|---|---|
| `Gate` | what a Waiter promises | |
| `Waiter` | `Waiter.cpp`, one step per critical point | implements `Gate` |
| `BlockingCall` | what a call of a worker promises its caller | |
| `WorkerCall` | Returner, monitor, dialog, worker queue; nested calls | implements `BlockingCall`; its Returner's Waiter is a gate |
| `FlightCache` | rows, events, refreshes and the three flight lists | takes blocking calls as they are |
| `DbInterface` | statements, transactions, retries, keepalive, cancel, close | |
| `Migrator` | schema, versions, and the decisions of connecting | |
| `FlightEvents` | what Flarm's reports promise | |
| `FlarmRecords` | the records with their timers and removal | implements `FlightEvents` |
| `FlarmFlights` | the slots of the main window and the book of flights | extends `FlarmRecords` |
| `DataStream` | a stream with its back-end, in its thread | |
| `ManagedDataStream` | states, timers, settings; the position received | extends `DataStream` |
| `FlightEditor` | the editor against what others write to its flight | |
| `VfSync` | the synchronization, the server, the editor beside it | extends `FlightEditor` |
| `FlightLogs` | flights as the table sees them; the three log books | |
| `FlightTable` | flight list, towflights, view, dates, fetching | extends `FlightLogs` |
| `FlightErrors` | `Flight::getErrors` of a single flight | |
| `FlightForm` | the fields of the editor and how a flight is made of them | extends `FlightErrors` |
| `PeopleList` | deleting and merging people beside an open editor | extends `FlightForm` |
| `PlaneIds` | planes, their hashes and Flarm ids, in the list and in the editor | |
| `ConcurrencyProofs` | theorems | `Waiter`, `WorkerCall` and `ManagedDataStream` |
| `FlarmProofs` | theorems | `FlarmRecords` and `FlarmFlights` |
| `FlightFormProofs` | theorems | `FlightForm` and `PeopleList` |
| `DatabaseProofs` | theorems | `DbInterface` and `Migrator` |
| `PlaneIdsProofs`, `VfSyncProofs`, `FlightCacheProofs`, `FlightTableProofs` | theorems | the module each is named for |
| `MC...` | instances for TLC | |

Some modules hold operators marked `(mutated: ...)` before the definition they
vary.  They are slips a programmer could make; `PROJECT.json` lists for each
property of a run one that TLC finds to violate it, so that each property is
known to say something about the code.

### How state and actions correspond to the code

**Waiter.**  `mutex`, `flag` are the members; `sleeping` are the threads inside
`waitCondition.wait`.  Locking, testing, sleeping (which releases the mutex in
the same step, as Qt promises), waking up and returning are one action each.

**WorkerCall.**  `stack` is the GUI thread's stack of open calls; `caller` says
how far each has got (`posted`, dialog `connected`, in `exec`, ...).  The worker
takes calls from `queue`; `Progress`, `DropInterface`, `SetEnded`, `EmitEnded`,
`Store` and `Notify` are the critical points of a slot.  `TempCalls` are the slots
written `returnVoidOrException (returner, f (monitor->interface ()))`, whose
interface is destroyed *before* the Returner is notified; the others hold it in
a local variable, which is destroyed *after*.

**FlightCache.**  A flight is its day and a revision number that stands for the
rest of the row; day 0 is a prepared flight.  `rows` is the table as the one
connection sees it; a write is `Execute` then `CommitAndEmit`, which queues the
event that `DbChanged` applies.  A refresh is a plan of steps, each `ReadList`
(no lock held) then `Install` (under `dataMutex`).  A list is kept as the sequence
of copies of each flight in it, so that duplicates and leftovers show.

**DbInterface.**  A client's operation is a program of statements.  `serving` and
`at` are where the interface's thread is, `link` is the connection through the
proxy, `closes` counts requests to break it that the proxy's thread has yet to
serve.  The server side is `inTx`, `pending` and `durable` writes.  A second BEGIN
commits the transaction before it, as MySQL does.

**Migrator.**  A schema is a set of columns; a migration is a sequence of statements
that add, drop or rename one; each takes effect at once.  `doing` walks through
`connectImpl`, `getRequiredAction`, `loadSchema`, `migrate` and `ensureCurrent`;
`Interrupt` ends the program anywhere.  The tables a program has yet to create and
the migrations it has yet to run are sets, of which it takes the least: the
program counts through the list it has made.  `origin` is history: whether the tables
are those of a database from before the migrations, and whether such a database was
taken for a load that was canceled.  `SchemaOf` says without recursion
what migrations lead to (a column is there if the last statement about it added
it), and the run asserts that running them one after the other gives the same.
A migration's `down` undoes its statements in reverse; the code's have an order of
their own, which makes a difference only to a `db:down` that is interrupted, and
that is `forced`.  A rename of a column to itself (`flights.status`, to change its
type) and conversions of values are not statements here.  `forced` records that a
command was interrupted, that `db:load` was used on a database that is not empty,
or `db:down` after an interruption: what they leave is the user's responsibility.

**FlarmRecords.**  `state` is `FlarmRecord::state` or `"none"`.  A sentence brings a
situation (`ground`, `low`, `flying`), which is what `getSituation` makes of speed and
altitude.  A record that is removed from the list is not deleted by the code,
so its landing timer goes on: `removed` counts these.  A signal is delivered in
the step that emits it (direct connections in one thread): `event`.

**FlarmFlights.**  Each step of a record is conjoined with the slot that its signal
calls.  `flights` is the cache's content, `recent` the `EventTimeTracker`s.  The
lookups are by Flarm id first, then by plane, then none; among several matches
any may be returned.  A flight that a departure creates gets any of the
`Preselected` towplanes.  `moved`, `departedBy` and `clean` are history for the
properties only; `InTheAirTwice` and `DepartureSwallowed` name the two deviations
that end a plane's being clean.

**DataStream, ManagedDataStream.**  `stream`, `device` and `active` are the state,
the back-end and what it was opened for; `requests` and `signals` are the two
event queues between the threads.  `managed` is the record of the members of
`ManagedDataStream`; `DetermineState`, `UpdateState`, `GoToConnection` and `GoToData` are
its methods as functions of that record.  Parameters are set by the GUI thread
directly (under the stream's mutex), so `target` may differ from `active`.
Replacing a stream drops both queues (`deleteLater` after disconnecting) and
synthesizes the state change.  `device = "stuck"` is the thread that waits for
itself, see section 4.

**FlightEditor, VfSync.**  A flight is a revision of what only the editor enters
(`form`), whether it has landed (which Flarm changes too), the entry it remembers
and the mark `uploaded`.  `editor.seen` and `editor.vf` are what the window remembers
of `originalFlight`; `CacheChanged` updates the fields as the slot does.  `sync` is
the worker: `snapshot` its `flightMap`, `left` what the loop has yet to reach, `request`
how far the server is with the current one.  The sync dialog blocks the main
window but not an editor that is open already, and every dialog of the editor
blocks the sync (`InDialog`).  `told`, `overtaken` and `doubtful` are history.

**FlightLogs, FlightTable.**  A flight is its kind (what the user enters), its day,
and who has landed.  `cache.lists` are the three lists by id, as `FlightCache` shows
them to be when nobody writes while they are read.  `table.list` is the
`EntityList` of the main window, `table.tows` what `FlightProxyList` adds, `table.view`
the rows as the view knows them, changed only by inserted, changed and removed
rows of the signals; `fetch` is the dialog that waits for another date.  The log
books are operators on a sequence of flights, as the classes are functions of a
list.  Selecting goes by the indices in order, sorting by a permutation: `std::sort`
may leave equal flights, a flight and its towflight, in any order.

**FlightErrors, FlightForm, PeopleList.**  `form` are the fields, `selected` the
remembered people, `flight` what is being determined, `stage` what is to be
determined next (planes, then each person, then writing), with one action per
answer of the user.  A name is its two parts, a person is one of a few.
`CurrentErrors`, the questions of the three phases and what each change of a field
does to others are the functions of the same names.  `PeopleList` adds deleting
and merging, the statements of which reach the database or do not, and the columns
with people of the flight in the database, the supervisor's among them, which the
code's query of who is in use leaves out.

**PlaneIds.**  `cache` is the list of planes with its three hashes as sets of
pairs, kept by the functions of `Cache_hashUpdates.cpp` when a write's event
arrives; `dialog` is the one on top with the copies it works on, and `Return`
continues what the dialog was opened for: the list's next selected plane, the
identification of a flight's plane, the opening or saving of the flight window
(`form`).  `excused` records that the user let two planes have the same id.

## 3. Runs

All runs take two workers.  Deadlock is not checked where the system may stop:
users need not act, and every counter is bounded.

| Run | Distinct states | Question and result |
|---|---|---|
| `waiter` | 473 | Three waiting and two notifying threads: no lost wakeup, nobody passes early (`ImplementsGate`), everybody returns. |
| `worker_call` | 143 475 | Three calls, nested two deep, both shapes of slot: the worker uses a Returner, and a monitor whose interface is a temporary, only while they exist (`StackOutlivesUse`); a call gives exactly what its execution gave (`ImplementsBlockingCall`); every call ends. |
| `flight_cache` | 168 821 | Operations nested in dialogs, canceled, across midnight, another computer writing: only the named disturbances put a list out of step, and a clean full refresh repairs it; edits start from the current row; everything started ends. |
| `db_interface` | 153 178 | Two write operations and a disconnect, with a mishap, keepalives and cancellation: a success whose connection was not cut inside the transaction is there exactly once; every statement ends. |
| `migrator` | 417 594 | Two computers that connect, load and migrate at once, or one that uses all `db:` commands as well; no database, one of any version, or one from before the migrations; a rename among the migrations, three interruptions: unless an old database was taken for a canceled load (section 4), nobody is connected to a schema lacking a column, what is recorded was applied, whoever goes on trying alone gets connected. |
| `flarm_records` | 11 466 | A glider and two motor gliders, one partly out of range, two removed records each: reports fit together (`ImplementsEvents`), timers run only at rest, a landing is reported in the end. |
| `flarm_flights` | 1 571 816 | A glider and its tow plane, both with Flarm, two flights, local or coming, any number of them prepared for a plane, with and without a preselected tow plane: who was seen to depart is flying in the book and who was seen to land is not (`BookShowsTheAir`), until one of the two deviations of section 4 affects the plane; a second detection changes nothing but for departing a flight that is prepared (`SecondDepartureIgnored`). |
| `data_stream` | 119 408 | A port, a socket and a file that fail and come back while the user opens, closes and replaces them: when nothing is on its way, what is shown is so, of the device too unless it is a socket that failed; the device is the one of the settings; a wanted connection comes back unless a socket failed, silence is noticed. |
| `vf_sync` | 648 718 | Two flights, two saves, Flarm landings, an upload with one lost, refused or canceled request: entries are known, marks are true, what was entered is kept, all flights get uploaded. |
| `flight_table` | 155 406 | Two flights over two days, changed by the user and Flarm while dates are fetched, refreshed, canceled and the connection closed: view, list and log books agree. |
| `flight_form` | 479 265 | What the editor writes is what was entered; what was not touched stays; errors were asked about; who is in use exists however people are deleted and merged meanwhile, but for supervisors and the copilot of solo training whom the code overlooks (section 4). |
| `plane_ids` | 944 545 | Creating, editing, exchanging, identifying and deleting planes, in the list and while saving a flight: hashes agree, ids are unique, a saved flight's plane is found. |

`TypeOK` is checked in `waiter`, `db_interface`, `migrator` (`MigratorTypeOK`) and
`flarm_records`; the type invariants of the other modules are stated there, and
those of `WorkerCall`, `VfSync`, `ManagedDataStream` and `FlightTable` are proved (section 5).

### Bounds, and why they are enough

- `worker_call`: one call inside another's dialog and one queued behind them are
  all the ways two calls can meet; a third level repeats the second.  Two
  progress points give an operation a suboperation before and after a cancel.
- `flight_cache`: two operations under way are needed for any overlap; two days
  allow one midnight; two writes allow creating and then moving or deleting one
  flight, or two flights; two refreshes let a fetch follow a full refresh.
- `db_interface`: one mishap is a lost connection or an error at any statement;
  keepalives and cancels add others.  A close request waiting is at most one
  because a second finds the connection closed already.
- `migrator`: initial, add and rename migrations are the three kinds; the older
  `CurrentSchema` leaves one pending after loading, as the shipped file leaves
  two; three interruptions allow one in loading, one in migrating, one again.
- `flarm_records`: planes do not interact there; three planes are the three kinds.
  Two removed records of a plane allow one to be followed by another before its
  30 seconds are over.
- `flarm_flights`: two planes are one airtow; two flights are the one of the airtow
  and the next, or one of each plane.
- `data_stream`: two targets let the settings change to another one; one outage at
  any time, and two actions: closing and reopening, or replacing twice.  Data is
  one chunk on its way.
- `vf_sync`: one flight is being uploaded while the other waits; one save before
  and one during the upload; five entries hold two flights, a lost answer and a
  forgotten entry each.  One mishap is enough for each exception.
- `flight_table`: a glider behind a towplane, and the towplane leaving on its own,
  are a row with and one without a towflight; two days are the displayed one and
  another, with one midnight.
- `flight_form`: three steps of the user: a window that is opened, a change of a
  field and a second one, or a change and an operation of the list.  Of four
  people two have each other's names reversed, the third has a part of each and the
  fourth is a namesake, which are the cases of the lookups by names; two of them
  are there at the beginning.  Four methods are the
  four cases that the rules tell apart.  Without the list it was also run
  with two windows of two changes each (1.9 million states) and with three
  changes (2.2 million).  A copilot of solo training whom only the cache remembers
  takes a fourth step (a canceled merge, a deletion, the window, its type):
  `PeopleStay` covers it.
- `plane_ids`: three planes with different Flarm ids and room for a fourth, so that
  a copy that has become stale conflicts with a third plane; two planes
  selected, two operations.  Also run with three operations on fewer planes.

### Assumptions of the environment

- *Fairness.*  Threads that can run are scheduled, Qt delivers queued signals and
  serves active timers: weak fairness of the thread's actions.  The user need not
  act, except where said: `EveryStatementEnds` holds if the server answers what
  reaches it (and not every new connection is hit by the close request for the
  old one), or if the user goes on pressing Cancel; `GetsConnected` asks the user
  to try to connect again, and that no other program uses the database;
  `AllGetUploaded` that the user answers dialogs and syncs again.  `flight_table`,
  `flight_form`, `plane_ids` and `flarm_flights` assume none.
- `flarm_flights`: no plane is reported to do the same thing twice within ten seconds
  (`Unhurried`; the trackers would drop the second).  A plane stays `clean` as long
  as Flarm reports its every move and the user does not depart or land its
  flights, and none of the deviations `InTheAirTwice` and `DepartureSwallowed`
  (section 4) has affected it; `BookShowsTheAir` speaks of clean planes.  How many
  flights the user prepares, and when, is not restricted.
- A write that is canceled is, for `FlarmFlights`, a signal that was lost.
- `flight_table`: a towplane lands before its glider; flights are in the order of
  their ids within a day.
- `plane_ids`: planes that are stored in the beginning have different Flarm ids;
  flights are of today and were created automatically; the registrations of
  existing planes are not edited.

## 4. Known deviations

Places where the code does something else than it, its documentation or common
sense says.  They were met while modelling and bound what the properties say.

**Threads.**
- A slot that keeps the interface in a local variable stores the result, notifies
  the Returner and only then destroys the interface, whose last reference sets
  `hasEnded` and emits `ended ()`.  Between the two the caller finds `getEnded ()`
  true, skips the dialog, does not block in the Returner and destroys the monitor
  that is about to emit.  Hence `StackOutlivesUse` speaks of monitors of
  `TempCalls` only.

**Cache.**
- A write between a refresh's read and its installing leaves a list out of step
  until the next full refresh (`db/cache/Cache.cpp:202`); `disturbed` in
  `MirrorUnlessDisturbed` stands for that.
- `refreshFlightsOf` removes the ids of the old list from `flightsById` after another
  list may have inserted them (`Cache.cpp:188`): a listed flight is not found by
  id, which `MainWindow.cpp:835` only logs.  A flight updated to a day that is in no
  list stays in `flightsById` as it was (`Cache.cpp:442`).  An object is appended
  without checking for its id (`Cache.cpp:306`).
- `todayDate` is the date of the last refresh; until the next one, flights of the new
  day are in no list, though `MainWindow.cpp:1712` says that today's always are.
- `clear ()` leaves FlarmNet records and the lists sorted by use (`Cache.cpp:486`);
  these are read without the mutex (`Cache_lookup.cpp:42`).
- A canceled deletion leaves the object in the cache though it may be gone.

**Database.**
- When the connection is lost before COMMIT arrives, the COMMIT alone is repeated
  on a new connection, where it succeeds without a transaction: the operation
  reports success and emits its event, and the row does not exist.  That is why
  `DoneUnlessInterrupted` has its condition.
- `close ()` breaks the connection so that a hanging keepalive ends, but the
  keepalive of `ThreadSafeInterface.cpp:319` catches two kinds of exception only.
- Merging people has no rollback when it is canceled (`DbManager.cpp:718`), so its
  first updates are committed by the next BEGIN.  When the connection is lost
  within, the rest runs without a transaction, and the cache shows replaced
  people that the database does not have.
- "Under no circumstances may we delete a person that is still in use"
  (`DbManager.cpp:737`) does not hold.  Supervisors are not updated by a merge, and
  `Flight::referencesPersonCondition` (`Flight.cpp:1241`) does not look at
  `supervisor_id`: a person who is only a supervisor is deleted or merged away, and
  the flight keeps the id.  (Opened and saved, it loses it.)
- In solo training the window writes the remembered copilot along with the
  supervisor, and does not determine that person anew (`FlightWindow.cpp:910`,
  `1237`): it may be one that was deleted since the cache or the window got it.
  These are the cases, and the only ones, that `PeopleInUseExist` exempts: the
  history variables `overlooked` and `remembered` of `PeopleList` say who was
  deleted while the one or the other.  The run reaches both.

**Migrations.**
- A database is taken for current if its *latest* version is; gaps are not noticed
  (`Migrator.cpp:236`).  `db:down` after a migration was interrupted reverts the
  last recorded one and leaves the interrupted one half applied; if that was the
  only one recorded, the next connection loads on top of it.  This, and `db:load` on
  a database that is not empty, is on the user's responsibility (`forced`).  A
  rename that was interrupted before its version was recorded cannot be repeated
  (`doc/internal/databaseMigrations.txt:63`).
- A database from before the migrations (tables, no `schema_migrations`) whose first
  migration is interrupted after `addMigration` has created `schema_migrations` and
  before it has inserted the version (`Migrator.cpp:350`-`360`) has the table, empty,
  and other tables.  That is line 4 of the table at `Migrator.cpp:195`, so the next
  connection loads the schema, creates the tables that are missing and records all
  versions, though the migrations of the existing tables were never applied.
  The same happens without an interruption if a second program looks at the
  database between these two statements of the first.  The comment at
  `Migrator.cpp:129` says that the two cases can be distinguished.  The run `migrator`
  starts with such a database as well, and the model does all of this: the step at
  which a database that is still old is taken for a canceled load sets `origin` to
  "mistaken", and the properties except exactly what follows it
  (`OldTakenForCanceled`).  Without the exception TLC refutes `RecordedIsApplied` in a
  few seconds.
- Two programs that load the schema at once can clear each other's record again
  and again, hence `GetsConnected` is for a program that is used alone.

**Flarm.**
- Prepared flights are looked at before flying ones.  If the next flight of a plane
  is prepared already, the second detection of an airtow departs that one too,
  against the comment at `MainWindow.cpp:2599`.  The model does so.
  `SecondDepartureIgnored` allows this one change, of a flight in `PreparedFor`, and
  a plane that two flights show in the air (`InTheAirTwice`) is not clean any more:
  its landing can end only one of them.
- With a tow plane preselected, a departure for which there is no flight creates an
  airtow with that plane; a tow plane that departs alone is then shown both as
  flying and as towing itself, which is `InTheAirTwice` too.
- A flight of mode coming that has not landed is not `isFlying ()`, although
  `Cache_lookup.cpp:115` says prepared flights can be flying if they are coming:
  Flarm's landing creates a second flight.  A prepared coming flight swallows the
  departure of its plane (`DepartureSwallowed`).  The touch-and-go of an unknown plane creates a coming
  flight that no later landing of the plane finds.

**Data streams.**
- If a port is in use, `QSerialPort::open` emits an error whose slot locks the mutex
  that `openStream` holds: the thread waits for itself, and closing the program
  or replacing the stream ends in waiting for it (`"stuck"`).
- `TcpDataStream.cpp:25` connects `error (QAbstractSocket::SocketError)`, which the
  build with Qt 6 (`debian/control.template`) does not find: the connect fails at run
  time and `socket_error` is never called.  (`TcpProxy.cpp:207` was changed to
  `errorOccurred`.)  A connection attempt that fails is shown as opening for ever, a
  connection that is lost as open, and neither is tried again until the user
  closes the stream or changes the settings, against `ManagedDataStream.cpp:346`, "will
  be re-opened automatically on error".  `SocketDisconnected` models this; such a
  socket is `Unnoticed`, the one case that `ShownIsTrue` and `Recovers` except.
- `SerialDataStream::timer_timeout` compares the lower-cased name with the
  configured one as it is written.  `FileDataStream::streamParametersCurrent` has its
  test reversed, so a file is reopened although it is current.  Sockets and
  files pass data on in any state.  `NmeaDecoder`'s buffer survives a reconnect.

**Synchronization and editor.**
- Departing or landing a flight, by Flarm or in the main window, does not take
  `uploaded` away; only the editor does (`FlightWindow.cpp:906`), and flights are
  uploaded before they have landed.  Such a flight has no landing time at
  VereinsFlieger for good; `UploadedIsCurrent` says what remains true.
- The flight that is written back is the copy fetched before the first upload:
  what was entered meanwhile is overwritten (`overtaken`).
- The lost answer to an add, or an editor that was opened before the upload and
  saved after it, leads to a second entry (`doubtful`).
- Escape hides the sync dialog without canceling, so a second sync can be started
  inside the first.  A wrong club id emits `finished` and goes on.  A proxy script that
  answers an unknown id leads to a default flight being written.
- A window whose flight could not be created stays open; a second OK creates a
  duplicate.  `on_actionNew` says it deletes the old window and does not
  (`MainWindow.cpp:1030`).  Now and OK write the flight read before the dialogs:
  a Flarm landing in between is overwritten.
- `fillFirstNames` and `fillLastNames` (`FlightWindow.cpp:576`) pass the names to
  `getUniquePersonIdByName` in the wrong order: the remembered person is the one
  with the reversed name, normally none.
- With a supervised training flight the copilot's remembered id is set too, so the
  supervisor counts as flying; the name of a supervisor who was not identified
  is lost.
- What the table marks and the editor does not ask about: landings without
  departure, the missing landing place of a towflight; after Now, the missing
  departure place and equal places; with a self launch, training and guests in
  single-seaters; with winch and airtow, a missing pilot of a method that requires
  one.  `ErrorsWereAsked` lists them.
- A landing on another date than the departure loses its date.  Anonymous mode, or
  towpilots not being recorded, erases people that are hidden when a flight is
  edited.  `FlightWindow.cpp:1662` says that only departure and landing change
  outside the editor; merging people changes people.

**Planes.**
- `FlarmIdCheck` looks at one conflicting plane only, and writes the other plane
  first: a canceled exchange leaves two planes with one id.  Several selected
  planes are edited from copies; exchanging or keeping with an old id from a
  stale copy gives two planes one id, although `FlarmIdCheck.cpp:22` says that
  these resolutions remove the conflict.  These cases are `excused`.
- `determinePlane` (`FlightWindow.cpp:1407`) gives a newly created *towplane* the Flarm id
  of the glider's flight.  `PlaneIdentification` relies on the lookup returning planes
  with the id, which one found by way of FlarmNet need not have.
- Whether an object is used and its deletion are two tasks: a departure that Flarm
  reports in between can create a flight of the plane that is deleted.
- Importing FlarmNet records deletes all records outside the `try`, and creating
  them may be canceled: then there are none.

**Flight table.**
- Towflights are not updated when a launch method changes, nor, after midnight,
  when the flight's day is in no list (`stale`).  `FlightProxyList::isAirtow` does
  not ask whether the flight departs here.
- After midnight, refreshing with yesterday displayed shows the other list, and new
  flights do not appear before the date is selected again; the label uses
  `otherDate`; prepared flights are appended to any date.
- The plane log asserts that the plane has a finished flight; flights without a
  launch method are in no line of the statistics; times wrap at 24 hours; the
  pilot log of the main window leaves out flight instructors.
- Flights forced visible by notifications are a set: closing the first of two
  notifications hides the flight of the second.

## 5. Proofs

TLAPS checks these for every value of the constants; where a property is named,
a run checks it too.

| Theorem | States |
|---|---|
| `ConcurrencyProofs!WaiterTypeCorrect` | `WaiterTypeOK` is invariant |
| `ConcurrencyProofs!WakeupsKept` | `NoLostWakeup` is invariant |
| `ConcurrencyProofs!WaiterIsGate` | `Waiter` implements `Gate` |
| `ConcurrencyProofs!CallsTypeCorrect` | `WorkerCall`'s `TypeOK` is invariant |
| `ConcurrencyProofs!StackOutlives` | `StackOutlivesUse` is invariant |
| `ConcurrencyProofs!CallsAreBlocking` | `WorkerCall` implements `BlockingCall` |
| `DatabaseProofs!InterfaceTypeCorrect` | `DbInterface`'s `TypeOK` is invariant |
| `DatabaseProofs!SuccessMeansDoneOnce` | `DoneUnlessInterrupted` is invariant |
| `DatabaseProofs!MigratorTypeCorrect` | `MigratorTypeOK` is invariant |
| `DatabaseProofs!ConnectedFindsColumns` | `ConnectedIsCurrent` is invariant |
| `DatabaseProofs!RowsTellSchema` | `RecordedIsApplied` is invariant |
| `FlarmProofs!RecordsTypeCorrect` | `FlarmRecords`' `TypeOK` is invariant |
| `FlarmProofs!TimersRight` | `TimerOnlyAtRest` is invariant |
| `FlarmProofs!RecordsImplementEvents` | `FlarmRecords` implements `FlightEvents` |
| `FlarmProofs!BookRight` | `BookShowsTheAir` is invariant |
| `FlarmProofs!SecondDeparture` | every step satisfies `SecondDepartureIgnored` |
| `PlaneIdsProofs!HashesRight` | `HashesAgree` is invariant |
| `PlaneIdsProofs!IdsUnique` | `IdsAreUnique` is invariant |
| `PlaneIdsProofs!SavedFound` | every step satisfies `SavedIsFound` |
| `VfSyncProofs!SyncTypeCorrect` | `VfSync`'s `TypeOK` is invariant |
| `VfSyncProofs!EntriesStayKnown` | `EntriesAreKnown` is invariant |
| `VfSyncProofs!UploadedStaysCurrent` | `UploadedIsCurrent` is invariant |
| `VfSyncProofs!EnteredStays` | `EnteredIsKept` is invariant |
| `ConcurrencyProofs!StreamsTypeCorrect` | `ManagedTypeOK` is invariant |
| `ConcurrencyProofs!ShownStateIsTrue` | `ShownIsTrue` is invariant |
| `ConcurrencyProofs!SettingsAreUsed` | `UsesTheSettings` is invariant |
| `FlightFormProofs!EnteredIsWritten` | `WrittenIsEntered` is invariant |
| `FlightFormProofs!AskedAboutErrors` | `ErrorsWereAsked` is invariant |
| `FlightFormProofs!UnchangedStays` | every step satisfies `UnchangedIsKept` |
| `FlightFormProofs!PeopleStay` | `PeopleInUseExist` is invariant |
| `FlightCacheProofs!ListsMirror` | `MirrorUnlessDisturbed` is invariant |
| `FlightCacheProofs!EditsStartFromRows` | `EditsSeeTheRow` is invariant |
| `FlightTableProofs!TableTypeCorrect` | `FlightTable`'s `TypeOK` is invariant |
| `FlightTableProofs!ViewFollowsList` | `ViewShowsTheList` is invariant |
| `FlightTableProofs!ShownFlightsAreTheDays` | `ShownIsTheDay` is invariant |
| `FlightTableProofs!LogsAreComplete` | `LogsAccountForAll` is invariant |

The assumptions are those named in the modules: that the constants have their
types, and where noted that stored data is consistent to begin with.

*Waiter*, for any disjoint finite or infinite sets of threads.  `NoLostWakeup` is not
inductive: nothing in it says that a sleeper cannot slip in after `wakeAll`.  The
invariant `IInv` adds who holds the mutex at which point (`MutexInv`, an
equivalence) and that a thread past its sleep, or a notifier past its
assignment, implies the flag (`SleepInv`).  From the mutex it follows that no
waiter is between its test and its sleep while a notifier is between the
assignment and `wakeAll`.  `WaiterIsGate` maps the flag to the gate and the returned
threads to those that passed; the only premise that is not local to a step is
`SleepInv`: who is awake has seen the flag.

*WorkerCall*, for any calls nested to any depth.  That the worker's Returner is on the
stack follows from four facts that hold together: a call that is over was
notified, and one not begun was not (`CallsInv`); the posted calls are distinct,
not notified and not the worker's (`QueueInv`); where the worker is in its slot
determines the reference count of its monitor, and it has not notified before its
last use of the Returner (`WorkerInv`).  For the refinement, only `Begin`, `Notify` and
`Deliver` change what `BlockingCall` sees; all other steps stutter.

*DbInterface*, for any operations that are transactions (`InterfaceAssumption`: those of
`Database.cpp` and `DbManager::mergePeople` are), any clients and any number of
mishaps.  That what reports success was done once says nothing while an operation
is under way, so the invariant keeps its account (`Account`): the writes the server
has stored and those in the open transaction are together the writes among the
statements executed so far.  Each step either leaves both parts alone, or moves
the second into the first (a commit, also the one that the next BEGIN implies), or
executes the next statement; a connection that breaks takes the second part with
it, and then the operation counts as interrupted or has nothing in it.  A
statement that is repeated after its answer was lost would be counted twice;
`link = "up"` whenever an answer is under way says that it is not.

*Migrator*, for any migrations, releases and tables, any number of programs and of
interruptions.  What holds depends on what migrations do, so the module states as
assumptions what those in `db/migrations` have in common; each is weaker than "a
migration and its `down` are inverse":

- `ReleasesAssumption`: a release has all migrations up to its latest, so has
  the schema it loads and so have databases made by one; releases in use together
  load the same schema (`current_schema.yaml` is dumped by hand and stays the same
  over several migrations; it ends with `20220328172525`), and what they use is in the
  later schemas too.
- `StepsAssumption`: the initial migration only adds, and something of it stays
  (its tables and columns are renamed, not dropped); a migration applies to what those
  before it leave, and does not add what one before took away.
- `DownAssumption`, where `db:down` is used at all: reverting a statement leads back.
  It fails for `add_towpilot` and `drop_old_columns`, whose `down` does nothing, so
  with them the theorems speak of programs that do not revert.
- `TablesAssumption`: `CurrentSchema` creates each table of its schema, once.

`MigratorTypeCorrect` is the control alone (`ControlInv`): what each program is doing
has its operand, and the command line is used alone.  `RecordedIsApplied` is
not inductive, for it says nothing while something is loaded or migrated.  Two
invariants replace it.  As long as one program works and nothing interrupted it, the
schema is known exactly at every statement (`ExactInv`): that of the statements up
to the one about to be executed, or the tables created so far.  After an
interruption, or with two programs, nobody knows the schema; columns may be
missing from any version and others be there too early.  What survives is that what
was once added stays (`Held`): a column is there, or a migration takes it away and
has left what it renames it to.  All statements but those of `db:down` keep what is
held (`HeldStays`), so a program that is overtaken by others can still rely on what
it did.  `GeneralInv` says that recorded migrations are applied in this sense, so are
those of them that a migrating program has behind it (`Applied`), tables that a loading
program has behind it are complete (`Complete`), and, while
somebody loads or nothing is recorded, every table that exists is complete
(`Whole`).  The last is what makes `CREATE TABLE IF NOT EXISTS` right: a table
left by an interrupted load can be skipped.  An old database does not satisfy it:
its tables lack columns and nothing is recorded.  `OldInv` is what holds until the
first version is recorded: all who work on the database migrate it, beginning with
the initial migration, which finds every column there.  Recording that version
leads to `ExactInv` or `GeneralInv` (`OldAddMigration`); a program that looks between
the creation of `schema_migrations` and the first row makes it `OldTakenForCanceled`,
the deviation of section 4.  The theorems have no assumption on the database.
`ConnectedFindsColumns` adds only that a program connects after it
has seen its latest version recorded, and that the columns it uses are never taken
away.

*FlarmRecords*, for any planes and any number of removed records.  `TypeOK` and
`TimerOnlyAtRest` are inductive together.  The refinement maps a plane to down only
when its landing timer has stopped, since a motor glider's landing is not
reported before; one lemma per action shows which step of `FlightEvents` it is.
That a touch-and-go is reported for motor gliders only, and never on a record
that is not up, needs `TimerOnlyAtRest`.

*FlarmFlights*, for any planes, methods, modes and flights.  `BookShowsTheAir` looks at
planes whose record is sure of itself; for the slots to keep it, the book must be
in order (`FlightsInv`: each stored flight has a shape that entering it and the slots
can give it, ids are contiguous)
and each plane must be shown as it is (`PlaneShown`, `ShownInv`): a record that has
just reported a departure or landing is where that takes it, one that is up has a
flight in the book that flies, or one that has left for elsewhere, one that is
down has none that departed from here, and no clean plane is shown in the air by
two flights (`OnceUp`).  Small choices that the slots make (the
first prepared flight, else the first flying one) are shown to choose a flight of
the plane whenever there is one.  The theorems assume nothing but what the
module's constants are: flights of any mode may be prepared, several of a plane,
with any tow plane preselected.  What a plane loses to the deviations of section 4
is in the definition of `clean`, which the run checks as well.

*PlaneIds*, for any planes, flights, ids and selections.  The hashes are those of the
planes because adding, deleting and updating commute with reading the planes
anew (`AddedSound`, `DeletedSound` and the lemma on updates).  `IdsAreUnique` says
nothing of the dialog that is about to write, so the invariant adds what each
dialog holds: copies of planes that exist (`SelectionInv`, `DialogInv`, `FormInv`) and
a conflict that is one as long as it is asked about (`ConflictInv`).  An exchange
keeps ids unique only by both of its writes.  `SavedIsFound` follows from the
lemmas about which steps save, with the plane's id given just before.

*VfSync*, for any number of flights, saves, entries and mishaps.  A remembered entry
is always one of its flight (`Held`), in rows, in the open window and in the copies
that wait.  A flight that waits to be written back is not marked (`PendingInv`), so
that editing its entry at the server disturbs no marked flight; unless it is
doubtful its copy remembers the entry of its row, and unless it is overtaken the
copy *is* the row.  While a flight has been added and not yet written back,
its last entry is the one that nobody remembers (`JustAdded`).  Ids are never given
again, so a new flight has no entries and nothing told of it.

*ManagedDataStream*, for any targets and any queues.  What is shown may lag behind, so
the invariant says what will correct it.  The last queued signal that tells a
state tells the present one (`LastSignalInv`); where none is queued the connection
is what the stream's state means (`ConnectionInv`).  A state that does not
follow from its parts is one that `open` has left, and then a signal that
changes the connection is queued or a call that leads to one (`StateInv`); that
needs the order of the calls: the last one decides whether the stream stays
open (`ClosedInv`), and a connection can only be "closed" before the first signal
(`FirstOpenInv`).  The device agrees with the stream, or it is a socket that failed
without a signal, of which the invariant says only that (`DeviceInv`).  A device of another target than the settings' has its
parameters applied by a call that is queued (`SettingsInv`).

*FlightForm*, for any stored flights, people, planes, methods and locations.  What is
written is taken together over several dialogs, so the invariant follows the
window: what it holds is of a type that its fields can show (`BasicInv`, `PlanesInv`,
`RoleInv`), what it is about to write is what is entered with the roles determined
so far (`SavedInv`), and what a field does not show is still what it was
(`HiddenInv`, `KeptInv`).  `UnchangedStays`, that saving an untouched window leaves the
flight alone, holds for stored flights of which nothing is hidden by the window
(`NothingHidden`): a flight with, say, a copilot whose mode has none loses it, as the
code means it to.  The run asserts that its stored flights are such.

*PeopleList*, for any people and flights; stored flights know their people,
supervisors too (`ListAssumption`).  Nobody is deleted while the window determines
people, which it does role by role: who has been determined stays known until the
flight is written (`DeterminedInv`).  Merging replaces a person as pilot, copilot and
towpilot before the person is deleted, wherever it is interrupted.  What the window
writes without determining it, the copilot of solo training, is somebody who is known
or was deleted while remembered (`RememberedInv`), which goes back to the flight in the
cache that the window was opened on (`RowInv`).

*FlightCache*, for any flights, days, writes, refreshes and nesting.  The properties
speak of moments of rest only; the invariant says what holds in between.  The
changes on their way to the cache are one queue, that of the events with the
write that is not yet committed; the last change to a flight in it makes the row
what it is, and only the first can add the flight (`QueueInv`).  A flight that is not
in the queue is in each list as it is in the database; one that is in it is there
once at most, and not at all before it is added (`Tracked`): an update puts that
right and an insertion makes no second copy.  This holds of the lists that are
trusted: all of them, or, during a full refresh, those it has installed.  What a refresh
found is what is in the database if nothing came in between (`FoundInv`); that ids
are given once (`IdsInv`) is what makes an insertion new.

*FlightTable*, for any kinds of flights, any number of flights and days.  The view is
never computed from the list: it is what the signals made of it.  So the proof
first shows of each operation on the list that the view is still the list followed
by the towflights (`AppendShows`, `RemoveShows`, `ReplaceShows`, `ResetShows`), from what
inserting, removing and replacing do to a sequence that is two put together.  Then
sequences are left for the sets of their rows (`Rows`): as no id is in the list
twice, nor among the towflights (`Good`), an operation touches one flight and its
towflight and leaves the rest alone (`OnlyAt`), and `removeById` and `replaceById`, which
go over the whole list, act once.  Where they go on, the argument is by the least
index at which something else would be so (`LeastNat`): the library's induction cannot
be used.  The invariant adds to the two properties that the rows of the list are
those of the database (`TableInv`), that the lists of the cache have the flights of
their dates while there is a connection, the other list only if its date is not
today's (`CacheInv`), and that a fetch that has finished left a date (`FetchInv`).
`ShownInv` says of the moments at which the table must show the day that it does;
that it may say nothing between midnight and the next refresh rests on
`cache.todayDate <= today`.  A refresh establishes all of it from the cache alone
(`RefreshIs`); every other step touches at most one flight (`TouchedIs`,
`ShownTouched`).

*FlightLogs*, for any planes, people and finitely many launch methods
(`MethodsAssumption`).  Numbers that are summed and flights that are counted are
compared as sets: a sum is the number of pairs of an index and a number below what
stands there (`Units`, `SumIs`), so that adding one to a sequence adds its units
(`SumAppend`), and counting the flights of each pilot counts the flights with one of
these pilots (`SumOfCounts`).  What is selected and sorted has the flights it was
selected from, each once: there is a bijection of the indices (`Picks`), for a
permutation that sorts exists, by how many flights come before each (`SortExists`).
The loop of `PlaneLog::createNew` is unfolded into its turns (`LoopTurns`); every turn
keeps that the closed entries and the open one together weigh what the flights so
far do (`TurnKeeps`), whatever may be merged, and the open one is appended at the end.
The invariant of the table is needed for the towflights only: those that follow the
signals are those that the statistics make anew (`SameTowflights`).

Out of the prover's reach, and so only model-checked: liveness (`EveryWaitReturns`,
`EveryCallEnds`, `CatchesUp`, `EveryStatementEnds`, `GetsConnected`, `LandingIsReported`,
`Recovers`, `AllGetUploaded`).  Every other property of the runs is proved: all
invariants, all action properties and the refinements' safety, for every value of
the constants that the named assumptions admit.

## 6. Plan

*Done:* everything listed in section 2, in the order of that table: threads, cache,
database, migrations; Flarm; data streams; synchronization and editor; flight
table and log books; form and people; planes.

What would come next:

1. `Connect`: connecting, the example launch methods, `clear` and `refreshAll` with the
   other object lists, on top of `FlightCache`'s protocol.
2. The hashes of people and launch methods, along the lines of `PlaneIds`.
3. The migrations that exist, step by step, instead of three kinds of migrations.

Runs stay well below five minutes; where a module needs a run of its own, smaller
runs of finished modules are merged.

## 7. Not modelled, and why

- Text of SQL, HTTP and NMEA, dates and time zones, formatting: conversions
  without a protocol.
- Widgets, item delegates, colours, plugins, the Flarm map and radar: presentation.
- Settings, translation, processes: read and written in one thread, one value at
  a time.
- Exceptions other than `StorableException` in a slot end the thread; database
  exceptions in the synchronization, or in a slot that nobody called, end the
  program or the slot.  A departure whose flight cannot be created
  (`MainWindow.cpp:2646`) is lost; `FlarmFlights` takes it for a lost signal.
- Launch methods created after loading the schema emit events that are still
  queued when connecting refreshes the cache, and so are added twice
  (`DbManager.cpp:261`): to be part of `Connect`.
- The destructor of a background stream waits for one second only
  (`BackgroundDataStream.cpp:80`): real time.
- A second sync beside the first, started after hiding its dialog or on another
  computer.
- Wrap-around of ids and counters: 64 bits and never reached.

## 8. Running

    tlc -workers 2 -config MCWaiter.cfg MCWaiter
    tlapm ConcurrencyProofs.tla

and likewise for the other configurations and proof modules.  Each run takes less
than a minute, and the longer proofs about as long.
