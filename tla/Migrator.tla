------------------------------ MODULE Migrator ------------------------------
(***************************************************************************)
(* Bringing the database to the schema the program needs:                  *)
(* DbManager::openInterface and checkVersion decide what to do, Migrator   *)
(* loads the current schema into a new database or applies the pending     *)
(* migrations to an existing one, and records what it did in the table     *)
(* schema_migrations.  The command line (db:up, db:down, db:migrate,       *)
(* db:load) runs the same methods without the decision.                    *)
(*                                                                         *)
(* MySQL carries out every statement on the schema for good, so a step     *)
(* here is a statement, and the work may end after any of them: the user   *)
(* cancels or declines, a statement fails, the program ends.  Programs on  *)
(* several computers, perhaps of several versions, use the same database   *)
(* and nothing keeps one from changing the schema while another does.      *)
(*                                                                         *)
(* The schema is the set of its columns, a column is a pair of a table and *)
(* a name, and a table exists as long as it has a column: its "id" comes   *)
(* with the table.  A migration is a sequence of pairs of an old and a new *)
(* column: one is added if there is no old one, dropped if there is no new *)
(* one, renamed if there are both.  Its down() undoes them, here the last  *)
(* first: in what order matters only to a command that is interrupted.     *)
(***************************************************************************)
EXTENDS Naturals, Sequences, FiniteSetsExt

CONSTANTS
  Programs,        \* running copies of the program
  Available,       \* the migrations each of them contains
  SchemaVersions,  \* the migrations its CurrentSchema was generated from
  Steps,           \* what each migration does
  Tables,          \* the tables in the order CurrentSchema creates them
  NoColumn,        \* no column
  StartOld,        \* the database may be one from before the migrations
  StartVersions,   \* the sets of migrations it may have otherwise
  Commands,        \* the commands that are used
  MaxInterrupts    \* bound on interruptions

Versions == DOMAIN Steps

ASSUME MigratorAssumption ==
  /\ IsFiniteSet(Versions) /\ Versions \subseteq Nat \ {0}
  /\ IsFiniteSet(Programs)
  /\ Available \in [Programs -> (SUBSET Versions) \ {{}}]
  /\ SchemaVersions \in [Programs -> (SUBSET Versions) \ {{}}]
  /\ StartVersions \subseteq (SUBSET Versions) \ {{}}
  /\ StartOld \in BOOLEAN /\ MaxInterrupts \in Nat
  /\ Commands \subseteq {"db:load", "db:up", "db:migrate", "db:down"}

VARIABLES
  exists,      \* there is a database
  columns,     \* its schema, without schema_migrations
  table,       \* schema_migrations exists
  recorded,    \* its rows
  doing,       \* the statement each program is about to execute
  mode,        \* "open" from openInterface, "check" from checkVersion, "cli"
  tables,      \* the positions of the tables each program has still to create
  todo,        \* the migrations it has still to run, the least first
  step,        \* the position in the migration being run
  inUse,       \* the programs that are used at all
  interrupts,  \* counter for the bound
  forced,      \* history: a command was interrupted, db:load used on a database
               \* that is not empty, or db:down after an interruption
  origin       \* history: the tables are those of a database from before the
               \* migrations, and nothing is recorded yet ("old"); such a
               \* database was taken for one whose load was canceled
               \* ("mistaken"); or neither ("regular")

database == <<exists, columns, table, recorded>>
history  == <<inUse, interrupts, forced, origin>>
migratorVars == <<exists, columns, table, recorded,
          doing, mode, tables, todo, step, inUse, interrupts, forced, origin>>

-----------------------------------------------------------------------------
(* Schemas *)

TableOf(column) == column[1]
HasTable(schema, t) == \E c \in schema : TableOf(c) = t
Renames(s) == s[1] # NoColumn /\ s[2] # NoColumn

\* addColumn skips what is there and dropColumn what is not; both fail on a
\* table that is missing, and so does a renameColumn without its old column
Fails(schema, s) ==
  \/ Renames(s) /\ (s[1] \notin schema \/ s[2] \in schema)
  \/ /\ s[1] = NoColumn /\ s[2][2] # "id"
     /\ ~HasTable(schema, TableOf(s[2]))
  \/ s[2] = NoColumn /\ ~HasTable(schema, TableOf(s[1]))

\* dropping the "id" drops the table
Drops(s, c) ==
  c = s[1] \/ (s[2] = NoColumn /\ s[1][2] = "id" /\ TableOf(c) = TableOf(s[1]))

Alter(schema, s) ==
  {c \in schema : ~Drops(s, c)} \cup ({s[2]} \ {NoColumn})
Reversed(s) == <<s[2], s[1]>>

\* the statements of the migrations V, each a version and a position in it
StatementsOf(V) == UNION {{v} \X DOMAIN Steps[v] : v \in V}
Statement(a) == Steps[a[1]][a[2]]
Precedes(a, b) == a[1] < b[1] \/ (a[1] = b[1] /\ a[2] < b[2])

AllColumns ==
  (UNION {{Statement(a)[1], Statement(a)[2]} : a \in StatementsOf(Versions)})
  \ {NoColumn}

\* the schema after the statements A in their order: what one of them left
\* and none of the later ones took away
After(A) ==
  {c \in AllColumns : \E a \in A :
     Statement(a)[2] = c /\ \A b \in A : Precedes(a, b) => ~Drops(Statement(b), c)}

\* the schema that the migrations V lead to
SchemaOf(V) == After(StatementsOf(V))

\* no migration takes the column away
Kept(c) ==
  c # NoColumn /\ \A a \in StatementsOf(Versions) : ~Drops(Statement(a), c)

CurrentSchema(p) == SchemaOf(SchemaVersions[p])
Pending(p) == Available[p] \ recorded

-----------------------------------------------------------------------------
(* What migrations and programs are like *)

\* "Migrations can only be run in the proper order" (databaseMigrations.txt):
\* a release has all migrations up to its latest.  Releases used together
\* load the same schema and find their columns in the schemas of the later.
ASSUME ReleasesAssumption ==
  /\ \A V \in {Available[p] : p \in Programs} \cup StartVersions
              \cup {SchemaVersions[p] : p \in Programs} :
       \A v \in V, w \in Versions : w < v => w \in V
  /\ \A p, q \in Programs : SchemaVersions[p] = SchemaVersions[q]
  /\ \A p \in Programs : \A c \in SchemaOf(Available[p]) : Kept(c)

\* The initial migration only adds, and one of its columns is kept, if under
\* another name.  A migration can be applied where those before it have been,
\* and none adds a column that one before took away.  A rename of a column to
\* itself (flights.status) and a change of types or values is no statement.
ASSUME StepsAssumption ==
  /\ \A v \in Versions :
       /\ Steps[v] \in Seq((AllColumns \cup {NoColumn}) \X (AllColumns \cup {NoColumn}))
       /\ Steps[v] # <<>>
  /\ \A a \in StatementsOf({Min(Versions)}) : Statement(a)[1] = NoColumn
  /\ \E a \in StatementsOf({Min(Versions)}) : \A b \in StatementsOf(Versions) :
       Drops(Statement(b), Statement(a)[2])
         => Renames(Statement(b)) /\ Kept(Statement(b)[2])
  /\ \A a \in StatementsOf(Versions) :
       /\ Statement(a)[1] # Statement(a)[2]
       /\ ~Fails(After({b \in StatementsOf(Versions) : Precedes(b, a)}), Statement(a))
       /\ \A b \in StatementsOf(Versions) :
            Statement(a)[2] # NoColumn /\ Drops(Statement(b), Statement(a)[2])
              => Precedes(a, b)

\* Migrations that are reverted can be reverted (the down() of add_towpilot and
\* of drop_old_columns does nothing).
ASSUME DownAssumption == "db:down" \in Commands =>
  \A a \in StatementsOf(Versions) :
    LET before == After({b \in StatementsOf(Versions) : Precedes(b, a)})
        after  == After({b \in StatementsOf(Versions) : ~Precedes(a, b)})
    IN  /\ ~Fails(after, Reversed(Statement(a)))
        /\ Alter(after, Reversed(Statement(a))) = before

ASSUME TablesAssumption ==
  /\ DOMAIN Tables \subseteq Nat
  /\ \A m, n \in DOMAIN Tables : Tables[m] = Tables[n] => m = n
  /\ \A p \in Programs : \A c \in CurrentSchema(p) :
       \E n \in DOMAIN Tables : Tables[n] = TableOf(c)

-----------------------------------------------------------------------------
MigratorTypeOK ==
  /\ exists \in BOOLEAN /\ table \in BOOLEAN
  /\ columns \subseteq AllColumns
  /\ recorded \subseteq Versions
  /\ doing \in [Programs -> {"off", "createDb", "tables", "version", "create",
                "clear", "load", "assume", "pending", "up", "table", "insert",
                "down", "remove", "ensure", "connected"}]
  /\ mode \in [Programs -> {"open", "check", "cli"}]
  /\ tables \in [Programs -> SUBSET DOMAIN Tables]
  /\ todo \in [Programs -> SUBSET Versions]
  /\ step \in [Programs -> Nat]
  /\ inUse \subseteq Programs
  /\ interrupts \in 0 .. MaxInterrupts /\ forced \in BOOLEAN
  /\ origin \in {"regular", "old", "mistaken"}
  /\ \A p \in Programs :
       \* a statement has its operand
       /\ doing[p] = "load" => tables[p] # {}
       /\ doing[p] \in {"up", "table", "insert", "down", "remove"} => todo[p] # {}
       /\ doing[p] \in {"up", "down"} => step[p] \in DOMAIN Steps[Min(todo[p])]
  \* what is recorded is recorded somewhere
  /\ recorded # {} => table
  /\ columns # {} \/ table => exists

MigratorInit ==
  /\ \/ /\ exists = FALSE /\ columns = {} /\ table = FALSE /\ recorded = {}
        /\ origin = "regular"
     \/ /\ StartOld /\ origin = "old"
        /\ exists = TRUE /\ columns = SchemaOf({Min(Versions)})
        /\ table = FALSE /\ recorded = {}
     \/ \E V \in StartVersions :
          /\ exists = TRUE /\ columns = SchemaOf(V)
          /\ table = TRUE /\ recorded = V /\ origin = "regular"
  /\ doing = [p \in Programs |-> "off"]
  /\ mode = [p \in Programs |-> "check"]
  /\ tables = [p \in Programs |-> {}]
  /\ todo = [p \in Programs |-> {}]
  /\ step = [p \in Programs |-> 1]
  /\ inUse \in (SUBSET Programs) \ {{}}
  /\ interrupts = 0 /\ forced = FALSE

-----------------------------------------------------------------------------
GoTo(p, where) == doing' = [doing EXCEPT ![p] = where]

\* an operation is over: the connection is checked, the command has ended
Conclude(p) == GoTo(p, IF mode[p] = "cli" THEN "off" ELSE "ensure")

(* DbManager: what has to be done *)

\* connectImpl, openInterface
Connect(p) ==
  /\ doing[p] = "off"
  /\ GoTo(p, IF exists THEN "tables" ELSE "createDb")
  /\ mode' = [mode EXCEPT ![p] = IF exists THEN "check" ELSE "open"]
  /\ UNCHANGED <<tables, todo, step>> /\ UNCHANGED <<database, history>>

\* createDatabase: CREATE DATABASE, without IF NOT EXISTS
CreateDatabase(p) ==
  /\ doing[p] = "createDb"
  /\ exists' = TRUE
  /\ GoTo(p, IF exists THEN "off" ELSE "create")
  /\ UNCHANGED <<columns, table, recorded, mode, tables, todo, step>> /\ UNCHANGED history

\* getRequiredAction: the first statement ...
ShowTables(p) ==
  /\ doing[p] = "tables"
  /\ GoTo(p, IF columns = {} THEN "create"
             ELSE IF ~table THEN "pending" ELSE "version")
  /\ UNCHANGED <<mode, tables, todo, step>> /\ UNCHANGED <<database, history>>

\* ... and the second.  The table without rows is taken for that of a load which
\* was canceled, but addMigration creates it as well, before the first row.
CurrentVersion(p) ==
  /\ doing[p] = "version"
  /\ GoTo(p, IF recorded = {} THEN "create"
             ELSE IF Max(recorded) = Max(Available[p]) THEN "connected"
             ELSE "pending")
  /\ origin' = IF origin = "old" /\ recorded = {} THEN "mistaken" ELSE origin
  /\ UNCHANGED <<mode, tables, todo, step>>
  /\ UNCHANGED <<database, inUse, interrupts, forced>>

\* ensureCurrent
EnsureCurrent(p) ==
  /\ doing[p] = "ensure"
  /\ GoTo(p, IF Pending(p) # {} THEN "off"
             ELSE IF mode[p] = "open" THEN "tables" ELSE "connected")
  /\ mode' = [mode EXCEPT ![p] = "check"]
  /\ UNCHANGED <<tables, todo, step>> /\ UNCHANGED <<database, history>>

-----------------------------------------------------------------------------
(* Migrator::loadSchema *)

\* (mutated: the table is left for the first migration to create)
LeaveMigrationsTable(p) ==
  /\ doing[p] = "create"
  /\ GoTo(p, "clear")
  /\ UNCHANGED <<mode, tables, todo, step>> /\ UNCHANGED <<database, history>>

CreateMigrationsTable(p) ==
  /\ doing[p] = "create"
  /\ table' = TRUE
  /\ GoTo(p, "clear")
  /\ UNCHANGED <<exists, columns, recorded, mode, tables, todo, step>> /\ UNCHANGED history

ClearMigrationsTable(p) ==
  /\ doing[p] = "clear"
  /\ recorded' = {}
  /\ tables' = [tables EXCEPT ![p] =
                {n \in DOMAIN Tables : HasTable(CurrentSchema(p), Tables[n])}]
  /\ GoTo(p, "load")
  /\ UNCHANGED <<exists, columns, table, mode, todo, step>> /\ UNCHANGED history

\* (mutated: without IF NOT EXISTS)
CreateTableOnce(p) ==
  /\ doing[p] = "load"
  /\ LET n == Min(tables[p])
     IN  IF HasTable(columns, Tables[n])
         THEN UNCHANGED <<columns, tables>> /\ GoTo(p, "off")
         ELSE /\ columns' = columns \cup
                   {c \in CurrentSchema(p) : TableOf(c) = Tables[n]}
              /\ tables' = [tables EXCEPT ![p] = @ \ {n}]
              /\ GoTo(p, IF tables[p] = {n} THEN "assume" ELSE "load")
  /\ UNCHANGED <<exists, table, recorded, mode, todo, step>> /\ UNCHANGED history

\* CurrentSchema::up: CREATE TABLE IF NOT EXISTS
CreateTable(p) ==
  /\ doing[p] = "load"
  /\ LET n == Min(tables[p])
     IN  /\ columns' = IF HasTable(columns, Tables[n]) THEN columns
                       ELSE columns \cup
                         {c \in CurrentSchema(p) : TableOf(c) = Tables[n]}
         /\ tables' = [tables EXCEPT ![p] = @ \ {n}]
         /\ GoTo(p, IF tables[p] = {n} THEN "assume" ELSE "load")
  /\ UNCHANGED <<exists, table, recorded, mode, todo, step>> /\ UNCHANGED history

\* one INSERT, which fails if one of the versions is there
AssumeMigrated(p) ==
  /\ doing[p] = "assume"
  /\ IF recorded \cap SchemaVersions[p] # {}
     THEN GoTo(p, "off") /\ UNCHANGED recorded
     ELSE Conclude(p) /\ recorded' = recorded \cup SchemaVersions[p]
  /\ UNCHANGED <<exists, columns, table, mode, tables, todo, step>> /\ UNCHANGED history

-----------------------------------------------------------------------------
(* Migrator::migrate, runMigration *)

PendingMigrations(p) ==
  /\ doing[p] = "pending"
  /\ todo' = [todo EXCEPT ![p] = Pending(p)]
  /\ step' = [step EXCEPT ![p] = 1]
  /\ IF Pending(p) = {} THEN Conclude(p) ELSE GoTo(p, "up")
  /\ UNCHANGED <<mode, tables>> /\ UNCHANGED <<database, history>>

\* a statement of Migration::up or down; after the last, go to what is next
Run(p, s, last, following, next) ==
  /\ IF Fails(columns, s)
     THEN GoTo(p, "off") /\ UNCHANGED <<columns, step>>
     ELSE /\ columns' = Alter(columns, s)
          /\ IF step[p] = last
             THEN GoTo(p, next) /\ UNCHANGED step
             ELSE step' = [step EXCEPT ![p] = following] /\ UNCHANGED doing
  /\ UNCHANGED <<exists, table, recorded, mode, tables, todo>> /\ UNCHANGED history

Up(p) ==
  /\ doing[p] = "up"
  /\ LET v == Min(todo[p])
     IN  Run(p, Steps[v][step[p]], Len(Steps[v]), step[p] + 1, "table")

\* (mutated: the table is not created)
UseMigrationsTable(p) ==
  /\ doing[p] = "table"
  /\ GoTo(p, "insert")
  /\ UNCHANGED <<mode, tables, todo, step>> /\ UNCHANGED <<database, history>>

\* addMigration: creates the table if necessary ...
AddMigrationsTable(p) ==
  /\ doing[p] = "table"
  /\ table' = TRUE
  /\ GoTo(p, "insert")
  /\ UNCHANGED <<exists, columns, recorded, mode, tables, todo, step>> /\ UNCHANGED history

\* (mutated: all pending migrations are recorded)
AddMigrations(p) ==
  /\ doing[p] = "insert"
  /\ recorded' = recorded \cup todo[p]
  /\ todo' = [todo EXCEPT ![p] = @ \ {Min(@)}]
  /\ step' = [step EXCEPT ![p] = 1]
  /\ IF todo[p] = {Min(todo[p])} THEN Conclude(p) ELSE GoTo(p, "up")
  /\ origin' = IF origin = "old" THEN "regular" ELSE origin
  /\ UNCHANGED <<exists, columns, table, mode, tables, inUse, interrupts, forced>>

\* ... and adds the version if it is not there
AddMigration(p) ==
  /\ doing[p] = "insert"
  /\ recorded' = recorded \cup {Min(todo[p])}
  /\ todo' = [todo EXCEPT ![p] = @ \ {Min(@)}]
  /\ step' = [step EXCEPT ![p] = 1]
  /\ IF todo[p] = {Min(todo[p])} THEN Conclude(p) ELSE GoTo(p, "up")
  /\ origin' = IF origin = "old" THEN "regular" ELSE origin
  /\ UNCHANGED <<exists, columns, table, mode, tables, inUse, interrupts, forced>>

Down(p) ==
  /\ doing[p] = "down"
  /\ LET v == Min(todo[p])
     IN  Run(p, Reversed(Steps[v][step[p]]), 1, step[p] - 1, "remove")

RemoveMigration(p) ==
  /\ doing[p] = "remove"
  /\ recorded' = recorded \ {Min(todo[p])}
  /\ GoTo(p, "off")
  /\ UNCHANGED <<exists, columns, table, mode, tables, todo, step>> /\ UNCHANGED history

-----------------------------------------------------------------------------
(* doStuff: the command line, which the developer uses alone *)

RunCommand(p, where, versions, first) ==
  /\ inUse = {p}
  /\ doing[p] = "off"
  /\ exists
  /\ GoTo(p, where)
  /\ mode' = [mode EXCEPT ![p] = "cli"]
  /\ todo' = [todo EXCEPT ![p] = versions]
  /\ step' = [step EXCEPT ![p] = first]
  /\ forced' = (forced \/ (where = "create" /\ columns # {})
                       \/ (where = "down" /\ interrupts > 0))
  /\ UNCHANGED <<tables, inUse, interrupts, origin>> /\ UNCHANGED database

Command(p) ==
  \/ "db:load" \in Commands /\ RunCommand(p, "create", {}, 1)
  \/ "db:migrate" \in Commands /\ RunCommand(p, "pending", {}, 1)
  \/ /\ "db:up" \in Commands
     /\ Pending(p) # {}
     /\ RunCommand(p, "up", {Min(Pending(p))}, 1)
  \/ /\ "db:down" \in Commands
     /\ recorded # {} /\ Max(recorded) \in Available[p]
     /\ RunCommand(p, "down", {Max(recorded)}, Len(Steps[Max(recorded)]))

\* canceled, declined, failed, or the program is terminated
Interrupt(p) ==
  /\ doing[p] \notin {"off", "connected"}
  /\ interrupts < MaxInterrupts
  /\ interrupts' = interrupts + 1
  /\ forced' = (forced \/ mode[p] = "cli")
  /\ GoTo(p, "off")
  /\ UNCHANGED <<mode, tables, todo, step, inUse, origin>> /\ UNCHANGED database

DisconnectInterface(p) ==
  /\ doing[p] = "connected"
  /\ GoTo(p, "off")
  /\ UNCHANGED <<mode, tables, todo, step>> /\ UNCHANGED <<database, history>>

-----------------------------------------------------------------------------
Work(p) ==
  \/ CreateDatabase(p) \/ ShowTables(p) \/ CurrentVersion(p) \/ EnsureCurrent(p)
  \/ CreateMigrationsTable(p) \/ ClearMigrationsTable(p) \/ CreateTable(p)
  \/ AssumeMigrated(p)
  \/ PendingMigrations(p) \/ Up(p) \/ AddMigrationsTable(p) \/ AddMigration(p)
  \/ Down(p) \/ RemoveMigration(p)

MigratorNext == \E p \in inUse :
          \/ Connect(p) \/ Command(p) \/ Work(p) \/ Interrupt(p)
          \/ DisconnectInterface(p)

MigratorSpec == MigratorInit /\ [][MigratorNext]_migratorVars

\* statements end, and the user connects again after a failure
MigratorFairSpec == MigratorSpec /\ \A p \in Programs :
  WF_migratorVars(p \in inUse /\ Work(p)) /\ SF_migratorVars(p \in inUse /\ Connect(p))

-----------------------------------------------------------------------------
(* Properties *)

AtRest == \A p \in Programs : doing[p] \in {"off", "connected"}

(* A deviation.  The table schema_migrations of a database from before the *)
(* migrations was created by addMigration (Migrator.cpp 350) and another    *)
(* program looked, or the first was interrupted, before the row was added:  *)
(* the schema is loaded on top of the old tables.                           *)
OldTakenForCanceled == origin = "mistaken"

(* A connected program finds every column it uses, whatever was interrupted *)
(* and whoever else is loading or migrating (DbManager.cpp 266-328), in a   *)
(* database that was loaded, that had some version, or that is from before  *)
(* the migrations, unless a command was interrupted or forced, or the       *)
(* deviation above has happened.                                            *)
ConnectedIsCurrent ==
  \A p \in Programs :
    doing[p] = "connected" /\ ~forced /\ ~OldTakenForCanceled
      => SchemaOf(Available[p]) \subseteq columns

(* A rename that was interrupted before its version was recorded.           *)
RenamedUnrecorded ==
  \E v \in Versions \ recorded : \E i \in DOMAIN Steps[v] :
    Renames(Steps[v][i]) /\ Steps[v][i][2] \in columns

(* A column is not there because a migration that is not recorded took it  *)
(* away; if it renamed the column, the new one is there, unless another     *)
(* migration takes that away again.                                         *)
RemovedUnrecorded(c) ==
  \E a \in StatementsOf(Versions \ recorded) :
    /\ Drops(Statement(a), c)
    /\ Renames(Statement(a)) /\ Kept(Statement(a)[2]) => Statement(a)[2] \in columns

(* Unless something was forced, the migrations recorded have been applied,  *)
(* wherever loading, migrating or another program's migrating was           *)
(* interrupted: an interrupted load is not taken for a database of some     *)
(* version (Migrator.cpp 134-139).  A database from before the migrations   *)
(* is distinguished from an interrupted load (Migrator.cpp 129-132) except  *)
(* in OldTakenForCanceled.  If only one program was used and not            *)
(* interrupted, the schema is that of the migrations recorded, up and down  *)
(* (databaseMigrations.txt 43-45).                                          *)
RecordedIsApplied ==
  AtRest /\ ~forced /\ ~OldTakenForCanceled /\ recorded # {} =>
    /\ \A c \in SchemaOf(recorded) \ columns : RemovedUnrecorded(c)
    /\ interrupts = 0 /\ Cardinality(inUse) = 1 => columns = SchemaOf(recorded)

(* A program gets connected in the end, however often loading or migrating  *)
(* was interrupted and whatever commands were used before, unless commands  *)
(* are used again and again; a rename that was interrupted cannot be        *)
(* repeated, and two programs that load at once may clear each other's      *)
(* record each time; migrating an old database with the schema loaded on    *)
(* top may fail each time.  That the schema of CurrentSchema is older than the    *)
(* newest migrations costs only another attempt (DbManager.cpp 266-328,     *)
(* Migrator.cpp 129-139).                                                   *)
GetsConnected ==
  \A p \in Programs :
    []<>(doing[p] = "connected" \/ forced \/ mode[p] = "cli"
         \/ RenamedUnrecorded \/ OldTakenForCanceled \/ inUse # {p})
=============================================================================
