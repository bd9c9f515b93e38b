---------------------------- MODULE DbInterface -----------------------------
(***************************************************************************)
(* The connection to the database: ThreadSafeInterface, whose thread       *)
(* carries out the statements that other threads post to it one after the  *)
(* other, DefaultInterface, which opens and reopens the connection and     *)
(* retries statements, TcpProxy, which the connection passes through and   *)
(* which breaks it in order to cancel a statement, and, as far as they are *)
(* seen from there, the network and the MySQL server.                      *)
(*                                                                         *)
(* A client carries out one operation, a program of statements, with       *)
(* Database (src/src/db/Database.cpp) or DbManager.  All but the close are *)
(* executed by the thread of the DbWorker, an operation of Database in one *)
(* task and mergePeople statement by statement.  The writes of a client    *)
(* are only counted: those the server has stored for good and those of the *)
(* transaction that is open on the connection.                             *)
(*                                                                         *)
(* cancelConnection sets a flag and asks the proxy's thread to break the   *)
(* connection; that happens some time later, to whatever connection there  *)
(* is by then.                                                             *)
(***************************************************************************)
EXTENDS Naturals, Sequences, FiniteSets

CONSTANTS
  Clients,      \* operations that use the interface
  Piecewise,    \* those each of whose statements is a task of its own
  Keepalive,    \* the keepalive timer, as a client
  None,         \* no client
  Program,      \* the statements of each client's operation
  MaxMishaps,   \* bound on connections lost by the network, errors the
                \* server answers with, and keepalives together
  MaxCloses,    \* bound on close requests waiting for the proxy's thread
  MayCancel     \* whether the user presses Cancel

Statements == {"begin", "write", "commit", "close"}

\* the operations of Database and mergePeople are transactions
IsTransaction(p) == /\ p \in Seq(Statements \ {"close"})
                    /\ p # <<>> /\ p[1] = "begin" /\ p[Len(p)] = "commit"

ASSUME InterfaceAssumption ==
  /\ DOMAIN Program = Clients
  /\ \A c \in Clients : Program[c] = <<"close">> \/ IsTransaction(Program[c])
  /\ Piecewise \subseteq Clients
  /\ Keepalive \notin Clients /\ None \notin Clients \cup {Keepalive}
  /\ MaxMishaps \in Nat /\ MaxCloses \in Nat \ {0}
  /\ MayCancel \in BOOLEAN

VARIABLES
  pc,        \* the next statement of each client
  posted,    \* that statement is posted to the interface's thread
  outcome,   \* of each client's operation
  serving,   \* whose statement the interface's thread is carrying out
  at,        \* where it is
  isOpen,    \* ThreadSafeInterface::isOpen
  canceled,  \* DefaultInterface::canceled
  closes,    \* TcpProxy::sig_close emitted, slot_close not yet run
  link,      \* the connection of QSqlDatabase db, through the proxy
  inTx, pending, durable,         \* the server
  mishaps,       \* counter for the bound
  interrupted    \* history: the connection was lost inside c's transaction

clientVars == <<pc, posted, outcome>>
serverVars == <<inTx, pending, durable>>
vars == <<pc, posted, outcome, serving, at, isOpen, canceled, closes, link,
          inTx, pending, durable, mishaps, interrupted>>

Length(c)    == Len(Program[c])
Before(c, n) == Cardinality({i \in 1 .. n : Program[c][i] = "write"})
Writes(c)    == Before(c, Length(c))

\* bound: writes beyond one too many are not counted
Capped(c, n) == IF n > Writes(c) THEN Writes(c) + 1 ELSE n

TypeOK ==
  /\ pc \in [Clients -> Nat \ {0}]
  /\ posted \in [Clients -> BOOLEAN]
  /\ outcome \in [Clients -> {"running", "ok", "canceled", "failed"}]
  /\ serving \in Clients \cup {Keepalive, None}
  /\ at \in {"idle", "check", "open", "sleep", "exec", "executed"}
  /\ isOpen \in BOOLEAN /\ canceled \in BOOLEAN
  /\ closes \in 0 .. MaxCloses
  /\ link \in {"none", "connecting", "up", "dead"}
  /\ inTx \in BOOLEAN
  /\ \A c \in Clients : /\ pending[c] \in 0 .. Writes(c) + 1
                         /\ durable[c] \in 0 .. Writes(c) + 1
  /\ mishaps \in 0 .. MaxMishaps
  /\ interrupted \in [Clients -> BOOLEAN]
  \* the thread is idle exactly if it serves nobody, and serves who waits
  /\ (serving = None) = (at = "idle")
  /\ serving \in Clients => posted[serving]
  \* a transaction needs a connection
  /\ inTx => link = "up"
  /\ at = "open" => link # "up"

\* DbManager::openInterface has opened the connection
Init ==
  /\ pc = [c \in Clients |-> 1]
  /\ posted = [c \in Clients |-> FALSE]
  /\ outcome = [c \in Clients |-> "running"]
  /\ serving = None /\ at = "idle"
  /\ isOpen = TRUE /\ canceled = FALSE /\ closes = 0 /\ link = "up"
  /\ inTx = FALSE
  /\ pending = [c \in Clients |-> 0] /\ durable = [c \in Clients |-> 0]
  /\ mishaps = 0
  /\ interrupted = [c \in Clients |-> FALSE]

-----------------------------------------------------------------------------
(* The server's side of a connection *)

\* c is between its begin and its commit
Inside(c) == pc[c] > 1 /\ outcome[c] = "running"
               /\ Program[c][1] = "begin"

\* a connection that ends takes its transaction with it
Disconnect(newLink) ==
  /\ link' = newLink
  /\ inTx' = FALSE
  /\ pending' = [c \in Clients |-> 0]
  /\ interrupted' = [c \in Clients |->
       interrupted[c] \/ (link = "up" /\ (Inside(c) \/ serving = c))]
  /\ UNCHANGED durable

Commit == /\ durable' = [c \in Clients |-> Capped(c, durable[c] + pending[c])]
          /\ pending' = [c \in Clients |-> 0]

\* a BEGIN ends the transaction before it with a commit
Perform(c) ==
  LET stmt == IF c = Keepalive THEN "ping" ELSE Program[c][pc[c]]
  IN  \/ stmt = "ping" /\ UNCHANGED serverVars
      \/ stmt = "begin" /\ Commit /\ inTx' = TRUE
      \/ stmt = "commit" /\ Commit /\ inTx' = FALSE
      \/ /\ stmt = "write"
         /\ IF inTx THEN /\ pending' = [pending EXCEPT ![c] = Capped(c, @ + 1)]
                         /\ UNCHANGED durable
                    ELSE /\ durable' = [durable EXCEPT ![c] = Capped(c, @ + 1)]
                         /\ UNCHANGED pending
         /\ UNCHANGED inTx

-----------------------------------------------------------------------------
(* Clients: the front-end methods of ThreadSafeInterface *)

Request(n) == IF n < MaxCloses THEN n + 1 ELSE n

Closes(c) == Program[c][1] = "close"

\* the DbWorker is not in the middle of another task
WorkerFree(c) ==
  \A d \in Clients \ {c} :
    ~Closes(d) => ~posted[d] /\ (Inside(d) => d \in Piecewise)

\* emit sig_..., then wait.  close () cancels the connection first, because
\* the thread may be blocked in a keepalive.
Post(c) ==
  /\ outcome[c] = "running"
  /\ ~posted[c]
  /\ Closes(c) \/ WorkerFree(c)
  /\ posted' = [posted EXCEPT ![c] = TRUE]
  /\ IF Closes(c)
     THEN canceled' = TRUE /\ closes' = Request(closes)
     ELSE UNCHANGED <<canceled, closes>>
  /\ UNCHANGED <<pc, outcome, serving, at, isOpen, link, interrupted>>
  /\ UNCHANGED serverVars /\ UNCHANGED mishaps

\* cancelConnection, from the dialog that waits for a client's operation
Cancel ==
  /\ MayCancel
  /\ \E c \in Clients : posted[c] /\ ~Closes(c)
  /\ canceled' = TRUE
  /\ closes' = Request(closes)
  /\ UNCHANGED <<serving, at, isOpen, link, interrupted>>
  /\ UNCHANGED clientVars /\ UNCHANGED serverVars /\ UNCHANGED mishaps

\* TcpProxy::slot_close, in the proxy's thread
ProxyClose ==
  /\ closes > 0
  /\ closes' = closes - 1
  /\ IF link \in {"connecting", "up"}
     THEN Disconnect("dead")
     ELSE UNCHANGED <<link, interrupted>> /\ UNCHANGED serverVars
  /\ UNCHANGED <<serving, at, isOpen, canceled>>
  /\ UNCHANGED clientVars /\ UNCHANGED mishaps

-----------------------------------------------------------------------------
(* The interface's thread *)

\* the slot resets the canceled flag; the proxy may still have to close
Take(c) ==
  /\ at = "idle"
  /\ posted[c]
  /\ ~Closes(c)
  /\ serving' = c
  /\ at' = "check"
  /\ canceled' = FALSE
  /\ UNCHANGED <<isOpen, closes, link, interrupted>>
  /\ UNCHANGED clientVars /\ UNCHANGED serverVars /\ UNCHANGED mishaps

\* slot_close: db.close (), proxy->close ()
TakeClose(c) ==
  /\ at = "idle"
  /\ posted[c]
  /\ Closes(c)
  /\ isOpen' = FALSE
  /\ Disconnect("none")
  /\ closes' = Request(closes)
  /\ posted' = [posted EXCEPT ![c] = FALSE]
  /\ outcome' = [outcome EXCEPT ![c] = "ok"]
  /\ UNCHANGED <<pc, serving, at, canceled>> /\ UNCHANGED mishaps

\* keepaliveTimer_timeout, when no signal is waiting
TakeKeepalive ==
  /\ at = "idle"
  /\ isOpen
  /\ \A c \in Clients : ~posted[c]
  /\ mishaps < MaxMishaps
  /\ mishaps' = mishaps + 1
  /\ serving' = Keepalive
  /\ at' = "check"
  /\ canceled' = FALSE
  /\ UNCHANGED <<isOpen, closes, link, interrupted>>
  /\ UNCHANGED clientVars /\ UNCHANGED serverVars

\* (mutated: errors are not passed on)
FinishAnyway(result) ==
  /\ serving' = None
  /\ at' = "idle"
  /\ IF serving = Keepalive
     THEN UNCHANGED clientVars
     ELSE LET last == pc[serving] = Length(serving)
          IN  /\ posted' = [posted EXCEPT ![serving] = FALSE]
              /\ outcome' = [outcome EXCEPT ![serving] =
                               IF last THEN "ok" ELSE "running"]
              /\ pc' = IF last THEN pc ELSE [pc EXCEPT ![serving] = @ + 1]

\* the statement ends; keepalive () ignores how
Finish(result) ==
  /\ serving' = None
  /\ at' = "idle"
  /\ IF serving = Keepalive
     THEN UNCHANGED clientVars
     ELSE LET last == pc[serving] = Length(serving)
          IN  /\ posted' = [posted EXCEPT ![serving] = FALSE]
              /\ outcome' = [outcome EXCEPT ![serving] =
                               IF result # "ok" THEN result
                               ELSE IF last THEN "ok" ELSE "running"]
              /\ pc' = IF result = "ok" /\ ~last
                       THEN [pc EXCEPT ![serving] = @ + 1] ELSE pc

\* (mutated: opened for every statement)
OpenAlways ==
  /\ at = "check"
  /\ at' = "open"
  /\ UNCHANGED <<serving, isOpen, canceled, closes, link, interrupted>>
  /\ UNCHANGED clientVars /\ UNCHANGED serverVars /\ UNCHANGED mishaps

\* if (!db.isOpen ()) openImpl ();
CheckOpen ==
  /\ at = "check"
  /\ at' = IF link = "none" THEN "open" ELSE "exec"
  /\ UNCHANGED <<serving, isOpen, canceled, closes, link, interrupted>>
  /\ UNCHANGED clientVars /\ UNCHANGED serverVars /\ UNCHANGED mishaps

\* db.open () connects to the proxy, which accepts
OpenStarts ==
  /\ at = "open"
  /\ link = "none"
  /\ link' = "connecting"
  /\ UNCHANGED <<serving, at, isOpen, canceled, closes, interrupted>>
  /\ UNCHANGED clientVars /\ UNCHANGED serverVars /\ UNCHANGED mishaps

\* db.open () fails because the connection was lost: canceled or sleep (1)
OpenFails ==
  /\ at = "open"
  /\ link = "dead"
  /\ link' = "none"
  /\ IF canceled THEN Finish("canceled")
     ELSE at' = "sleep" /\ UNCHANGED serving /\ UNCHANGED clientVars
  /\ UNCHANGED <<isOpen, canceled, closes, interrupted>>
  /\ UNCHANGED serverVars /\ UNCHANGED mishaps

\* the sleep is over; the flag is looked at only after the next db.open ()
Retry ==
  /\ at = "sleep"
  /\ at' = "open"
  /\ UNCHANGED <<serving, isOpen, canceled, closes, link, interrupted>>
  /\ UNCHANGED clientVars /\ UNCHANGED serverVars /\ UNCHANGED mishaps

\* (mutated: the connection is not closed before the statement is retried)
RetryOpen ==
  /\ at \in {"exec", "executed"}
  /\ link = "dead"
  /\ IF canceled THEN Finish("canceled")
     ELSE at' = "check" /\ UNCHANGED serving /\ UNCHANGED clientVars
  /\ UNCHANGED <<isOpen, canceled, closes, link, interrupted>>
  /\ UNCHANGED serverVars /\ UNCHANGED mishaps

\* CR_SERVER_GONE_ERROR, CR_SERVER_LOST: canceled, or close () and try again
StatementLost ==
  /\ at \in {"exec", "executed"}
  /\ link = "dead"
  /\ IF canceled
     THEN Finish("canceled") /\ UNCHANGED <<link, closes>>
     ELSE /\ at' = "check"
          /\ link' = "none"
          /\ closes' = Request(closes)
          /\ UNCHANGED serving /\ UNCHANGED clientVars
  /\ UNCHANGED <<isOpen, canceled, interrupted>>
  /\ UNCHANGED serverVars /\ UNCHANGED mishaps

\* the answer arrives
Answered ==
  /\ at = "executed"
  /\ link = "up"
  /\ Finish("ok")
  /\ UNCHANGED <<isOpen, canceled, closes, link, interrupted>>
  /\ UNCHANGED serverVars /\ UNCHANGED mishaps

-----------------------------------------------------------------------------
(* Network and server *)

Accepts ==
  /\ at = "open"
  /\ link = "connecting"
  /\ link' = "up"
  /\ at' = "exec"
  /\ UNCHANGED <<serving, isOpen, canceled, closes, interrupted>>
  /\ UNCHANGED clientVars /\ UNCHANGED serverVars /\ UNCHANGED mishaps

Executes ==
  /\ at = "exec"
  /\ link = "up"
  /\ Perform(serving)
  /\ at' = "executed"
  /\ UNCHANGED <<serving, isOpen, canceled, closes, link, interrupted>>
  /\ UNCHANGED clientVars /\ UNCHANGED mishaps

\* an error that is not retried, from db.open () or from the statement
Refuses ==
  /\ serving \in Clients
  /\ mishaps < MaxMishaps
  /\ mishaps' = mishaps + 1
  /\ \/ at = "open" /\ link = "connecting" /\ link' = "none"
     \/ at = "exec" /\ link = "up" /\ UNCHANGED link
  /\ Finish(IF canceled THEN "canceled" ELSE "failed")
  /\ UNCHANGED <<isOpen, canceled, closes, interrupted>>
  /\ UNCHANGED serverVars

Drop ==
  /\ link \in {"connecting", "up"}
  /\ mishaps < MaxMishaps
  /\ mishaps' = mishaps + 1
  /\ Disconnect("dead")
  /\ UNCHANGED <<serving, at, isOpen, canceled, closes>>
  /\ UNCHANGED clientVars

-----------------------------------------------------------------------------
Thread == \/ \E c \in Clients : Take(c) \/ TakeClose(c)
          \/ CheckOpen \/ OpenStarts \/ OpenFails \/ Retry
          \/ StatementLost \/ Answered

Server == Accepts \/ Executes

Next == \/ \E c \in Clients : Post(c)
        \/ Cancel \/ ProxyClose \/ Thread \/ TakeKeepalive
        \/ Server \/ Refuses \/ Drop

Spec == Init /\ [][Next]_vars

\* the threads run, and an operation goes on as long as nothing fails
FairSpec == /\ Spec /\ WF_vars(Thread) /\ WF_vars(ProxyClose)
            /\ \A c \in Clients : WF_vars(Post(c))

\* The server answers what reaches it.  A retry asks the proxy to close the
\* old connection and opens a new one at once, which the proxy may close
\* instead; not every time, though.
ServerAnswers == WF_vars(Server) /\ SF_vars(ProxyClose /\ link = "none")

\* the user presses Cancel again and again as long as a dialog is open
UserCancels == WF_vars(Cancel)

-----------------------------------------------------------------------------
(* Properties *)

(* An operation that reports success was carried out, once (Database.cpp   *)
(* 3-6: only a forcefully canceled one may or may not be), unless the       *)
(* connection was lost between its BEGIN and the answer to its COMMIT: then *)
(* COMMIT is repeated alone on a new connection, where it succeeds.  So it  *)
(* is whatever keepalives, cancels and errors happen otherwise, and whoever *)
(* else's statements come in between.                                       *)
DoneUnlessInterrupted ==
  \A c \in Clients :
    outcome[c] = "ok" /\ ~interrupted[c] => durable[c] = Writes(c)

(* Every statement ends if the server answers, keepalives and reconnects in *)
(* between notwithstanding.  Whether it answers or not, every statement but *)
(* the disconnect ends if the user goes on pressing Cancel, and once is not *)
(* enough (DefaultInterface.cpp 36-39: "The use will have to cancel again   *)
(* in this case").                                                          *)
EveryStatementEnds ==
  /\ ServerAnswers => \A c \in Clients : posted[c] ~> ~posted[c]
  /\ UserCancels =>
       \A c \in Clients : ~Closes(c) => (posted[c] ~> ~posted[c])
=============================================================================
