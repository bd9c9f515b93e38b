----------------------------- MODULE WorkerCall -----------------------------
(***************************************************************************)
(* How the GUI thread has a worker thread carry out an operation and waits *)
(* for its end: the functions of DbManager (src/src/db/DbManager.cpp) with *)
(* the slots of DbWorker, CacheWorker and InterfaceWorker, the Returner    *)
(* (src/src/concurrent/Returner.h), the reference-counted interface of the *)
(* OperationMonitor (src/src/concurrent/monitor) and the MonitorDialog     *)
(* (src/src/gui/windows/MonitorDialog.cpp).                                *)
(*                                                                         *)
(* The Returner and the monitor live on the GUI thread's stack, so a call  *)
(* that has returned has destroyed them.  While a dialog runs its event    *)
(* loop, a Flarm event or a timer can start another call on top of it.     *)
(* The Waiter inside the Returner is the gate of module Gate.              *)
(***************************************************************************)
EXTENDS Naturals, Sequences

CONSTANTS
  Calls,        \* one member per call of a DbManager function
  TempCalls,    \* those whose slot is returnVoidOrException (returner,
                \*   f (monitor->interface ())): the interface is a temporary.
                \*   The other slots hold it in a local variable
  MaxNesting,   \* calls the GUI thread may have open at once
  MaxProgress   \* progress()/status() calls of one operation

ASSUME CallAssumption == /\ TempCalls \subseteq Calls
                         /\ MaxNesting \in Nat \ {0}
                         /\ MaxProgress \in Nat

VARIABLES
  stack,      \* the open calls of the GUI thread, the innermost last
  caller,     \* where the GUI thread is in each call
  accepts,    \* calls whose queued ended() -> accept() waits in the GUI queue
  refs,       \* OperationMonitorInterface::refCount of each monitor
  hasEnded,   \* SignalOperationMonitor::hasEnded
  canceled,   \* OperationMonitor::canceled
  notified,   \* Waiter::flag of each Returner
  result,     \* what the Returner holds
  queue,      \* calls posted to the worker thread
  worker,     \* where the worker is, in which call
  progress    \* progress points the worker's operation has passed

guiVars    == <<stack, caller, accepts>>
sharedVars == <<refs, hasEnded, canceled, notified, result>>
workerVars == <<queue, worker, progress>>
vars       == <<stack, caller, accepts, refs, hasEnded, canceled, notified,
                result, queue, worker, progress>>

Outcomes  == {"value", "exception", "canceled"}
NoOutcome == "none"
Idle      == [at |-> "idle"]
Top       == stack[Len(stack)]

CallerPoints == {"unused", "posted", "connected", "exec", "accepted", "wait",
                 "blocked", "returned", "thrown"}
WorkerPoints == {"work", "nested", "store", "notify", "drop", "ended", "emit"}
Over         == {"returned", "thrown"}

\* the Returner and the monitor of c exist
Alive(c) == caller[c] \notin Over \cup {"unused"}

TypeOK ==
  /\ stack \in Seq(Calls)
  /\ caller \in [Calls -> CallerPoints]
  /\ accepts \subseteq Calls
  /\ refs \in [Calls -> 1..3]      \* master, the slot's, a suboperation's
  /\ hasEnded \in [Calls -> BOOLEAN]
  /\ canceled \in [Calls -> BOOLEAN]
  /\ notified \in [Calls -> BOOLEAN]
  /\ result \in [Calls -> Outcomes \cup {NoOutcome}]
  /\ queue \in Seq(Calls)
  /\ worker \in {Idle} \cup [at : WorkerPoints, call : Calls, out : Outcomes]
  /\ progress \in 0..MaxProgress

Init ==
  /\ stack = <<>>
  /\ caller = [c \in Calls |-> "unused"]
  /\ accepts = {}
  /\ refs = [c \in Calls |-> 1]            \* OperationMonitor::theInterface
  /\ hasEnded = [c \in Calls |-> FALSE]
  /\ canceled = [c \in Calls |-> FALSE]
  /\ notified = [c \in Calls |-> FALSE]
  /\ result = [c \in Calls |-> NoOutcome]
  /\ queue = <<>>
  /\ worker = Idle
  /\ progress = 0

-----------------------------------------------------------------------------
(* The GUI thread *)

InEventLoop == stack # <<>> => caller[Top] \in {"exec", "accepted"}

GuiGoto(from, to) == /\ stack # <<>>
                     /\ caller[Top] = from
                     /\ caller' = [caller EXCEPT ![Top] = to]

\* a DbManager function declares its Returner and monitor, and the worker's
\* front-end method posts the operation
Begin(c) ==
  /\ caller[c] = "unused"
  /\ InEventLoop
  /\ Len(stack) < MaxNesting
  /\ stack' = Append(stack, c)
  /\ caller' = [caller EXCEPT ![c] = "posted"]
  /\ queue' = Append(queue, c)
  /\ UNCHANGED <<accepts, worker, progress>> /\ UNCHANGED sharedVars

\* MonitorDialog::MonitorDialog connects ended() to accept()
Connect == /\ GuiGoto("posted", "connected")
           /\ UNCHANGED <<stack, accepts>>
           /\ UNCHANGED sharedVars /\ UNCHANGED workerVars

\* (mutated: without the test of getEnded)
CheckNothing == /\ GuiGoto("connected", "exec")
                /\ UNCHANGED <<stack, accepts>>
                /\ UNCHANGED sharedVars /\ UNCHANGED workerVars

\* if (monitor.getEnded ()) return;  the dialog goes, and with it its events
CheckEnded == /\ GuiGoto("connected", IF hasEnded[Top] THEN "wait" ELSE "exec")
              /\ accepts' = IF hasEnded[Top] THEN accepts \ {Top} ELSE accepts
              /\ UNCHANGED stack
              /\ UNCHANGED sharedVars /\ UNCHANGED workerVars

\* the event loop delivers an accept() to its dialog, whichever is innermost
Accept(c) == /\ InEventLoop
             /\ c \in accepts
             /\ caller[c] = "exec"
             /\ caller' = [caller EXCEPT ![c] = "accepted"]
             /\ accepts' = accepts \ {c}
             /\ UNCHANGED stack
             /\ UNCHANGED sharedVars /\ UNCHANGED workerVars

\* exec() returns once the loops on top of it have
LeaveDialog == /\ GuiGoto("accepted", "wait")
               /\ UNCHANGED <<stack, accepts>>
               /\ UNCHANGED sharedVars /\ UNCHANGED workerVars

\* MonitorDialog::reject, from the innermost (modal) dialog
Cancel == /\ stack # <<>>
          /\ caller[Top] = "exec"
          /\ canceled' = [canceled EXCEPT ![Top] = TRUE]
          /\ UNCHANGED <<refs, hasEnded, notified, result>>
          /\ UNCHANGED guiVars /\ UNCHANGED workerVars

\* waitAndRethrow: the call gives its result and its frame is gone
Deliver(from) == /\ GuiGoto(from, IF result[Top] = "value"
                                  THEN "returned" ELSE "thrown")
                 /\ notified[Top]
                 /\ stack' = SubSeq(stack, 1, Len(stack) - 1)

\* (mutated: the call returns without waiting for the Returner)
ReturnAtOnce == /\ GuiGoto("wait", "returned")
                /\ stack' = SubSeq(stack, 1, Len(stack) - 1)
                /\ UNCHANGED accepts
                /\ UNCHANGED sharedVars /\ UNCHANGED workerVars

WaitForResult == /\ \/ Deliver("wait")
                    \/ /\ GuiGoto("wait", "blocked")
                       /\ ~notified[Top]
                       /\ UNCHANGED stack
                 /\ UNCHANGED accepts
                 /\ UNCHANGED sharedVars /\ UNCHANGED workerVars

WakeUp == /\ Deliver("blocked")
          /\ UNCHANGED accepts
          /\ UNCHANGED sharedVars /\ UNCHANGED workerVars

Gui == \/ \E c \in Calls : Accept(c)
       \/ Connect \/ CheckEnded \/ LeaveDialog \/ WaitForResult \/ WakeUp

-----------------------------------------------------------------------------
(* The worker thread *)

Busy(at)  == worker # Idle /\ worker.at = at
Goto(at)  == worker' = [worker EXCEPT !.at = at]

\* the interface is destroyed before, not after, the Returner is notified
EndsFirst(c) == c \in TempCalls

Finish(c) == IF EndsFirst(c) THEN "drop" ELSE "store"

\* the slot runs and takes a copy of the monitor's interface
Take == /\ worker = Idle
        /\ queue # <<>>
        /\ queue' = Tail(queue)
        /\ worker' = [at |-> "work", call |-> Head(queue), out |-> "value"]
        /\ refs' = [refs EXCEPT ![Head(queue)] = @ + 1]
        /\ progress' = 0
        /\ UNCHANGED <<hasEnded, canceled, notified, result>>
        /\ UNCHANGED guiVars

\* OperationMonitorInterface::progress: throws if canceled; otherwise the
\* operation goes on, handing a copy of the interface to a suboperation
Progress == /\ Busy("work")
            /\ progress < MaxProgress
            /\ progress' = progress + 1
            /\ IF canceled[worker.call]
               THEN /\ worker' = [worker EXCEPT !.at = Finish(worker.call),
                                                !.out = "canceled"]
                    /\ UNCHANGED refs
               ELSE /\ Goto("nested")
                    /\ refs' = [refs EXCEPT ![worker.call] = @ + 1]
            /\ UNCHANGED <<queue, hasEnded, canceled, notified, result>>
            /\ UNCHANGED guiVars

\* the operation returns, or throws something of its own
Complete(o) == /\ Busy("work")
               /\ o # "canceled"
               /\ worker' = [worker EXCEPT !.at = Finish(worker.call),
                                           !.out = o]
               /\ UNCHANGED <<queue, progress>>
               /\ UNCHANGED sharedVars /\ UNCHANGED guiVars

\* (mutated: a copy handed to a suboperation is never released)
LeakInterface == /\ worker # Idle /\ worker.at \in {"nested", "drop"}
                 /\ refs' = IF worker.at = "nested" THEN refs
                            ELSE [refs EXCEPT ![worker.call] = @ - 1]
                 /\ Goto(IF refs'[worker.call] = 1 THEN "ended" ELSE "work")
                 /\ UNCHANGED <<queue, progress>>
                 /\ UNCHANGED <<hasEnded, canceled, notified, result>>
                 /\ UNCHANGED guiVars

\* OperationMonitorInterface::~OperationMonitorInterface, up to the branch
DropInterface == /\ worker # Idle /\ worker.at \in {"nested", "drop"}
                 /\ refs' = [refs EXCEPT ![worker.call] = @ - 1]
                 /\ Goto(IF refs'[worker.call] = 1 THEN "ended" ELSE "work")
                 /\ UNCHANGED <<queue, progress>>
                 /\ UNCHANGED <<hasEnded, canceled, notified, result>>
                 /\ UNCHANGED guiVars

\* SignalOperationMonitor::setEnded, first line
SetEnded == /\ Busy("ended")
            /\ hasEnded' = [hasEnded EXCEPT ![worker.call] = TRUE]
            /\ Goto("emit")
            /\ UNCHANGED <<queue, progress, refs, canceled, notified, result>>
            /\ UNCHANGED guiVars

\* emit ended (): posts accept() if a dialog is connected
EmitEnded == /\ Busy("emit")
             /\ accepts' = IF caller[worker.call] \in {"connected", "exec"}
                           THEN accepts \cup {worker.call} ELSE accepts
             /\ IF EndsFirst(worker.call) THEN Goto("store")
                                             ELSE worker' = Idle
             /\ UNCHANGED <<stack, caller, queue, progress>>
             /\ UNCHANGED sharedVars

\* (mutated: the waiting thread is notified before the result is stored)
NotifyUnstored == /\ Busy("store")
                  /\ notified' = [notified EXCEPT ![worker.call] = TRUE]
                  /\ Goto("notify")
                  /\ UNCHANGED <<queue, progress, refs, hasEnded, canceled, result>>
                  /\ UNCHANGED guiVars

\* returnValue or exception, up to waiter.notify ()
Store == /\ Busy("store")
         /\ result' = [result EXCEPT ![worker.call] = worker.out]
         /\ Goto("notify")
         /\ UNCHANGED <<queue, progress, refs, hasEnded, canceled, notified>>
         /\ UNCHANGED guiVars

Notify == /\ Busy("notify")
          /\ notified' = [notified EXCEPT ![worker.call] = TRUE]
          /\ IF EndsFirst(worker.call) THEN worker' = Idle
                                          ELSE Goto("drop")
          /\ UNCHANGED <<queue, progress, refs, hasEnded, canceled, result>>
          /\ UNCHANGED guiVars

Worker == \/ Take \/ Progress \/ DropInterface
          \/ SetEnded \/ EmitEnded \/ Store \/ Notify
          \/ \E o \in Outcomes : Complete(o)

Next == Gui \/ Worker \/ Cancel \/ \E c \in Calls : Begin(c)

Spec == Init /\ [][Next]_vars

\* Both threads are scheduled.  The user need not do anything.
FairSpec == Spec /\ WF_vars(Gui) /\ WF_vars(Worker)

-----------------------------------------------------------------------------
(* Properties *)

\* the points at which the worker goes on to use the monitor, the Returner
UsesMonitor  == {"work", "nested", "drop", "ended", "emit"}
UsesReturner == {"store", "notify"}

(* The worker never writes to a Returner whose frame is gone, nor uses a   *)
(* monitor whose frame is gone where the interface is a temporary, because *)
(* the end is then signalled before the Returner lets the caller go        *)
(* (worker.txt: "must not destroy the returner and the monitor until the   *)
(* operation has finished").  Where the interface is a local variable the  *)
(* worker may still be about to emit ended () when the monitor is          *)
(* destroyed (the README says how).                                        *)
StackOutlivesUse ==
  worker # Idle /\ (\/ worker.at \in UsesReturner
                    \/ worker.at \in UsesMonitor /\ worker.call \in TempCalls)
    => Alive(worker.call)

(* A call gives exactly what its one execution gave (Returner.h 91-115).   *)
Promise == INSTANCE BlockingCall
  WITH phase <- [c \in Calls |->
         IF caller[c] \in Over \cup {"unused"} THEN caller[c]
         ELSE IF notified[c] THEN "finished" ELSE "running"],
       outcome <- [c \in Calls |-> IF notified[c] THEN result[c]
                                                  ELSE NoOutcome]

ImplementsBlockingCall == Promise!Spec

(* Every call returns or throws, dialog, nested calls and all.             *)
EveryCallEnds == \A c \in Calls : caller[c] = "posted" ~> caller[c] \in Over
=============================================================================
