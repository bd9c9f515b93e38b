------------------------------- MODULE Waiter -------------------------------
(***************************************************************************)
(* src/src/concurrent/Waiter.cpp: a one-way flag that lets other threads   *)
(* sleep until it is set.  A mutex covers the flag and a QWaitCondition    *)
(* the sleep; one step per critical point, so that the interleaving drawn  *)
(* in the comment of Waiter.cpp (6-25) would show.                         *)
(***************************************************************************)
EXTENDS Naturals

CONSTANTS Waiters,      \* threads that call wait()
          Notifiers,    \* threads that call notify()
          Free          \* the value of an unlocked mutex

ASSUME ThreadAssumption == /\ Waiters \cap Notifiers = {}
                           /\ Free \notin Waiters \cup Notifiers

VARIABLES
  mutex,      \* Waiter::mutex: its owner or Free
  flag,       \* Waiter::flag
  sleeping,   \* the threads asleep in waitCondition.wait
  pc          \* where each thread is

waiterVars == <<mutex, flag, sleeping, pc>>

Threads == Waiters \cup Notifiers

WaiterPoints   == {"start", "check", "asleep", "awake", "returned"}
NotifierPoints == {"start", "set", "wake", "unlock", "returned"}

WaiterTypeOK == /\ mutex \in Threads \cup {Free}
                /\ flag \in BOOLEAN
                /\ sleeping \subseteq Waiters
                /\ pc \in [Threads -> WaiterPoints \cup NotifierPoints]
                /\ \A t \in Waiters : pc[t] \in WaiterPoints
                /\ \A t \in Notifiers : pc[t] \in NotifierPoints

WaiterInit == /\ mutex = Free
              /\ flag = FALSE
              /\ sleeping = {}
              /\ pc = [t \in Threads |-> "start"]

Lock(t)   == mutex = Free /\ mutex' = t
Unlock(t) == mutex = t /\ mutex' = Free
Proceed(t, from, to) == pc[t] = from /\ pc' = [pc EXCEPT ![t] = to]

\* QMutexLocker at the head of wait()
WaitLock(t) == /\ Proceed(t, "start", "check")
               /\ Lock(t)
               /\ UNCHANGED <<flag, sleeping>>

\* if (flag) return;  the locker's destructor unlocks
WaitReturnAtOnce(t) == /\ flag
                       /\ Proceed(t, "check", "returned")
                       /\ Unlock(t)
                       /\ UNCHANGED <<flag, sleeping>>

\* (mutated: without the test of flag under the mutex)
WaitSleepUntested(t) == /\ Proceed(t, "check", "asleep")
                        /\ Unlock(t)
                        /\ sleeping' = sleeping \cup {t}
                        /\ UNCHANGED flag

\* waitCondition.wait (&mutex) goes to sleep and unlocks in one step
WaitSleep(t) == /\ ~flag
                /\ Proceed(t, "check", "asleep")
                /\ Unlock(t)
                /\ sleeping' = sleeping \cup {t}
                /\ UNCHANGED flag

\* (mutated: returns from the wait condition without having been woken)
WaitWakeEarly(t) == /\ Proceed(t, "asleep", "awake")
                    /\ Lock(t)
                    /\ sleeping' = sleeping \ {t}
                    /\ UNCHANGED flag

\* a woken thread takes the mutex back inside waitCondition.wait
WaitWake(t) == /\ t \notin sleeping
               /\ Proceed(t, "asleep", "awake")
               /\ Lock(t)
               /\ UNCHANGED <<flag, sleeping>>

WaitReturn(t) == /\ Proceed(t, "awake", "returned")
                 /\ Unlock(t)
                 /\ UNCHANGED <<flag, sleeping>>

NotifyLock(t) == /\ Proceed(t, "start", "set")
                 /\ Lock(t)
                 /\ UNCHANGED <<flag, sleeping>>

NotifySet(t) == /\ Proceed(t, "set", "wake")
                /\ flag' = TRUE
                /\ UNCHANGED <<mutex, sleeping>>

\* (mutated: wakeOne)
NotifyWakeOne(t) == /\ Proceed(t, "wake", "unlock")
                    /\ \/ sleeping = {} /\ UNCHANGED sleeping
                       \/ \E s \in sleeping : sleeping' = sleeping \ {s}
                    /\ UNCHANGED <<mutex, flag>>

NotifyWakeAll(t) == /\ Proceed(t, "wake", "unlock")
                    /\ sleeping' = {}
                    /\ UNCHANGED <<mutex, flag>>

\* (mutated: a notifier that waits for its own notification)
NotifyAndSleep(t) == /\ Proceed(t, "unlock", "asleep")
                     /\ Unlock(t)
                     /\ UNCHANGED <<flag, sleeping>>

NotifyUnlock(t) == /\ Proceed(t, "unlock", "returned")
                   /\ Unlock(t)
                   /\ UNCHANGED <<flag, sleeping>>

Waits(t)    == WaitLock(t) \/ WaitReturnAtOnce(t) \/ WaitSleep(t)
               \/ WaitWake(t) \/ WaitReturn(t)
Notifies(t) == NotifyLock(t) \/ NotifySet(t) \/ NotifyWakeAll(t)
               \/ NotifyUnlock(t)

WaiterNext == \/ \E t \in Waiters : Waits(t)
              \/ \E t \in Notifiers : Notifies(t)

WaiterSpec == WaiterInit /\ [][WaiterNext]_waiterVars

\* A thread that can take a step is scheduled.  Every thread takes the mutex
\* at most twice, so nobody is starved of it and weak fairness is enough.
WaiterFairSpec == /\ WaiterSpec
                  /\ \A t \in Waiters : WF_waiterVars(Waits(t))
                  /\ \A t \in Notifiers : WF_waiterVars(Notifies(t))

-----------------------------------------------------------------------------
(* No wakeup is lost (Waiter.cpp 6-25, 45-49): once the flag is set, a     *)
(* thread is asleep only while the notifier that has yet to wake it holds  *)
(* the mutex.                                                              *)
NoLostWakeup == flag /\ sleeping # {} =>
                  \E t \in Notifiers : mutex = t /\ pc[t] = "wake"

(* A thread returns from wait() only after notify() set the flag, and all  *)
(* of Waiter is the gate of module Gate.                                   *)
AsGate == INSTANCE Gate
             WITH open <- flag,
                  passed <- {t \in Waiters : pc[t] = "returned"}

ImplementsGate == AsGate!Spec

(* Every wait() returns once notify() has been entered by some thread      *)
(* (Waiter.cpp 36-38: waiting threads, and future calls, return).          *)
EveryWaitReturns ==
  \A t \in Waiters : (\E n \in Notifiers : pc[n] = "set") ~> pc[t] = "returned"
=============================================================================
