-------------------------- MODULE VitaCountDownLatch ---------------------------
(***************************************************************************)
(* VitaCountDownLatch (mutex_tools/) on its VitaMutex and VitaCondition, at   *)
(* the grain of their operations: the lock guard's constructor, the test of  *)
(* the loop, pthread_cond_wait (which gives up the mutex and sleeps in one    *)
(* step, and takes the mutex again when it has been woken), the return.       *)
(*                                                                         *)
(* Each of Waiters calls wait() once and each of Counters countDown() once,   *)
(* at any time.  The count may start and end below zero.                      *)
(***************************************************************************)
EXTENDS Integers

CONSTANTS Waiters, Counters,
          Counts,      \* the arguments of the constructor
          NoThread     \* holds the mutex when no thread does

\* What a program that uses a latch brings with it (MutexTools assumes it).
LatchAssumption ==
    /\ Waiters \cap Counters = {}
    /\ NoThread \notin Waiters \cup Counters
    /\ Counts \subseteq Int

VARIABLES count,
          mutex,       \* the thread that has locked it
          at           \* where each thread is: "lock" is blocked in lock(), "waits"
                       \* about to wait on the condition, "asleep" waiting on it

vars == <<count, mutex, at>>

Callers == Waiters \cup Counters

TypeOK ==
    /\ count \in Int
    /\ mutex \in Callers \cup {NoThread}
    /\ at \in [Callers -> {"before", "lock", "locked", "waits", "asleep", "after"}]

Init ==
    /\ count \in Counts
    /\ mutex = NoThread
    /\ at = [t \in Callers |-> "before"]

-----------------------------------------------------------------------------
Goes(t, from, to) == at[t] = from /\ at' = [at EXCEPT ![t] = to]

\* wait() and countDown() begin by locking.
Call(t) ==
    /\ Goes(t, "before", "lock")
    /\ UNCHANGED <<count, mutex>>

\* Slip: a lock that lets everybody in.
LockAlways(t) ==
    /\ Goes(t, "lock", "locked")
    /\ mutex' = t
    /\ UNCHANGED count

Lock(t) ==
    /\ Goes(t, "lock", "locked")
    /\ mutex = NoThread /\ mutex' = t
    /\ UNCHANGED count

Unlock == mutex' = NoThread

\* Slip: the loop ends one countDown() early.
OpenAtOne == count <= 1

\* The condition of the loop in wait().
Open == count <= 0

MustWait(t) ==
    /\ ~Open
    /\ Goes(t, "locked", "waits")
    /\ UNCHANGED <<count, mutex>>

Sleep(t) ==
    /\ Goes(t, "waits", "asleep")
    /\ Unlock
    /\ UNCHANGED count

Return(t) ==
    /\ Open
    /\ Goes(t, "locked", "after")
    /\ Unlock
    /\ UNCHANGED count

SpuriousWakeup(t) ==
    /\ Goes(t, "asleep", "lock")
    /\ UNCHANGED <<count, mutex>>

\* The step of m to `to` wakes every thread that waits on the condition.
NotifyAll(m, to) ==
    at' = [t \in Callers |-> IF t = m THEN to ELSE IF at[t] = "asleep" THEN "lock" ELSE at[t]]

\* Slip: the count is tested before it is decremented.
OpensBefore == count <= 0

Opens == count' <= 0

CountDown(m) ==
    /\ at[m] = "locked"
    /\ count' = count - 1
    /\ IF Opens THEN NotifyAll(m, "after") ELSE Goes(m, "locked", "after")
    /\ Unlock

-----------------------------------------------------------------------------
WaiterStep(t) == Call(t) \/ Lock(t) \/ MustWait(t) \/ Sleep(t) \/ Return(t)
CounterStep(m) == Call(m) \/ Lock(m) \/ CountDown(m)

Next ==
    \/ \E t \in Waiters : WaiterStep(t) \/ SpuriousWakeup(t)
    \/ \E m \in Counters : CounterStep(m)

Spec == Init /\ [][Next]_vars

-----------------------------------------------------------------------------
(* Properties *)

\* No thread sleeps in wait(), or is about to, once the count is down, whatever
\* the order of locks, sleeps and notifications.
NoSleeperBehind == \A t \in Waiters : at[t] \in {"waits", "asleep"} => count > 0

\* The latch lets nobody pass early and holds nobody back: mutex, condition and
\* spurious wakeups do not show.
Abstract == INSTANCE Latch WITH
    inside <- {t \in Waiters : at[t] \in {"lock", "locked", "waits", "asleep"}}

ImplementsLatch == Abstract!Spec
=============================================================================
