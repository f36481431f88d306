----------------------- MODULE VitaCountDownLatchProofs ------------------------
(***************************************************************************)
(* Proofs about VitaCountDownLatch, for any threads and any initial count:    *)
(* the notification misses nobody, and the latch implements Latch.            *)
(***************************************************************************)
EXTENDS VitaCountDownLatch, TLAPS

\* Only the thread that has the mutex is between its test and pthread_cond_wait, so
\* no countDown() comes in between: this is why nobody misses the notification.
HasMutex(t) == at[t] \in {"locked", "waits"}

MutualExclusion ==
    /\ \A t \in Callers : HasMutex(t) => mutex = t
    /\ \A m \in Counters : at[m] \notin {"waits", "asleep"}

IInv == LatchAssumption /\ TypeOK /\ MutualExclusion /\ NoSleeperBehind

USE DEF Callers

LEMMA InitIInv == LatchAssumption /\ Init => IInv
BY DEF LatchAssumption, Init, IInv, TypeOK, MutualExclusion, HasMutex, NoSleeperBehind

\* A step of one thread that leaves the count alone.
LEMMA WaiterKeeps ==
    ASSUME IInv, NEW t \in Waiters, WaiterStep(t) \/ SpuriousWakeup(t)
    PROVE  IInv'
<1> USE DEF LatchAssumption, IInv, TypeOK, MutualExclusion, HasMutex, NoSleeperBehind, Goes
<1>1. CASE Call(t)
    BY <1>1 DEF Call
<1>2. CASE Lock(t)
    BY <1>2 DEF Lock
<1>3. CASE MustWait(t)
    BY <1>3 DEF MustWait, Open
<1>4. CASE Sleep(t)
    BY <1>4 DEF Sleep, Unlock
<1>5. CASE Return(t)
    BY <1>5 DEF Return, Unlock
<1>6. CASE SpuriousWakeup(t)
    BY <1>6 DEF SpuriousWakeup
<1> QED
    BY <1>1, <1>2, <1>3, <1>4, <1>5, <1>6 DEF WaiterStep

LEMMA CounterKeeps ==
    ASSUME IInv, NEW m \in Counters, CounterStep(m)
    PROVE  IInv'
<1> USE DEF LatchAssumption, IInv, TypeOK, MutualExclusion, HasMutex, NoSleeperBehind, Goes
<1>1. CASE Call(m)
    BY <1>1 DEF Call
<1>2. CASE Lock(m)
    BY <1>2 DEF Lock
<1>3. CASE CountDown(m)
    <2>1. mutex = m /\ m \notin Waiters
        BY <1>3 DEF CountDown
    <2>2. CASE Opens
        BY <1>3, <2>1, <2>2 DEF CountDown, Opens, NotifyAll, Unlock
    <2>3. CASE ~Opens
        BY <1>3, <2>1, <2>3 DEF CountDown, Opens, Unlock
    <2> QED
        BY <2>2, <2>3
<1> QED
    BY <1>1, <1>2, <1>3 DEF CounterStep

LEMMA NextIInv == IInv /\ [Next]_vars => IInv'
<1> SUFFICES ASSUME IInv, [Next]_vars PROVE IInv'
    OBVIOUS
<1>1. CASE UNCHANGED vars
    BY <1>1 DEF vars, LatchAssumption, IInv, TypeOK, MutualExclusion, HasMutex, NoSleeperBehind
<1> QED
    BY <1>1, WaiterKeeps, CounterKeeps DEF Next

\* The mutex is held by one thread at a time, which is always known, and no counter
\* ever waits on the condition.
THEOREM Typing == LatchAssumption /\ Spec => [](TypeOK /\ MutualExclusion)
<1>1. IInv => TypeOK /\ MutualExclusion
    BY DEF IInv
<1> QED
    BY <1>1, InitIInv, NextIInv, PTL DEF Spec

\* VitaCountDownLatch.h:18-31: no thread sleeps in wait() once the count is down.
THEOREM NobodyLeftAsleep == LatchAssumption /\ Spec => []NoSleeperBehind
<1>1. IInv => NoSleeperBehind
    BY DEF IInv
<1> QED
    BY <1>1, InitIInv, NextIInv, PTL DEF Spec

-----------------------------------------------------------------------------
(* The refinement *)

\* A step maps to Enter, Leave, CountDown or a stutter.
LEMMA StepMaps == IInv /\ [Next]_vars => [Abstract!Next]_(Abstract!vars)
<1> USE DEF Abstract!Next, Abstract!vars, Abstract!Enter, Abstract!Leave,
            Abstract!CountDown
<1> SUFFICES ASSUME IInv, [Next]_vars PROVE [Abstract!Next]_(Abstract!vars)
    OBVIOUS
<1>1. CASE UNCHANGED vars
    BY <1>1 DEF vars
<1>2. ASSUME NEW t \in Waiters, WaiterStep(t) \/ SpuriousWakeup(t)
      PROVE  [Abstract!Next]_(Abstract!vars)
    <2> USE DEF IInv, TypeOK, Goes
    <2>1. CASE Call(t)
        BY <2>1 DEF Call
    <2>2. CASE Lock(t)
        BY <2>2 DEF Lock
    <2>3. CASE MustWait(t)
        BY <2>3 DEF MustWait
    <2>4. CASE Sleep(t)
        BY <2>4 DEF Sleep
    <2>5. CASE Return(t)
        BY <2>5 DEF Return, Open
    <2>6. CASE SpuriousWakeup(t)
        BY <2>6 DEF SpuriousWakeup
    <2> QED
        BY <1>2, <2>1, <2>2, <2>3, <2>4, <2>5, <2>6 DEF WaiterStep
<1>3. ASSUME NEW m \in Counters, CounterStep(m)
      PROVE  [Abstract!Next]_(Abstract!vars)
    <2> USE DEF LatchAssumption, IInv, TypeOK, Goes
    <2>1. CASE Call(m)
        BY <2>1 DEF Call
    <2>2. CASE Lock(m)
        BY <2>2 DEF Lock
    <2>3. CASE CountDown(m)
        BY <2>3 DEF CountDown, NotifyAll
    <2> QED
        BY <1>3, <2>1, <2>2, <2>3 DEF CounterStep
<1> QED
    BY <1>1, <1>2, <1>3 DEF Next

LEMMA InitMaps == Init => Abstract!Init
BY DEF Init, Abstract!Init

\* VitaCountDownLatch implements the latch it stands for, whatever happens between
\* lock, test, sleep, notification and spurious wakeup: nobody passes early.
THEOREM LatchImplemented == LatchAssumption /\ Spec => Abstract!Safety
BY InitIInv, NextIInv, InitMaps, StepMaps, PTL DEF Spec, Abstract!Safety
=============================================================================
