---------------------------- MODULE MutexToolsProofs ----------------------------
(***************************************************************************)
(* Proofs about VitaBoundedBlockingQueue, for any threads and capacity: the   *)
(* size never passes the capacity, and notifying at the boundaries only      *)
(* loses no wakeup.  The theorems about the queue and the latch then hold in   *)
(* the program that uses both: each of its steps is a step of one tool that    *)
(* leaves the other alone.                                                    *)
(***************************************************************************)
EXTENDS MutexTools, TLAPS

-----------------------------------------------------------------------------
(* The queue *)

\* Each is needed for the other: that the queue is exactly full when producers
\* wait makes take pass capacity - 1.
IInv == TypeOK /\ NoStrandedWaiter

\* The conversion to size_t keeps the distance of capacity and capacity - 1, but
\* at 0.
LEMMA AsSizeBelow ==
    ASSUME NEW n \in Capacities, n # 0
    PROVE  AsSize(n - 1) = AsSize(n) - 1
BY QueueAssumption DEF AsSize

LEMMA AsSizeNat ==
    ASSUME NEW n \in Capacities
    PROVE  AsSize(n) \in Nat
BY QueueAssumption DEF AsSize

LEMMA InitIInv == Init => IInv
<1> SUFFICES ASSUME Init PROVE IInv
    OBVIOUS
<1>1. Len(productsQueue) <= AsSize(capacity)
    BY AsSizeNat DEF Init
<1>2. TypeOK
    <2>1. (CHOOSE v \in Products : TRUE) \in Products
        BY QueueAssumption
    <2> QED
        BY <1>1, <2>1, QueueAssumption DEF Init, TypeOK, Threads
<1>3. NoStrandedWaiter
    BY DEF Init, NoStrandedWaiter, Waiting
<1> QED
    BY <1>2, <1>3 DEF IInv

\* A push: the queue was not full, so no producer waits; consumers wait only if
\* it was empty, and then they are told.
LEMMA PutStep ==
    ASSUME IInv, NEW p \in Producers, Put(p)
    PROVE  IInv'
<1> USE DEF IInv
<1>0. /\ AsSize(capacity) \in Nat /\ Len(productsQueue) \in Nat
      /\ Len(productsQueue') = Len(productsQueue) + 1
      /\ productsQueue' \in Seq(Products) /\ capacity' = capacity
      /\ p \in Threads /\ val[p] \in Products
    BY AsSizeNat DEF TypeOK, Put, Threads
<1>1. Waiting("notFull") = {}
    BY DEF NoStrandedWaiter, Put
<1>2. Len(productsQueue') <= AsSize(capacity)'
    BY <1>0 DEF Put, Full, AsSize
<1>3. TypeOK'
    <2>1. /\ pc' \in [Threads -> {"idle", "put", "notFull", "take", "notEmpty"}]
          /\ \A u \in Threads : u # p =>
                 pc'[u] = pc[u] \/ (pc[u] = "notEmpty" /\ pc'[u] = "take")
          /\ pc'[p] = "idle"
        BY <1>0 DEF TypeOK, Put, NotifyAll, Move
    <2>2. \A q \in Producers : pc'[q] \in {"idle", "put", "notFull"}
        BY <2>1 DEF TypeOK, Threads
    <2>3. \A c \in Consumers : pc'[c] \in {"idle", "take", "notEmpty"}
        BY <2>1 DEF TypeOK, Threads
    <2> QED
        BY <1>0, <1>2, <2>1, <2>2, <2>3 DEF TypeOK, Put
<1>4. Waiting("notFull")' = {}
    BY <1>0, <1>1 DEF TypeOK, Waiting, Put, NotifyAll, Move
<1>5. Waiting("notEmpty")' = {}
    <2>1. CASE Len(productsQueue') = 1
        BY <1>0, <2>1 DEF Waiting, Put, NotifyAll
    <2>2. CASE Len(productsQueue') # 1
        <3>1. Waiting("notEmpty") = {}
            BY <1>0, <2>2 DEF NoStrandedWaiter
        <3> QED
            BY <1>0, <2>2, <3>1 DEF TypeOK, Waiting, Put, Move
    <2> QED
        BY <2>1, <2>2
<1> QED
    BY <1>3, <1>4, <1>5 DEF NoStrandedWaiter

\* A pop: the queue was not empty, so no consumer waits; if producers wait, it was
\* exactly full, so that the size is now capacity - 1 and they are told.
LEMMA TakeStep ==
    ASSUME IInv, NEW c \in Consumers, Take(c)
    PROVE  IInv'
<1> USE DEF IInv
<1>0. /\ AsSize(capacity) \in Nat /\ Len(productsQueue) \in Nat \ {0}
      /\ Len(productsQueue') = Len(productsQueue) - 1
      /\ productsQueue' \in Seq(Products) /\ capacity' = capacity
      /\ c \in Threads
    BY AsSizeNat DEF TypeOK, Take, Threads
<1>1. Waiting("notEmpty") = {}
    BY DEF NoStrandedWaiter, Take
<1>2. Len(productsQueue') <= AsSize(capacity)'
    BY <1>0 DEF TypeOK, AsSize
<1>3. TypeOK'
    <2>1. /\ pc' \in [Threads -> {"idle", "put", "notFull", "take", "notEmpty"}]
          /\ \A u \in Threads : u # c =>
                 pc'[u] = pc[u] \/ (pc[u] = "notFull" /\ pc'[u] = "put")
          /\ pc'[c] = "idle"
        BY <1>0 DEF TypeOK, Take, NotifyAll, Move
    <2>2. \A q \in Producers : pc'[q] \in {"idle", "put", "notFull"}
        BY <2>1 DEF TypeOK, Threads
    <2>3. \A d \in Consumers : pc'[d] \in {"idle", "take", "notEmpty"}
        BY <2>1 DEF TypeOK, Threads
    <2> QED
        BY <1>0, <1>2, <2>1, <2>2, <2>3 DEF TypeOK, Take
<1>4. Waiting("notEmpty")' = {}
    BY <1>0, <1>1 DEF TypeOK, Waiting, Take, NotifyAll, Move
<1>5. Waiting("notFull")' = {}
    <2>1. CASE Len(productsQueue') = AsSize(capacity - 1)
        BY <1>0, <2>1 DEF Waiting, Take, NotifyAll
    <2>2. CASE Len(productsQueue') # AsSize(capacity - 1)
        <3>1. capacity # 0
            BY <1>0 DEF TypeOK, AsSize
        <3>2. AsSize(capacity - 1) = AsSize(capacity) - 1
            BY <3>1, AsSizeBelow DEF TypeOK
        <3>3. ~Full
            BY <1>0, <2>2, <3>2 DEF TypeOK, Full
        <3>4. Waiting("notFull") = {}
            BY <3>3 DEF NoStrandedWaiter
        <3> QED
            BY <1>0, <2>2, <3>4 DEF TypeOK, Waiting, Take, Move
    <2> QED
        BY <2>1, <2>2
<1> QED
    BY <1>3, <1>4, <1>5 DEF NoStrandedWaiter

LEMMA NextIInv == IInv /\ [Next]_vars => IInv'
<1> SUFFICES ASSUME IInv, [Next]_vars PROVE IInv'
    OBVIOUS
<1> USE DEF IInv
<1>1. CASE \E p \in Producers : Put(p)
    BY <1>1, PutStep
<1>2. CASE \E c \in Consumers : Take(c)
    BY <1>2, TakeStep
<1>3. CASE \E p \in Producers : WaitNotFull(p)
    BY <1>3, QueueAssumption
       DEF TypeOK, NoStrandedWaiter, Waiting, WaitNotFull, Move, Full, AsSize, Threads
<1>4. CASE \E c \in Consumers : WaitNotEmpty(c)
    BY <1>4, QueueAssumption
       DEF TypeOK, NoStrandedWaiter, Waiting, WaitNotEmpty, Move, Full, AsSize, Threads
<1>5. CASE \E p \in Producers, v \in Products : StartPut(p, v)
    BY <1>5, QueueAssumption
       DEF TypeOK, NoStrandedWaiter, Waiting, StartPut, Move, Full, AsSize, Threads
<1>6. CASE \E c \in Consumers : StartTake(c)
    BY <1>6, QueueAssumption
       DEF TypeOK, NoStrandedWaiter, Waiting, StartTake, Move, Full, AsSize, Threads
<1>7. CASE \E t \in Threads : SpuriousWakeup(t)
    BY <1>7, QueueAssumption
       DEF TypeOK, NoStrandedWaiter, Waiting, SpuriousWakeup, Move, Full, AsSize, Threads
<1>8. CASE UNCHANGED vars
    BY <1>8 DEF TypeOK, NoStrandedWaiter, Waiting, Full, AsSize, vars
<1> QED
    BY <1>1, <1>2, <1>3, <1>4, <1>5, <1>6, <1>7, <1>8 DEF Next, ProducerStep, ConsumerStep

\* The queue never holds more than the capacity, as size_t reads it.
THEOREM Typing == Spec => []TypeOK
<1>1. IInv => TypeOK
    BY DEF IInv
<1> QED
    BY <1>1, InitIInv, NextIInv, PTL DEF Spec

\* notifyAll at size 1 and at capacity - 1 is enough: no thread waits on for a
\* condition that holds.
THEOREM NoLostNotify == Spec => []NoStrandedWaiter
<1>1. IInv => NoStrandedWaiter
    BY DEF IInv
<1> QED
    BY <1>1, InitIInv, NextIInv, PTL DEF Spec

\* Producers and consumers never wait for each other unless the capacity is 0.
THEOREM DeadlockFree == Spec => []NoDeadlock
<1>1. IInv => NoDeadlock
    <2> SUFFICES ASSUME IInv, Waiting("notEmpty") # {}, Waiting("notFull") # {}
                 PROVE  capacity = 0
        BY DEF NoDeadlock
    <2>1. Len(productsQueue) = 0 /\ Full
        BY DEF IInv, NoStrandedWaiter
    <2> QED
        BY <2>1, QueueAssumption DEF IInv, TypeOK, Full, AsSize
<1> QED
    BY <1>1, InitIInv, NextIInv, PTL DEF Spec

-----------------------------------------------------------------------------
(* The program that uses both tools *)

Latched == INSTANCE VitaCountDownLatchProofs WITH
    Waiters <- Threads, Counters <- Starters

LEMMA StepsOfTools == [ToolsNext]_toolVars => [Next]_vars /\ [StartLatch!Next]_latchVars
BY DEF ToolsNext, toolVars, QueueStep, LatchStep

\* StartLatch and Latched are one instance of VitaCountDownLatch.
LEMMA SameAssumption == Latched!LatchAssumption
BY ToolsAssumption DEF Latched!LatchAssumption, StartLatch!LatchAssumption

LEMMA SameInit == StartLatch!Init => Latched!Init
BY DEF StartLatch!Init, Latched!Init, StartLatch!Callers, Latched!Callers

LEMMA SameNext == [StartLatch!Next]_latchVars => [Latched!Next]_(Latched!vars)
<1> USE DEF StartLatch!Goes, Latched!Goes, StartLatch!Unlock, Latched!Unlock,
            StartLatch!Open, Latched!Open, StartLatch!Call, Latched!Call,
            StartLatch!Lock, Latched!Lock
<1>1. ASSUME NEW t \in Threads PROVE StartLatch!WaiterStep(t) => Latched!WaiterStep(t)
    BY DEF StartLatch!WaiterStep, Latched!WaiterStep, StartLatch!MustWait,
           Latched!MustWait, StartLatch!Sleep, Latched!Sleep, StartLatch!Return,
           Latched!Return
<1>2. ASSUME NEW t \in Threads PROVE StartLatch!SpuriousWakeup(t) => Latched!SpuriousWakeup(t)
    BY DEF StartLatch!SpuriousWakeup, Latched!SpuriousWakeup
<1>3. ASSUME NEW m \in Starters PROVE StartLatch!CounterStep(m) => Latched!CounterStep(m)
    BY DEF StartLatch!CounterStep, Latched!CounterStep, StartLatch!CountDown,
           Latched!CountDown, StartLatch!Opens, Latched!Opens, StartLatch!NotifyAll,
           Latched!NotifyAll, StartLatch!Callers, Latched!Callers
<1> QED
    BY <1>1, <1>2, <1>3 DEF StartLatch!Next, Latched!Next, latchVars, Latched!vars

\* In the whole program nobody sleeps at the queue for a condition that holds
\* (VitaBoundedBlockingQueue.h:22-48).
THEOREM NobodyStranded == ToolsSpec => []NoStrandedWaiter
<1>1. ToolsInit => Init
    BY DEF ToolsInit
<1> QED
    BY <1>1, StepsOfTools, NoLostNotify, PTL DEF ToolsSpec, Spec

\* Nor do producers and consumers all wait for each other, unless the capacity is 0.
THEOREM ToolsDeadlockFree == ToolsSpec => []NoDeadlock
<1>1. ToolsInit => Init
    BY DEF ToolsInit
<1> QED
    BY <1>1, StepsOfTools, DeadlockFree, PTL DEF ToolsSpec, Spec

\* Nobody sleeps at the latch once it is open, while others work on the queue
\* (VitaCountDownLatch.h:18-31).
THEOREM NobodyHeldBack == ToolsSpec => []NoSleeperBehind
<1>1. ToolsInit => Latched!Init
    BY SameInit DEF ToolsInit
<1>2. Latched!NoSleeperBehind => NoSleeperBehind
    BY DEF NoSleeperBehind, Latched!NoSleeperBehind, StartLatch!NoSleeperBehind
<1> QED
    BY <1>1, <1>2, StepsOfTools, SameNext, SameAssumption, Latched!NobodyLeftAsleep,
       PTL DEF ToolsSpec, Latched!Spec

\* Nor does anybody pass the start latch early: in the whole program it is the latch
\* of Latch.
THEOREM LatchKept == ToolsSpec => StartLatch!Abstract!Safety
<1>1. ToolsInit => Latched!Init
    BY SameInit DEF ToolsInit
<1>2. Latched!Abstract!Init => StartLatch!Abstract!Init
    BY DEF Latched!Abstract!Init, StartLatch!Abstract!Init
<1>3. [Latched!Abstract!Next]_(Latched!Abstract!vars)
        => [StartLatch!Abstract!Next]_(StartLatch!Abstract!vars)
    BY DEF Latched!Abstract!Next, StartLatch!Abstract!Next,
           Latched!Abstract!vars, StartLatch!Abstract!vars,
           Latched!Abstract!Enter, StartLatch!Abstract!Enter,
           Latched!Abstract!Leave, StartLatch!Abstract!Leave,
           Latched!Abstract!CountDown, StartLatch!Abstract!CountDown
<1> QED
    BY <1>1, <1>2, <1>3, StepsOfTools, SameNext, SameAssumption, Latched!LatchImplemented,
       PTL DEF ToolsSpec, Latched!Spec, Latched!Abstract!Safety, StartLatch!Abstract!Safety
================================================================================
