------------------------ MODULE VitaBoundedBlockingQueue ------------------------
(***************************************************************************)
(* VitaBoundedBlockingQueue (mutex_tools/): producers wait on condNotFull,   *)
(* consumers on condNotEmpty, and each side notifies the other only when    *)
(* the size crosses a boundary: put when it becomes 1, take when it becomes  *)
(* capacity - 1.                                                            *)
(*                                                                         *)
(* The mutex is held from a test of the loop to the wait or the return, so   *)
(* each such stretch is one step.  A thread that wakes, by notifyAll or for  *)
(* no reason, competes for the mutex with the others and tests again.        *)
(***************************************************************************)
EXTENDS Integers, Sequences, Functions

CONSTANTS Producers, Consumers,
          Products,     \* one is in the queue or on its way at most once
          Capacities,   \* the arguments of the constructor, an int
          SizeModulus   \* 2^64: size_t is 64 bits wide

ASSUME QueueAssumption ==
    /\ Producers \cap Consumers = {}
    /\ Products # {} /\ SizeModulus \in Nat
    /\ Capacities \subseteq Int
    /\ \A n \in Capacities : -SizeModulus < n - 1 /\ n < SizeModulus

VARIABLES capacity,
          productsQueue,
          pc,      \* "notFull", "notEmpty": waiting on that condition
          val      \* what each producer puts

vars == <<capacity, productsQueue, pc, val>>

Threads == Producers \cup Consumers

\* size() is compared with an int, which is converted to size_t: a negative one
\* becomes huge.
AsSize(n) == IF n >= 0 THEN n ELSE n + SizeModulus

Free(v) == v \notin Range(productsQueue) /\ \A p \in Producers : pc[p] # "idle" => val[p] # v

TypeOK ==
    /\ capacity \in Capacities
    /\ productsQueue \in Seq(Products)
    /\ Len(productsQueue) <= AsSize(capacity)
    /\ pc \in [Threads -> {"idle", "put", "notFull", "take", "notEmpty"}]
    /\ \A p \in Producers : pc[p] \in {"idle", "put", "notFull"}
    /\ \A c \in Consumers : pc[c] \in {"idle", "take", "notEmpty"}
    /\ val \in [Producers -> Products]

Init ==
    /\ capacity \in Capacities
    /\ productsQueue = <<>>
    /\ pc = [t \in Threads |-> "idle"]
    /\ val = [p \in Producers |-> CHOOSE v \in Products : TRUE]  \* none yet

-----------------------------------------------------------------------------
\* Slip: notify where the code has notifyAll.
NotifyOne(t, to, cond, retry) ==
    LET waiting == {u \in Threads : pc[u] = cond}
    IN  IF waiting = {}
          THEN pc' = [pc EXCEPT ![t] = to]
          ELSE \E u \in waiting : pc' = [pc EXCEPT ![t] = to, ![u] = retry]

\* The thread's own step to `to` wakes every thread that waits on `cond`.
NotifyAll(t, to, cond, retry) ==
    pc' = [u \in Threads |-> IF u = t THEN to ELSE IF pc[u] = cond THEN retry ELSE pc[u]]

Move(t, to) == pc' = [pc EXCEPT ![t] = to]

Full == Len(productsQueue) >= AsSize(capacity)

StartPut(p, v) ==
    /\ pc[p] = "idle"
    /\ Free(v)
    /\ val' = [val EXCEPT ![p] = v]
    /\ Move(p, "put")
    /\ UNCHANGED <<capacity, productsQueue>>

\* Slip: the size is tested before the push.
PutTellsBefore(p) ==
    /\ pc[p] = "put"
    /\ ~Full
    /\ productsQueue' = Append(productsQueue, val[p])
    /\ IF Len(productsQueue) = 1 THEN NotifyAll(p, "idle", "notEmpty", "take")
                                 ELSE Move(p, "idle")
    /\ UNCHANGED <<capacity, val>>

Put(p) ==
    /\ pc[p] = "put"
    /\ ~Full
    /\ productsQueue' = Append(productsQueue, val[p])
    /\ IF Len(productsQueue') = 1 THEN NotifyAll(p, "idle", "notEmpty", "take")
                                  ELSE Move(p, "idle")
    /\ UNCHANGED <<capacity, val>>

WaitNotFull(p) ==
    /\ pc[p] = "put"
    /\ Full
    /\ Move(p, "notFull")
    /\ UNCHANGED <<capacity, productsQueue, val>>

StartTake(c) ==
    /\ pc[c] = "idle"
    /\ Move(c, "take")
    /\ UNCHANGED <<capacity, productsQueue, val>>

\* Slip: the producers are told while the queue is still full.
TakeTellsBefore(c) ==
    /\ pc[c] = "take"
    /\ productsQueue # <<>>
    /\ productsQueue' = Tail(productsQueue)
    /\ IF Len(productsQueue') = AsSize(capacity) THEN NotifyAll(c, "idle", "notFull", "put")
                                                 ELSE Move(c, "idle")
    /\ UNCHANGED <<capacity, val>>

Take(c) ==
    /\ pc[c] = "take"
    /\ productsQueue # <<>>
    /\ productsQueue' = Tail(productsQueue)
    /\ IF Len(productsQueue') = AsSize(capacity - 1)
         THEN NotifyAll(c, "idle", "notFull", "put")
         ELSE Move(c, "idle")
    /\ UNCHANGED <<capacity, val>>

WaitNotEmpty(c) ==
    /\ pc[c] = "take"
    /\ productsQueue = <<>>
    /\ Move(c, "notEmpty")
    /\ UNCHANGED <<capacity, productsQueue, val>>

SpuriousWakeup(t) ==
    /\ \/ pc[t] = "notFull" /\ Move(t, "put")
       \/ pc[t] = "notEmpty" /\ Move(t, "take")
    /\ UNCHANGED <<capacity, productsQueue, val>>

ProducerStep(p) == Put(p) \/ WaitNotFull(p)
ConsumerStep(c) == Take(c) \/ WaitNotEmpty(c)

Next ==
    \/ \E p \in Producers : ProducerStep(p) \/ \E v \in Products : StartPut(p, v)
    \/ \E c \in Consumers : ConsumerStep(c) \/ StartTake(c)
    \/ \E t \in Threads : SpuriousWakeup(t)

Spec == Init /\ [][Next]_vars

\* Every thread inside put or take is scheduled, and consumers take again and
\* again.  Nothing says which of several threads gets the mutex.
FairSpec ==
    /\ Spec
    /\ \A p \in Producers : WF_vars(ProducerStep(p))
    /\ \A c \in Consumers : WF_vars(ConsumerStep(c)) /\ WF_vars(StartTake(c))

-----------------------------------------------------------------------------
(* Properties *)

Waiting(cond) == {t \in Threads : pc[t] = cond}

\* Although put notifies at size 1 only and take at capacity - 1 only, no thread
\* is left waiting for what has come about: consumers wait on an empty queue and
\* producers on a full one, for any capacity, negative ones included.
NoStrandedWaiter ==
    /\ Waiting("notEmpty") # {} => productsQueue = <<>>
    /\ Waiting("notFull") # {} => Full

\* Producers and consumers do not wait for each other, but for a queue of
\* capacity 0, on which every put waits for ever.
NoDeadlock == Waiting("notEmpty") = {} \/ Waiting("notFull") = {} \/ capacity = 0

\* While consumers go on, a product that was put is taken, and producers that have
\* all found the queue full get on.  (A single one may lose the race for the free
\* place again and again.)
BothSidesProceed ==
    /\ \A v \in Products :
         v \in Range(productsQueue) ~> v \notin Range(productsQueue)
    /\ (capacity # 0 /\ \A p \in Producers : pc[p] = "notFull")
         ~> \E p \in Producers : pc[p] = "idle"
=============================================================================
