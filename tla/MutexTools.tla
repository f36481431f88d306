------------------------------ MODULE MutexTools -------------------------------
(***************************************************************************)
(* The tools of mutex_tools/ in one program, as md/mutex.md uses them:        *)
(* producers and consumers (06) who start at a command (03).  Every one of    *)
(* them waits for the latch first, and puts or takes afterwards; Starters     *)
(* count the latch down.                                                      *)
(***************************************************************************)
EXTENDS VitaBoundedBlockingQueue

CONSTANTS Starters, Counts, NoThread

VARIABLES count, mutex, at

StartLatch == INSTANCE VitaCountDownLatch WITH Waiters <- Threads, Counters <- Starters

ASSUME ToolsAssumption == StartLatch!LatchAssumption

latchVars == <<count, mutex, at>>
toolVars  == <<vars, latchVars>>

ToolsInit == Init /\ StartLatch!Init

\* A step of the queue is one of a thread that has passed the latch.
Passed(t) == at[t] = "after"

QueueStep ==
    /\ Next
    /\ \A t \in Threads : pc[t] = "idle" /\ pc'[t] # "idle" => Passed(t)
    /\ UNCHANGED latchVars

LatchStep == StartLatch!Next /\ UNCHANGED vars

ToolsNext == QueueStep \/ LatchStep

\* What a thread does next, by itself: everybody calls the latch, and a consumer
\* that has passed it takes again and again.
ProducerOn(p) == ProducerStep(p) /\ UNCHANGED latchVars
ConsumerOn(c) == (ConsumerStep(c) \/ (Passed(c) /\ StartTake(c))) /\ UNCHANGED latchVars
WaiterOn(t)   == StartLatch!WaiterStep(t) /\ UNCHANGED vars
StarterOn(m)  == StartLatch!CounterStep(m) /\ UNCHANGED vars

\* Every thread is scheduled; nothing says which of several gets a mutex.
ToolsSpec ==
    /\ ToolsInit /\ [][ToolsNext]_toolVars
    /\ \A p \in Producers : WF_toolVars(WaiterOn(p) \/ ProducerOn(p))
    /\ \A c \in Consumers : WF_toolVars(WaiterOn(c) \/ ConsumerOn(c))
    /\ \A m \in Starters : WF_toolVars(StarterOn(m))

-----------------------------------------------------------------------------
(* Properties *)

\* The start latch keeps its promises while the threads that have passed it
\* work on the queue.
NoSleeperBehind == StartLatch!NoSleeperBehind
ImplementsLatch == StartLatch!ImplementsLatch
=============================================================================
