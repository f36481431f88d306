-------------------------- MODULE EventLoopThreadProofs --------------------------
(***************************************************************************)
(* Proofs about EventLoopThread, for any functors and channels: the two      *)
(* threads' handshake and end, and what the theorems about EventLoop say of   *)
(* a loop whose thread is started and destroyed under its caller.             *)
(***************************************************************************)
EXTENDS EventLoopThread, EventLoopProofs

USE EventLoopAssumption, OwnerAssumption
DEF flagVars, queueVars, dispatchVars, wakeVars, loopVars, eltVars

\* A wakeup() that comes after the EventLoop has been destroyed, and does not crash.
DeadWake ==
    /\ ~Alive
    /\ callerPc[Owner] = "wake"
    /\ callerPc' = [callerPc EXCEPT ![Owner] = "idle"]
    /\ UNCHANGED <<pc, queueVars, flagVars, dispatchVars, wakeupFd_>>

\* Every step of the program is a step of the loop, none of it, or a dead wakeup.
LEMMA LoopFrame == [ThreadNext]_allVars => [Next]_vars \/ DeadWake
<1> SUFFICES ASSUME [ThreadNext]_allVars PROVE [Next]_vars \/ DeadWake
  OBVIOUS
<1>0. Owner \in Callers
  OBVIOUS
<1>1. CASE ThreadStep
  BY <1>1 DEF ThreadStep, ConstructLoop, Publish, EnterLoop, InLoop, ClearLoop, Unlock,
              DestroyLoop, Next
<1>2. CASE UserStep
  BY <1>2 DEF UserStep, Next
<1>3. CASE InPoll
  BY <1>3 DEF InPoll, Next
<1>4. CASE OwnerStep
  BY <1>0, <1>4 DEF OwnerStep, CheckLoop, DestructorQuits, OwnerWakes, Join, Next, DeadWake
<1>5. CASE StartThread \/ SpuriousWakeup \/ Destroy
  BY <1>5 DEF StartThread, SpuriousWakeup, Destroy
<1>6. ASSUME NEW f \in Functors, OwnerQueues(f) PROVE [Next]_vars
  BY <1>0, <1>6 DEF OwnerQueues, Next
<1>7. CASE Arrival
  BY <1>7 DEF Arrival, Next
<1>8. CASE UNCHANGED allVars
  BY <1>8 DEF allVars
<1> QED
  BY <1>1, <1>2, <1>3, <1>4, <1>5, <1>6, <1>7, <1>8 DEF ThreadNext

-----------------------------------------------------------------------------
(* The invariant of the two threads *)

\* The destructor has at least begun quit().
Quitting == ownerPc \in {"wake", "join", "gone", "crashed"}

\* Nobody calls the loop before it exists.
UnbornIsQuiet ==
    /\ ownerPc = "new" => threadPc = "unborn"
    /\ threadPc = "unborn" => ownerPc \in {"new", "gone"}
    /\ threadPc \in {"unborn", "ctor"} => callerPc[Owner] = "idle"

\* If the loop's own code does not quit, only the destructor ends the loop, and as
\* long as the owner may use the loop loop_ holds its address.
EndedByOwner ==
    ~selfQuit =>
      /\ quit_ => Quitting
      /\ threadPc \in {"exit", "unlock", "unwind", "done"} => Quitting
      /\ ownerPc \in {"running", "quit"} => loop_

\* While the EventLoop is there, and before, no wakeup of it is lost.
Wakeful == threadPc # "done" => NoStrandedFunctor /\ QuitNotMissed

ThreadIInv ==
    ThreadTypeOK /\ UnbornIsQuiet /\ EndedByOwner /\ MembersOutliveThread /\ Wakeful

LEMMA ThreadIInvInitially == ThreadInit => ThreadIInv
<1> SUFFICES ASSUME ThreadInit PROVE ThreadIInv
  OBVIOUS
<1>1. ThreadTypeOK
  <2>1. TypeOK /\ pc = "idle"
    BY TypingInitially DEF ThreadInit, Init
  <2>2. loop_ = (threadPc \in {"start", "loop", "exit"})
    <3>1. (threadPc \in {"start", "loop", "exit"}) = FALSE
      BY DEF ThreadInit
    <3> QED
      BY <3>1, Zenon DEF ThreadInit
  <2> QED
    BY <2>1, <2>2 DEF ThreadInit, ThreadTypeOK, ThreadPC, OwnerPC
<1>2. UnbornIsQuiet /\ EndedByOwner /\ MembersOutliveThread
  BY DEF ThreadInit, Init, UnbornIsQuiet, EndedByOwner, MembersOutliveThread
<1> QED
  BY <1>1, <1>2, WakeupInitially DEF ThreadIInv, ThreadInit, Wakeful

LEMMA LoopTypes ==
  ASSUME ThreadTypeOK, [ThreadNext]_allVars PROVE TypeOK'
<1>1. CASE DeadWake
  BY <1>1 DEF DeadWake, ThreadTypeOK, TypeOK
<1> QED
  BY <1>1, LoopFrame, TypingStep DEF ThreadTypeOK

LEMMA WakefulStep ==
  ASSUME ThreadIInv, [ThreadNext]_allVars PROVE Wakeful'
<1> USE DEF ThreadIInv
<1>1. CASE DeadWake
  <2>1. threadPc = "done"
    BY <1>1 DEF DeadWake, Alive, UnbornIsQuiet
  <2>2. threadPc' = "done"
    BY <2>1 DEF ThreadNext, ThreadStep, ConstructLoop, Publish, EnterLoop, InLoop, ClearLoop,
        Unlock, DestroyLoop, UserStep, InPoll, OwnerStep, CheckLoop, DestructorQuits,
        OwnerWakes, Join, StartThread, SpuriousWakeup, OwnerQueues, Destroy, Arrival,
        allVars, UnbornIsQuiet
  <2> QED
    BY <2>2 DEF Wakeful
<1>2. CASE [Next]_vars
  <2>1. CASE threadPc = "done"
    <3>1. threadPc' = "done"
      BY <2>1 DEF ThreadNext, ThreadStep, ConstructLoop, Publish, EnterLoop, InLoop,
          ClearLoop, Unlock, DestroyLoop, UserStep, InPoll, OwnerStep, CheckLoop,
          DestructorQuits, OwnerWakes, Join, StartThread, SpuriousWakeup, OwnerQueues,
          Destroy, Arrival, allVars, UnbornIsQuiet
    <3> QED
      BY <3>1 DEF Wakeful
  <2>2. CASE threadPc # "done"
    BY <1>2, <2>2, WakeupStep DEF Wakeful, WakeupInvariant, ThreadTypeOK
  <2> QED
    BY <2>1, <2>2
<1> QED
  BY <1>1, <1>2, LoopFrame

\* The loop is left only through the test of quit_.
LEMMA LoopLeft ==
  ASSUME TypeOK, pc # "idle", LoopStep, pc' = "idle"
  PROVE  quit_
BY DEF LoopStep, CheckQuit, Poll, PollReturns, HandleRead, HandleEvent, EndHandler,
       DoPendingFunctors, RunFunctor, EndFunctor, EndPass, TypeOK

\* What the handshake sees of a step: everything but the loop's inside.
Handshake == ThreadTypeOK /\ UnbornIsQuiet /\ EndedByOwner /\ MembersOutliveThread

LEMMA HandshakeStep ==
  ASSUME Handshake, [ThreadNext]_allVars PROVE Handshake'
<1> USE DEF Handshake, ThreadTypeOK, UnbornIsQuiet, EndedByOwner, MembersOutliveThread,
            Quitting, ThreadPC, OwnerPC
<1>0. Owner \in Callers /\ TypeOK' /\ callerPc \in [Callers -> {"idle", "wake"}]
  BY LoopTypes DEF TypeOK
<1>1. CASE ConstructLoop
  BY <1>0, <1>1 DEF ConstructLoop, vars
<1>2. CASE Publish
  BY <1>0, <1>2 DEF Publish, vars
<1>3. CASE EnterLoop
  BY <1>0, <1>3 DEF EnterLoop, StartLoop
<1>4. CASE InLoop
  <2>1. LoopStep /\ pc # "idle" /\ UNCHANGED <<callerPc, quit_>>
    BY <1>4 DEF InLoop, LoopStep, CheckQuit, Poll, PollReturns, HandleRead, HandleEvent,
       EndHandler, DoPendingFunctors, RunFunctor, EndFunctor, EndPass
  <2>2. pc' = "idle" => quit_
    BY <2>1, LoopLeft
  <2>3. /\ threadPc = "loop" /\ threadPc' = IF pc' = "idle" THEN "exit" ELSE "loop"
        /\ UNCHANGED <<ownerPc, loop_, selfQuit>>
    BY <1>4 DEF InLoop
  <2>4. CASE pc' = "idle"
    BY <1>0, <2>1, <2>2, <2>3, <2>4
  <2>5. CASE pc' # "idle"
    BY <1>0, <2>1, <2>3, <2>5
  <2> QED
    BY <2>4, <2>5
<1>5. CASE ClearLoop
  <2>1. loop_' = (threadPc' \in {"start", "loop", "exit"})
    <3>1. (threadPc' \in {"start", "loop", "exit"}) = FALSE
      BY <1>5 DEF ClearLoop
    <3> QED
      BY <1>5, <3>1, Zenon DEF ClearLoop
  <2> QED
    BY <1>0, <1>5, <2>1 DEF ClearLoop, vars
<1>6. CASE Unlock
  BY <1>0, <1>6 DEF Unlock, vars
<1>7. CASE DestroyLoop
  BY <1>0, <1>7 DEF DestroyLoop, vars
<1>8. CASE UserStep
  <2>1. CASE \E f \in Functors : QueueFromLoop(f) /\ UNCHANGED selfQuit
    BY <1>0, <1>8, <2>1 DEF UserStep, QueueFromLoop
  <2>2. CASE QuitFromLoop /\ selfQuit' = TRUE
    BY <1>0, <1>8, <2>2 DEF UserStep, QuitFromLoop
  <2> QED
    BY <1>8, <2>1, <2>2 DEF UserStep
<1>9. CASE InPoll
  BY <1>0, <1>9 DEF InPoll, PollTimeout, PollReturns
<1>10. CASE CheckLoop
  BY <1>0, <1>10 DEF CheckLoop, vars
<1>11. CASE DestructorQuits
  BY <1>0, <1>11 DEF DestructorQuits, Quit, OweWakeup, vars
<1>12. CASE OwnerWakes
  BY <1>0, <1>12 DEF OwnerWakes, Wakeup, Alive
<1>13. CASE Join
  BY <1>0, <1>13 DEF Join, vars
<1>14. CASE StartThread
  BY <1>0, <1>14 DEF StartThread, vars
<1>15. CASE SpuriousWakeup
  BY <1>0, <1>15 DEF SpuriousWakeup, vars
<1>16. ASSUME NEW f \in Functors, OwnerQueues(f) PROVE Handshake'
  BY <1>0, <1>16 DEF OwnerQueues, QueueInLoop, OweWakeup, Alive
<1>17. CASE Destroy
  BY <1>0, <1>17 DEF Destroy, vars
<1>18. CASE Arrival
  BY <1>0, <1>18 DEF Arrival, IOReady
<1>19. CASE UNCHANGED allVars
  BY <1>0, <1>19 DEF allVars, vars
<1> QED
  BY <1>1, <1>2, <1>3, <1>4, <1>5, <1>6, <1>7, <1>8, <1>9, <1>10, <1>11, <1>12, <1>13,
     <1>14, <1>15, <1>16, <1>17, <1>18, <1>19 DEF ThreadNext, ThreadStep, OwnerStep

LEMMA ThreadInvariant == ThreadSpec => []ThreadIInv
<1>1. ThreadIInv /\ [ThreadNext]_allVars => ThreadIInv'
  BY HandshakeStep, WakefulStep DEF ThreadIInv, Handshake
<1> QED
  BY <1>1, ThreadIInvInitially, PTL DEF ThreadSpec

-----------------------------------------------------------------------------
(* Theorems *)

\* Thread, loop and loop_ are in step: loop_ is set exactly while the loop may be used.
THEOREM ThreadTyping == ThreadSpec => []ThreadTypeOK
<1>1. ThreadIInv => ThreadTypeOK
  BY DEF ThreadIInv
<1> QED
  BY <1>1, ThreadInvariant, PTL

\* ~EventLoopThread gives back the mutex, the condition and loop_ only when threadFunc
\* has done with them, unless the loop's own code has quit it.
THEOREM MembersKept == ThreadSpec => []MembersOutliveThread
<1>1. ThreadIInv => MembersOutliveThread
  BY DEF ThreadIInv
<1> QED
  BY <1>1, ThreadInvariant, PTL

\* startLoop returns a loop that has been constructed and whose callback has returned.
THEOREM ReadyLoopReturned == ThreadSpec => StartLoopReturnsReadyLoop
<1>1. ThreadIInv /\ [ThreadNext]_allVars
        => [ownerPc = "check" /\ ownerPc' = "running"
              => threadPc \notin {"unborn", "ctor", "callback"}]_allVars
  <2> SUFFICES ASSUME ThreadIInv, ThreadNext, ownerPc = "check", ownerPc' = "running"
               PROVE  threadPc \notin {"unborn", "ctor", "callback"}
    OBVIOUS
  <2>1. loop_
    BY DEF ThreadNext, ThreadStep, ConstructLoop, Publish, EnterLoop, InLoop, ClearLoop,
       Unlock, DestroyLoop, UserStep, InPoll, OwnerStep, CheckLoop, DestructorQuits,
       OwnerWakes, Join, StartThread, SpuriousWakeup, OwnerQueues, Destroy, Arrival
  <2> QED
    BY <2>1 DEF ThreadIInv, ThreadTypeOK
<1> QED
  BY <1>1, ThreadInvariant, PTL DEF ThreadSpec, StartLoopReturnsReadyLoop

\* The loop of a thread loses no wakeup either, as long as it exists: a wakeup that
\* comes too late was owed to nobody.
THEOREM ThreadLosesNoWakeup == ThreadSpec => [](Alive => NoStrandedFunctor /\ QuitNotMissed)
<1>1. ThreadIInv => (Alive => NoStrandedFunctor /\ QuitNotMissed)
  BY DEF ThreadIInv, Wakeful, Alive
<1> QED
  BY <1>1, ThreadInvariant, PTL

\* And it is a task queue, from before its thread is born until after its end.
THEOREM ThreadImplementsTaskQueue == ThreadSpec => ImplementsTaskQueue
<1>1. ThreadInit => TQ!Init
  BY EmptyQueueInitially DEF ThreadInit
<1>2. TypeOK /\ TypeOK' /\ [ThreadNext]_allVars => [TQ!Next]_(TQ!vars)
  <2>1. DeadWake => UNCHANGED TQ!vars
    BY DEF DeadWake, TQ!vars
  <2> QED
    BY <2>1, LoopFrame, QueueSteps
<1>3. ThreadIInv => TypeOK
  BY DEF ThreadIInv, ThreadTypeOK
<1> QED
  BY <1>1, <1>2, <1>3, ThreadInvariant, PTL DEF ThreadSpec, ImplementsTaskQueue, TQ!Safety
=============================================================================
