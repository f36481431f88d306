---------------------------- MODULE EventLoopProofs ----------------------------
(***************************************************************************)
(* Theorems about EventLoop, for any sets of functors, threads and channels *)
(* and queues of any length.                                                *)
(***************************************************************************)
EXTENDS EventLoop, SequenceTheorems, TLAPS

USE EventLoopAssumption DEF flagVars, queueVars, dispatchVars, wakeVars

\* Every step keeps the types.
LEMMA TypingStep == TypeOK /\ [Next]_vars => TypeOK'
<1> SUFFICES ASSUME TypeOK, [Next]_vars PROVE TypeOK'
  OBVIOUS
<1> USE DEF TypeOK, PC
<1>1. ASSUME NEW t \in Callers, NEW f \in Functors, QueueInLoop(t, f)
      PROVE TypeOK'
  BY <1>1 DEF QueueInLoop, OweWakeup
<1>2. ASSUME NEW t \in Callers, Quit(t) PROVE TypeOK'
  BY <1>2 DEF Quit, OweWakeup
<1>3. ASSUME NEW t \in Callers, Wakeup(t) PROVE TypeOK'
  BY <1>3 DEF Wakeup
<1>4. ASSUME NEW f \in Functors, QueueFromLoop(f) PROVE TypeOK'
  BY <1>4 DEF QueueFromLoop
<1>5. CASE QuitFromLoop BY <1>5 DEF QuitFromLoop
<1>6. CASE StartLoop BY <1>6 DEF StartLoop
<1>7. CASE CheckQuit BY <1>7 DEF CheckQuit
<1>8. CASE Poll BY <1>8 DEF Poll, PollReturns, Signalled
<1>9. CASE PollTimeout BY <1>9 DEF PollTimeout, PollReturns, Signalled
<1>10. CASE HandleRead BY <1>10 DEF HandleRead
<1>11. ASSUME NEW c \in Channels, HandleEvent(c) PROVE TypeOK'
  BY <1>11 DEF HandleEvent
<1>12. CASE EndHandler BY <1>12 DEF EndHandler
<1>13. CASE DoPendingFunctors BY <1>13 DEF DoPendingFunctors
<1>14. CASE RunFunctor
  <2>1. Head(functors) \in Functors /\ Tail(functors) \in Seq(Functors)
    BY <1>14 DEF RunFunctor
  <2> QED BY <1>14, <2>1 DEF RunFunctor
<1>15. CASE EndFunctor BY <1>15 DEF EndFunctor
<1>16. CASE EndPass BY <1>16 DEF EndPass
<1>17. ASSUME NEW c \in Channels, IOReady(c) PROVE TypeOK'
  BY <1>17 DEF IOReady
<1>18. CASE UNCHANGED vars BY <1>18 DEF vars
<1> QED
  BY <1>1, <1>2, <1>3, <1>4, <1>5, <1>6, <1>7, <1>8, <1>9, <1>10, <1>11,
     <1>12, <1>13, <1>14, <1>15, <1>16, <1>17, <1>18 DEF Next, LoopStep

LEMMA TypingInitially == Init => TypeOK
<1> SUFFICES ASSUME Init PROVE TypeOK
  OBVIOUS
<1>1. /\ pendingFunctors_ \in Seq(Functors)
      /\ functors \in Seq(Functors)
  BY DEF Init
<1>2. callerPc \in [Callers -> {"idle", "wake"}]
  BY DEF Init
<1>3. quit_ \in BOOLEAN /\ callingPendingFunctors_ \in BOOLEAN /\ wakeupFd_ \in BOOLEAN
  BY DEF Init
<1>4. callingPendingFunctors_ <=> pc \in {"drain", "functor"}
  BY DEF Init
<1> QED BY <1>1, <1>2, <1>3, <1>4 DEF Init, TypeOK, PC

\* The type invariant: callingPendingFunctors_ is up exactly in
\* doPendingFunctors, the local batch and the active list are empty outside
\* their phases, and user code executes only where the loop calls it.
THEOREM Typing == Spec => []TypeOK
BY TypingInitially, TypingStep, PTL DEF Spec

-----------------------------------------------------------------------------
(* Sequences *)

\* What is appended is all that a longer queue adds.
LEMMA RangeOfAppend ==
  ASSUME NEW S, NEW s \in Seq(S), NEW e \in S
  PROVE  Range(Append(s, e)) = Range(s) \cup {e}
<1> DEFINE a == Append(s, e)
<1>1. /\ DOMAIN s = 1..Len(s)
      /\ DOMAIN a = 1..(Len(s) + 1)
      /\ a[Len(s) + 1] = e
      /\ \A i \in 1..Len(s) : a[i] = s[i]
      /\ Len(s) \in Nat
  OBVIOUS
<1>2. \A i \in DOMAIN a : a[i] \in Range(s) \cup {e}
  BY <1>1 DEF Range
<1>3. \A i \in DOMAIN s : s[i] \in Range(a)
  BY <1>1 DEF Range
<1>4. e \in Range(a)
  BY <1>1 DEF Range
<1> QED BY <1>2, <1>3, <1>4 DEF Range

\* The head of a queue made of two parts is the head of the first part.
LEMMA HeadTailOfConcat ==
  ASSUME NEW S, NEW s \in Seq(S), NEW u \in Seq(S), s # <<>>
  PROVE  /\ s \o u # <<>>
         /\ Head(s \o u) = Head(s)
         /\ Tail(s \o u) = Tail(s) \o u
OBVIOUS

\* Appending to the second part appends to the whole.
LEMMA AppendToConcat ==
  ASSUME NEW S, NEW s \in Seq(S), NEW u \in Seq(S), NEW e \in S
  PROVE  s \o Append(u, e) = Append(s \o u, e)
OBVIOUS

\* An empty part disappears.
LEMMA EmptyConcat ==
  ASSUME NEW S, NEW s \in Seq(S)
  PROVE  s \o <<>> = s /\ <<>> \o s = s
OBVIOUS
-----------------------------------------------------------------------------
(* No wakeup is lost *)

\* Both wakeup invariants are inductive with the types: a pass ends with the
\* queue swapped away, and whatever is appended after that comes with a wakeup
\* that only a dispatch can consume, which leads to the next pass.
WakeupInvariant == TypeOK /\ NoStrandedFunctor /\ QuitNotMissed

LEMMA WakeupInitially == Init => NoStrandedFunctor /\ QuitNotMissed
<1> SUFFICES ASSUME Init PROVE NoStrandedFunctor /\ QuitNotMissed
  OBVIOUS
<1>1. Range(pendingFunctors_) = {}
  BY DEF Init, Range
<1> QED BY <1>1 DEF Init, NoStrandedFunctor, QuitNotMissed

\* The thread that owes a wakeup keeps the invariant until it has paid.
LEMMA WakeupStep ==
  ASSUME WakeupInvariant, [Next]_vars
  PROVE  NoStrandedFunctor' /\ QuitNotMissed'
<1> USE DEF WakeupInvariant
<1> DEFINE Good == NoStrandedFunctor /\ QuitNotMissed
<1>1. ASSUME NEW t \in Callers, NEW f \in Functors, QueueInLoop(t, f)
      PROVE  Good'
  <2>1. WakeupPending'
    BY <1>1 DEF QueueInLoop, OweWakeup, WakeupPending, TypeOK
  <2> QED BY <2>1 DEF NoStrandedFunctor, QuitNotMissed
<1>2. ASSUME NEW t \in Callers, Quit(t) PROVE Good'
  <2>1. WakeupPending'
    BY <1>2 DEF Quit, OweWakeup, WakeupPending, TypeOK
  <2> QED BY <2>1 DEF NoStrandedFunctor, QuitNotMissed
<1>3. ASSUME NEW t \in Callers, Wakeup(t) PROVE Good'
  <2>1. WakeupPending'
    BY <1>3 DEF Wakeup, WakeupPending
  <2> QED BY <2>1 DEF NoStrandedFunctor, QuitNotMissed
<1>4. ASSUME NEW f \in Functors, QueueFromLoop(f) PROVE Good'
  <2>1. QuitNotMissed'
    BY <1>4 DEF QueueFromLoop, UserCode, QuitNotMissed
  <2>2. CASE pc = "idle"
    <3>1. /\ Range(pendingFunctors_') = Range(pendingFunctors_) \cup {f}
          /\ early' = early \cup {f}
      BY <1>4, <2>2, RangeOfAppend DEF QueueFromLoop, TypeOK
    <3>2. WakeupPending => WakeupPending'
      BY <1>4 DEF QueueFromLoop, WakeupPending
    <3> QED BY <1>4, <2>1, <2>2, <3>1, <3>2 DEF QueueFromLoop, NoStrandedFunctor
  <2>3. CASE pc = "handler"
    BY <1>4, <2>1, <2>3 DEF QueueFromLoop, NoStrandedFunctor
  <2>4. CASE pc = "functor"
    <3>1. WakeupPending'
      BY <1>4, <2>4 DEF QueueFromLoop, WakeupPending, TypeOK
    <3> QED BY <2>1, <3>1 DEF NoStrandedFunctor
  <2> QED BY <1>4, <2>2, <2>3, <2>4 DEF QueueFromLoop, UserCode
<1>5. CASE QuitFromLoop
  BY <1>5 DEF QuitFromLoop, UserCode, NoStrandedFunctor, QuitNotMissed, WakeupPending
<1>6. CASE StartLoop
  BY <1>6 DEF StartLoop, NoStrandedFunctor, QuitNotMissed, WakeupPending
<1>7. CASE CheckQuit
  BY <1>7 DEF CheckQuit, NoStrandedFunctor, QuitNotMissed, WakeupPending
<1>8. CASE PollReturns
  BY <1>8 DEF PollReturns, NoStrandedFunctor, QuitNotMissed
<1>9. CASE HandleRead
  BY <1>9 DEF HandleRead, NoStrandedFunctor, QuitNotMissed
<1>10. ASSUME NEW c \in Channels, HandleEvent(c) PROVE Good'
  BY <1>10 DEF HandleEvent, NoStrandedFunctor, QuitNotMissed
<1>11. CASE EndHandler
  BY <1>11 DEF EndHandler, NoStrandedFunctor, QuitNotMissed
<1>12. CASE DoPendingFunctors
  <2>1. Range(pendingFunctors_') = {}
    BY <1>12 DEF DoPendingFunctors, Range
  <2> QED BY <1>12, <2>1 DEF DoPendingFunctors, NoStrandedFunctor, QuitNotMissed
<1>13. CASE RunFunctor
  BY <1>13 DEF RunFunctor, NoStrandedFunctor, QuitNotMissed, WakeupPending
<1>14. CASE EndFunctor
  BY <1>14 DEF EndFunctor, NoStrandedFunctor, QuitNotMissed, WakeupPending
<1>15. CASE EndPass
  BY <1>15 DEF EndPass, NoStrandedFunctor, QuitNotMissed, WakeupPending
<1>16. ASSUME NEW c \in Channels, IOReady(c) PROVE Good'
  BY <1>16 DEF IOReady, NoStrandedFunctor, QuitNotMissed, WakeupPending
<1>17. CASE UNCHANGED vars
  BY <1>17 DEF vars, NoStrandedFunctor, QuitNotMissed, WakeupPending
<1> QED
  BY <1>1, <1>2, <1>3, <1>4, <1>5, <1>6, <1>7, <1>8, <1>9, <1>10, <1>11, <1>12,
     <1>13, <1>14, <1>15, <1>16, <1>17 DEF Next, LoopStep, Poll, PollTimeout

\* queueInLoop loses no wakeup, whatever the number of threads that call it and
\* wherever the loop is when they do (EventLoop.cc, queueInLoop and
\* doPendingFunctors).
THEOREM NoWakeupLost == Spec => []NoStrandedFunctor
<1>1. Init => NoStrandedFunctor /\ QuitNotMissed
  BY WakeupInitially
<1>2. TypeOK /\ NoStrandedFunctor /\ QuitNotMissed /\ [Next]_vars
        => NoStrandedFunctor' /\ QuitNotMissed'
  BY WakeupStep DEF WakeupInvariant
<1> QED BY <1>1, <1>2, Typing, PTL DEF Spec

\* epoll_wait never sleeps on a quit() of another thread (EventLoop.cc, quit).
THEOREM QuitWakesLoop == Spec => []QuitNotMissed
<1>1. Init => NoStrandedFunctor /\ QuitNotMissed
  BY WakeupInitially
<1>2. TypeOK /\ NoStrandedFunctor /\ QuitNotMissed /\ [Next]_vars
        => NoStrandedFunctor' /\ QuitNotMissed'
  BY WakeupStep DEF WakeupInvariant
<1> QED BY <1>1, <1>2, Typing, PTL DEF Spec

-----------------------------------------------------------------------------
(* The loop implements the task queue *)

LEMMA QueueSteps ==
  ASSUME TypeOK, TypeOK', [Next]_vars
  PROVE  [TQ!Next]_(TQ!vars)
<1> USE DEF TQ!Next, TQ!vars
<1> DEFINE queue == functors \o pendingFunctors_
<1>1. ASSUME NEW f \in Functors, Queueable(f), UNCHANGED <<pc, functors, current>>,
             pendingFunctors_' = Append(pendingFunctors_, f)
      PROVE  TQ!Submit(f)
  <2>1. queue' = Append(queue, f)
    BY <1>1, AppendToConcat DEF TypeOK
  <2> QED BY <1>1, <2>1 DEF Queueable, TQ!Submit, Range, TQ!Range
<1>2. ASSUME NEW t \in Callers, NEW f \in Functors, QueueInLoop(t, f)
      PROVE  TQ!Submit(f)
  BY <1>1, <1>2 DEF QueueInLoop
<1>3. ASSUME NEW f \in Functors, QueueFromLoop(f) PROVE TQ!Submit(f)
  BY <1>1, <1>3 DEF QueueFromLoop
<1>4. CASE RunFunctor
  <2>1. queue # <<>> /\ current' = Head(queue) /\ queue' = Tail(queue)
    BY SMTT(30), <1>4, HeadTailOfConcat DEF RunFunctor, TypeOK
  <2>2. TQ!Execute
    BY <1>4, <2>1 DEF RunFunctor, TQ!Execute
  <2> QED BY <2>2
<1>5. CASE EndFunctor
  <2>1. TQ!Finish
    BY <1>5 DEF EndFunctor, TQ!Finish, TypeOK
  <2> QED BY <2>1
<1>6. CASE StartLoop
  BY <1>6 DEF StartLoop, TQ!Start
<1>7. CASE CheckQuit
  BY <1>7 DEF CheckQuit, TQ!Stop
<1>8. CASE DoPendingFunctors
  <2>1. queue' = queue
    BY <1>8, EmptyConcat DEF DoPendingFunctors, TypeOK
  <2> QED BY <1>8, <2>1 DEF DoPendingFunctors
<1>9. CASE EndPass
  BY <1>9 DEF EndPass
<1>10. CASE PollReturns
  BY <1>10 DEF PollReturns
<1>11. ASSUME NEW c \in Channels, HandleEvent(c) PROVE UNCHANGED TQ!vars
  BY <1>11 DEF HandleEvent
<1>12. CASE EndHandler
  BY <1>12 DEF EndHandler
<1>13. CASE HandleRead
  BY <1>13 DEF HandleRead
<1>14. CASE QuitFromLoop
  BY <1>14 DEF QuitFromLoop
<1>15. ASSUME NEW t \in Callers, Quit(t) \/ Wakeup(t) PROVE UNCHANGED TQ!vars
  BY <1>15 DEF Quit, Wakeup
<1>16. ASSUME NEW c \in Channels, IOReady(c) PROVE UNCHANGED TQ!vars
  BY <1>16 DEF IOReady
<1>17. CASE UNCHANGED vars
  BY <1>17 DEF vars
<1> QED
  BY <1>2, <1>3, <1>4, <1>5, <1>6, <1>7, <1>8, <1>9, <1>10, <1>11, <1>12, <1>13,
     <1>14, <1>15, <1>16, <1>17 DEF Next, LoopStep, Poll, PollTimeout

LEMMA EmptyQueueInitially == Init => TQ!Init
<1> SUFFICES ASSUME Init PROVE TQ!Init
  OBVIOUS
<1>1. functors \o pendingFunctors_ = <<>>
  BY EmptyConcat DEF Init
<1> QED BY <1>1 DEF Init, TQ!Init

\* The loop runs every functor once, one at a time and in the order of
\* queueInLoop, however the swap cuts the queue into batches (EventLoop.cc,
\* doPendingFunctors).
THEOREM LoopImplementsTaskQueue == Spec => ImplementsTaskQueue
<1>1. TypeOK /\ TypeOK' /\ [Next]_vars => [TQ!Next]_(TQ!vars)
  BY QueueSteps
<1> QED BY EmptyQueueInitially, <1>1, Typing, PTL DEF Spec, ImplementsTaskQueue, TQ!Safety
=============================================================================
