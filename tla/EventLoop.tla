------------------------------- MODULE EventLoop -------------------------------
(***************************************************************************)
(* One EventLoop (src/EventLoop.cc): the thread that owns it runs loop(),   *)
(* which polls, dispatches the active channels and runs the functors that   *)
(* were queued; any thread may queue a functor or ask the loop to quit, and *)
(* wakes the loop through an eventfd so that it does not sleep on it.       *)
(*                                                                         *)
(* The mutex of the class protects one append and one swap, each a single   *)
(* step here.  Between the append (or the store to quit_) and the write to  *)
(* the eventfd every other thread may run.                                  *)
(*                                                                         *)
(* User code (channel handlers, functors, whatever the owner does outside   *)
(* loop()) is arbitrary: it may queue functors, quit the loop, drain or not *)
(* drain its descriptor.  runInLoop is QueueInLoop from another thread and  *)
(* a plain call, part of the user code, from the loop's own.                *)
(***************************************************************************)
EXTENDS Sequences, Functions

CONSTANTS Functors,       \* callbacks; one is pending at most once at a time
          Callers,        \* the threads that do not own the loop
          Channels,       \* the channels of the loop but wakeupChannel_
          WakeupChannel,  \* wakeupChannel_, on wakeupFd_
          None            \* the thread executes no user code

ASSUME EventLoopAssumption ==
    /\ WakeupChannel \notin Channels
    /\ None \notin Functors \cup Channels

VARIABLES pc,                       \* where the owner is; "idle": not in loop()
          quit_,
          callingPendingFunctors_,
          pendingFunctors_,
          functors,                 \* doPendingFunctors' local batch
          activeChannels_,          \* what poll returned and is not dispatched
          current,                  \* the functor or channel executing, or None
          wakeupFd_,                \* the eventfd's counter is not zero
          ready,                    \* channels whose descriptor has an event
          callerPc,                 \* "wake": a thread owes wakeup()
          early                     \* history: pending functors the owner
                                    \* itself queued outside loop()

vars == <<pc, quit_, callingPendingFunctors_, pendingFunctors_, functors,
          activeChannels_, current, wakeupFd_, ready, callerPc, early>>

flagVars     == <<quit_, callingPendingFunctors_>>
queueVars    == <<pendingFunctors_, functors, early>>
dispatchVars == <<activeChannels_, current, ready>>
wakeVars     == <<wakeupFd_, callerPc>>

PC == {"idle", "check", "poll", "dispatch", "handler", "drain", "functor"}

TypeOK ==
    /\ pc \in PC
    /\ quit_ \in BOOLEAN
    /\ callingPendingFunctors_ \in BOOLEAN
    /\ callingPendingFunctors_ <=> pc \in {"drain", "functor"}
    /\ pendingFunctors_ \in Seq(Functors)
    /\ functors \in Seq(Functors)
    /\ functors # <<>> => pc \in {"drain", "functor"}
    /\ activeChannels_ \subseteq Channels \cup {WakeupChannel}
    /\ activeChannels_ # {} => pc \in {"dispatch", "handler"}
    /\ pc = "handler" => current \in Channels
    /\ pc = "functor" => current \in Functors
    /\ pc \notin {"handler", "functor"} => current = None
    /\ wakeupFd_ \in BOOLEAN
    /\ ready \subseteq Channels
    /\ callerPc \in [Callers -> {"idle", "wake"}]
    /\ early \subseteq Functors

Init ==
    /\ pc = "idle"
    /\ quit_ = FALSE
    /\ callingPendingFunctors_ = FALSE
    /\ pendingFunctors_ = <<>>
    /\ functors = <<>>
    /\ activeChannels_ = {}
    /\ current = None
    /\ wakeupFd_ = FALSE
    /\ ready = {}
    /\ callerPc = [t \in Callers |-> "idle"]
    /\ early = {}

-----------------------------------------------------------------------------
(* The other threads *)

Queueable(f) == f \notin Range(functors \o pendingFunctors_)

\* A caller of a public operation first changes the loop, then owes a wakeup.
OweWakeup(t) ==
    /\ callerPc[t] = "idle"
    /\ callerPc' = [callerPc EXCEPT ![t] = "wake"]

\* Slip: `!isInLoopThread() && !callingPendingFunctors_`.
QueueInLoopUnlessDraining(t, f) ==
    /\ Queueable(f)
    /\ pendingFunctors_' = Append(pendingFunctors_, f)
    /\ callerPc[t] = "idle"
    /\ callerPc' = [callerPc EXCEPT ![t] = IF callingPendingFunctors_ THEN "idle" ELSE "wake"]
    /\ UNCHANGED <<pc, flagVars, dispatchVars, functors, wakeupFd_, early>>

QueueInLoop(t, f) ==
    /\ Queueable(f)
    /\ pendingFunctors_' = Append(pendingFunctors_, f)
    /\ OweWakeup(t)
    /\ UNCHANGED <<pc, flagVars, dispatchVars, functors, wakeupFd_, early>>

\* Slip: quit() only stores the flag.
QuitWithoutWakeup(t) ==
    /\ callerPc[t] = "idle"
    /\ quit_' = TRUE
    /\ UNCHANGED <<pc, queueVars, dispatchVars, wakeVars, callingPendingFunctors_>>

Quit(t) ==
    /\ quit_' = TRUE
    /\ OweWakeup(t)
    /\ UNCHANGED <<pc, queueVars, dispatchVars, callingPendingFunctors_, wakeupFd_>>

\* Slip: a write of other than eight bytes, which an eventfd refuses.
WakeupRefused(t) ==
    /\ callerPc[t] = "wake"
    /\ callerPc' = [callerPc EXCEPT ![t] = "idle"]
    /\ UNCHANGED <<pc, queueVars, flagVars, dispatchVars, wakeupFd_>>

Wakeup(t) ==
    /\ callerPc[t] = "wake"
    /\ callerPc' = [callerPc EXCEPT ![t] = "idle"]
    /\ wakeupFd_' = TRUE
    /\ UNCHANGED <<pc, queueVars, flagVars, dispatchVars>>

-----------------------------------------------------------------------------
(* User code on the owning thread, in a handler, in a functor, or outside    *)
(* loop() (before it, as a ThreadInitCallback, or after it)                  *)

UserCode == pc \in {"idle", "handler", "functor"}

\* Slip: without `|| callingPendingFunctors_`.
QueueFromLoopUnwoken(f) ==
    /\ UserCode
    /\ Queueable(f)
    /\ pendingFunctors_' = Append(pendingFunctors_, f)
    /\ early' = IF pc = "idle" THEN early \cup {f} ELSE early
    /\ UNCHANGED <<pc, flagVars, dispatchVars, wakeVars, functors>>

QueueFromLoop(f) ==
    /\ UserCode
    /\ Queueable(f)
    /\ pendingFunctors_' = Append(pendingFunctors_, f)
    /\ wakeupFd_' = (wakeupFd_ \/ callingPendingFunctors_)
    /\ early' = IF pc = "idle" THEN early \cup {f} ELSE early
    /\ UNCHANGED <<pc, flagVars, dispatchVars, functors, callerPc>>

QuitFromLoop ==
    /\ UserCode
    /\ quit_' = TRUE
    /\ UNCHANGED <<pc, queueVars, dispatchVars, wakeVars, callingPendingFunctors_>>

-----------------------------------------------------------------------------
(* loop() *)

StartLoop ==
    /\ pc = "idle"
    /\ pc' = "check"
    /\ quit_' = FALSE
    /\ UNCHANGED <<queueVars, dispatchVars, wakeVars, callingPendingFunctors_>>

\* `while (!quit_)`: the loop goes on to poll, or returns.
CheckQuit ==
    /\ pc = "check"
    /\ pc' = IF quit_ THEN "idle" ELSE "poll"
    /\ UNCHANGED <<queueVars, flagVars, dispatchVars, wakeVars>>

\* What a level-triggered epoll_wait reports now.
Signalled == ready \cup (IF wakeupFd_ THEN {WakeupChannel} ELSE {})

PollReturns ==
    /\ pc = "poll"
    /\ pc' = "dispatch"
    /\ activeChannels_' = Signalled
    /\ UNCHANGED <<queueVars, flagVars, wakeVars, current, ready>>

Poll == Signalled # {} /\ PollReturns

\* Slip: epoll_wait with a timeout of -1.
PollForever == FALSE /\ PollReturns

\* kPollTimeMs without an event.
PollTimeout == Signalled = {} /\ PollReturns

\* The order of epoll_wait's list is arbitrary: so is the order of dispatch.
HandleRead ==
    /\ pc = "dispatch"
    /\ WakeupChannel \in activeChannels_
    /\ activeChannels_' = activeChannels_ \ {WakeupChannel}
    /\ wakeupFd_' = FALSE
    /\ UNCHANGED <<pc, queueVars, flagVars, current, ready, callerPc>>

HandleEvent(c) ==
    /\ pc = "dispatch"
    /\ c \in activeChannels_
    /\ pc' = "handler"
    /\ activeChannels_' = activeChannels_ \ {c}
    /\ current' = c
    /\ UNCHANGED <<queueVars, flagVars, wakeVars, ready>>

\* The handler returns, having taken all there was to read or not.
EndHandler ==
    /\ pc = "handler"
    /\ pc' = "dispatch"
    /\ current' = None
    /\ ready' \in {ready, ready \ {current}}
    /\ UNCHANGED <<queueVars, flagVars, wakeVars, activeChannels_>>

\* Slip: a copy of the queue where the code swaps.
DoPendingFunctorsCopy ==
    /\ pc = "dispatch"
    /\ activeChannels_ = {}
    /\ pc' = "drain"
    /\ callingPendingFunctors_' = TRUE
    /\ functors' = pendingFunctors_
    /\ UNCHANGED <<dispatchVars, wakeVars, quit_, pendingFunctors_, early>>

\* The flag is read by this thread only, so its store joins the swap.
DoPendingFunctors ==
    /\ pc = "dispatch"
    /\ activeChannels_ = {}
    /\ pc' = "drain"
    /\ callingPendingFunctors_' = TRUE
    /\ functors' = pendingFunctors_
    /\ pendingFunctors_' = <<>>
    /\ early' = {}
    /\ UNCHANGED <<dispatchVars, wakeVars, quit_>>

RunFunctor ==
    /\ pc = "drain"
    /\ functors # <<>>
    /\ pc' = "functor"
    /\ current' = Head(functors)
    /\ functors' = Tail(functors)
    /\ UNCHANGED <<flagVars, wakeVars, pendingFunctors_, activeChannels_,
                   ready, early>>

EndFunctor ==
    /\ pc = "functor"
    /\ pc' = "drain"
    /\ current' = None
    /\ UNCHANGED <<queueVars, flagVars, wakeVars, activeChannels_, ready>>

\* Slip: a pass goes on until the queue is empty.
EndPassWhenEmpty ==
    /\ pc = "drain"
    /\ functors = <<>>
    /\ pendingFunctors_' = <<>>
    /\ IF pendingFunctors_ = <<>>
         THEN pc' = "check" /\ callingPendingFunctors_' = FALSE /\ UNCHANGED functors
         ELSE functors' = pendingFunctors_ /\ UNCHANGED <<pc, callingPendingFunctors_>>
    /\ UNCHANGED <<dispatchVars, wakeVars, quit_, early>>

EndPass ==
    /\ pc = "drain"
    /\ functors = <<>>
    /\ pc' = "check"
    /\ callingPendingFunctors_' = FALSE
    /\ UNCHANGED <<queueVars, dispatchVars, wakeVars, quit_>>

-----------------------------------------------------------------------------
\* The kernel: something arrives on a descriptor.
IOReady(c) ==
    /\ c \notin ready
    /\ ready' = ready \cup {c}
    /\ UNCHANGED <<pc, queueVars, flagVars, wakeVars, activeChannels_, current>>

\* What the owner does by itself once it is in loop().
LoopStep ==
    \/ CheckQuit
    \/ Poll
    \/ HandleRead
    \/ \E c \in Channels : HandleEvent(c)
    \/ EndHandler
    \/ DoPendingFunctors
    \/ RunFunctor
    \/ EndFunctor
    \/ EndPass

Next ==
    \/ LoopStep
    \/ StartLoop
    \/ PollTimeout
    \/ QuitFromLoop
    \/ \E f \in Functors : QueueFromLoop(f)
    \/ \E t \in Callers : \/ \E f \in Functors : QueueInLoop(t, f)
                          \/ Quit(t)
                          \/ Wakeup(t)
    \/ \E c \in Channels : IOReady(c)

Spec == Init /\ [][Next]_vars

\* A thread in queueInLoop or quit gets to its wakeup, the loop's thread is
\* scheduled, and user code returns.  The ten seconds of kPollTimeMs are not
\* counted on: what holds under this specification holds without the timeout.
FairSpec ==
    /\ Spec
    /\ WF_vars(LoopStep)
    /\ \A t \in Callers : WF_vars(Wakeup(t))

-----------------------------------------------------------------------------
(* Properties *)

\* Somebody has woken the loop or is about to.
WakeupPending == wakeupFd_ \/ \E t \in Callers : callerPc[t] = "wake"

\* queueInLoop never leaves a functor behind: from the swap of one pass to the
\* next poll, a functor that is still queued has a wakeup in the eventfd or on
\* its way, so that poll will not sleep on it.  Functors the owner queued
\* outside loop() are excepted: for them queueInLoop writes nothing.
NoStrandedFunctor ==
    (/\ pc \in {"idle", "check", "poll", "drain", "functor"}
     /\ ~(Range(pendingFunctors_) \subseteq early))
    => WakeupPending

\* quit() from another thread is never slept on: if the loop is in epoll_wait
\* with quit_ set, the eventfd is signalled or is about to be.
QuitNotMissed == pc = "poll" /\ quit_ => WakeupPending

\* A functor queued in the loop, but for the exception above, runs (or the loop
\* quits first) although poll never times out.
FunctorRuns ==
    \A f \in Functors :
        (pc # "idle" /\ f \in Range(pendingFunctors_) \ early)
            ~> (pc = "functor" /\ current = f) \/ pc = "idle"

\* Functors that requeue themselves for ever do not starve the channels: one
\* pass runs one batch, so that a ready channel is dispatched in the end.
ReadyChannelHandled ==
    \A c \in Channels :
        (pc # "idle" /\ c \in ready) ~> (pc = "handler" /\ current = c) \/ pc = "idle"

\* The loop is a task queue.  The batch in progress and the functors behind it
\* are one queue; batches, flag and eventfd disappear.
TQ == INSTANCE TaskQueue
        WITH Task <- Functors,
             NoTask <- None,
             on <- pc # "idle",
             queue <- functors \o pendingFunctors_,
             executing <- IF pc = "functor" THEN current ELSE None

\* The loop runs every functor once, in the order of queueInLoop, one at a time,
\* only inside loop(), across any number of batches.
ImplementsTaskQueue == TQ!Safety

\* With the poll timeout no functor at all waits for ever, nor does quit().
ImplementsProgress == WF_vars(PollTimeout) => TQ!Progress
=============================================================================
