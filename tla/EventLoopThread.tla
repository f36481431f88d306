---------------------------- MODULE EventLoopThread ----------------------------
(***************************************************************************)
(* One EventLoopThread (src/EventLoopThread.cc on src/Thread.cc): the owner *)
(* constructs it, calls startLoop, uses the loop and destroys it; the new   *)
(* thread builds an EventLoop on its stack, runs the init callback,          *)
(* publishes the loop in loop_, runs loop() and clears loop_.               *)
(*                                                                         *)
(* The loop is the one of EventLoop, every step of it.  The owner is its    *)
(* only other caller (EventLoopThreadPool's loops are used by the thread of *)
(* the base loop, which owns the pool); the code on the loop's own thread   *)
(* may queue and quit as in EventLoop.                                      *)
(***************************************************************************)
EXTENDS EventLoop

CONSTANT Owner

ASSUME OwnerAssumption == Callers = {Owner}

VARIABLES threadPc,    \* where threadFunc is
          ownerPc,     \* where the owner is
          loop_,       \* loop_ # nullptr
          selfQuit     \* history: code on the loop's thread has called quit()

loopVars  == vars
eltVars   == <<threadPc, ownerPc, loop_, selfQuit>>
allVars   == <<loopVars, eltVars>>

\* "ctor": the thread exists, its EventLoop does not; "unlock" to "done": after
\* loop(), with the mutex held, released, and the EventLoop destroyed.
ThreadPC == {"unborn", "ctor", "callback", "start", "loop", "exit", "unlock",
             "unwind", "done"}

\* "check": startLoop is about to test loop_; "waiting": in cond_.wait;
\* "quit" to "gone": the destructor; "crashed": it used a dead EventLoop.
OwnerPC == {"new", "check", "waiting", "running", "quit", "wake", "join",
            "gone", "crashed"}

\* The EventLoop object exists.
Alive == threadPc \notin {"unborn", "ctor", "done"}

\* threadFunc's last critical section is open; the others are single steps.
Locked == threadPc = "unlock"

ThreadTypeOK ==
    /\ TypeOK
    /\ threadPc \in ThreadPC
    /\ ownerPc \in OwnerPC
    /\ loop_ \in BOOLEAN /\ selfQuit \in BOOLEAN
    /\ loop_ = (threadPc \in {"start", "loop", "exit"})
    /\ pc # "idle" => threadPc = "loop"

ThreadInit ==
    /\ Init
    /\ threadPc = "unborn"
    /\ ownerPc = "new"
    /\ loop_ = FALSE
    /\ selfQuit = FALSE

-----------------------------------------------------------------------------
(* The new thread *)

\* Slip: the loop is published before the callback has run.
ConstructAndPublish ==
    /\ threadPc = "ctor"
    /\ threadPc' = "callback"
    /\ loop_' = TRUE
    /\ UNCHANGED <<loopVars, ownerPc, selfQuit>>

ConstructLoop ==
    /\ threadPc = "ctor"
    /\ threadPc' = "callback"
    /\ UNCHANGED <<loopVars, ownerPc, loop_, selfQuit>>

\* callback_(&loop), a handler or a functor.
UserStep ==
    /\ threadPc \in {"callback", "loop"}
    /\ \/ (\E f \in Functors : QueueFromLoop(f)) /\ UNCHANGED selfQuit
       \/ QuitFromLoop /\ selfQuit' = TRUE
    /\ UNCHANGED <<threadPc, ownerPc, loop_>>

\* Slip: the loop is published without a notification.
PublishUnnotified ==
    /\ threadPc = "callback"
    /\ threadPc' = "start"
    /\ loop_' = TRUE
    /\ UNCHANGED <<loopVars, ownerPc, selfQuit>>

\* The critical section that sets loop_ and notifies.
Publish ==
    /\ threadPc = "callback"
    /\ threadPc' = "start"
    /\ loop_' = TRUE
    /\ ownerPc' = IF ownerPc = "waiting" THEN "check" ELSE ownerPc
    /\ UNCHANGED <<loopVars, selfQuit>>

EnterLoop ==
    /\ threadPc = "start"
    /\ StartLoop
    /\ threadPc' = "loop"
    /\ UNCHANGED <<ownerPc, loop_, selfQuit>>

InLoop ==
    /\ threadPc = "loop"
    /\ LoopStep
    /\ threadPc' = IF pc' = "idle" THEN "exit" ELSE "loop"
    /\ UNCHANGED <<ownerPc, loop_, selfQuit>>

InPoll ==
    /\ threadPc = "loop"
    /\ PollTimeout
    /\ UNCHANGED eltVars

\* Slip: loop_ keeps the address of the dead loop.
ClearNothing ==
    /\ threadPc = "exit"
    /\ threadPc' = "unlock"
    /\ UNCHANGED <<loopVars, ownerPc, loop_, selfQuit>>

\* The mutex is free: startLoop holds it only within one step.
ClearLoop ==
    /\ threadPc = "exit"
    /\ threadPc' = "unlock"
    /\ loop_' = FALSE
    /\ UNCHANGED <<loopVars, ownerPc, selfQuit>>

\* Locals die in reverse order: first the lock, then the EventLoop.
Unlock ==
    /\ threadPc = "unlock"
    /\ threadPc' = "unwind"
    /\ UNCHANGED <<loopVars, ownerPc, loop_, selfQuit>>

DestroyLoop ==
    /\ threadPc = "unwind"
    /\ threadPc' = "done"
    /\ UNCHANGED <<loopVars, ownerPc, loop_, selfQuit>>

-----------------------------------------------------------------------------
(* The owner *)

\* thread_.start(), whose semaphore waits for the new thread's first steps.
StartThread ==
    /\ ownerPc = "new"
    /\ ownerPc' = "check"
    /\ threadPc' = "ctor"
    /\ UNCHANGED <<loopVars, loop_, selfQuit>>

\* `while (loop_ == nullptr) cond_.wait(lock)`.
CheckLoop ==
    /\ ownerPc = "check"
    /\ ~Locked
    /\ ownerPc' = IF loop_ THEN "running" ELSE "waiting"
    /\ UNCHANGED <<loopVars, threadPc, loop_, selfQuit>>

SpuriousWakeup ==
    /\ ownerPc = "waiting"
    /\ ownerPc' = "check"
    /\ UNCHANGED <<loopVars, threadPc, loop_, selfQuit>>

\* The owner gives the loop work; it knows that nobody has ended it.
OwnerQueues(f) ==
    /\ ownerPc = "running"
    /\ Alive /\ ~selfQuit
    /\ QueueInLoop(Owner, f)
    /\ UNCHANGED eltVars

\* Slip: the destructor does not wait for the thread.
DestroyDetached ==
    /\ ownerPc \in {"new", "running"}
    /\ callerPc[Owner] = "idle"
    /\ ownerPc' = "gone"
    /\ UNCHANGED <<loopVars, threadPc, loop_, selfQuit>>

\* The destructor tests loop_, without the mutex; if it is null the thread, if
\* there is one, is detached.
Destroy ==
    /\ ownerPc \in {"new", "running"}
    /\ callerPc[Owner] = "idle"
    /\ ownerPc' = IF loop_ THEN "quit" ELSE "gone"
    /\ UNCHANGED <<loopVars, threadPc, loop_, selfQuit>>

\* loop_->quit() up to its wakeup.  On a null loop_ it crashes; otherwise the
\* EventLoop is alive.
DestructorQuits ==
    /\ ownerPc = "quit"
    /\ IF loop_ THEN Quit(Owner) /\ ownerPc' = "wake"
                ELSE UNCHANGED loopVars /\ ownerPc' = "crashed"
    /\ UNCHANGED <<threadPc, loop_, selfQuit>>

\* wakeup().  On a dead EventLoop it crashes or writes to nobody.
OwnerWakes ==
    /\ \/ /\ Alive
          /\ Wakeup(Owner)
          /\ ownerPc' = IF ownerPc = "wake" THEN "join" ELSE ownerPc
       \/ /\ ~Alive
          /\ callerPc[Owner] = "wake"
          /\ callerPc' = [callerPc EXCEPT ![Owner] = "idle"]
          /\ ownerPc' \in {"crashed", IF ownerPc = "wake" THEN "join" ELSE ownerPc}
          /\ UNCHANGED <<pc, queueVars, flagVars, dispatchVars, wakeupFd_>>
    /\ UNCHANGED <<threadPc, loop_, selfQuit>>

Join ==
    /\ ownerPc = "join"
    /\ threadPc = "done"
    /\ ownerPc' = "gone"
    /\ UNCHANGED <<loopVars, threadPc, loop_, selfQuit>>

-----------------------------------------------------------------------------
Arrival ==
    /\ Alive
    /\ \E c \in Channels : IOReady(c)
    /\ UNCHANGED eltVars

ThreadStep ==
    \/ ConstructLoop
    \/ Publish
    \/ EnterLoop
    \/ InLoop
    \/ ClearLoop
    \/ Unlock
    \/ DestroyLoop

\* The steps of a call the owner has begun.
OwnerStep ==
    \/ CheckLoop
    \/ DestructorQuits
    \/ OwnerWakes
    \/ Join

ThreadNext ==
    \/ ThreadStep
    \/ UserStep
    \/ InPoll
    \/ OwnerStep
    \/ StartThread
    \/ SpuriousWakeup
    \/ \E f \in Functors : OwnerQueues(f)
    \/ Destroy
    \/ Arrival

\* Both threads are scheduled; nothing counts on the ten seconds of epoll_wait.
ThreadSpec ==
    /\ ThreadInit /\ [][ThreadNext]_allVars
    /\ WF_allVars(ThreadStep)
    /\ WF_allVars(OwnerStep)

\* The same with the timeout, for what fails even so.
TimedThreadSpec == ThreadSpec /\ WF_allVars(InPoll)

-----------------------------------------------------------------------------
(* Properties *)

\* The loop startLoop returns has been constructed and its init callback has
\* returned, whatever wakeups, real or spurious, the owner saw.
StartLoopReturnsReadyLoop ==
    [][ownerPc = "check" /\ ownerPc' = "running"
         => threadPc \notin {"unborn", "ctor", "callback"}]_allVars

\* If only the destructor ends the loop, then threadFunc has left mutex_, cond_
\* and loop_ alone for good when the destructor gives them back.
MembersOutliveThread ==
    ownerPc = "gone" /\ ~selfQuit => threadPc \in {"unborn", "unwind", "done"}

\* startLoop returns, for the notification is not lost, unless the loop's own
\* code ends the loop: then loop_ may be nullptr again before the owner looks.
StartLoopReturns == ownerPc = "check" ~> (ownerPc = "running" \/ selfQuit)

\* A destructor whose quit() finds the thread in loop() returns, or is in
\* undefined behaviour: quit_, wakeup and join end the thread together.
DestructorJoins ==
    (ownerPc = "wake" /\ threadPc = "loop" /\ quit_) ~> ownerPc \in {"gone", "crashed"}

\* quit() as EventLoop.h documents it ends the loop, so that the destructor
\* returns.
DestructorReturns == ownerPc = "quit" ~> ownerPc \in {"gone", "crashed"}
=============================================================================
