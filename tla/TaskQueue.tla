------------------------------- MODULE TaskQueue -------------------------------
(***************************************************************************)
(* What an event loop promises to the threads that give it work, without   *)
(* eventfd, epoll, batches or flags: a task is executed by one thread, one  *)
(* at a time, in the order in which the tasks were submitted, and only      *)
(* while the executor is on.  Nothing is lost and nothing runs twice; a     *)
(* task that is still queued when the executor stops stays queued.          *)
(*                                                                         *)
(* EventLoop implements this module (EventLoop!TQ).                         *)
(***************************************************************************)
EXTENDS Sequences, Functions

CONSTANTS Task,     \* the tasks; one is queued at most once at a time
          NoTask    \* no task is executing; not a member of Task

VARIABLES on,        \* the executor takes tasks
          queue,     \* submitted, not yet executed
          executing  \* the task being executed, or NoTask

vars == <<on, queue, executing>>

TypeOK ==
    /\ on \in BOOLEAN
    /\ queue \in Seq(Task)
    /\ executing \in Task \cup {NoTask}

Init ==
    /\ on = FALSE
    /\ queue = <<>>
    /\ executing = NoTask

\* Anybody may submit, at any time, the executing task included.
Submit(t) ==
    /\ t \notin Range(queue)
    /\ queue' = Append(queue, t)
    /\ UNCHANGED <<on, executing>>

Execute ==
    /\ on
    /\ executing = NoTask
    /\ queue # <<>>
    /\ executing' = Head(queue)
    /\ queue' = Tail(queue)
    /\ UNCHANGED on

Finish ==
    /\ executing # NoTask
    /\ executing' = NoTask
    /\ UNCHANGED <<on, queue>>

Start ==
    /\ ~on
    /\ on' = TRUE
    /\ UNCHANGED <<queue, executing>>

\* The executor never stops in the middle of a task.
Stop ==
    /\ on
    /\ executing = NoTask
    /\ on' = FALSE
    /\ UNCHANGED <<queue, executing>>

Next ==
    \/ \E t \in Task : Submit(t)
    \/ Execute
    \/ Finish
    \/ Start
    \/ Stop

\* While the executor stays on, every task gets its turn.
Progress ==
    \A t \in Task : (on /\ t \in Range(queue)) ~> (executing = t \/ ~on)

Safety == Init /\ [][Next]_vars

Spec == Safety /\ Progress
=============================================================================
