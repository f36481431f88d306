--------------------------------- MODULE Latch ---------------------------------
(***************************************************************************)
(* What a count-down latch promises to its threads, without mutex and        *)
(* condition: whoever is inside wait() stays there until the count has been  *)
(* counted down to zero or below, and then leaves.                           *)
(*                                                                         *)
(* VitaCountDownLatch implements this module (VitaCountDownLatch!Abstract).  *)
(***************************************************************************)
EXTENDS Integers

CONSTANTS Waiters,
          Counts       \* what the latch may start with

VARIABLES count,
          inside       \* the threads inside wait()

vars == <<count, inside>>

Init == count \in Counts /\ inside = {}

Enter(t) ==
    /\ t \notin inside
    /\ inside' = inside \cup {t}
    /\ UNCHANGED count

Leave(t) ==
    /\ t \in inside
    /\ count <= 0
    /\ inside' = inside \ {t}
    /\ UNCHANGED count

CountDown ==
    /\ count' = count - 1
    /\ UNCHANGED inside

Next == CountDown \/ \E t \in Waiters : Enter(t) \/ Leave(t)

Safety == Init /\ [][Next]_vars

\* An open latch holds nobody back.
Spec == Safety /\ \A t \in Waiters : WF_vars(Leave(t))
=============================================================================
