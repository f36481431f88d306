---------------------------- MODULE ConnectionLife -----------------------------
(***************************************************************************)
(* What a TcpServer promises its user about each connection, without loops,   *)
(* threads, queues or the map: it is held from the accept on, the user is     *)
(* called back when it comes up and when it goes down, once each and in this  *)
(* order, only while it is held, and it is let go only after it has gone      *)
(* down, or with the loop it was on, or, if the user had shut it down, by the   *)
(* destructor without a word.  What was let go is never held again.            *)
(*                                                                         *)
(* TcpServer implements this module (TcpServer!Life).  One step may concern    *)
(* several connections: a loop that ends lets go of all that only it held.     *)
(***************************************************************************)
EXTENDS Naturals

CONSTANT Conn

VARIABLES accepted,   \* the connections so far
          held,       \* those that somebody holds
          ups, downs, \* calls of the user's callback, per connection
          ended,      \* the connections whose loop has ended
          shut, dying \* those the user has shut down; the server is being destroyed

vars == <<accepted, held, ups, downs, ended, shut, dying>>

Init ==
    /\ accepted = {} /\ held = {} /\ ended = {} /\ shut = {} /\ dying = FALSE
    /\ ups = [c \in Conn |-> 0]
    /\ downs = [c \in Conn |-> 0]

Silent(c) == ups'[c] = ups[c] /\ downs'[c] = downs[c]

Reports(c) ==
    \/ ups[c] = 0 /\ ups'[c] = 1 /\ downs'[c] = downs[c]
    \/ ups[c] = 1 /\ downs[c] = 0 /\ downs'[c] = 1 /\ ups'[c] = ups[c]

Accept(c) ==
    /\ c \notin accepted /\ c \in accepted'
    /\ c \in held'
    /\ Silent(c) \/ (Reports(c) /\ downs'[c] = 0)

\* A callback may be the last thing that its holder does.
CallBack(c) ==
    /\ c \in held /\ Reports(c)
    /\ c \notin held' => downs'[c] = 1

LetGo(c) ==
    /\ c \in held /\ c \notin held'
    /\ Silent(c)
    /\ downs[c] = 1 \/ c \in ended' \/ (c \in shut /\ dying)

Rests(c) == Silent(c) /\ (c \in held' <=> c \in held)

Step(c) ==
    \/ Accept(c)
    \/ /\ c \in accepted' <=> c \in accepted
       /\ CallBack(c) \/ LetGo(c) \/ Rests(c)

Next == \A c \in Conn : Step(c)

Spec == Init /\ [][Next]_vars
=============================================================================
