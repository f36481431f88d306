------------------------------ MODULE EPollPoller ------------------------------
(***************************************************************************)
(* The channels of one loop, its EPollPoller and the kernel's epoll set     *)
(* (src/Channel.cc, src/EPollPoller.cc, src/Poller.cc): three records of    *)
(* what is watched (events_ and index_ of each channel, channels_ of the    *)
(* poller, the interest list of the kernel), kept in step by enable,        *)
(* disable and remove, while descriptors are closed and used again.         *)
(*                                                                         *)
(* What may touch a channel when is the loop's turn: poll, the handlers of   *)
(* the active list, then the queued connectDestroyed calls, which any thread *)
(* may have queued.  The last shared_ptr of a connection that has been       *)
(* through it goes at any time, on any thread, and the channel with it.      *)
(***************************************************************************)
EXTENDS Naturals, FiniteSets, PollerIndex

CONSTANTS Channels,            \* Channel objects
          Fds,                 \* descriptors
          Events,              \* what a channel can ask for
          None,                \* no descriptor, no channel, not in the epoll set
          kInitEventListSize

\* The events_ of a channel, what the kernel reports, and an entry of the epoll set.
\* HUP is reported whether or not it is asked for.
Interest == SUBSET Events
Report == Events \cup {"hup"}
Entry == [ptr : Channels, events : Interest]

ASSUME EPollPollerAssumption ==
    /\ None \notin Channels \cup Fds \cup Entry
    /\ IsFiniteSet(Fds)
    /\ kInitEventListSize \in Nat \ {0}

VARIABLES fd_,              \* per channel, its descriptor; None: no such object
          events_, index_,  \* per channel
          channels_,        \* per descriptor, the poller's channel or None
          epoll,            \* per descriptor, its entry in the epoll set or None
          ready,            \* per descriptor, what the kernel has to report
          listSize,         \* EPollPoller::events_.size()
          activeChannels_,  \* reported by poll, not dispatched yet
          phase,            \* where the thread is in loop(); "out": not in it
          pending, functors \* channels whose connectDestroyed is queued, and of
                            \* them those in the batch that runs

turnVars == <<phase, pending, functors>>
vars == <<fd_, events_, index_, channels_, epoll, ready, listSize, activeChannels_,
          turnVars>>
tables == <<fd_, events_, index_, channels_, epoll>>

Alive == {c \in Channels : fd_[c] # None}

TypeOK ==
    /\ fd_ \in [Channels -> Fds \cup {None}]
    /\ events_ \in [Channels -> Interest]
    /\ index_ \in [Channels -> Index]
    /\ \A c \in Channels : index_[c] = "kDeleted" => events_[c] = {}
    /\ channels_ \in [Fds -> Channels \cup {None}]
    /\ epoll \in [Fds -> Entry \cup {None}]
    /\ ready \in [Fds -> SUBSET Report]
    /\ listSize \in Nat \ {0}
    /\ activeChannels_ \subseteq Channels
    /\ phase \in {"out", "poll", "dispatch", "functors"}
    /\ pending \subseteq Channels /\ functors \subseteq Channels

Init ==
    /\ fd_ = [c \in Channels |-> None]
    /\ events_ = [c \in Channels |-> {}]
    /\ index_ = [c \in Channels |-> "kNew"]
    /\ channels_ = [f \in Fds |-> None]
    /\ epoll = [f \in Fds |-> None]
    /\ ready = [f \in Fds |-> {}]
    /\ listSize = kInitEventListSize
    /\ activeChannels_ = {}
    /\ phase = "out" /\ pending = {} /\ functors = {}

-----------------------------------------------------------------------------
(* The channels *)

\* A new Channel, as Init or Close left it, on a descriptor the kernel has just given.
Open(c, f) ==
    /\ fd_[c] = None
    /\ \A d \in Channels : fd_[d] # f
    /\ fd_' = [fd_ EXCEPT ![c] = f]
    /\ UNCHANGED <<events_, index_, channels_, epoll, ready, listSize, activeChannels_,
                   turnVars>>

\* enableReading and its like set events_ and call update(): the channel goes to
\* the map when it is new; then epoll_ctl adds, deletes or modifies.  The thread
\* that does so is the loop's, in a handler, a functor or outside loop().
UpdateChannel(c, events) ==
    LET f == fd_[c]
    IN  /\ c \in Alive
        /\ phase # "poll"
        /\ events_' = [events_ EXCEPT ![c] = events]
        /\ index_' = [index_ EXCEPT ![c] = UpdatedIndex(index_[c], events)]
        /\ channels_' = IF index_[c] = "kNew" THEN [channels_ EXCEPT ![f] = c]
                                              ELSE channels_
        /\ epoll' = [epoll EXCEPT ![f] =
                       IF index_[c] = "kAdded" /\ events = {}
                         THEN None ELSE [ptr |-> c, events |-> events]]
        /\ UNCHANGED <<fd_, ready, listSize, activeChannels_, turnVars>>

Enable(c, ev)  == UpdateChannel(c, events_[c] \cup {ev})
Disable(c, ev) == UpdateChannel(c, events_[c] \ {ev})
DisableAll(c)  == UpdateChannel(c, {})

\* Slip: the index still says kAdded.
RemoveChannelKeepsIndex(c) ==
    /\ c \in Alive
    /\ channels_' = [channels_ EXCEPT ![fd_[c]] = None]
    /\ epoll' = IF index_[c] = "kAdded" THEN [epoll EXCEPT ![fd_[c]] = None] ELSE epoll
    /\ UNCHANGED <<fd_, index_, ready, listSize, activeChannels_>>

RemoveChannel(c) ==
    /\ c \in Alive
    /\ channels_' = [channels_ EXCEPT ![fd_[c]] = None]
    /\ epoll' = IF index_[c] = "kAdded" THEN [epoll EXCEPT ![fd_[c]] = None] ELSE epoll
    /\ index_' = [index_ EXCEPT ![c] = "kNew"]
    /\ UNCHANGED <<fd_, ready, listSize, activeChannels_>>

\* The acceptor's channel, a connection of a server that dies after its loop has
\* returned, the eventfd's: removed by a plain call.  That no handler of the loop
\* destroys a server is the application's care: removeChannel would not mind, and
\* the channels would go with the list half dispatched.
RemoveOutside(c) ==
    /\ phase = "out"
    /\ RemoveChannel(c)
    /\ UNCHANGED <<events_, turnVars>>

\* removeConnectionInLoop and ~TcpServer, from any thread and at any moment.
QueueDestroyed(c) ==
    /\ c \in Alive /\ c \notin pending \cup functors
    /\ pending' = pending \cup {c}
    /\ UNCHANGED <<tables, ready, listSize, activeChannels_, phase, functors>>

\* connectDestroyed: if the connection is up all its events are disabled first,
\* which leaves no trace behind the removal but events_.
ConnectDestroyed(c) ==
    /\ phase = "functors" /\ c \in functors
    /\ functors' = functors \ {c}
    /\ RemoveChannel(c)
    /\ events_' \in {events_, [events_ EXCEPT ![c] = {}]}
    /\ UNCHANGED <<phase, pending>>

\* The last shared_ptr goes: the connection's channel is destroyed, and its socket
\* closes the descriptor, which takes it out of every epoll set.  connectDestroyed
\* has run, or the channel was never in use (TcpServer's RegisteredIsHeld, for as long
\* as the loop and its poller exist; a send that comes after it is TcpConnection's); a
\* call that is queued is a shared_ptr.
Close(c) ==
    /\ c \in Alive
    /\ index_[c] = "kNew"
    /\ c \notin pending \cup functors
    /\ fd_' = [fd_ EXCEPT ![c] = None]
    /\ events_' = [events_ EXCEPT ![c] = {}]
    /\ epoll' = [epoll EXCEPT ![fd_[c]] = None]
    /\ ready' = [ready EXCEPT ![fd_[c]] = {}]
    /\ UNCHANGED <<index_, channels_, listSize, activeChannels_, turnVars>>

-----------------------------------------------------------------------------
(* The turns of the loop *)

EnterLoop ==
    /\ phase = "out"
    /\ phase' = "poll"
    /\ UNCHANGED <<tables, ready, listSize, activeChannels_, pending, functors>>

Reportable(f) ==
    epoll[f] # None /\ ready[f] \cap (epoll[f].events \cup {"hup"}) # {}

\* Slip: the list keeps its size.
SameSize(numEvents) == listSize

GrownSize(numEvents) == IF numEvents = listSize THEN 2 * listSize ELSE listSize

\* epoll_wait fills at most the list; which of the reportable descriptors it
\* takes is the kernel's choice.  It also returns with none, woken by the eventfd
\* or after ten seconds.
Poll ==
    LET all == {f \in Fds : Reportable(f)}
    IN  /\ phase = "poll"
        /\ \E some \in SUBSET all :
             /\ Cardinality(some) = IF Cardinality(all) <= listSize
                                      THEN Cardinality(all) ELSE listSize
             /\ activeChannels_' = {epoll[f].ptr : f \in some}
             /\ listSize' = GrownSize(Cardinality(some))
        /\ phase' = "dispatch"
        /\ UNCHANGED <<tables, ready, pending, functors>>

\* handleEvent: the callbacks take what is ready, or leave some of it.
Dispatch(c) ==
    /\ c \in activeChannels_
    /\ activeChannels_' = activeChannels_ \ {c}
    /\ \E left \in SUBSET ready[fd_[c]] : ready' = [ready EXCEPT ![fd_[c]] = left]
    /\ UNCHANGED <<tables, listSize, turnVars>>

\* Slip: doPendingFunctors is called before the handlers.
SwapBeforeHandlers ==
    /\ phase = "dispatch"
    /\ phase' = "functors"
    /\ functors' = pending /\ pending' = {}
    /\ UNCHANGED <<tables, ready, listSize, activeChannels_>>

\* doPendingFunctors, when the active list has been gone through.
SwapFunctors ==
    /\ phase = "dispatch" /\ activeChannels_ = {}
    /\ phase' = "functors"
    /\ functors' = pending /\ pending' = {}
    /\ UNCHANGED <<tables, ready, listSize, activeChannels_>>

\* Somebody may have quit the loop; it may be entered again.
EndTurn ==
    /\ phase = "functors" /\ functors = {}
    /\ phase' \in {"poll", "out"}
    /\ UNCHANGED <<tables, ready, listSize, activeChannels_, pending, functors>>

\* The kernel has something new on an open descriptor.
Arrive(f, ev) ==
    /\ \E c \in Channels : fd_[c] = f
    /\ ev \notin ready[f]
    /\ ready' = [ready EXCEPT ![f] = @ \cup {ev}]
    /\ UNCHANGED <<tables, listSize, activeChannels_, turnVars>>

LoopStep ==
    \/ Poll \/ SwapFunctors \/ EndTurn
    \/ \E c \in Channels : Dispatch(c) \/ ConnectDestroyed(c)

Next ==
    \/ \E c \in Channels :
         \/ \E f \in Fds : Open(c, f)
         \/ \E ev \in Events : Enable(c, ev) \/ Disable(c, ev)
         \/ DisableAll(c)
         \/ RemoveOutside(c)
         \/ QueueDestroyed(c)
         \/ Close(c)
    \/ EnterLoop \/ LoopStep
    \/ \E f \in Fds, ev \in Report : Arrive(f, ev)

Spec == Init /\ [][Next]_vars

\* The thread of a loop that has been entered goes on.
FairSpec == Spec /\ WF_vars(LoopStep)

-----------------------------------------------------------------------------
(* Properties *)

\* Every entry of the epoll set carries the pointer and the events of a living
\* channel on that descriptor.
EpollMatches ==
    \A f \in Fds : epoll[f] # None =>
        LET c == epoll[f].ptr
        IN  fd_[c] = f /\ index_[c] = "kAdded" /\ events_[c] = epoll[f].events

\* A channel that calls itself added is in the epoll set and no other is: the
\* next EPOLL_CTL_ADD or MOD cannot fail, which would end the process.
IndexMatches ==
    \A c \in Alive :
        IF index_[c] = "kAdded" THEN epoll[fd_[c]] # None /\ epoll[fd_[c]].ptr = c
                                ELSE epoll[fd_[c]] = None

\* The poller's map holds exactly the living channels that are not new: no
\* pointer to a dead channel stays in it when a descriptor is used again.
MapMatches ==
    /\ \A f \in Fds : channels_[f] # None =>
           fd_[channels_[f]] = f /\ index_[channels_[f]] # "kNew"
    /\ \A c \in Alive : index_[c] # "kNew" => channels_[fd_[c]] = c

\* The three records agree at all times, through any sequence of enable,
\* disable, remove, close and reuse of a descriptor.
Consistent == EpollMatches /\ IndexMatches /\ MapMatches

\* No channel that waits for its dispatch has been destroyed, though connectDestroyed
\* may be queued behind the poll that reported it, or in front of it, and the last
\* shared_ptr may go on any thread while the loop handles events: what is reported
\* has not been removed, and nothing is removed until the list has been gone through.
ActiveAlive == activeChannels_ \subseteq Alive

\* However many descriptors are ready and whichever of them epoll_wait prefers,
\* each is reported in the end, unless somebody quits the loop: the list grows until
\* all of them fit.
EveryReadyReported ==
    \A f \in Fds : Reportable(f)
        ~> \/ ~Reportable(f)
           \/ \E c \in activeChannels_ : fd_[c] = f
           \/ phase = "out"
=============================================================================
