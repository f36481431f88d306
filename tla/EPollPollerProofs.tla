--------------------------- MODULE EPollPollerProofs ---------------------------
(***************************************************************************)
(* Proofs about EPollPoller, for any channels, descriptors and size of the  *)
(* event list: its records agree, epoll_wait never returns a pointer to a   *)
(* destroyed channel, and none is destroyed before its dispatch.            *)
(***************************************************************************)
EXTENDS EPollPoller, TLAPS

\* No two living channels have one descriptor: the kernel gives a descriptor
\* again only once it has been closed.
OneChannelPerFd ==
    \A c, d \in Channels : fd_[c] # None /\ fd_[c] = fd_[d] => c = d

\* ~Channel leaves nothing of a channel that has been removed.
ClosedIsNew == \A c \in Channels : fd_[c] = None => index_[c] = "kNew"

\* While channels wait for their dispatch the loop runs handlers and nothing else,
\* and none of them has been removed from the poller: ~Socket may come from any
\* thread, but only for a channel that has been removed.
TurnsInOrder ==
    /\ activeChannels_ # {} => phase = "dispatch"
    /\ \A c \in activeChannels_ : index_[c] # "kNew"

IInv == /\ TypeOK /\ OneChannelPerFd /\ ClosedIsNew
        /\ Consistent /\ ActiveAlive /\ TurnsInOrder

LEMMA InitIInv == Init => IInv
<1> SUFFICES ASSUME Init PROVE IInv
    OBVIOUS
<1>1. TypeOK
    BY EPollPollerAssumption DEF Init, TypeOK, Interest, Index
<1>2. OneChannelPerFd /\ ClosedIsNew
    BY DEF Init, OneChannelPerFd, ClosedIsNew
<1>3. Consistent
    BY DEF Init, Consistent, EpollMatches, IndexMatches, MapMatches, Alive
<1>4. ActiveAlive /\ TurnsInOrder
    BY DEF Init, ActiveAlive, TurnsInOrder
<1> QED
    BY <1>1, <1>2, <1>3, <1>4 DEF IInv

\* Open: the descriptor was closed, so no record mentions it.
LEMMA OpenStep ==
    ASSUME IInv, NEW c \in Channels, NEW f \in Fds, Open(c, f)
    PROVE  IInv'
<1> USE EPollPollerAssumption DEF IInv
<1>1. TypeOK'
    BY DEF TypeOK, Open, Interest, Index, turnVars
<1>2. OneChannelPerFd' /\ ClosedIsNew'
    BY DEF ClosedIsNew, Alive, TypeOK, OneChannelPerFd, Open
<1>3. epoll[f] = None /\ channels_[f] = None
    BY DEF TypeOK, Consistent, EpollMatches, MapMatches, Open, Entry
<1>4. EpollMatches'
    BY DEF TypeOK, Consistent, EpollMatches, Open, Entry
<1>5. IndexMatches'
    BY <1>3 DEF TypeOK, ClosedIsNew, Consistent, IndexMatches, Open, Alive, Index
<1>6. MapMatches'
    BY <1>3 DEF TypeOK, ClosedIsNew, Consistent, MapMatches, Open, Alive, Index
<1>7. ActiveAlive' /\ TurnsInOrder'
    BY DEF TypeOK, ActiveAlive, TurnsInOrder, Open, Alive, turnVars
<1> QED
    BY <1>1, <1>2, <1>4, <1>5, <1>6, <1>7 DEF Consistent

\* updateChannel: the map, the index and the epoll set change together.
LEMMA UpdateStep ==
    ASSUME IInv, NEW c \in Channels, NEW events \in Interest, UpdateChannel(c, events)
    PROVE  IInv'
<1> USE EPollPollerAssumption DEF IInv
<1> DEFINE f == fd_[c]
<1>0. f \in Fds /\ f # None /\ index_[c] \in Index
    BY DEF TypeOK, UpdateChannel, Alive
<1>a. index_'[c] = "kAdded" \/ (index_'[c] = "kDeleted" /\ events = {} /\ index_[c] = "kAdded")
    BY <1>0 DEF TypeOK, UpdateChannel, UpdatedIndex
<1>1. TypeOK'
    <2>1. index_' \in [Channels -> Index] /\ events_' \in [Channels -> Interest]
        BY DEF TypeOK, UpdateChannel, UpdatedIndex, Index
    <2>2. \A d \in Channels : index_'[d] = "kDeleted" => events_'[d] = {}
        BY <1>a DEF TypeOK, UpdateChannel
    <2>3. channels_' \in [Fds -> Channels \cup {None}]
        BY DEF TypeOK, UpdateChannel
    <2>4. epoll' \in [Fds -> Entry \cup {None}]
        BY DEF TypeOK, UpdateChannel, Entry
    <2> QED
        BY <2>1, <2>2, <2>3, <2>4 DEF TypeOK, UpdateChannel, turnVars
<1>2. OneChannelPerFd' /\ ClosedIsNew'
    BY DEF ClosedIsNew, Alive, OneChannelPerFd, UpdateChannel
<1>3. EpollMatches'
    <2> SUFFICES ASSUME NEW g \in Fds, epoll'[g] # None
                 PROVE  /\ fd_'[epoll'[g].ptr] = g
                        /\ index_'[epoll'[g].ptr] = "kAdded"
                        /\ events_'[epoll'[g].ptr] = epoll'[g].events
        BY DEF EpollMatches
    <2>1. CASE g = f
        <3>1. epoll'[g] = [ptr |-> c, events |-> events] /\ fd_' = fd_
            BY <1>0, <2>1 DEF TypeOK, UpdateChannel
        <3>2. index_'[c] = "kAdded" /\ events_'[c] = events
            BY <1>0, <2>1 DEF TypeOK, UpdateChannel, UpdatedIndex
        <3> QED
            BY <2>1, <3>1, <3>2
    <2>2. CASE g # f
        <3>1. epoll'[g] = epoll[g]
            BY <1>0, <2>2 DEF TypeOK, UpdateChannel
        <3>2. epoll[g].ptr \in Channels /\ fd_[epoll[g].ptr] = g
            BY <3>1 DEF TypeOK, Consistent, EpollMatches, Entry
        <3>3. epoll[g].ptr # c
            BY <2>2, <3>2
        <3> QED
            BY <3>1, <3>2, <3>3 DEF TypeOK, Consistent, EpollMatches, UpdateChannel
    <2> QED
        BY <2>1, <2>2
<1>4. IndexMatches'
    <2> SUFFICES ASSUME NEW d \in Alive
                 PROVE  IF index_'[d] = "kAdded"
                          THEN epoll'[fd_[d]] # None /\ epoll'[fd_[d]].ptr = d
                          ELSE epoll'[fd_[d]] = None
        BY DEF IndexMatches, Alive, UpdateChannel
    <2>1. CASE d = c
        <3>1. index_'[c] = UpdatedIndex(index_[c], events)
            BY DEF TypeOK, UpdateChannel
        <3>2. epoll'[f] = IF index_[c] = "kAdded" /\ events = {}
                            THEN None ELSE [ptr |-> c, events |-> events]
            BY <1>0 DEF TypeOK, UpdateChannel
        <3>3. epoll'[f] # None => epoll'[f].ptr = c
            BY <3>2
        <3>4. epoll'[f] \in Entry => epoll'[f] # None
            OBVIOUS
        <3>5. index_'[c] = "kAdded" => epoll'[f] \in Entry
            BY <3>1, <3>2 DEF UpdatedIndex, Entry
        <3>6. index_'[c] # "kAdded" => epoll'[f] = None
            BY <3>1, <3>2 DEF UpdatedIndex
        <3> QED
            BY <2>1, <3>3, <3>4, <3>5, <3>6
    <2>2. CASE d # c
        <3>1. fd_[d] # f /\ fd_[d] \in Fds
            BY <1>0, <2>2 DEF TypeOK, OneChannelPerFd, Alive
        <3>2. epoll'[fd_[d]] = epoll[fd_[d]] /\ index_'[d] = index_[d]
            BY <2>2, <3>1 DEF TypeOK, UpdateChannel, Alive
        <3> QED
            BY <3>2 DEF Consistent, IndexMatches
    <2> QED
        BY <2>1, <2>2
<1>5. MapMatches'
    BY <1>0, <1>a DEF TypeOK, OneChannelPerFd, Consistent, MapMatches, UpdateChannel,
                      Alive
<1>6. ActiveAlive' /\ TurnsInOrder'
    <2>1. \A d \in Channels : index_[d] # "kNew" => index_'[d] # "kNew"
        BY <1>a DEF TypeOK, UpdateChannel
    <2> QED
        BY <2>1 DEF ActiveAlive, TurnsInOrder, UpdateChannel, Alive, turnVars
<1> QED
    BY <1>1, <1>2, <1>3, <1>4, <1>5, <1>6 DEF Consistent

\* removeChannel, by a plain call or from connectDestroyed: no handler of the turn
\* is left to run.  It takes the channel from all three records, whatever becomes of
\* the events_ of a channel that nobody watches.
LEMMA RemoveStep ==
    ASSUME IInv, NEW c \in Channels, RemoveChannel(c),
           events_' \in [Channels -> Interest],
           \A d \in Channels : d # c => events_'[d] = events_[d],
           phase # "dispatch", phase' = phase,
           pending' \subseteq Channels, functors' \subseteq Channels
    PROVE  IInv'
<1> USE EPollPollerAssumption DEF IInv
<1>0. fd_[c] \in Fds /\ fd_[c] # None
    BY DEF TypeOK, RemoveChannel, Alive
<1>1. TypeOK'
    <2>1. index_' \in [Channels -> Index]
        BY DEF TypeOK, RemoveChannel, Index
    <2>2. \A d \in Channels : index_'[d] = "kDeleted" => events_'[d] = {}
        BY DEF TypeOK, RemoveChannel
    <2>3. channels_' \in [Fds -> Channels \cup {None}]
        BY DEF TypeOK, RemoveChannel
    <2>4. epoll' \in [Fds -> Entry \cup {None}]
        BY DEF TypeOK, RemoveChannel
    <2> QED
        BY <2>1, <2>2, <2>3, <2>4 DEF TypeOK, RemoveChannel
<1>2. OneChannelPerFd' /\ ClosedIsNew'
    BY DEF ClosedIsNew, Alive, OneChannelPerFd, RemoveChannel
<1>3. EpollMatches'
    <2> SUFFICES ASSUME NEW g \in Fds, epoll'[g] # None
                 PROVE  /\ fd_'[epoll'[g].ptr] = g
                        /\ index_'[epoll'[g].ptr] = "kAdded"
                        /\ events_'[epoll'[g].ptr] = epoll'[g].events
        BY DEF EpollMatches
    <2>1. epoll'[g] = epoll[g]
        BY <1>0 DEF TypeOK, RemoveChannel
    <2>2. /\ epoll[g].ptr \in Channels
          /\ fd_[epoll[g].ptr] = g /\ index_[epoll[g].ptr] = "kAdded"
          /\ events_[epoll[g].ptr] = epoll[g].events
        BY <2>1 DEF TypeOK, Consistent, EpollMatches, Entry
    <2>3. epoll[g].ptr # c
        BY <1>0, <2>1, <2>2 DEF TypeOK, RemoveChannel
    <2> QED
        BY <2>1, <2>2, <2>3 DEF TypeOK, RemoveChannel
<1>4. IndexMatches'
    BY <1>0 DEF TypeOK, OneChannelPerFd, Consistent, IndexMatches, RemoveChannel,
                Entry, Alive
<1>5. MapMatches'
    BY <1>0 DEF TypeOK, OneChannelPerFd, Consistent, MapMatches, RemoveChannel, Alive
<1>6. ActiveAlive' /\ TurnsInOrder'
    BY DEF ActiveAlive, TurnsInOrder, RemoveChannel, Alive
<1> QED
    BY <1>1, <1>2, <1>3, <1>4, <1>5, <1>6 DEF Consistent

LEMMA RemoveOutsideStep ==
    ASSUME IInv, NEW c \in Channels, RemoveOutside(c)
    PROVE  IInv'
<1>1. /\ events_' \in [Channels -> Interest]
      /\ \A d \in Channels : events_'[d] = events_[d]
      /\ pending' \subseteq Channels /\ functors' \subseteq Channels
    BY DEF IInv, TypeOK, RemoveOutside, turnVars
<1> QED
    BY <1>1, RemoveStep DEF RemoveOutside, turnVars

LEMMA ConnectDestroyedStep ==
    ASSUME IInv, NEW c \in Channels, ConnectDestroyed(c)
    PROVE  IInv'
<1>1. {} \in Interest
    BY DEF Interest
<1>2. events_' \in [Channels -> Interest]
    BY <1>1 DEF IInv, TypeOK, ConnectDestroyed
<1>3. \A d \in Channels : d # c => events_'[d] = events_[d]
    BY DEF IInv, TypeOK, ConnectDestroyed
<1>4. pending' \subseteq Channels /\ functors' \subseteq Channels
    BY DEF IInv, TypeOK, ConnectDestroyed
<1> QED
    BY <1>2, <1>3, <1>4, RemoveStep DEF ConnectDestroyed

\* ~Socket: a channel that has been removed waits for no handler.
LEMMA CloseStep ==
    ASSUME IInv, NEW c \in Channels, Close(c)
    PROVE  IInv'
<1> USE EPollPollerAssumption DEF IInv
<1>0. fd_[c] \in Fds /\ fd_[c] # None /\ {} \in Interest
    BY DEF TypeOK, Close, Alive, Interest
<1>1. TypeOK'
    <2>1. events_' \in [Channels -> Interest]
        BY <1>0 DEF TypeOK, Close
    <2>2. \A d \in Channels : index_'[d] = "kDeleted" => events_'[d] = {}
        BY DEF TypeOK, Close
    <2>3. epoll' \in [Fds -> Entry \cup {None}]
        BY DEF TypeOK, Close
    <2> QED
        BY <2>1, <2>2, <2>3 DEF TypeOK, Close, turnVars
<1>2. OneChannelPerFd' /\ ClosedIsNew'
    BY DEF ClosedIsNew, Alive, TypeOK, OneChannelPerFd, Close
<1>3. EpollMatches'
    BY <1>0 DEF TypeOK, Consistent, EpollMatches, Close, Entry
<1>4. IndexMatches'
    BY <1>0 DEF TypeOK, OneChannelPerFd, Consistent, IndexMatches, Close, Entry, Alive
<1>5. MapMatches'
    BY <1>0 DEF TypeOK, OneChannelPerFd, Consistent, MapMatches, Close, Alive
<1>6. c \notin activeChannels_
    BY DEF TurnsInOrder, Close
<1>7. ActiveAlive' /\ TurnsInOrder'
    BY <1>6 DEF TypeOK, ActiveAlive, TurnsInOrder, Close, Alive, turnVars
<1> QED
    BY <1>1, <1>2, <1>3, <1>4, <1>5, <1>7 DEF Consistent

\* epoll_wait returns pointers of the epoll set: those of living, added channels.
LEMMA PollStep ==
    ASSUME IInv, Poll
    PROVE  IInv'
<1> USE EPollPollerAssumption DEF IInv
<1>1. PICK some \in SUBSET {f \in Fds : Reportable(f)} :
          /\ activeChannels_' = {epoll[f].ptr : f \in some}
          /\ listSize' = GrownSize(Cardinality(some))
    BY DEF Poll
<1>2. \A f \in some : /\ epoll[f].ptr \in Channels /\ fd_[epoll[f].ptr] = f
                      /\ index_[epoll[f].ptr] = "kAdded"
    BY <1>1 DEF TypeOK, Consistent, EpollMatches, Reportable, Entry
<1>3. UNCHANGED <<tables, ready, pending, functors>> /\ phase' = "dispatch"
    BY DEF Poll
<1>4. listSize' \in Nat \ {0}
    BY <1>1 DEF TypeOK, GrownSize
<1>5. \A d \in activeChannels_' : d \in Channels /\ fd_[d] # None /\ index_[d] = "kAdded"
    BY <1>1, <1>2
<1>6. ActiveAlive' /\ TurnsInOrder'
    BY <1>3, <1>5 DEF ActiveAlive, TurnsInOrder, Alive, tables
<1>7. TypeOK'
    BY <1>3, <1>4, <1>5 DEF TypeOK, tables
<1> QED
    BY <1>3, <1>6, <1>7 DEF OneChannelPerFd, ClosedIsNew, Consistent, EpollMatches,
                            IndexMatches, MapMatches, Alive, tables

LEMMA DispatchStep ==
    ASSUME IInv, NEW c \in Channels, Dispatch(c)
    PROVE  IInv'
<1> USE DEF IInv
<1>1. TypeOK'
    <2>1. fd_[c] \in Fds
        BY DEF TypeOK, ActiveAlive, Alive, Dispatch
    <2>2. PICK left \in SUBSET ready[fd_[c]] : ready' = [ready EXCEPT ![fd_[c]] = left]
        BY DEF Dispatch
    <2>3. ready' \in [Fds -> SUBSET Report]
        BY <2>1, <2>2 DEF TypeOK
    <2> QED
        BY <2>3 DEF TypeOK, Dispatch, tables, turnVars
<1> QED
    BY <1>1 DEF OneChannelPerFd, ClosedIsNew, Consistent, EpollMatches, IndexMatches,
                MapMatches, ActiveAlive, TurnsInOrder, Alive, Dispatch, tables, turnVars

\* The steps of the turn that touch no channel: when the phase changes, the active
\* list is empty.
LEMMA TurnStep ==
    ASSUME IInv,
           \/ EnterLoop \/ SwapFunctors \/ EndTurn
           \/ \E c \in Channels : QueueDestroyed(c)
    PROVE  IInv'
<1> USE DEF IInv
<1>1. UNCHANGED <<tables, ready, listSize, activeChannels_>>
    BY DEF EnterLoop, SwapFunctors, EndTurn, QueueDestroyed
<1>2. /\ phase' \in {"out", "poll", "dispatch", "functors"}
      /\ pending' \subseteq Channels /\ functors' \subseteq Channels
    BY DEF TypeOK, EnterLoop, SwapFunctors, EndTurn, QueueDestroyed
<1>3. activeChannels_ # {} => phase' = phase
    BY DEF TurnsInOrder, EnterLoop, SwapFunctors, EndTurn, QueueDestroyed
<1>4. TypeOK'
    BY <1>1, <1>2 DEF TypeOK, tables
<1> QED
    BY <1>1, <1>3, <1>4 DEF OneChannelPerFd, ClosedIsNew, Consistent, EpollMatches,
                            IndexMatches, MapMatches, ActiveAlive, TurnsInOrder, Alive, tables

LEMMA ArriveStep ==
    ASSUME IInv, NEW f \in Fds, NEW ev \in Report, Arrive(f, ev)
    PROVE  IInv'
BY DEF IInv, TypeOK, OneChannelPerFd, ClosedIsNew, Consistent, EpollMatches,
       IndexMatches, MapMatches, ActiveAlive, TurnsInOrder, Alive, Arrive, tables, turnVars

LEMMA NextIInv == IInv /\ [Next]_vars => IInv'
<1> SUFFICES ASSUME IInv, [Next]_vars PROVE IInv'
    OBVIOUS
<1>0. \A c \in Channels : events_[c] \in Interest
    BY DEF IInv, TypeOK
<1>1. CASE \E c \in Channels, f \in Fds : Open(c, f)
    BY <1>1, OpenStep
<1>2. CASE \E c \in Channels, ev \in Events : Enable(c, ev)
    <2>1. PICK c \in Channels, ev \in Events : Enable(c, ev)
        BY <1>2
    <2>2. events_[c] \cup {ev} \in Interest
        BY <1>0 DEF Interest
    <2> QED
        BY <2>1, <2>2, UpdateStep DEF Enable
<1>3. CASE \E c \in Channels, ev \in Events : Disable(c, ev)
    <2>1. PICK c \in Channels, ev \in Events : Disable(c, ev)
        BY <1>3
    <2>2. events_[c] \ {ev} \in Interest
        BY <1>0 DEF Interest
    <2> QED
        BY <2>1, <2>2, UpdateStep DEF Disable
<1>4. CASE \E c \in Channels : DisableAll(c)
    <2>1. {} \in Interest
        BY DEF Interest
    <2> QED
        BY <1>4, <2>1, UpdateStep DEF DisableAll
<1>5. CASE \E c \in Channels : RemoveOutside(c) \/ ConnectDestroyed(c)
    BY <1>5, RemoveOutsideStep, ConnectDestroyedStep
<1>6. CASE \E c \in Channels : Close(c)
    BY <1>6, CloseStep
<1>7. CASE \E c \in Channels : Dispatch(c)
    BY <1>7, DispatchStep
<1>8. CASE Poll
    BY <1>8, PollStep
<1>9. CASE \E f \in Fds, ev \in Report : Arrive(f, ev)
    BY <1>9, ArriveStep
<1>10. CASE \/ EnterLoop \/ SwapFunctors \/ EndTurn
            \/ \E c \in Channels : QueueDestroyed(c)
    BY <1>10, TurnStep
<1>11. CASE UNCHANGED vars
    BY <1>11 DEF IInv, TypeOK, OneChannelPerFd, ClosedIsNew, Consistent,
                 EpollMatches, IndexMatches, MapMatches, ActiveAlive, TurnsInOrder,
                 Alive, vars, turnVars
<1> QED
    BY <1>1, <1>2, <1>3, <1>4, <1>5, <1>6, <1>7, <1>8, <1>9, <1>10, <1>11
    DEF Next, LoopStep

\* The invariant of all three theorems: TypeOK and Consistent need each other, and
\* both need that a descriptor belongs to one channel.
LEMMA Invariant == Spec => []IInv
BY InitIInv, NextIInv, PTL DEF Spec

\* The channels' index, the poller's map, the epoll set and the event list keep
\* their types; a channel marked kDeleted asks for no event.
THEOREM Typing == Spec => []TypeOK
<1>1. IInv => TypeOK
    BY DEF IInv
<1> QED
    BY <1>1, Invariant, PTL

\* updateChannel, removeChannel and the reuse of descriptors keep the channels, the
\* poller's map and the epoll set in agreement.
THEOREM RecordsAgree == Spec => []Consistent
<1>1. IInv => Consistent
    BY DEF IInv
<1> QED
    BY <1>1, Invariant, PTL

\* A channel that a poll has reported lives until its handler has been called: its
\* connectDestroyed, queued before, during or after the poll, runs behind the handlers
\* of the turn, and no thread can close what has not been removed.
THEOREM NoDanglingDispatch == Spec => []ActiveAlive
<1>1. IInv => ActiveAlive
    BY DEF IInv
<1> QED
    BY <1>1, Invariant, PTL
=============================================================================
