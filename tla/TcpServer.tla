------------------------------- MODULE TcpServer -------------------------------
(***************************************************************************)
(* A TcpServer with its Acceptor and its EventLoopThreadPool               *)
(* (src/TcpServer.cc, src/Acceptor.cc, src/EventLoopThreadPool.cc): the     *)
(* base loop accepts connections and deals them out to the io loops, a      *)
(* closed connection is removed by two hops, base loop and io loop, and the *)
(* destructor ends what is left.                                           *)
(*                                                                         *)
(* Loop 0 is the base loop, the others are the pool's.  A turn of a loop is *)
(* poll, the handlers of what is active, then the functors that are in its  *)
(* queue at the swap; quit_ is read between turns, so what is queued during *)
(* the last batch stays behind.  How a loop wakes up is EventLoop's matter, *)
(* how its thread starts is EventLoopThread's, and what a connection does   *)
(* between its first and its last callback is TcpConnection's.             *)
(***************************************************************************)
EXTENDS Naturals, Sequences, FiniteSets, Functions

CONSTANTS MaxThreads,  \* bound: setThreadNum's argument
          MaxConns,    \* bound: peers that connect
          MaxShut,     \* bound: connections that are shut down at a time
          MaxOpen      \* connections for which there are descriptors

ASSUME TcpServerAssumption ==
    /\ MaxThreads \in Nat /\ MaxConns \in Nat
    /\ MaxShut \in Nat
    /\ MaxOpen \in Nat \ {0}

\* A connection's name is unique by its number, nextConnId_ at the time.
Conn == 1..MaxConns
BaseLoop == 0
Loop == 0..MaxThreads

\* The acceptor's channel, beside the connections in a poller.
AcceptChannel == 0

VARIABLES
    numThreads_, started_, startPc, starter,  \* started_ > 0; where start() is, and whose
    loops_, next_,                            \* the pool
    nextConnId_, connections_, server,        \* server: how far its end is
    listenning_, reading, backlog,            \* the acceptor; peers that wait
    pc, quit_, active, pending, functors,     \* the loops
    told,                                     \* those that ~EventLoopThread has quit
    ioLoop, state_, index_, peerEnded,        \* the connections
    ups, downs                                \* history: connectionCallback_

startVars == <<numThreads_, started_, startPc, starter, loops_>>
poolVars  == <<startVars, next_, told>>
acceptVars == <<listenning_, reading, backlog>>
loopVars  == <<pc, quit_, active, pending, functors>>
connVars  == <<state_, index_, ups, downs>>
vars == <<poolVars, nextConnId_, connections_, server, acceptVars, loopVars,
          connVars, ioLoop, peerEnded>>

\* A bound call; listen has no connection.
Call(op, c) == [op |-> op, conn |-> c]
Calls == [op : {"listen", "connectEstablished", "connectDestroyed",
                "removeConnectionInLoop"}, conn : Conn \cup {AcceptChannel}]

TypeOK ==
    /\ numThreads_ \in 0..MaxThreads /\ started_ \in BOOLEAN
    /\ startPc \in {"idle", "pool", "listen"} /\ starter \in {"base", "other"}
    /\ loops_ \in Seq(Loop \ {BaseLoop}) /\ Len(loops_) <= numThreads_
    /\ next_ \in Nat /\ (next_ = 0 \/ next_ < Len(loops_))
    /\ nextConnId_ \in 1..(MaxConns + 1)
    /\ connections_ \subseteq 1..(nextConnId_ - 1)
    /\ server \in {"up", "connections", "pool", "gone"}
    /\ listenning_ \in BOOLEAN /\ reading \in BOOLEAN /\ backlog \in 0..MaxConns
    /\ pc \in [Loop -> {"none", "out", "poll", "handle", "functors", "ended"}]
    /\ told \subseteq Loop \ {BaseLoop}
    /\ quit_ \in [Loop -> BOOLEAN]
    /\ active \in [Loop -> SUBSET (Conn \cup {AcceptChannel})]
    /\ pending \in [Loop -> Seq(Calls)] /\ functors \in [Loop -> Seq(Calls)]
    /\ ioLoop \in [Conn -> Loop]
    /\ state_ \in [Conn -> {"none", "kConnecting", "kConnected", "kDisconnecting",
                           "kDisconnected"}]
    /\ index_ \in [Conn -> {"kNew", "kAdded", "kDeleted"}]
    /\ peerEnded \subseteq Conn
    /\ ups \in [Conn -> Nat] /\ downs \in [Conn -> Nat]

\* The pool has no threads yet, whatever their number will be.
PoolInit ==
    /\ numThreads_ \in 0..MaxThreads
    /\ loops_ = <<>> /\ next_ = 0

\* The socket is bound but does not listen; its channel reads nothing.
AcceptorInit == listenning_ = FALSE /\ reading = FALSE /\ backlog = 0

ServerInit ==
    /\ started_ = FALSE /\ startPc = "idle" /\ starter = "base"
    /\ nextConnId_ = 1 /\ connections_ = {} /\ server = "up"

LoopsInit ==
    /\ pc = [l \in Loop |-> IF l = BaseLoop THEN "out" ELSE "none"] /\ told = {}
    /\ quit_ = [l \in Loop |-> FALSE]
    /\ active = [l \in Loop |-> {}]
    /\ pending = [l \in Loop |-> <<>>] /\ functors = [l \in Loop |-> <<>>]

ConnectionsInit ==
    /\ ioLoop = [c \in Conn |-> BaseLoop]
    /\ state_ = [c \in Conn |-> "none"] /\ index_ = [c \in Conn |-> "kNew"]
    /\ peerEnded = {}
    /\ ups = [c \in Conn |-> 0] /\ downs = [c \in Conn |-> 0]

\* The server has been constructed and setThreadNum called.
Init == PoolInit /\ AcceptorInit /\ ServerInit /\ LoopsInit /\ ConnectionsInit

-----------------------------------------------------------------------------
(* Who holds a connection *)

\* The calls that a loop has yet to run.  An io loop dies with its queue when its
\* thread ends; the base loop is its user's and is destroyed after the server.
CallsOf(l) ==
    IF l # BaseLoop /\ pc[l] = "ended" THEN {}
    ELSE Range(pending[l]) \cup Range(functors[l])

\* Some shared_ptr to it is left; ~TcpConnection closes its socket.
Held(c) == \/ c \in connections_
           \/ \E l \in Loop : \E call \in CallsOf(l) : call.conn = c

Accepted == 1..(nextConnId_ - 1)

NoDescriptor == Cardinality({c \in Accepted : Held(c)}) >= MaxOpen

-----------------------------------------------------------------------------
(* What the handlers do to a connection and to a queue *)

Queue(l, call) == pending' = [pending EXCEPT ![l] = Append(@, call)]

Established(c) ==
    /\ state_' = [state_ EXCEPT ![c] = "kConnected"]
    /\ index_' = [index_ EXCEPT ![c] = "kAdded"]
    /\ ups' = [ups EXCEPT ![c] = @ + 1]
    /\ UNCHANGED downs

\* Slip: the end is reported whatever the state.
DestroyReports(c) == TRUE

DestroyEnds(c) == state_[c] = "kConnected"

Destroyed(c) ==
    /\ index_' = [index_ EXCEPT ![c] = "kNew"]
    /\ IF DestroyEnds(c)
         THEN /\ state_' = [state_ EXCEPT ![c] = "kDisconnected"]
              /\ downs' = [downs EXCEPT ![c] = @ + 1]
         ELSE UNCHANGED <<state_, downs>>
    /\ UNCHANGED ups

\* Slip: the connection is erased, but not taken out of its loop's poller.
ErasedOnly(c, l, queue) == queue

\* The queues after removeConnectionInLoop has run; it always queues.
DestroyQueued(c, l, queue) ==
    [queue EXCEPT ![l] = Append(@, Call("connectDestroyed", c))]

RemoveConnectionInLoop(c) ==
    /\ connections_' = connections_ \ {c}
    /\ pending' = DestroyQueued(c, ioLoop[c], pending)

-----------------------------------------------------------------------------
(* start(): on the base loop's thread before loop(), or on another thread *)

\* Only the first call has an effect, also on the calls that race with it.
Start(t) ==
    /\ server = "up" /\ ~started_
    /\ t = "base" => pc[BaseLoop] = "out"
    /\ started_' = TRUE
    /\ startPc' = "pool" /\ starter' = t
    /\ UNCHANGED <<numThreads_, loops_, next_, told, nextConnId_, connections_, server,
                   acceptVars, loopVars, connVars, ioLoop, peerEnded>>

\* startLoop returns as soon as there is a loop, before its thread calls loop();
\* threads are numbered as they start.
StartThread ==
    /\ startPc = "pool" /\ Len(loops_) < numThreads_
    /\ loops_' = Append(loops_, Len(loops_) + 1)
    /\ pc' = [pc EXCEPT ![Len(loops_) + 1] = "out"]
    /\ UNCHANGED <<numThreads_, started_, startPc, starter, next_, told, nextConnId_,
                   connections_, server, acceptVars, quit_, active, pending,
                   functors, connVars, ioLoop, peerEnded>>

PoolStarted ==
    /\ startPc = "pool" /\ Len(loops_) = numThreads_
    /\ startPc' = "listen"
    /\ UNCHANGED <<numThreads_, started_, starter, loops_, next_, told, nextConnId_,
                   connections_, server, acceptVars, loopVars, connVars, ioLoop,
                   peerEnded>>

Listens == listenning_' = TRUE

\* Slip: the socket listens, but its channel is not in the poller.
ListenOnly == Listens /\ UNCHANGED reading

Listen == Listens /\ reading' = TRUE

StartListening ==
    /\ startPc = "listen"
    /\ startPc' = "idle" /\ starter' = "base"
    /\ IF starter = "base"
         THEN Listen /\ UNCHANGED pending
         ELSE Queue(BaseLoop, Call("listen", AcceptChannel))
              /\ UNCHANGED <<listenning_, reading>>
    /\ UNCHANGED <<numThreads_, started_, loops_, next_, told, nextConnId_,
                   connections_, server, backlog, pc, quit_, active, functors,
                   connVars, ioLoop, peerEnded>>

StartStep == StartThread \/ PoolStarted \/ StartListening

-----------------------------------------------------------------------------
(* A turn of a loop *)

\* loop() begins: a quit that came before is forgotten, and quit_ is read as it is
\* after a turn (EndTurn).  The user enters the base loop when start(), if it is his,
\* has returned.
EnterLoop(l) ==
    /\ pc[l] = "out"
    /\ l = BaseLoop /\ startPc # "idle" => starter = "other"
    /\ pc' = [pc EXCEPT ![l] = "functors"]
    /\ quit_' = [quit_ EXCEPT ![l] = FALSE]
    /\ UNCHANGED <<poolVars, nextConnId_, connections_, server, acceptVars, active,
                   pending, functors, connVars, ioLoop, peerEnded>>

\* What epoll reports in loop l: peers that wait, connections whose peer has ended.
Ready(l) ==
    {c \in peerEnded : ioLoop[c] = l /\ index_[c] = "kAdded"}
    \cup {a \in {AcceptChannel} : l = BaseLoop /\ reading /\ backlog > 0}

Poll(l) ==
    /\ pc[l] = "poll"
    /\ Ready(l) # {} \/ pending[l] # <<>> \/ quit_[l]
    /\ pc' = [pc EXCEPT ![l] = "handle"]
    /\ active' = [active EXCEPT ![l] = Ready(l)]
    /\ UNCHANGED <<poolVars, nextConnId_, connections_, server, acceptVars, quit_,
                   pending, functors, connVars, ioLoop, peerEnded>>

SwapFunctors(l) ==
    /\ pc[l] = "handle" /\ active[l] = {}
    /\ pc' = [pc EXCEPT ![l] = "functors"]
    /\ functors' = [functors EXCEPT ![l] = pending[l]]
    /\ pending' = [pending EXCEPT ![l] = <<>>]
    /\ UNCHANGED <<poolVars, nextConnId_, connections_, server, acceptVars, quit_,
                   active, connVars, ioLoop, peerEnded>>

EndTurn(l) ==
    /\ pc[l] = "functors" /\ functors[l] = <<>>
    /\ pc' = [pc EXCEPT ![l] = IF quit_[l] THEN "ended" ELSE "poll"]
    /\ UNCHANGED <<poolVars, nextConnId_, connections_, server, acceptVars, quit_,
                   active, pending, functors, connVars, ioLoop, peerEnded>>

\* The next functor of the batch.
Take(l, op) ==
    /\ functors[l] # <<>>
    /\ Head(functors[l]).op = op
    /\ functors' = [functors EXCEPT ![l] = Tail(@)]

RunFunctor(l) ==
    /\ pc[l] = "functors"
    /\ LET c == Head(functors[l]).conn IN
       \/ /\ Take(l, "listen") /\ Listen
          /\ UNCHANGED <<connVars, connections_, pending>>
       \/ /\ Take(l, "connectEstablished") /\ Established(c)
          /\ UNCHANGED <<listenning_, reading, connections_, pending>>
       \/ /\ Take(l, "connectDestroyed") /\ Destroyed(c)
          /\ UNCHANGED <<listenning_, reading, connections_, pending>>
       \/ /\ Take(l, "removeConnectionInLoop") /\ RemoveConnectionInLoop(c)
          /\ UNCHANGED <<listenning_, reading, connVars>>
    /\ UNCHANGED <<poolVars, nextConnId_, server, backlog, pc, quit_, active, ioLoop,
                   peerEnded>>

-----------------------------------------------------------------------------
(* Events: the acceptor's and a connection's *)

\* getNextLoop: round robin over the pool, or the base loop when there is none.
NextLoop == IF loops_ = <<>> THEN BaseLoop ELSE loops_[next_ + 1]

\* Slip: next_ is compared before it is advanced.
AdvanceShort == next_' = IF next_ + 2 >= Len(loops_) THEN 0 ELSE next_ + 1

\* Slip: next_ may pass the last loop by one.
AdvanceLate == next_' = IF next_ + 1 > Len(loops_) THEN 0 ELSE next_ + 1

AdvanceNext == next_' = IF next_ + 1 >= Len(loops_) THEN 0 ELSE next_ + 1

\* newConnection: named, put in the map, and handed to its loop by runInLoop, which
\* is a call when that is the base loop.
NewConnection ==
    LET c == nextConnId_ IN
    /\ AdvanceNext
    /\ nextConnId_' = nextConnId_ + 1
    /\ connections_' = connections_ \cup {c}
    /\ ioLoop' = [ioLoop EXCEPT ![c] = NextLoop]
    /\ IF NextLoop = BaseLoop
         THEN Established(c) /\ UNCHANGED pending
         ELSE /\ Queue(NextLoop, Call("connectEstablished", c))
              /\ state_' = [state_ EXCEPT ![c] = "kConnecting"]
              /\ UNCHANGED <<index_, ups, downs>>

\* accept4 fails: the peer gave up, or stays in the backlog as no descriptor is left.
AcceptFails == backlog = 0 \/ NoDescriptor

\* Acceptor::handleRead takes one peer, if it can.
HandleAccept ==
    /\ pc[BaseLoop] = "handle" /\ AcceptChannel \in active[BaseLoop]
    /\ active' = [active EXCEPT ![BaseLoop] = @ \ {AcceptChannel}]
    /\ IF AcceptFails
         THEN UNCHANGED <<backlog, next_, nextConnId_, connections_, ioLoop,
                          connVars, pending>>
         ELSE NewConnection /\ backlog' = backlog - 1
    /\ UNCHANGED <<startVars, told, server, listenning_, reading, pc, quit_, functors,
                   peerEnded>>

\* Slip: the server is not told.
TellNobody(c, l) == UNCHANGED <<connections_, pending>>

\* removeConnection: runInLoop of the base loop, called on loop l's thread.
TellServer(c, l) ==
    IF l = BaseLoop
      THEN RemoveConnectionInLoop(c)
      ELSE /\ Queue(BaseLoop, Call("removeConnectionInLoop", c))
           /\ UNCHANGED connections_

\* TcpConnection::handleClose, by HUP or by the end of the stream.
HandleClose(l, c) ==
    /\ pc[l] = "handle" /\ c \in active[l]
    /\ active' = [active EXCEPT ![l] = @ \ {c}]
    /\ state_' = [state_ EXCEPT ![c] = "kDisconnected"]
    /\ index_' = [index_ EXCEPT ![c] = "kDeleted"]
    /\ downs' = [downs EXCEPT ![c] = @ + 1]
    /\ TellServer(c, l)
    /\ UNCHANGED <<poolVars, nextConnId_, server, acceptVars, pc, quit_, functors,
                   ioLoop, peerEnded, ups>>

\* A user's thread calls shutdown() on a connection that is up.  The test of state_
\* and the store are two steps, so the store may come after the connection's end;
\* the FIN is TcpConnection's.
Shutdown(c) ==
    /\ ups[c] = 1 /\ state_[c] \in {"kConnected", "kDisconnected"}
    /\ Held(c)
    /\ Cardinality({d \in Conn : state_[d] = "kDisconnecting"}) < MaxShut
    /\ state_' = [state_ EXCEPT ![c] = "kDisconnecting"]
    /\ UNCHANGED <<poolVars, nextConnId_, connections_, server, acceptVars, loopVars,
                   index_, ups, downs, ioLoop, peerEnded>>

LoopStep(l) ==
    \/ l # BaseLoop /\ EnterLoop(l)
    \/ Poll(l) \/ SwapFunctors(l) \/ RunFunctor(l) \/ EndTurn(l)
    \/ l = BaseLoop /\ HandleAccept
    \/ \E c \in Conn : HandleClose(l, c)

-----------------------------------------------------------------------------
(* The end: the user quits the base loop and destroys the server after it *)

Quit ==
    /\ pc[BaseLoop] # "ended" /\ ~quit_[BaseLoop]
    /\ quit_' = [quit_ EXCEPT ![BaseLoop] = TRUE]
    /\ UNCHANGED <<poolVars, nextConnId_, connections_, server, acceptVars, pc,
                   active, pending, functors, connVars, ioLoop, peerEnded>>

DestroyServer ==
    /\ pc[BaseLoop] = "ended" /\ server = "up" /\ startPc = "idle"
    /\ server' = "connections"
    /\ UNCHANGED <<poolVars, nextConnId_, connections_, acceptVars, loopVars,
                   connVars, ioLoop, peerEnded>>

\* Slip: the map is left to its destructor.
DropConnection(c) == UNCHANGED <<connVars, pending>>

\* runInLoop(connectDestroyed), called on the base loop's thread.
EndConnection(c) ==
    IF ioLoop[c] = BaseLoop
      THEN Destroyed(c) /\ UNCHANGED pending
      ELSE Queue(ioLoop[c], Call("connectDestroyed", c)) /\ UNCHANGED connVars

DestroyConnection ==
    /\ server \in {"connections", "pool"}
    /\ \E c \in connections_ :
         /\ connections_' = connections_ \ {c}
         /\ EndConnection(c)
    /\ UNCHANGED <<poolVars, nextConnId_, server, acceptVars, pc, quit_, active,
                   functors, ioLoop, peerEnded>>

\* Slip: the pool goes before the connections.
PoolBeforeConnections == TRUE

ConnectionsGone == connections_ = {}

DestroyPool ==
    /\ server = "connections" /\ ConnectionsGone
    /\ server' = "pool"
    /\ UNCHANGED <<poolVars, nextConnId_, connections_, acceptVars, loopVars,
                   connVars, ioLoop, peerEnded>>

\* Slip: the thread is joined, but not told to stop.
JoinOnly(l) == UNCHANGED <<quit_, told>>

QuitLoop(l) ==
    /\ quit_' = [quit_ EXCEPT ![l] = TRUE]
    /\ told' = told \cup {l}

\* ~EventLoopThread, thread by thread: quit, once, then join.
StopThread ==
    /\ server = "pool"
    /\ \E l \in Range(loops_) \ told :
         /\ \A k \in Range(loops_) : k < l => pc[k] = "ended"
         /\ QuitLoop(l)
    /\ UNCHANGED <<startVars, next_, nextConnId_, connections_, server, acceptVars, pc,
                   active, pending, functors, connVars, ioLoop, peerEnded>>

\* The threads have been joined; the acceptor goes last.
DestroyAcceptor ==
    /\ server = "pool"
    /\ \A l \in Range(loops_) : pc[l] = "ended"
    /\ server' = "gone" /\ listenning_' = FALSE /\ reading' = FALSE
    /\ UNCHANGED <<poolVars, nextConnId_, connections_, backlog, loopVars, connVars,
                   ioLoop, peerEnded>>

DestructorStep ==
    DestroyConnection \/ DestroyPool \/ StopThread \/ DestroyAcceptor

-----------------------------------------------------------------------------
(* The peers *)

Outside ==
    UNCHANGED <<poolVars, nextConnId_, connections_, server, listenning_, reading,
                loopVars, connVars, ioLoop>>

\* A socket that does not listen refuses.
PeerConnects ==
    /\ backlog + Cardinality(Accepted) < MaxConns
    /\ listenning_
    /\ backlog' = backlog + 1
    /\ UNCHANGED peerEnded /\ Outside

\* A peer leaves the backlog before it is accepted.
PeerGivesUp ==
    /\ backlog > 0
    /\ backlog' = backlog - 1
    /\ UNCHANGED peerEnded /\ Outside

PeerEnds ==
    /\ \E c \in Accepted \ peerEnded : peerEnded' = peerEnded \cup {c}
    /\ UNCHANGED backlog /\ Outside

Next ==
    \/ \E t \in {"base", "other"} : Start(t)
    \/ StartStep \/ EnterLoop(BaseLoop)
    \/ \E l \in Loop : LoopStep(l)
    \/ \E c \in Conn : Shutdown(c)
    \/ Quit \/ DestroyServer \/ DestructorStep
    \/ PeerConnects \/ PeerGivesUp \/ PeerEnds

Spec == Init /\ [][Next]_vars

\* Threads that run a loop, start() or the destructor go on.
FairSpec ==
    /\ Spec
    /\ \A l \in Loop : WF_vars(LoopStep(l))
    /\ WF_vars(StartStep)
    /\ WF_vars(DestructorStep)

-----------------------------------------------------------------------------
(* Properties *)

Share(l) == Cardinality({c \in Accepted : ioLoop[c] = l})

\* getNextLoop deals the connections out evenly: no two loops of the pool differ by
\* more than one, and the base loop has connections only if there is no pool.
Balanced ==
    /\ \A k, l \in 1..numThreads_ : Share(k) <= Share(l) + 1
    /\ numThreads_ > 0 => Share(BaseLoop) = 0

\* While its loop runs, a connection whose channel is in the poller is held by the
\* map or by a call on its way (removeConnection, removeConnectionInLoop and the
\* destructor hand it over): the poller's pointers stay good, at every hop.
RegisteredIsHeld ==
    \A c \in Accepted :
        index_[c] # "kNew" /\ pc[ioLoop[c]] # "ended" => Held(c)

\* Map, hops, swaps, quits and the destructor do not show: for its user a connection
\* comes up once, goes down once (although both the peer, by handleClose, and the
\* server, by connectDestroyed, may end it), and is held from the first to the last
\* callback on it.
Life == INSTANCE ConnectionLife WITH
    accepted <- Accepted,
    held     <- {c \in Accepted : Held(c)},
    ended    <- {c \in Accepted : pc[ioLoop[c]] = "ended"},
    shut     <- {c \in Accepted : state_[c] = "kDisconnecting"},
    dying    <- server # "up"

ImplementsConnectionLife == Life!Spec

\* When ~TcpServer returns the user has heard of every end, but of those whose
\* connectDestroyed was queued behind its loop's last batch and dropped, and of
\* connections he had shut down: connectDestroyed is silent about kDisconnecting.
EndReported ==
    server = "gone" =>
        \A c \in Accepted :
            \/ ups[c] = downs[c]
            \/ state_[c] = "kDisconnecting"
            \/ Call("connectDestroyed", c) \in Range(pending[ioLoop[c]])

\* Nobody gives a call to a loop of the pool whose thread has ended: the loop lay on
\* that thread's stack (the order of ~TcpServer and of its members sees to it).
NoCallAfterEnd ==
    [][\A l \in Loop \ {BaseLoop} : pc[l] = "ended" => pending'[l] = pending[l]]_vars

\* A connection whose peer has ended is removed by both hops and freed, and its
\* descriptor with it, unless the user quits the base loop.
PeerEndFrees ==
    \A c \in Conn : c \in peerEnded ~> (~Held(c) \/ quit_[BaseLoop])

\* Once the server is started and its loop runs, nobody waits in the backlog for
\* ever while there are descriptors; also not after a time without.
BacklogAccepted ==
    (started_ /\ backlog > 0)
        ~> (backlog = 0 \/ NoDescriptor \/ pc[BaseLoop] = "out" \/ quit_[BaseLoop])

\* A thread of the pool was told to stop before it had begun its loop().
QuitLost == \E l \in told : ~quit_[l]

\* ~TcpServer returns: every thread of the pool is told to stop and stops, unless it
\* was told too early, and joined for ever (EventLoopThread's run shows that one).
ServerDestructorReturns == server = "connections" ~> (server = "gone" \/ QuitLost)
=============================================================================
