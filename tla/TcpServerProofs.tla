---------------------------- MODULE TcpServerProofs ----------------------------
(***************************************************************************)
(* Proofs about TcpServer, for any number of threads, connections and        *)
(* descriptors: connections are dealt out evenly, what a poller knows is held,  *)
(* every end is reported but the two kinds that EndReported names, and the      *)
(* whole implements ConnectionLife.                                           *)
(***************************************************************************)
EXTENDS TcpServer, SequenceTheorems, FiniteSetTheorems, TLAPS

-----------------------------------------------------------------------------
(* The inductive invariant *)

\* The calls of each loop in the order in which they will run, and as a set.
Lines == [l \in Loop |-> functors[l] \o pending[l]]

Waits == [l \in Loop |-> Range(Lines[l])]

Has(op, c, l) == Call(op, c) \in Waits[l]

\* No call waits twice, and a connection is established before it is destroyed.
InOrder(q) ==
    /\ \A i, j \in DOMAIN q : q[i] = q[j] => i = j
    /\ \A i, j \in DOMAIN q :
         q[i].op = "connectEstablished" /\ q[j].op = "connectDestroyed"
           /\ q[i].conn = q[j].conn => i < j

\* Where a call may wait.
Placed(call, l) ==
    \/ call = Call("listen", AcceptChannel) /\ l = BaseLoop
    \/ /\ call.op = "removeConnectionInLoop" /\ l = BaseLoop
       /\ call.conn \in Accepted /\ ioLoop[call.conn] # BaseLoop
    \/ /\ call.op = "connectEstablished" /\ l # BaseLoop
       /\ call.conn \in Accepted /\ ioLoop[call.conn] = l
    \/ /\ call.op = "connectDestroyed"
       /\ call.conn \in Accepted /\ ioLoop[call.conn] = l

LinesInOrder == \A l \in Loop : InOrder(Lines[l])

CallsPlaced == \A l \in Loop : \A call \in Waits[l] : Placed(call, l)

\* The pool's loops are numbered from 1 as they start.
PoolNumbered ==
    /\ \A i \in DOMAIN loops_ : loops_[i] = i
    /\ \A l \in Loop \ {BaseLoop} : pc[l] = "none" <=> l > Len(loops_)
    /\ \A c \in Accepted : ioLoop[c] \in 0..Len(loops_)

\* Nothing is accepted before start() has filled the pool.
StartedFirst ==
    /\ ~started_ => startPc = "idle" /\ loops_ = <<>>
    /\ started_ /\ startPc # "pool" => Len(loops_) = numThreads_
    /\ reading \/ nextConnId_ > 1 \/ AcceptChannel \in active[BaseLoop]
         \/ Has("listen", AcceptChannel, BaseLoop)
         => started_ /\ startPc = "idle"

\* The destructor comes after the base loop; it stops the pool's threads last.
EndsInOrder ==
    /\ server # "up" => pc[BaseLoop] = "ended" /\ startPc = "idle"
    /\ server \in {"up", "connections"} =>
         \A l \in Loop \ {BaseLoop} : ~quit_[l] /\ pc[l] # "ended"
    /\ server \in {"pool", "gone"} => connections_ = {}
    /\ server = "gone" => \A l \in 1..Len(loops_) : pc[l] = "ended"

\* Active channels and functors are there only while the loop handles them.
InPhase ==
    \A l \in Loop :
        /\ functors[l] # <<>> => pc[l] = "functors"
        /\ active[l] # {} => pc[l] = "handle"
        /\ \A c \in active[l] \ {AcceptChannel} :
             c \in Accepted /\ ioLoop[c] = l /\ index_[c] = "kAdded"

\* Nothing has happened to a connection that has not been accepted.
FreshUntouched ==
    /\ \A c \in Conn \ Accepted : ups[c] = 0 /\ downs[c] = 0 /\ index_[c] = "kNew"
    /\ peerEnded \subseteq Accepted

\* A connection is in the map, or on its way out of it.
Kept(c) == c \in connections_ \/ Has("connectDestroyed", c, ioLoop[c])

\* One that has not gone down is taken out of the map only by the destructor.
KeptUp(c) == Kept(c) /\ (server = "up" => c \in connections_)

\* How far a connection is.
Waiting(c) ==
    /\ ups[c] = 0 /\ downs[c] = 0 /\ state_[c] = "kConnecting" /\ index_[c] = "kNew"
    /\ Has("connectEstablished", c, ioLoop[c])
    /\ ~Has("removeConnectionInLoop", c, BaseLoop)
    /\ KeptUp(c)

Up(c) ==
    /\ ups[c] = 1 /\ downs[c] = 0
    /\ state_[c] \in {"kConnected", "kDisconnecting"} /\ index_[c] = "kAdded"
    /\ ~Has("connectEstablished", c, ioLoop[c])
    /\ ~Has("removeConnectionInLoop", c, BaseLoop)
    /\ KeptUp(c)

Down(c) ==
    /\ ups[c] = 1 /\ downs[c] = 1
    /\ state_[c] \in {"kDisconnected", "kDisconnecting"} /\ index_[c] = "kDeleted"
    /\ ~Has("connectEstablished", c, ioLoop[c])
    /\ c \in connections_ => Has("removeConnectionInLoop", c, BaseLoop)
    /\ Kept(c)

\* The end of one that was shut down is reported, unless the destructor came first.
Reported(c) ==
    \/ downs[c] = 1 /\ state_[c] \in {"kDisconnected", "kDisconnecting"}
    \/ downs[c] = 0 /\ state_[c] = "kDisconnecting" /\ server # "up"

Removed(c) ==
    /\ ups[c] = 1 /\ Reported(c) /\ index_[c] = "kNew"
    /\ ~Has("connectEstablished", c, ioLoop[c])
    /\ ~Kept(c)

\* It leaves the map once, by removeConnectionInLoop or by the destructor.
LeavesOnce(c) ==
    /\ c \in connections_ => ~Has("connectDestroyed", c, ioLoop[c])
    /\ Has("removeConnectionInLoop", c, BaseLoop) /\ pc[BaseLoop] # "ended"
         => c \in connections_

InStage(c) == (Waiting(c) \/ Up(c) \/ Down(c) \/ Removed(c)) /\ LeavesOnce(c)

Staged == \A c \in Accepted : InStage(c)

\* The loops up to next_ have had one connection more than those behind it.
Dealt ==
    /\ nextConnId_ = 1 => next_ = 0
    /\ \E r \in Nat : \A l \in 1..Len(loops_) :
         Share(l) = IF l <= next_ THEN r + 1 ELSE r
    /\ loops_ # <<>> => Share(BaseLoop) = 0

RoomLeft == backlog + nextConnId_ <= MaxConns + 1

IInv ==
    /\ TypeOK /\ RoomLeft
    /\ PoolNumbered /\ StartedFirst /\ EndsInOrder /\ InPhase
    /\ LinesInOrder /\ CallsPlaced /\ FreshUntouched /\ Staged /\ Dealt

-----------------------------------------------------------------------------
(* Queues *)

USE TcpServerAssumption DEF startVars, poolVars, acceptVars, loopVars, connVars

LEMMA CallsTyped ==
  \A op \in {"listen", "connectEstablished", "connectDestroyed",
             "removeConnectionInLoop"}, c \in Conn \cup {AcceptChannel} :
      Call(op, c) \in Calls /\ Call(op, c).op = op /\ Call(op, c).conn = c
BY DEF Call, Calls

\* A call that is appended is one more, and the order stays if it is new and, when it
\* establishes a connection, is not behind the end of that connection.
LEMMA AppendInOrder ==
  ASSUME NEW S, NEW q \in Seq(S), NEW e \in S, InOrder(q), e \notin Range(q),
         \A d \in Range(q) :
             e.op = "connectEstablished" /\ d.op = "connectDestroyed"
               => d.conn # e.conn
  PROVE  /\ InOrder(Append(q, e))
         /\ Range(Append(q, e)) = Range(q) \cup {e}
<1> DEFINE a == Append(q, e)
<1>1. /\ DOMAIN q = 1..Len(q)
      /\ DOMAIN a = 1..(Len(q) + 1)
      /\ a[Len(q) + 1] = e
      /\ \A i \in 1..Len(q) : a[i] = q[i]
      /\ Len(q) \in Nat
  OBVIOUS
<1> HIDE DEF a
<1>2. \A i \in DOMAIN q : q[i] \in Range(q)
  BY DEF Range
<1>3. ASSUME NEW i \in DOMAIN a, NEW j \in DOMAIN a, a[i] = a[j]
      PROVE  i = j
  BY <1>1, <1>2, <1>3 DEF InOrder
<1>4. ASSUME NEW i \in DOMAIN a, NEW j \in DOMAIN a,
             a[i].op = "connectEstablished", a[j].op = "connectDestroyed",
             a[i].conn = a[j].conn
      PROVE  i < j
  <2>1. i \in 1..Len(q) \/ i = Len(q) + 1
    BY <1>1
  <2>2. CASE i = Len(q) + 1
    <3>1. j \notin 1..Len(q)
      BY <1>1, <1>2, <1>4, <2>2
    <3> QED BY <1>1, <1>4, <2>2, <3>1
  <2>3. CASE i \in 1..Len(q)
    BY <1>1, <1>4, <2>3 DEF InOrder
  <2> QED BY <2>1, <2>2, <2>3
<1>5. InOrder(a)
  BY <1>3, <1>4 DEF InOrder
<1>6. Range(a) = Range(q) \cup {e}
  <2>1. \A i \in DOMAIN a : a[i] \in Range(q) \cup {e}
    BY <1>1, <1>2
  <2>2. \A i \in DOMAIN q : q[i] \in Range(a)
    BY <1>1 DEF Range
  <2>3. e \in Range(a)
    BY <1>1 DEF Range
  <2> QED BY <2>1, <2>2, <2>3 DEF Range
<1> QED BY <1>5, <1>6 DEF a

\* The call that is taken waited once, and an end that is taken has nothing behind it.
LEMMA TailInOrder ==
  ASSUME NEW S, NEW q \in Seq(S), InOrder(q), q # <<>>
  PROVE  /\ InOrder(Tail(q))
         /\ Range(Tail(q)) = Range(q) \ {Head(q)}
         /\ Head(q) \in Range(q)
         /\ \A d \in Range(q) :
               Head(q).op = "connectDestroyed" /\ d.op = "connectEstablished"
                 => d.conn # Head(q).conn
<1> DEFINE a == Tail(q)
<1>1. /\ DOMAIN q = 1..Len(q)
      /\ DOMAIN a = 1..(Len(q) - 1)
      /\ Head(q) = q[1]
      /\ \A i \in DOMAIN a : a[i] = q[i + 1] /\ i + 1 \in DOMAIN q
      /\ Len(q) \in Nat \ {0}
  OBVIOUS
<1> HIDE DEF a
<1>2. InOrder(a)
  BY SMTT(30), <1>1 DEF InOrder
<1>3. ASSUME NEW i \in DOMAIN a PROVE a[i] \in Range(q) \ {Head(q)}
  <2>1. a[i] \in Range(q)
    BY <1>1 DEF Range
  <2>2. i + 1 # 1 /\ 1 \in DOMAIN q
    BY <1>1
  <2> QED BY <1>1, <2>1, <2>2 DEF InOrder
<1>4. ASSUME NEW i \in DOMAIN q, i # 1 PROVE q[i] \in Range(a)
  <2>1. i - 1 \in DOMAIN a /\ a[i - 1] = q[i]
    BY <1>1, <1>4
  <2> QED BY <2>1 DEF Range
<1>5. Head(q) \in Range(q)
  BY <1>1 DEF Range
<1>6. Range(a) = Range(q) \ {Head(q)}
  BY <1>1, <1>3, <1>4 DEF Range
<1>7. ASSUME NEW d \in Range(q), Head(q).op = "connectDestroyed",
             d.op = "connectEstablished", d.conn = Head(q).conn
      PROVE  FALSE
  <2>1. PICK i \in DOMAIN q : d = q[i]
    BY DEF Range
  <2>2. i < 1
    BY <1>1, <1>7, <2>1 DEF InOrder
  <2> QED BY <1>1, <2>2
<1> QED BY <1>2, <1>5, <1>6, <1>7 DEF a

\* A line is a batch and the queue behind it: a swap moves the queue, a call is
\* appended to the queue, a functor that runs leaves the batch.
LEMMA SwapKeepsLine ==
  ASSUME NEW S, NEW p \in Seq(S)
  PROVE  p \o <<>> = <<>> \o p
OBVIOUS

LEMMA QueueExtendsLine ==
  ASSUME NEW S, NEW f \in Seq(S), NEW p \in Seq(S), NEW e \in S
  PROVE  f \o Append(p, e) = Append(f \o p, e)
OBVIOUS

LEMMA TakeShortensLine ==
  ASSUME NEW S, NEW f \in Seq(S), NEW p \in Seq(S), f # <<>>
  PROVE  /\ f \o p # <<>>
         /\ Head(f \o p) = Head(f)
         /\ Tail(f \o p) = Tail(f) \o p
OBVIOUS

LEMMA RangeOfConcat ==
  ASSUME NEW S, NEW f \in Seq(S), NEW p \in Seq(S)
  PROVE  Range(f \o p) = Range(f) \cup Range(p)
<1> DEFINE q == f \o p
<1>1. /\ DOMAIN q = 1..(Len(f) + Len(p))
      /\ DOMAIN f = 1..Len(f) /\ DOMAIN p = 1..Len(p)
      /\ Len(f) \in Nat /\ Len(p) \in Nat
      /\ \A i \in 1..Len(f) : q[i] = f[i]
      /\ \A i \in 1..Len(p) : q[Len(f) + i] = p[i]
      /\ \A i \in DOMAIN q : i > Len(f) => i - Len(f) \in 1..Len(p) /\ q[i] = p[i - Len(f)]
  OBVIOUS
<1> HIDE DEF q
<1>2. \A i \in DOMAIN q : q[i] \in Range(f) \cup Range(p)
  <2> TAKE i \in DOMAIN q
  <2>1. CASE i > Len(f)
    BY <1>1, <2>1 DEF Range
  <2>2. CASE ~(i > Len(f))
    BY <1>1, <2>2 DEF Range
  <2> QED BY <2>1, <2>2
<1>3. \A i \in DOMAIN f : f[i] \in Range(q)
  BY <1>1 DEF Range
<1>4. \A i \in DOMAIN p : p[i] \in Range(q)
  <2> TAKE i \in DOMAIN p
  <2>1. Len(f) + i \in DOMAIN q /\ q[Len(f) + i] = p[i]
    BY <1>1
  <2> QED BY <2>1 DEF Range
<1> QED BY <1>2, <1>3, <1>4 DEF q, Range
-----------------------------------------------------------------------------
(* Types *)

LEMMA WaitsSplit ==
  ASSUME NEW l \in Loop, functors[l] \in Seq(Calls), pending[l] \in Seq(Calls)
  PROVE  Waits[l] = Range(functors[l]) \cup Range(pending[l])
<1>1. Waits[l] = Range(functors[l] \o pending[l])
  BY DEF Waits, Lines
<1> QED BY <1>1, RangeOfConcat

LEMMA AcceptedCount ==
  TypeOK => /\ IsFiniteSet(Accepted)
            /\ Cardinality(Accepted) = nextConnId_ - 1
            /\ Accepted \subseteq Conn
<1> SUFFICES ASSUME TypeOK
             PROVE  /\ IsFiniteSet(Accepted)
                    /\ Cardinality(Accepted) = nextConnId_ - 1
                    /\ Accepted \subseteq Conn
  OBVIOUS
<1>1. nextConnId_ \in 1..(MaxConns + 1)
  BY DEF TypeOK
<1>2. 1 \in Int /\ nextConnId_ - 1 \in Int
  BY <1>1
<1>3. /\ IsFiniteSet(1..(nextConnId_ - 1))
      /\ Cardinality(1..(nextConnId_ - 1)) =
           IF 1 > nextConnId_ - 1 THEN 0 ELSE nextConnId_ - 1 - 1 + 1
  BY <1>2, FS_Interval
<1> QED BY <1>1, <1>3 DEF Accepted, Conn

ConnectionStates ==
    {"none", "kConnecting", "kConnected", "kDisconnecting", "kDisconnected"}

ConnectionTypes ==
    /\ state_ \in [Conn -> ConnectionStates]
    /\ index_ \in [Conn -> {"kNew", "kAdded", "kDeleted"}]
    /\ ups \in [Conn -> Nat] /\ downs \in [Conn -> Nat]

LEMMA EstablishedTyped ==
  ASSUME ConnectionTypes, NEW c, Established(c)
  PROVE  ConnectionTypes'
<1> USE DEF ConnectionStates, ConnectionTypes, Established
<1>1. state_' \in [Conn -> ConnectionStates]
  OBVIOUS
<1>2. index_' \in [Conn -> {"kNew", "kAdded", "kDeleted"}]
  OBVIOUS
<1>3. ups' \in [Conn -> Nat]
  <2>1. ups' = [ups EXCEPT ![c] = ups[c] + 1] /\ (c \in Conn => ups[c] + 1 \in Nat)
    OBVIOUS
  <2> QED BY <2>1
<1> QED BY <1>1, <1>2, <1>3

LEMMA DestroyedTyped ==
  ASSUME ConnectionTypes, NEW c, Destroyed(c)
  PROVE  ConnectionTypes'
<1> USE DEF ConnectionStates, ConnectionTypes, Destroyed
<1>1. state_' \in [Conn -> ConnectionStates]
  OBVIOUS
<1>2. index_' \in [Conn -> {"kNew", "kAdded", "kDeleted"}]
  OBVIOUS
<1>3. downs' \in [Conn -> Nat]
  <2>1. \/ downs' = downs
        \/ downs' = [downs EXCEPT ![c] = downs[c] + 1] /\ (c \in Conn => downs[c] + 1 \in Nat)
    OBVIOUS
  <2> QED BY <2>1
<1> QED BY <1>1, <1>2, <1>3

LEMMA QueueTyped ==
  ASSUME pending \in [Loop -> Seq(Calls)], NEW l \in Loop, NEW call \in Calls,
         Queue(l, call)
  PROVE  pending' \in [Loop -> Seq(Calls)]
<1>1. pending[l] \in Seq(Calls)
  OBVIOUS
<1>2. Append(pending[l], call) \in Seq(Calls)
  BY <1>1
<1> QED BY <1>2 DEF Queue

\* Every step keeps the types, and there is room for every peer that waits.
LEMMA TypingStep ==
  ASSUME TypeOK, RoomLeft, [Next]_vars
  PROVE  TypeOK' /\ RoomLeft'
<1> USE DEF TypeOK, RoomLeft, Accepted, ConnectionTypes, ConnectionStates
<1>0. BaseLoop \in Loop /\ AcceptChannel \notin Conn
  BY DEF Loop, BaseLoop, Conn, AcceptChannel
<1>1. ASSUME NEW s \in {"base", "other"}, Start(s) PROVE TypeOK' /\ RoomLeft'
  BY <1>1 DEF Start
<1>2. CASE StartThread
  <2>1. Len(loops_) + 1 \in Loop \ {BaseLoop} /\ Len(loops_) \in Nat
    BY SMTT(30), <1>2 DEF StartThread, Loop, BaseLoop
  <2>2. loops_' \in Seq(Loop \ {BaseLoop}) /\ Len(loops_') = Len(loops_) + 1
    BY <1>2, <2>1 DEF StartThread
  <2> QED BY <1>2, <2>1, <2>2 DEF StartThread
<1>3. CASE PoolStarted BY <1>3 DEF PoolStarted
<1>4. CASE StartListening
  <2>1. pending' \in [Loop -> Seq(Calls)]
    <3>1. CASE starter = "base"
      BY <1>4, <3>1 DEF StartListening
    <3>2. CASE starter # "base"
      <4>1. Queue(BaseLoop, Call("listen", AcceptChannel)) /\ Call("listen", AcceptChannel) \in Calls
        BY <1>4, <3>2, CallsTyped DEF StartListening
      <4> QED BY <1>0, <4>1, QueueTyped
    <3> QED BY <3>1, <3>2
  <2>2. listenning_' \in BOOLEAN /\ reading' \in BOOLEAN
    BY <1>4 DEF StartListening, Listen, Listens
  <2> QED BY <1>4, <2>1, <2>2 DEF StartListening
<1>e. ASSUME NEW l \in Loop, EnterLoop(l) PROVE TypeOK' /\ RoomLeft'
  BY <1>e DEF EnterLoop
<1>5. CASE EnterLoop(BaseLoop) BY <1>0, <1>5, <1>e
<1>6. ASSUME NEW l \in Loop, LoopStep(l) PROVE TypeOK' /\ RoomLeft'
  <2>0. CASE EnterLoop(l) BY <1>e, <2>0
  <2>1. CASE Poll(l)
    <3>1. Ready(l) \in SUBSET (Conn \cup {AcceptChannel})
      BY DEF Ready
    <3> QED BY <2>1, <3>1 DEF Poll
  <2>2. CASE SwapFunctors(l) BY <2>2 DEF SwapFunctors
  <2>3. CASE EndTurn(l) BY <2>3 DEF EndTurn
  <2>4. CASE RunFunctor(l)
    <3> DEFINE c == Head(functors[l]).conn
    <3>0. functors[l] \in Seq(Calls)
      OBVIOUS
    <3>1. functors[l] # <<>> => /\ c \in Conn \cup {AcceptChannel}
                               /\ Tail(functors[l]) \in Seq(Calls)
      <4> HAVE functors[l] # <<>>
      <4>1. Head(functors[l]) \in Calls /\ Tail(functors[l]) \in Seq(Calls)
        BY <3>0
      <4> QED BY <4>1 DEF Calls
    <3> HIDE DEF c
    <3>2. ASSUME functors[l] # <<>>, functors' = [functors EXCEPT ![l] = Tail(@)]
          PROVE  functors' \in [Loop -> Seq(Calls)]
      BY <3>1, <3>2
    <3>3. ASSUME functors[l] # <<>>, RemoveConnectionInLoop(c)
          PROVE  /\ pending' \in [Loop -> Seq(Calls)]
                 /\ connections_' \subseteq 1..(nextConnId_ - 1)
      <4>1. Call("connectDestroyed", c) \in Calls
        BY <3>1, <3>3, CallsTyped
      <4>2. pending' \in [Loop -> Seq(Calls)]
        <5>1. CASE ioLoop[c] \in Loop
          <6>1. Queue(ioLoop[c], Call("connectDestroyed", c))
            BY <3>3 DEF RemoveConnectionInLoop, DestroyQueued, Queue
          <6> QED BY <4>1, <5>1, <6>1, QueueTyped
        <5>2. CASE ioLoop[c] \notin Loop
          <6>1. pending' = pending
            BY <3>3, <5>2 DEF RemoveConnectionInLoop, DestroyQueued
          <6> QED BY <6>1
        <5> QED BY <5>1, <5>2
      <4> QED BY <3>3, <4>2 DEF RemoveConnectionInLoop
    <3>4. CASE Take(l, "listen") /\ Listen /\ UNCHANGED <<connVars, connections_, pending>>
      BY <2>4, <3>2, <3>4 DEF RunFunctor, Take, Listen, Listens
    <3>5. CASE Take(l, "connectEstablished") /\ Established(c)
                 /\ UNCHANGED <<listenning_, reading, connections_, pending>>
      BY ZenonT(40), <2>4, <3>2, <3>5, EstablishedTyped DEF RunFunctor, Take
    <3>6. CASE Take(l, "connectDestroyed") /\ Destroyed(c)
                 /\ UNCHANGED <<listenning_, reading, connections_, pending>>
      BY ZenonT(40), <2>4, <3>2, <3>6, DestroyedTyped DEF RunFunctor, Take
    <3>7. CASE Take(l, "removeConnectionInLoop") /\ RemoveConnectionInLoop(c)
                 /\ UNCHANGED <<listenning_, reading, connVars>>
      BY <2>4, <3>2, <3>3, <3>7 DEF RunFunctor, Take
    <3> QED BY <2>4, <3>4, <3>5, <3>6, <3>7 DEF RunFunctor, c
  <2>5. CASE HandleAccept
    <3>1. CASE AcceptFails
      BY <2>5, <3>1 DEF HandleAccept
    <3>2. CASE ~AcceptFails
      <4>1. NewConnection /\ backlog' = backlog - 1 /\ backlog > 0
        BY <2>5, <3>2 DEF HandleAccept, AcceptFails
      <4>2. nextConnId_ \in Conn /\ nextConnId_' = nextConnId_ + 1
        BY <4>1 DEF NewConnection, Conn
      <4>3. NextLoop \in Loop
        <5>1. CASE loops_ = <<>>
          BY <1>0, <5>1 DEF NextLoop
        <5>2. CASE loops_ # <<>>
          <6>1. next_ + 1 \in 1..Len(loops_) /\ Len(loops_) \in Nat /\ loops_ \in Seq(Loop)
            BY <5>2
          <6> QED BY <5>2, <6>1 DEF NextLoop
        <5> QED BY <5>1, <5>2
      <4>4. next_' \in Nat /\ (next_' = 0 \/ next_' < Len(loops_))
        BY <4>1 DEF NewConnection, AdvanceNext
      <4>5. connections_' \subseteq 1..(nextConnId_' - 1)
        <5>1. connections_' = connections_ \cup {nextConnId_}
          BY <4>1 DEF NewConnection
        <5>2. nextConnId_ \in Nat \ {0} /\ nextConnId_' - 1 = nextConnId_
          BY <4>2 DEF Conn
        <5> QED BY <5>1, <5>2
      <4>6. Call("connectEstablished", nextConnId_) \in Calls
        BY <4>2, CallsTyped
      <4>7. /\ ioLoop' \in [Conn -> Loop]
            /\ pending' \in [Loop -> Seq(Calls)]
            /\ ConnectionTypes'
        <5>1. ioLoop' \in [Conn -> Loop]
          BY <4>1, <4>3 DEF NewConnection
        <5>2. CASE NextLoop = BaseLoop
          BY <4>1, <5>1, <5>2, EstablishedTyped DEF NewConnection
        <5>3. CASE NextLoop # BaseLoop
          <6>1. pending' \in [Loop -> Seq(Calls)]
            BY <4>1, <4>3, <4>6, <5>3, QueueTyped DEF NewConnection
          <6> QED BY <4>1, <5>1, <5>3, <6>1 DEF NewConnection
        <5> QED BY <5>2, <5>3
      <4>8. backlog' \in 0..MaxConns /\ nextConnId_' \in 1..(MaxConns + 1) /\ RoomLeft'
        BY <4>1, <4>2
      <4> QED BY <2>5, <3>2, <4>4, <4>5, <4>7, <4>8 DEF HandleAccept
    <3> QED BY <3>1, <3>2
  <2>6. ASSUME NEW c \in Conn, HandleClose(l, c) PROVE TypeOK' /\ RoomLeft'
    <3>1. /\ pending' \in [Loop -> Seq(Calls)]
          /\ connections_' \subseteq 1..(nextConnId_ - 1)
      <4>1. /\ Call("connectDestroyed", c) \in Calls
            /\ Call("removeConnectionInLoop", c) \in Calls
        BY CallsTyped
      <4>2. ioLoop[c] \in Loop
        OBVIOUS
      <4>3. CASE l = BaseLoop
        <5>1. /\ Queue(ioLoop[c], Call("connectDestroyed", c))
              /\ connections_' = connections_ \ {c}
          BY <2>6, <4>3 DEF HandleClose, TellServer, RemoveConnectionInLoop,
                            DestroyQueued, Queue
        <5> QED BY <4>1, <4>2, <5>1, QueueTyped
      <4>4. CASE l # BaseLoop
        <5>1. /\ Queue(BaseLoop, Call("removeConnectionInLoop", c))
              /\ connections_' = connections_
          BY <2>6, <4>4 DEF HandleClose, TellServer
        <5> QED BY <1>0, <4>1, <5>1, QueueTyped
      <4> QED BY <4>3, <4>4
    <3>2. active' \in [Loop -> SUBSET (Conn \cup {AcceptChannel})]
      BY <2>6 DEF HandleClose
    <3>3. ConnectionTypes'
      BY SMTT(30), <2>6 DEF HandleClose
    <3> QED BY <2>6, <3>1, <3>2, <3>3 DEF HandleClose
  <2> QED BY <1>6, <2>0, <2>1, <2>2, <2>3, <2>4, <2>5, <2>6 DEF LoopStep
<1>s. ASSUME NEW c \in Conn, Shutdown(c) PROVE TypeOK' /\ RoomLeft'
  BY <1>s DEF Shutdown
<1>7. CASE Quit BY <1>7 DEF Quit
<1>8. CASE DestroyServer BY <1>8 DEF DestroyServer
<1>9. CASE DestroyConnection
  <2>1. PICK c \in connections_ : connections_' = connections_ \ {c} /\ EndConnection(c)
    BY <1>9 DEF DestroyConnection
  <2>2. c \in Conn /\ Call("connectDestroyed", c) \in Calls /\ ioLoop[c] \in Loop
    BY CallsTyped DEF Conn
  <2>3. ConnectionTypes' /\ pending' \in [Loop -> Seq(Calls)]
    <3>1. CASE ioLoop[c] = BaseLoop
      BY <2>1, <3>1, DestroyedTyped DEF EndConnection
    <3>2. CASE ioLoop[c] # BaseLoop
      <4>1. /\ Queue(ioLoop[c], Call("connectDestroyed", c))
            /\ UNCHANGED connVars
        BY <2>1, <3>2 DEF EndConnection
      <4> QED BY <2>2, <4>1, QueueTyped
    <3> QED BY <3>1, <3>2
  <2> QED BY <1>9, <2>1, <2>3 DEF DestroyConnection
<1>10. CASE DestroyPool BY <1>10 DEF DestroyPool
<1>11. CASE StopThread
  <2>1. Range(loops_) \subseteq Loop \ {BaseLoop}
    BY DEF Range
  <2> QED BY <1>11, <2>1 DEF StopThread, QuitLoop
<1>12. CASE DestroyAcceptor BY <1>12 DEF DestroyAcceptor
<1>13. CASE PeerConnects
  <2>1. backlog + (nextConnId_ - 1) < MaxConns
    BY <1>13, AcceptedCount DEF PeerConnects
  <2> QED BY <1>13, <2>1 DEF PeerConnects, Outside
<1>14. CASE PeerGivesUp BY <1>14 DEF PeerGivesUp, Outside
<1>15. CASE PeerEnds
  <2>1. peerEnded' \subseteq Conn
    BY SMTT(30), <1>15 DEF PeerEnds, Conn
  <2> QED BY <1>15, <2>1 DEF PeerEnds, Outside
<1>16. CASE UNCHANGED vars BY <1>16 DEF vars
<1> QED
  BY <1>s, <1>1, <1>2, <1>3, <1>4, <1>5, <1>6, <1>7, <1>8, <1>9, <1>10, <1>11, <1>12,
     <1>13, <1>14, <1>15, <1>16 DEF Next, StartStep, DestructorStep
-----------------------------------------------------------------------------
(* What a step does to a line *)

LEMMA LinesTyped ==
  TypeOK => /\ Lines \in [Loop -> Seq(Calls)]
            /\ Waits \in [Loop -> SUBSET Calls]
<1> SUFFICES ASSUME TypeOK
             PROVE  /\ Lines \in [Loop -> Seq(Calls)]
                    /\ Waits \in [Loop -> SUBSET Calls]
  OBVIOUS
<1>1. \A l \in Loop : functors[l] \in Seq(Calls) /\ pending[l] \in Seq(Calls)
  BY DEF TypeOK
<1>2. \A l \in Loop : functors[l] \o pending[l] \in Seq(Calls)
  BY <1>1
<1>3. Lines \in [Loop -> Seq(Calls)]
  BY <1>2 DEF Lines
<1>4. \A q \in Seq(Calls) : Range(q) \in SUBSET Calls
  BY DEF Range
<1>5. \A l \in Loop : Range(Lines[l]) \in SUBSET Calls
  BY <1>3, <1>4
<1> QED BY <1>3, <1>5 DEF Waits

LEMMA LineStays ==
  ASSUME TypeOK, LinesInOrder, NEW l \in Loop,
         functors'[l] = functors[l], pending'[l] = pending[l]
  PROVE  /\ InOrder(Lines'[l])
         /\ Waits'[l] = Waits[l]
<1>1. Lines'[l] = Lines[l]
  BY DEF Lines
<1>2. InOrder(Lines[l])
  BY DEF LinesInOrder
<1>3. Waits'[l] = Waits[l]
  BY <1>1 DEF Waits
<1> QED BY <1>1, <1>2, <1>3

LEMMA LineSwapped ==
  ASSUME TypeOK, LinesInOrder, NEW l \in Loop, functors[l] = <<>>,
         functors'[l] = pending[l], pending'[l] = <<>>
  PROVE  /\ InOrder(Lines'[l])
         /\ Waits'[l] = Waits[l]
<1>1. functors[l] \in Seq(Calls) /\ pending[l] \in Seq(Calls)
  BY DEF TypeOK
<1>2. pending[l] \o <<>> = functors[l] \o pending[l]
  BY <1>1, SwapKeepsLine
<1>3. Lines'[l] = Lines[l]
  BY <1>2 DEF Lines
<1>4. InOrder(Lines[l])
  BY DEF LinesInOrder
<1>5. Waits'[l] = Waits[l]
  BY <1>3 DEF Waits
<1> QED BY <1>3, <1>4, <1>5

\* A call that waits nowhere in the line joins it.
LEMMA LineJoined ==
  ASSUME TypeOK, LinesInOrder, NEW l \in Loop, NEW call \in Calls,
         functors'[l] = functors[l], pending'[l] = Append(pending[l], call),
         call \notin Waits[l],
         \A d \in Waits[l] :
             call.op = "connectEstablished" /\ d.op = "connectDestroyed"
               => d.conn # call.conn
  PROVE  /\ InOrder(Lines'[l])
         /\ Waits'[l] = Waits[l] \cup {call}
<1>1. functors[l] \in Seq(Calls) /\ pending[l] \in Seq(Calls)
  BY DEF TypeOK
<1>2. functors[l] \o Append(pending[l], call) = Append(functors[l] \o pending[l], call)
  <2>1. \A f, p \in Seq(Calls) : f \o Append(p, call) = Append(f \o p, call)
    BY QueueExtendsLine
  <2> QED BY <1>1, <2>1
<1>3. Lines'[l] = Append(Lines[l], call)
  BY <1>2 DEF Lines
<1>4. InOrder(Lines[l]) /\ Lines[l] \in Seq(Calls) /\ Waits[l] = Range(Lines[l])
  BY LinesTyped DEF LinesInOrder, Waits
<1>5. /\ InOrder(Append(Lines[l], call))
      /\ Range(Append(Lines[l], call)) = Range(Lines[l]) \cup {call}
  BY <1>4, AppendInOrder
<1>6. Waits'[l] = Range(Lines'[l])
  BY DEF Waits
<1> QED BY <1>3, <1>4, <1>5, <1>6

\* The first call of the batch leaves the line.
LEMMA LineLeft ==
  ASSUME TypeOK, LinesInOrder, NEW l \in Loop, functors[l] # <<>>,
         functors'[l] = Tail(functors[l]), pending'[l] = pending[l]
  PROVE  /\ InOrder(Lines'[l])
         /\ Waits'[l] = Waits[l] \ {Head(functors[l])}
         /\ Head(functors[l]) \in Waits[l]
         /\ \A d \in Waits[l] :
              Head(functors[l]).op = "connectDestroyed" /\ d.op = "connectEstablished"
                => d.conn # Head(functors[l]).conn
<1>1. functors[l] \in Seq(Calls) /\ pending[l] \in Seq(Calls)
  BY DEF TypeOK
<1>2. /\ functors[l] \o pending[l] # <<>>
      /\ Head(functors[l] \o pending[l]) = Head(functors[l])
      /\ Tail(functors[l] \o pending[l]) = Tail(functors[l]) \o pending[l]
  BY <1>1, TakeShortensLine
<1>3. /\ Lines[l] # <<>> /\ Head(Lines[l]) = Head(functors[l])
      /\ Lines'[l] = Tail(Lines[l])
  BY <1>2 DEF Lines
<1>4. InOrder(Lines[l]) /\ Lines[l] \in Seq(Calls) /\ Waits[l] = Range(Lines[l])
  BY LinesTyped DEF LinesInOrder, Waits
<1>5. /\ InOrder(Tail(Lines[l]))
      /\ Range(Tail(Lines[l])) = Range(Lines[l]) \ {Head(Lines[l])}
      /\ Head(Lines[l]) \in Range(Lines[l])
      /\ \A d \in Range(Lines[l]) :
            Head(Lines[l]).op = "connectDestroyed" /\ d.op = "connectEstablished"
              => d.conn # Head(Lines[l]).conn
  BY <1>3, <1>4, TailInOrder
<1>6. Waits'[l] = Range(Lines'[l])
  BY DEF Waits
<1> QED BY <1>3, <1>4, <1>5, <1>6
-----------------------------------------------------------------------------
(* What a step does to the lines *)

LEMMA WaitsIsFunction == Waits = [l \in Loop |-> Waits[l]]
BY DEF Waits

LEMMA QuietLines ==
  ASSUME TypeOK, LinesInOrder, functors' = functors, pending' = pending
  PROVE  LinesInOrder' /\ Waits' = Waits
<1>1. \A l \in Loop : InOrder(Lines'[l]) /\ Waits'[l] = Waits[l]
  BY LineStays
<1>2. Waits' = [l \in Loop |-> Waits'[l]]
  BY DEF Waits
<1> QED BY <1>1, <1>2, WaitsIsFunction DEF LinesInOrder

LEMMA SwapLines ==
  ASSUME TypeOK, LinesInOrder, NEW l \in Loop, functors[l] = <<>>,
         functors' = [functors EXCEPT ![l] = pending[l]],
         pending' = [pending EXCEPT ![l] = <<>>]
  PROVE  LinesInOrder' /\ Waits' = Waits
<1>0. functors \in [Loop -> Seq(Calls)] /\ pending \in [Loop -> Seq(Calls)]
  BY DEF TypeOK
<1>1. ASSUME NEW k \in Loop PROVE InOrder(Lines'[k]) /\ Waits'[k] = Waits[k]
  <2>1. CASE k = l
    <3>1. functors'[l] = pending[l] /\ pending'[l] = <<>>
      BY <1>0
    <3> QED BY <2>1, <3>1, LineSwapped
  <2>2. CASE k # l
    <3>1. functors'[k] = functors[k] /\ pending'[k] = pending[k]
      BY <1>0, <2>2
    <3> QED BY <3>1, LineStays
  <2> QED BY <2>1, <2>2
<1>2. Waits' = [k \in Loop |-> Waits'[k]]
  BY DEF Waits
<1> QED BY <1>1, <1>2, WaitsIsFunction DEF LinesInOrder

LEMMA JoinedLines ==
  ASSUME TypeOK, LinesInOrder, NEW l \in Loop, NEW call \in Calls,
         functors' = functors, Queue(l, call), call \notin Waits[l],
         \A d \in Waits[l] :
             call.op = "connectEstablished" /\ d.op = "connectDestroyed"
               => d.conn # call.conn
  PROVE  /\ LinesInOrder'
         /\ Waits' = [Waits EXCEPT ![l] = @ \cup {call}]
<1>0. pending \in [Loop -> Seq(Calls)]
  BY DEF TypeOK
<1>1. InOrder(Lines'[l]) /\ Waits'[l] = Waits[l] \cup {call}
  <2>1. functors'[l] = functors[l] /\ pending'[l] = Append(pending[l], call)
    BY <1>0 DEF Queue
  <2> QED BY <2>1, LineJoined
<1>2. ASSUME NEW k \in Loop, k # l PROVE InOrder(Lines'[k]) /\ Waits'[k] = Waits[k]
  <2>1. functors'[k] = functors[k] /\ pending'[k] = pending[k]
    BY <1>0, <1>2 DEF Queue
  <2> QED BY <2>1, LineStays
<1>3. Waits' = [k \in Loop |-> Waits'[k]]
  BY DEF Waits
<1> QED BY <1>1, <1>2, <1>3, WaitsIsFunction DEF LinesInOrder

LEMMA LeftLines ==
  ASSUME TypeOK, LinesInOrder, NEW l \in Loop, functors[l] # <<>>,
         functors' = [functors EXCEPT ![l] = Tail(@)], pending' = pending
  PROVE  /\ LinesInOrder'
         /\ Waits' = [Waits EXCEPT ![l] = @ \ {Head(functors[l])}]
<1>0. functors \in [Loop -> Seq(Calls)]
  BY DEF TypeOK
<1>1. InOrder(Lines'[l]) /\ Waits'[l] = Waits[l] \ {Head(functors[l])}
  <2>1. functors'[l] = Tail(functors[l]) /\ pending'[l] = pending[l]
    BY <1>0
  <2> QED BY <2>1, LineLeft
<1>2. ASSUME NEW k \in Loop, k # l PROVE InOrder(Lines'[k]) /\ Waits'[k] = Waits[k]
  <2>1. functors'[k] = functors[k] /\ pending'[k] = pending[k]
    BY <1>0, <1>2
  <2> QED BY <2>1, LineStays
<1>3. Waits' = [k \in Loop |-> Waits'[k]]
  BY DEF Waits
<1> QED BY <1>1, <1>2, <1>3, WaitsIsFunction DEF LinesInOrder

\* A functor of loop l queues a call in another loop.
LEMMA HopLines ==
  ASSUME TypeOK, LinesInOrder, NEW l \in Loop, functors[l] # <<>>,
         functors' = [functors EXCEPT ![l] = Tail(@)],
         NEW k \in Loop \ {l}, NEW call \in Calls, Queue(k, call), call \notin Waits[k],
         \A d \in Waits[k] :
             call.op = "connectEstablished" /\ d.op = "connectDestroyed"
               => d.conn # call.conn
  PROVE  /\ LinesInOrder'
         /\ Waits' = [Waits EXCEPT ![l] = @ \ {Head(functors[l])},
                                  ![k] = @ \cup {call}]
<1>0. pending \in [Loop -> Seq(Calls)] /\ functors \in [Loop -> Seq(Calls)]
  BY DEF TypeOK
<1>1. InOrder(Lines'[l]) /\ Waits'[l] = Waits[l] \ {Head(functors[l])}
  <2>1. functors'[l] = Tail(functors[l]) /\ pending'[l] = pending[l]
    BY <1>0 DEF Queue
  <2> QED BY <2>1, LineLeft
<1>2. InOrder(Lines'[k]) /\ Waits'[k] = Waits[k] \cup {call}
  <2>1. functors'[k] = functors[k] /\ pending'[k] = Append(pending[k], call)
    BY <1>0 DEF Queue
  <2> QED BY <2>1, LineJoined
<1>3. ASSUME NEW j \in Loop, j # l, j # k
      PROVE  InOrder(Lines'[j]) /\ Waits'[j] = Waits[j]
  <2>1. functors'[j] = functors[j] /\ pending'[j] = pending[j]
    BY <1>0, <1>3 DEF Queue
  <2> QED BY <2>1, LineStays
<1>4. Waits' = [j \in Loop |-> Waits'[j]]
  BY DEF Waits
<1>5. \A j \in Loop : InOrder(Lines'[j])
  BY <1>1, <1>2, <1>3
<1>6. \A j \in Loop : Waits'[j] = IF j = l THEN Waits[l] \ {Head(functors[l])}
                                 ELSE IF j = k THEN Waits[k] \cup {call} ELSE Waits[j]
  BY <1>1, <1>2, <1>3
<1> HIDE <1>1, <1>2, <1>3
<1> QED BY <1>4, <1>5, <1>6, WaitsIsFunction DEF LinesInOrder
-----------------------------------------------------------------------------
(* The pool and the phases *)

\* What NextLoop returns: a loop of the pool, or the base loop when there is none.
LEMMA NextLoopInPool ==
  ASSUME TypeOK, PoolNumbered
  PROVE  /\ NextLoop \in 0..Len(loops_) /\ NextLoop \in Loop
         /\ loops_ = <<>> => NextLoop = BaseLoop
         /\ loops_ # <<>> => NextLoop = next_ + 1
<1>0. loops_ \in Seq(Loop \ {BaseLoop}) /\ next_ \in Nat /\ Len(loops_) <= numThreads_
        /\ numThreads_ \in 0..MaxThreads
        /\ (next_ = 0 \/ next_ < Len(loops_))
  BY DEF TypeOK
<1>1. CASE loops_ = <<>>
  BY <1>0, <1>1 DEF NextLoop, BaseLoop, Loop
<1>2. CASE loops_ # <<>>
  <2>1. /\ next_ + 1 \in DOMAIN loops_ /\ DOMAIN loops_ = 1..Len(loops_)
        /\ Len(loops_) \in Nat
    BY <1>0, <1>2
  <2>2. NextLoop = next_ + 1
    BY <1>2, <2>1 DEF NextLoop, PoolNumbered
  <2> QED BY <1>0, <1>2, <2>1, <2>2 DEF Loop
<1> QED BY <1>1, <1>2

\* The connection that is accepted is a new one.
LEMMA NextIsFresh ==
  ASSUME TypeOK, RoomLeft, ~AcceptFails
  PROVE  /\ nextConnId_ \in Conn /\ nextConnId_ \notin Accepted
         /\ nextConnId_ \in Nat \ {0}
BY DEF TypeOK, RoomLeft, AcceptFails, Conn, Accepted

\* The pool gets a thread only by StartThread.
LEMMA PoolNumberedStep ==
  ASSUME IInv, TypeOK', [Next]_vars
  PROVE  PoolNumbered'
<1>0. /\ PoolNumbered /\ TypeOK
      /\ pc \in [Loop -> {"none", "out", "poll", "handle", "functors", "ended"}]
      /\ loops_ \in Seq(Loop \ {BaseLoop}) /\ ioLoop \in [Conn -> Loop]
      /\ nextConnId_ \in 1..(MaxConns + 1)
      /\ Len(loops_) <= numThreads_ /\ numThreads_ \in 0..MaxThreads
  BY DEF IInv, TypeOK
<1> DEFINE Frame == /\ loops_' = loops_ /\ nextConnId_' = nextConnId_ /\ ioLoop' = ioLoop
                    /\ \A l \in Loop \ {BaseLoop} : pc'[l] = "none" <=> pc[l] = "none"
<1>f. Frame => PoolNumbered'
  BY <1>0 DEF PoolNumbered, Accepted
<1>1. ASSUME NEW s \in {"base", "other"}, Start(s) PROVE PoolNumbered'
  BY <1>1, <1>f DEF Start
<1>2. CASE StartThread
  <2> DEFINE n == Len(loops_)
  <2>1. n \in Nat /\ n + 1 \in Loop \ {BaseLoop} /\ loops_' = Append(loops_, n + 1)
    BY <1>0, <1>2 DEF StartThread, Loop, BaseLoop
  <2>2. /\ Len(loops_') = n + 1 /\ DOMAIN loops_ = 1..n /\ DOMAIN loops_' = 1..(n + 1)
        /\ loops_'[n + 1] = n + 1 /\ \A i \in 1..n : loops_'[i] = loops_[i]
    BY <1>0, <2>1
  <2>3. \A i \in DOMAIN loops_' : loops_'[i] = i
    BY <1>0, <2>1, <2>2 DEF PoolNumbered
  <2>4. pc' = [pc EXCEPT ![n + 1] = "out"] /\ ioLoop' = ioLoop /\ nextConnId_' = nextConnId_
    BY <1>2 DEF StartThread
  <2>5. ASSUME NEW l \in Loop \ {BaseLoop} PROVE pc'[l] = "none" <=> l > n + 1
    <3>1. l \in Nat /\ (pc[l] = "none" <=> l > n)
      BY <1>0 DEF PoolNumbered, Loop
    <3>2. CASE l = n + 1
      BY <1>0, <2>1, <2>4, <3>2
    <3>3. CASE l # n + 1
      BY <1>0, <2>1, <2>4, <3>1, <3>3
    <3> QED BY <3>2, <3>3
  <2>6. \A c \in Accepted : ioLoop[c] \in 0..n
    BY <1>0 DEF PoolNumbered
  <2>7. \A c \in Accepted' : ioLoop'[c] \in 0..(n + 1)
    BY <2>1, <2>4, <2>6 DEF Accepted
  <2> QED BY <2>2, <2>3, <2>5, <2>7 DEF PoolNumbered
<1>3. CASE PoolStarted BY <1>3, <1>f DEF PoolStarted
<1>4. CASE StartListening BY <1>4, <1>f DEF StartListening
<1>e. ASSUME NEW l \in Loop, EnterLoop(l) PROVE PoolNumbered'
  BY <1>0, <1>e, <1>f DEF EnterLoop
<1>5. CASE EnterLoop(BaseLoop)
  BY <1>5, <1>e DEF BaseLoop, Loop
<1>6. ASSUME NEW l \in Loop, LoopStep(l) PROVE PoolNumbered'
  <2>0. CASE EnterLoop(l) BY <1>e, <2>0
  <2>1. CASE Poll(l) BY <1>0, <1>f, <2>1 DEF Poll
  <2>2. CASE SwapFunctors(l) BY <1>0, <1>f, <2>2 DEF SwapFunctors
  <2>3. CASE EndTurn(l) BY <1>0, <1>f, <2>3 DEF EndTurn
  <2>4. CASE RunFunctor(l) BY <1>f, <2>4 DEF RunFunctor
  <2>5. CASE HandleAccept
    <3>1. CASE AcceptFails BY <1>f, <2>5, <3>1 DEF HandleAccept
    <3>2. CASE ~AcceptFails
      <4>1. /\ loops_' = loops_ /\ pc' = pc /\ nextConnId_' = nextConnId_ + 1
            /\ ioLoop' = [ioLoop EXCEPT ![nextConnId_] = NextLoop]
        BY <2>5, <3>2 DEF HandleAccept, NewConnection
      <4>2. nextConnId_ \in Conn /\ NextLoop \in 0..Len(loops_)
        BY <1>0, <3>2, NextLoopInPool, NextIsFresh DEF IInv
      <4>3. \A c \in Accepted' : c \in Accepted \/ c = nextConnId_
        BY <1>0, <4>1 DEF Accepted
      <4>4. \A c \in Accepted' : ioLoop'[c] \in 0..Len(loops_)
        <5>1. Accepted \subseteq Conn
          BY <1>0, AcceptedCount
        <5> QED BY <1>0, <4>1, <4>2, <4>3, <5>1 DEF PoolNumbered
      <4> QED BY <1>0, <4>1, <4>4 DEF PoolNumbered
    <3> QED BY <3>1, <3>2
  <2>6. ASSUME NEW c \in Conn, HandleClose(l, c) PROVE PoolNumbered'
    BY <1>f, <2>6 DEF HandleClose
  <2> QED BY <1>6, <2>0, <2>1, <2>2, <2>3, <2>4, <2>5, <2>6 DEF LoopStep
<1>s. ASSUME NEW c \in Conn, Shutdown(c) PROVE PoolNumbered'
  BY <1>f, <1>s DEF Shutdown
<1>7. CASE Quit BY <1>7, <1>f DEF Quit
<1>8. CASE DestroyServer BY <1>8, <1>f DEF DestroyServer
<1>9. CASE DestructorStep
  BY <1>9, <1>f DEF DestructorStep, DestroyConnection, DestroyPool, StopThread,
                    DestroyAcceptor
<1>10. CASE PeerConnects \/ PeerGivesUp \/ PeerEnds
  BY <1>10, <1>f DEF PeerConnects, PeerGivesUp, PeerEnds, Outside
<1>11. CASE UNCHANGED vars BY <1>11, <1>f DEF vars
<1> QED
  BY <1>s, <1>1, <1>2, <1>3, <1>4, <1>5, <1>6, <1>7, <1>8, <1>9, <1>10, <1>11
     DEF Next, StartStep
\* A loop of the pool is told to quit only by the destructor, after the connections.
LEMMA EndsInOrderStep ==
  ASSUME IInv, [Next]_vars
  PROVE  EndsInOrder'
<1>0. /\ EndsInOrder /\ TypeOK /\ PoolNumbered
      /\ pc \in [Loop -> {"none", "out", "poll", "handle", "functors", "ended"}]
      /\ quit_ \in [Loop -> BOOLEAN]
      /\ BaseLoop \in Loop
      /\ loops_ \in Seq(Loop \ {BaseLoop})
      /\ server \in {"up", "connections", "pool", "gone"}
  <2>1. EndsInOrder /\ TypeOK /\ PoolNumbered
    BY DEF IInv
  <2>2. BaseLoop \in Loop
    BY DEF BaseLoop, Loop
  <2> QED BY <2>1, <2>2 DEF TypeOK
<1> DEFINE Frame == /\ server' = server /\ startPc' = startPc /\ loops_' = loops_
                    /\ quit_' = quit_ /\ connections_' \subseteq connections_
                    /\ \A l \in Loop : pc'[l] = "ended" <=> pc[l] = "ended"
<1>f. Frame => EndsInOrder'
  <2>1. Len(loops_) <= MaxThreads /\ Len(loops_) \in Nat
    BY <1>0 DEF TypeOK
  <2>2. 1..Len(loops_) \subseteq Loop
    BY <2>1 DEF Loop
  <2> QED BY <1>0, <2>2 DEF EndsInOrder
<1>g. pc[BaseLoop] # "ended" => server = "up"
  BY <1>0 DEF EndsInOrder
<1>1. ASSUME NEW s \in {"base", "other"}, Start(s) PROVE EndsInOrder'
  BY <1>0, <1>1 DEF Start, EndsInOrder
<1>2. CASE StartThread
  <2>1. server = "up" /\ server' = "up" /\ quit_' = quit_
    BY <1>0, <1>2 DEF StartThread, EndsInOrder
  <2>2. \A l \in Loop : pc'[l] = "ended" => pc[l] = "ended"
    BY <1>0, <1>2 DEF StartThread
  <2> QED BY <1>0, <2>1, <2>2 DEF EndsInOrder
<1>3. CASE PoolStarted BY <1>0, <1>3 DEF PoolStarted, EndsInOrder
<1>4. CASE StartListening BY <1>0, <1>4 DEF StartListening, EndsInOrder
<1>e. ASSUME NEW l \in Loop, EnterLoop(l) PROVE EndsInOrder'
  <2>1. /\ UNCHANGED <<server, startPc, loops_, connections_>> /\ pc[l] = "out"
        /\ pc' = [pc EXCEPT ![l] = "functors"] /\ quit_' = [quit_ EXCEPT ![l] = FALSE]
    BY <1>e DEF EnterLoop
  <2>2. \A k \in Loop : pc'[k] = "ended" <=> pc[k] = "ended"
    BY <1>0, <2>1
  <2>3. \A k \in Loop : ~quit_[k] => ~quit_'[k]
    BY <1>0, <2>1
  <2>4. 1..Len(loops_) \subseteq Loop
    <3>1. Len(loops_) <= MaxThreads /\ Len(loops_) \in Nat
      BY <1>0 DEF TypeOK
    <3> QED BY <3>1 DEF Loop
  <2> QED BY <1>0, <2>1, <2>2, <2>3, <2>4 DEF EndsInOrder
<1>5. CASE EnterLoop(BaseLoop) BY <1>0, <1>5, <1>e
<1>6. ASSUME NEW l \in Loop, LoopStep(l) PROVE EndsInOrder'
  <2>0. CASE EnterLoop(l) BY <1>e, <2>0
  <2>1. CASE Poll(l) BY <1>0, <1>f, <2>1 DEF Poll
  <2>2. CASE SwapFunctors(l) BY <1>0, <1>f, <2>2 DEF SwapFunctors
  <2>3. CASE EndTurn(l)
    <3>1. CASE ~quit_[l] BY <1>0, <1>f, <2>3, <3>1 DEF EndTurn
    <3>2. CASE quit_[l]
      <4>1. /\ pc' = [pc EXCEPT ![l] = "ended"] /\ pc[l] = "functors"
            /\ UNCHANGED <<server, startPc, loops_, quit_, connections_>>
        BY <2>3, <3>2 DEF EndTurn
      <4>2. server \in {"up", "connections"} => l = BaseLoop
        BY <1>0, <3>2 DEF EndsInOrder
      <4>3. \A k \in Loop : pc[k] = "ended" => pc'[k] = "ended"
        BY <1>0, <4>1
      <4>4. \A k \in Loop : pc'[k] = "ended" => pc[k] = "ended" \/ k = l
        BY <1>0, <4>1
      <4>5. 1..Len(loops_) \subseteq Loop
        <5>1. Len(loops_) <= MaxThreads /\ Len(loops_) \in Nat
          BY <1>0 DEF TypeOK
        <5> QED BY <5>1 DEF Loop
      <4>6. \A k \in Loop \ {BaseLoop} : l = BaseLoop => pc'[k] = pc[k]
        BY <1>0, <4>1
      <4> QED BY <1>0, <4>1, <4>2, <4>3, <4>5, <4>6 DEF EndsInOrder
    <3> QED BY <3>1, <3>2
  <2>4. CASE RunFunctor(l)
    <3>1. CASE connections_' \subseteq connections_
      BY <1>f, <2>4, <3>1 DEF RunFunctor
    <3> QED BY <2>4, <3>1 DEF RunFunctor, RemoveConnectionInLoop
  <2>5. CASE HandleAccept
    <3>1. server = "up" /\ server' = "up" /\ pc' = pc /\ quit_' = quit_
      BY <1>g, <2>5 DEF HandleAccept
    <3> QED BY <1>0, <3>1 DEF EndsInOrder
  <2>6. ASSUME NEW c \in Conn, HandleClose(l, c) PROVE EndsInOrder'
    <3>1. connections_' \subseteq connections_
      BY <2>6 DEF HandleClose, TellServer, RemoveConnectionInLoop
    <3> QED BY <1>f, <2>6, <3>1 DEF HandleClose
  <2> QED BY <1>6, <2>0, <2>1, <2>2, <2>3, <2>4, <2>5, <2>6 DEF LoopStep
<1>s. ASSUME NEW c \in Conn, Shutdown(c) PROVE EndsInOrder'
  BY <1>f, <1>s DEF Shutdown
<1>7. CASE Quit
  <2>1. server = "up" /\ server' = "up" /\ pc' = pc
    BY <1>g, <1>7 DEF Quit
  <2>2. \A l \in Loop \ {BaseLoop} : quit_'[l] = quit_[l]
    BY <1>0, <1>7 DEF Quit
  <2> QED BY <1>0, <2>1, <2>2 DEF EndsInOrder
<1>8. CASE DestroyServer BY <1>0, <1>8 DEF DestroyServer, EndsInOrder
<1>9. CASE DestroyConnection
  <2>1. connections_' \subseteq connections_
    BY <1>9 DEF DestroyConnection
  <2> QED BY <1>f, <1>9, <2>1 DEF DestroyConnection
<1>10. CASE DestroyPool
  BY <1>0, <1>10 DEF DestroyPool, ConnectionsGone, EndsInOrder
<1>11. CASE StopThread
  BY <1>0, <1>11 DEF StopThread, EndsInOrder
<1>12. CASE DestroyAcceptor
  <2>1. \A l \in 1..Len(loops_) : l \in Range(loops_)
    BY <1>0 DEF PoolNumbered, Range
  <2> QED BY <1>0, <1>12, <2>1 DEF DestroyAcceptor, EndsInOrder
<1>13. CASE PeerConnects \/ PeerGivesUp \/ PeerEnds
  BY <1>13, <1>f DEF PeerConnects, PeerGivesUp, PeerEnds, Outside
<1>14. CASE UNCHANGED vars BY <1>14, <1>f DEF vars
<1> QED
  BY <1>s, <1>1, <1>2, <1>3, <1>4, <1>5, <1>6, <1>7, <1>8, <1>9, <1>10, <1>11, <1>12,
     <1>13, <1>14 DEF Next, StartStep, DestructorStep

\* The functor that loop l runs is in place.
LEMMA HeadPlaced ==
  ASSUME TypeOK, LinesInOrder, CallsPlaced, NEW l \in Loop, functors[l] # <<>>
  PROVE  /\ Head(functors[l]) \in Waits[l]
         /\ Head(functors[l]) \in Calls
         /\ Placed(Head(functors[l]), l)
<1>1. functors[l] \in Seq(Calls) /\ pending[l] \in Seq(Calls)
  BY DEF TypeOK
<1>2. Waits[l] = Range(functors[l]) \cup Range(pending[l])
  BY <1>1, WaitsSplit
<1>3. Head(functors[l]) \in Range(functors[l]) /\ Head(functors[l]) \in Calls
  <2>1. 1 \in DOMAIN functors[l] /\ Head(functors[l]) = functors[l][1]
    BY <1>1
  <2> QED BY <1>1, <2>1 DEF Range
<1> QED BY <1>2, <1>3 DEF CallsPlaced

\* A loop polls and handles with an empty batch, and runs functors when all that was
\* active has been handled; nobody changes an active connection's channel meanwhile.
LEMMA InPhaseStep ==
  ASSUME IInv, TypeOK', [Next]_vars
  PROVE  InPhase'
<1>0. /\ InPhase /\ TypeOK /\ PoolNumbered
      /\ pc \in [Loop -> {"none", "out", "poll", "handle", "functors", "ended"}]
      /\ functors \in [Loop -> Seq(Calls)]
      /\ active \in [Loop -> SUBSET (Conn \cup {AcceptChannel})]
      /\ ioLoop \in [Conn -> Loop]
      /\ index_ \in [Conn -> {"kNew", "kAdded", "kDeleted"}]
      /\ BaseLoop \in Loop /\ Accepted \subseteq Conn
  <2>1. TypeOK /\ Accepted \subseteq Conn
    BY AcceptedCount DEF IInv
  <2>2. BaseLoop \in Loop
    BY DEF BaseLoop, Loop
  <2>3. InPhase /\ PoolNumbered
    BY DEF IInv
  <2> QED BY <2>1, <2>2, <2>3 DEF TypeOK
<1> DEFINE Idle(l) == functors[l] = <<>> /\ active[l] = {}
           Queues == functors' = functors /\ active' = active
           Conns == nextConnId_' = nextConnId_ /\ ioLoop' = ioLoop /\ index_' = index_
<1>f. Queues /\ Conns /\ (\A l \in Loop : pc'[l] = pc[l] \/ Idle(l)) => InPhase'
  BY <1>0 DEF InPhase, Accepted
<1>1. ASSUME NEW s \in {"base", "other"}, Start(s) PROVE InPhase'
  BY <1>1, <1>f DEF Start
<1>2. CASE StartThread
  <2>1. Len(loops_) + 1 \in Loop \ {BaseLoop} /\ Len(loops_) \in Nat
    BY <1>0, <1>2 DEF StartThread, TypeOK, Loop, BaseLoop
  <2>2. pc[Len(loops_) + 1] = "none"
    BY <1>0, <2>1 DEF PoolNumbered
  <2>3. Idle(Len(loops_) + 1)
    BY <1>0, <2>1, <2>2 DEF InPhase
  <2> QED BY <1>0, <1>2, <1>f, <2>3 DEF StartThread
<1>3. CASE PoolStarted BY <1>3, <1>f DEF PoolStarted
<1>4. CASE StartListening BY <1>4, <1>f DEF StartListening
<1>e. ASSUME NEW l \in Loop, EnterLoop(l) PROVE InPhase'
  <2>1. Idle(l)
    BY <1>0, <1>e DEF EnterLoop, InPhase
  <2> QED BY <1>0, <1>e, <1>f, <2>1 DEF EnterLoop
<1>5. CASE EnterLoop(BaseLoop) BY <1>0, <1>5, <1>e
<1>6. ASSUME NEW l \in Loop, LoopStep(l) PROVE InPhase'
  <2>0. CASE EnterLoop(l) BY <1>e, <2>0
  <2>1. CASE Poll(l)
    <3>1. functors[l] = <<>>
      BY <1>0, <2>1 DEF Poll, InPhase
    <3>2. \A c \in Ready(l) \ {AcceptChannel} :
            c \in Accepted /\ ioLoop[c] = l /\ index_[c] = "kAdded"
      BY DEF Ready, IInv, FreshUntouched
    <3>3. /\ pc' = [pc EXCEPT ![l] = "handle"] /\ active' = [active EXCEPT ![l] = Ready(l)]
          /\ functors' = functors /\ Conns
      BY <2>1 DEF Poll
    <3>4. \A k \in Loop : k # l => pc'[k] = pc[k] /\ active'[k] = active[k]
      BY <1>0, <3>3
    <3>5. pc'[l] = "handle" /\ active'[l] = Ready(l)
      BY <1>0, <3>3
    <3> QED BY <1>0, <3>1, <3>2, <3>3, <3>4, <3>5 DEF InPhase, Accepted
  <2>2. CASE SwapFunctors(l)
    <3>1. /\ pc' = [pc EXCEPT ![l] = "functors"] /\ active' = active /\ active[l] = {}
          /\ functors' = [functors EXCEPT ![l] = pending[l]] /\ Conns
      BY <2>2 DEF SwapFunctors
    <3>2. /\ pc'[l] = "functors"
          /\ \A k \in Loop : k # l => pc'[k] = pc[k] /\ functors'[k] = functors[k]
      BY <1>0, <3>1
    <3> QED BY <1>0, <3>1, <3>2 DEF InPhase, Accepted
  <2>3. CASE EndTurn(l)
    <3>1. Idle(l)
      BY <1>0, <2>3 DEF EndTurn, InPhase
    <3> QED BY <1>0, <1>f, <2>3, <3>1 DEF EndTurn
  <2>4. CASE RunFunctor(l)
    <3> DEFINE call == Head(functors[l])
               c == call.conn
    <3>1. /\ pc[l] = "functors" /\ functors[l] # <<>> /\ pc' = pc /\ active' = active
          /\ functors' = [functors EXCEPT ![l] = Tail(@)]
          /\ nextConnId_' = nextConnId_ /\ ioLoop' = ioLoop
      BY <2>4 DEF RunFunctor, Take
    <3>2. active[l] = {}
      BY <1>0, <3>1 DEF InPhase
    <3>3. Placed(call, l)
      BY <1>0, <3>1, HeadPlaced DEF IInv
    <3> HIDE DEF call
    <3>4. \/ index_' = index_
          \/ \E s \in {"kNew", "kAdded"} :
               index_' = [index_ EXCEPT ![c] = s] /\ c \in Accepted /\ ioLoop[c] = l
      <4>1. \/ index_' = index_
            \/ /\ call.op \in {"connectEstablished", "connectDestroyed"}
               /\ \E s \in {"kNew", "kAdded"} : index_' = [index_ EXCEPT ![c] = s]
        BY <2>4 DEF RunFunctor, Take, Established, Destroyed, call
      <4> QED BY <3>3, <4>1 DEF Placed, Call
    <3>5. \A k \in Loop : \A d \in active[k] \ {AcceptChannel} : index_'[d] = index_[d]
      <4> SUFFICES ASSUME NEW k \in Loop, NEW d \in active[k] \ {AcceptChannel}
                   PROVE  index_'[d] = index_[d]
        OBVIOUS
      <4>1. d \in Accepted /\ ioLoop[d] = k /\ k # l
        BY <1>0, <3>2 DEF InPhase
      <4> HIDE DEF c
      <4>2. index_' # index_ => c # d
        BY <3>4, <4>1
      <4> QED BY <1>0, <3>4, <4>1, <4>2
    <3>6. \A k \in Loop : k # l => functors'[k] = functors[k]
      BY <1>0, <3>1
    <3> QED BY <1>0, <3>1, <3>2, <3>5, <3>6 DEF InPhase, Accepted
  <2>5. CASE HandleAccept
    <3>1. CASE AcceptFails
      <4>1. /\ Conns /\ pc' = pc /\ functors' = functors
            /\ active' = [active EXCEPT ![BaseLoop] = @ \ {AcceptChannel}]
        BY <2>5, <3>1 DEF HandleAccept
      <4>2. \A k \in Loop : active'[k] \subseteq active[k]
        BY <1>0, <4>1
      <4> QED BY <1>0, <4>1, <4>2 DEF InPhase, Accepted
    <3>2. CASE ~AcceptFails
      <4> DEFINE c == nextConnId_
      <4>1. /\ pc' = pc /\ functors' = functors
            /\ active' = [active EXCEPT ![BaseLoop] = @ \ {AcceptChannel}]
            /\ nextConnId_' = nextConnId_ + 1
            /\ ioLoop' = [ioLoop EXCEPT ![c] = NextLoop]
            /\ index_' = index_ \/ index_' = [index_ EXCEPT ![c] = "kAdded"]
        BY <2>5, <3>2 DEF HandleAccept, NewConnection, Established
      <4>2. c \in Conn /\ c \notin Accepted /\ c \in Nat
        BY <1>0, <3>2, NextIsFresh DEF IInv
      <4>3. \A k \in Loop : active'[k] \subseteq active[k]
        BY <1>0, <4>1
      <4>4. \A d \in Accepted : d \in Accepted' /\ ioLoop'[d] = ioLoop[d] /\ index_'[d] = index_[d]
        BY <1>0, <4>1, <4>2 DEF Accepted
      <4> QED BY <1>0, <4>1, <4>3, <4>4 DEF InPhase
    <3> QED BY <3>1, <3>2
  <2>6. ASSUME NEW c \in Conn, HandleClose(l, c) PROVE InPhase'
    <3>1. /\ pc' = pc /\ functors' = functors
          /\ active' = [active EXCEPT ![l] = @ \ {c}] /\ c \in active[l]
          /\ nextConnId_' = nextConnId_ /\ ioLoop' = ioLoop
          /\ index_' = [index_ EXCEPT ![c] = "kDeleted"]
      BY <2>6 DEF HandleClose
    <3>2. c # AcceptChannel
      BY DEF Conn, AcceptChannel
    <3>3. /\ active'[l] = active[l] \ {c}
          /\ \A k \in Loop : k # l => active'[k] = active[k]
      BY <1>0, <3>1
    <3>4. \A k \in Loop : \A d \in active'[k] \ {AcceptChannel} :
            /\ d \in active[k] /\ d # c /\ d \in Accepted
            /\ ioLoop[d] = k /\ index_[d] = "kAdded"
      BY <1>0, <3>1, <3>2, <3>3 DEF InPhase
    <3>5. \A d \in Accepted : d # c => index_'[d] = index_[d]
      BY <1>0, <3>1
    <3>6. \A k \in Loop : active'[k] # {} => active[k] # {}
      BY <3>3
    <3> QED BY <1>0, <3>1, <3>4, <3>5, <3>6 DEF InPhase, Accepted
  <2> QED BY <1>6, <2>0, <2>1, <2>2, <2>3, <2>4, <2>5, <2>6 DEF LoopStep
<1>s. ASSUME NEW c \in Conn, Shutdown(c) PROVE InPhase'
  BY <1>f, <1>s DEF Shutdown
<1>7. CASE Quit BY <1>7, <1>f DEF Quit
<1>8. CASE DestroyServer BY <1>8, <1>f DEF DestroyServer
<1>9. CASE DestroyConnection
  <2>1. PICK c \in connections_ : EndConnection(c)
    BY <1>9 DEF DestroyConnection
  <2>2. pc[BaseLoop] = "ended"
    BY <1>9 DEF DestroyConnection, IInv, EndsInOrder
  <2>3. active[BaseLoop] = {}
    BY <1>0, <2>2 DEF InPhase
  <2>4. /\ pc' = pc /\ functors' = functors /\ active' = active
        /\ nextConnId_' = nextConnId_ /\ ioLoop' = ioLoop
    BY <1>9 DEF DestroyConnection
  <2>5. index_' = index_ \/ (index_' = [index_ EXCEPT ![c] = "kNew"] /\ ioLoop[c] = BaseLoop)
    BY <2>1 DEF EndConnection, Destroyed
  <2>6. \A k \in Loop : \A d \in active[k] \ {AcceptChannel} : index_'[d] = index_[d]
    <3> SUFFICES ASSUME NEW k \in Loop, NEW d \in active[k] \ {AcceptChannel}
                 PROVE  index_'[d] = index_[d]
      OBVIOUS
    <3>1. d \in Accepted /\ ioLoop[d] = k /\ k # BaseLoop
      BY <1>0, <2>3 DEF InPhase
    <3> QED BY <1>0, <2>5, <3>1
  <2> QED BY <1>0, <2>4, <2>6 DEF InPhase, Accepted
<1>10. CASE DestroyPool BY <1>10, <1>f DEF DestroyPool
<1>11. CASE StopThread BY <1>11, <1>f DEF StopThread
<1>12. CASE DestroyAcceptor BY <1>12, <1>f DEF DestroyAcceptor
<1>13. CASE PeerConnects \/ PeerGivesUp \/ PeerEnds
  BY <1>13, <1>f DEF PeerConnects, PeerGivesUp, PeerEnds, Outside
<1>14. CASE UNCHANGED vars BY <1>14, <1>f DEF vars
<1> QED
  BY <1>s, <1>1, <1>2, <1>3, <1>4, <1>5, <1>6, <1>7, <1>8, <1>9, <1>10, <1>11, <1>12,
     <1>13, <1>14 DEF Next, StartStep, DestructorStep
-----------------------------------------------------------------------------
(* What a step does to the connections *)

Rest == UNCHANGED <<nextConnId_, ioLoop, pc, server>>

Joins(call, l) == Waits' = [Waits EXCEPT ![l] = @ \cup {call}]
Leaves(call, l) == Waits' = [Waits EXCEPT ![l] = @ \ {call}]

\* Nothing; loops only start, turn and end, and the destructor goes on.
Calm ==
    /\ UNCHANGED <<nextConnId_, connections_, connVars, ioLoop>>
    /\ Waits' = Waits
    /\ server' = "up" => server = "up"
    /\ \A l \in Loop : pc[l] = "ended" => pc'[l] = "ended"

\* listen is queued or runs.
ListenMoves ==
    /\ Rest /\ UNCHANGED <<connections_, connVars>>
    /\ \/ /\ startPc = "listen" /\ startPc' = "idle"
          /\ Joins(Call("listen", AcceptChannel), BaseLoop)
       \/ Leaves(Call("listen", AcceptChannel), BaseLoop)

\* connectEstablished, connectDestroyed or removeConnectionInLoop runs.
Establishes(c) ==
    /\ Rest /\ UNCHANGED connections_
    /\ ioLoop[c] # BaseLoop /\ pc[ioLoop[c]] = "functors"
    /\ Has("connectEstablished", c, ioLoop[c])
    /\ Leaves(Call("connectEstablished", c), ioLoop[c])
    /\ Established(c)

Destroys(c) ==
    /\ Rest /\ UNCHANGED connections_
    /\ pc[ioLoop[c]] = "functors"
    /\ Has("connectDestroyed", c, ioLoop[c])
    /\ ~Has("connectEstablished", c, ioLoop[c])
    /\ Leaves(Call("connectDestroyed", c), ioLoop[c])
    /\ Destroyed(c)

Unmaps(c) ==
    /\ Rest /\ connections_' = connections_ \ {c} /\ UNCHANGED connVars
    /\ ioLoop[c] # BaseLoop /\ pc[BaseLoop] = "functors"
    /\ Has("removeConnectionInLoop", c, BaseLoop)
    /\ Waits' = [Waits EXCEPT ![BaseLoop] = @ \ {Call("removeConnectionInLoop", c)},
                             ![ioLoop[c]] = @ \cup {Call("connectDestroyed", c)}]

\* A connection is accepted and established at once, or handed to its loop.
Accepts(c) ==
    /\ c = nextConnId_ /\ nextConnId_' = nextConnId_ + 1
    /\ connections_' = connections_ \cup {c}
    /\ ioLoop' = [ioLoop EXCEPT ![c] = NextLoop]
    /\ UNCHANGED <<pc, server>> /\ pc[BaseLoop] = "handle"
    /\ IF NextLoop = BaseLoop
         THEN Established(c) /\ Waits' = Waits
         ELSE /\ Joins(Call("connectEstablished", c), NextLoop)
              /\ state_' = [state_ EXCEPT ![c] = "kConnecting"]
              /\ UNCHANGED <<index_, ups, downs>>

\* Its peer has ended: it is removed at once, or the base loop is told.
Closes(c) ==
    /\ Rest /\ pc[ioLoop[c]] = "handle"
    /\ index_[c] = "kAdded"
    /\ state_' = [state_ EXCEPT ![c] = "kDisconnected"]
    /\ index_' = [index_ EXCEPT ![c] = "kDeleted"]
    /\ downs' = [downs EXCEPT ![c] = @ + 1] /\ UNCHANGED ups
    /\ IF ioLoop[c] = BaseLoop
         THEN /\ connections_' = connections_ \ {c}
              /\ Joins(Call("connectDestroyed", c), BaseLoop)
         ELSE /\ UNCHANGED connections_
              /\ Joins(Call("removeConnectionInLoop", c), BaseLoop)

\* ~TcpServer ends it, or has its loop end it.
Ends(c) ==
    /\ Rest /\ server \in {"connections", "pool"}
    /\ c \in connections_ /\ connections_' = connections_ \ {c}
    /\ IF ioLoop[c] = BaseLoop
         THEN Destroyed(c) /\ Waits' = Waits
         ELSE Joins(Call("connectDestroyed", c), ioLoop[c]) /\ UNCHANGED connVars

\* The user shuts it down; queues and map do not hear of it.
Shuts(c) ==
    /\ Rest /\ UNCHANGED <<connections_, index_, ups, downs>> /\ Waits' = Waits
    /\ Held(c) /\ ups[c] = 1 /\ state_[c] \in {"kConnected", "kDisconnected"}
    /\ state_' = [state_ EXCEPT ![c] = "kDisconnecting"]

ConnectionStep(c) ==
    Establishes(c) \/ Destroys(c) \/ Unmaps(c) \/ Closes(c) \/ Ends(c) \/ Shuts(c)

Effect ==
    \/ Calm \/ ListenMoves
    \/ \E c \in Conn \ Accepted : Accepts(c)
    \/ \E c \in Accepted : ConnectionStep(c)

\* Calls are told apart by their operation and their connection.
LEMMA CallsDiffer ==
  ASSUME NEW o1, NEW o2, NEW c1, NEW c2
  PROVE  Call(o1, c1) = Call(o2, c2) <=> o1 = o2 /\ c1 = c2
BY DEF Call

\* No call about a connection that has not been accepted waits.
LEMMA FreshHasNothing ==
  ASSUME TypeOK, CallsPlaced, NEW c \in Conn \ Accepted, NEW l \in Loop,
         NEW call \in Waits[l]
  PROVE  call.conn # c
<1>1. Placed(call, l)
  BY DEF CallsPlaced
<1>2. AcceptChannel \notin Conn
  BY DEF AcceptChannel, Conn
<1> QED BY <1>1, <1>2 DEF Placed, Call

\* A step that leaves queues and connections alone is calm.
LEMMA CalmStep ==
  ASSUME TypeOK, LinesInOrder,
         UNCHANGED <<nextConnId_, connections_, connVars, ioLoop, pending, functors>>,
         server' = "up" => server = "up",
         \A l \in Loop : pc[l] = "ended" => pc'[l] = "ended"
  PROVE  LinesInOrder' /\ Calm
<1>1. LinesInOrder' /\ Waits' = Waits
  BY QuietLines
<1> QED BY <1>1 DEF Calm
\* Every step has one of these effects, and keeps the lines in order: what it queues
\* waits nowhere yet, as a connection leaves the map once and goes down once.
LEMMA EffectStep ==
  ASSUME IInv, [Next]_vars
  PROVE  LinesInOrder' /\ Effect
<1>0. /\ TypeOK /\ LinesInOrder /\ CallsPlaced /\ PoolNumbered /\ InPhase /\ EndsInOrder
      /\ Staged /\ StartedFirst /\ RoomLeft
  BY DEF IInv
<1>a. /\ pc \in [Loop -> {"none", "out", "poll", "handle", "functors", "ended"}]
      /\ ioLoop \in [Conn -> Loop]
      /\ connections_ \subseteq Accepted
  BY <1>0 DEF TypeOK, Accepted
<1>b. BaseLoop \in Loop /\ AcceptChannel \notin Conn /\ Accepted \subseteq Conn
  BY <1>0, AcceptedCount DEF BaseLoop, Loop, Conn, AcceptChannel
<1> USE DEF Effect
<1>1. ASSUME NEW s \in {"base", "other"}, Start(s) PROVE LinesInOrder' /\ Effect
  BY <1>0, <1>1, CalmStep DEF Start
<1>2. CASE StartThread
  <2>1. Len(loops_) + 1 \in Loop \ {BaseLoop} /\ Len(loops_) \in Nat
    BY SMTT(30), <1>0, <1>2 DEF StartThread, TypeOK, Loop, BaseLoop
  <2>2. pc[Len(loops_) + 1] = "none"
    BY <1>0, <2>1 DEF PoolNumbered
  <2>3. \A l \in Loop : pc[l] = "ended" => pc'[l] = "ended"
    BY <1>a, <1>2, <2>2 DEF StartThread
  <2> QED BY <1>0, <1>2, <2>3, CalmStep DEF StartThread
<1>3. CASE PoolStarted BY <1>0, <1>3, CalmStep DEF PoolStarted
<1>4. CASE StartListening
  <2>1. CASE starter = "base"
    BY <1>0, <1>4, <2>1, CalmStep DEF StartListening
  <2>2. CASE starter # "base"
    <3> DEFINE call == Call("listen", AcceptChannel)
    <3>1. /\ Queue(BaseLoop, call) /\ functors' = functors
          /\ Rest /\ UNCHANGED <<connections_, connVars>>
          /\ startPc = "listen" /\ startPc' = "idle"
      BY <1>4, <2>2 DEF StartListening, Rest
    <3>2. call \notin Waits[BaseLoop]
      BY <1>0, <1>4 DEF StartListening, StartedFirst, Has
    <3>3. call \in Calls /\ call.op # "connectEstablished"
      BY CallsTyped
    <3> HIDE DEF call
    <3>4. LinesInOrder' /\ Joins(call, BaseLoop)
      BY <1>0, <1>b, <3>1, <3>2, <3>3, JoinedLines DEF Joins
    <3> QED BY <3>1, <3>4 DEF ListenMoves, call
  <2> QED BY <2>1, <2>2
<1>e. ASSUME NEW l \in Loop, EnterLoop(l) PROVE LinesInOrder' /\ Effect
  <2>1. \A k \in Loop : pc[k] = "ended" => pc'[k] = "ended"
    BY <1>a, <1>e DEF EnterLoop
  <2> QED BY <1>0, <1>e, <2>1, CalmStep DEF EnterLoop
<1>5. CASE EnterLoop(BaseLoop) BY <1>b, <1>5, <1>e
<1>6. ASSUME NEW l \in Loop, LoopStep(l) PROVE LinesInOrder' /\ Effect
  <2>0. CASE EnterLoop(l) BY <1>e, <2>0
  <2>1. CASE Poll(l)
    <3>1. \A k \in Loop : pc[k] = "ended" => pc'[k] = "ended"
      BY <1>a, <2>1 DEF Poll
    <3> QED BY <1>0, <2>1, <3>1, CalmStep DEF Poll
  <2>2. CASE SwapFunctors(l)
    <3>1. functors[l] = <<>>
      BY <1>0, <2>2 DEF SwapFunctors, InPhase
    <3>2. LinesInOrder' /\ Waits' = Waits
      BY <1>0, <2>2, <3>1, SwapLines DEF SwapFunctors
    <3>3. \A k \in Loop : pc[k] = "ended" => pc'[k] = "ended"
      BY <1>a, <2>2 DEF SwapFunctors
    <3> QED BY <2>2, <3>2, <3>3 DEF SwapFunctors, Calm
  <2>3. CASE EndTurn(l)
    <3>1. \A k \in Loop : pc[k] = "ended" => pc'[k] = "ended"
      BY <1>a, <2>3 DEF EndTurn
    <3> QED BY <1>0, <2>3, <3>1, CalmStep DEF EndTurn
  <2>4. CASE RunFunctor(l)
    <3> DEFINE call == Head(functors[l])
               c == call.conn
    <3>1. /\ pc[l] = "functors" /\ functors[l] # <<>> /\ Rest
          /\ functors' = [functors EXCEPT ![l] = Tail(@)]
      BY <2>4 DEF RunFunctor, Take, Rest
    <3>2. call \in Waits[l] /\ call \in Calls /\ Placed(call, l)
      BY <1>0, <3>1, HeadPlaced
    <3>3. call = Call(call.op, c)
      BY <3>2 DEF Call, Calls
    <3>4. ASSUME pending' = pending PROVE LinesInOrder' /\ Leaves(call, l)
      BY <1>0, <3>1, <3>4, LeftLines DEF Leaves
    <3>5. CASE Take(l, "listen") /\ UNCHANGED <<connVars, connections_, pending>>
      <4>1. call = Call("listen", AcceptChannel) /\ l = BaseLoop
        BY <3>2, <3>5 DEF Take, Placed
      <4> QED BY <3>1, <3>4, <3>5, <4>1 DEF ListenMoves
    <3>6. CASE Take(l, "connectEstablished") /\ Established(c)
                 /\ UNCHANGED <<connections_, pending>>
      <4>1. /\ call.op = "connectEstablished" /\ l # BaseLoop
            /\ c \in Accepted /\ ioLoop[c] = l
        BY <3>2, <3>6 DEF Take, Placed, Call
      <4>2. Has("connectEstablished", c, l) /\ Leaves(Call("connectEstablished", c), l)
        BY <3>2, <3>3, <3>4, <3>6, <4>1 DEF Has
      <4>3. Establishes(c)
        BY <3>1, <3>6, <4>1, <4>2 DEF Establishes
      <4> QED BY <3>4, <3>6, <4>1, <4>3 DEF ConnectionStep
    <3>7. CASE Take(l, "connectDestroyed") /\ Destroyed(c)
                 /\ UNCHANGED <<connections_, pending>>
      <4>1. /\ call.op = "connectDestroyed"
            /\ c \in Accepted /\ ioLoop[c] = l
        BY <3>2, <3>7 DEF Take, Placed, Call
      <4>2. Has("connectDestroyed", c, l) /\ Leaves(Call("connectDestroyed", c), l)
        BY <3>2, <3>3, <3>4, <3>7, <4>1 DEF Has
      <4>3. ~Has("connectEstablished", c, l)
        <5>1. /\ functors'[l] = Tail(functors[l]) /\ pending'[l] = pending[l]
          BY <1>0, <3>1, <3>7 DEF TypeOK
        <5>2. \A d \in Waits[l] : d.op = "connectEstablished" => d.conn # c
          BY <1>0, <3>1, <4>1, <5>1, LineLeft
        <5> QED BY <5>2 DEF Has, Call
      <4>4. Destroys(c)
        BY <3>1, <3>7, <4>1, <4>2, <4>3 DEF Destroys
      <4> QED BY <3>4, <3>7, <4>1, <4>4 DEF ConnectionStep
    <3>8. CASE Take(l, "removeConnectionInLoop") /\ RemoveConnectionInLoop(c)
                 /\ UNCHANGED connVars
      <4>1. /\ call.op = "removeConnectionInLoop" /\ l = BaseLoop
            /\ c \in Accepted /\ ioLoop[c] # BaseLoop
        BY <3>2, <3>8 DEF Take, Placed, Call
      <4>2. Has("removeConnectionInLoop", c, BaseLoop)
        BY <3>2, <3>3, <4>1 DEF Has
      <4>3. InStage(c)
        BY <1>0, <4>1 DEF Staged
      <4>4. c \in connections_ /\ ~Has("connectDestroyed", c, ioLoop[c])
        BY <3>1, <4>1, <4>2, <4>3 DEF InStage, LeavesOnce
      <4> DEFINE next == Call("connectDestroyed", c)
      <4>5. next \in Calls /\ next.op # "connectEstablished" /\ next \notin Waits[ioLoop[c]]
        BY <1>b, <4>1, <4>4, CallsTyped DEF Has
      <4>6. Queue(ioLoop[c], next) /\ connections_' = connections_ \ {c}
        BY <3>8 DEF RemoveConnectionInLoop, DestroyQueued, Queue
      <4>7. ioLoop[c] \in Loop \ {l}
        BY <1>a, <1>b, <4>1
      <4> HIDE DEF next, call, c
      <4>8. /\ LinesInOrder'
            /\ Waits' = [Waits EXCEPT ![l] = @ \ {call}, ![ioLoop[c]] = @ \cup {next}]
        <5>1. call = Head(functors[l])
          BY DEF call
        <5> DEFINE k == ioLoop[c]
        <5>2. k \in Loop \ {l} /\ Queue(k, next) /\ next \notin Waits[k]
          BY <4>5, <4>6, <4>7
        <5> HIDE DEF k
        <5>3. /\ LinesInOrder'
              /\ Waits' = [Waits EXCEPT ![l] = @ \ {Head(functors[l])}, ![k] = @ \cup {next}]
          BY <1>0, <3>1, <4>5, <5>2, HopLines
        <5> QED BY <5>1, <5>3 DEF k
      <4>9. Unmaps(c)
        BY <3>1, <3>3, <3>8, <4>1, <4>2, <4>6, <4>8 DEF Unmaps, next
      <4> QED BY <4>1, <4>8, <4>9 DEF ConnectionStep
    <3> QED BY <2>4, <3>5, <3>6, <3>7, <3>8 DEF RunFunctor
  <2>5. CASE HandleAccept
    <3>1. CASE AcceptFails
      BY <1>0, <2>5, <3>1, CalmStep DEF HandleAccept
    <3>2. CASE ~AcceptFails
      <4> DEFINE c == nextConnId_
                 call == Call("connectEstablished", c)
      <4>1. /\ NewConnection /\ UNCHANGED <<pc, server, functors>> /\ pc[BaseLoop] = "handle"
        BY <2>5, <3>2 DEF HandleAccept
      <4>2. c \in Conn \ Accepted /\ call \in Calls /\ call.conn = c
        BY <1>0, <3>2, NextIsFresh, CallsTyped
      <4>3. NextLoop \in Loop
        BY <1>0, NextLoopInPool
      <4>4. CASE NextLoop = BaseLoop
        <5>1. LinesInOrder' /\ Waits' = Waits
          BY <1>0, <4>1, <4>4, QuietLines DEF NewConnection
        <5>2. Accepts(c)
          BY <4>1, <4>4, <5>1 DEF NewConnection, Accepts
        <5> QED BY <4>2, <5>1, <5>2
      <4>5. CASE NextLoop # BaseLoop
        <5>1. Queue(NextLoop, call)
          BY <4>1, <4>5 DEF NewConnection
        <5>2. \A d \in Waits[NextLoop] : d.conn # call.conn
          BY <1>0, <4>2, <4>3, FreshHasNothing
        <5>3. LinesInOrder' /\ Joins(call, NextLoop)
          <6> HIDE DEF call
          <6>1. call \notin Waits[NextLoop]
            BY <5>2
          <6> QED BY <1>0, <4>1, <4>2, <4>3, <5>1, <5>2, <6>1, JoinedLines DEF Joins
        <5>4. Accepts(c)
          BY <4>1, <4>5, <5>3 DEF NewConnection, Accepts
        <5> QED BY <4>2, <5>3, <5>4
      <4> QED BY <4>4, <4>5
    <3> QED BY <3>1, <3>2
  <2>6. ASSUME NEW c \in Conn, HandleClose(l, c) PROVE LinesInOrder' /\ Effect
    <3>1. c \in Accepted /\ ioLoop[c] = l /\ index_[c] = "kAdded" /\ pc[l] = "handle"
      BY <1>0, <1>b, <2>6 DEF HandleClose, InPhase
    <3>2. Up(c) /\ LeavesOnce(c)
      BY <1>0, <3>1 DEF Staged, InStage, Waiting, Down, Removed
    <3>3. Rest /\ functors' = functors
      BY <2>6 DEF HandleClose, Rest
    <3>4. CASE l = BaseLoop
      <4> DEFINE call == Call("connectDestroyed", c)
      <4>1. server = "up"
        BY <1>0, <3>1, <3>4 DEF EndsInOrder
      <4>2. call \in Calls /\ call.op # "connectEstablished" /\ call \notin Waits[l]
        BY <3>1, <3>2, <4>1, CallsTyped DEF Up, KeptUp, LeavesOnce, Has
      <4>3. Queue(l, call) /\ connections_' = connections_ \ {c}
        BY <2>6, <3>1, <3>4 DEF HandleClose, TellServer, RemoveConnectionInLoop,
                                DestroyQueued, Queue
      <4> HIDE DEF call
      <4>4. LinesInOrder' /\ Joins(call, l)
        BY <1>0, <3>3, <4>2, <4>3, JoinedLines DEF Joins
      <4>5. Closes(c)
        BY <2>6, <3>1, <3>3, <3>4, <4>3, <4>4 DEF HandleClose, Closes, call
      <4> QED BY <3>1, <4>4, <4>5 DEF ConnectionStep
    <3>5. CASE l # BaseLoop
      <4> DEFINE call == Call("removeConnectionInLoop", c)
      <4>2. /\ call \in Calls /\ call.op # "connectEstablished"
            /\ call \notin Waits[BaseLoop]
        BY <3>2, CallsTyped DEF Up, Has
      <4>3. Queue(BaseLoop, call) /\ connections_' = connections_
        BY <2>6, <3>5 DEF HandleClose, TellServer
      <4> HIDE DEF call
      <4>4. LinesInOrder' /\ Joins(call, BaseLoop)
        BY <1>0, <1>b, <3>3, <4>2, <4>3, JoinedLines DEF Joins
      <4>5. Closes(c)
        BY <2>6, <3>1, <3>3, <3>5, <4>3, <4>4 DEF HandleClose, Closes, call
      <4> QED BY <3>1, <4>4, <4>5 DEF ConnectionStep
    <3> QED BY <3>4, <3>5
  <2> QED BY <1>6, <2>0, <2>1, <2>2, <2>3, <2>4, <2>5, <2>6 DEF LoopStep
<1>s. ASSUME NEW c \in Conn, Shutdown(c) PROVE LinesInOrder' /\ Effect
  <2>1. c \in Accepted
    BY <1>s DEF Shutdown, IInv, FreshUntouched
  <2>2. LinesInOrder' /\ Waits' = Waits
    BY <1>0, <1>s, QuietLines DEF Shutdown
  <2>3. Shuts(c)
    BY <1>s, <2>2 DEF Shutdown, Shuts, Rest
  <2> QED BY <2>1, <2>2, <2>3 DEF ConnectionStep
<1>7. CASE Quit BY <1>0, <1>7, CalmStep DEF Quit
<1>8. CASE DestroyServer BY <1>0, <1>8, CalmStep DEF DestroyServer
<1>9. CASE DestroyConnection
  <2>1. PICK c \in connections_ : connections_' = connections_ \ {c} /\ EndConnection(c)
    BY <1>9 DEF DestroyConnection
  <2>2. /\ server \in {"connections", "pool"} /\ Rest /\ functors' = functors
    BY <1>9 DEF DestroyConnection, Rest
  <2>3. c \in Accepted /\ ioLoop[c] \in Loop
    BY <1>a, <1>b
  <2>4. CASE ioLoop[c] = BaseLoop
    <3>1. Destroyed(c) /\ pending' = pending
      BY <2>1, <2>4 DEF EndConnection
    <3>2. LinesInOrder' /\ Waits' = Waits
      BY <1>0, <2>2, <3>1, QuietLines
    <3> QED BY <2>1, <2>2, <2>3, <2>4, <3>1, <3>2 DEF Ends, ConnectionStep
  <2>5. CASE ioLoop[c] # BaseLoop
    <3> DEFINE call == Call("connectDestroyed", c)
    <3>1. Queue(ioLoop[c], call) /\ UNCHANGED connVars
      BY <2>1, <2>5 DEF EndConnection
    <3>2. /\ call \in Calls /\ call.op # "connectEstablished"
          /\ call \notin Waits[ioLoop[c]]
      BY <1>0, <1>b, <2>3, CallsTyped DEF Staged, InStage, LeavesOnce, Has
    <3> HIDE DEF call
    <3>3. LinesInOrder' /\ Joins(call, ioLoop[c])
      BY <1>0, <2>2, <2>3, <3>1, <3>2, JoinedLines DEF Joins
    <3> QED BY <2>1, <2>2, <2>3, <2>5, <3>1, <3>3 DEF Ends, ConnectionStep, call
  <2> QED BY <2>4, <2>5
<1>10. CASE DestroyPool BY <1>0, <1>10, CalmStep DEF DestroyPool
<1>11. CASE StopThread BY <1>0, <1>11, CalmStep DEF StopThread
<1>12. CASE DestroyAcceptor BY <1>0, <1>12, CalmStep DEF DestroyAcceptor
<1>13. CASE PeerConnects \/ PeerGivesUp \/ PeerEnds
  BY <1>0, <1>13, CalmStep DEF PeerConnects, PeerGivesUp, PeerEnds, Outside
<1>14. CASE UNCHANGED vars BY <1>0, <1>14, CalmStep DEF vars
<1> QED
  BY <1>s, <1>1, <1>2, <1>3, <1>4, <1>5, <1>6, <1>7, <1>8, <1>9, <1>10, <1>11, <1>12,
     <1>13, <1>14 DEF Next, StartStep, DestructorStep
-----------------------------------------------------------------------------
(* How far the connections are *)

\* A step that is about another connection.
Untouched(c) ==
    /\ ups'[c] = ups[c] /\ downs'[c] = downs[c]
    /\ state_'[c] = state_[c] /\ index_'[c] = index_[c] /\ ioLoop'[c] = ioLoop[c]
    /\ c \in connections_' <=> c \in connections_
    /\ \A l \in Loop : \A call \in Calls :
         call.conn = c => (call \in Waits'[l] <=> call \in Waits[l])
    /\ server' = "up" => server = "up"
    /\ \A l \in Loop : pc[l] = "ended" => pc'[l] = "ended"

ConnectionFacts ==
    /\ ioLoop \in [Conn -> Loop]
    /\ state_ \in [Conn -> ConnectionStates]
    /\ index_ \in [Conn -> {"kNew", "kAdded", "kDeleted"}]
    /\ ups \in [Conn -> Nat] /\ downs \in [Conn -> Nat]
    /\ Waits \in [Loop -> SUBSET Calls]
    /\ Accepted \subseteq Conn /\ connections_ \subseteq Accepted
    /\ BaseLoop \in Loop /\ AcceptChannel \notin Conn

LEMMA FactsHold == TypeOK => ConnectionFacts
<1> SUFFICES ASSUME TypeOK PROVE ConnectionFacts
  OBVIOUS
<1>1. Waits \in [Loop -> SUBSET Calls] /\ Accepted \subseteq Conn
  BY LinesTyped, AcceptedCount
<1>2. BaseLoop \in Loop /\ AcceptChannel \notin Conn
  BY DEF BaseLoop, Loop, Conn, AcceptChannel
<1>3. connections_ \subseteq Accepted
  BY DEF TypeOK, Accepted
<1> QED BY <1>1, <1>2, <1>3 DEF TypeOK, ConnectionFacts, ConnectionStates

\* A step that is about a connection leaves the others alone.
LEMMA OthersUntouched ==
  ASSUME TypeOK, Effect, NEW d \in Accepted
  PROVE  Untouched(d) \/ ConnectionStep(d)
<1>0. ConnectionFacts /\ d \in Conn /\ d # AcceptChannel
  BY FactsHold DEF ConnectionFacts
<1> USE DEF ConnectionFacts
<1>1. CASE Calm
  BY <1>1 DEF Calm, Untouched
<1>2. CASE ListenMoves
  <2> DEFINE listen == Call("listen", AcceptChannel)
  <2>1. listen.conn # d
    BY <1>0 DEF Call
  <2> HIDE DEF listen
  <2>2. \A l \in Loop : \A call \in Calls :
          call.conn = d => (call \in Waits'[l] <=> call \in Waits[l])
    <3>1. CASE Waits' = [Waits EXCEPT ![BaseLoop] = @ \cup {listen}]
      BY <1>0, <2>1, <3>1
    <3>2. CASE Waits' = [Waits EXCEPT ![BaseLoop] = @ \ {listen}]
      BY <1>0, <2>1, <3>2
    <3> QED BY <1>2, <3>1, <3>2 DEF ListenMoves, Joins, Leaves, listen
  <2> QED BY <1>2, <2>2 DEF ListenMoves, Rest, Untouched
<1>3. ASSUME NEW c \in Conn \ Accepted, Accepts(c) PROVE Untouched(d)
  <2> DEFINE new == Call("connectEstablished", c)
  <2>1. new.conn # d /\ c # d
    BY <1>0 DEF Call
  <2> HIDE DEF new
  <2>2. Waits' = Waits \/ Waits' = [Waits EXCEPT ![NextLoop] = @ \cup {new}]
    BY <1>3 DEF Accepts, Joins, new
  <2>3. \A l \in Loop : \A call \in Calls :
          call.conn = d => (call \in Waits'[l] <=> call \in Waits[l])
    BY <1>0, <2>1, <2>2
  <2>4. /\ ups'[d] = ups[d] /\ downs'[d] = downs[d]
        /\ state_'[d] = state_[d] /\ index_'[d] = index_[d]
    BY <1>0, <1>3, <2>1 DEF Accepts, Established
  <2>5. ioLoop'[d] = ioLoop[d] /\ (d \in connections_' <=> d \in connections_)
    BY <1>0, <1>3, <2>1 DEF Accepts
  <2>6. pc' = pc /\ server' = server
    BY <1>3 DEF Accepts
  <2> QED BY <2>3, <2>4, <2>5, <2>6 DEF Untouched
<1>4. ASSUME NEW c \in Accepted, ConnectionStep(c), c # d PROVE Untouched(d)
  <2> DEFINE RC == Call("removeConnectionInLoop", c)
             CD == Call("connectDestroyed", c)
             CE == Call("connectEstablished", c)
  <2>1. RC.conn # d /\ CD.conn # d /\ CE.conn # d
    BY <1>4 DEF Call
  <2> HIDE DEF RC, CD, CE
  <2>2. ASSUME NEW l \in Loop, NEW call \in Calls, call.conn = d
        PROVE  call \in Waits'[l] <=> call \in Waits[l]
    <3>1. CASE Establishes(c)
      BY <1>0, <2>1, <2>2, <3>1 DEF Establishes, Leaves, CE
    <3>2. CASE Destroys(c)
      BY <1>0, <2>1, <2>2, <3>2 DEF Destroys, Leaves, CD
    <3>3. CASE Unmaps(c)
      <4>1. Waits' = [Waits EXCEPT ![BaseLoop] = @ \ {RC}, ![ioLoop[c]] = @ \cup {CD}]
        BY <3>3 DEF Unmaps, RC, CD
      <4>2. ioLoop[c] # BaseLoop /\ ioLoop[c] \in Loop
        BY <1>0, <3>3 DEF Unmaps
      <4> QED BY <1>0, <2>1, <2>2, <4>1, <4>2
    <3>4. CASE Closes(c)
      BY <1>0, <2>1, <2>2, <3>4 DEF Closes, Joins, RC, CD
    <3>5. CASE Ends(c)
      BY <1>0, <2>1, <2>2, <3>5 DEF Ends, Joins, CD
    <3>6. CASE Shuts(c)
      BY <3>6 DEF Shuts
    <3> QED BY <1>4, <3>1, <3>2, <3>3, <3>4, <3>5, <3>6 DEF ConnectionStep
  <2>3. /\ ups'[d] = ups[d] /\ downs'[d] = downs[d]
        /\ state_'[d] = state_[d] /\ index_'[d] = index_[d]
    BY <1>0, <1>4 DEF ConnectionStep, Establishes, Destroys, Unmaps, Closes, Ends,
                      Shuts, Established, Destroyed
  <2>4. Rest /\ (d \in connections_' <=> d \in connections_)
    BY <1>4 DEF ConnectionStep, Establishes, Destroys, Unmaps, Closes, Ends, Shuts
  <2> QED BY <2>2, <2>3, <2>4 DEF Untouched, Rest
<1> QED BY <1>1, <1>2, <1>3, <1>4 DEF Effect
LEMMA UntouchedStage ==
  ASSUME TypeOK, NEW c \in Accepted, InStage(c), Untouched(c)
  PROVE  InStage(c)'
<1>0. ConnectionFacts /\ c \in Conn
  BY FactsHold DEF ConnectionFacts
<1>1. \A op \in {"connectEstablished", "connectDestroyed", "removeConnectionInLoop"} :
        \A l \in Loop : Call(op, c) \in Waits'[l] <=> Call(op, c) \in Waits[l]
  BY <1>0, CallsTyped DEF Untouched
<1>2. ioLoop[c] \in Loop /\ BaseLoop \in Loop
  BY <1>0 DEF ConnectionFacts
<1> USE <1>1, <1>2 DEF Untouched, Has, Kept, KeptUp
<1>3. Waiting(c) => Waiting(c)' BY DEF Waiting
<1>4. Up(c) => Up(c)' BY DEF Up
<1>5. Down(c) => Down(c)' BY DEF Down
<1>6. Removed(c) => Removed(c)' BY DEF Removed, Reported
<1>7. LeavesOnce(c) => LeavesOnce(c)' BY DEF LeavesOnce
<1> QED BY <1>3, <1>4, <1>5, <1>6, <1>7 DEF InStage

\* The stages of a connection and its own steps: it comes up, goes down, leaves the map
\* and is removed, in this order but for the map, which the destructor empties early.
LEMMA OwnStage ==
  ASSUME IInv, NEW c \in Accepted, ConnectionStep(c)
  PROVE  InStage(c)'
<1> DEFINE RC == Call("removeConnectionInLoop", c)
           CD == Call("connectDestroyed", c)
           CE == Call("connectEstablished", c)
           k  == ioLoop[c]
<1>0. ConnectionFacts /\ c \in Conn /\ InStage(c) /\ EndsInOrder /\ CallsPlaced
  BY FactsHold DEF ConnectionFacts, IInv, Staged
<1>1. RC # CD /\ RC # CE /\ CD # CE
  BY DEF Call
<1>2. CE \in Waits[k] => k # BaseLoop
  <2> HAVE CE \in Waits[k]
  <2>1. Placed(CE, k)
    BY <1>0 DEF CallsPlaced, ConnectionFacts
  <2> QED BY <2>1 DEF Placed, Call
<1>3. k \in Loop /\ BaseLoop \in Loop /\ Waits \in [Loop -> SUBSET Calls]
  BY <1>0 DEF ConnectionFacts
<1>t. /\ state_ \in [Conn -> ConnectionStates]
      /\ index_ \in [Conn -> {"kNew", "kAdded", "kDeleted"}]
      /\ ups \in [Conn -> Nat] /\ downs \in [Conn -> Nat]
  BY <1>0 DEF ConnectionFacts
<1>u. pc[BaseLoop] # "ended" => server = "up"
  BY <1>0, <1>3 DEF EndsInOrder
<1> HIDE DEF RC, CD, CE
<1>4. /\ Has("removeConnectionInLoop", c, BaseLoop) <=> RC \in Waits[BaseLoop]
      /\ Has("connectDestroyed", c, ioLoop[c]) <=> CD \in Waits[k]
      /\ Has("connectEstablished", c, ioLoop[c]) <=> CE \in Waits[k]
  BY DEF Has, RC, CD, CE
<1>5. CASE Rest /\ ioLoop' = ioLoop
  <2>1. /\ Has("removeConnectionInLoop", c, BaseLoop)' <=> RC \in Waits'[BaseLoop]
        /\ Has("connectDestroyed", c, ioLoop[c])' <=> CD \in Waits'[k]
        /\ Has("connectEstablished", c, ioLoop[c])' <=> CE \in Waits'[k]
    BY <1>5 DEF Has, RC, CD, CE
  <2>2. CASE Establishes(c)
    <3>1. /\ k # BaseLoop /\ CE \in Waits[k] /\ connections_' = connections_
          /\ Waits' = [Waits EXCEPT ![k] = @ \ {CE}] /\ Established(c)
      BY <1>4, <2>2 DEF Establishes, Leaves, CE
    <3>2. Waiting(c) /\ LeavesOnce(c)
      BY <1>0, <1>4, <3>1 DEF InStage, Up, Down, Removed
    <3>3. /\ Waits'[k] = Waits[k] \ {CE} /\ Waits'[BaseLoop] = Waits[BaseLoop]
          /\ ups'[c] = 1 /\ downs'[c] = 0 /\ state_'[c] = "kConnected" /\ index_'[c] = "kAdded"
      BY <1>0, <1>3, <1>t, <3>1, <3>2 DEF Established, Waiting
    <3>4. Up(c)' /\ LeavesOnce(c)'
      BY <1>1, <1>4, <1>5, <2>1, <3>1, <3>2, <3>3
         DEF Waiting, Up, LeavesOnce, Kept, KeptUp, Rest
    <3> QED BY <3>4 DEF InStage
  <2>3. CASE Destroys(c)
    <3>1. /\ CD \in Waits[k] /\ CE \notin Waits[k] /\ connections_' = connections_
          /\ Waits' = [Waits EXCEPT ![k] = @ \ {CD}] /\ Destroyed(c)
      BY <1>4, <2>3 DEF Destroys, Leaves, CD
    <3>2. (Up(c) \/ Down(c)) /\ LeavesOnce(c) /\ c \notin connections_
      BY <1>0, <1>4, <3>1 DEF InStage, Waiting, Removed, LeavesOnce, Kept
    <3>3. /\ Waits'[k] = Waits[k] \ {CD}
          /\ RC \in Waits'[BaseLoop] <=> RC \in Waits[BaseLoop]
          /\ ups'[c] = 1 /\ Reported(c)' /\ index_'[c] = "kNew"
      <4>1. /\ Waits'[k] = Waits[k] \ {CD}
            /\ RC \in Waits'[BaseLoop] <=> RC \in Waits[BaseLoop]
        BY <1>1, <1>3, <3>1
      <4>2. CASE Up(c)
        <5>1. server' # "up"
          BY <1>5, <3>2, <4>2 DEF Up, KeptUp, Rest
        <5> QED BY <1>0, <1>t, <3>1, <4>1, <4>2, <5>1
               DEF Destroyed, DestroyEnds, Up, Reported
      <4>3. CASE Down(c)
        BY <1>0, <1>t, <3>1, <4>1, <4>3 DEF Destroyed, DestroyEnds, Down, Reported
      <4> QED BY <3>2, <4>2, <4>3
    <3>4. Removed(c)' /\ LeavesOnce(c)'
      BY <1>1, <1>4, <1>5, <2>1, <3>1, <3>2, <3>3 DEF Removed, LeavesOnce, Kept, Rest
    <3> QED BY <3>4 DEF InStage
  <2>4. CASE Unmaps(c)
    <3>1. /\ RC \in Waits[BaseLoop] /\ k # BaseLoop /\ connections_' = connections_ \ {c}
          /\ Waits' = [Waits EXCEPT ![BaseLoop] = @ \ {RC}, ![k] = @ \cup {CD}]
          /\ UNCHANGED connVars
      BY <1>4, <2>4 DEF Unmaps, RC, CD
    <3>2. pc[BaseLoop] # "ended"
      BY <2>4 DEF Unmaps
    <3>3. Down(c)
      BY <1>0, <1>4, <3>1, <3>2 DEF InStage, Waiting, Up, Removed, LeavesOnce, Kept
    <3>4. Waits'[BaseLoop] = Waits[BaseLoop] \ {RC} /\ Waits'[k] = Waits[k] \cup {CD}
      BY <1>3, <3>1
    <3>5. Down(c)' /\ LeavesOnce(c)'
      BY <1>1, <1>4, <1>5, <2>1, <3>1, <3>3, <3>4 DEF Down, LeavesOnce, Kept, Rest
    <3> QED BY <3>5 DEF InStage
  <2>5. CASE Closes(c)
    <3>1. /\ index_[c] = "kAdded" /\ state_'[c] = "kDisconnected" /\ index_'[c] = "kDeleted"
          /\ downs'[c] = downs[c] + 1 /\ ups'[c] = ups[c]
      BY <1>0, <1>t, <2>5 DEF Closes
    <3>2. Up(c) /\ LeavesOnce(c)
      BY <1>0, <3>1 DEF InStage, Waiting, Down, Removed
    <3>3. CASE k = BaseLoop
      <4>1. connections_' = connections_ \ {c} /\ Waits' = [Waits EXCEPT ![k] = @ \cup {CD}]
        BY <2>5, <3>3 DEF Closes, Joins, CD
      <4>2. Waits'[k] = Waits[k] \cup {CD}
        BY <1>3, <4>1
      <4>3. Down(c)' /\ LeavesOnce(c)'
        BY <1>1, <1>4, <1>5, <2>1, <3>1, <3>2, <3>3, <4>1, <4>2
           DEF Up, Down, LeavesOnce, Kept, Rest
      <4> QED BY <4>3 DEF InStage
    <3>4. CASE k # BaseLoop
      <4>1. /\ connections_' = connections_
            /\ Waits' = [Waits EXCEPT ![BaseLoop] = @ \cup {RC}]
        BY <2>5, <3>4 DEF Closes, Joins, RC
      <4>2. Waits'[BaseLoop] = Waits[BaseLoop] \cup {RC} /\ Waits'[k] = Waits[k]
        BY <1>3, <3>4, <4>1
      <4>3. pc[BaseLoop] # "ended" => c \in connections_
        BY <1>u, <3>2 DEF Up, KeptUp
      <4>4. Down(c)' /\ LeavesOnce(c)'
        BY <1>1, <1>4, <1>5, <2>1, <3>1, <3>2, <4>1, <4>2, <4>3
           DEF Up, Down, LeavesOnce, Kept, KeptUp, Rest
      <4> QED BY <4>4 DEF InStage
    <3> QED BY <3>3, <3>4
  <2>6. CASE Ends(c)
    <3>1. /\ server \in {"connections", "pool"} /\ pc[BaseLoop] = "ended"
          /\ c \in connections_ /\ connections_' = connections_ \ {c}
          /\ CD \notin Waits[k]
      BY <1>0, <1>4, <1>u, <2>6 DEF Ends, InStage, LeavesOnce
    <3>2. CASE k = BaseLoop
      <4>1. Destroyed(c) /\ Waits' = Waits
        BY <2>6, <3>2 DEF Ends
      <4>2. Up(c) \/ Down(c)
        BY <1>0, <1>2, <1>4, <3>1, <3>2 DEF InStage, Waiting, Removed, Kept
      <4>3. ups'[c] = 1 /\ Reported(c)' /\ index_'[c] = "kNew"
        <5>1. CASE Up(c)
          BY <1>0, <1>5, <1>t, <3>1, <4>1, <5>1 DEF Destroyed, DestroyEnds, Up, Reported, Rest
        <5>2. CASE Down(c)
          BY <1>0, <1>t, <4>1, <5>2 DEF Destroyed, DestroyEnds, Down, Reported
        <5> QED BY <4>2, <5>1, <5>2
      <4>4. CE \notin Waits[k]
        BY <1>2, <3>2
      <4>5. CD \notin Waits'[k] /\ CE \notin Waits'[k] /\ c \notin connections_'
        BY <3>1, <4>1, <4>4
      <4>6. Removed(c)'
        BY <2>1, <4>3, <4>5 DEF Removed, Kept
      <4>7. LeavesOnce(c)'
        BY <1>5, <3>1, <4>5 DEF LeavesOnce, Rest
      <4> QED BY <4>6, <4>7 DEF InStage
    <3>3. CASE k # BaseLoop
      <4>1. Waits' = [Waits EXCEPT ![k] = @ \cup {CD}] /\ UNCHANGED connVars
        BY <2>6, <3>3 DEF Ends, Joins, CD
      <4>2. Waits'[BaseLoop] = Waits[BaseLoop] /\ Waits'[k] = Waits[k] \cup {CD}
        BY <1>3, <3>3, <4>1
      <4>3. LeavesOnce(c)'
        BY <1>4, <1>5, <2>1, <3>1, <4>2 DEF LeavesOnce, Rest
      <4>4. CE \in Waits'[k] <=> CE \in Waits[k]
        BY <1>1, <4>2
      <4> USE <1>4, <1>5, <2>1, <3>1, <4>1, <4>2, <4>4 DEF Kept, KeptUp, Rest
      <4>5. Waiting(c) => Waiting(c)' BY DEF Waiting
      <4>6. Up(c) => Up(c)' BY DEF Up
      <4>7. Down(c) => Down(c)' BY DEF Down
      <4>8. ~Removed(c) BY DEF Removed
      <4> QED BY <1>0, <4>3, <4>5, <4>6, <4>7, <4>8 DEF InStage
    <3> QED BY <3>2, <3>3
  <2>7. CASE Shuts(c)
    <3>1. /\ UNCHANGED <<connections_, index_, ups, downs>> /\ Waits' = Waits
          /\ ups[c] = 1 /\ state_[c] \in {"kConnected", "kDisconnected"}
          /\ state_'[c] = "kDisconnecting"
      BY <1>0, <1>t, <2>7 DEF Shuts
    <3> USE <1>4, <1>5, <2>1, <3>1 DEF Kept, KeptUp, Rest
    <3>2. ~Waiting(c) BY DEF Waiting
    <3>3. Up(c) => Up(c)' BY DEF Up
    <3>4. Down(c) => Down(c)' BY DEF Down
    <3>5. Removed(c) => Removed(c)' BY DEF Removed, Reported
    <3>6. LeavesOnce(c) => LeavesOnce(c)' BY DEF LeavesOnce
    <3> QED BY <1>0, <3>2, <3>3, <3>4, <3>5, <3>6 DEF InStage
  <2> QED BY <2>2, <2>3, <2>4, <2>5, <2>6, <2>7 DEF ConnectionStep
<1>6. Rest
  BY DEF ConnectionStep, Establishes, Destroys, Unmaps, Closes, Ends, Shuts
<1> QED BY <1>5, <1>6 DEF Rest
LEMMA NewStage ==
  ASSUME IInv, NEW c \in Conn \ Accepted, Accepts(c)
  PROVE  InStage(c)'
<1>0. ConnectionFacts /\ CallsPlaced /\ TypeOK /\ PoolNumbered
  BY FactsHold DEF IInv
<1>1. /\ ups[c] = 0 /\ downs[c] = 0 /\ index_[c] = "kNew"
  BY DEF IInv, FreshUntouched
<1>2. ioLoop'[c] = NextLoop /\ NextLoop \in Loop /\ BaseLoop \in Loop
  BY <1>0, NextLoopInPool DEF Accepts, ConnectionFacts
<1>3. \A op : \A l \in Loop : ~Has(op, c, l)
  BY <1>0, FreshHasNothing DEF Has, Call
<1>4. c \in connections_' /\ server' = server /\ pc' = pc
  BY DEF Accepts
<1> DEFINE CE == Call("connectEstablished", c)
<1>5. CASE NextLoop = BaseLoop
  <2>1. Established(c) /\ Waits' = Waits
    BY <1>5 DEF Accepts
  <2>2. ups'[c] = 1 /\ downs'[c] = 0 /\ state_'[c] = "kConnected" /\ index_'[c] = "kAdded"
    BY <1>0, <1>1, <2>1 DEF Established, ConnectionFacts
  <2>3. \A op : Call(op, c) \notin Waits'[BaseLoop]
    BY <1>2, <1>3, <2>1 DEF Has
  <2>4. Up(c)' /\ LeavesOnce(c)'
    BY <1>2, <1>4, <1>5, <2>2, <2>3 DEF Up, LeavesOnce, Kept, KeptUp, Has
  <2> QED BY <2>4 DEF InStage
<1>6. CASE NextLoop # BaseLoop
  <2>1. /\ Waits' = [Waits EXCEPT ![NextLoop] = @ \cup {CE}]
        /\ state_' = [state_ EXCEPT ![c] = "kConnecting"]
        /\ UNCHANGED <<index_, ups, downs>>
    BY <1>6 DEF Accepts, Joins
  <2>2. state_'[c] = "kConnecting"
    BY <1>0, <2>1 DEF ConnectionFacts
  <2>3. Waits'[NextLoop] = Waits[NextLoop] \cup {CE} /\ Waits'[BaseLoop] = Waits[BaseLoop]
    BY <1>0, <1>2, <1>6, <2>1 DEF ConnectionFacts
  <2>4. /\ Call("removeConnectionInLoop", c) \notin Waits'[BaseLoop]
        /\ Call("connectDestroyed", c) \notin Waits'[NextLoop]
        /\ Call("connectEstablished", c) \in Waits'[NextLoop]
    BY <1>2, <1>3, <2>3 DEF Has, Call
  <2>5. Waiting(c)' /\ LeavesOnce(c)'
    BY <1>1, <1>2, <1>4, <2>1, <2>2, <2>4 DEF Waiting, LeavesOnce, Kept, KeptUp, Has
  <2> QED BY <2>5 DEF InStage
<1> QED BY <1>5, <1>6

LEMMA AcceptedGrows ==
  ASSUME TypeOK, Effect
  PROVE  /\ Accepted \subseteq Accepted'
         /\ \A c \in Accepted' \ Accepted : c \in Conn /\ Accepts(c)
         /\ \A c \in Accepted : ioLoop'[c] = ioLoop[c]
<1>0. nextConnId_ \in Nat
  BY DEF TypeOK
<1>1. \A c \in Accepted : ioLoop'[c] = ioLoop[c]
  BY OthersUntouched DEF Untouched, ConnectionStep, Establishes, Destroys, Unmaps, Closes,
                         Ends, Shuts, Rest
<1>2. CASE nextConnId_' = nextConnId_
  BY <1>1, <1>2 DEF Accepted
<1>3. ASSUME NEW c \in Conn \ Accepted, Accepts(c)
      PROVE  Accepted' = Accepted \cup {c}
  BY <1>0, <1>3 DEF Accepts, Accepted, Conn
<1>4. nextConnId_' = nextConnId_ \/ \E c \in Conn \ Accepted : Accepts(c)
  BY DEF Effect, Calm, ListenMoves, ConnectionStep, Establishes, Destroys, Unmaps, Closes,
         Ends, Shuts, Rest
<1> QED BY <1>1, <1>2, <1>3, <1>4

LEMMA StagedStep ==
  ASSUME IInv, Effect
  PROVE  Staged'
<1>0. TypeOK /\ Staged
  BY DEF IInv
<1>1. ASSUME NEW c \in Accepted' PROVE InStage(c)'
  <2>1. CASE c \in Accepted
    BY <1>0, <2>1, OthersUntouched, UntouchedStage, OwnStage DEF Staged
  <2>2. CASE c \notin Accepted
    BY <1>0, <1>1, <2>2, AcceptedGrows, NewStage
  <2> QED BY <2>1, <2>2
<1> QED BY <1>1 DEF Staged

LEMMA FreshStep ==
  ASSUME IInv, Effect, [Next]_vars
  PROVE  FreshUntouched'
<1>0. ConnectionFacts /\ TypeOK /\ FreshUntouched
  BY FactsHold DEF IInv
<1>1. ASSUME NEW d \in Conn \ Accepted'
      PROVE  ups'[d] = 0 /\ downs'[d] = 0 /\ index_'[d] = "kNew"
  <2>0. d \in Conn \ Accepted
    BY <1>0, AcceptedGrows
  <2>1. ups[d] = 0 /\ downs[d] = 0 /\ index_[d] = "kNew"
    BY <1>0, <2>0 DEF FreshUntouched
  <2>2. CASE UNCHANGED connVars
    BY <2>1, <2>2
  <2>3. ASSUME NEW c \in Conn, c # d, Established(c) \/ Destroyed(c) \/ Closes(c) \/ Shuts(c)
        PROVE  ups'[d] = ups[d] /\ downs'[d] = downs[d] /\ index_'[d] = index_[d]
    BY <1>0, <2>3 DEF Established, Destroyed, Closes, Shuts, ConnectionFacts
  <2>4. ASSUME NEW c \in Conn \ Accepted, Accepts(c)
        PROVE  ups'[d] = ups[d] /\ downs'[d] = downs[d] /\ index_'[d] = index_[d]
    <3>1. c \in Accepted'
      BY <1>0, <2>4 DEF Accepts, Accepted, Conn
    <3> QED BY <2>3, <2>4, <3>1 DEF Accepts
  <2>5. ASSUME NEW c \in Accepted, ConnectionStep(c)
        PROVE  \/ UNCHANGED connVars
               \/ ups'[d] = ups[d] /\ downs'[d] = downs[d] /\ index_'[d] = index_[d]
    <3>1. c \in Conn /\ c # d
      BY <1>0, <2>0 DEF ConnectionFacts
    <3> QED BY <2>3, <2>5, <3>1 DEF ConnectionStep, Establishes, Destroys, Unmaps, Ends
  <2> QED BY <2>1, <2>2, <2>4, <2>5 DEF Effect, Calm, ListenMoves
<1>2. peerEnded' \subseteq Accepted'
  <2>1. peerEnded' = peerEnded \/ PeerEnds
    BY DEF Next, StartStep, LoopStep, DestructorStep, vars, Start, StartThread, PoolStarted,
           StartListening, EnterLoop, Poll, SwapFunctors, RunFunctor, EndTurn, HandleAccept,
           HandleClose, Shutdown, Quit, DestroyServer, DestroyConnection, DestroyPool, StopThread,
           DestroyAcceptor, PeerConnects, PeerGivesUp
  <2>2. PeerEnds => peerEnded' \subseteq Accepted
    BY <1>0 DEF PeerEnds, FreshUntouched
  <2> QED BY <1>0, <2>1, <2>2, AcceptedGrows DEF FreshUntouched
<1> QED BY <1>1, <1>2 DEF FreshUntouched
\* Calls are queued where they belong.
LEMMA PlacedStep ==
  ASSUME IInv, Effect
  PROVE  CallsPlaced'
<1>0. ConnectionFacts /\ TypeOK /\ CallsPlaced /\ PoolNumbered
  BY FactsHold DEF IInv
<1>1. ASSUME NEW call, NEW l \in Loop, Placed(call, l) PROVE Placed(call, l)'
  BY <1>0, <1>1, AcceptedGrows DEF Placed
<1>2. ASSUME NEW l \in Loop, NEW call \in Waits'[l], call \notin Waits[l]
      PROVE  Placed(call, l)'
  <2> USE <1>0 DEF ConnectionFacts
  <2>1. CASE Calm
    BY <1>2, <2>1 DEF Calm
  <2>2. CASE ListenMoves
    <3>1. call = Call("listen", AcceptChannel) /\ l = BaseLoop
      BY <1>2, <2>2 DEF ListenMoves, Joins, Leaves
    <3> QED BY <3>1 DEF Placed
  <2>3. ASSUME NEW c \in Conn \ Accepted, Accepts(c) PROVE Placed(call, l)'
    <3>1. NextLoop \in Loop
      BY NextLoopInPool
    <3>2. call = Call("connectEstablished", c) /\ l = NextLoop /\ l # BaseLoop
      BY <1>2, <2>3, <3>1 DEF Accepts, Joins
    <3>3. c \in Accepted' /\ ioLoop'[c] = NextLoop
      BY <2>3, <3>1 DEF Accepts, Accepted, Conn
    <3> QED BY <3>2, <3>3 DEF Placed, Call
  <2>4. ASSUME NEW c \in Accepted, ConnectionStep(c) PROVE Placed(call, l)'
    <3>1. c \in Accepted' /\ ioLoop'[c] = ioLoop[c] /\ ioLoop[c] \in Loop
      BY AcceptedGrows
    <3>2. ~Establishes(c) /\ ~Destroys(c) /\ ~Shuts(c)
      BY <1>2, <3>1 DEF Establishes, Destroys, Leaves, Shuts
    <3>3. \/ call = Call("connectDestroyed", c) /\ l = ioLoop[c]
          \/ /\ call = Call("removeConnectionInLoop", c) /\ l = BaseLoop
             /\ ioLoop[c] # BaseLoop
      <4>1. CASE Unmaps(c)
        BY <1>2, <3>1, <4>1 DEF Unmaps
      <4>2. CASE Closes(c)
        BY <1>2, <3>1, <4>2 DEF Closes, Joins
      <4>3. CASE Ends(c)
        BY <1>2, <3>1, <4>3 DEF Ends, Joins
      <4> QED BY <2>4, <3>2, <4>1, <4>2, <4>3 DEF ConnectionStep
    <3> QED BY <3>1, <3>3 DEF Placed, Call
  <2> QED BY <2>1, <2>2, <2>3, <2>4 DEF Effect
<1>3. ASSUME NEW l \in Loop, NEW call \in Waits'[l] PROVE Placed(call, l)'
  BY <1>0, <1>1, <1>2 DEF CallsPlaced
<1> QED BY <1>3 DEF CallsPlaced, Placed

\* listen comes into a line only when start() returns.
LEMMA ListenJoins ==
  ASSUME IInv, Effect, Has("listen", AcceptChannel, BaseLoop)'
  PROVE  \/ Has("listen", AcceptChannel, BaseLoop)
         \/ startPc = "listen" /\ startPc' = "idle"
<1>0. ConnectionFacts
  BY FactsHold DEF IInv
<1> DEFINE listen == Call("listen", AcceptChannel)
<1>1. listen \in Waits'[BaseLoop] /\ listen.conn = AcceptChannel /\ listen.op = "listen"
  BY DEF Has, Call
<1>2. SUFFICES ASSUME listen \notin Waits[BaseLoop], ~ListenMoves PROVE FALSE
  BY <1>0 DEF ListenMoves, Leaves, Has, ConnectionFacts
<1> USE <1>0 DEF ConnectionFacts
<1>3. \A op, c : c \in Conn => Call(op, c) # listen
  BY DEF Call
<1> HIDE DEF listen
<1>4. CASE Calm
  BY <1>1, <1>2, <1>4 DEF Calm
<1>5. ASSUME NEW c \in Conn \ Accepted, Accepts(c) PROVE FALSE
  <2>1. Waits' = Waits \/ Waits' = [Waits EXCEPT ![NextLoop] = @ \cup {Call("connectEstablished", c)}]
    BY <1>5 DEF Accepts, Joins
  <2> QED BY <1>1, <1>2, <1>3, <2>1
<1>6. ASSUME NEW c \in Accepted, ConnectionStep(c) PROVE FALSE
  <2>0. c \in Conn
    OBVIOUS
  <2> DEFINE CD == Call("connectDestroyed", c)
             RC == Call("removeConnectionInLoop", c)
  <2>1. CD # listen /\ RC # listen
    BY <1>3, <2>0
  <2> HIDE DEF CD, RC
  <2>2. CASE Establishes(c)
    BY <1>1, <1>2, <2>2 DEF Establishes, Leaves
  <2>3. CASE Destroys(c)
    BY <1>1, <1>2, <2>3 DEF Destroys, Leaves
  <2>4. CASE Unmaps(c)
    BY <1>1, <1>2, <2>1, <2>4 DEF Unmaps, CD, RC
  <2>5. CASE Closes(c)
    BY <1>1, <1>2, <2>1, <2>5 DEF Closes, Joins, CD, RC
  <2>6. CASE Ends(c)
    BY <1>1, <1>2, <2>1, <2>6 DEF Ends, Joins, CD
  <2>7. CASE Shuts(c)
    BY <1>1, <1>2, <2>7 DEF Shuts
  <2> QED BY <1>6, <2>2, <2>3, <2>4, <2>5, <2>6, <2>7 DEF ConnectionStep
<1> QED BY <1>2, <1>4, <1>5, <1>6 DEF Effect

LEMMA StartedFirstStep ==
  ASSUME IInv, Effect, [Next]_vars
  PROVE  StartedFirst'
<1>0. /\ StartedFirst /\ started_ \in BOOLEAN /\ nextConnId_ \in Nat
      /\ loops_ \in Seq(Loop \ {BaseLoop})
      /\ active \in [Loop -> SUBSET (Conn \cup {AcceptChannel})]
      /\ BaseLoop \in Loop
  BY FactsHold DEF IInv, TypeOK, ConnectionFacts
<1> DEFINE Hears == Has("listen", AcceptChannel, BaseLoop)
           Accepting == AcceptChannel \in active[BaseLoop]
<1>1. Hears' => Hears \/ (startPc = "listen" /\ startPc' = "idle")
  BY ListenJoins
<1>2. Hears \/ reading \/ nextConnId_ > 1 \/ Accepting => started_ /\ startPc = "idle"
  BY <1>0 DEF StartedFirst
<1> HIDE DEF Hears
<1> DEFINE Frame == /\ UNCHANGED <<numThreads_, started_, startPc, loops_>>
                    /\ reading' => reading \/ Hears
                    /\ nextConnId_' = nextConnId_ \/ Accepting
                    /\ Accepting' => Accepting \/ reading
<1>f. Frame => StartedFirst'
  BY <1>0, <1>1, <1>2 DEF StartedFirst, Hears
<1>3. ASSUME NEW s \in {"base", "other"}, Start(s) PROVE StartedFirst'
  BY <1>0, <1>1, <1>2, <1>3 DEF Start, StartedFirst, Hears
<1>4. CASE StartThread
  <2>1. loops_' # <<>> /\ startPc' = "pool" /\ started_'
    BY <1>0, <1>4 DEF StartThread, StartedFirst
  <2> QED BY <1>0, <1>1, <1>2, <1>4, <2>1 DEF StartThread, StartedFirst, Hears
<1>5. CASE PoolStarted
  BY <1>0, <1>1, <1>2, <1>5 DEF PoolStarted, StartedFirst, Hears
<1>6. CASE StartListening
  BY <1>0, <1>6 DEF StartListening, StartedFirst
<1>e. ASSUME NEW l \in Loop, EnterLoop(l) PROVE StartedFirst'
  BY <1>e, <1>f DEF EnterLoop
<1>7. CASE EnterLoop(BaseLoop) BY <1>0, <1>7, <1>e
<1>8. ASSUME NEW l \in Loop, LoopStep(l) PROVE StartedFirst'
  <2>0. CASE EnterLoop(l) BY <1>e, <2>0
  <2>1. CASE Poll(l)
    <3>1. AcceptChannel \in Ready(l) => reading
      BY AcceptedCount, FactsHold DEF Ready, IInv, FreshUntouched, ConnectionFacts
    <3>2. Accepting' => Accepting \/ reading
      BY <1>0, <2>1, <3>1 DEF Poll
    <3> QED BY <1>f, <2>1, <3>2 DEF Poll
  <2>2. CASE SwapFunctors(l) BY <1>f, <2>2 DEF SwapFunctors
  <2>3. CASE EndTurn(l) BY <1>f, <2>3 DEF EndTurn
  <2>4. CASE RunFunctor(l)
    <3>1. ASSUME Take(l, "listen") PROVE Hears
      <4>1. Head(functors[l]) \in Waits[l] /\ Placed(Head(functors[l]), l)
        BY <3>1, HeadPlaced DEF IInv, Take
      <4> QED BY <3>1, <4>1 DEF Take, Placed, Hears, Has
    <3>2. reading' => reading \/ Hears
      BY <2>4, <3>1 DEF RunFunctor
    <3> QED BY <1>f, <2>4, <3>2 DEF RunFunctor
  <2>5. CASE HandleAccept
    <3>1. Accepting' => Accepting
      BY <1>0, <2>5 DEF HandleAccept
    <3> QED BY <1>f, <2>5, <3>1 DEF HandleAccept
  <2>6. ASSUME NEW c \in Conn, HandleClose(l, c) PROVE StartedFirst'
    <3>1. Accepting' => Accepting
      BY <1>0, <2>6 DEF HandleClose
    <3> QED BY <1>f, <2>6, <3>1 DEF HandleClose
  <2> QED BY <1>8, <2>0, <2>1, <2>2, <2>3, <2>4, <2>5, <2>6 DEF LoopStep
<1>s. ASSUME NEW c \in Conn, Shutdown(c) PROVE StartedFirst'
  BY <1>f, <1>s DEF Shutdown
<1>9. CASE Quit BY <1>9, <1>f DEF Quit
<1>10. CASE DestroyServer BY <1>10, <1>f DEF DestroyServer
<1>11. CASE DestructorStep
  BY <1>11, <1>f DEF DestructorStep, DestroyConnection, DestroyPool, StopThread,
                     DestroyAcceptor
<1>12. CASE PeerConnects \/ PeerGivesUp \/ PeerEnds
  BY <1>12, <1>f DEF PeerConnects, PeerGivesUp, PeerEnds, Outside
<1>13. CASE UNCHANGED vars BY <1>13, <1>f DEF vars
<1> QED
  BY <1>s, <1>3, <1>4, <1>5, <1>6, <1>7, <1>8, <1>9, <1>10, <1>11, <1>12, <1>13
     DEF Next, StartStep
-----------------------------------------------------------------------------
(* Shares *)

LEMMA ShareIsCount ==
  ASSUME TypeOK, NEW l
  PROVE  Share(l) \in Nat /\ (Accepted = {} => Share(l) = 0)
<1> DEFINE S == {c \in Accepted : ioLoop[c] = l}
<1>1. IsFiniteSet(Accepted) /\ S \in SUBSET Accepted
  BY AcceptedCount
<1>2. IsFiniteSet(S)
  BY <1>1, FS_Subset
<1>3. Cardinality(S) \in Nat
  BY <1>2, FS_CardinalityType
<1>4. Accepted = {} => S = {}
  OBVIOUS
<1> QED BY <1>3, <1>4, FS_EmptySet DEF Share

\* An accepted connection adds one to the share of its loop.
LEMMA ShareGrows ==
  ASSUME IInv, ~AcceptFails, NewConnection, NEW l
  PROVE  Share(l)' = IF l = NextLoop THEN Share(l) + 1 ELSE Share(l)
<1> DEFINE c == nextConnId_
           S == {d \in Accepted : ioLoop[d] = l}
           T == {d \in Accepted' : ioLoop'[d] = l}
<1>0. TypeOK /\ RoomLeft /\ ioLoop \in [Conn -> Loop]
  BY DEF IInv, TypeOK
<1>1. c \in Conn /\ c \notin Accepted /\ c \in Nat \ {0}
  BY <1>0, NextIsFresh
<1>2. nextConnId_' = c + 1 /\ ioLoop' = [ioLoop EXCEPT ![c] = NextLoop]
  BY DEF NewConnection
<1>3. Accepted' = Accepted \cup {c}
  BY <1>1, <1>2 DEF Accepted
<1>4. Accepted \subseteq Conn /\ IsFiniteSet(Accepted)
  BY <1>0, AcceptedCount
<1>5. ioLoop'[c] = NextLoop /\ \A d \in Accepted : ioLoop'[d] = ioLoop[d]
  BY <1>0, <1>1, <1>2, <1>4
<1>6. IsFiniteSet(S)
  <2>1. S \in SUBSET Accepted
    OBVIOUS
  <2> QED BY <1>4, <2>1, FS_Subset
<1>7. Share(l) = Cardinality(S) /\ Share(l)' = Cardinality(T)
  BY DEF Share
<1>8. c \notin S
  BY <1>1
<1>9. T = IF l = NextLoop THEN S \cup {c} ELSE S
  BY <1>1, <1>3, <1>5
<1> HIDE DEF S, T, c
<1>10. Cardinality(S \cup {c}) = Cardinality(S) + 1
  BY <1>6, <1>8, FS_AddElement
<1> QED BY <1>7, <1>9, <1>10

\* The share changes when a connection is accepted, and the pool grows only before.
LEMMA DealtStep ==
  ASSUME IInv, [Next]_vars
  PROVE  Dealt'
<1>0. /\ TypeOK /\ Dealt /\ PoolNumbered /\ StartedFirst
      /\ loops_ \in Seq(Loop \ {BaseLoop}) /\ Len(loops_) \in Nat
      /\ next_ \in Nat /\ (next_ = 0 \/ next_ < Len(loops_))
      /\ nextConnId_ \in Nat
  BY DEF IInv, TypeOK
<1>f. UNCHANGED <<nextConnId_, next_, loops_, ioLoop>> => Dealt'
  <2> HAVE UNCHANGED <<nextConnId_, next_, loops_, ioLoop>>
  <2>1. \A l : Share(l)' = Share(l)
    BY DEF Share, Accepted
  <2> QED BY <1>0, <2>1 DEF Dealt
<1>1. CASE StartThread
  <2>1. /\ loops_' = Append(loops_, Len(loops_) + 1)
        /\ UNCHANGED <<nextConnId_, next_, ioLoop>> /\ startPc = "pool"
    BY <1>1 DEF StartThread
  <2>2. Accepted = {} /\ next_ = 0
    BY <1>0, <2>1 DEF StartedFirst, Dealt, Accepted, TypeOK
  <2>3. \A l : Share(l)' = 0
    <3>1. \A l : Share(l) = 0
      BY <1>0, <2>2, ShareIsCount
    <3>2. \A l : Share(l)' = Share(l)
      BY <2>1 DEF Share, Accepted
    <3> QED BY <3>1, <3>2
  <2>4. \A l \in 1..Len(loops_') : Share(l)' = IF l <= next_' THEN 0 + 1 ELSE 0
    <3>1. Len(loops_') \in Nat
      BY <1>0, <2>1
    <3> QED BY <2>1, <2>2, <2>3, <3>1
  <2> QED BY <2>1, <2>2, <2>3, <2>4 DEF Dealt
<1>2. CASE HandleAccept
  <2>1. CASE AcceptFails
    BY <1>2, <1>f, <2>1 DEF HandleAccept
  <2>2. CASE ~AcceptFails
    <3>1. NewConnection /\ loops_' = loops_
      BY <1>2, <2>2 DEF HandleAccept
    <3>2. nextConnId_' # 1 /\ AdvanceNext
      BY <1>0, <2>2, <3>1, NextIsFresh DEF NewConnection, IInv
    <3>3. \A l : Share(l)' = IF l = NextLoop THEN Share(l) + 1 ELSE Share(l)
      BY <2>2, <3>1, ShareGrows
    <3>4. CASE loops_ = <<>>
      <4>1. \A l \in 1..Len(loops_') : Share(l)' = IF l <= next_' THEN 0 + 1 ELSE 0
        BY <3>1, <3>4
      <4> QED BY <3>1, <3>2, <3>4, <4>1 DEF Dealt
    <3>5. CASE loops_ # <<>>
      <4>1. NextLoop = next_ + 1 /\ next_ + 1 <= Len(loops_)
        <5>1. Len(loops_) > 0
          BY <1>0, <3>5
        <5> QED BY <1>0, <3>5, <5>1, NextLoopInPool
      <4>2. PICK r \in Nat : \A l \in 1..Len(loops_) :
                               Share(l) = IF l <= next_ THEN r + 1 ELSE r
        BY <1>0 DEF Dealt
      <4>3. \A l \in 1..Len(loops_) :
              Share(l)' = IF l <= next_ + 1 THEN r + 1 ELSE r
        BY <1>0, <3>3, <4>1, <4>2
      <4>4. Share(BaseLoop)' = 0
        BY <1>0, <3>3, <3>5, <4>1 DEF Dealt, BaseLoop
      <4>5. \E s \in Nat : \A l \in 1..Len(loops_) :
              Share(l)' = IF l <= next_' THEN s + 1 ELSE s
        <5>1. CASE next_ + 1 >= Len(loops_)
          <6>1. next_' = 0
            BY <3>2, <5>1 DEF AdvanceNext
          <6>2. \A l \in 1..Len(loops_) :
                  Share(l)' = IF l <= next_' THEN (r + 1) + 1 ELSE r + 1
            BY <1>0, <4>3, <5>1, <6>1
          <6>3. r + 1 \in Nat
            OBVIOUS
          <6> QED BY <6>2, <6>3
        <5>2. CASE ~(next_ + 1 >= Len(loops_))
          <6>1. next_' = next_ + 1
            BY <3>2, <5>2 DEF AdvanceNext
          <6>2. \A l \in 1..Len(loops_) : Share(l)' = IF l <= next_' THEN r + 1 ELSE r
            BY <4>3, <6>1
          <6> QED BY <6>2
        <5> QED BY <5>1, <5>2
      <4> QED BY <3>1, <3>2, <4>4, <4>5 DEF Dealt
    <3> QED BY <3>4, <3>5
  <2> QED BY <2>1, <2>2
<1>3. \/ UNCHANGED <<nextConnId_, next_, loops_, ioLoop>>
      \/ StartThread \/ HandleAccept
  BY DEF Next, StartStep, LoopStep, DestructorStep, vars, Start, PoolStarted,
         StartListening, EnterLoop, Poll, SwapFunctors, RunFunctor, EndTurn,
         HandleClose, Shutdown, Quit, DestroyServer, DestroyConnection, DestroyPool, StopThread,
         DestroyAcceptor, PeerConnects, PeerGivesUp, PeerEnds, Outside
<1> QED BY <1>f, <1>1, <1>2, <1>3

-----------------------------------------------------------------------------
(* The invariant holds *)

LEMMA Initially == Init => IInv
<1> SUFFICES ASSUME Init PROVE IInv
  OBVIOUS
<1> USE DEF Init, PoolInit, AcceptorInit, ServerInit, LoopsInit, ConnectionsInit
<1>1. BaseLoop \in Loop /\ 0 \in Nat
  BY DEF BaseLoop, Loop
<1>2. Accepted = {} /\ nextConnId_ = 1
  BY DEF Accepted
<1>3. TypeOK
  <2>1. /\ numThreads_ \in 0..MaxThreads 
        /\ loops_ \in Seq(Loop \ {BaseLoop}) /\ Len(loops_) = 0
        /\ nextConnId_ \in 1..(MaxConns + 1) /\ backlog \in 0..MaxConns
    OBVIOUS
  <2>b. started_ \in BOOLEAN
    OBVIOUS
  <2>2. /\ pending \in [Loop -> Seq(Calls)] /\ functors \in [Loop -> Seq(Calls)]
        /\ ioLoop \in [Conn -> Loop]
    BY <1>1
  <2>3. /\ pc \in [Loop -> {"none", "out", "poll", "handle", "functors", "ended"}]
        /\ quit_ \in [Loop -> BOOLEAN]
        /\ active \in [Loop -> SUBSET (Conn \cup {AcceptChannel})]
    OBVIOUS
  <2>4. ConnectionTypes
    BY DEF ConnectionTypes, ConnectionStates
  <2>5. connections_ \subseteq 1..(nextConnId_ - 1) /\ peerEnded \subseteq Conn
    OBVIOUS
  <2>6. /\ startPc \in {"idle", "pool", "listen"} /\ starter \in {"base", "other"}
        /\ server \in {"up", "connections", "pool", "gone"}
    OBVIOUS
  <2>7. listenning_ \in BOOLEAN /\ reading \in BOOLEAN
    OBVIOUS
  <2>8. next_ \in Nat /\ next_ = 0 /\ told \subseteq Loop \ {BaseLoop}
    OBVIOUS
  <2>9. numThreads_ \in Nat /\ 0 <= numThreads_
    BY <2>1
  <2> HIDE DEF Init, PoolInit, AcceptorInit, ServerInit, LoopsInit, ConnectionsInit
  <2> QED BY <2>b, <2>1, <2>2, <2>3, <2>4, <2>5, <2>6, <2>7, <2>8, <2>9
         DEF TypeOK, ConnectionTypes, ConnectionStates
<1>4. RoomLeft
  BY DEF RoomLeft
<1>5. PoolNumbered
  BY <1>2 DEF PoolNumbered, Loop, BaseLoop
<1>6. \A l \in Loop : Lines[l] = <<>> /\ Waits[l] = {}
  <2>1. \A l \in Loop : Lines[l] = <<>>
    BY DEF Lines
  <2>2. Range(<<>>) = {}
    BY DEF Range
  <2> QED BY <2>1, <2>2 DEF Waits
<1>7. StartedFirst
  BY <1>1, <1>6 DEF StartedFirst, Has
<1>8. EndsInOrder
  BY DEF EndsInOrder
<1>9. InPhase
  BY DEF InPhase
<1>10. LinesInOrder /\ CallsPlaced
  BY <1>6 DEF LinesInOrder, CallsPlaced, InOrder
<1>11. FreshUntouched /\ Staged
  BY <1>2 DEF FreshUntouched, Staged
<1>12. Dealt
  <2>1. \A l \in 1..Len(loops_) : Share(l) = IF l <= next_ THEN 0 + 1 ELSE 0
    OBVIOUS
  <2> QED BY <1>1, <2>1 DEF Dealt
<1> QED BY <1>3, <1>4, <1>5, <1>7, <1>8, <1>9, <1>10, <1>11, <1>12 DEF IInv

LEMMA InvariantStep == IInv /\ [Next]_vars => IInv'
<1> SUFFICES ASSUME IInv, [Next]_vars PROVE IInv'
  OBVIOUS
<1>1. TypeOK' /\ RoomLeft'
  BY TypingStep DEF IInv
<1>2. LinesInOrder' /\ Effect
  BY EffectStep
<1>3. PoolNumbered' /\ StartedFirst' /\ EndsInOrder' /\ InPhase'
  BY <1>1, <1>2, PoolNumberedStep, StartedFirstStep, EndsInOrderStep, InPhaseStep
<1>4. CallsPlaced' /\ FreshUntouched' /\ Staged' /\ Dealt'
  BY <1>2, PlacedStep, FreshStep, StagedStep, DealtStep
<1> QED BY <1>1, <1>2, <1>3, <1>4 DEF IInv

LEMMA Invariant == Spec => []IInv
BY Initially, InvariantStep, PTL DEF Spec

\* The types: what the code keeps in its members and queues is what they are declared for.
THEOREM Typing == Spec => []TypeOK
<1>1. IInv => TypeOK
  BY DEF IInv
<1> QED BY <1>1, Invariant, PTL

\* getNextLoop deals evenly, for any number of threads and of connections: next_ counts
\* the loops that are one ahead, and start() has filled the pool before it listens.
THEOREM DealtEvenly == Spec => []Balanced
<1>1. IInv => Balanced
  <2> SUFFICES ASSUME IInv PROVE Balanced
    OBVIOUS
  <2>0. /\ TypeOK /\ Dealt /\ StartedFirst /\ numThreads_ \in Nat
        /\ nextConnId_ \in Nat \ {0} /\ started_ \in BOOLEAN /\ loops_ \in Seq(Loop \ {BaseLoop})
    BY DEF IInv, TypeOK
  <2>1. CASE Accepted = {}
    BY <2>0, <2>1, ShareIsCount DEF Balanced
  <2>2. CASE Accepted # {}
    <3>1. nextConnId_ > 1
      BY <2>0, <2>2 DEF Accepted
    <3>2. Len(loops_) = numThreads_
      BY <2>0, <3>1 DEF StartedFirst
    <3>3. PICK r \in Nat : \A l \in 1..Len(loops_) : Share(l) = IF l <= next_ THEN r + 1 ELSE r
      BY <2>0 DEF Dealt
    <3>4. \A k, l \in 1..numThreads_ : Share(k) <= Share(l) + 1
      BY <2>0, <3>2, <3>3, ShareIsCount
    <3>5. numThreads_ > 0 => Share(BaseLoop) = 0
      BY <2>0, <3>2 DEF Dealt
    <3> QED BY <3>4, <3>5 DEF Balanced
  <2> QED BY <2>1, <2>2
<1> QED BY <1>1, Invariant, PTL
-----------------------------------------------------------------------------
(* Who holds a connection *)

\* The map, the hop to the base loop, or a call on its own loop, which dies with it.
HeldBy(c) ==
    \/ c \in connections_
    \/ Has("removeConnectionInLoop", c, BaseLoop)
    \/ /\ \/ Has("connectEstablished", c, ioLoop[c])
          \/ Has("connectDestroyed", c, ioLoop[c])
       /\ ioLoop[c] = BaseLoop \/ pc[ioLoop[c]] # "ended"

LEMMA HeldIff == IInv => \A c \in Accepted : Held(c) <=> HeldBy(c)
<1> SUFFICES ASSUME IInv, NEW c \in Accepted PROVE Held(c) <=> HeldBy(c)
  OBVIOUS
<1>0. ConnectionFacts /\ CallsPlaced /\ TypeOK
  BY FactsHold DEF IInv
<1>1. \A l \in Loop : CallsOf(l) = IF l # BaseLoop /\ pc[l] = "ended" THEN {} ELSE Waits[l]
  <2> TAKE l \in Loop
  <2>1. functors[l] \in Seq(Calls) /\ pending[l] \in Seq(Calls)
    BY <1>0 DEF TypeOK
  <2>2. Waits[l] = Range(functors[l]) \cup Range(pending[l])
    BY <2>1, WaitsSplit
  <2> QED BY <2>2 DEF CallsOf
<1>2. c \in Conn /\ c # AcceptChannel /\ ioLoop[c] \in Loop /\ BaseLoop \in Loop
  BY <1>0 DEF ConnectionFacts
<1>3. ASSUME Held(c) PROVE HeldBy(c)
  <2>1. CASE c \in connections_
    BY <2>1 DEF HeldBy
  <2>2. ASSUME NEW l \in Loop, NEW call \in CallsOf(l), call.conn = c
        PROVE  HeldBy(c)
    <3>1. call \in Waits[l] /\ (l = BaseLoop \/ pc[l] # "ended")
      BY <1>1, <2>2
    <3>2. Placed(call, l) /\ call \in Calls
      BY <1>0, <3>1 DEF CallsPlaced, ConnectionFacts
    <3>3. call = Call(call.op, c)
      BY <2>2, <3>2 DEF Calls, Call
    <3>4. call # Call("listen", AcceptChannel)
      BY <1>2, <2>2 DEF Call
    <3> QED BY <2>2, <3>1, <3>2, <3>3, <3>4 DEF Placed, HeldBy, Has
  <2> QED BY <1>3, <2>1, <2>2 DEF Held
<1>4. ASSUME HeldBy(c) PROVE Held(c)
  <2>1. CASE c \in connections_
    BY <2>1 DEF Held
  <2>2. ASSUME NEW op, NEW l \in Loop, Has(op, c, l), l = BaseLoop \/ pc[l] # "ended"
        PROVE  Held(c)
    <3>1. Call(op, c) \in CallsOf(l) /\ Call(op, c).conn = c
      BY <1>1, <2>2 DEF Has, Call
    <3> QED BY <3>1 DEF Held
  <2> QED BY <1>2, <1>4, <2>1, <2>2 DEF HeldBy
<1> QED BY <1>3, <1>4

LEMMA HeldIffNext == IInv' => (\A c \in Accepted : Held(c) <=> HeldBy(c))'
BY HeldIff, PTL

\* What epoll has a pointer to is held while its loop runs, at every hop.
THEOREM PointersGood == Spec => []RegisteredIsHeld
<1>1. IInv => RegisteredIsHeld
  <2> SUFFICES ASSUME IInv, NEW c \in Accepted, index_[c] # "kNew", pc[ioLoop[c]] # "ended"
               PROVE  Held(c)
    BY DEF RegisteredIsHeld
  <2>1. Up(c) \/ Down(c)
    BY DEF IInv, Staged, InStage, Waiting, Removed
  <2>2. Kept(c)
    BY <2>1 DEF Up, Down, KeptUp
  <2>3. HeldBy(c)
    BY <2>2 DEF Kept, HeldBy
  <2> QED BY <2>3, HeldIff
<1> QED BY <1>1, Invariant, PTL

\* Every end has been reported when the destructor returns, but those that the quit of
\* their loop has overtaken (the queue of the loop still has the call) and those of
\* connections in kDisconnecting, about which connectDestroyed says nothing.
THEOREM EndsReported == Spec => []EndReported
<1>1. IInv => EndReported
  <2> SUFFICES ASSUME IInv, server = "gone", NEW c \in Accepted, ups[c] # downs[c],
                      state_[c] # "kDisconnecting"
               PROVE  Call("connectDestroyed", c) \in Range(pending[ioLoop[c]])
    BY DEF EndReported
  <2>0. ConnectionFacts /\ TypeOK /\ c \in Conn
    BY FactsHold DEF IInv, ConnectionFacts
  <2> DEFINE k == ioLoop[c]
  <2>1. k \in Loop /\ connections_ = {}
    BY <2>0 DEF ConnectionFacts, IInv, EndsInOrder
  <2>2. pc[k] = "ended"
    <3>1. k \in 0..Len(loops_)
      BY DEF IInv, PoolNumbered
    <3>2. k = BaseLoop \/ k \in 1..Len(loops_)
      BY <2>0, <3>1 DEF BaseLoop, TypeOK
    <3> QED BY <3>2 DEF IInv, EndsInOrder
  <2>3. functors[k] = <<>> /\ pending[k] \in Seq(Calls) /\ functors[k] \in Seq(Calls)
    BY <2>0, <2>1, <2>2 DEF IInv, InPhase, TypeOK
  <2>4. Waits[k] = Range(functors[k]) \cup Range(pending[k])
    BY <2>1, <2>3, WaitsSplit
  <2>5. Range(<<>>) = {}
    BY DEF Range
  <2>6. Waiting(c) \/ Up(c)
    BY DEF IInv, Staged, InStage, Down, Removed, Reported
  <2>7. Has("connectDestroyed", c, k)
    BY <2>1, <2>6 DEF Waiting, Up, KeptUp, Kept
  <2> QED BY <2>3, <2>4, <2>5, <2>7 DEF Has
<1> QED BY <1>1, Invariant, PTL

\* A loop of the pool has ended only when the base loop has, the map is empty and start()
\* has returned: nobody is left that queues a call in it.
LEMMA NoCallStep ==
  ASSUME IInv, [Next]_vars, NEW l \in Loop \ {BaseLoop}, pc[l] = "ended"
  PROVE  pending'[l] = pending[l]
<1>0. /\ TypeOK /\ pending \in [Loop -> Seq(Calls)]
      /\ BaseLoop \in Loop
  BY FactsHold DEF IInv, TypeOK, ConnectionFacts
<1>1. /\ pc[BaseLoop] = "ended" /\ startPc = "idle" /\ connections_ = {}
  <2>1. server \notin {"up", "connections"}
    BY DEF IInv, EndsInOrder
  <2>2. server \in {"pool", "gone"}
    BY <1>0, <2>1 DEF TypeOK
  <2> QED BY <2>2 DEF IInv, EndsInOrder
<1>2. CASE pending' = pending
  BY <1>2
<1>3. ASSUME NEW call, Queue(BaseLoop, call) PROVE pending'[l] = pending[l]
  BY <1>0, <1>3 DEF Queue
<1>4. ASSUME NEW k \in Loop, LoopStep(k) PROVE pending'[l] = pending[l]
  <2>1. CASE SwapFunctors(k)
    BY <1>0, <2>1 DEF SwapFunctors
  <2>2. CASE RunFunctor(k)
    <3>1. ~Take(k, "removeConnectionInLoop")
      <4> SUFFICES ASSUME Take(k, "removeConnectionInLoop") PROVE FALSE
        OBVIOUS
      <4>1. Placed(Head(functors[k]), k)
        BY HeadPlaced DEF IInv, Take
      <4>2. k = BaseLoop
        BY <4>1 DEF Placed, Take, Call
      <4> QED BY <1>1, <2>2, <4>2 DEF RunFunctor
    <3> QED BY <1>2, <2>2, <3>1 DEF RunFunctor
  <2>3. ASSUME NEW c \in Conn, HandleClose(k, c) PROVE pending'[l] = pending[l]
    <3>1. k # BaseLoop
      BY <1>1, <2>3 DEF HandleClose
    <3> QED BY <1>3, <2>3, <3>1 DEF HandleClose, TellServer
  <2> QED BY <1>1, <1>2, <1>4, <2>1, <2>2, <2>3
             DEF LoopStep, EnterLoop, Poll, EndTurn, HandleAccept
<1> QED BY <1>1, <1>2, <1>4
           DEF Next, StartStep, DestructorStep, vars, Start, StartThread, PoolStarted,
               StartListening, EnterLoop, Shutdown, Quit, DestroyServer, DestroyConnection, DestroyPool,
               StopThread, DestroyAcceptor, PeerConnects, PeerGivesUp, PeerEnds, Outside

\* Nobody gives a call to a loop that lay on the stack of a thread that has ended.
THEOREM NoCallToEndedLoop == Spec => NoCallAfterEnd
<1>1. IInv /\ [Next]_vars
        => [\A l \in Loop \ {BaseLoop} : pc[l] = "ended" => pending'[l] = pending[l]]_vars
  BY NoCallStep
<1> QED BY <1>1, Invariant, PTL DEF Spec, NoCallAfterEnd

-----------------------------------------------------------------------------
(* What the user sees of a connection *)

\* When the holders may part with a connection without a word: it has gone down, or the
\* destructor ends one that the user had shut down.
MayGo(c) == downs[c] = 1 \/ (state_[c] = "kDisconnecting" /\ server # "up")

\* A step of a connection is about one that is held, and lets go of it only then or with
\* the word that it is down.
LEMMA OwnLife ==
  ASSUME IInv, IInv', NEW c \in Accepted, ConnectionStep(c)
  PROVE  /\ Held(c)
         /\ \/ Life!Reports(c) /\ (~Held(c)' => downs'[c] = 1)
            \/ Life!Silent(c) /\ (~Held(c)' => MayGo(c))
<1>0. ConnectionFacts /\ c \in Conn /\ InStage(c) /\ EndsInOrder /\ PoolNumbered
  BY FactsHold DEF ConnectionFacts, IInv, Staged
<1>1. Rest
  BY DEF ConnectionStep, Establishes, Destroys, Unmaps, Closes, Ends, Shuts
<1>2. c \in Accepted' /\ InStage(c)'
  BY <1>1 DEF Rest, Accepted, IInv, Staged
<1>3. (Held(c) <=> HeldBy(c)) /\ (Held(c)' <=> HeldBy(c)')
  BY <1>2, HeldIff, HeldIffNext
<1>s. ups' = ups /\ downs' = downs => Life!Silent(c)
  BY DEF Life!Silent
<1>u. ups[c] \in Nat /\ downs[c] \in Nat /\ ioLoop[c] \in Loop
  BY <1>0 DEF ConnectionFacts
<1>4. CASE Establishes(c)
  <2>1. Waiting(c)
    BY <1>0, <1>4 DEF Establishes, InStage, Up, Down, Removed
  <2>2. /\ ups'[c] = 1 /\ downs'[c] = 0 /\ state_'[c] = "kConnected"
        /\ Life!Reports(c) /\ HeldBy(c)
    BY <1>0, <1>4, <2>1 DEF Establishes, Established, Waiting, ConnectionFacts,
                            Life!Reports, HeldBy
  <2>3. Kept(c)'
    BY <1>2, <2>2 DEF InStage, Waiting, Up, Down, Removed, Reported, KeptUp
  <2>4. HeldBy(c)'
    BY <1>1, <1>4, <2>3 DEF Establishes, Rest, Kept, HeldBy
  <2> QED BY <1>3, <2>2, <2>4
<1>5. CASE Destroys(c)
  <2>1. HeldBy(c) /\ Destroyed(c)
    BY <1>5 DEF Destroys, HeldBy
  <2>2. Up(c) \/ Down(c)
    BY <1>0, <1>5 DEF Destroys, InStage, Waiting, Removed, Kept
  <2>3. CASE Up(c) /\ state_[c] = "kConnected"
    <3>1. downs'[c] = 1 /\ ups'[c] = ups[c]
      BY <1>0, <2>1, <2>3 DEF Destroyed, DestroyEnds, Up, ConnectionFacts
    <3> QED BY <1>3, <2>1, <2>3, <3>1 DEF Up, Life!Reports
  <2>4. CASE Down(c)
    <3>1. downs' = downs /\ ups' = ups
      BY <2>1, <2>4 DEF Destroyed, DestroyEnds, Down
    <3> QED BY <1>3, <1>s, <2>1, <2>4, <3>1 DEF Down, MayGo
  <2>5. CASE Up(c) /\ state_[c] # "kConnected"
    <3>1. c \notin connections_
      BY <1>0, <1>5 DEF Destroys, InStage, LeavesOnce
    <3>2. MayGo(c)
      BY <2>5, <3>1 DEF Up, KeptUp, MayGo
    <3>3. downs' = downs /\ ups' = ups
      BY <2>1, <2>5 DEF Destroyed, DestroyEnds
    <3> QED BY <1>3, <1>s, <2>1, <3>2, <3>3
  <2> QED BY <2>2, <2>3, <2>4, <2>5
<1>6. CASE Unmaps(c)
  <2>1. HeldBy(c) /\ ups' = ups /\ downs' = downs
    BY <1>6 DEF Unmaps, HeldBy
  <2>2. downs[c] = 1
    <3>1. c \in connections_
      BY <1>0, <1>6 DEF Unmaps, InStage, LeavesOnce
    <3> QED BY <1>0, <1>6, <3>1
           DEF Unmaps, InStage, Waiting, Up, Down, Removed, Kept
  <2> QED BY <1>3, <1>s, <2>1, <2>2 DEF MayGo
<1>7. CASE Closes(c)
  <2>1. Up(c)
    BY <1>0, <1>7 DEF Closes, InStage, Waiting, Down, Removed
  <2>2. HeldBy(c)
    BY <1>7, <2>1 DEF Closes, Up, KeptUp, Kept, HeldBy
  <2>3. downs'[c] = 1 /\ ups'[c] = ups[c]
    BY <1>0, <1>7, <2>1 DEF Closes, Up, ConnectionFacts
  <2> QED BY <1>3, <2>1, <2>2, <2>3 DEF Up, Life!Reports
<1>8. CASE Ends(c)
  <2>1. HeldBy(c)
    BY <1>8 DEF Ends, HeldBy
  <2>2. CASE ioLoop[c] = BaseLoop
    <3>1. Destroyed(c)
      BY <1>8, <2>2 DEF Ends
    <3>2. ~Has("connectEstablished", c, ioLoop[c])
      <4> SUFFICES ASSUME Has("connectEstablished", c, ioLoop[c]) PROVE FALSE
        OBVIOUS
      <4>1. Placed(Call("connectEstablished", c), ioLoop[c])
        BY <1>u DEF IInv, CallsPlaced, Has
      <4> QED BY <2>2, <4>1 DEF Placed, Call
    <3>3. Up(c) \/ Down(c)
      BY <1>0, <1>8, <3>2 DEF Ends, InStage, Waiting, Removed, Kept
    <3>4. CASE Up(c) /\ state_[c] = "kConnected"
      <4>1. downs'[c] = 1 /\ ups'[c] = ups[c]
        BY <1>0, <3>1, <3>4 DEF Destroyed, DestroyEnds, Up, ConnectionFacts
      <4> QED BY <1>3, <2>1, <3>4, <4>1 DEF Up, Life!Reports
    <3>5. CASE Down(c)
      <4>1. downs' = downs /\ ups' = ups
        BY <3>1, <3>5 DEF Destroyed, DestroyEnds, Down
      <4> QED BY <1>3, <1>s, <2>1, <3>5, <4>1 DEF Down, MayGo
    <3>6. CASE Up(c) /\ state_[c] # "kConnected"
      <4>1. MayGo(c)
        BY <1>8, <3>6 DEF Up, Ends, MayGo
      <4>2. downs' = downs /\ ups' = ups
        BY <3>1, <3>6 DEF Destroyed, DestroyEnds
      <4> QED BY <1>3, <1>s, <2>1, <4>1, <4>2
    <3> QED BY <3>3, <3>4, <3>5, <3>6
  <2>3. CASE ioLoop[c] # BaseLoop
    <3>1. downs' = downs /\ ups' = ups
      BY <1>8, <2>3 DEF Ends
    <3>2. Has("connectDestroyed", c, ioLoop[c])'
      BY <1>1, <1>8, <1>u, <2>3 DEF Ends, Joins, Has, Rest, Waits
    <3>3. server = "connections"
      BY <1>0, <1>8 DEF Ends, EndsInOrder
    <3>4. pc'[ioLoop'[c]] # "ended"
      BY <1>0, <1>1, <1>u, <2>3, <3>3 DEF Rest, EndsInOrder
    <3>5. HeldBy(c)'
      BY <3>2, <3>4 DEF HeldBy
    <3> QED BY <1>3, <1>s, <2>1, <3>1, <3>5
  <2> QED BY <2>2, <2>3
<1>9. CASE Shuts(c)
  <2>1. downs' = downs /\ ups' = ups
    BY <1>9 DEF Shuts
  <2>2. HeldBy(c)' <=> HeldBy(c)
    BY <1>1, <1>9 DEF Shuts, Rest, HeldBy, Has
  <2> QED BY <1>3, <1>9, <1>s, <2>1, <2>2 DEF Shuts
<1> QED BY <1>4, <1>5, <1>6, <1>7, <1>8, <1>9 DEF ConnectionStep

\* A step that is about something else lets go of a connection only by the end of its loop.
LEMMA OthersLife ==
  ASSUME IInv, IInv', NEW c \in Accepted, c \in Accepted', Untouched(c)
  PROVE  /\ Life!Silent(c)
         /\ Held(c)' => Held(c)
         /\ Held(c) /\ ~Held(c)' => pc'[ioLoop'[c]] = "ended"
<1>0. ConnectionFacts /\ c \in Conn /\ ioLoop[c] \in Loop /\ BaseLoop \in Loop
  BY FactsHold DEF ConnectionFacts, IInv
<1>1. (Held(c) <=> HeldBy(c)) /\ (Held(c)' <=> HeldBy(c)')
  BY HeldIff, HeldIffNext
<1>2. \A op \in {"connectEstablished", "connectDestroyed", "removeConnectionInLoop"} :
        \A l \in Loop : Call(op, c) \in Waits'[l] <=> Call(op, c) \in Waits[l]
  BY <1>0, CallsTyped DEF Untouched
<1>3. ioLoop'[c] = ioLoop[c] /\ (c \in connections_' <=> c \in connections_)
  BY DEF Untouched
<1>4. \A l \in Loop : pc[l] = "ended" => pc'[l] = "ended"
  BY DEF Untouched
<1>5. HeldBy(c)' => HeldBy(c)
  BY <1>0, <1>2, <1>3, <1>4 DEF HeldBy, Has
<1>6. HeldBy(c) /\ ~HeldBy(c)' => pc'[ioLoop'[c]] = "ended"
  BY <1>0, <1>2, <1>3 DEF HeldBy, Has
<1>7. Life!Silent(c)
  BY DEF Untouched, Life!Silent
<1> QED BY <1>1, <1>5, <1>6, <1>7

LEMMA LifeStep ==
  ASSUME IInv, IInv', [Next]_vars
  PROVE  Life!Next
<1> SUFFICES ASSUME NEW c \in Conn PROVE Life!Step(c)
  BY DEF Life!Next
<1>0. Effect /\ TypeOK
  BY EffectStep DEF IInv
<1>1. CASE c \in Accepted
  <2>1. c \in Accepted'
    BY <1>0, <1>1, AcceptedGrows
  <2>2. CASE ConnectionStep(c)
    BY <1>1, <2>1, <2>2, OwnLife
       DEF MayGo, Life!Step, Life!CallBack, Life!LetGo, Life!Rests
  <2>3. CASE Untouched(c)
    BY <1>1, <2>1, <2>3, OthersLife
       DEF Life!Step, Life!CallBack, Life!LetGo, Life!Rests
  <2> QED BY <1>0, <1>1, <2>2, <2>3, OthersUntouched
<1>2. CASE c \notin Accepted /\ c \in Accepted'
  <2>1. Accepts(c)
    BY <1>0, <1>2, AcceptedGrows
  <2>2. c \in connections_' /\ Held(c)'
    BY <2>1 DEF Accepts, Held
  <2>3. ups[c] = 0 /\ downs[c] = 0 /\ ups \in [Conn -> Nat]
    BY <1>2 DEF IInv, FreshUntouched, TypeOK
  <2>4. Life!Silent(c) \/ (Life!Reports(c) /\ downs'[c] = 0)
    BY <2>1, <2>3 DEF Accepts, Established, Life!Silent, Life!Reports
  <2> QED BY <1>2, <2>2, <2>4 DEF Life!Step, Life!Accept
<1>3. CASE c \notin Accepted'
  <2>1. c \notin Accepted
    BY <1>0, <1>3, AcceptedGrows
  <2>2. ups[c] = 0 /\ downs[c] = 0 /\ ups'[c] = 0 /\ downs'[c] = 0
    BY <1>3, <2>1 DEF IInv, FreshUntouched
  <2> QED BY <1>3, <2>1, <2>2 DEF Life!Step, Life!Rests, Life!Silent
<1> QED BY <1>1, <1>2, <1>3

\* For its user a connection comes up once, goes down once, and is held from the first to
\* the last callback, whatever loops, queues, map, destructor and shutdown() do in
\* between; only the destructor may end one without a callback, and only one that the
\* user had shut down.
THEOREM ServerImplementsConnectionLife == Spec => ImplementsConnectionLife
<1>1. Init => Life!Init
  <2> SUFFICES ASSUME Init PROVE Life!Init
    OBVIOUS
  <2>1. Accepted = {}
    BY DEF Init, ServerInit, Accepted
  <2> QED BY <2>1 DEF Life!Init, Init, ServerInit, ConnectionsInit
<1>2. IInv /\ IInv' /\ [Next]_vars => [Life!Next]_(Life!vars)
  BY LifeStep
<1> QED BY <1>1, <1>2, Invariant, PTL DEF Spec, ImplementsConnectionLife, Life!Spec
=============================================================================
