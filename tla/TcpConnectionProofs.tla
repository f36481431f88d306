-------------------------- MODULE TcpConnectionProofs --------------------------
(***************************************************************************)
(* Proofs about TcpConnection, for any senders, any sizes of the socket's   *)
(* buffer and of the texts, any high water mark, and whether or not a        *)
(* sender's text outlives the queued call.                                  *)
(***************************************************************************)
EXTENDS TcpConnection, SequenceTheorems, TLAPS

\* The calls that the queue holds, and a queue without one of them.
Bound == [op : Ops, data : Seq(Byte)]
NotQueued(op, queue) == \A i \in DOMAIN queue : queue[i].op # op

\* Nothing has happened before connectEstablished, which leads the queue;
\* there is no second.
Unborn ==
    /\ ups = 0 /\ downs = 0 /\ state_ = "kConnecting"
    /\ events_ = {} /\ index_ = "kNew" /\ revents_ = {}
    /\ outputBuffer_ = <<>>
    /\ senderPc = [t \in Senders |-> "idle"]
    /\ removal = 0
    /\ functors # <<>>
    /\ Head(functors).op = "connectEstablished"
    /\ NotQueued("connectEstablished", Tail(functors))

\* connectEstablished has run, and is not queued again.
Born ==
    /\ ups = 1
    /\ state_ # "kConnecting"
    /\ NotQueued("connectEstablished", functors)

\* Until the end the loop watches for EPOLLOUT exactly when something is buffered,
\* also after connectDestroyed has passed over a connection that shutdown() had.
WatchesForOut == ups = 1 /\ downs = 0 => (Writing <=> outputBuffer_ # <<>>)

\* A connection that is down stays so, and without a late sendInLoop the poller
\* has nothing to report of it.
DownForGood ==
    /\ state_ = "kDisconnected" => downs > 0
    /\ downs > 0 => state_ \in {"kDisconnected", "kDisconnecting"}
    /\ downs > 0 /\ ~late =>
         /\ downs = 1
         /\ events_ = {} /\ index_ # "kAdded"
         /\ "HUP" \notin revents_ /\ "IN" \notin revents_

\* What may close the connection was reported of a channel that is still in the poller.
ClosersAreAdded == "HUP" \in revents_ \/ "IN" \in revents_ => index_ = "kAdded"

\* connectDestroyed takes no connection that is up without telling.
RemovedIsDown == ups = 1 /\ index_ = "kNew" /\ state_ # "kDisconnecting" => downs > 0

Phases ==
    (Unborn \/ Born) /\ WatchesForOut /\ DownForGood /\ ClosersAreAdded /\ RemovedIsDown

IInv == TypeOK /\ StreamIntact /\ HighWaterTold /\ Phases

-----------------------------------------------------------------------------
(* Sequences *)

\* A sequence is what a partial write takes of it and what it leaves.
LEMMA CutProperties ==
    ASSUME NEW S, NEW s \in Seq(S), NEW n \in 0..Len(s)
    PROVE  /\ SubSeq(s, 1, n) \in Seq(S)
           /\ SubSeq(s, n + 1, Len(s)) \in Seq(S)
           /\ Len(SubSeq(s, n + 1, Len(s))) = Len(s) - n
           /\ SubSeq(s, 1, n) \o SubSeq(s, n + 1, Len(s)) = s
<1>1. Len(s) \in Nat /\ \A i \in 1..Len(s) : s[i] \in S
    BY LenProperties, ElementOfSeq
<1>2. SubSeq(s, 1, n) \in Seq(S) /\ SubSeq(s, n + 1, Len(s)) \in Seq(S)
    BY <1>1, SubSeqProperties
<1>3. Len(SubSeq(s, n + 1, Len(s))) = Len(s) - n
    BY <1>1, SubSeqProperties
<1>4. SubSeq(s, 1, n) \o SubSeq(s, n + 1, Len(s)) = SubSeq(s, 1, Len(s))
    <2>1. 1 \in 1..(Len(s) + 1) /\ n \in (1 - 1)..Len(s) /\ Len(s) \in n..Len(s)
        BY <1>1
    <2> QED
        BY <2>1, ConcatAdjacentSubSeq
<1> QED
    BY <1>2, <1>3, <1>4, SubSeqFull

\* A call is queued behind the others, or taken from them.
LEMMA QueueProperties ==
    ASSUME NEW op, NEW queue \in Seq(Bound), NotQueued(op, queue)
    PROVE  /\ \A call \in Bound : call.op # op =>
                /\ Append(queue, call) \in Seq(Bound)
                /\ NotQueued(op, Append(queue, call))
           /\ queue # <<>> => /\ Tail(queue) \in Seq(Bound)
                              /\ NotQueued(op, Tail(queue))
<1>1. ASSUME NEW call \in Bound, call.op # op
      PROVE  Append(queue, call) \in Seq(Bound) /\ NotQueued(op, Append(queue, call))
    BY <1>1, AppendProperties DEF NotQueued
<1>2. ASSUME queue # <<>>
      PROVE  Tail(queue) \in Seq(Bound) /\ NotQueued(op, Tail(queue))
    BY <1>2, HeadTailProperties DEF NotQueued
<1> QED
    BY <1>1, <1>2

LEMMA BytesAssociate ==
    \A a, b, c \in Seq(Byte) : (a \o b) \o c = a \o (b \o c)
BY ConcatAssociative

\* A partial write moves the first bytes from one sequence to the other.
LEMMA CutMoves ==
    ASSUME NEW w \in Seq(Byte), NEW s \in Seq(Byte), NEW n \in 0..Len(s)
    PROVE  (w \o SubSeq(s, 1, n)) \o SubSeq(s, n + 1, Len(s)) = w \o s
<1> DEFINE first == SubSeq(s, 1, n)
           rest  == SubSeq(s, n + 1, Len(s))
<1>1. first \in Seq(Byte) /\ rest \in Seq(Byte)
    BY CutProperties
<1>2. first \o rest = s
    BY CutProperties
<1> HIDE DEF first, rest
<1>3. (w \o first) \o rest = w \o (first \o rest)
    BY <1>1, BytesAssociate
<1> QED
    BY <1>2, <1>3 DEF first, rest

LEMMA NotQueuedInEither ==
    ASSUME NEW op, NEW q \in Seq(Bound), NEW r \in Seq(Bound),
           NotQueued(op, q), NotQueued(op, r)
    PROVE  NotQueued(op, q \o r)
<1>1. /\ Len(q) \in Nat /\ Len(r) \in Nat /\ Len(q \o r) = Len(q) + Len(r)
      /\ DOMAIN q = 1..Len(q) /\ DOMAIN r = 1..Len(r)
      /\ DOMAIN (q \o r) = 1..Len(q \o r)
    BY LenProperties, ConcatProperties
<1>2. \A i \in DOMAIN (q \o r) :
        \/ i \in DOMAIN q /\ (q \o r)[i] = q[i]
        \/ i - Len(q) \in DOMAIN r /\ (q \o r)[i] = r[i - Len(q)]
    BY <1>1, ConcatProperties
<1> QED
    BY <1>2 DEF NotQueued

\* connectEstablished stays where it is when a call is queued behind it.
LEMMA HeadOfAppend ==
    ASSUME NEW queue \in Seq(Bound), queue # <<>>, NEW call \in Bound
    PROVE  /\ Append(queue, call) \in Seq(Bound) /\ Append(queue, call) # <<>>
           /\ Head(Append(queue, call)) = Head(queue)
           /\ Tail(Append(queue, call)) = Append(Tail(queue), call)
           /\ Tail(queue) \in Seq(Bound)
BY HeadTailAppend, AppendProperties, HeadTailProperties

-----------------------------------------------------------------------------
(* The pieces of the handlers *)

LEMMA UpdateProperties ==
    ASSUME NEW events, Update(events)
    PROVE  /\ events_' = events
           /\ index_' \in {"kAdded", "kDeleted"}
           /\ index_' = "kDeleted" => index_ = "kAdded" /\ events = {}
           /\ index_ = "kAdded" /\ events = {} => index_' = "kDeleted"
BY DEF Update, UpdatedIndex

LEMMA TakenProperties ==
    ASSUME TypeOK, NEW n \in Nat
    PROVE  Taken(n) \in 0..n /\ unread + Taken(n) \in 0..SndBuf
BY TcpConnectionAssumption DEF Taken, TypeOK

\* What sendInLoop does with one text, whichever way it goes: nothing to write,
\* all written, a part written and the rest buffered, all buffered, or a fault.
SendTypes ==
    /\ outputBuffer_' \in Seq(Byte) /\ functors' \in Seq(Bound)
    /\ wire' \in Seq(Byte) /\ unread' \in 0..SndBuf
    /\ accepted' \in Seq(Byte) /\ soError' \in BOOLEAN /\ told' \in Nat
    /\ events_' \subseteq {"read", "write"} /\ index_' \in {index_, "kAdded"}
    /\ index_' = "kDeleted" => events_' = {}
    /\ late' = (late \/ downs > 0)

LEMMA SendStep ==
    ASSUME TypeOK, StreamIntact, HighWaterTold,
           NEW data \in Seq(Byte), NEW queue \in Seq(Bound), SendInLoop(data, queue)
    PROVE  /\ SendTypes /\ StreamIntact' /\ HighWaterTold'
           /\ (Writing <=> outputBuffer_ # <<>>) => (Writing' <=> outputBuffer_' # <<>>)
           /\ NotQueued("connectEstablished", queue)
                => NotQueued("connectEstablished", functors')
<1> DEFINE fault   == Direct /\ Broken
           nwrote  == IF Direct /\ ~fault THEN Taken(Len(data)) ELSE 0
           written == SubSeq(data, 1, nwrote)
           remain  == SubSeq(data, nwrote + 1, Len(data))
           newLen  == Len(outputBuffer_) + Len(remain)
           keep    == ~fault /\ remain # <<>>
           crosses == keep /\ Crosses(Len(outputBuffer_), newLen)
           first   == IF Direct /\ ~fault /\ remain = <<>>
                        THEN <<Call("writeComplete", <<>>)>> ELSE <<>>
           second  == IF crosses THEN <<Call("highWater", <<>>)>> ELSE <<>>
<1>1. /\ wire' = wire \o written
      /\ unread' = unread + nwrote
      /\ soError' = (soError /\ ~Direct)
      /\ outputBuffer_' = IF keep THEN outputBuffer_ \o remain ELSE outputBuffer_
      /\ IF keep /\ ~Writing THEN EnableWriting ELSE UNCHANGED channelVars
      /\ functors' = queue \o first \o second
      /\ accepted' = IF fault THEN accepted ELSE accepted \o data
      /\ told' = told + (IF crosses THEN 1 ELSE 0)
      /\ late' = (late \/ downs > 0)
    BY DEF SendInLoop
<1>2. nwrote \in 0..Len(data) /\ unread + nwrote \in 0..SndBuf
    BY TakenProperties, LenProperties DEF TypeOK
<1>3. /\ written \in Seq(Byte) /\ remain \in Seq(Byte) /\ written \o remain = data
      /\ Len(remain) = Len(data) - nwrote
    BY <1>2, CutProperties
<1>4. ~Direct \/ fault => written = <<>> /\ remain = data
    BY SubSeqEmpty, SubSeqFull
<1>c. told \in Nat /\ told' = (IF crosses THEN told + 1 ELSE told)
    <2> HIDE DEF crosses
    <2>1. told \in Nat
        BY DEF TypeOK
    <2>2. told' = told + (IF crosses THEN 1 ELSE 0)
        BY <1>1
    <2> QED
        BY <2>1, <2>2
<1>b. wire \in Seq(Byte) /\ outputBuffer_ \in Seq(Byte) /\ accepted \in Seq(Byte)
    BY DEF TypeOK
<1>5. first \in Seq(Bound) /\ second \in Seq(Bound)
    <2>1. Call("writeComplete", <<>>) \in Bound /\ Call("highWater", <<>>) \in Bound
        BY DEF Bound, Call, Ops, Owning
    <2> QED
        BY <2>1
<1>a. /\ NotQueued("connectEstablished", first)
      /\ NotQueued("connectEstablished", second)
    <2>1. \A op : NotQueued("connectEstablished", <<>>)
        BY DEF NotQueued
    <2>2. \A op : op # "connectEstablished"
             => NotQueued("connectEstablished", <<Call(op, <<>>)>>)
        BY DEF NotQueued, Call
    <2> QED
        BY <2>1, <2>2
<1> HIDE DEF nwrote, written, remain, first, second
<1>6. outputBuffer_' \in Seq(Byte)
    BY <1>1, <1>3, ConcatProperties DEF TypeOK
<1>7. /\ wire' \in Seq(Byte) /\ unread' \in 0..SndBuf /\ accepted' \in Seq(Byte)
      /\ soError' \in BOOLEAN /\ told' \in Nat
    BY <1>1, <1>2, <1>3, ConcatProperties DEF TypeOK
<1>8. functors' \in Seq(Bound)
    BY <1>1, <1>5, ConcatProperties
<1>9. /\ events_' = IF keep /\ ~Writing THEN events_ \cup {"write"} ELSE events_
      /\ index_' \in {index_, "kAdded"}
      /\ index_' = "kDeleted" => events_' = {}
    <2>1. CASE keep /\ ~Writing
        BY <1>1, <2>1, UpdateProperties DEF EnableWriting
    <2>2. CASE ~(keep /\ ~Writing)
        BY <1>1, <2>2 DEF channelVars, TypeOK
    <2> QED
        BY <2>1, <2>2
<1>10. SendTypes
    BY <1>1, <1>6, <1>7, <1>8, <1>9 DEF SendTypes, TypeOK
<1>11. StreamIntact'
    <2>1. CASE fault
        BY <1>1, <1>4, <1>b, <2>1, ConcatEmptySeq DEF StreamIntact
    <2>2. CASE Direct /\ ~fault
        <3>1. outputBuffer_ = <<>> /\ outputBuffer_' = remain
            BY <1>1, <1>3, <2>2, ConcatEmptySeq DEF Direct
        <3>2. wire = accepted
            BY <3>1, ConcatEmptySeq DEF StreamIntact, TypeOK
        <3>3. (wire \o written) \o remain = wire \o data
            BY <1>2, <1>b, CutMoves DEF written, remain
        <3> QED
            BY <1>1, <1>3, <2>2, <3>1, <3>2, <3>3 DEF StreamIntact
    <2>3. CASE ~Direct
        <3>1. outputBuffer_' = outputBuffer_ \o data
            BY <1>1, <1>4, <1>b, <2>3, ConcatEmptySeq
        <3>2. wire' = wire
            BY <1>1, <1>4, <1>b, <2>3, ConcatEmptySeq
        <3>3. wire \o (outputBuffer_ \o data) = (wire \o outputBuffer_) \o data
            BY SMTT(30), <1>b, BytesAssociate
        <3> QED
            BY <1>1, <2>3, <3>1, <3>2, <3>3 DEF StreamIntact
    <2> QED
        BY <2>1, <2>2, <2>3
<1>12. HighWaterTold'
    <2>1. CASE keep
        <3>1. Len(outputBuffer_') = newLen
            BY <1>1, <1>3, <1>b, <2>1, ConcatProperties
        <3>2. Len(outputBuffer_) \in Nat /\ Len(remain) \in Nat
            BY <1>3, <1>b, LenProperties
        <3>3. /\ newLen \in Nat /\ newLen >= Len(outputBuffer_)
              /\ crosses <=> newLen >= HighWaterMark /\ Len(outputBuffer_) < HighWaterMark
            BY <2>1, <3>2, TcpConnectionAssumption DEF Crosses
        <3> QED
            BY <1>c, <3>1, <3>3, <3>2, TcpConnectionAssumption DEF HighWaterTold
    <2>2. CASE ~keep
        BY <1>1, <2>2 DEF HighWaterTold
    <2> QED
        BY <2>1, <2>2
<1>13. (Writing <=> outputBuffer_ # <<>>) => (Writing' <=> outputBuffer_' # <<>>)
    <2>1. keep => outputBuffer_' # <<>>
        BY <1>1, <1>3, ConcatEqualIffEmpty DEF TypeOK
    <2> QED
        BY <1>1, <1>9, <2>1 DEF Writing
<1>14. ASSUME NotQueued("connectEstablished", queue)
       PROVE  NotQueued("connectEstablished", functors')
    <2>2. NotQueued("connectEstablished", queue \o first)
        BY <1>5, <1>a, <1>14, NotQueuedInEither
    <2>3. NotQueued("connectEstablished", (queue \o first) \o second)
        BY <1>5, <1>a, <2>2, ConcatProperties, NotQueuedInEither
    <2> QED
        BY <1>1, <2>3
<1> QED
    BY <1>10, <1>11, <1>12, <1>13, <1>14

-----------------------------------------------------------------------------
(* Every step keeps the invariant *)

USE DEF channelVars, senderVars, socketVars, serverVars, historyVars

LEMMA InitIInv == Init => IInv
<1> SUFFICES ASSUME Init PROVE IInv
    OBVIOUS
<1> DEFINE first == Call("connectEstablished", <<>>)
<1>1. first \in Bound /\ first.op = "connectEstablished"
    BY DEF Bound, Call, Ops, Owning
<1>2. functors = <<first>>
    BY DEF Init
<1> HIDE DEF first
<1>3. /\ functors \in Seq(Bound) /\ functors # <<>> /\ Head(functors) = first
      /\ Tail(functors) = <<>>
    BY <1>1, <1>2
<1>4. TypeOK
    <2>1. /\ senderPc \in [Senders -> {"idle", "send", "store", "shutdown"}]
          /\ text \in [Senders -> Seq(Byte)]
        BY DEF Init
    <2>2. unread \in 0..SndBuf /\ given \in 0..MaxBytes
        BY TcpConnectionAssumption DEF Init
    <2>3. functors \in Seq([op : Ops, data : Seq(Byte)])
        BY <1>3 DEF Bound
    <2>4. /\ outputBuffer_ \in Seq(Byte) /\ wire \in Seq(Byte)
          /\ accepted \in Seq(Byte)
        BY DEF Init
    <2> QED
        BY <2>1, <2>2, <2>3, <2>4 DEF Init, TypeOK, Index
<1>5. Unborn
    BY <1>1, <1>3 DEF Init, Unborn, NotQueued
<1>6. StreamIntact /\ HighWaterTold
    BY TcpConnectionAssumption DEF Init, StreamIntact, HighWaterTold
<1>7. WatchesForOut /\ DownForGood /\ ClosersAreAdded /\ RemovedIsDown
    BY DEF Init, WatchesForOut, DownForGood, ClosersAreAdded, RemovedIsDown
<1> QED
    BY <1>4, <1>5, <1>6, <1>7 DEF IInv, Phases

LEMMA ConnectEstablishedStep ==
    ASSUME IInv, ConnectEstablished PROVE IInv'
<1> USE DEF IInv, Phases, ConnectEstablished, TakeCall
<1>1. Unborn
    BY HeadTailProperties DEF Born, NotQueued, TypeOK
<1>2. /\ functors' \in Seq(Bound) /\ NotQueued("connectEstablished", functors')
    BY <1>1, HeadTailProperties DEF Unborn, TypeOK, Bound
<1>3. events_' = {"read"} /\ index_' = "kAdded"
    BY <1>1, UpdateProperties DEF Unborn
<1>4. TypeOK'
    BY <1>1, <1>2, <1>3 DEF TypeOK, Unborn, Index, Bound
<1>5. StreamIntact' /\ HighWaterTold'
    BY DEF StreamIntact, HighWaterTold
<1>6. Born'
    BY <1>1, <1>2 DEF Unborn, Born
<1>7. (WatchesForOut /\ DownForGood /\ ClosersAreAdded /\ RemovedIsDown)'
    BY <1>1, <1>3 DEF Unborn, WatchesForOut, DownForGood, ClosersAreAdded,
                      RemovedIsDown, Writing
<1> QED
    BY <1>4, <1>5, <1>6, <1>7

\* A call other than connectEstablished is taken after it.
LEMMA TakenAfter ==
    ASSUME IInv, NEW op, op # "connectEstablished", TakeCall(op)
    PROVE  /\ Born
           /\ Tail(functors) \in Seq(Bound)
           /\ NotQueued("connectEstablished", Tail(functors))
           /\ Head(functors) \in Bound /\ revents_ = {}
<1>1. Born
    BY DEF IInv, Phases, Unborn, TakeCall
<1> QED
    BY <1>1, QueueProperties, HeadTailProperties DEF IInv, TypeOK, TakeCall, Born, Bound

LEMMA ConnectDestroyedStep ==
    ASSUME IInv, ConnectDestroyed PROVE IInv'
<1> USE DEF IInv, Phases, ConnectDestroyed, DestroysUp
<1>1. /\ Born /\ revents_ = {}
      /\ functors' \in Seq(Bound) /\ NotQueued("connectEstablished", functors')
    BY TakenAfter
<1>2. /\ index_' = "kNew"
      /\ \/ /\ state_ = "kConnected" /\ state_' = "kDisconnected" /\ events_' = {}
            /\ downs' = downs + 1
         \/ state_ # "kConnected" /\ UNCHANGED <<state_, events_, downs>>
    BY <1>1
<1> HIDE DEF ConnectDestroyed
<1>a. UNCHANGED <<revents_, outputBuffer_, senderVars, socketVars, serverVars,
                  given, accepted, ups, told, late>>
    BY DEF ConnectDestroyed
<1>5. TypeOK'
    <2>1. functors' \in Seq([op : Ops, data : Seq(Byte)])
        BY <1>1 DEF Bound
    <2>2. /\ state_' \in {"kDisconnected", "kConnecting", "kConnected", "kDisconnecting"}
          /\ events_' \subseteq {"read", "write"} /\ downs' \in Nat
        <3>1. CASE downs' = downs + 1 /\ state_' = "kDisconnected" /\ events_' = {}
            BY <3>1 DEF TypeOK
        <3>2. CASE UNCHANGED <<state_, events_, downs>>
            BY <3>2 DEF TypeOK
        <3> QED
            BY <1>2, <3>1, <3>2
    <2> QED
        BY <1>2, <1>a, <2>1, <2>2 DEF TypeOK, Index
<1>3. StreamIntact' /\ HighWaterTold' /\ Born'
    BY <1>1, <1>2, <1>a DEF StreamIntact, HighWaterTold, Born
<1>4. (WatchesForOut /\ DownForGood /\ ClosersAreAdded /\ RemovedIsDown)'
    <2>1. CASE downs' = downs + 1
        BY <1>1, <1>2, <1>a, <2>1 DEF Born, TypeOK, WatchesForOut, DownForGood,
           ClosersAreAdded, RemovedIsDown, Writing
    <2>2. CASE UNCHANGED <<state_, events_, downs>>
        BY <1>1, <1>2, <1>a, <2>2 DEF Born, TypeOK, WatchesForOut, DownForGood,
           ClosersAreAdded, RemovedIsDown, Writing
    <2> QED
        BY <1>2, <2>1, <2>2
<1> QED
    BY <1>3, <1>4, <1>5

\* sendInLoop, from the queue or from a callback, once the connection has been up.
LEMMA SendInLoopStep ==
    ASSUME IInv, Born, NEW data \in Seq(Byte), NEW queue \in Seq(Bound),
           NotQueued("connectEstablished", queue), SendInLoop(data, queue),
           UNCHANGED <<state_, revents_, senderVars, serverVars, ups, downs>>,
           given' \in 0..MaxBytes
    PROVE  IInv'
<1> USE DEF IInv, Phases
<1>1. /\ SendTypes /\ StreamIntact' /\ HighWaterTold'
      /\ (Writing <=> outputBuffer_ # <<>>) => (Writing' <=> outputBuffer_' # <<>>)
      /\ NotQueued("connectEstablished", functors')
      /\ UNCHANGED <<fin, peer, input>>
    BY SendStep DEF SendInLoop
<1>2. TypeOK'
    BY <1>1 DEF TypeOK, SendTypes, Index, Bound
<1>3. Born'
    BY <1>1 DEF Born
<1>4. WatchesForOut'
    BY <1>1 DEF Born, WatchesForOut
<1>5. (DownForGood /\ ClosersAreAdded /\ RemovedIsDown)'
    BY <1>1 DEF SendTypes, TypeOK, DownForGood, ClosersAreAdded, RemovedIsDown
<1> QED
    BY <1>1, <1>2, <1>3, <1>4, <1>5

LEMMA RunSendStep ==
    ASSUME IInv, RunSend PROVE IInv'
<1>1. /\ Born /\ Tail(functors) \in Seq(Bound)
      /\ NotQueued("connectEstablished", Tail(functors)) /\ Head(functors) \in Bound
    BY TakenAfter DEF RunSend
<1>2. PICK data \in Contents(Head(functors).data) : SendInLoop(data, Tail(functors))
    BY DEF RunSend
<1>3. data \in Seq(Byte)
    <2> DEFINE bound == Head(functors).data
    <2>1. bound \in Seq(Byte)
        BY <1>1 DEF Bound
    <2> HIDE DEF bound
    <2>2. DOMAIN bound = 1..Len(bound) /\ Len(bound) \in Nat /\ Garbage \in Byte
        BY <2>1, LenProperties, TcpConnectionAssumption DEF Garbage, Byte
    <2>3. [i \in DOMAIN bound |-> Garbage] \in Seq(Byte)
        BY <2>2
    <2> QED
        BY <1>2, <2>1, <2>3 DEF Contents, bound
<1> QED
    BY <1>1, <1>2, <1>3, SendInLoopStep DEF RunSend, IInv, TypeOK

LEMMA RunShutdownStep ==
    ASSUME IInv, RunShutdown \/ RunCallback PROVE IInv'
<1> USE DEF IInv, Phases
<1>1. /\ Born /\ revents_ = {}
      /\ functors' \in Seq(Bound) /\ NotQueued("connectEstablished", functors')
    BY TakenAfter DEF RunShutdown, RunCallback
<1>2. /\ fin' \in BOOLEAN
      /\ UNCHANGED <<state_, channelVars, revents_, outputBuffer_, senderVars, wire,
                     unread, peer, input, soError, serverVars, historyVars>>
    BY DEF RunShutdown, RunCallback, ShutdownInLoop, ShutdownWrite, TypeOK
<1>3. TypeOK'
    BY <1>1, <1>2 DEF TypeOK, Bound
<1>4. StreamIntact' /\ HighWaterTold' /\ Born'
    BY <1>1, <1>2 DEF StreamIntact, HighWaterTold, Born
<1>5. (WatchesForOut /\ DownForGood /\ ClosersAreAdded /\ RemovedIsDown)'
    BY <1>2 DEF WatchesForOut, DownForGood, ClosersAreAdded, RemovedIsDown, Writing
<1> QED
    BY <1>3, <1>4, <1>5

\* A step that leaves the channel, the bytes and the counts alone.
LEMMA OtherStep ==
    ASSUME IInv, TypeOK', (Unborn \/ Born)',
           UNCHANGED <<channelVars, outputBuffer_, wire, accepted, told, ups, downs, late>>,
           revents_' \subseteq revents_,
           state_' = state_ \/ (state_' = "kDisconnecting" /\ ups = 1)
    PROVE  IInv'
<1> USE DEF IInv, Phases
<1>1. StreamIntact' /\ HighWaterTold'
    BY DEF StreamIntact, HighWaterTold
<1>2. (WatchesForOut /\ DownForGood /\ ClosersAreAdded /\ RemovedIsDown)'
    BY DEF WatchesForOut, DownForGood, ClosersAreAdded, RemovedIsDown, Writing
<1> QED
    BY <1>1, <1>2

LEMMA TextsProperties ==
    ASSUME TypeOK, NEW data \in Texts
    PROVE  data \in Seq(Byte) /\ given + Len(data) \in 0..MaxBytes
<1>1. /\ MaxBytes \in Nat /\ MaxSend \in Nat /\ given \in 0..MaxBytes
    BY TcpConnectionAssumption DEF TypeOK
<1>2. PICK n \in 1..(IF given + MaxSend <= MaxBytes THEN MaxSend ELSE MaxBytes - given) :
        data = [i \in 1..n |-> given + i]
    BY DEF Texts
<1>3. n \in Nat /\ given + n <= MaxBytes
    BY <1>1, <1>2
<1>4. \A i \in 1..n : given + i \in Byte
    BY <1>1, <1>3 DEF Byte
<1>5. data \in Seq(Byte) /\ Len(data) = n
    BY <1>2, <1>3, <1>4
<1> QED
    BY <1>1, <1>3, <1>5

LEMMA FromLoopStep ==
    ASSUME IInv, SendFromLoop \/ ShutdownFromLoop PROVE IInv'
<1>1. Born /\ NotQueued("connectEstablished", functors) /\ functors \in Seq(Bound)
    BY DEF IInv, Phases, SendFromLoop, ShutdownFromLoop, Unborn, Born, TypeOK, Bound
<1>2. CASE SendFromLoop
    <2>1. PICK data \in Texts : given' = given + Len(data) /\ SendInLoop(data, functors)
        BY <1>2 DEF SendFromLoop
    <2>2. data \in Seq(Byte) /\ given' \in 0..MaxBytes
        BY <2>1, TextsProperties DEF IInv
    <2> QED
        BY <1>1, <1>2, <2>1, <2>2, SendInLoopStep DEF SendFromLoop
<1>3. CASE ShutdownFromLoop
    <2>1. TypeOK'
        BY ZenonT(40), <1>3 DEF IInv, TypeOK, ShutdownFromLoop, ShutdownInLoop, ShutdownWrite
    <2>2. Born'
        BY <1>1, <1>3 DEF Born, ShutdownFromLoop
    <2> QED
        BY <1>1, <1>3, <2>1, <2>2, OtherStep DEF ShutdownFromLoop, Born
<1> QED
    BY <1>2, <1>3

LEMMA PollStep ==
    ASSUME IInv, Poll PROVE IInv'
<1> USE DEF IInv, Phases, Poll
<1>1. Born
    BY DEF Unborn
<1>2. Reported \subseteq {"IN", "OUT", "HUP", "ERR"}
    BY DEF Reported
<1>3. TypeOK'
    BY <1>2 DEF TypeOK
<1>4. StreamIntact' /\ HighWaterTold' /\ Born'
    BY <1>1 DEF StreamIntact, HighWaterTold, Born
<1>5. (WatchesForOut /\ DownForGood /\ ClosersAreAdded /\ RemovedIsDown)'
    BY DEF WatchesForOut, DownForGood, ClosersAreAdded, RemovedIsDown, Writing
<1> QED
    BY <1>3, <1>4, <1>5

\* handleClose runs once: of HUP and IN, the one that closes is the last reported.
LEMMA HandleCloseStep ==
    ASSUME IInv, HandleClose, "HUP" \in revents_ \/ "IN" \in revents_,
           revents_' \subseteq revents_, "HUP" \notin revents_', "IN" \notin revents_',
           UNCHANGED <<outputBuffer_, functors, senderVars, wire, unread, fin, peer>>,
           input' \in BOOLEAN, soError' \in BOOLEAN
    PROVE  IInv'
<1> USE DEF IInv, Phases
<1>1. Born
    BY DEF Unborn
<1>2. index_ = "kAdded"
    BY DEF ClosersAreAdded
<1>3. events_' = {} /\ index_' = "kDeleted"
    BY <1>2, UpdateProperties DEF HandleClose
<1>4. /\ state_' = "kDisconnected" /\ downs' = downs + 1
      /\ removal' \in {removal, removal + 1}
      /\ UNCHANGED <<inMap, serverUp, freed, given, accepted, ups, told, late>>
    BY DEF HandleClose
<1>5. TypeOK'
    BY <1>3, <1>4 DEF TypeOK, Index
<1>6. StreamIntact' /\ HighWaterTold' /\ Born'
    BY <1>1, <1>4 DEF StreamIntact, HighWaterTold, Born
<1>7. downs \in Nat /\ (downs > 0 => late)
    BY DEF DownForGood, TypeOK
<1>8. (WatchesForOut /\ DownForGood /\ ClosersAreAdded /\ RemovedIsDown)'
    BY <1>3, <1>4, <1>7 DEF WatchesForOut, DownForGood, ClosersAreAdded, RemovedIsDown
<1> QED
    BY <1>5, <1>6, <1>8

LEMMA HandleHupStep ==
    ASSUME IInv, HandleHup PROVE IInv'
<1>1. "HUP" \in revents_ /\ revents_' = revents_ \ {"HUP"}
    BY DEF HandleHup, Handle
<1>2. CASE HupCloses
    <2>1. HandleClose /\ UNCHANGED <<outputBuffer_, functors, senderVars, socketVars>>
        BY <1>2 DEF HandleHup
    <2>2. "IN" \notin revents_
        BY <1>2 DEF HupCloses
    <2> QED
        BY <1>1, <2>1, <2>2, HandleCloseStep DEF IInv, TypeOK
<1>3. CASE ~HupCloses
    <2>1. UNCHANGED <<state_, channelVars, outputBuffer_, functors, senderVars,
                      socketVars, serverVars, historyVars>>
        BY <1>3 DEF HandleHup
    <2>2. TypeOK'
        BY <1>1, <2>1 DEF IInv, TypeOK
    <2>3. Born'
        BY <1>1, <2>1 DEF IInv, Phases, Unborn, Born
    <2> QED
        BY <1>1, <2>1, <2>2, <2>3, OtherStep
<1> QED
    BY <1>2, <1>3

LEMMA HandleErrStep ==
    ASSUME IInv, HandleErr PROVE IInv'
<1>1. "ERR" \in revents_ /\ revents_' = revents_ \ {"ERR"}
    BY DEF HandleErr, Handle
<1>2. /\ soError' = FALSE
      /\ UNCHANGED <<state_, channelVars, outputBuffer_, functors, senderVars, wire,
                     unread, fin, peer, input, serverVars, historyVars>>
    BY DEF HandleErr
<1>3. TypeOK'
    <2>1. revents_' \subseteq {"IN", "OUT", "HUP", "ERR"} /\ soError' \in BOOLEAN
        BY <1>1, <1>2 DEF IInv, TypeOK
    <2> QED
        BY <1>2, <2>1 DEF IInv, TypeOK
<1>4. Born'
    BY <1>1, <1>2 DEF IInv, Phases, Unborn, Born
<1> QED
    BY <1>1, <1>2, <1>3, <1>4, OtherStep

LEMMA HandleReadStep ==
    ASSUME IInv, HandleRead PROVE IInv'
<1>1. /\ "IN" \in revents_ /\ "HUP" \notin revents_
      /\ revents_' = revents_ \ {"IN"}
    BY DEF HandleRead, Handle
<1>2. /\ input' \in BOOLEAN /\ soError' \in BOOLEAN
      /\ UNCHANGED <<outputBuffer_, functors, senderVars, wire, unread, fin, peer>>
    BY DEF HandleRead, IInv, TypeOK
<1>3. CASE ReadsEnd
    <2>1. HandleClose
        BY <1>3 DEF HandleRead
    <2> QED
        BY <1>1, <1>2, <2>1, HandleCloseStep
<1>4. CASE ~ReadsEnd
    <2>1. UNCHANGED <<state_, channelVars, serverVars, historyVars>>
        BY <1>4 DEF HandleRead
    <2>2. TypeOK'
        BY <1>1, <1>2, <2>1 DEF IInv, TypeOK
    <2>3. Born'
        BY <1>1, <1>2, <2>1 DEF IInv, Phases, Unborn, Born
    <2> QED
        BY <1>1, <1>2, <2>1, <2>2, <2>3, OtherStep
<1> QED
    BY <1>3, <1>4

\* handleWrite moves bytes from the buffer to the wire, and asks for no more EPOLLOUT
\* exactly when none are left.
LEMMA HandleWriteStep ==
    ASSUME IInv, HandleWrite PROVE IInv'
<1> USE DEF IInv, Phases
<1> DEFINE n    == Taken(Len(outputBuffer_))
           left == SubSeq(outputBuffer_, n + 1, Len(outputBuffer_))
<1>1. /\ "OUT" \in revents_ /\ "HUP" \notin revents_ /\ "IN" \notin revents_
      /\ revents_' = revents_ \ {"OUT"}
      /\ UNCHANGED <<state_, senderVars, peer, input, soError, serverVars, given,
                     accepted, ups, downs, late>>
    BY DEF HandleWrite, Handle
<1>2. Born
    BY <1>1 DEF Unborn
<1>3. CASE Writing /\ ~Broken
    <2>1. /\ wire' = wire \o SubSeq(outputBuffer_, 1, n)
          /\ unread' = unread + n
          /\ outputBuffer_' = left
          /\ told' = IF Len(left) >= HighWaterMark THEN told ELSE 0
          /\ IF left = <<>>
               THEN /\ DisableWriting
                    /\ functors' = Append(functors, Call("writeComplete", <<>>))
                    /\ IF ShutdownWaits THEN ShutdownInLoop(FALSE) ELSE UNCHANGED fin
               ELSE UNCHANGED <<channelVars, functors, fin>>
        BY <1>3 DEF HandleWrite
    <2>2. n \in 0..Len(outputBuffer_) /\ unread' \in 0..SndBuf
        BY <2>1, TakenProperties, LenProperties DEF TypeOK
    <2>3. /\ left \in Seq(Byte) /\ Len(left) = Len(outputBuffer_) - n
          /\ wire' \in Seq(Byte)
          /\ wire' \o left = wire \o outputBuffer_
        BY ZenonT(40), <2>1, <2>2, CutProperties, CutMoves, ConcatProperties DEF TypeOK
    <2> HIDE DEF n, left
    <2>4. StreamIntact'
        BY <1>1, <2>1, <2>3 DEF StreamIntact
    <2>5. Len(left) \in Nat /\ Len(left) <= Len(outputBuffer_)
        BY <2>2, <2>3, LenProperties DEF TypeOK
    <2>6. HighWaterTold' /\ told' \in Nat
        <3>1. told \in Nat /\ (Len(left) >= HighWaterMark => told = 1)
            BY <2>2, <2>3, <2>5, LenProperties, TcpConnectionAssumption
               DEF HighWaterTold, TypeOK
        <3> QED
            BY <2>1, <3>1 DEF HighWaterTold
    <2>7. CASE left = <<>>
        <3>1. events_' = events_ \ {"write"} /\ index_' \in {"kAdded", "kDeleted"}
              /\ (index_' = "kDeleted" => events_' = {})
            BY <2>1, <2>7, UpdateProperties DEF DisableWriting
        <3>2. PICK call \in Bound : /\ call.op # "connectEstablished"
                                    /\ functors' = Append(functors, call)
            <4>1. /\ Call("writeComplete", <<>>) \in Bound
                  /\ Call("writeComplete", <<>>).op # "connectEstablished"
                BY DEF Bound, Call, Ops, Owning
            <4> QED
                BY <2>1, <2>7, <4>1
        <3>3. functors' \in Seq(Bound) /\ NotQueued("connectEstablished", functors')
            BY <1>2, <3>2, QueueProperties DEF Born, TypeOK, Bound
        <3>4. fin' \in BOOLEAN
            BY <2>1, <2>7 DEF ShutdownInLoop, ShutdownWrite, TypeOK
        <3>5. TypeOK'
            BY SMTT(30), <1>1, <2>1, <2>2, <2>3, <2>6, <3>1, <3>3, <3>4 DEF TypeOK, Index, Bound
        <3>6. Born'
            BY <1>1, <1>2, <3>3 DEF Born
        <3>7. WatchesForOut'
            BY <2>1, <2>7, <3>1 DEF WatchesForOut, Writing
        <3>8. (DownForGood /\ ClosersAreAdded /\ RemovedIsDown)'
            BY <1>1, <1>3, <3>1 DEF DownForGood, ClosersAreAdded, RemovedIsDown, Writing
        <3> QED
            BY <2>4, <2>6, <3>5, <3>6, <3>7, <3>8
    <2>8. CASE left # <<>>
        <3>1. UNCHANGED <<channelVars, functors, fin>>
            BY <2>1, <2>8
        <3>2. TypeOK'
            BY SMTT(30), <1>1, <2>1, <2>2, <2>3, <2>6, <3>1 DEF TypeOK
        <3>3. Born'
            BY <1>1, <1>2, <3>1 DEF Born
        <3>4. WatchesForOut'
            BY <1>3, <2>1, <2>8, <3>1 DEF WatchesForOut, Writing
        <3>5. (DownForGood /\ ClosersAreAdded /\ RemovedIsDown)'
            BY <1>1, <3>1 DEF DownForGood, ClosersAreAdded, RemovedIsDown
        <3> QED
            BY <2>4, <2>6, <3>2, <3>3, <3>4, <3>5
    <2> QED
        BY <2>7, <2>8
<1>4. CASE ~(Writing /\ ~Broken)
    <2>1. UNCHANGED <<wire, unread, outputBuffer_, told, channelVars, functors, fin>>
        BY <1>4 DEF HandleWrite
    <2>2. TypeOK'
        BY <1>1, <2>1 DEF TypeOK
    <2>3. Born'
        BY <1>1, <1>2, <2>1 DEF Born
    <2> QED
        BY <1>1, <2>1, <2>2, <2>3, OtherStep
<1> QED
    BY <1>3, <1>4

\* send and shutdown on another thread touch the state and the queue only.
LEMMA OtherThreadStep ==
    ASSUME IInv, NEW t \in Senders, Send(t) \/ Shutdown(t) \/ SenderStep(t)
    PROVE  IInv'
<1> USE DEF IInv, Phases
<1>1. PICK to \in {"idle", "send", "store", "shutdown"} :
        /\ senderPc' = [senderPc EXCEPT ![t] = to]
        /\ UNCHANGED <<channelVars, revents_, outputBuffer_, socketVars, serverVars,
                       accepted, ups, downs, told, late>>
    BY DEF Send, Shutdown, SenderStep, QueueSend, StoreDisconnecting, QueueShutdown, Sender
<1>2. Born
    <2>1. state_ = "kConnected" \/ senderPc[t] # "idle"
        BY DEF Send, Shutdown, SenderStep, QueueSend, StoreDisconnecting,
               QueueShutdown, Sender
    <2> QED
        BY <2>1 DEF Unborn
<1>3. state_' = state_ \/ state_' = "kDisconnecting"
    BY DEF Send, Shutdown, SenderStep, QueueSend, StoreDisconnecting, QueueShutdown
<1>4. functors' \in Seq(Bound) /\ NotQueued("connectEstablished", functors')
    <2>1. CASE QueueSend(t)
        <3>1. text[t] \in Seq(Byte)
            BY DEF TypeOK
        <3>2. /\ Call("sendInLoop", text[t]) \in Bound
              /\ Call("sendInLoop", text[t]).op # "connectEstablished"
            BY <3>1 DEF Bound, Call, Ops
        <3> QED
            BY <1>2, <2>1, <3>2, QueueProperties DEF QueueSend, Born, TypeOK, Bound
    <2>2. CASE QueueShutdown(t)
        <3>1. /\ Call("shutdownInLoop", <<>>) \in Bound
              /\ Call("shutdownInLoop", <<>>).op # "connectEstablished"
            BY DEF Bound, Call, Ops
        <3> QED
            BY <1>2, <2>2, <3>1, QueueProperties DEF QueueShutdown, Born, TypeOK, Bound
    <2>3. CASE functors' = functors
        BY <1>2, <2>3 DEF Born, TypeOK, Bound
    <2> QED
        BY <2>1, <2>2, <2>3 DEF Send, Shutdown, SenderStep, StoreDisconnecting
<1>5. text' \in [Senders -> Seq(Byte)] /\ given' \in 0..MaxBytes
    <2>1. CASE Send(t)
        <3>1. PICK data \in Texts : /\ text' = [text EXCEPT ![t] = data]
                                    /\ given' = given + Len(data)
            BY <2>1 DEF Send
        <3>2. data \in Seq(Byte) /\ given + Len(data) \in 0..MaxBytes
            BY TextsProperties
        <3> QED
            BY <3>1, <3>2 DEF TypeOK
    <2>2. CASE QueueSend(t)
        BY <2>2 DEF TypeOK, QueueSend
    <2>3. CASE UNCHANGED <<text, given>>
        BY <2>3 DEF TypeOK
    <2> QED
        BY <2>1, <2>2, <2>3 DEF Shutdown, SenderStep, StoreDisconnecting, QueueShutdown
<1>6. TypeOK'
    <2>1. senderPc' \in [Senders -> {"idle", "send", "store", "shutdown"}]
        BY <1>1 DEF TypeOK
    <2>2. functors' \in Seq([op : Ops, data : Seq(Byte)])
        BY <1>4 DEF Bound
    <2>3. state_' \in {"kDisconnected", "kConnecting", "kConnected", "kDisconnecting"}
        BY <1>3 DEF TypeOK
    <2> QED
        BY <1>1, <1>5, <2>1, <2>2, <2>3 DEF TypeOK
<1>7. Born'
    BY <1>1, <1>2, <1>3, <1>4 DEF Born
<1> QED
    BY <1>1, <1>2, <1>3, <1>6, <1>7, OtherStep DEF Born

\* The server may queue connectDestroyed behind a connectEstablished that waits.
LEMMA ServerStep ==
    ASSUME IInv, RemoveConnectionInLoop \/ DestroyServer \/ Release
    PROVE  IInv'
<1> USE DEF IInv, Phases
<1> DEFINE last == Call("connectDestroyed", <<>>)
<1>1. last \in Bound /\ last.op # "connectEstablished"
    BY DEF Bound, Call, Ops, Owning
<1>2. functors' = Append(functors, last) \/ functors' = functors
    BY DEF RemoveConnectionInLoop, DestroyServer, Release, QueueDestroyed
<1>3. /\ UNCHANGED <<state_, channelVars, revents_, outputBuffer_, senderVars,
                     socketVars, historyVars>>
      /\ removal' \in Nat /\ inMap' \in BOOLEAN /\ serverUp' \in BOOLEAN
      /\ freed' \in BOOLEAN /\ (removal = 0 => removal' = 0)
    <2>1. CASE RemoveConnectionInLoop
        <3>1. /\ removal \in Nat /\ removal > 0 /\ removal' = removal - 1
              /\ inMap' = FALSE /\ UNCHANGED <<serverUp, freed>>
              /\ UNCHANGED <<state_, channelVars, revents_, outputBuffer_, senderVars,
                             socketVars, historyVars>>
            BY <2>1 DEF RemoveConnectionInLoop, TypeOK
        <3>2. removal' \in Nat /\ (removal = 0 => removal' = 0)
            BY <3>1
        <3>3. serverUp' \in BOOLEAN /\ freed' \in BOOLEAN
            BY <3>1 DEF TypeOK
        <3> QED
            BY <3>1, <3>2, <3>3
    <2>2. CASE DestroyServer
        BY <2>2 DEF DestroyServer, TypeOK
    <2>3. CASE Release
        BY <2>3 DEF Release, TypeOK
    <2> QED
        BY <2>1, <2>2, <2>3
<1> HIDE DEF last
<1>4. functors \in Seq(Bound)
    BY DEF TypeOK, Bound
<1>5. functors' \in Seq(Bound)
    BY <1>1, <1>2, <1>4, AppendProperties
<1>6. TypeOK'
    BY <1>3, <1>5 DEF TypeOK, Bound
<1>7. CASE Unborn
    <2>1. /\ functors' # <<>> /\ Head(functors') = Head(functors)
          /\ NotQueued("connectEstablished", Tail(functors'))
        <3>1. functors # <<>> /\ NotQueued("connectEstablished", Tail(functors))
            BY <1>7 DEF Unborn
        <3>2. Tail(functors) \in Seq(Bound)
            BY <1>1, <1>4, <3>1, HeadOfAppend
        <3>3. NotQueued("connectEstablished", Append(Tail(functors), last))
            BY <1>1, <3>1, <3>2, QueueProperties
        <3> QED
            BY <1>1, <1>2, <1>4, <3>1, <3>3, HeadOfAppend
    <2>2. Unborn'
        BY <1>3, <1>7, <2>1 DEF Unborn
    <2> QED
        BY <1>3, <1>6, <2>2, OtherStep
<1>8. CASE Born
    <2>1. NotQueued("connectEstablished", functors')
        BY <1>1, <1>2, <1>4, <1>8, QueueProperties DEF Born
    <2>2. Born'
        BY <1>3, <1>8, <2>1 DEF Born
    <2> QED
        BY <1>3, <1>6, <2>2, OtherStep
<1> QED
    BY <1>7, <1>8

LEMMA PeerStep ==
    ASSUME IInv, PeerReads \/ PeerWrites \/ PeerCloses \/ Reset
    PROVE  IInv'
<1>1. /\ UNCHANGED <<state_, channelVars, revents_, outputBuffer_, functors, senderVars,
                     wire, fin, serverVars, historyVars>>
      /\ unread' \in 0..SndBuf /\ peer' \in {"open", "closed", "reset"}
      /\ input' \in BOOLEAN /\ soError' \in BOOLEAN
    <2>1. CASE PeerReads
        BY <2>1, TcpConnectionAssumption DEF PeerReads, Outside, IInv, TypeOK
    <2>2. CASE PeerWrites
        BY <2>2 DEF PeerWrites, Outside, IInv, TypeOK
    <2>3. CASE PeerCloses
        BY <2>3 DEF PeerCloses, Outside, IInv, TypeOK
    <2>4. CASE Reset
        BY <2>4 DEF Reset, Outside, IInv, TypeOK
    <2> QED
        BY <2>1, <2>2, <2>3, <2>4
<1>2. TypeOK'
    BY <1>1 DEF IInv, TypeOK
<1>3. (Unborn \/ Born)'
    BY <1>1 DEF IInv, Phases, Unborn, Born
<1> QED
    BY <1>1, <1>2, <1>3, OtherStep

LEMMA NextIInv == IInv /\ [Next]_vars => IInv'
<1> SUFFICES ASSUME IInv, [Next]_vars PROVE IInv'
    OBVIOUS
<1>1. CASE FunctorStep
    BY <1>1, ConnectEstablishedStep, ConnectDestroyedStep, RunSendStep, RunShutdownStep
       DEF FunctorStep
<1>2. CASE EventStep
    BY <1>2, PollStep, HandleHupStep, HandleErrStep, HandleReadStep, HandleWriteStep
       DEF EventStep
<1>3. CASE SendFromLoop \/ ShutdownFromLoop
    BY <1>3, FromLoopStep
<1>4. ASSUME NEW t \in Senders, Send(t) \/ Shutdown(t) \/ SenderStep(t) PROVE IInv'
    BY <1>4, OtherThreadStep
<1>5. CASE RemoveConnectionInLoop \/ DestroyServer \/ Release
    BY <1>5, ServerStep
<1>6. CASE PeerReads \/ PeerWrites \/ PeerCloses \/ Reset
    BY <1>6, PeerStep
<1>7. CASE UNCHANGED vars
    <2>1. TypeOK'
        BY <1>7 DEF vars, IInv, TypeOK
    <2>2. (Unborn \/ Born)'
        BY <1>7 DEF vars, IInv, Phases, Unborn, Born
    <2> QED
        BY <1>7, <2>1, <2>2, OtherStep DEF vars
<1> QED
    BY <1>1, <1>2, <1>3, <1>4, <1>5, <1>6, <1>7 DEF Next

LEMMA Invariant == Spec => []IInv
BY InitIInv, NextIInv, PTL DEF Spec

-----------------------------------------------------------------------------
(* Theorems *)

\* The types, of which the widths of the socket's buffer and of the bytes given are the
\* part that arithmetic could break.
THEOREM Typing == Spec => []TypeOK
<1>1. IInv => TypeOK
    BY DEF IInv
<1> QED
    BY <1>1, Invariant, PTL

\* No byte that sendInLoop took is lost, doubled or overtaken (TcpConnection.cc,
\* sendInLoop and handleWrite), even if the text it read was not the one given.
THEOREM StreamKept == Spec => []StreamIntact
<1>1. IInv => StreamIntact
    BY DEF IInv
<1> QED
    BY <1>1, Invariant, PTL

\* EPOLLOUT is watched for exactly while something is buffered.
THEOREM WatchesRightly == Spec => []WritingIffBuffered
<1>1. IInv => WritingIffBuffered
    BY DEF IInv, Phases, WatchesForOut, WritingIffBuffered
<1> QED
    BY <1>1, Invariant, PTL

\* The high water callback is queued exactly once each time the buffer gets to the
\* mark from below, whether one text or many took it there.
THEOREM MarkReported == Spec => []HighWaterTold
<1>1. IInv => HighWaterTold
    BY DEF IInv
<1> QED
    BY <1>1, Invariant, PTL

\* However HUP, EOF, connectDestroyed and shutdown() of other threads fall, the user
\* hears of the end once.
THEOREM EndOnce == Spec => []EndReportedOnce
<1>1. IInv => EndReportedOnce
    BY DEF IInv, Phases, TypeOK, DownForGood, RemovedIsDown, EndReportedOnce
<1> QED
    BY <1>1, Invariant, PTL

\* While the connection is up the FIN goes out only when the output buffer is empty.
THEOREM FinAfterBuffer == Spec => FinBehindBuffer
<1>1. IInv /\ [Next]_vars => [fin' /\ ~fin /\ downs = 0 => outputBuffer_' = <<>>]_vars
    <2> SUFFICES ASSUME IInv, Next, fin', ~fin, downs = 0 PROVE outputBuffer_' = <<>>
        OBVIOUS
    <2> USE DEF IInv, Phases
    <2>1. CASE RunShutdown
        <3>1. Born /\ ~Writing /\ outputBuffer_' = outputBuffer_
            BY <2>1, TakenAfter DEF RunShutdown, ShutdownInLoop
        <3> QED
            BY <3>1 DEF Born, WatchesForOut
    <2>2. CASE ShutdownFromLoop
        <3>1. Born /\ ~Writing /\ outputBuffer_' = outputBuffer_
            BY <2>2 DEF ShutdownFromLoop, ShutdownInLoop, Unborn
        <3> QED
            BY <3>1 DEF Born, WatchesForOut
    <2>3. CASE HandleWrite
        BY <2>3 DEF HandleWrite
    <2>4. CASE ConnectEstablished \/ ConnectDestroyed \/ RunSend \/ RunCallback
        BY <2>4 DEF ConnectEstablished, ConnectDestroyed, RunSend, RunCallback, SendInLoop
    <2>5. CASE Poll \/ HandleHup \/ HandleErr \/ HandleRead \/ SendFromLoop
        BY <2>5 DEF Poll, HandleHup, HandleErr, HandleRead, SendFromLoop, SendInLoop
    <2>6. ASSUME NEW t \in Senders, Send(t) \/ Shutdown(t) \/ SenderStep(t) PROVE FALSE
        BY <2>6 DEF Send, Shutdown, SenderStep, QueueSend, StoreDisconnecting,
                    QueueShutdown, Sender
    <2>7. CASE \/ RemoveConnectionInLoop \/ DestroyServer \/ Release
               \/ PeerReads \/ PeerWrites \/ PeerCloses \/ Reset
        BY <2>7 DEF RemoveConnectionInLoop, DestroyServer, Release, PeerReads, PeerWrites,
                    PeerCloses, Reset, Outside
    <2> QED
        BY <2>1, <2>2, <2>3, <2>4, <2>5, <2>6, <2>7 DEF Next, FunctorStep, EventStep
<1> QED
    BY <1>1, Invariant, PTL DEF Spec, FinBehindBuffer
=============================================================================
