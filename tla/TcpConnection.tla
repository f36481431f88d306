----------------------------- MODULE TcpConnection -----------------------------
(***************************************************************************)
(* One TcpConnection (src/TcpConnection.cc): its handlers and queued calls  *)
(* on the thread of its loop, send and shutdown on other threads, the       *)
(* socket and the peer below, and TcpServer's part in its removal above.     *)
(*                                                                         *)
(* Handlers and functors of the loop's thread are single steps, in any      *)
(* order the loop allows; the other threads interleave with them between    *)
(* the test of state_, its store and the append to the loop's queue.  The   *)
(* loop is taken at the level of TaskQueue: a FIFO of bound calls.  Bytes   *)
(* are numbered in the order in which they are given to send.               *)
(***************************************************************************)
EXTENDS Naturals, Sequences, Functions, PollerIndex

CONSTANTS Senders,         \* the threads that use the connection, but its loop's
          MaxBytes,        \* bound: bytes given to send in a behaviour
          MaxSend,         \* bound: bytes in one send
          SndBuf,          \* the socket's send buffer, in bytes
          HighWaterMark,   \* highWaterMark_, in bytes
          CallerKeepsText  \* a sender's string outlives the queued call

ASSUME TcpConnectionAssumption ==
    /\ MaxBytes \in Nat /\ MaxSend \in Nat
    /\ SndBuf \in Nat \ {0} /\ HighWaterMark \in Nat \ {0}
    /\ CallerKeepsText \in BOOLEAN

VARIABLES
    state_,
    events_, index_, revents_,  \* channel_; revents_ shrinks as it is handled
    outputBuffer_,
    functors,                   \* the loop's queue: this connection's calls
    senderPc, text,             \* where each sender is; what it sends
    wire, unread, fin,          \* written to the socket; of it, not taken by
                                \* the peer yet; shutdownWrite has been called
    peer, input, soError,       \* the peer; unread input; SO_ERROR is set
    removal, inMap, serverUp,   \* removeConnectionInLoop calls on their way;
                                \* connections_ holds it; TcpServer exists
    freed,                      \* the last shared_ptr is gone
    given, accepted,            \* history: bytes given to send, taken by it
    ups, downs,                 \* history: connectionCallback_ calls
    told,                       \* history: times high water told since the last low
    late                        \* history: sendInLoop has run on a closed one

channelVars  == <<events_, index_>>
socketVars   == <<wire, unread, fin, peer, input, soError>>
serverVars   == <<removal, inMap, serverUp, freed>>
senderVars   == <<senderPc, text>>
historyVars  == <<given, accepted, ups, downs, told, late>>
vars == <<state_, channelVars, revents_, outputBuffer_, functors, senderVars,
          socketVars, serverVars, historyVars>>

\* Garbage is what a dangling pointer reads.
Garbage == 0
Byte == 0..MaxBytes

\* A bound call in the loop's queue.
Call(op, data) == [op |-> op, data |-> data]

\* Those that keep a shared_ptr; the others are bound to a raw this.
Owning == {"connectEstablished", "connectDestroyed", "writeComplete", "highWater"}
Ops == Owning \cup {"sendInLoop", "shutdownInLoop"}

TypeOK ==
    /\ state_ \in {"kDisconnected", "kConnecting", "kConnected", "kDisconnecting"}
    /\ events_ \subseteq {"read", "write"} /\ index_ \in Index
    /\ index_ = "kDeleted" => events_ = {}
    /\ revents_ \subseteq {"IN", "OUT", "HUP", "ERR"}
    /\ outputBuffer_ \in Seq(Byte)
    /\ functors \in Seq([op : Ops, data : Seq(Byte)])
    /\ senderPc \in [Senders -> {"idle", "send", "store", "shutdown"}]
    /\ text \in [Senders -> Seq(Byte)]
    /\ wire \in Seq(Byte) /\ unread \in 0..SndBuf /\ fin \in BOOLEAN
    /\ peer \in {"open", "closed", "reset"}
    /\ input \in BOOLEAN /\ soError \in BOOLEAN
    /\ removal \in Nat /\ inMap \in BOOLEAN /\ serverUp \in BOOLEAN
    /\ freed \in BOOLEAN
    /\ given \in 0..MaxBytes /\ accepted \in Seq(Byte)
    /\ ups \in Nat /\ downs \in Nat
    /\ told \in Nat /\ late \in BOOLEAN

\* newConnection has built it and queued connectEstablished.
Init ==
    /\ state_ = "kConnecting"
    /\ events_ = {} /\ index_ = "kNew" /\ revents_ = {}
    /\ outputBuffer_ = <<>>
    /\ functors = <<Call("connectEstablished", <<>>)>>
    /\ senderPc = [t \in Senders |-> "idle"]
    /\ text = [t \in Senders |-> <<>>]
    /\ wire = <<>> /\ unread = 0 /\ fin = FALSE
    /\ peer = "open" /\ input = FALSE /\ soError = FALSE
    /\ removal = 0 /\ inMap = TRUE /\ serverUp = TRUE /\ freed = FALSE
    /\ given = 0 /\ accepted = <<>> /\ ups = 0 /\ downs = 0
    /\ told = 0 /\ late = FALSE

-----------------------------------------------------------------------------
(* Pieces of the handlers *)

\* Channel::update after a change of events_.
Update(events) ==
    /\ events_' = events
    /\ index_' = UpdatedIndex(index_, events)

Writing == "write" \in events_

\* Slip: nobody asks for EPOLLOUT.
LeaveWritingOff == UNCHANGED channelVars

EnableWriting == Update(events_ \cup {"write"})

\* Slip: EPOLLOUT is left on.
LeaveWritingOn == UNCHANGED channelVars

DisableWriting == Update(events_ \ {"write"})

\* shutdown(2) of the socket; a second one changes nothing.
ShutdownWrite == fin' = TRUE

\* Slip: the FIN does not wait for the output buffer.
ShutdownAtOnce(writing) == ShutdownWrite

\* shutdownWrite when the output buffer has been written, else handleWrite's
\* business.  `writing` is channel_->isWriting().
ShutdownInLoop(writing) == IF writing THEN UNCHANGED fin ELSE ShutdownWrite

\* Slip: handleWrite forgets the shutdown that waits for it.
NoShutdownWaits == FALSE

ShutdownWaits == state_ = "kDisconnecting"

\* Slip: write() although older bytes are still buffered.
AlwaysDirect == TRUE

\* sendInLoop may write() past the output buffer.
Direct == ~Writing /\ outputBuffer_ = <<>>

\* Slip: the mark is passed, not reached.
CrossesStrictly(oldLen, newLen) == newLen > HighWaterMark /\ oldLen < HighWaterMark

\* Slip: every send above the mark tells it.
CrossesAgain(oldLen, newLen) == newLen >= HighWaterMark

Crosses(oldLen, newLen) == newLen >= HighWaterMark /\ oldLen < HighWaterMark

\* write() fails with EPIPE or ECONNRESET.
Broken == fin \/ peer = "reset"

\* How many of n bytes write() takes.
Taken(n) == IF n <= SndBuf - unread THEN n ELSE SndBuf - unread

\* The bytes of the next send: MaxSend at most, numbered on from the last.
Texts == {[i \in 1..n |-> given + i] : n \in 1..(IF given + MaxSend <= MaxBytes
                                                 THEN MaxSend ELSE MaxBytes - given)}

\* sendInLoop(data) in a loop whose queue is `queue`.  In state kDisconnected it
\* logs and goes on.
SendInLoop(data, queue) ==
    LET fault   == Direct /\ Broken
        nwrote  == IF Direct /\ ~fault THEN Taken(Len(data)) ELSE 0
        remain  == SubSeq(data, nwrote + 1, Len(data))
        oldLen  == Len(outputBuffer_)
        newLen  == oldLen + Len(remain)
        keep    == ~fault /\ remain # <<>>
        crosses == keep /\ Crosses(oldLen, newLen)
    IN  /\ wire' = wire \o SubSeq(data, 1, nwrote)
        /\ unread' = unread + nwrote
        /\ soError' = (soError /\ ~Direct)
        /\ outputBuffer_' = IF keep THEN outputBuffer_ \o remain ELSE outputBuffer_
        /\ IF keep /\ ~Writing THEN EnableWriting
                               ELSE UNCHANGED channelVars
        /\ functors' = queue
             \o (IF Direct /\ ~fault /\ remain = <<>>
                   THEN <<Call("writeComplete", <<>>)>> ELSE <<>>)
             \o (IF crosses THEN <<Call("highWater", <<>>)>> ELSE <<>>)
        /\ accepted' = IF fault THEN accepted ELSE accepted \o data
        /\ told' = told + (IF crosses THEN 1 ELSE 0)
        /\ late' = (late \/ downs > 0)
        /\ UNCHANGED <<fin, peer, input>>

\* The channel is out of the poller, the callback says so, and the server is
\* asked to remove the connection.
HandleClose ==
    /\ state_' = "kDisconnected"
    /\ Update({})
    /\ downs' = downs + 1
    /\ removal' = IF serverUp THEN removal + 1 ELSE removal
    /\ UNCHANGED <<inMap, serverUp, freed, given, accepted, ups, told, late>>

-----------------------------------------------------------------------------
(* The loop's thread: functors *)

\* The loop takes the next call when it is not handling events.
TakeCall(op) ==
    /\ ~freed
    /\ revents_ = {}
    /\ functors # <<>>
    /\ Head(functors).op = op

ConnectEstablished ==
    /\ TakeCall("connectEstablished")
    /\ functors' = Tail(functors)
    /\ state_' = "kConnected"
    /\ Update(events_ \cup {"read"})
    /\ ups' = ups + 1
    /\ UNCHANGED <<revents_, outputBuffer_, senderVars, socketVars, serverVars,
                   given, accepted, downs, told, late>>

\* Slip: the test has the wrong state.
DestroysUnborn == state_ = "kConnecting"

\* connectDestroyed is the first to end the connection.
DestroysUp == state_ = "kConnected"

ConnectDestroyed ==
    /\ TakeCall("connectDestroyed")
    /\ functors' = Tail(functors)
    /\ index_' = "kNew"
    /\ IF DestroysUp
         THEN state_' = "kDisconnected" /\ events_' = {} /\ downs' = downs + 1
         ELSE UNCHANGED <<state_, events_, downs>>
    /\ UNCHANGED <<revents_, outputBuffer_, senderVars, socketVars, serverVars,
                   given, accepted, ups, told, late>>

\* send binds buf.c_str(), not the text: what is there when the call runs?
Contents(data) ==
    {data} \cup (IF CallerKeepsText THEN {} ELSE {[i \in DOMAIN data |-> Garbage]})

RunSend ==
    /\ TakeCall("sendInLoop")
    /\ \E data \in Contents(Head(functors).data) : SendInLoop(data, Tail(functors))
    /\ UNCHANGED <<state_, revents_, senderVars, serverVars, given, ups, downs>>

RunShutdown ==
    /\ TakeCall("shutdownInLoop")
    /\ functors' = Tail(functors)
    /\ ShutdownInLoop(Writing)
    /\ UNCHANGED <<state_, channelVars, revents_, outputBuffer_, senderVars, wire,
                   unread, peer, input, soError, serverVars, historyVars>>

\* writeCompleteCallback_ and highWaterMarkCallback_; what the user does in them
\* are steps of their own.
RunCallback ==
    /\ TakeCall("writeComplete") \/ TakeCall("highWater")
    /\ functors' = Tail(functors)
    /\ UNCHANGED <<state_, channelVars, revents_, outputBuffer_, senderVars,
                   socketVars, serverVars, historyVars>>

-----------------------------------------------------------------------------
(* The loop's thread: user code in a callback *)

SendFromLoop ==
    /\ ~freed
    /\ state_ = "kConnected"
    /\ \E data \in Texts :
         /\ given' = given + Len(data)
         /\ SendInLoop(data, functors)
    /\ UNCHANGED <<state_, revents_, senderVars, serverVars, ups, downs>>

ShutdownFromLoop ==
    /\ ~freed
    /\ state_ = "kConnected"
    /\ state_' = "kDisconnecting"
    /\ ShutdownInLoop(Writing)
    /\ UNCHANGED <<channelVars, revents_, outputBuffer_, functors, senderVars, wire,
                   unread, peer, input, soError, serverVars, historyVars>>

-----------------------------------------------------------------------------
(* The loop's thread: events *)

\* What epoll reports of this socket; HUP and ERR need not be asked for.
Reported ==
    (IF "read" \in events_ /\ (input \/ peer # "open") THEN {"IN"} ELSE {})
    \cup (IF Writing /\ (unread < SndBuf \/ Broken) THEN {"OUT"} ELSE {})
    \cup (IF peer = "reset" \/ (fin /\ peer = "closed") THEN {"HUP"} ELSE {})
    \cup (IF soError THEN {"ERR"} ELSE {})

Poll ==
    /\ ~freed
    /\ index_ = "kAdded"
    /\ revents_ = {}
    /\ Reported # {}
    /\ revents_' = Reported
    /\ UNCHANGED <<state_, channelVars, outputBuffer_, functors, senderVars,
                   socketVars, serverVars, historyVars>>

\* handleEventWithGuard: HUP, ERR, IN, OUT in this order.
Handle(ev, before) ==
    /\ ev \in revents_
    /\ before \cap revents_ = {}
    /\ revents_' = revents_ \ {ev}

\* Slip: HUP closes whatever else is reported.
HupAlwaysCloses == TRUE

HupCloses == "IN" \notin revents_

HandleHup ==
    /\ Handle("HUP", {})
    /\ IF HupCloses
         THEN HandleClose
         ELSE UNCHANGED <<state_, channelVars, serverVars, historyVars>>
    /\ UNCHANGED <<outputBuffer_, functors, senderVars, socketVars>>

\* handleError takes SO_ERROR.
HandleErr ==
    /\ Handle("ERR", {"HUP"})
    /\ soError' = FALSE
    /\ UNCHANGED <<state_, channelVars, outputBuffer_, functors, senderVars, wire,
                   unread, fin, peer, input, serverVars, historyVars>>

\* Slip: only an orderly end closes.
ReadsEndOfStream == ~input /\ peer = "closed"

\* read() returns 0: also on a reset socket, once its error has been taken.
ReadsEnd == ~input /\ ~soError /\ peer # "open"

\* Data goes to messageCallback_, an error is logged, the end closes.
HandleRead ==
    /\ Handle("IN", {"HUP", "ERR"})
    /\ IF ReadsEnd
         THEN HandleClose
         ELSE UNCHANGED <<state_, channelVars, serverVars, historyVars>>
    /\ input' = FALSE
    /\ soError' = (soError /\ input)
    /\ UNCHANGED <<outputBuffer_, functors, senderVars, wire, unread, fin, peer>>

HandleWrite ==
    /\ Handle("OUT", {"HUP", "ERR", "IN"})
    /\ IF Writing /\ ~Broken
         THEN LET n    == Taken(Len(outputBuffer_))
                  left == SubSeq(outputBuffer_, n + 1, Len(outputBuffer_))
              IN  /\ wire' = wire \o SubSeq(outputBuffer_, 1, n)
                  /\ unread' = unread + n
                  /\ outputBuffer_' = left
                  /\ told' = IF Len(left) >= HighWaterMark THEN told ELSE 0
                  /\ IF left = <<>>
                       THEN /\ DisableWriting
                            /\ functors' = Append(functors, Call("writeComplete", <<>>))
                            /\ IF ShutdownWaits
                                 THEN ShutdownInLoop(FALSE) ELSE UNCHANGED fin
                       ELSE UNCHANGED <<channelVars, functors, fin>>
         ELSE UNCHANGED <<wire, unread, outputBuffer_, told, channelVars, functors, fin>>
    /\ UNCHANGED <<state_, senderVars, peer, input, soError, serverVars, given,
                   accepted, ups, downs, late>>

-----------------------------------------------------------------------------
(* send and shutdown on another thread: test, [store,] queue *)

Sender(t, from, to) ==
    /\ ~freed
    /\ senderPc[t] = from
    /\ senderPc' = [senderPc EXCEPT ![t] = to]
    /\ UNCHANGED <<channelVars, revents_, outputBuffer_, socketVars, serverVars,
                   accepted, ups, downs, told, late>>

Send(t) ==
    /\ state_ = "kConnected"
    /\ Sender(t, "idle", "send")
    /\ \E data \in Texts : /\ text' = [text EXCEPT ![t] = data]
                           /\ given' = given + Len(data)
    /\ UNCHANGED <<state_, functors>>

QueueSend(t) ==
    /\ Sender(t, "send", "idle")
    /\ functors' = Append(functors, Call("sendInLoop", text[t]))
    /\ text' = [text EXCEPT ![t] = <<>>]
    /\ UNCHANGED <<state_, given>>

Shutdown(t) ==
    /\ state_ = "kConnected"
    /\ Sender(t, "idle", "store")
    /\ UNCHANGED <<state_, functors, text, given>>

StoreDisconnecting(t) ==
    /\ Sender(t, "store", "shutdown")
    /\ state_' = "kDisconnecting"
    /\ UNCHANGED <<functors, text, given>>

QueueShutdown(t) ==
    /\ Sender(t, "shutdown", "idle")
    /\ functors' = Append(functors, Call("shutdownInLoop", <<>>))
    /\ UNCHANGED <<state_, text, given>>

-----------------------------------------------------------------------------
(* TcpServer on the base loop, and the last reference *)

QueueDestroyed == functors' = Append(functors, Call("connectDestroyed", <<>>))

RemoveConnectionInLoop ==
    /\ serverUp /\ removal > 0
    /\ removal' = removal - 1
    /\ inMap' = FALSE
    /\ QueueDestroyed
    /\ UNCHANGED <<state_, channelVars, revents_, outputBuffer_, senderVars,
                   socketVars, serverUp, freed, historyVars>>

\* The base loop has ended: what it had queued is dropped.
DestroyServer ==
    /\ serverUp
    /\ serverUp' = FALSE
    /\ inMap' = FALSE
    /\ removal' = 0
    /\ IF inMap THEN QueueDestroyed ELSE UNCHANGED functors
    /\ UNCHANGED <<state_, channelVars, revents_, outputBuffer_, senderVars,
                   socketVars, freed, historyVars>>

\* Nothing holds a shared_ptr: not the map, not a call on its way, not a thread
\* inside send or shutdown.  (Between calls a thread may drop its own.)
Release ==
    /\ ~freed
    /\ ~inMap /\ removal = 0 /\ revents_ = {}
    /\ \A t \in Senders : senderPc[t] = "idle"
    /\ \A i \in DOMAIN functors : functors[i].op \notin Owning
    /\ freed' = TRUE
    /\ UNCHANGED <<state_, channelVars, revents_, outputBuffer_, functors,
                   senderVars, socketVars, removal, inMap, serverUp, historyVars>>

-----------------------------------------------------------------------------
(* The peer and the kernel *)

Outside ==
    UNCHANGED <<state_, channelVars, revents_, outputBuffer_, functors, senderVars,
                wire, fin, serverVars, historyVars>>

PeerReads ==
    /\ peer = "open" /\ unread > 0
    /\ unread' = unread - 1
    /\ UNCHANGED <<peer, input, soError>> /\ Outside

PeerWrites ==
    /\ peer = "open" /\ ~input
    /\ input' = TRUE
    /\ UNCHANGED <<unread, peer, soError>> /\ Outside

PeerCloses ==
    /\ peer = "open"
    /\ peer' = "closed"
    /\ UNCHANGED <<unread, input, soError>> /\ Outside

Reset ==
    /\ peer # "reset"
    /\ peer' = "reset" /\ input' = FALSE /\ soError' = TRUE
    /\ UNCHANGED unread /\ Outside

-----------------------------------------------------------------------------
FunctorStep ==
    \/ ConnectEstablished \/ ConnectDestroyed
    \/ RunSend \/ RunShutdown \/ RunCallback

EventStep == Poll \/ HandleHup \/ HandleErr \/ HandleRead \/ HandleWrite

\* A thread that has begun send or shutdown goes on.
SenderStep(t) == QueueSend(t) \/ StoreDisconnecting(t) \/ QueueShutdown(t)

Next ==
    \/ FunctorStep \/ EventStep
    \/ SendFromLoop \/ ShutdownFromLoop
    \/ \E t \in Senders : Send(t) \/ Shutdown(t) \/ SenderStep(t)
    \/ RemoveConnectionInLoop \/ DestroyServer \/ Release
    \/ PeerReads \/ PeerWrites \/ PeerCloses \/ Reset

Spec == Init /\ [][Next]_vars

\* The loops run, each turn of the connection's with a poll and a batch of
\* functors (EventLoop's FunctorRuns and ReadyChannelHandled); the senders are
\* scheduled; an open peer reads.
FairSpec ==
    /\ Spec
    /\ SF_vars(FunctorStep)
    /\ SF_vars(EventStep)
    /\ WF_vars(RemoveConnectionInLoop)
    /\ WF_vars(PeerReads)
    /\ \A t \in Senders : WF_vars(SenderStep(t))

-----------------------------------------------------------------------------
(* Properties *)

\* What sendInLoop has taken is on the wire or in the output buffer, in order,
\* nothing twice and nothing missing, whatever partial writes there were.
StreamIntact == wire \o outputBuffer_ = accepted

\* While the connection is up the loop watches for EPOLLOUT exactly when there is
\* something to write: it neither spins nor forgets the rest.
WritingIffBuffered ==
    ups = 1 /\ downs = 0 /\ index_ = "kAdded" => (Writing <=> outputBuffer_ # <<>>)

\* Until the connection is down, shutdownInLoop and handleWrite between them send
\* the FIN only behind the output buffer.
FinBehindBuffer == [][fin' /\ ~fin /\ downs = 0 => outputBuffer_' = <<>>]_vars

\* sendInLoop queues the high water callback exactly once each time the output buffer
\* gets to the mark: not before it does, not missed when several texts together take
\* it there, and not again until handleWrite has brought the buffer below the mark.
HighWaterTold == told = (IF Len(outputBuffer_) >= HighWaterMark THEN 1 ELSE 0)

\* connectionCallback_ is called once for the end of the connection, whichever of
\* HUP, EOF and the server's end comes first: not twice, unless sendInLoop has run
\* behind the close and put the channel back into the poller, and not never once it
\* has been destroyed, unless shutdown() was waiting on it.
EndReportedOnce ==
    /\ downs <= 1 \/ late
    /\ ups = 1 /\ index_ = "kNew" /\ state_ # "kDisconnecting" => downs > 0

\* The end of the peer, or its reset, is seen and reported.
EndIsSeen == peer # "open" ~> (downs > 0 \/ ~serverUp \/ freed)

\* shutdown() sends its FIN in the end, also when it meets a full output buffer
\* (shutdownInLoop then leaves it to handleWrite), unless the connection ends.
ShutdownSendsFin ==
    state_ = "kDisconnecting" ~> (fin \/ peer # "open" \/ ~serverUp \/ freed)

\* Buffered output gets out if the peer goes on reading.
OutputDrains ==
    outputBuffer_ # <<>> ~> (outputBuffer_ = <<>> \/ peer # "open" \/ ~serverUp)

SendWaitsAheadOfShutdown ==
    \E i, j \in DOMAIN functors :
        i < j /\ functors[i].op = "sendInLoop" /\ functors[j].op = "shutdownInLoop"

\* Once disconnected, sendInLoop gives up writing, as its comment and its message
\* have it.
GiveUpWriting ==
    [][downs > 0 /\ state_ = "kDisconnected" => accepted' = accepted]_vars

\* send() sends (TcpConnection.h): when the FIN goes out, no text that was queued by
\* send() before a shutdown() of the same thread still waits, while the peer and the
\* server are there.
SentBeforeShutdown ==
    [][fin' /\ ~fin /\ peer = "open" /\ serverUp => ~SendWaitsAheadOfShutdown]_vars

\* The callbacks are given shared_from_this() (README.md), which keeps the connection
\* alive for them: no call that waits in the loop's queue refers to a connection that
\* is gone, while the server is there.
CallsKeepConnection == freed /\ serverUp => functors = <<>>
=============================================================================
