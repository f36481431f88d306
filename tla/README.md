# Vita-TinyNetLib: a TLA+ model

Vita-TinyNetLib is a small multi-reactor network library in the manner of muduo:
a base loop accepts connections and hands each to one of several io loops, every
loop is one thread around an epoll set, and threads talk to a loop by queueing
functors. This directory models the library's code in TLA+, checks the models with
TLC and proves theorems about them with TLAPS.

The reference is the code in `src/src/*.cc`, `src/src/*.h` and `src/mutex_tools/*.h`.
The `.cpp` files beside the `.cc` files are an earlier layout of the same functions;
they differ in layout, comments and the namespace, and the headers belong to the `.cc`
files, so those are modelled.

`PROJECT.json` maps every definition to the source lines it stands for, and lists the
components, the runs, the hazards of the code, and the theorems. For each property it
also names a *slip*: an operator beside the definition (its comment begins with
`Slip:`) that is the definition with a plausible bug, under which TLC finds the
property violated.

## The system

| component | state it keeps | operations | who calls it | hard behaviour |
|---|---|---|---|---|
| EventLoop | `quit_`, `pendingFunctors_`, `callingPendingFunctors_`, the active list, an eventfd | loop, quit, runInLoop, queueInLoop, wakeup, handleRead | its own thread; any thread for quit/queueInLoop/runInLoop | wakeups lost or doubled, quit against sleep, requeueing functors, order over batches |
| EventLoopThread, Thread | `loop_`, `exiting_`, mutex and condition, the thread | startLoop, threadFunc, destructor | the pool, on the base loop's thread | handshake of creation, unlocked read of `loop_`, quit against start and against end |
| EventLoopThreadPool | `threads_`, `loops_`, `next_` | start, getNextLoop, getAllLoops | TcpServer | round robin, zero threads |
| Poller, EPollPoller, Channel | channel map, epoll set, `events_`; per channel `events_`, `index_`, `revents_`, `tie_` | update/removeChannel, poll, enable/disable, handleEvent | EventLoop, TcpConnection, Acceptor | three records of one fact, dispatch of channels that die in the same batch |
| TcpConnection | `state_`, input and output buffers, channel, socket, callbacks | send, shutdown, connectEstablished, connectDestroyed, handleRead/Write/Close/Error | io loop; user threads for send/shutdown; TcpServer | partial writes, resets, shutdown against send, close from three sides, lifetime |
| TcpServer | `connections_`, `started_`, acceptor, pool | start, newConnection, removeConnection(InLoop), destructor | base loop; io loops through close callback | two hops for a removal, destruction with work queued |
| Acceptor, Socket | listening socket and channel | listen, handleRead | base loop | accept errors, idle descriptors |
| Buffer | a vector, `readerIndex_`, `writerIndex_` | append, retrieve, ensureWritableBytes, readFd, writeFd | TcpConnection and user callbacks, one thread | index arithmetic, overlapping moves, the split read |
| VitaBoundedBlockingQueue on VitaMutex, VitaCondition | deque, capacity, two conditions | put, take | any thread | notifying only at two sizes, capacities that are not positive |
| VitaCountDownLatch | counter, condition | wait, countDown, getCount | any thread | countdown against wait |
| Logger, Timestamp | one shared level, `localtime`'s one result | setLogLevel, log, now, toString | any thread | level and time set and used in two steps |
| InetAddress, CurrentThread, Callbacks | values | formatting | all | none |

What makes each correct: an EventLoop runs every functor once, in order, on its thread,
never sleeps on one, and stops when asked; an EventLoopThread hands over a live, ready
loop and ends with its owner; the poller's records agree and what it dispatches is
alive; a connection's byte stream is whole, its FIN is last, its end is reported once
and leads to its removal; a server holds a connection from its first to its last
callback; a buffer is a queue of bytes; a bounded queue strands nobody; a latch lets
nobody pass early and holds nobody back; a log line carries its own level and time.

## Modules

```
TaskQueue  <--implemented by--  EventLoop  <--extended by--  EventLoopThread
PollerIndex  <--extended by--  EPollPoller, TcpConnection
ConnectionLife  <--implemented by--  TcpServer  (Acceptor, EventLoopThreadPool, the loops' turns)
ByteQueue  <--implemented by--  Buffer
Latch  <--implemented by--  VitaCountDownLatch
MutexTools = VitaBoundedBlockingQueue + VitaCountDownLatch
<module>Proofs: theorems about EventLoop, EventLoopThread (extends EventLoopProofs), EPollPoller,
    TcpConnection, TcpServer, Buffer, VitaCountDownLatch and MutexTools (with its queue)
Logger
MC<module>: the instance of <module> that TLC runs
```

**TaskQueue** is what a loop promises the threads that give it work: a FIFO of tasks,
executed one at a time while the executor is on. No eventfd, batch or flag.

**EventLoop** has one variable per member (same name), `pc` for the place of the owning
thread in `loop()`, `functors` for the local vector of `doPendingFunctors`, `ready` for
descriptors with an event, `callerPc` for a thread between its change of the loop and the
write to the eventfd. The mutex protects one push and one swap, so each is one step; the
gap between `pendingFunctors_` (or `quit_`) and `wakeup()` is where other threads run.
User code is arbitrary: it queues, quits, drains its descriptor or not, in a handler, in
a functor, or before `loop()`. A functor is in the queue at most once at a time (the
models tell functors apart by name); it may requeue itself for ever.

**EventLoopThread** extends EventLoop with every step of it, `threadFunc` around it and
the owner's `startLoop`, use and destructor. The destructor's read of `loop_` without the
mutex is a step of its own between any two steps of the thread; a call on a destroyed loop
crashes or has no effect.

**PollerIndex** is the transition of `index_` in `updateChannel`, shared by the two
modules that have channels.

**EPollPoller** models the channel map, each channel's `index_`, `events_` and life, the
epoll set in the kernel (which drops a closed descriptor), reuse of descriptors, the
event list that doubles, and the turn of the loop around it: poll, the dispatch of the
active list, the batch of functors, and the time before and after `loop()` (`phase`).
Handlers and functors of the loop's thread enable, disable and open channels. Any thread
may queue a connectDestroyed at any moment (`pending`), and the last `shared_ptr` to a
connection that has been through it goes at any moment, on any thread (`Close`); neither
looks at the active list, as the code does not. What keeps a listed channel alive is that
connectDestroyed runs only in a batch, and a batch is swapped only when the list has been
gone through: `ActiveAlive` says so, and the slip `SwapBeforeHandlers` breaks it. A plain
call of `removeChannel` (the acceptor's end, the connections of a server that dies after
its loop has returned) is made outside `loop()`. A handler that destroys the server of its
own loop is outside the model: the code has nothing against it, and the list would then
hold dead channels.

**TcpConnection** is one connection with its loop at the level of TaskQueue (EventLoop
is shown to implement it), its channel, `TcpServer`'s side of the removal, other threads
in send and shutdown (test, store and queue are separate steps), the socket (a send
buffer that takes part of a write, errors, HUP) and the peer (reads, writes, closes,
resets). Bytes are numbered in the order of the sends, so that loss, repetition and
reordering show. `send` from another thread queues a pointer: with
`CallerKeepsText = FALSE` its text may be garbage when the call runs. A call bound to the
raw `this` does not keep the connection: `Release` takes the last `shared_ptr` with such a
call still queued, and a loop that would go on with it then stands still.

**TcpServer** is the whole server around that one connection: `start()` once or twice, by
the base loop's thread before `loop()` or by another; the acceptor, whose `accept` fails
without a descriptor or a peer, and whose socket refuses peers until it listens; the
round robin; `runInLoop`, which is a call on the
loop's own thread and an entry in its queue on another; the two hops of a removal; the
destructor with its members in their order, down to the last join. A turn of a loop is
poll, handlers, swap, batch, and the test of `quit_`, as in `loop()`, because whether a
call that is queued meets a loop's last swap decides what is lost. A connection is its
state, its channel's place in the poller and the calls that hold a `shared_ptr` to it
(`Held`; a call lets go when it runs, the code's local vector a little later). Its bytes
are TcpConnection's, its FIN too, but `shutdown()` from any thread is here, since it leaves
the state `kDisconnecting`, in which connectDestroyed says nothing; as its test and its
store are two steps, the store may come behind the connection's end. A thread of the pool
has its loop when startLoop returns and calls `loop()` later (`EnterLoop`, which forgets a
quit that came before). `numThreads_` is chosen at the start, 0 included. The server is
destroyed after its base loop has returned, as in `example/EchoServer.cpp`.

**ConnectionLife** is what the server's user is promised of each connection, without
loops, queues and the map: held from its accept, up once, down once, both only while it is
held, let go only after it went down, or with its loop, or silently by the destructor when
the user had shut it down, and not held again. TcpServer
implements it with `held` read off the map and the queues (`Held`).

**Buffer** holds the vector's contents and the two indices. Operators with the functions'
names compute what they do to a buffer; actions apply them. `ByteQueue` is what readers
are promised.

**VitaBoundedBlockingQueue** models producers and consumers in put and take under the
mutex, the two condition variables' waiting sets, spurious wakeups, and capacities as the
constructor takes them: an `int` that is compared with a `size_t` (modulo `SizeModulus`).

**VitaCountDownLatch** has the mutex as a variable and one action per operation on it: the
guard's lock, the test, `pthread_cond_wait` (give up the mutex and sleep in one step, lock
again when woken), the return, and `countDown` with its notification. The count may start
at or fall below zero, as the code lets it. **Latch** is the promise: inside until the
count is down, then out.

**MutexTools** is a program with both, after `md/mutex.md`: producers and consumers wait at
a start latch, then put and take. A step of the one leaves the other alone, except that a
thread enters put or take only after it has passed.

**Logger** has the shared level, the shared result of `localtime`, the clock, and for each
thread its place in a macro: set the level, read it, take the time, write the prefix, write
the message. The text is left out.

## Runs

| run | question | instance |
|---|---|---|
| `event_loop` | no functor and no quit is slept on; the loop is a task queue; nothing starves | 3 functors, 2 callers, 2 channels |
| `event_loop_thread` | startLoop and the destructor's join | 1 functor, 1 channel |
| `event_loop_thread_lost_quit` | does a destructor's quit always end the thread? no | no channel |
| `epoll_poller` | channels, map and epoll set agree; nobody is starved by the event list | 2 channels, 2 descriptors, one kind of event beside HUP, event list of 1 at first |
| `tcp_connection` | stream, EPOLLOUT, high water, FIN, DOWN; ends are seen, FIN and data get out | 3 bytes in sends of up to 2, send buffer 1, mark 1, 1 other thread |
| `tcp_connection_late_send` | does a closed connection give up writing? no | 2 bytes |
| `tcp_connection_lost_send` | is everything sent before shutdown written before the FIN? no | 3 bytes |
| `tcp_connection_freed` | does every queued call keep its connection? no | 1 byte |
| `tcp_server` | connections are shared out, held, reported, removed and freed; a server implements ConnectionLife; the destructor | 0, 1 or 2 io loops, 3 connections, 2 descriptors, one connection in `kDisconnecting` at a time, start() by either thread |
| `mutex_tools` | queue and latch strand and deadlock nobody; the latch implements Latch | 2 producers, 2 consumers, 3 products, capacities 2, 1, 0, -1; count 1, 2 threads that count down |
| `buffer` | indices, memory, queue | 2 reserved bytes, initial size 2, extrabuf 2, up to 5 readable bytes of 2 values |
| `logger` | does each message stand behind its own level and time? no | 2 threads, 2 lines, 1 tick |

Why the bounds are enough to meet the interesting cases:

- `event_loop`: two callers race each other and the loop between append and wakeup; three
  functors fill a batch and a queue behind it at once; two channels and the eventfd are
  dispatched in any order.
- `epoll_poller`: an event list of one with two ready descriptors overflows and has to
  double; two channels on two descriptors reuse each other's, and one is removed, closed and
  opened again while the other is on the active list. A second kind of event changes
  nothing in what is compared (with in and out the same invariants hold in 751,972 states);
  the proofs are for any set of events.
- `tcp_connection`: with a send buffer of one byte, a send of two is written in part,
  a third byte queues behind the rest, and a mark of one is met exactly, passed, left and
  met again. (That several texts together reach a mark of two takes more bytes than the
  liveness properties allow in a run; `MarkReported` is proved for every mark.) One
  other thread is enough for every race with the loop, since the loop runs one functor at
  a time and threads share only `state_` and the queue.
- `tcp_server`: three connections go once around two loops and start again, with two
  descriptors the third has to wait until an earlier one has been freed, and two loops are
  joined one after the other while the second still closes connections. `MaxShut` bounds
  the connections that are in `kDisconnecting` at a time: what becomes of one does not
  depend on another's state. Zero loops takes every `runInLoop` of the server to be a
  direct call.
- `mutex_tools`: four threads wait at the latch, so that the notification finds several
  of them between test and sleep, asleep, and gone; a count of 1 and two calls of
  countDown open the latch and take the count below zero. At the queue both kinds can wait
  in pairs, so that one notification for two waiters would show; capacity 2 separates `1` from `capacity - 1`, capacity 1 makes
  them meet zero, 0 and -1 are the boundaries of the conversion.
- `buffer`: reserved bytes, initial size, extrabuf and data are all of sizes that the four
  cases of `makeSpace` and `readFd` (fits, moves, grows, overflows into extrabuf) meet,
  overlapping moves included. The bounds `MaxReadable` and `MaxAppend` limit callers only;
  the proofs do not use them.

`TypeOK` of EventLoop, EPollPoller, VitaBoundedBlockingQueue and VitaCountDownLatch is
proved for every instance, so no run checks it again.

Deadlock is checked in `event_loop`, `epoll_poller`, `mutex_tools` and `buffer`. It is not
in the others, which come to rest: a destroyed owner and an ended thread, a connection that
is freed and whose peer is gone, a process that has exited.

### Fairness

- A thread that has begun an operation of the library goes on (`WF` of the loop's own
  steps, of a caller's wakeup, of the steps of startLoop and of the destructor): the
  threads are kernel threads, and no lock is held over user code. User code returns.
- Nothing assumes that a caller calls, that a descriptor becomes ready, or that
  `epoll_wait` times out after ten seconds. `ImplementsProgress` alone takes the timeout
  as its premise, for the functors that nothing wakes the loop for (see below), and
  `event_loop_thread_lost_quit` grants it to show that it does not help.
- TcpConnection takes its loop at TaskQueue's level, where a turn is a functor or an
  event; a functor that stays queued and an event that keeps coming back get their turn
  (`SF`). That is what `FunctorRuns` and `ReadyChannelHandled` establish of EventLoop. An
  open peer reads; nothing else is assumed of it.
- TcpServer: a loop that can take a step takes one, a thread of the pool enters its loop
  in the end, and so do the thread in start() and the one in the destructor. Nobody has to
  start, quit, shut down or destroy anything, no peer has to connect or end. A poll reports all that is ready, so weak fairness is enough.
- EPollPoller: the thread of a loop that has been entered goes on (`WF` of `LoopStep`:
  poll, dispatch, functors, next turn) until somebody quits it; the kernel may choose any of
  the ready descriptors, always the same ones if it likes.
- MutexTools: every thread that can go on in wait, countDown, put or take does, and
  consumers go on taking; nothing says which of several threads gets a mutex, nor that a
  producer puts.

### What the violated runs show

1. `loop()` begins with `quit_ = false` (`EventLoop.cc:80`). A quit between startLoop's
   return and that line is lost, and `~EventLoopThread` joins for ever.
2. `sendInLoop` in `kDisconnected` logs that it gives up and goes on
   (`TcpConnection.cc:83`): the closed channel comes back into the poller.
3. `shutdown()` stores `kDisconnecting` at once while sends that were queued before it
   still wait; `handleWrite` then sends the FIN first (`TcpConnection.cc:219`).
4. `send` and `shutdown` from another thread queue a call bound to the raw `this`
   (`TcpConnection.cc:69`, `:145`). The peer closes, both hops of the removal run, the last
   `shared_ptr` goes, and the call is still in the loop's queue.
   (`send` also binds `buf.c_str()`, which dangles when the caller's string is gone: with
   `CallerKeepsText = FALSE`, as in `tcp_connection_late_send`, its text may be garbage.)
5. A log macro sets the level of the one Logger and `log` reads it back later
   (`Logger.cc:16`, `:23`), nothing is locked: a message gets another thread's level, or the
   pieces of two lines mix. That `localtime`'s one result may be another line's by the time it
   is formatted (`Timestamp.cc:21`) is in the model, but not in the trace.

Seen while modelling, and built into the models, without a run of their own:

- A functor that the loop's own thread queues before `loop()` gets no wakeup
  (`EventLoop.cc:151`), so it waits for the first `epoll_wait` to return, up to ten
  seconds. `NoStrandedFunctor` and `FunctorRuns` except such functors (`early`);
  `ImplementsProgress` shows that with the timeout they run.
- `quit()` stores the flag and then uses the loop for its wakeup (`EventLoop.cc:119`). The
  loop's thread can see the flag, return and destroy the loop in between: EventLoopThread's
  `OwnerWakes` takes the outcomes, and `DestructorJoins` allows the crash.
- If the loop's own code quits it before the owner of a starting thread is scheduled,
  `loop_` is null again and `startLoop` waits for ever (`EventLoopThread.cc:32`). This is
  the exception in `StartLoopReturns`.
- `connectDestroyed` reports the end only in `kConnected`; a connection the server ends
  while it is `kDisconnecting` is destroyed without a DOWN (`TcpConnection.cc:170`). This
  is an exception in `EndReportedOnce`, `EndReported` and ConnectionLife.
- A late send (the second above) is the exception in `EndReportedOnce`'s "not twice".
- The first, the lost quit, is also the exception in `ServerDestructorReturns`: a thread of
  the pool that is told to stop before it has entered `loop()` is joined for ever
  (`QuitLost`).
- A `loop()` that returns leaves what is in `pendingFunctors_` there. `~TcpServer` queues
  `connectDestroyed` on each io loop and then quits the loops; a loop in its last batch
  ends without it, and the user hears nothing of that connection's end. This is the
  other exception in `EndReported`.
- `md/mutex.md:118` has `getCount` return the number of members that are not done;
  `countDown` goes on below zero, and `getCount` is then negative. Waiters are not affected
  (`ImplementsLatch` includes such counts).
- A capacity that is not positive: `put` compares it as a `size_t`, so -1 never fills and 0
  lets nobody put. `NoDeadlock` excepts 0.

## Proofs

Each `...Proofs` module is checked by tlapm to the last leaf. The constants are arbitrary
but for the module's `ASSUME`: sets of threads, functors, channels and descriptors of any
size, any sizes of the buffer, any capacity.

- **EventLoopProofs**: `Typing` (TypeOK); `NoWakeupLost` and `QuitWakesLoop`, the two
  wakeup invariants, which with TypeOK are inductive together (`NoStrandedFunctor` leaves
  out the phases between the poll and the swap: there a functor may be queued without a
  wakeup, since the swap that follows takes it); `LoopImplementsTaskQueue`, that every step
  of the loop is a step of TaskQueue or a stutter, where the queue is the rest of the batch
  followed by `pendingFunctors_`.
- **EventLoopThreadProofs**: `ThreadTyping`, `MembersKept`, `ReadyLoopReturned`, and the
  theorems about the loop for a loop that its thread constructs and destroys:
  `ThreadLosesNoWakeup`, `ThreadImplementsTaskQueue`. The second group needs no new
  induction: every step of the program is a step of EventLoop, none of it, or the wakeup of
  a loop that is gone (`LoopFrame`), and the last only consumes a wakeup that was owed to
  nobody. The invariant of the handshake says who may end the loop: as long as its own code
  does not quit it, only the destructor does, so `loop_` stays set while the owner uses it
  and the destructor's unlocked read finds it.
- **EPollPollerProofs**: `Typing`, `RecordsAgree` (`index_`, the map and the epoll set are
  one fact) and `NoDanglingDispatch` (every channel on the active list is alive). They
  strengthen each other: what the epoll set points to is alive and `kAdded`; an active
  channel is not `kNew`; a channel goes only when it is `kNew` and in no queue; and
  (`TurnsInOrder`) as long as there is an active list the thread is dispatching it and no
  batch runs, so nothing takes a listed channel back to `kNew`. `ClosedIsNew` says how
  `Close` leaves a channel for the next `Open`.
- **TcpConnectionProofs**: `Typing`, `StreamKept`, `WatchesRightly`, `MarkReported`,
  `EndOnce` and `FinAfterBuffer`, for any senders, any sizes and marks, and whether or not a
  caller's text outlives its queued call. `MarkReported` counts: told exactly once while the
  buffer is at the mark, and not at all below. `StreamIntact` and `HighWaterTold` are inductive
  with TypeOK. The others need to know where the connection is in its life (`Phases`):
  before connectEstablished, which leads the queue and is there once, nothing has happened
  (`Unborn`), after it it is not queued again (`Born`); a connection that is down stays
  down, and has no event that could close it a second time unless a late send brought its
  channel back (`DownForGood`, whose exception is the second of the code's faults above);
  connectDestroyed takes nothing silently but what shutdown() had begun to close
  (`RemovedIsDown`).
- **TcpServerProofs**: `Typing`, `DealtEvenly`, `PointersGood`, `EndsReported`,
  `NoCallToEndedLoop` and `ServerImplementsConnectionLife`, for any number of loops,
  connections, descriptors and calls of start(). One inductive invariant carries all six:
  - `Staged`: each connection is waiting for connectEstablished, up (perhaps shut down),
    down, or removed (silently only in `kDisconnecting`), and
    its state, its channel's place, its counts of callbacks, its entry in the map and its
    calls in the loops' queues say the same. `LeavesOnce` (out of the map by the second hop
    or by the destructor, never by both) is what keeps a second connectDestroyed away.
  - `LinesInOrder`: in the calls that a loop still has to run, none is there twice, and a
    connection's connectEstablished stands before its connectDestroyed. Without the order
    the second could run on a connection that has never been up and come out of the poller
    as `kNew`; the destructor can queue it while the first still waits.
  - `Dealt`: the loops up to `next_` have had one connection more than those behind it.
    This makes `Balanced` inductive, and needs `StartedFirst`: start() has filled the pool
    before it queues listen, so no connection is dealt over half a pool.
  - `EndsInOrder`: the destructor's members go in their order, the connections before the
    pool, the pool's threads after the base loop.
  Each step touches one connection at most (`EffectStep`: it is calm, or listens, or
  accepts, or establishes, shuts, closes, unmaps, destroys or ends one). The stages, the shares
  and the refinement are then proved for these few effects instead of for every action.
- **VitaCountDownLatchProofs**: `Typing`, `NobodyLeftAsleep` and `LatchImplemented` (safety),
  for any threads and any count, under `LatchAssumption` (waiters and counters differ). What
  makes it inductive is mutual exclusion: only the thread that holds the mutex is between
  its test and its sleep, so no notification falls in between.
- **MutexToolsProofs**: first VitaBoundedBlockingQueue by itself: `Typing`, `NoLostNotify`
  and `DeadlockFree`. If some producer waits, the queue was full when it began to wait, and
  every step that leaves that size notifies all of them, so the queue is still full;
  likewise for consumers and empty. Both cannot be unless the capacity is zero. Then the
  program with both tools: every step of it is a step of one tool that leaves the other
  alone (`StepsOfTools`), so the theorems about the tools hold in it: `NobodyStranded`,
  `ToolsDeadlockFree`, `NobodyHeldBack`, and `LatchKept`, that its start latch implements
  Latch's safety part.
- **BufferProofs**: `Typing`, `MemoryBound` and `Refinement`, that Buffer implements
  ByteQueue, from lemmas on what overwriting, resizing and slicing do to a sequence and one
  lemma per function on the content it leaves. `MemoryBound` needs the history variable
  `peak`: the vector grows only when the free parts are less than what is asked for, so
  twice the demand at that moment bounds it.

So every invariant and every action property that a passing run checks, and every safety
refinement, is a theorem. Only model-checked are the liveness properties
(`FunctorRuns`, `ReadyChannelHandled`, `StartLoopReturns`, `DestructorJoins`,
`EveryReadyReported`, `EndIsSeen`, `ShutdownSendsFin`, `OutputDrains`, `PeerEndFrees`,
`BacklogAccepted`, `ServerDestructorReturns`, `BothSidesProceed`), `ImplementsProgress`, and
of `ImplementsLatch` the fairness (`LatchKept` is the rest): temporal reasoning with fairness
and `ENABLED` is beyond the prover. The Logger's one run is violated, so nothing of it is
proved.

## Not modelled

- InetAddress, CurrentThread, the formatting of names and log lines, socket options, the
  example program, build files, and the `.cpp` twins. CurrentThread caches a thread's id;
  the models use the thread itself.
- `getAllLoops`, `getCount`, `getSize` and `getCapacity`, which only read.
- The kernel's limit on a backlog (1024), and peers it refuses.
- A TcpServer that dies before its base loop, or in a handler of it: `removeConnection` is bound to a raw `this`
  and would then run on a destroyed map.
- Failures of the system calls that end the process (`LOG_FATAL`) and of memory.
- The C++ memory model below sequential consistency: `quit_`, `state_` and
  `callingPendingFunctors_` are atomics there; the unlocked read of `loop_` is a data race
  and is modelled as a read of the old or the new value.

## Plan

1. Lemmas towards the liveness properties that are themselves invariants: at any moment
   some thread of the destructor, of startLoop or of the queue can go on.
2. Theorems about what the violated runs leave true: e.g. that without a late send no
   channel of a closed connection is in the poller, and that without a shutdown from
   another thread nothing that was sent is behind the FIN.
3. Hazards without a property: a TcpServer that dies before its base loop, and the names
   of connections after 2^31 of them.
