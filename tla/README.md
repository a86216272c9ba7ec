# athena_new in TLA+

athena_new is a small C++ game-server engine: a libuv reactor with length-framed
connections (`src/engine/transport`), the containers it is built from
(`src/engine/common`), a dispatcher (`src/engine/network`), and three programs
that use them: `src/game`, `src/gateway` and `src/client`. This directory holds
TLA+ models of its core, TLC configurations that check them on small instances,
and TLAPS proofs that carry the main invariants to every instance.

`PROJECT.json` lists every component, run, mutant, hazard, finding and theorem,
and maps each definition to the lines it stands for. Check a run with
`tlc -config RingCopy.cfg MCRingByteBuf`, a proof with
`tlapm RingByteBufProofs.tla`. All paths below are relative to `src/`.

## 1. Inventory

| Component | State | Operations | What makes it right |
|---|---|---|---|
| `RingByteBuf` (engine/common) | `buf_`, atomic `head_` and `tail_`, `read_mtx_`, `write_mtx_` | tryWrite, write at an index, read, peek, linearReadablePtr + consume, increase, clear, readableBytes | a FIFO of bytes; the two sides never copy the same slot; clear and increase disturb nobody |
| `ByteBuffer` | one ring of 512 bytes | writeInt32, writeBytes, readBytes, getNextPackLen | big-endian framing, complete packets only |
| `Channel` (engine/transport) | a sending and a receiving ring, the libuv handle | sendMsg (two), onRead, getPack, eventLoopDoSend, close | messages arrive whole, once and in order; silence after a close |
| `EventLoop` | `_waitTasks`, three `uv_async_t`, a uv loop and its thread | push, async_*_task, execute, run, read/connect/timer callbacks | no wake-up is lost |
| `ObjectPool` (engine/common) | Treiber stack `_head`, `_nodePool`, `_freeCount` | acquire, acquirePtr, release, reserve | no object in two hands; the counter bounds the pool |
| `ThreadPool`, `Worker`, `TQueue` | one queue per worker, `_isrun` | create, execute, thread_func, stop, exit | every task runs once, in the order it was queued |
| `Dispatcher` and the game's handlers | a map from message id to handler | registerMsgHandler, onMsg, the handlers | replies in request order, messages exclusive to their handler |
| `IdleStateHandler` | two limits, the channel's timer and its two clocks | onTimer, startHeartbeatTimer | a connection in use is never called idle, a dead one is |
| `AthenaTcpServer`, `TcpClient` | main loop, `next_reactor`, the temporary handle of each accepted socket | bind, start, onAccept, asyncAccept, asyncConnect | the reactor's descriptor stays open as long as its handle |
| Sessions of gateway and game | handshake, heartbeat and login messages | the network and system handlers of both sides | requests are answered under the id the other side expects; silence provokes heartbeats |
| `Timer`, `Heap` (engine/common) | a binary heap of linked nodes, `m_time` and `m_repeat` of each timer | start, stop, update, the destructor | the heap stays a tree in order; timers fire at their time and in turn, a stopped one never |
| `RingBuffer.hpp`, `Disrupter.hpp` | a ring with a free slot; a sequence counter | push, pop, peek | bounded queues |
| database layer, IDL compiler, JSON, Lua, HTTP, utilities | | | see section 8 |

How they interact. A producer thread calls `Channel::sendMsg`, which pushes a
closure on the channel's `EventLoop` and sends to an async handle. The loop
thread runs the closure: it frames the message into the sending ring and gives
the ring's memory to `uv_write`. The read callback collects bytes in the
receiving ring and hands complete packets to `onMsg`, which parses them into
objects of an `ObjectPool` and queues a task on a `Worker`; the worker runs the
handler, whose reply goes back to the loop through `sendMsg`, and returns the
object to the pool. Several loops (the game starts three) share the pools and
the workers.

What is hard: the ring's readers and writers hold different mutexes; the stack
of the pool is lock-free; sends to an async handle coalesce; TCP cuts the stream
anywhere; libuv reads memory after the call that named it; replies cross two
queues; an accepted descriptor has two handles on two loops; an idle time is
compared only every five seconds, with a clock the other side's answers move.
Nothing is persisted, so there is no crash recovery, and the transport has no
retry; a peer that stops is noticed only through the idle times.

## 2. The modules

| Module | Models |
|---|---|
| `RingByteBuf` | the ring, each call split at its mutexes and its atomic accesses |
| `ByteFifo` | what the ring promises: a bounded FIFO until it is first brimful |
| `RingByteBufProofs`, `RingFifoProofs` | theorems about the ring: who owns what, and which bytes come out |
| `ChannelStream`, `ChannelStreamProofs` | one direction of a connection: framing, uv_write, TCP, read callback; its theorems |
| `EventLoop`, `EventLoopProofs` | the task queue and the wake-ups of one reactor; its theorem |
| `ObjectPool`, `FreeList` | the lock-free pool, and the stack of free objects it promises |
| `ObjectPoolProofs` | theorems about the pool |
| `TimerHeap`, `TimerSet` | the timers over the linked heap, and the set of armed timers they promise |
| `TimerHeapProofs` | theorems about the heap, and that it implements the set |
| `Link`, `LinkProofs` | one connection of the gateway to the game server, from connect and accept to its end; its theorems |
| `RequestPipeline`, `RequestPipelineProofs` | loops, dispatcher, workers and pooled messages together; the theorems |
| `MC...` | the instances TLC checks |

**RingByteBuf.** `Role[p]` says which operations thread p calls; the checks and
the theorems differ only in the roles. A call starts by taking its mutex
(waiting for it is the same as not having called). `writableBytes` loads
`head_`, then `tail_`; `tryWrite` loads `tail_` again before it copies, and its
store of `tail_` publishes. Consume, linearReadablePtr and the loads inside a
call that only the holder of the mutex can change are single steps. A byte is
its position in the order of acceptance, so any loss, repetition or reordering
shows. The history variable `filled` becomes true at the first write into the
last free byte: the code then cannot tell the full ring from the empty one
(finding 1), and the properties of the FIFO are about behaviours before that.

**ChannelStream.** Each ring is used by its loop thread only. The sending ring is
empty between two sends, so one position stands for both indices, but its memory
is kept: `uv_write` refers to it until the socket takes the bytes. The receiving
ring is the sequence of its bytes. A byte carries its message and offset. When a
length field is made of the wrong bytes its value comes from `JunkLen`. `harm`
records what has gone wrong with the bytes: a message longer than the ring
("cut"), one that fills a ring ("brim", "wipe"), a chunk with no room ("drop"),
a waiting write overwritten ("clobber"). `getNextPackLen` reads the length into a
`uint32` and compares it unsigned (ByteBuffer.cpp:27-33), so bytes that would make
a negative int32 are a length larger than the ring, which `JunkLen` includes.

**EventLoop.** `uv_async_t` is the flag that the send sets and the loop clears
before the callback. A send to a handle that is not set up yet is undefined
in libuv; the model lets it wake nobody, and only sends to handles that are set
up count as wake-ups (`woken`). The queue keeps a FIFO per producer and the dequeue looks
at one after another, so it may miss a task pushed behind its back. The raw
pointer `sendMsg` pushes and wakes nobody.

**ObjectPool.** A call is split at its accesses to `_head` and `_freeCount` and
at the read of `head->next`. The ghost `stack` changes only at successful CASes;
`StackSound` says the links agree with it. `_nodePool` is always empty because
`pushNodeToNodePool` has no caller: a node is used once, and that is what keeps
the stack free of the ABA problem (the mutant `PopRecycles` shows what happens
when it is not).

**TimerHeap.** The heap is its record of links: root, count, and left, right and
parent of each node; `Insert`, `Remove` and `Swap` follow Heap.cpp link by link,
`NodeAt` is the walk along the bits of a place, `UpOnce` and `DownOnce` are an
iteration of the two loops that restore the order. The walks take `nelts`
iterations of which the last may do nothing; that the loops have then ended is
proved (`SiftUpDoes`, `SiftDownDoes`). An iteration of `update()` is a
step, and its callback is the interval until `callbackReturns`, in which any
timer may be started, stopped or destroyed. `due` keeps the real time each timer
was armed for; `odd` becomes true when the 32-bit clock makes `m_time` another
one, or 0, which the code takes for "not armed". The promises of times hold
before that; the promises of the tree as long as the program has any: once the
heap holds a freed node (`Intact` is false) what it does is undefined, and the
model takes no more steps. `NoFreedNode` says that this takes a timer armed for a
moment at which the clock is 0. `iclock` is the processor time in milliseconds,
converted from a double to 32 bits; from 2^32 on C++ leaves that conversion open,
and the model wraps it, as the build for x86-64 does.

**Link.** It starts where the other modules stop: how a connection comes to be,
and what keeps it. A message is its kind, a queue is a sequence, and each side is
one loop and one worker, because every request carries the same hash code.
`Connect` to `OnConnectFails` are the closure of asyncConnect and uv_on_connect,
which greets even when the connect failed; `Accept`, `AcceptFails` and
`OpenChannel` are onAccept on the main loop and the closure of asyncAccept on the
reactor. `temp` and `sock` are the temporary handle and the descriptor both
handles share; `TempTimerLoop` is the loop the closing timer is started on, which
is not one of `RunningLoops`. `RunSend`, `Receive` and `Handle` are
eventLoopDoSend, onMsg and the system handlers of both sides. `TimerFires` is the
5-second timer with `Expired`, the comparison of IdleStateHandler, on the
gateway's channel; the game server's timer only logs and is left out with its
clocks. A clock is kept as its age in ticks; before it is set it is either very
old or in the future (`Unset`), since the constructor leaves it uninitialised.
`Close` is Channel::onRead on anything but bytes, which includes an `nread` of 0.
`Cut` resets the connection, `Hang` stops the game server while its kernel still
acknowledges. `Tick` is an idealisation in one point: a timer that is due fires
before time goes on, while libuv's may be late by what its loop is busy with. The
code does nothing more on READ_IDLE than log, and neither does
the model: `alarm` records that it was raised (section 4).

**RequestPipeline.** It uses what the others promise: an object nobody has
(`FreeList`), a loop that runs what it was woken for (`WokenTasksRun`), and one
FIFO per producer in every queue. `WorkerFor` is the constant hash code of
`onMsg` modulo the size of the pool. `Exit` stops the first worker only, as the
exception of its join makes it do; it is an exit whose caller catches that
exception, for out of `~ThreadPool` it would end the process, and no program here
calls exit or destroys its pool. A request is its number, not its bytes: onMsg
gives the parser four stale bytes behind the body (GameServerNetWorkHandler.cpp:34,
42), which the models do not see.

## 3. What each run checks

| Run | Instance | Shows |
|---|---|---|
| `RingCopy` | 2 writers, 2 readers, capacity 4, 9 bytes | bytes once and in order, the write index stable, and each step a step of `ByteFifo` |
| `RingDrain` | a writer with the indexed write and increase, the draining thread with clear, a third that peeks; capacity 4, 9 bytes | no writer in the zero-copy chunk; lengths stay valid; consume never throws; the mutexes are held as they should be; nothing moves under the writer |
| `StreamFits` | 3 messages of four sizes, ring of 8, network of 4, chunks up to 3 | order, wholeness, nothing before a message too long is spoilt, silence after a close, delivery |
| `LoopWakes` | 2 producers, 2 tasks each, three handles | no lost wake-up; woken tasks run |
| `LinkLife` | one connection with every failure, period 2, idle times 2 and 6, delay 3 | the handshake is answered; heartbeats keep an idle connection alive; silence is noticed; the descriptor stays open |
| `PoolShared` | 2 threads, 3 objects, 5 nodes, maximum 1 | sound stack, exclusive objects, counter right at rest, bounded size, refinement of `FreeList` |
| `PipelineOrder` | 2 channels on 2 loops, 2 workers, 2 requests each | reply order, serial handlers, exclusive messages, no leak, an answer for every request that no stopped worker has still queued |
| `TimerOrder` | 6 timers, one of them repeating and destroyed, batches of 2, a clock and times that wrap | a complete tree in order, the one way to a freed node in it, refinement of `TimerSet` |
| `RingBrimLoss`, `StreamDrop`, `StreamClobber`, `PoolDrop` | | the findings below |

Deadlock checking is off for the stream, loop, pool, timer and pipeline runs:
there the system may simply stop, when nobody sends and everything is drained.
Link has a clock, and never may. In the timer run it stops after an undefined step.

**Bounds.** The ring's hazards are about wrapping, about a write meeting a read,
and about being full; capacity 4 with lengths 1 to 3 and nine bytes wraps twice
and reaches every fill level. RingDrain has a VIEW, `Control`: the bytes in the
ring and the bytes handed out are left out of the fingerprint, because no guard
and no property of that run reads them. In LinkLife a tick is half a period, which
keeps the proportions of the code: limits of 5 and 15 seconds (main.cpp:50 of the
gateway) against a timer of 5. `MaxDelay`, the ticks that work in flight may
take, is one less than two periods; at two periods the read limit is reached by a
healthy connection, so the bound is the exact one. `MaxAge` is one more than the
larger limit, and an age beyond it decides nothing. The stream's sizes are
scaled so that a header is half a ring, a message may fit, fill or exceed it, a
chunk may end anywhere, and the bytes still pending may exceed a whole ring;
three messages are enough for one to be overwritten by the second after it, and
for one to be still under way when the next is too long. A stale link
needs one thread stalled in a pop and another that pops two objects and pushes
one; an overshoot needs both threads past the test. A lost wake-up needs a task
behind one being drained. The walk up after a removal matters from
six nodes on, with two levels of times: six timers whose times are 0, 1, 2 and
the wrap to 0, and a clock that gets there itself; all but the repeating one are
interchangeable (symmetry).

**Fairness.** Weak fairness on the loop's steps and on the send that follows a
push (threads keep running), on reading and draining (libuv polls, TCP delivers),
and on each worker (it polls its queue every millisecond) and each loop's
replies. In Link also on the timer, which nothing stops, and on time. Nothing
obliges anybody to call, to close, to fail or to exit.

## 4. Findings

1. `RingBrimLoss`: a write that fills the ring to its capacity is accepted and
   makes every byte in it unreadable (RingByteBuf.cpp:54, 62; RingByteBuf.h:51).
2. `StreamDrop`: a chunk with no room is dropped silently and the framing is lost
   (Channel.cpp:12; EventLoop.cpp:52).
3. `StreamClobber`: the region given to `uv_write` is consumed at once and may be
   overwritten while it is pending (Channel.cpp:67; RingByteBuf.h:77-78).
   `RecentWritesIntact` says how much of it is safe: the last ring of bytes.
4. `PoolDrop`: the free counter wraps below zero and releases drop their objects
   from an almost empty pool (ObjectPool.hpp:109, 144; the message of line 145).

Two more are seen in the models without a run of their own. A body with no room in
the sending ring is refused after its length was sent (Channel.cpp:58): the peer
waits for it, swallows the messages after it until its own ring overflows, and is
out of step; `EarlierMessagesUnspoilt` says what is still right. And "this should be
closed", but nothing closes a channel on which READ_IDLE was raised: the gateway
keeps a connection whose peer fell silent, and sends heartbeats to it
(GateClientNetWorkHandler.cpp:60-63); `SilenceNoticed` ends where the code does.

`increase()` moves the write index under the readers' mutex (RingByteBuf.cpp:176),
which is sound only for the one writing thread itself: the runs and theorems give
it to no other, and nothing in the code calls it.

## 5. What is proved

All proofs hold for every value of the constants that the module's ASSUME
allows, with no bound on behaviours other than the named ones.

- `TypeCorrect` (RingByteBuf): the type invariant, by one lemma per group of
  actions, over lemmas on the index arithmetic.
- `MutualExclusion`: `OneOwnerPerSide`, with any roles, from the type invariant.
- `CopiesApart`, `LengthsHold` and `ConsumeIsSafe`: before the ring is first
  brimful, no slot is written while it is read, lengths stay valid and consume
  never throws. They assume `FifoUse`: no thread calls increase, clear or the indexed write, and
  whoever drains through linearReadablePtr is the only reader. The properties
  are not inductive: the invariant `IInv` adds, for each place in a call, what
  the thread's copies of the indices and lengths still mean although the other
  side has moved on: a writer's room can only have grown, a reader's bytes can
  only have become more. That is why separate mutexes are enough.
- `WakeupsKept` (EventLoop): `NoLostWakeup`, inductive together with the types
  (`LoopTypes`) and with "a producer is woken for no more than it pushed".
- `StackIsSound`, `ObjectsHandedOutOnce`, `PoolImplementsStack` (ObjectPool): the
  links are the stack, no object is in two hands, and the pool refines
  `FreeList`; also `PoolTypeCorrect`. The invariant is the absence of ABA. A node
  enters the stack at most once (`NodesOnce`: no node is spare, stacked twice, or
  in a push and in anybody else's hands), so the link a pop has read is still the
  node's link when its CAS succeeds (`LinksFresh`), and an object being released
  stays with its caller until the CAS (`ObjectsOnce`).
- `CounterOnlyLags`, `CounterSettles`, `PoolStaysBounded` (ObjectPool): the free
  counter is the length of the stack, plus the pops whose decrement is due, minus
  the pushes whose increment is due, modulo its width; hence it is right whenever
  nobody is in between, and the pool is larger than its maximum by less than the
  number of threads. The bound assumes `WideCounter`: reserve puts fewer objects
  into the pool than the counter can count, and maximum and threads together are
  no more than that. The counter has 64 bits. A counter that has run below zero is
  then so large that nobody pushes.
- `BytesInOrder`, `WriteIndexStable`, `RingImplementsFifo` (RingFifoProofs): under
  `FifoUse`, the bytes read are the bytes written, the write index is stable, and
  the ring refines `ByteFifo`. `IInv` says where the regions are; `FifoInv` adds
  what is in them: the bytes between the indices are the ones accepted and not
  yet handed out (`Stored`), a finished copy has left the next ones behind them
  (`Pending`), and a writer's index is still the write index (`Writers`), which
  holds even after the ring was brimful. Only four steps move a byte
  (`QuietSteps`); each has its lemma.
- `LinkTypes`, `SocketStays` (Link): the types need to know who sends what
  (`Directions`); the descriptor needs the stations of the accepted socket
  (`Handover`), and that the default loop is not run.
- `InTouch` (Link): `StaysInTouch`, for all timer periods and limits with
  `Timing`: 0 < write limit, delay < 2 periods, and write limit + 2 periods <=
  read limit. The code's 5, 5 and 15 seconds meet it exactly. `Clocks` is the
  invariant: while a request or its answer is in flight the timer has fired at
  most once since it was queued, hence how old each clock can be.

- `PacketsArriveInOrder`, `RecentWritesKept`, `SilenceAfterClose` (ChannelStream), for any
  capacity, bodies, chunks and junk lengths. What the receiving ring, the network and the regions given to `uv_write` hold, laid end
  to end, is a run of packets (`StreamRuns`): each byte is followed by the next of
  its packet or by the first of the next packet, the run starts where the handler
  stopped and ends with the last message sent. Stated for pairs of bytes it needs
  no induction over messages; taking bytes from the front, moving them on, and
  adding a framed message keep it. It holds until `harm` says something was
  exceeded. `PendingBehind` places the regions that wait right behind the write
  position, which is why the last ring of bytes is safe whatever else is
  overwritten (`RegionKept`).
- `RepliesKeepOrder`, `HandlersExclude`, `MessagesExclusive`, `MessagesReturned`
  (RequestPipeline), for any channels, loops, workers and requests. Since `onMsg`
  passes one hash code for all tasks, one worker has all of them (`SoleWorker`),
  and the rest follows: along the queue, the job, the inbox of the loop and the
  bytes written, a channel's requests stay in the order they were read
  (`QueueInLine`, `InboxInLine`, `WrittenInLine`), and each task holds a message
  of its own with its own request in it (`Carried`, `Distinct`).
- `TreeIsComplete`, `RootComesFirst`, `NoneFreed` and `HeapIsSet` (TimerHeap), for
  any timers, timeouts and width of the clock. The invariant `Kept` says that there
  is a tree `T`, a function from places to nodes, that the links spell out
  (`Spells`), in order of `m_time`. Each piece of pointer surgery is a lemma from
  links to trees: exchanging a node with its parent (`SwapSpells`), planting a leaf,
  cutting the last one off, moving it to another place (`PlantSpells`, `CutSpells`,
  `MoveSpells`). `Near` is the order but for one node, which each iteration of a
  walk keeps; the place of that node falls or rises, so the loops end. Timers are in
  the heap while they have an `m_time` (`TimedAreIn`, always), and conversely with
  the time asked for while no `m_time` was odd (`OnTime`), which is what stop(), the
  destructor and the refinement of `TimerSet` need. `Dated` says that an `m_time` in
the heap is always the time asked for modulo the width, and that a destroyed timer
in it has none, hence `NoFreedNode`. Inductions over places and
  iterations are made with the least element of a set (`Counting`, `Climbing`,
  `Iterating`), from the well-foundedness of the natural numbers. Nothing is assumed
  but `TimerAssumption` and what the model says of the callers: nobody starts a
  timer that is in the heap or destroys the one whose callback runs.

## 6. Only model-checked

Liveness under fairness is beyond the prover: `EventuallyHandled`,
`WokenTasksRun`, `EveryRequestAnswered`, `SilenceNoticed`, `HandshakeCompletes`.
`EarlierMessagesUnspoilt` is checked on StreamFits only: the proofs about the
stream's bytes follow it until a length is exceeded, which is where this property
begins. The four findings are counterexamples on instances. Every other property of
a run is also a theorem, the ring's under the assumptions named above.

## 7. Plan

In order of importance, with what is done marked:

1. [done] the ring, its FIFO, type correctness, exclusion and disjoint copies;
2. [done] the stream; 3. [done] the loop and its proof; 4. [done] the pool;
5. [done] the request pipeline composing them;
6. [done] `ObjectPoolProofs`; [done] `TimerHeap` over the set of armed timers;
7. [done] `RingFifoProofs`: the order of the bytes and the refinement of `ByteFifo`;
8. [done] `Link`: connect, accept, handshake, heartbeats, idle times and closing,
   and `LinkProofs`;
9. [done] `CountSettles` and `PoolBounded` as theorems; `ChannelStreamProofs`,
   `RequestPipelineProofs` and `TimerHeapProofs`;
10. the parse length of the two onMsg (they subtract 4 from a length that counts 8
   bytes already skipped), if a document ever says what it should be;
11. several connections of one acceptor, once the reactors share more than a
   counter.

Dropped after reading the code again: `RingBuffer`, `Disruptor` and the database
thread pool, for the reasons below.

## 8. What is not modelled, and why

`RingBuffer` occurs only in commented-out code. The one `Disruptor`, in
common/Dispatcher.cpp, has no caller on either side, and its capacity test
compares a counter with itself. `DBThread::onStart` calls `connect()` on `m_db`,
which is always null (the lines that would set it are commented out), so no task
of the database thread pool ever runs; a model of its queues would be about a
program that does not get there. The client program calls `newParam()`
without the arguments that Dispatcher.h asks for and does not compile against it;
the gateway's own server side is not started by its `main`. The game answers a
login under an id for which the gateway registers no handler, so the login ends
there. `bind`, and the choice of a reactor by a counter, are left out of Link,
which has one connection.

The database interfaces, the HTTP parser, the Lua glue, files, digests, strings
and logging are input, output, pure conversion or vendored code. The IDL
compiler and the JSON reader run offline or on whole texts, with no state worth
a state machine. `Player` and `PlayerMgr` have no caller yet. The start-up race
of `Worker` (its thread starts before its members exist) depends on a 10 ms
sleep and is left as a hazard, as is `executeTask`, which nobody calls.
