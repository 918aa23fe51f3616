# TLA+ specifications of rmuduo

rmuduo is a C++ network library in the style of muduo (`src/net`): event loops,
one per thread, that dispatch the events of their file descriptors and run the
functors other threads hand to them. On top of it stand an HTTP server
(`src/http`, `src/api`), an RTMP server (`src/rtmp`) and a login service
(`src/auth`). These modules model the library and the servers on it, model-check
them with TLC and prove the safety properties that hold, all but two, with TLAPS.
`PROJECT.json` lists the runs, the mutants that show each property to be sensitive to the code, the map from definitions to source
lines, the findings, the hazards and the theorems.

## Inventory

| Part | State | Operations | Interacts with | What makes it correct |
|---|---|---|---|---|
| `EventLoop` | phase of `loop()`, `quit_`, `callingPendingFunctors_`, `pendingFunctors_`, eventfd | `loop`, `quit`, `runInLoop`, `queueInLoop`, `wakeup`, `handleRead`, `doPendingFunctors` | poller, every other thread | no functor lost, repeated, reordered or left sleeping; no starvation |
| `Channel`, `EPollPoller` | `events_`, `revents_`, `index_`, the epoll set | enable/disable, `update`, `remove`, `handleEvent`, `poll` | loop, owner of the channel | what epoll watches is what `events_` says; no event for a destroyed owner |
| `TimerQueue`, `Timer` | `timers_`, `activeTimers_`, `cancelingTimers_`, timerfd | `addTimer`, `cancel`, `handleRead`, `reset` | loop, user callbacks, clocks | both sets agree; armed whenever a timer waits; cancel holds; timers fire |
| `Buffer` | vector, reader and writer index | `append`, `retrieve`, `readFd`, `makeSpace` | connection | a FIFO of bytes, never outside the vector |
| `TcpConnection` | `state_`, channel, `outputBuffer_` | `send`, `shutdown`, `handleRead/Write/Close/Error`, `connectEstablished`, `connectDestroyed` | I/O loop, server, user threads, peer | bytes in order; up once, down once; destroyed when the peer is gone; shutdown after the last byte |
| `TcpServer` | `connections_` | `newConnection`, `removeConnection(InLoop)`, destructor | acceptor, pool, connections | every accepted connection leaves the map and is destroyed |
| `Acceptor` | listening socket, reserve descriptor | `listen`, `handleRead` | base loop, server | survives running out of descriptors |
| `EventLoopThread(Pool)`, `Thread`, `CountDownLatch` | `loop_` under a mutex, `next_` | `startLoop`, `threadFunc`, `start`, `getNextLoop` | server | a loop handed out is constructed and its own; round robin; the start-up ends |
| RTMP registry (`RtmpServer`, `RtmpSession`, `RtmpSessionManager`) | `sessions_`, `publisher_`, `players_`, caches | publish, play, deleteStream, media, clean-up | RTMP connections on several loops | one publisher per stream; no stale reference; a session that is used is in the map |
| RTMP connection | handshake, chunk parser, role, stream id and name | `onMessage` and the command handlers | registry | commands in order; no state left after a close |
| RTMP chunk stream, handshake | per chunk stream: header, partial message | `parse`, `EncodeMessage`, `process` | buffer | the messages parsed do not depend on how the input is cut; nothing complete stays unparsed |
| AMF0 | none | encode, decode | RTMP connection | decode inverts encode, a cut payload is refused |
| HTTP | parser state, request | `parseRequest`, `onMessage`, `reset` | connection, router | the requests parsed do not depend on how the input is cut; answers in order |
| Router, login handlers | routes | `route` and the five handlers of `login_server` | HTTP, auth | every request is answered |
| auth | tokens, tickets, users under mutexes | login, verify, logout, tickets, expiry | HTTP and RTMP servers, wall clock | expired or removed means refused for ever; a ticket is good for its stream and use only |

What is hard here: functors race with the phases of a loop; a connection is
shared by its I/O loop, the base loop and any other thread, and closing it
crosses both loops; peers close and reset at any moment, writes are partial;
timers are cancelled from callbacks of the same round and their addresses are
reused; sessions are used on several loops, only partly under a mutex; TCP cuts
the input of both protocols anywhere while the parsers keep half of a message.

## Modules

`TaskQueue` (abstract) and `EventLoop`. `TaskQueue` is what the callers of
`queueInLoop` rely on: functors run one at a time, each once, in order.
`EventLoop` has an action for each critical section, system call or store of
`EventLoop.cc`: `QueueInLoop` is the push under the mutex and `Notify` what
follows it (the test of `isInLoopThread` and the flag, and the write to the
eventfd); `StartLoop`, `TestQuit`, `PollReady`/`PollTimeout`, `HandleWakeup`,
`HandleEvent`, `BeginFunctors`, `SwapFunctors`, `RunFunctor`, `EndFunctors` are
the phases of `loop()` and `doPendingFunctors()`. `Quit` stores `false`, as the code
does. `user` is true whenever the
owning thread is in code of the user, which may itself queue functors.
Refinement: `queue <- functors \o pending`.

`TcpConnection` models one connection from `TcpServer::newConnection` to its
destructor. A loop is the task queue that `EventLoop` was shown to implement, so
it is a sequence of functors here. `ioLoop` is the loop `getNextLoop()` picked, the
base loop itself in a server without a thread pool. The callbacks of one epoll report (`todo`) are separate
actions in the order of `Channel::handleEventWithGuard`, with user code between
them. `out` and `wire` are sequences of bytes tagged with message and position.
`Alive` says who owns a `TcpConnectionPtr`; when nobody does, the connection is
`Destroyed`. Other threads run `send` and `shutdown` in the steps the code
takes (test, set, queue), and their store may also fall between the test and the
store of `connectDestroyed` (`StoresLost`). The peer, epoll's report and the outcome of `write` are
external and nondeterministic. Both optional callbacks (`writeComplete`,
`highWaterMark`) are taken to be set. User code in the down callback is left
out: there `send` and `shutdown` do nothing.

`TimerService` (abstract) and `TimerQueue`. `TimerService` is what the users of
`runAt`, `runAfter`, `runEvery` and `cancel` rely on: timers are known by their
sequence numbers, those whose time has come are called once per round in the order
in which they were due, one with an interval waits again, and a cancel stops the
timer of its number and no other. A cancel that overtakes its timer on the way to
the loop does nothing, as in the code. `TimerQueue` keeps `Timer` objects at heap addresses that are reused, the two
sets over them, the timerfd (monotonic) and a wall clock that is off by `skew`
and may be set. `HandleRead`, `RunTimer` and `Reset` are the three parts of
`handleRead`; user callbacks add and cancel between them. Other threads go
through the loop's queue. In `RemoteReturns` the sequence number is read from
the address after the hand-over, as the code does; freed memory reads as 0.
Refinement: each abstract set of timers is what is at the addresses of the
corresponding set of pointers.

`ByteQueue` (abstract) and `Buffer`. `Buffer` keeps the vector and both
indices; `MakeSpace`, `EnsureWritableBytes`, `AppendTo` and `Filled` are the
functions of `Buffer.cc` on a buffer as a value, so that `readFd` can call
`append` half-way. `given` is what the last call put in, so that the abstract queue
must take exactly those bytes. Refinement: `data <- Readable`.

`RtmpSessions` models `RtmpServer`'s registry, `RtmpSession` and the command
handlers of `RtmpConnection`. `ctx` is the `RtmpConnectionContext`, `sessions` the
map, `obj` the session objects: one `Exists` while the map or a handler at work
has it, and contexts refer to it weakly. A loop handles one message at a time
(`busy`); a handler is cut where it releases `mutex_` and between the test and
the assignment of `setPublisher`, `addPlayer` and the replay, the caching and the
broadcast, the two halves of `cleanupConnection`, so that handlers of several loops
interleave there. Every message a handler refuses before it has changed anything
is `Refused`; a `publish` or `play` refused after it has overwritten the stream
name is `StreamRefused`. A refusal is followed by `shutdown()` (`closing`), after
which messages are still handled, as in the code. Stream ids are reduced to
whether there is one, media messages to sender, number and kind. `strayed` records
who gave a `connect`, `publish` or `play` without leaving its stream first.

`RtmpChunks` models the input side of an RTMP connection: `process` is the
handshake (by the sizes of its packets), `parseOneChunk` one turn of the loop of
`RtmpChunkParser::parse`, `onMessage` a read of any number of bytes up to the
parser, and `handleMessage` one turn of the loop over the messages parsed. In
`refuseMessage` a handler refuses a message: `onMessage` returns at once, the rest of the
batch is lost, and since `RtmpServer` only closes the write side, later reads are parsed as
before. The stream is a sequence of chunks (`net`), of which the first `arrived` bytes are in
`inputBuffer_`: basic headers keep their bytes, the other fields their sizes,
payloads are sequences of tagged bytes. The peer (external) starts and continues
messages on several chunk streams, in any format the state of the stream allows,
changes the chunk size, may begin a chunk stream with a continuation, and may be
this library's own `RtmpChunkWriter` (`EncodeMessage`). `sent` is what it sent, `past` what left the parser, of which the messages at the places
in `dropped` were lost behind a refused one. `drifted` marks the chunk streams whose
timestamp had a delta added twice or not at all; `resized` says that the last call changed
the chunk size with bytes left unparsed, `stale` that the latest Set Chunk Size was lost.
When the parser leaves the chunk boundaries the behaviour ends, in `lateSize`,
`staleSize`, `noExt` or `other`, named for the cause; it also ends when the parser refuses
a chunk.
`fmt3_without_extra_header`, `ReusesHeader` and `ChunkPayload` are the conditions
of the source of those names or lines.

`Amf0` is the codec of the payloads as functions on sequences of bytes, with the
16-bit lengths (`LengthMod`); a double keeps only its last byte. It is recursive,
so only the MC module extends it.

The login server is built up by extension. `EventLoopThreadPool` is the start-up:
`StartThread`, `LatchWait` and `LoopWait` are the three steps of the main thread in
`startLoop`, `CountDown`, `BuildLoop`, `Publish` and `EnterLoop` those of a new thread,
which calls `loop()` only after it has let go of the mutex, and a
waiting main thread wakes up when it is notified or for no reason
(`SpuriousWakeup`). `getNextLoop` is the round robin. `Acceptor` adds the backlog,
the free descriptors and the reserve: `handleRead` accepts, or at EMFILE closes the
reserve (`OutOfDescriptors`) and, when other loops may have closed connections, opens it
again (`Reopen`). In between, line 67 closes the number of the reserve a second time; it
finds nothing, because in this server no other thread opens descriptors. `"dev/null"` is a relative name, so that the reserve can be opened
again only if the process runs in `/` (`inRoot`). `AuthService` holds tokens and
tickets: each critical section of `TokenManager` and `RtmpTicketManager` is one
operator; `SetClock` sets the wall clock. `HttpServer` has, per connection, the bytes
on the way (`wire`), those in the input buffer (`buf`), in parts of a request
(request line, headers, body), the state of `HttpContext`, and the answers;
`onMessage` is a read of the next `k` parts followed by one request at most, and the
handlers of `login_server` (`login`, `me`, `logout`, `ticket`, `health`, `notFound`).
`ticket` takes two locks one after the other, so it is two actions (`ticket`,
`finishTicket`) and its loop is `busy` in between. `LoginServer` composes them: the
actions of the parts, clients that follow one of several scripts (`script`) and close
when they like, those in `patient` sending a request only after the last answer, and
RTMP connections that ask for any ticket (`RtmpAsks`).

`MC...` modules define the constants TLC uses. The theorems are in `EventLoopProofs`,
`BufferProofs`, `TimerQueueProofs`, `TcpConnectionProofs`, `RtmpSessionsProofs`,
`RtmpChunksProofs` and `LoginServerProofs`, each of which extends the module it is about.

## Runs

| Run | Result | What it asks |
|---|---|---|
| `EventLoop` | pass | wakeups, order, liveness of functors and channels |
| `TcpConnection` | pass | the life of a connection with and without a thread pool, safety and liveness |
| `TcpConnectionRace` | violation | a shutdown on another thread undoes a close: closed twice |
| `TimerQueue` | pass | sets, timerfd, cancel and firing under address reuse and clock changes; refinement of `TimerService` |
| `TimerQueueId` | violation | the `TimerId` of an `addTimer` on another thread |
| `Buffer` | pass | FIFO of bytes, indices, growth |
| `RtmpSessions` | pass | one I/O loop: publishers, players, caches, clean-up |
| `RtmpSessionsTwoLoops` | pass | two I/O loops: no session is left behind, a player misses nothing that is cached |
| `RtmpSessionsStray` | violation | a connection that changes its stream is not cleaned up |
| `RtmpSessionsLoops` | violation | two I/O loops: two publishers of one stream |
| `RtmpChunks` | pass | messages come out of the chunk stream as they went in, nothing is left; AMF0 inverts |
| `LoginServer` | pass | start-up, accepting, requests, tokens and tickets of the whole server, safety and liveness |

`EventLoop`, `TcpConnection`, `TimerQueue`, `Buffer` and `RtmpSessions` check their type
invariant as a part of `NoLostWakeup`, `DownOnce`, `SetsAgree`, `IndicesInOrder` and
`NoEmptySession`.

What some properties of the two passing RTMP session runs and of the last two runs say:

- `CleanedUp`: a closed connection that never changed its stream while it had a role
  is in no session. `NoDeadSession`: while every connection is like that, a session in
  the registry is being worked on, or an open connection is bound to it and names
  its key, so that somebody will clean it up. It is checked on two loops, where another
  loop can take the session out between a handler's look-up and its use.
- `PlayersUpToDate`: a player that joined late has heard what one that was there from the
  start has, each frame once and in order. This holds on one loop only (see Findings);
  on two, `NothingMissed` says that the player has at least all that is cached.
- `AsSent`: messages leave the parser in order, with their own bytes, type, length and
  chunk stream, and with their timestamp unless a delta was added twice or skipped
  (`exact`); a message is dropped only behind one that was refused; the parser leaves the
  chunk boundaries only for the three causes under Findings. `NothingLeft`: between two
  reads the buffer holds no whole chunk, which nothing would ever parse, but for the
  same causes. `Amf0RoundTrip`: what is encoded decodes to
  itself, and no proper prefix of a value is accepted. `BasicHeaderRoundTrip`, an
  assumption that TLC evaluates, says that writer and parser agree on the basic header
  of every chunk stream id from 2 to 65599.
- `LoopsReady`: a loop that is handed out is that of its thread and constructed; it need
  not have entered `loop()` yet.
  `AnswersInOrder`: however the requests are cut. `DeadTokensRefused`: a token that
  was logged out or found expired admits no `me`, `logout` or ticket request that was
  sent later, on any loop and with any setting of the clock (`login` takes no token). `TicketsSound`: the same for
  tickets, and no ticket for another stream or use. `StartsListening`: no wait of
  the start-up sleeps for ever. `ClientsServed`: clients are accepted when there is
  a descriptor, and answered when they do not pipeline. The type invariant
  accounts for every descriptor.

Bounds, and why they are enough for the cases of interest:

- `EventLoop`: three functors, two other threads, one channel, an eventfd that
  is full at 2. One functor can run while one waits in the round and one is
  pending; the counter reaches its limit.
- `TcpConnection`: two messages of two bytes, high-water mark 3, one other
  thread (one message and two threads for `TcpConnectionRace`). A message can be partly written with another one
  buffered behind it; the mark is crossed; both orders of sends from the loop
  and the thread occur. The peer has one unread chunk at a time. Deadlock is
  not checked: a destroyed connection has no more steps.
- `TimerQueue`: two addresses, two timers, one other thread, time up to 3, a wall
  clock off by 0 or 1. Both timers can wait at once, or the second one can take
  the address of the first; the clock is set forward and back. `TimersFire`
  speaks of timers due before the time bound.
- `RtmpChunks`: two chunk streams, with one and three bytes of basic header, messages
  of 0, 1 or 5 bytes, chunk sizes 2, 3 and 8, timestamps up to 7 with 4 as the mark of an
  extended one, handshake packets of 3 and 2 bytes, at most two chunks on the way, three messages. So
  there are messages of no bytes, of one chunk and of three, chunks cut after every byte,
  deltas that accumulate, and a wrap of the timestamp. `Scope` lets any two
  messages run freely and a third one when it is on the same chunk stream (fmt 3
  repeats a delta) or changes the chunk size between the chunks of another. Every
  exempted case (`lateSize`, `staleSize`, `noExt`, a drifted timestamp, a dropped
  message) is reached, as is a chunk refused by the parser. A behaviour ends when the peer has sent all it
  may, so deadlock is not checked.
- `LoginServer`: no I/O thread, as in `main()`, or two; two clients with one
  descriptor free at the start, so that the second client meets EMFILE unless
  the first has closed; a ttl of 1 and a clock of 0 and 1, so that tokens expire
  and the clock goes back; five pairs of scripts of at most two requests each: a login and
  logout against two uses of the token, a ticket used by the other client on the other
  loop, bad request lines, lengths and bodies, a wrong role, HTTP/1.0, an unknown path. A behaviour ends when the scripts are done.
- `Buffer`: prepend area 2, initial size 2, extra buffer 2, inputs of up to three
  bytes, five readable bytes. Compaction, growth, reads that spill to the stack
  and reads that do not all occur.

- `RtmpSessions`: explored are (`Scope`) three connections that follow the
  protocol on one stream with two media messages, and two connections on two
  streams, one of which gives any commands, with one media message or, when it has given
  an empty app and so lost its key (`LostApp`), with none. The first
  has a publisher that leaves, one that follows it and a player that outlasts
  both; the second has every way of changing or losing a stream while somebody
  else is in it. Connections and names are interchangeable. Deadlock is not
  checked: when every connection has closed nothing happens any more.
- `RtmpSessionsTwoLoops`: three connections, two of them on one loop, all following the
  protocol (`NoStrays`) on one stream, with two media messages and two sessions: a publisher
  and two players join, leave and come back in any order of the critical sections of both
  loops. `CleanedUp` holds there too and is proved for any loops. In both runs at most one
  connection at a time is refused and not yet closed (`OneRefused`): what a refusal
  changes is whether the others still send to that connection.

Fairness. `PromptSpec` of `EventLoop`: every thread that is inside `queueInLoop`
or `loop()` goes on, callbacks return, a poll with a ready descriptor returns. It
does not assume that a poll with nothing to report ever times out, so
`QueuedRuns` does not rest on `kPollTimeMs`. `TcpConnection` assumes of both loops what the `EventLoop` run
shows (`QueuedRuns`, `EventsHandled`): functors and ready channels get their turn
again and again (strong fairness, because a turn is not enabled while user code
runs); callbacks return, other threads finish their call and drop the pointer,
and a peer that reads makes room again and again. `TimerQueue` assumes that time
passes and that the loop serves the timerfd and its functors. `LoginServer` assumes that
the main thread and the I/O threads run, that a loop comes back to a listening socket or
a connection that has something to read, and that TCP delivers at least one more
part of what was sent. For connections this is strong fairness: on the base loop their turn
is taken away again and again by the acceptor at EMFILE, but each poll reports every channel
that is ready, and the loop dispatches them all. Clients, the clock and spurious wakeups owe nothing.
Nobody has to call anything.

## Findings

1. `shutdown()` on another thread (`TcpConnection.cc:199-200`) can overwrite
   `kDisconnected` with `kDisconnecting`; a `sendInLoop` still in the queue then
   enables the channel of the closed connection, and it is closed again, once more
   for each other thread at most, or destroyed with its channel still in the poller.
   `DownOnce` gives that bound, `ClosedCleanly` exempts what follows this race
   (`reopened`), and neither exempts anything else but a server that is destroyed
   while the connection is in `kDisconnecting`.
2. `addTimer` on another thread (`TimerQueue.cc:81`) reads the `Timer` after
   handing it to the loop.
3. `cleanupConnection` (`RtmpServer.cc:112`) goes by the stream name given last.
   A publisher that asks for another stream, even in vain, stays the publisher of
   its old session after it has closed, and no one can publish that stream again.
4. `setPublisher` (`RtmpSession.cc:48`) is not under a lock: with two I/O loops
   two connections may both publish one stream.

Of the chunk stream, the acceptor and HTTP, where the code does less than its comments
or documents say (the properties exempt exactly these cases and
show that there is no other):

- `RTMP_MESSAGE_EXPLAIN.md:445-449` lists extended timestamps, half packets and
  Set Chunk Size as supported. A half-received chunk of fmt 1, 2 or 3 adds its
  delta again each time it is parsed (`RtmpChunkParser.cc:225, 252, 262`), and for a fmt 3
  message of no bytes the delta is not added at all (`:261`). A Set Chunk
  Size is handled after all chunks of the same read were cut by the old size
  (`RtmpConnection.cc:115-125`). One behind a message that a handler refuses is lost with
  the rest of the batch (`:122-124`), but the connection is only shut down for writing
  (`RtmpServer.cc:95-97`), so that what is read later is parsed with the old size. `RtmpChunkWriter` does not repeat the extended
  timestamp in front of continuations and `RtmpChunkParser` skips it there.
- `Acceptor.cc:63` says that at EMFILE the new connection is accepted and closed at
  once; the accept is on the descriptor just closed (`:66`), so the connection
  stays in the backlog. It is accepted when there is room again.
- `HttpServer::onMessage` handles one request per read: a second one that came in
  the same read waits for more bytes.

Met on the way, and covered by no property:

- `quit()` stores `false` in `quit_` (`EventLoop.cc:89`): no loop ever stops, and
  `~EventLoopThread`, which calls `quit()` and then joins the loop's thread
  (`EventLoopThread.cc:19-25`), hangs. `Quit` does what the code does, and `TcpConnection`
  takes it into account: after the server's destructor the base loop of a server with a
  thread pool runs no more functors.
- With several I/O loops, of which `rtmp_server_test.cc:45` starts two by default, a frame
  that another loop broadcasts between `addPlayer` (`RtmpConnection.cc:368`) and the replay
  (`:376`) is sent to the new player live and then again out of the cache, so that frames
  are repeated and out of order. `RTMP_PLAN.md:280` has the caches sent first and the live
  stream after them. `PlayersUpToDate` is a property of one loop for this reason;
  `NothingMissed` is what is left of it.
- Logging out with a token that has expired and that nobody has verified since is
  answered with ok (`TokenManager.cc:41-44` looks at no expiry, `login_server.cc:199`),
  while `TEACHER_BACKEND_PLAN.md:420, 439` answers an expired token with 401. `logout` of
  `AuthService` does what the code does; the token is dead afterwards either way, and that is
  what `DeadTokensRefused` is about.
- At EMFILE the reserve is closed twice (`Acceptor.cc:65, 67`). In a program whose other
  threads open descriptors the second close could hit one of theirs; in the modelled
  server only the base loop opens any.
- A functor queued by the owner before `loop()` gets no wakeup (`EventLoop.cc:111`)
  and waits for the timeout of the poll; `NoLostWakeup` and `QueuedRuns` leave it out.
- SIGPIPE is ignored nowhere although `TcpConnection.cc:152` has a branch for
  `EPIPE`; the model takes the application to ignore it.
- The functors of `send` and `shutdown` capture `this` and no owner
  (`TcpConnection.cc:117`); the model lets callers keep their pointer.
- A `cancel` on the loop's thread overtakes an `addTimer` that another thread has
  queued (`TimerQueue.cc:84`) and is lost; nothing promises an order.
- `~EventLoopThread` reads `loop_` without the mutex (`EventLoopThread.cc:21`).
- With several I/O loops a session can leave the registry between its look-up and
  its use (`RtmpConnection.cc:300`): `PublisherKept` is a property of one loop. What
  the clean-up leaves behind is right even so (`CleanedUp`, `NoDeadSession`).
- `gopCache_` grows until the next key frame (`RtmpSession.cc:150`), and expired
  tokens stay until they are used or somebody logs in (`TokenManager.cc:59`).
- A Set Chunk Size of 0 is not refused (`RtmpConnection.cc:135`): no message would
  ever be complete. Messages parsed before a chunk that is refused in the same read
  are dropped (`:115`).
- A string of 65536 bytes or more is encoded with a length that is cut to 16 bits
  (`Amf0Encoder.cc:45`); this server encodes short literals only.

## Proofs

`EventLoopProofs`, for any threads, channels, functors and eventfd limit, from the
assumptions named in `EventLoop.tla` (the loop's thread is none of the others, the
wakeup channel is none of the others, the limit is positive):

- `TypeCorrect`: the type invariant.
- `LoopInvCorrect`: the inductive invariant. `NoLostWakeup` alone is not
  inductive: whether a poll may sleep depends on what happened in earlier
  phases. `LoopInv` says that the flag is up exactly during
  `doPendingFunctors`, where user code may run, that a round is empty outside
  of it, and that in every phase after the last swap before the next poll a
  pending functor has a wakeup on its way. While channels are dispatched and
  before the swap nothing is owed, because the swap is still to come.
- `NoLostWakeupCorrect` follows from it.
- `ImplementsQueue`: every step appends to the queue, takes its head or leaves
  `functors \o pending` alone.

`BufferProofs`, for any sizes, any bytes and any inputs, from `BufferAssumption`
(sizes are natural numbers, inputs are sequences of bytes):

- `IndicesCorrect` and `TypeCorrect`, from the invariant `Good(Here)`: the store
  is a sequence of bytes and `kCheapPrepend <= reader <= writer <= size`.
- `BufferIsByteQueue`: lemmas say what each function does to the readable
  bytes (`CompactKeeps`, `ResizeKeeps`, `EnsureMakesRoom`, `CopyInAppends`,
  `AppendAppends`, `FilledAppends`, `AdvanceTakes`, `RewindTakesAll`), and
  `StepEffect` puts them together.
- `GrowthOnlyWhenFull`, the action property, from the same invariant: `append` grows
  the vector only when `Fits` fails (`AppendGrows`), and `readFd` only in the `append`
  of what went to the stack (`FilledGrows`).

`TimerQueueProofs`, for any heap, timers, threads, delays and intervals and any settings
of the wall clock, from `TimerAssumption` (delays, intervals and bounds are natural
numbers, every wall-clock time is after the epoch):

- `InvHolds`: the inductive invariant. That the two sets agree is not inductive: what a
  functor of `addTimer` or a `cancel` does depends on which `Timer` is at the address by
  then. The invariant adds that a live `Timer` has a sequence number of its own and a
  valid expiration (`LiveSeqs`), that one whose `addTimerInLoop` is queued is alive and nowhere else
  (`QueuedAdds`), that every live one waits, has expired or is queued (`NoneLost`), that
  no `TimerId` has the number of a `Timer` at another address (`IdsKnown`), and that a
  cancelled one that is still alive has expired and is in `cancelingTimers_`
  (`CancelledNoted`).
- `SetsAlwaysAgree` and `CancelAlwaysHolds` follow. `TimerfdAlwaysArmed` needs in addition
  that a set of waiting timers has an earliest one.
- `QueueIsTimerService`: every step of `TimerQueue` is one of `TimerService` or leaves it
  alone. The abstract timers are those at the addresses of `timers_`, of the expired
  list and of the queued functors (`TimersByAddress`). Since different addresses hold
  different timers (`DifferentTimers`, from `LiveSeqs`), taking an address out of a set
  takes one timer out; since no `TimerId` has the number of a `Timer` at another address
  (`IdsKnown`), `cancel`, which searches by address and number, stops the timer of
  that number only, even when its address has been given to another. There is one lemma
  for each kind of step.

`TcpConnectionProofs`, for any set of loops, any finite set of other threads, any messages,
message length and high-water mark (`ConnAssumption`):

- `InvHolds`: the inductive invariant. Before `connectEstablished` nothing has been
  set in motion (`Fresh`, `EstablishedOnce`); the callbacks of a report that are still
  to come fit the state (`TodoOK`); each close leaves a trace that accounts for it,
  and a second one needs a thread between the test and the store of `shutdown()`
  (`DownOK`); while the connection is not closed, write interest, buffer and the closed
  write side fit (`WriteOK`); the removal is queued on one of the loops, or done
  (`RemovalOK`).
- `DownAlwaysOnce`, `ClosedAlwaysCleanly`, `InterestAlwaysMatches`, `BytesAlwaysInOrder`,
  `AlwaysDrainedBeforeShutdown`, and the action property `NeverMessageAfterDown`.

The attempt to prove that a connection is never closed a third time failed for a good
reason: each of several threads can be inside `shutdown()`. TLC confirmed it with two
threads, and `DownOnce` now has the bound that holds, one close and one more per thread.

`RtmpSessionsProofs`, for any connections, applications, stream names, sessions and
messages (`SessionsAssumption`: finitely many sessions and messages, `None` is none of
the values it stands in for):

- On any assignment of connections to I/O loops: `MediaInvHolds` and from it
  `GopAlwaysFromKeyFrame`, with the types. Messages are numbered, caches and
  players hold none from the future, the group of pictures is in order.
- On any assignment too: `SharedInvHolds`, and from it `AlwaysCleanedUp` and
  `NeverDeadSession`. `SharedInv` is what of the one-loop invariant survives when other
  loops run between two critical sections. A handler on its way into a session cannot rely
  on the registry still having it, but nobody else touches the context of its
  connection, and if the session is registered it is under the key that context
  names (`JoiningOK`); `removeIfEmpty` is alone under `mutex_` and its key is still
  right (`RemovalOK`); a session has one key (`OneKey`); the members of a registered
  session have joined it in the role they say and will look it up where it is
  (`MembersJoined`); and a registered session is tended by a handler or taken by a
  connection (`Owned`).
- For a server with one I/O loop (`SingleLoop`, `RtmpServer` without `setThreadNum`):
  `LoopInvHolds`. Whatever a handler at work has looked up still holds when it goes on
  (`Handlers`), every session in the registry has one key and one outside is new
  (`Registry`), a connection that has not strayed is in the session it named and in
  no other (`Members`), and each player is up to date as soon as the handler at work
  returns (`Players`). From it `PublisherAlwaysKept`, `AlwaysOnePublisher`,
  `NeverEmptySession`, `CachesAlwaysOfPublisher`, `PlayersAlwaysUpToDate`.

The hypothesis is needed for these: `RtmpSessionsLoops` violates `OnePublisher` with two loops.

`RtmpChunksProofs`, for any chunk stream ids that a basic header can hold, any message
lengths, 0 included, chunk sizes, timestamps and widths, any packet sizes of the handshake,
any number of messages and chunks under way (`CsidsAssumption`, `SizesAssumption`: no chunk
or packet size is 0, `TimesAssumption`, `BoundsAssumption`):

- `InvHolds`: the inductive invariant. That messages come out as sent is not inductive: the
  parser has half of a message, and what the rest of it will be is in chunks
  that the peer cut with a state it no longer has. The invariant (`Simulation`) therefore
  says that there is a path of points (`Path`), before, between and behind the chunks
  under way, each with the headers, the chunk size and the number of
  complete messages that the peer had there. Every chunk takes its point to the next
  (`Link`: `HeaderMoves`, `PayloadMoves`, `MessageMoves`). The last point is the peer's state, and
  the bytes between are those arrived and coming (`AtPeer`). The first one is the
  parser's state (`AtParser`), but for the header fields that a half-received first chunk
  has already changed (`Match`) and for the chunk size, which is that of a Set Chunk Size
  waiting in the batch, if there is one, and which the parser does not have when the last
  one was dropped (`SizeAt`, `stale`). `LeftOK` carries what `NothingLeft` says through the
  batch.
- One lemma for each action; the path loses its first point when a chunk is parsed
  (`PathTail`) and is extended by what the peer sends (`PeerExtendsByOne`, `PathConcat` for the
  chunks of `EncodeMessage`). `BasicHeader` is the round trip of basic headers for every id
  from 2 to 65599.
- `TypesHold`, `MessagesAsSent` and `NothingIsLeft` follow.

The proof needs every definition to have one value: two `CASE`s of `RtmpChunks` whose guards
overlapped, where TLC took the first and TLA+ leaves the choice open, became nested `IF`s,
in the order in which the code tests.

`LoginServerProofs`, for any clients, scripts, threads, descriptors and ttl, from the
assumptions of the five modules (`ClientsAssumption`: finitely many clients):

- `InvHolds`: the inductive invariant, a conjunction of what each part keeps. The thread
  pool: which thread the main thread waits for and what that thread has done. The
  acceptor: descriptors in use, free and in reserve add up. The parser: the parts read
  and on the way are the rest of the script from the request being parsed on. Auth: the
  tokens in the map were issued and are not dead, the tickets are as they were asked
  for; a handler between its two locks has a token that was good when it was sent.
- `TypeAlwaysOK`, `LoopsAlwaysReady`, `AnswersAlwaysInOrder`, `DeadTokensAlwaysRefused`,
  `TicketsAlwaysSound`.

TLC checked each inductive invariant on the runs before it was proved (of `RtmpChunks`
in a form that keeps the points as history, since it cannot enumerate paths).

Only model-checked: `Amf0RoundTrip`, because what a recursive definition computes is out
of the prover's reach, `NothingMissed`, whose invariant on several loops has still to be
found, and all liveness (`QueuedRuns`, `EventsHandled`,
`PeerGoneDestroyed`, `ShutdownCarriedOut`, `TimersFire`, `StartsListening`,
`ClientsServed`), which is too.

## Not modelled

- Logging, `Timestamp` formatting, `InetAddress`, `Socket` options, `CurrentThread`:
  no state that a property is about.
- The destructors of `EventLoop`, `TimerQueue`, `Acceptor` and the tear-down of the
  thread pool: they come after `quit()`, which stops no loop.
- The JSON scanner (`JsonRequest.cc`), the texts of request lines, headers and
  responses, the parsing of RTMP stream names and command arguments: pure functions of
  text; what the code decides by them is in the guards.
- The random bytes of the RTMP handshake and of tokens: a token is a number that
  was not used before.
- The fd-to-channel map of the poller and the growth of its event list.
- What a torn `unordered_map` of `RtmpSession` would do: its containers are not
  protected either. Memory errors are modelled only where a property is about them
  (`RemoteReturns`); see the hazards for the others.

## Plan

1. An abstract specification of the input side of RTMP, a queue of messages in the order
   they were completed, and `RtmpChunks` shown to implement it.
2. The acceptor and the thread pool at tear-down, once `quit()` stops a loop.
