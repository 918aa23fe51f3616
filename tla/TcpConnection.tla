---------------------------- MODULE TcpConnection ----------------------------
(***************************************************************************)
(* The life of one TcpConnection (net/TcpConnection.cc): created by         *)
(* TcpServer::newConnection on the base loop, driven by the events of its   *)
(* Channel on its I/O loop, used by other threads, taken out of the         *)
(* server's map and destroyed.                                              *)
(*                                                                         *)
(* Each loop is the task queue that EventLoop implements: a FIFO of         *)
(* functors which its thread runs one by one between the events it          *)
(* dispatches.  ioLoop = BaseLoop in a server without a thread pool.        *)
(* The socket is the kernel's: what the peer sent (rx), whether it closed   *)
(* or reset, SO_ERROR, our write side, and the bytes that left (wire).      *)
(***************************************************************************)
EXTENDS Naturals, Sequences, FiniteSets

CONSTANTS
  BaseLoop,          \* loop_ of the server
  IoLoops,           \* the loops getNextLoop() picks from; BaseLoop without a pool
  Workers,           \* other threads that get hold of the TcpConnectionPtr
  Msgs, NoMsg,       \* what the user sends; every message at most once
  MsgLen,            \* bytes of a message
  HighWaterMark,     \* highWaterMark_
  ServerDies         \* the TcpServer may be destroyed

ASSUME ConnAssumption ==
  /\ MsgLen \in Nat \ {0} /\ HighWaterMark \in Nat \ {0}
  /\ NoMsg \notin Msgs /\ IsFiniteSet(Workers)
  /\ ServerDies \in BOOLEAN

VARIABLES
  ioLoop,     \* loop_ of the connection
  state,      \* state_
  events,     \* Channel::events_, as a subset of {"in", "out"}
  index,      \* Channel::index_
  out,        \* outputBuffer_: a sequence of bytes <<message, position>>
  inMap,      \* the connection is in TcpServer::connections_
  server,     \* the TcpServer exists
  queue,      \* per loop, the functors queued in it
  todo,       \* the callbacks handleEventWithGuard has still to make
  user,       \* the I/O loop is in a user callback that holds the connection
  worker,     \* per worker, the call it is in: [at, msg]
  holds,      \* per worker, whether it has a TcpConnectionPtr
  rx, peer, soError, writeClosed, wire,     \* the socket
  unsent,     \* messages no one has sent yet
  accepted,   \* messages sendInLoop wrote or buffered, in order
  ups, downs, \* calls of connectionCallback_ on establishment and on close
  reopened    \* a shutdown() overwrote kDisconnected

socket == <<rx, peer, soError, writeClosed, wire>>
channel == <<events, index>>
history == <<unsent, accepted, ups, downs, reopened>>
vars == <<ioLoop, state, channel, out, inMap, server, queue, todo, user, worker, holds, socket,
          history>>

Loops == {BaseLoop} \cup IoLoops

Idle == [at |-> "idle", msg |-> NoMsg]

(* Before newConnection: no connection, hence no channel and no reference. *)
Init ==
  /\ ioLoop \in IoLoops
  /\ state = "none" /\ events = {} /\ index = "kNew"
  /\ out = <<>> /\ inMap = FALSE /\ server = TRUE
  /\ queue = [l \in Loops |-> <<>>] /\ todo = <<>> /\ user = FALSE
  /\ worker = [w \in Workers |-> Idle] /\ holds = [w \in Workers |-> FALSE]
  /\ rx = 0 /\ peer = "open" /\ soError = FALSE /\ writeClosed = FALSE
  /\ wire = <<>>
  /\ unsent = Msgs /\ accepted = <<>> /\ ups = 0 /\ downs = 0
  /\ reopened = FALSE

-----------------------------------------------------------------------------
(* Functors and references.                                                 *)

Functor(op, m) == [op |-> op, msg |-> m]

Enqueue(q, l, op, m) == [q EXCEPT ![l] = Append(@, Functor(op, m))]

(* send and shutdown bind the bare this; every other functor binds a        *)
(* shared_ptr.                                                              *)
BareThis == {"sendInLoop", "shutdownInLoop"}

Queued(ops) == \E l \in Loops : \E i \in 1 .. Len(queue[l]) : queue[l][i].op \in ops

SharedOps == {"connectEstablished", "connectDestroyed", "removeConnectionInLoop",
              "writeComplete", "highWaterMark"}

(* Somebody owns the connection: the map, a functor, a callback in progress *)
(* (Channel::tie, guardThis) or a worker.                                   *)
Alive ==
  \/ inMap \/ user \/ todo # <<>>
  \/ Queued(SharedOps)
  \/ \E w \in Workers : holds[w]

(* The destructor has run: the socket is closed. *)
Destroyed == state # "none" /\ ~Alive

IoIdle == todo = <<>> /\ ~user

(* Where worker w is in its call of send or shutdown. *)
AtWorker(w, at) == worker[w].at = at

InShutdown == [at |-> "shutdown", msg |-> NoMsg]

-----------------------------------------------------------------------------
(* The channel and the poller.                                              *)

(* EPollPoller::updateChannel: ADD, DEL or MOD, and the new index_. *)
UpdateIndex(ev) ==
  IF index = "kAdded" /\ ev = {} THEN "kDeleted" ELSE "kAdded"

SetEvents(ev) == events' = ev /\ index' = UpdateIndex(ev)

Writing == "out" \in events

(* What epoll reports: the events asked for, HUP and ERR in any case. *)
Revents(writable) ==
  {e \in events : IF e = "in" THEN rx > 0 \/ peer # "open"
                               ELSE writable \/ writeClosed \/ peer = "rst"}
  \cup (IF peer = "rst" \/ (peer = "fin" /\ writeClosed) THEN {"hup"} ELSE {})
  \cup (IF soError THEN {"err"} ELSE {})

(* Channel::handleEventWithGuard: which callbacks, in which order. *)
Callbacks(rev) ==
  (IF "hup" \in rev /\ "in" \notin rev THEN <<"close">> ELSE <<>>)
  \o (IF "err" \in rev THEN <<"error">> ELSE <<>>)
  \o (IF "in" \in rev THEN <<"read">> ELSE <<>>)
  \o (IF "out" \in rev THEN <<"write">> ELSE <<>>)

(* A socket that the destructor closed is out of epoll's set. *)
Poll ==
  /\ IoIdle /\ index = "kAdded" /\ ~Destroyed
  /\ \E writable \in BOOLEAN :
       /\ Revents(writable) # {}
       /\ todo' = Callbacks(Revents(writable))
  /\ UNCHANGED <<ioLoop, server, state, channel, out, inMap, queue, user, worker, holds, socket,
                 history>>

-----------------------------------------------------------------------------
(* TcpServer, on the base loop.                                             *)

(* runInLoop(connectEstablished): on the spot when there is one loop. *)
Establish ==
  /\ state' = "kConnected"
  /\ SetEvents(events \cup {"in"})
  /\ user' = TRUE /\ ups' = ups + 1

NewConnection ==
  /\ state = "none" /\ server
  /\ inMap' = TRUE
  /\ \/ /\ ioLoop = BaseLoop
        /\ Establish /\ UNCHANGED queue
     \/ /\ ioLoop # BaseLoop
        /\ state' = "kConnecting"
        /\ queue' = Enqueue(queue, ioLoop, "connectEstablished", NoMsg)
        /\ UNCHANGED <<channel, user, ups>>
  /\ UNCHANGED <<ioLoop, server, out, todo, worker, holds, socket, unsent, accepted, downs,
                 reopened>>

(* Mutant: the channel is neither disabled nor removed. *)
ConnectDestroyedLeavesChannel ==
  /\ \/ /\ state = "kConnected"
        /\ state' = "kDisconnected" /\ downs' = downs + 1
     \/ state # "kConnected" /\ UNCHANGED <<state, downs>>
  /\ UNCHANGED <<channel, worker>>

(* Workers in shutdown() whose kDisconnecting falls between the test of     *)
(* state_ in connectDestroyed and its kDisconnected, which overwrites it.   *)
StoresLost ==
  \E W \in SUBSET {w \in Workers : AtWorker(w, "setState")} :
    worker' = [w \in Workers |-> IF w \in W THEN InShutdown ELSE worker[w]]

(* connectDestroyed, apart from the queue it was in. *)
ConnectDestroyed ==
  /\ \/ /\ state = "kConnected" /\ StoresLost
        /\ state' = "kDisconnected" /\ events' = {} /\ downs' = downs + 1
     \/ state # "kConnected" /\ UNCHANGED <<state, events, downs, worker>>
  /\ index' = "kNew"

(* TcpServer::~TcpServer, on the base loop and outside its callbacks.  With *)
(* a thread pool it never returns: ~EventLoopThread joins a thread whose    *)
(* loop does not stop (quit() of EventLoop stores false), and the base      *)
(* loop's thread is stuck in it.                                            *)
DestroyServer ==
  /\ ServerDies /\ server /\ (ioLoop = BaseLoop => IoIdle)
  /\ server' = FALSE /\ inMap' = FALSE
  /\ \/ ~inMap /\ UNCHANGED <<state, channel, queue, downs, worker>>
     \/ /\ inMap /\ ioLoop = BaseLoop
        /\ ConnectDestroyed /\ UNCHANGED queue
     \/ /\ inMap /\ ioLoop # BaseLoop
        /\ queue' = Enqueue(queue, ioLoop, "connectDestroyed", NoMsg)
        /\ UNCHANGED <<state, channel, downs, worker>>
  /\ UNCHANGED <<ioLoop, out, todo, user, holds, socket, unsent, accepted, ups, reopened>>

(* Mutant: connectDestroyed is not queued. *)
EraseOnly(q) == inMap' = FALSE /\ queue' = q

(* TcpServer::removeConnectionInLoop, with q the queues it finds. *)
RemoveInLoop(q) ==
  /\ inMap' = FALSE
  /\ queue' = Enqueue(q, ioLoop, "connectDestroyed", NoMsg)

(* closeCallback_: TcpServer::removeConnection runs it in the base loop. *)
RemoveConnection ==
  \/ ioLoop = BaseLoop /\ RemoveInLoop(queue)
  \/ /\ ioLoop # BaseLoop
     /\ queue' = Enqueue(queue, BaseLoop, "removeConnectionInLoop", NoMsg)
     /\ UNCHANGED inMap

-----------------------------------------------------------------------------
(* Sending.                                                                 *)

(* The bytes of a message: data and len of sendInLoop. *)
Bytes(m) == [i \in 1 .. MsgLen |-> <<m, i>>]

(* A write fails, with EPIPE or, while SO_ERROR is set, with ECONNRESET.    *)
(* (SIGPIPE, which would end the process, is taken to be ignored.)          *)
WriteFails == writeClosed \/ peer = "rst"

(* Mutant: always writes first, past what is buffered. *)
DirectAlways == TRUE

(* sendInLoop writes at once: nothing buffered and no write event awaited. *)
Direct == ~Writing /\ out = <<>>

(* Mutant: the write event is not requested. *)
WantOutNever(rest) == UNCHANGED channel

(* The end of sendInLoop: what is left goes out with the next write event. *)
WantOut(rest) ==
  IF rest # <<>> /\ ~Writing THEN SetEvents(events \cup {"out"}) ELSE UNCHANGED channel

(* sendInLoop(m), with q the queues it finds; n bytes leave at once.        *)
SendInLoop(m, q) ==
  \/ /\ state = "kDisconnected"
     /\ queue' = q
     /\ UNCHANGED <<channel, out, socket, accepted>>
  \/ /\ state # "kDisconnected" /\ Direct /\ WriteFails
     /\ soError' = FALSE
     /\ queue' = q
     /\ UNCHANGED <<channel, out, rx, peer, writeClosed, wire, accepted>>
  \/ /\ state # "kDisconnected" /\ (Direct => ~WriteFails)
     /\ \E n \in IF Direct THEN 0 .. MsgLen ELSE {0} :
          LET rest == SubSeq(Bytes(m), n + 1, MsgLen) IN
          /\ wire' = wire \o SubSeq(Bytes(m), 1, n)
          /\ out' = out \o rest
          /\ WantOut(rest)
          /\ queue' =
               IF rest = <<>> THEN Enqueue(q, ioLoop, "writeComplete", NoMsg)
               ELSE IF /\ Len(out) < HighWaterMark
                       /\ Len(out) + Len(rest) >= HighWaterMark
                    THEN Enqueue(q, ioLoop, "highWaterMark", NoMsg)
                    ELSE q
     /\ accepted' = Append(accepted, m)
     /\ UNCHANGED <<rx, peer, soError, writeClosed>>

(* Mutant: shuts down whatever is still buffered. *)
ClosesWriteAlways == TRUE

(* shutdownInLoop: only when nothing is waiting for a write event. *)
ClosesWrite == ~Writing

ShutdownInLoop == writeClosed' = (writeClosed \/ ClosesWrite)

-----------------------------------------------------------------------------
(* The callbacks of the channel, on the I/O loop.                           *)

Callback(name) == todo # <<>> /\ Head(todo) = name /\ ~user

(* Mutants: the channel stays enabled; the server is not told. *)
HandleCloseKeepsChannel ==
  state' = "kDisconnected" /\ UNCHANGED channel /\ downs' = downs + 1 /\ RemoveConnection
HandleCloseTellsNoServer ==
  /\ state' = "kDisconnected" /\ SetEvents({}) /\ downs' = downs + 1
  /\ UNCHANGED <<inMap, queue>>

(* TcpConnection::handleClose *)
HandleClose ==
  /\ state' = "kDisconnected"
  /\ SetEvents({})
  /\ downs' = downs + 1
  /\ RemoveConnection

CloseEvent ==
  /\ Callback("close")
  /\ todo' = Tail(todo)
  /\ HandleClose
  /\ UNCHANGED <<ioLoop, server, out, user, worker, holds, socket, unsent, accepted, ups,
                 reopened>>

(* handleError fetches, and thereby clears, SO_ERROR. *)
ErrorEvent ==
  /\ Callback("error")
  /\ todo' = Tail(todo)
  /\ soError' = FALSE
  /\ UNCHANGED <<ioLoop, server, state, channel, out, inMap, queue, user, worker, holds, rx, peer,
                 writeClosed, wire, history>>

(* handleRead: data for messageCallback_, an error, or the end of the input. *)
ReadEvent ==
  /\ Callback("read")
  /\ todo' = Tail(todo)
  /\ \/ /\ rx > 0
        /\ rx' = 0 /\ user' = TRUE
        /\ UNCHANGED <<state, channel, inMap, queue, soError, downs>>
     \/ /\ rx = 0 /\ soError
        /\ soError' = FALSE
        /\ UNCHANGED <<state, channel, inMap, queue, user, rx, downs>>
     \/ /\ rx = 0 /\ ~soError
        /\ HandleClose
        /\ UNCHANGED <<user, rx, soError>>
  /\ UNCHANGED <<ioLoop, server, out, worker, holds, peer, writeClosed, wire, unsent,
                 accepted, ups, reopened>>

(* Mutant: a shutdown that found bytes waiting is forgotten. *)
ShutdownForgotten == UNCHANGED writeClosed

(* The end of handleWrite: a shutdown that waited for the last byte. *)
ShutdownWhenDrained == writeClosed' = (writeClosed \/ state = "kDisconnecting")

(* handleWrite: n bytes leave; the last ones end the wait for write events. *)
WriteEvent ==
  /\ Callback("write")
  /\ todo' = Tail(todo)
  /\ \/ /\ ~Writing
        /\ UNCHANGED <<channel, out, queue, socket>>
     \/ /\ Writing /\ WriteFails
        /\ soError' = FALSE
        /\ UNCHANGED <<channel, out, queue, rx, peer, writeClosed, wire>>
     \/ /\ Writing /\ ~WriteFails
        /\ \E n \in 1 .. Len(out) :
             /\ wire' = wire \o SubSeq(out, 1, n)
             /\ out' = SubSeq(out, n + 1, Len(out))
             /\ \/ n < Len(out) /\ UNCHANGED <<channel, queue, writeClosed>>
                \/ /\ n = Len(out)
                   /\ SetEvents(events \ {"out"})
                   /\ queue' = Enqueue(queue, ioLoop, "writeComplete", NoMsg)
                   /\ ShutdownWhenDrained
        /\ UNCHANGED <<rx, peer, soError>>
  /\ UNCHANGED <<ioLoop, server, state, inMap, user, worker, holds, history>>

-----------------------------------------------------------------------------
(* User code on the I/O loop, inside connectionCallback_ (up),              *)
(* messageCallback_, writeCompleteCallback_ or highWaterMarkCallback_.      *)

UserSend(m) ==
  /\ user /\ m \in unsent
  /\ state = "kConnected"
  /\ unsent' = unsent \ {m}
  /\ SendInLoop(m, queue)
  /\ UNCHANGED <<ioLoop, server, state, inMap, todo, user, worker, holds, ups, downs,
                 reopened>>

UserShutdown ==
  /\ user
  /\ state = "kConnected"
  /\ state' = "kDisconnecting"
  /\ ShutdownInLoop
  /\ UNCHANGED <<ioLoop, server, channel, out, inMap, queue, todo, user, worker, holds, rx, peer,
                 soError, wire, history>>

(* A callback hands the TcpConnectionPtr to another thread. *)
UserShares(w) ==
  /\ user /\ ~holds[w]
  /\ holds' = [holds EXCEPT ![w] = TRUE]
  /\ UNCHANGED <<ioLoop, server, state, channel, out, inMap, queue, todo, user, worker, socket,
                 history>>

UserReturns ==
  /\ user
  /\ user' = FALSE
  /\ UNCHANGED <<ioLoop, server, state, channel, out, inMap, queue, todo, worker, holds, socket,
                 history>>

-----------------------------------------------------------------------------
(* Functors, at the head of the queue of their loop.                        *)

Runs(l, op) ==
  /\ IF l = ioLoop THEN IoIdle ELSE server
  /\ queue[l] # <<>> /\ Head(queue[l]).op = op

Dequeued(l) == [queue EXCEPT ![l] = Tail(@)]

RunConnectEstablished ==
  /\ Runs(ioLoop, "connectEstablished")
  /\ queue' = Dequeued(ioLoop)
  /\ Establish
  /\ UNCHANGED <<ioLoop, server, out, inMap, todo, worker, holds, socket, unsent, accepted, downs,
                 reopened>>

RunRemoveConnectionInLoop ==
  /\ Runs(BaseLoop, "removeConnectionInLoop")
  /\ RemoveInLoop(Dequeued(BaseLoop))
  /\ UNCHANGED <<ioLoop, server, state, channel, out, todo, user, worker, holds, socket, history>>

RunConnectDestroyed ==
  /\ Runs(ioLoop, "connectDestroyed")
  /\ queue' = Dequeued(ioLoop)
  /\ ConnectDestroyed
  /\ UNCHANGED <<ioLoop, server, out, inMap, todo, user, holds, socket, unsent, accepted,
                 ups, reopened>>

RunSendInLoop ==
  /\ Runs(ioLoop, "sendInLoop")
  /\ SendInLoop(Head(queue[ioLoop]).msg, Dequeued(ioLoop))
  /\ UNCHANGED <<ioLoop, server, state, inMap, todo, user, worker, holds, unsent, ups, downs,
                 reopened>>

RunShutdownInLoop ==
  /\ Runs(ioLoop, "shutdownInLoop")
  /\ queue' = Dequeued(ioLoop)
  /\ ShutdownInLoop
  /\ UNCHANGED <<ioLoop, server, state, channel, out, inMap, todo, user, worker, holds, rx, peer,
                 soError, wire, history>>

RunUserCallback ==
  /\ Runs(ioLoop, "writeComplete") \/ Runs(ioLoop, "highWaterMark")
  /\ queue' = Dequeued(ioLoop)
  /\ user' = TRUE
  /\ UNCHANGED <<ioLoop, server, state, channel, out, inMap, todo, worker, holds, socket, history>>

-----------------------------------------------------------------------------
(* Workers: send and shutdown on a thread that is not the I/O loop's.       *)

(* send: state_ is read, later the functor is queued. *)
WorkerSends(w, m) ==
  /\ AtWorker(w, "idle") /\ holds[w] /\ m \in unsent /\ state = "kConnected"
  /\ worker' = [worker EXCEPT ![w] = [at |-> "send", msg |-> m]]
  /\ unsent' = unsent \ {m}
  /\ UNCHANGED <<ioLoop, server, state, channel, out, inMap, queue, todo, user, holds, socket,
                 accepted, ups, downs, reopened>>

WorkerQueuesSend(w) ==
  /\ AtWorker(w, "send")
  /\ queue' = Enqueue(queue, ioLoop, "sendInLoop", worker[w].msg)
  /\ worker' = [worker EXCEPT ![w] = Idle]
  /\ UNCHANGED <<ioLoop, server, state, channel, out, inMap, todo, user, holds, socket, history>>

(* shutdown: state_ is read, then written, then the functor is queued. *)
WorkerShutsDown(w) ==
  /\ AtWorker(w, "idle") /\ holds[w] /\ state = "kConnected"
  /\ worker' = [worker EXCEPT ![w] = [at |-> "setState", msg |-> NoMsg]]
  /\ UNCHANGED <<ioLoop, server, state, channel, out, inMap, queue, todo, user, holds, socket,
                 history>>

WorkerSetsState(w) ==
  /\ AtWorker(w, "setState")
  /\ state' = "kDisconnecting"
  /\ reopened' = (reopened \/ state = "kDisconnected")
  /\ worker' = [worker EXCEPT ![w] = InShutdown]
  /\ UNCHANGED <<ioLoop, server, channel, out, inMap, queue, todo, user, holds, socket, unsent,
                 accepted, ups, downs>>

WorkerQueuesShutdown(w) ==
  /\ AtWorker(w, "shutdown")
  /\ queue' = Enqueue(queue, ioLoop, "shutdownInLoop", NoMsg)
  /\ worker' = [worker EXCEPT ![w] = Idle]
  /\ UNCHANGED <<ioLoop, server, state, channel, out, inMap, todo, user, holds, socket, history>>

(* The worker drops its TcpConnectionPtr; a careful one waits until the     *)
(* functors that bound the bare this have run.                              *)
WorkerReleases(w) ==
  /\ AtWorker(w, "idle") /\ holds[w] /\ ~Queued(BareThis)
  /\ holds' = [holds EXCEPT ![w] = FALSE]
  /\ UNCHANGED <<ioLoop, server, state, channel, out, inMap, queue, todo, user, worker, socket,
                 history>>

-----------------------------------------------------------------------------
(* The peer.  One unread chunk stands for any number of them.               *)

PeerCan == state # "none" /\ ~Destroyed

PeerSends ==
  /\ PeerCan /\ peer = "open" /\ rx = 0
  /\ rx' = 1
  /\ UNCHANGED <<ioLoop, server, state, channel, out, inMap, queue, todo, user, worker, holds,
                 peer, soError, writeClosed, wire, history>>

PeerCloses ==
  /\ PeerCan /\ peer = "open"
  /\ peer' = "fin"
  /\ UNCHANGED <<ioLoop, server, state, channel, out, inMap, queue, todo, user, worker, holds,
                 rx, soError, writeClosed, wire, history>>

PeerResets ==
  /\ PeerCan /\ peer # "rst"
  /\ peer' = "rst" /\ soError' = TRUE
  /\ UNCHANGED <<ioLoop, server, state, channel, out, inMap, queue, todo, user, worker, holds,
                 rx, writeClosed, wire, history>>

-----------------------------------------------------------------------------
ChannelStep == Poll \/ CloseEvent \/ ErrorEvent \/ ReadEvent \/ WriteEvent

IoFunctor ==
  \/ RunConnectEstablished \/ RunConnectDestroyed \/ RunSendInLoop
  \/ RunShutdownInLoop \/ RunUserCallback

UserCode ==
  \/ UserShutdown
  \/ \E m \in Msgs : UserSend(m)
  \/ \E w \in Workers : UserShares(w)

WorkerStep(w) ==
  WorkerQueuesSend(w) \/ WorkerSetsState(w) \/ WorkerQueuesShutdown(w)

WorkerCode(w) == WorkerShutsDown(w) \/ \E m \in Msgs : WorkerSends(w, m)

Peer == PeerSends \/ PeerCloses \/ PeerResets

Next ==
  \/ NewConnection \/ DestroyServer \/ RunRemoveConnectionInLoop \/ IoFunctor
  \/ ChannelStep \/ UserReturns \/ UserCode \/ Peer
  \/ \E w \in Workers : WorkerStep(w) \/ WorkerCode(w) \/ WorkerReleases(w)

Spec == Init /\ [][Next]_vars

(* Both loops serve their queue and their channels again and again, which   *)
(* is what QueuedRuns and EventsHandled say of EventLoop; callbacks and     *)
(* calls return, workers drop the connection when they are done with it,    *)
(* and while the peer reads there is room to write again and again.         *)
FairSpec ==
  /\ Spec
  /\ SF_vars(IoFunctor) /\ SF_vars(RunRemoveConnectionInLoop)
  /\ SF_vars(Poll) /\ SF_vars(Poll /\ "write" \in {todo'[i] : i \in DOMAIN todo'})
  /\ WF_vars(CloseEvent \/ ErrorEvent \/ ReadEvent \/ WriteEvent)
  /\ WF_vars(UserReturns)
  /\ \A w \in Workers : WF_vars(WorkerStep(w)) /\ SF_vars(WorkerReleases(w))

-----------------------------------------------------------------------------
(* Properties.                                                              *)

(* Every variable has the type its C++ counterpart has. *)
TypeOK ==
  /\ ioLoop \in IoLoops
  /\ state \in {"none", "kConnecting", "kConnected", "kDisconnecting", "kDisconnected"}
  /\ events \subseteq {"in", "out"} /\ index \in {"kNew", "kAdded", "kDeleted"}
  /\ out \in Seq(Msgs \X (1 .. MsgLen)) /\ wire \in Seq(Msgs \X (1 .. MsgLen))
  /\ {inMap, server, user, soError, writeClosed, reopened} \subseteq BOOLEAN
  /\ queue \in [Loops -> Seq([op : SharedOps \cup BareThis, msg : Msgs \cup {NoMsg}])]
  /\ todo \in Seq({"close", "error", "read", "write"})
  /\ worker \in [Workers -> [at : {"idle", "send", "setState", "shutdown"},
                              msg : Msgs \cup {NoMsg}]]
  /\ holds \in [Workers -> BOOLEAN]
  /\ rx \in 0 .. 1 /\ peer \in {"open", "fin", "rst"}
  /\ unsent \subseteq Msgs /\ accepted \in Seq(Msgs)
  /\ ups \in Nat /\ downs \in Nat

(* connectionCallback_ reports the connection up once, then down once: no   *)
(* path through handleClose and connectDestroyed closes it a second time.   *)
ClosedOnce == downs <= ups /\ ups <= 1

(* The same of every connection whose kDisconnected no shutdown() of        *)
(* another thread has overwritten: that race is the only way to a second    *)
(* close, and each thread causes at most one more.  (Checked with it: the   *)
(* types.)                                                                  *)
DownOnce ==
  TypeOK /\ (ClosedOnce \/ (reopened /\ ups = 1 /\ downs <= 1 + Cardinality(Workers)))

(* When the last reference is gone, the channel that the poller knows by    *)
(* address is out of the poller and the user has been told, but for two     *)
(* ways in which a queued send puts the channel back: after the race of     *)
(* ClosedOnce, and after a connectDestroyed that finds kDisconnecting,      *)
(* disables nothing and tells nobody, when the server was destroyed.        *)
ClosedCleanly ==
  Destroyed => \/ index = "kNew" /\ downs = ups
               \/ reopened
               \/ ~server /\ state = "kDisconnecting"

(* Until it is closed, the connection waits for write events exactly when   *)
(* it has bytes to write: it neither forgets them nor spins.                *)
InterestMatchesBuffer ==
  state \in {"kConnected", "kDisconnecting"} /\ index = "kAdded" => (Writing <=> out # <<>>)

(* The bytes on the wire and in outputBuffer_ are the accepted messages,    *)
(* whole and in order, whichever of the two paths of sendInLoop they took.  *)
BytesInOrder ==
  wire \o out = [i \in 1 .. Len(accepted) * MsgLen |->
                   <<accepted[((i - 1) \div MsgLen) + 1], ((i - 1) % MsgLen) + 1>>]

(* While the connection is up, shutdown() on any thread closes the write    *)
(* side only after the buffered bytes have left.                            *)
DrainedBeforeShutdown == writeClosed /\ downs = 0 => out = <<>>

(* messageCallback_ is not called on a connection reported down. *)
NoMessageAfterDown == [][rx = 1 /\ rx' = 0 => downs = 0]_vars

(* A connection whose peer closed or reset it ends up destroyed: out of the *)
(* map, out of the poller, its socket closed; unless the server is          *)
(* destroyed, which stops the base loop when there is a thread pool.        *)
PeerGoneDestroyed == (state # "none" /\ peer # "open") ~> (Destroyed \/ ~server)

(* shutdown() is carried out, at once or when the buffer has drained, unless *)
(* the peer goes away first.                                                *)
ShutdownCarriedOut ==
  (state = "kDisconnecting") ~> (writeClosed \/ peer # "open" \/ Destroyed)
==============================================================================
