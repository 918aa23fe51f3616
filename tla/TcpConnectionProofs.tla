-------------------------- MODULE TcpConnectionProofs --------------------------
(* Proofs about TcpConnection, for any number of loops, workers and          *)
(* messages, any message length and any high-water mark.                     *)
EXTENDS TcpConnection, TLAPS, FiniteSetTheorems, SequenceTheorems

-----------------------------------------------------------------------------
(* The inductive invariant.                                                 *)

(* Only sendInLoop has a message. *)
Functors == [op : SharedOps \cup {"shutdownInLoop"}, msg : {NoMsg}]
            \cup [op : {"sendInLoop"}, msg : Msgs]

(* Only a worker inside send has a message. *)
WorkerStates == [at : {"idle", "setState", "shutdown"}, msg : {NoMsg}]
                \cup [at : {"send"}, msg : Msgs]

(* The functor op is in the queue of loop l. *)
QHas(q, l, op) == \E i \in 1 .. Len(q[l]) : q[l][i].op = op

(* TypeOK, and only sendInLoop functors and sending workers have messages. *)
Types == TypeOK /\ queue \in [Loops -> Seq(Functors)] /\ worker \in [Workers -> WorkerStates]

(* Before connectEstablished nothing has been set in motion, and a           *)
(* connection that the server has forgotten by then will be destroyed.       *)
Fresh ==
  state \in {"none", "kConnecting"} =>
    /\ ups = 0 /\ downs = 0 /\ events = {} /\ index = "kNew" /\ out = <<>> /\ todo = <<>>
    /\ ~user /\ ~writeClosed
    /\ \A w \in Workers : worker[w].at = "idle" /\ ~holds[w]
    /\ state = "none" => ~inMap /\ \A l \in Loops : queue[l] = <<>>
    /\ state = "kConnecting" =>
         ioLoop # BaseLoop /\ (inMap \/ QHas(queue, ioLoop, "connectDestroyed"))

(* connectEstablished is the first functor of the connection, and the only   *)
(* one of its kind.                                                          *)
EstablishedOnce ==
  /\ state = "kConnecting" =>
       /\ queue[ioLoop] # <<>> /\ queue[ioLoop][1].op = "connectEstablished"
       /\ \A i \in 2 .. Len(queue[ioLoop]) : queue[ioLoop][i].op # "connectEstablished"
  /\ state # "kConnecting" => ~QHas(queue, ioLoop, "connectEstablished")

(* The callbacks that may end in handleClose. *)
Ends == {"close", "read"}

(* One event ends in at most one handleClose, on a channel that the poller   *)
(* has and outside user code, reads only while the connection is up, and     *)
(* writes last.                                                              *)
TodoOK ==
  /\ \A i, j \in 1 .. Len(todo) : todo[i] \in Ends /\ todo[j] \in Ends => i = j
  /\ \A i \in 1 .. Len(todo) : todo[i] \in Ends => index = "kAdded" /\ ~user
  /\ \A i \in 1 .. Len(todo) : todo[i] = "read" => downs = 0
  /\ \A i \in 1 .. Len(todo) : todo[i] = "write" => i = Len(todo)
  /\ todo # <<>> => index = "kAdded" \/ events = {}

(* The workers that have seen kConnected and will write kDisconnecting. *)
Setting == {w \in Workers : worker[w].at = "setState"}

(* Each close after the first needs a worker's late kDisconnecting: without  *)
(* it, the channel stays out of the poller.                                  *)
DownOK ==
  /\ state \notin {"none", "kConnecting"} => ups = 1
  /\ state = "kDisconnected" => downs >= 1
  /\ downs >= 2 => reopened
  /\ downs >= 1 =>
       /\ state \in {"kDisconnecting", "kDisconnected"} /\ "in" \notin events
       /\ state = "kDisconnecting" => reopened
       /\ index = "kAdded" => state = "kDisconnecting"
       /\ downs + Cardinality(Setting) + (IF state = "kDisconnecting" THEN 1 ELSE 0)
            <= 1 + Cardinality(Workers)

(* The interest in write events and outputBuffer_ agree, also when the       *)
(* channel is out of the poller but the connection has not been closed.      *)
WriteOK ==
  /\ Writing => out # <<>>
  /\ downs = 0 \/ index = "kAdded" => (out # <<>> => Writing)
  /\ writeClosed /\ downs = 0 => out = <<>>

(* connectDestroyed is on its way for a reason, and a connection that is out *)
(* of the map and not waiting for it is either closed or one of the two      *)
(* exceptions of ClosedCleanly.                                              *)
RemovalOK ==
  /\ QHas(queue, ioLoop, "connectDestroyed") => downs >= 1 \/ ~server
  /\ QHas(queue, BaseLoop, "removeConnectionInLoop") => downs >= 1
  /\ /\ state # "none" /\ ~inMap
     /\ ~QHas(queue, ioLoop, "connectDestroyed")
     /\ ~QHas(queue, BaseLoop, "removeConnectionInLoop")
     => \/ index = "kNew" /\ downs = ups
        \/ reopened
        \/ ~server /\ state = "kDisconnecting"

(* The inductive invariant. *)
Inv ==
  /\ Types /\ Fresh /\ EstablishedOnce /\ TodoOK /\ DownOK /\ WriteOK /\ RemovalOK
  /\ BytesInOrder

-----------------------------------------------------------------------------
(* Queues.                                                                  *)

(* The functors of this module are functors. *)
LEMMA FunctorsAre ==
  /\ \A op \in SharedOps \cup {"shutdownInLoop"} :
       Functor(op, NoMsg) \in Functors /\ Functor(op, NoMsg).op = op
  /\ \A m \in Msgs : Functor("sendInLoop", m) \in Functors /\ Functor("sendInLoop", m).op = "sendInLoop"
  /\ \A f \in Functors : f \in [op : SharedOps \cup BareThis, msg : Msgs \cup {NoMsg}]
  /\ \A f \in Functors : f.op = "sendInLoop" => f.msg \in Msgs
BY DEF Functor, Functors, SharedOps, BareThis

(* The queues of pending functors. *)
Queues == [Loops -> Seq(Functors)]

(* r is q with the functor op at the end of the queue of loop l. *)
Grown(q, l, op, r) ==
  /\ r \in Queues /\ Len(r[l]) = Len(q[l]) + 1 /\ Len(q[l]) \in Nat
  /\ \A i \in 1 .. Len(q[l]) : r[l][i] = q[l][i]
  /\ r[l][Len(q[l]) + 1].op = op
  /\ \A k \in Loops : k # l => r[k] = q[k]
  /\ \A k \in Loops : \A o : QHas(r, k, o) <=> QHas(q, k, o) \/ (k = l /\ o = op)

(* r is q without the first functor of loop l. *)
Shrunk(q, l, r) ==
  /\ r \in Queues
  /\ Head(q[l]) = q[l][1] /\ Head(q[l]) \in Functors /\ Len(q[l]) >= 1
  /\ Len(r[l]) = Len(q[l]) - 1 /\ Len(q[l]) \in Nat
  /\ \A i \in 1 .. Len(r[l]) : r[l][i] = q[l][i + 1]
  /\ \A k \in Loops : k # l => r[k] = q[k]
  /\ \A k \in Loops : \A o : QHas(r, k, o) => QHas(q, k, o)
  /\ \A k \in Loops : \A o : QHas(q, k, o) /\ ~(k = l /\ o = Head(q[l]).op) => QHas(r, k, o)
  /\ QHas(q, l, Head(q[l]).op)

(* queueInLoop appends. *)
LEMMA EnqueueIs ==
  ASSUME NEW q \in Queues, NEW l \in Loops, NEW op, NEW m,
         Functor(op, m) \in Functors, Functor(op, m).op = op, NEW r, r = Enqueue(q, l, op, m)
  PROVE  Grown(q, l, op, r)
<1>0. q \in [Loops -> Seq(Functors)]
  BY DEF Queues
<1> DEFINE f == Functor(op, m)
<1>1. q[l] \in Seq(Functors) /\ f \in Functors /\ f.op = op
  BY <1>0
<1>2. r = [q EXCEPT ![l] = Append(@, f)]
  BY DEF Enqueue
<1> HIDE DEF f
<1>3. r[l] = Append(q[l], f) /\ \A k \in Loops : k # l => r[k] = q[k]
  BY <1>0, <1>2
<1>4. /\ r[l] \in Seq(Functors) /\ Len(r[l]) = Len(q[l]) + 1 /\ Len(q[l]) \in Nat
      /\ \A i \in 1 .. Len(q[l]) : r[l][i] = q[l][i]
      /\ r[l][Len(q[l]) + 1] = f
  BY <1>1, <1>3
<1>5. r \in [Loops -> Seq(Functors)]
  BY <1>0, <1>2, <1>3, <1>4
<1>6. ASSUME NEW k \in Loops, NEW o PROVE QHas(r, k, o) <=> QHas(q, k, o) \/ (k = l /\ o = op)
  <2>1. CASE k # l
    BY <1>3, <2>1 DEF QHas
  <2>2. CASE k = l
    <3>1. ASSUME QHas(r, l, o) PROVE QHas(q, l, o) \/ o = op
      <4>1. PICK i \in 1 .. Len(r[l]) : r[l][i].op = o
        BY <3>1 DEF QHas
      <4>2. CASE i = Len(q[l]) + 1
        BY <1>1, <1>4, <4>1, <4>2
      <4>3. CASE i # Len(q[l]) + 1
        <5>1. i \in 1 .. Len(q[l])
          BY <1>4, <4>3
        <5> QED
          BY <1>4, <4>1, <5>1 DEF QHas
      <4> QED
        BY <4>2, <4>3
    <3>2. ASSUME QHas(q, l, o) PROVE QHas(r, l, o)
      <4>1. PICK i \in 1 .. Len(q[l]) : q[l][i].op = o
        BY <3>2 DEF QHas
      <4>2. i \in 1 .. Len(r[l])
        BY <1>4
      <4> QED
        BY <1>4, <4>1, <4>2 DEF QHas
    <3>3. ASSUME o = op PROVE QHas(r, l, o)
      <4>1. Len(q[l]) + 1 \in 1 .. Len(r[l])
        BY <1>4
      <4> QED
        BY <1>1, <1>4, <3>3, <4>1 DEF QHas
    <3> QED
      BY <2>2, <3>1, <3>2, <3>3
  <2> QED
    BY <2>1, <2>2
<1> QED
  BY <1>1, <1>3, <1>4, <1>5, <1>6 DEF Grown, Queues

(* The first element and the others. *)
LEMMA FirstAndRest ==
  ASSUME NEW S, NEW s \in Seq(S), s # <<>>
  PROVE  /\ Tail(s) \in Seq(S) /\ Len(Tail(s)) = Len(s) - 1
         /\ \A i \in 1 .. Len(Tail(s)) : Tail(s)[i] = s[i + 1]
         /\ Head(s) = s[1] /\ Head(s) \in S
OBVIOUS

(* doPendingFunctors takes the first functor. *)
LEMMA DequeueIs ==
  ASSUME NEW q \in Queues, NEW l \in Loops, q[l] # <<>>,
         NEW r, r = [q EXCEPT ![l] = Tail(@)]
  PROVE  Shrunk(q, l, r)
<1>0. q \in [Loops -> Seq(Functors)]
  BY DEF Queues
<1>1. q[l] \in Seq(Functors) /\ Len(q[l]) \in Nat /\ Len(q[l]) >= 1
  BY <1>0
<1>2. r[l] = Tail(q[l]) /\ \A k \in Loops : k # l => r[k] = q[k]
  BY <1>0
<1>3. /\ r[l] \in Seq(Functors) /\ Len(r[l]) = Len(q[l]) - 1
      /\ \A i \in 1 .. Len(r[l]) : r[l][i] = q[l][i + 1]
      /\ Head(q[l]) = q[l][1] /\ Head(q[l]) \in Functors
  <2>1. q[l] \in Seq(Functors) /\ r[l] = Tail(q[l])
    BY <1>1, <1>2
  <2> QED
    BY <2>1, FirstAndRest, Zenon
<1>4. r \in [Loops -> Seq(Functors)]
  BY <1>0, <1>2, <1>3
<1>5. ASSUME NEW k \in Loops, NEW o, QHas(r, k, o) PROVE QHas(q, k, o)
  <2>1. CASE k # l
    BY <1>2, <1>5, <2>1 DEF QHas
  <2>2. CASE k = l
    <3>1. PICK i \in 1 .. Len(r[l]) : r[l][i].op = o
      BY <1>5, <2>2 DEF QHas
    <3>2. i + 1 \in 1 .. Len(q[l]) /\ q[l][i + 1].op = o
      BY <1>1, <1>3, <3>1
    <3> QED
      BY <2>2, <3>2 DEF QHas
  <2> QED
    BY <2>1, <2>2
<1>6. ASSUME NEW k \in Loops, NEW o, QHas(q, k, o), ~(k = l /\ o = Head(q[l]).op)
      PROVE  QHas(r, k, o)
  <2>1. CASE k # l
    BY <1>2, <1>6, <2>1 DEF QHas
  <2>2. CASE k = l
    <3>1. PICK i \in 1 .. Len(q[l]) : q[l][i].op = o
      BY <1>6, <2>2 DEF QHas
    <3>2. i # 1
      BY <1>3, <1>6, <2>2, <3>1
    <3>3. i - 1 \in 1 .. Len(r[l]) /\ (i - 1) + 1 = i
      BY <1>1, <1>3, <3>2
    <3>4. r[l][i - 1].op = o
      BY <1>3, <3>1, <3>3
    <3> QED
      BY <2>2, <3>3, <3>4 DEF QHas
  <2> QED
    BY <2>1, <2>2
<1>7. QHas(q, l, Head(q[l]).op)
  <2>1. 1 \in 1 .. Len(q[l])
    BY <1>1
  <2> QED
    BY <1>3, <2>1 DEF QHas
<1> QED
  BY <1>1, <1>2, <1>3, <1>4, <1>5, <1>6, <1>7 DEF Shrunk, Queues

-----------------------------------------------------------------------------
(* Callbacks.                                                               *)

(* The callbacks of Channel::handleEvent. *)
Kinds == {"close", "error", "read", "write"}

(* A list of callbacks that ends the connection at most once. *)
OneEnd(t) ==
  /\ t \in Seq(Kinds)
  /\ \A i, j \in 1 .. Len(t) : t[i] \in Ends /\ t[j] \in Ends => i = j

(* The callback k is in the list. *)
Has(t, k) == \E i \in 1 .. Len(t) : t[i] = k

(* Two lists put together, of which at most one ends the connection. *)
LEMMA JoinedLists ==
  ASSUME NEW s, NEW t, OneEnd(s), OneEnd(t),
         \/ ~Has(s, "close") /\ ~Has(s, "read")
         \/ ~Has(t, "close") /\ ~Has(t, "read")
  PROVE  OneEnd(s \o t) /\ \A k : Has(s \o t, k) => Has(s, k) \/ Has(t, k)
<1>1. s \in Seq(Kinds) /\ t \in Seq(Kinds) /\ Len(s) \in Nat /\ Len(t) \in Nat
  BY DEF OneEnd
<1> DEFINE u == s \o t
<1>2. u \in Seq(Kinds) /\ Len(u) = Len(s) + Len(t)
  BY <1>1
<1>3. \A i \in 1 .. Len(u) : u[i] = IF i <= Len(s) THEN s[i] ELSE t[i - Len(s)]
  BY <1>1
<1> HIDE DEF u
<1>4. \A i \in 1 .. Len(u) : i <= Len(s) => i \in 1 .. Len(s) /\ u[i] = s[i]
  BY <1>1, <1>2, <1>3
<1>5. \A i \in 1 .. Len(u) :
        ~(i <= Len(s)) => i - Len(s) \in 1 .. Len(t) /\ u[i] = t[i - Len(s)]
  BY <1>1, <1>2, <1>3
<1>6. ASSUME NEW k, Has(u, k) PROVE Has(s, k) \/ Has(t, k)
  <2>1. PICK i \in 1 .. Len(u) : u[i] = k
    BY <1>6 DEF Has
  <2> QED
    BY <1>4, <1>5, <2>1 DEF Has
<1>7. ASSUME NEW i \in 1 .. Len(u), NEW j \in 1 .. Len(u), u[i] \in Ends, u[j] \in Ends
      PROVE  i = j
  <2>1. CASE i <= Len(s) /\ j <= Len(s)
    BY <1>4, <1>7, <2>1 DEF OneEnd
  <2>2. CASE ~(i <= Len(s)) /\ ~(j <= Len(s))
    <3>1. i - Len(s) = j - Len(s)
      BY <1>5, <1>7, <2>2 DEF OneEnd
    <3> QED
      BY <1>1, <1>2, <3>1
  <2>3. CASE i <= Len(s) /\ ~(j <= Len(s))
    <3>1. (Has(s, "close") \/ Has(s, "read")) /\ (Has(t, "close") \/ Has(t, "read"))
      BY <1>4, <1>5, <1>7, <2>3 DEF Has, Ends
    <3> QED
      BY <3>1
  <2>4. CASE ~(i <= Len(s)) /\ j <= Len(s)
    <3>1. (Has(s, "close") \/ Has(s, "read")) /\ (Has(t, "close") \/ Has(t, "read"))
      BY <1>4, <1>5, <1>7, <2>4 DEF Has, Ends
    <3> QED
      BY <3>1
  <2> QED
    BY <2>1, <2>2, <2>3, <2>4
<1>8. OneEnd(u)
  BY <1>2, <1>7 DEF OneEnd
<1> QED
  BY <1>6, <1>8 DEF u

(* A callback that is made or not. *)
Maybe(c, k) == IF c THEN <<k>> ELSE <<>>

(* What such a list holds. *)
LEMMA MaybeIs ==
  ASSUME NEW c, NEW k \in Kinds
  PROVE  OneEnd(Maybe(c, k)) /\ \A o : Has(Maybe(c, k), o) <=> c /\ o = k
<1>1. CASE c
  <2>1. Maybe(c, k) = <<k>> /\ Len(<<k>>) = 1 /\ <<k>>[1] = k
    BY <1>1 DEF Maybe
  <2>2. 1 .. Len(<<k>>) = {1}
    BY <2>1
  <2>3. <<k>> \in Seq(Kinds)
    OBVIOUS
  <2> QED
    BY <1>1, <2>1, <2>2, <2>3 DEF OneEnd, Has
<1>2. CASE ~c
  <2>1. Maybe(c, k) = <<>> /\ Len(<<>>) = 0 /\ <<>> \in Seq(Kinds) /\ 1 .. 0 = {}
    BY <1>2 DEF Maybe
  <2> QED
    BY <1>2, <2>1 DEF OneEnd, Has
<1> QED
  BY <1>1, <1>2

(* Channel::handleEventWithGuard: close is called only without input, and    *)
(* read only with it.                                                        *)
LEMMA CallbacksAre ==
  ASSUME NEW rev
  PROVE  /\ OneEnd(Callbacks(rev))
         /\ \A i \in 1 .. Len(Callbacks(rev)) : Callbacks(rev)[i] = "read" => "in" \in rev
<1> DEFINE a == Maybe("hup" \in rev /\ "in" \notin rev, "close")
           b == Maybe("err" \in rev, "error")
           c == Maybe("in" \in rev, "read")
           d == Maybe("out" \in rev, "write")
<1>0. "error" \in Kinds /\ "read" \in Kinds /\ "write" \in Kinds
  BY DEF Kinds
<1>1. Callbacks(rev) = ((a \o b) \o c) \o d
  BY DEF Callbacks, Maybe
<1>2. OneEnd(a) /\ \A o : Has(a, o) <=> ("hup" \in rev /\ "in" \notin rev) /\ o = "close"
  BY MaybeIs DEF Kinds
<1>3. OneEnd(b) /\ \A o : Has(b, o) <=> "err" \in rev /\ o = "error"
  BY <1>0, MaybeIs, Zenon
<1>4. OneEnd(c) /\ \A o : Has(c, o) <=> "in" \in rev /\ o = "read"
  BY <1>0, MaybeIs, Zenon
<1>5. OneEnd(d) /\ \A o : Has(d, o) <=> "out" \in rev /\ o = "write"
  BY <1>0, MaybeIs, Zenon
<1> HIDE DEF a, b, c, d
<1>6. OneEnd(a \o b) /\ \A o : Has(a \o b, o) => Has(a, o) \/ Has(b, o)
  <2>1. ~Has(b, "close") /\ ~Has(b, "read")
    BY <1>3
  <2> QED
    BY <1>2, <1>3, <2>1, JoinedLists
<1>7. OneEnd((a \o b) \o c) /\ \A o : Has((a \o b) \o c, o) => Has(a \o b, o) \/ Has(c, o)
  <2>1. \/ ~Has(a \o b, "close") /\ ~Has(a \o b, "read")
        \/ ~Has(c, "close") /\ ~Has(c, "read")
    BY <1>2, <1>3, <1>4, <1>6
  <2> QED
    BY <1>4, <1>6, <2>1, JoinedLists
<1>8. /\ OneEnd(((a \o b) \o c) \o d)
      /\ \A o : Has(((a \o b) \o c) \o d, o) => Has((a \o b) \o c, o) \/ Has(d, o)
  <2>1. ~Has(d, "close") /\ ~Has(d, "read")
    BY <1>5
  <2> QED
    BY <1>5, <1>7, <2>1, JoinedLists
<1>9. Has(Callbacks(rev), "read") => "in" \in rev
  BY <1>1, <1>2, <1>3, <1>4, <1>5, <1>6, <1>7, <1>8
<1> QED
  BY <1>1, <1>8, <1>9 DEF Has

(* The write callback is the last one. *)
WriteLast(t) == \A i \in 1 .. Len(t) : t[i] = "write" => i = Len(t)

(* Channel::handleEventWithGuard calls it last. *)
LEMMA CallbacksWriteLast ==
  ASSUME NEW rev
  PROVE  WriteLast(Callbacks(rev))
<1> DEFINE a == Maybe("hup" \in rev /\ "in" \notin rev, "close")
           b == Maybe("err" \in rev, "error")
           c == Maybe("in" \in rev, "read")
           d == Maybe("out" \in rev, "write")
           s == (a \o b) \o c
<1>0. "close" \in Kinds /\ "error" \in Kinds /\ "read" \in Kinds /\ "write" \in Kinds
  BY DEF Kinds
<1>1. Callbacks(rev) = s \o d
  BY DEF Callbacks, Maybe
<1>2. OneEnd(a) /\ OneEnd(b) /\ OneEnd(c) /\ OneEnd(d)
  BY <1>0, MaybeIs, Zenon
<1>3. \A o : Has(a, o) => o = "close"
  BY <1>0, MaybeIs, Zenon
<1>4. \A o : Has(b, o) => o = "error"
  BY <1>0, MaybeIs, Zenon
<1>5. \A o : Has(c, o) => o = "read"
  BY <1>0, MaybeIs, Zenon
<1>6. d \in Seq(Kinds) /\ Len(d) <= 1
  BY <1>2 DEF OneEnd, Maybe
<1> HIDE DEF a, b, c, d
<1>7. OneEnd(a \o b) /\ \A o : Has(a \o b, o) => Has(a, o) \/ Has(b, o)
  BY <1>2, <1>4, JoinedLists
<1>8. OneEnd(s) /\ ~Has(s, "write")
  <2>1. CASE "in" \in rev
    <3>1. ~Has(a, "close") /\ ~Has(a, "read")
      BY <2>1, <1>0, MaybeIs, Zenon DEF a
    <3>2. ~Has(a \o b, "close") /\ ~Has(a \o b, "read")
      BY <1>4, <1>7, <3>1
    <3> QED
      BY <1>2, <1>3, <1>4, <1>5, <1>7, <3>2, JoinedLists
  <2>2. CASE "in" \notin rev
    <3>1. \A o : Has(c, o) <=> "in" \in rev /\ o = "read"
      BY <1>0, MaybeIs, Zenon DEF c
    <3>2. ~Has(c, "close") /\ ~Has(c, "read")
      BY <2>2, <3>1, Zenon
    <3> QED
      BY <1>2, <1>3, <1>4, <1>5, <1>7, <3>2, JoinedLists
  <2> QED
    BY <2>1, <2>2
<1> HIDE DEF s
<1>9. s \in Seq(Kinds)
  BY <1>8 DEF OneEnd
<1>10. /\ s \o d \in Seq(Kinds) /\ Len(s \o d) = Len(s) + Len(d)
       /\ \A i \in 1 .. Len(s) + Len(d) : (s \o d)[i] =
                     IF i <= Len(s) THEN s[i] ELSE d[i - Len(s)]
  BY <1>6, <1>9, ConcatProperties, Zenon
<1>11. Len(s) \in Nat /\ Len(d) \in Nat
  BY <1>6, <1>9
<1>12. ASSUME NEW i \in 1 .. Len(s \o d), (s \o d)[i] = "write" PROVE i = Len(s \o d)
  <2>1. CASE i <= Len(s)
    <3>1. i \in 1 .. Len(s) /\ s[i] = "write"
      BY <1>10, <1>11, <1>12, <2>1
    <3> QED
      BY <1>8, <3>1 DEF Has
  <2>2. CASE ~(i <= Len(s))
    BY <1>6, <1>10, <1>11, <2>2
  <2> QED
    BY <2>1, <2>2
<1>13. WriteLast(s \o d)
  BY <1>12 DEF WriteLast
<1> QED
  BY <1>1, <1>13, Zenon

(* The callbacks that are left after the first one. *)
LEMMA TailOfTodo ==
  ASSUME NEW t, OneEnd(t), t # <<>>, NEW u, u = Tail(t)
  PROVE  /\ OneEnd(u) /\ Head(t) = t[1] /\ 1 \in 1 .. Len(t)
         /\ \A i \in 1 .. Len(u) : u[i] = t[i + 1] /\ i + 1 \in 1 .. Len(t)
         /\ Head(t) \in Ends => \A i \in 1 .. Len(u) : u[i] \notin Ends
<1>1. t \in Seq(Kinds)
  BY DEF OneEnd
<1>2. Len(t) \in Nat /\ Len(t) >= 1 /\ Head(t) = t[1]
  BY <1>1
<1>3. u \in Seq(Kinds) /\ Len(u) = Len(t) - 1 /\ \A i \in 1 .. Len(u) : u[i] = t[i + 1]
  BY <1>1
<1>4. \A i \in 1 .. Len(u) : i + 1 \in 1 .. Len(t) /\ i + 1 # 1
  BY <1>2, <1>3
<1>5. OneEnd(u)
  BY <1>2, <1>3, <1>4 DEF OneEnd
<1>6. Head(t) \in Ends => \A i \in 1 .. Len(u) : u[i] \notin Ends
  BY <1>2, <1>3, <1>4 DEF OneEnd
<1> QED
  BY <1>2, <1>3, <1>4, <1>5, <1>6

(* And so it stays. *)
LEMMA ShiftedWriteLast ==
  ASSUME NEW t, NEW u, NEW n \in Nat, n >= 1, Len(t) = n, Len(u) = n - 1,
         \A i \in 1 .. n - 1 : u[i] = t[i + 1], WriteLast(t)
  PROVE  WriteLast(u) /\ (t[1] = "write" => Len(u) = 0)
<1>1. \A i \in 1 .. n : t[i] = "write" => i = n
  BY DEF WriteLast
<1>2. \A i \in 1 .. n - 1 : u[i] = "write" => i = n - 1
  <2> SUFFICES ASSUME NEW i \in 1 .. n - 1, u[i] = "write" PROVE i = n - 1
    OBVIOUS
  <2>1. i + 1 \in 1 .. n /\ t[i + 1] = "write"
    OBVIOUS
  <2>2. i + 1 = n
    BY <1>1, <2>1
  <2> QED
    BY <2>2
<1>3. t[1] = "write" => n = 1
  BY <1>1
<1> QED
  BY <1>2, <1>3 DEF WriteLast

(* So it does when the first callback has been made. *)
LEMMA TailWriteLast ==
  ASSUME NEW t \in Seq(Kinds), WriteLast(t), t # <<>>
  PROVE  WriteLast(Tail(t)) /\ (Head(t) = "write" => Tail(t) = <<>>)
<1>1. PICK u : u = Tail(t)
  OBVIOUS
<1>2. PICK n \in Nat : n = Len(t) /\ n >= 1 /\ Head(t) = t[1]
  OBVIOUS
<1>3. u \in Seq(Kinds) /\ Len(u) = Len(t) - 1 /\ \A i \in 1 .. Len(u) : u[i] = t[i + 1]
  BY <1>1, FirstAndRest, Zenon
<1>4. Len(u) = n - 1 /\ \A i \in 1 .. n - 1 : u[i] = t[i + 1]
  BY <1>2, <1>3, Zenon
<1>5. WriteLast(u) /\ (t[1] = "write" => Len(u) = 0)
  BY <1>2, <1>4, ShiftedWriteLast
<1>6. Len(u) = 0 => u = <<>>
  BY <1>3
<1> QED
  BY <1>1, <1>2, <1>5, <1>6, Zenon

-----------------------------------------------------------------------------
(* Bytes.                                                                   *)

(* The bytes of messages. *)
Octets == Msgs \X (1 .. MsgLen)

(* The messages a, whole and in order: what BytesInOrder asks for. *)
Flat(a) == [i \in 1 .. Len(a) * MsgLen |-> <<a[((i - 1) \div MsgLen) + 1], ((i - 1) % MsgLen) + 1>>]

(* A quotient with a remainder below the divisor is the quotient. *)
LEMMA UniqueQuotient ==
  ASSUME NEW M \in Nat \ {0}, NEW a \in Int, NEW b \in Int,
         NEW j \in 0 .. M - 1, NEW k \in 0 .. M - 1, M * a + j = M * b + k
  PROVE  a = b /\ j = k
<1> DEFINE x == M * a
           y == M * b
<1>1. x \in Int /\ y \in Int /\ x + j = y + k
  OBVIOUS
<1>2. a + 1 <= b => x + M <= y
  OBVIOUS
<1>3. b + 1 <= a => y + M <= x
  OBVIOUS
<1>4. a = b => x = y
  OBVIOUS
<1> HIDE DEF x, y
<1>5. ~(a + 1 <= b) /\ ~(b + 1 <= a)
  BY <1>1, <1>2, <1>3
<1>6. a = b
  BY <1>5
<1> QED
  BY <1>1, <1>4, <1>6

(* Division by the length of a message. *)
LEMMA DivisionIs ==
  ASSUME NEW M \in Nat \ {0}, NEW x \in Nat
  PROVE  x \div M \in Nat /\ x % M \in 0 .. M - 1 /\ x = M * (x \div M) + (x % M)
OBVIOUS

(* The bytes of the first message messages, and those of the next one. *)
LEMMA PositionIs ==
  ASSUME NEW M \in Nat \ {0}, NEW L \in Nat
  PROVE  /\ \A i \in 1 .. L * M : (i - 1) \div M \in 0 .. L - 1 /\ (i - 1) % M \in 0 .. M - 1
         /\ \A j \in 1 .. M : /\ ((L * M + j) - 1) \div M = L
                              /\ ((L * M + j) - 1) % M = j - 1
<1>1. ASSUME NEW i \in 1 .. L * M
      PROVE  (i - 1) \div M \in 0 .. L - 1 /\ (i - 1) % M \in 0 .. M - 1
  <2>1. L * M \in Nat /\ L * M = M * L
    OBVIOUS
  <2>2. i - 1 \in Nat /\ i - 1 < M * L
    BY <2>1
  <2>3. PICK q \in Nat, r \in 0 .. M - 1 :
          q = (i - 1) \div M /\ r = (i - 1) % M /\ i - 1 = M * q + r
    BY <2>2, DivisionIs
  <2>4. ~(L <= q)
    <3>1. L <= q => M * L <= M * q
      OBVIOUS
    <3>2. M * L \in Nat /\ M * q \in Nat
      OBVIOUS
    <3> QED
      BY <2>2, <2>3, <3>1, <3>2
  <2> QED
    BY <2>3, <2>4
<1>2. ASSUME NEW j \in 1 .. M
      PROVE  ((L * M + j) - 1) \div M = L /\ ((L * M + j) - 1) % M = j - 1
  <2>1. L * M \in Nat /\ L * M = M * L
    OBVIOUS
  <2> DEFINE x == (L * M + j) - 1
  <2>2. x \in Nat /\ x = M * L + (j - 1) /\ j - 1 \in 0 .. M - 1
    BY <2>1
  <2> HIDE DEF x
  <2>3. PICK q \in Nat, r \in 0 .. M - 1 : q = x \div M /\ r = x % M /\ x = M * q + r
    BY <2>2, DivisionIs
  <2>4. q = L /\ r = j - 1
    BY <2>2, <2>3, UniqueQuotient
  <2> QED
    BY <2>3, <2>4 DEF x
<1> QED
  BY <1>1, <1>2

(* The bytes of a message. *)
LEMMA BytesAre ==
  ASSUME NEW m \in Msgs
  PROVE  Bytes(m) \in Seq(Octets) /\ Len(Bytes(m)) = MsgLen /\ MsgLen \in Nat \ {0}
<1>1. MsgLen \in Nat \ {0}
  BY ConnAssumption
<1>2. Bytes(m) \in [1 .. MsgLen -> Octets]
  BY DEF Bytes, Octets
<1> QED
  BY <1>1, <1>2

(* One more accepted message is one more run of bytes. *)
LEMMA FlatAppend ==
  ASSUME NEW a \in Seq(Msgs), NEW m \in Msgs
  PROVE  Flat(Append(a, m)) = Flat(a) \o Bytes(m) /\ Flat(a) \in Seq(Octets)
<1> DEFINE b == Append(a, m)
           L == Len(a)
           N == L * MsgLen
<1>1. MsgLen \in Nat \ {0} /\ L \in Nat
  BY BytesAre
<1>2. b \in Seq(Msgs) /\ Len(b) = L + 1 /\ b[L + 1] = m /\ \A i \in 1 .. L : b[i] = a[i] /\ a[i] \in Msgs
  OBVIOUS
<1>3. N \in Nat /\ (L + 1) * MsgLen = N + MsgLen
  BY <1>1
<1> HIDE DEF b
<1>4. Flat(b) = [i \in 1 .. N + MsgLen |-> <<b[((i - 1) \div MsgLen) + 1], ((i - 1) % MsgLen) + 1>>]
  BY <1>2, <1>3 DEF Flat
<1>5. Flat(a) = [i \in 1 .. N |-> <<a[((i - 1) \div MsgLen) + 1], ((i - 1) % MsgLen) + 1>>]
  BY DEF Flat
<1>6. \A i \in 1 .. N : /\ ((i - 1) \div MsgLen) + 1 \in 1 .. L
                        /\ ((i - 1) % MsgLen) + 1 \in 1 .. MsgLen
  <2>1. \A i \in 1 .. L * MsgLen :
          (i - 1) \div MsgLen \in 0 .. L - 1 /\ (i - 1) % MsgLen \in 0 .. MsgLen - 1
    BY <1>1, PositionIs
  <2> QED
    BY <1>1, <2>1
<1>7. \A j \in 1 .. MsgLen : ((N + j) - 1) \div MsgLen = L /\ ((N + j) - 1) % MsgLen = j - 1
  BY <1>1, PositionIs
<1> HIDE DEF N
<1>8. \A i \in 1 .. N : Flat(a)[i] \in Octets /\ Flat(b)[i] = Flat(a)[i]
  <2> SUFFICES ASSUME NEW i \in 1 .. N PROVE Flat(a)[i] \in Octets /\ Flat(b)[i] = Flat(a)[i]
    OBVIOUS
  <2>1. PICK p \in 1 .. L, r \in 1 .. MsgLen :
          p = ((i - 1) \div MsgLen) + 1 /\ r = ((i - 1) % MsgLen) + 1
    BY <1>6
  <2>2. Flat(a)[i] = <<a[p], r>>
    BY <1>5, <2>1
  <2>3. i \in 1 .. N + MsgLen
    BY <1>1, <1>3
  <2>4. Flat(b)[i] = <<b[p], r>>
    BY <1>4, <2>1, <2>3
  <2> QED
    BY <1>2, <2>2, <2>4 DEF Octets
<1>9. Flat(a) \in Seq(Octets) /\ Len(Flat(a)) = N
  <2>1. Flat(a) \in [1 .. N -> Octets]
    BY <1>5, <1>8
  <2> QED
    BY <1>3, <2>1
<1>10. \A j \in 1 .. MsgLen : Flat(b)[N + j] = <<m, j>>
  <2> SUFFICES ASSUME NEW j \in 1 .. MsgLen PROVE Flat(b)[N + j] = <<m, j>>
    OBVIOUS
  <2>1. N + j \in 1 .. N + MsgLen /\ (L + 1) \in Nat /\ (j - 1) + 1 = j
    BY <1>1, <1>3
  <2>2. Flat(b)[N + j] = <<b[(((N + j) - 1) \div MsgLen) + 1], (((N + j) - 1) % MsgLen) + 1>>
    BY <1>4, <2>1
  <2>3. ((N + j) - 1) \div MsgLen = L /\ ((N + j) - 1) % MsgLen = j - 1
    BY <1>7
  <2> QED
    BY <1>2, <2>1, <2>2, <2>3
<1>11. Flat(b) \in Seq(Octets) /\ Len(Flat(b)) = N + MsgLen
  <2>1. \A i \in 1 .. N + MsgLen : Flat(b)[i] \in Octets
    <3> SUFFICES ASSUME NEW i \in 1 .. N + MsgLen PROVE Flat(b)[i] \in Octets
      OBVIOUS
    <3>1. CASE i <= N
      <4>1. i \in 1 .. N
        BY <1>3, <3>1
      <4> QED
        BY <1>8, <4>1
    <3>2. CASE ~(i <= N)
      <4>1. i - N \in 1 .. MsgLen /\ N + (i - N) = i
        BY <1>1, <1>3, <3>2
      <4>2. Flat(b)[i] = <<m, i - N>>
        BY <1>10, <4>1
      <4> QED
        BY <4>1, <4>2 DEF Octets
    <3> QED
      BY <3>1, <3>2
  <2>2. N + MsgLen \in Nat
    BY <1>1, <1>3
  <2>3. Flat(b) \in [1 .. N + MsgLen -> Octets]
    BY <1>4, <2>1
  <2> QED
    BY <2>2, <2>3
<1>12. Flat(b) = Flat(a) \o Bytes(m)
  <2> DEFINE c == Flat(a) \o Bytes(m)
  <2>1. c \in Seq(Octets) /\ Len(c) = N + MsgLen
    BY <1>9, BytesAre
  <2>2. ASSUME NEW i \in 1 .. Len(c) PROVE c[i] = Flat(b)[i]
    <3>1. CASE i <= N
      <4>1. i \in 1 .. N
        BY <1>3, <2>1, <3>1
      <4>2. c[i] = Flat(a)[i]
        BY <1>9, BytesAre, <4>1
      <4> QED
        BY <1>8, <4>1, <4>2
    <3>2. CASE ~(i <= N)
      <4>1. i - N \in 1 .. MsgLen /\ N + (i - N) = i
        BY <1>1, <1>3, <2>1, <3>2
      <4>2. c[i] = Bytes(m)[i - N]
        BY <1>9, BytesAre, <3>2, <4>1
      <4>3. Bytes(m)[i - N] = <<m, i - N>>
        BY <4>1 DEF Bytes
      <4> QED
        BY <1>10, <4>1, <4>2, <4>3
    <3> QED
      BY <3>1, <3>2
  <2>3. Len(c) = Len(Flat(b))
    BY <1>11, <2>1
  <2> HIDE DEF c
  <2>4. c = Flat(b)
    BY <1>11, <2>1, <2>2, <2>3, SeqEqual
  <2> QED
    BY <2>4 DEF c
<1> QED
  BY <1>9, <1>12 DEF b

(* Concatenation is associative, as a fact to instantiate by name. *)
Assoc(x, y, z) == (x \o y) \o z = x \o (y \o z)

(* Concatenation is associative. *)
LEMMA Associative ==
  ASSUME NEW S, NEW x \in Seq(S), NEW y \in Seq(S), NEW z \in Seq(S)
  PROVE  Assoc(x, y, z)
BY ConcatAssociative DEF Assoc

(* Two halves of a sequence put together again. *)
LEMMA JoinHalves ==
  ASSUME NEW S, NEW s \in Seq(S), NEW a \in Seq(S), NEW b \in Seq(S),
         NEW n \in Nat, n <= Len(s), Len(a) = n, Len(b) = Len(s) - n,
         \A i \in 1 .. n : a[i] = s[i], \A i \in 1 .. Len(s) - n : b[i] = s[n + i]
  PROVE  a \o b = s
<1> DEFINE c == a \o b
<1>0. /\ c \in Seq(S) /\ Len(c) = Len(a) + Len(b)
      /\ \A i \in 1 .. Len(a) + Len(b) : c[i] = IF i <= Len(a) THEN a[i] ELSE b[i - Len(a)]
  BY ConcatProperties, Zenon
<1> HIDE DEF c
<1>1. c \in Seq(S) /\ Len(c) = Len(s) /\ Len(s) \in Nat
      /\ \A i \in 1 .. Len(s) : c[i] = IF i <= n THEN a[i] ELSE b[i - n]
  BY <1>0
<1>2. ASSUME NEW i \in 1 .. Len(c) PROVE c[i] = s[i]
  <2>1. CASE i <= n
    BY <1>1, <2>1
  <2>2. CASE ~(i <= n)
    <3>1. c[i] = b[i - n]
      BY <1>1, <2>2
    <3>2. i - n \in 1 .. Len(s) - n /\ n + (i - n) = i
      BY <1>1, <2>2
    <3> QED
      BY <3>1, <3>2
  <2> QED
    BY <2>1, <2>2
<1>3. c = s
  BY <1>1, <1>2, SeqEqual
<1> QED
  BY <1>3 DEF c

(* A sequence cut in two. *)
Halves(S, s, n, a, b) ==
  /\ a \in Seq(S) /\ b \in Seq(S) /\ a \o b = s /\ Len(a) = n /\ Len(b) = Len(s) - n
  /\ n = 0 => a = <<>> /\ b = s
  /\ n = Len(s) => a = s /\ b = <<>>

(* SubSeq cuts a sequence in two. *)
LEMMA CutInTwo ==
  ASSUME NEW S, NEW s \in Seq(S), NEW n \in Nat, n <= Len(s)
  PROVE  Halves(S, s, n, SubSeq(s, 1, n), SubSeq(s, n + 1, Len(s)))
<1> DEFINE a == SubSeq(s, 1, n)
           b == SubSeq(s, n + 1, Len(s))
<1>1. Len(s) \in Nat /\ \A i \in 1 .. Len(s) : s[i] \in S
  OBVIOUS
<1>2. a \in Seq(S) /\ Len(a) = n /\ \A i \in 1 .. n : a[i] = s[i]
  BY <1>1, SubSeqProperties
<1>3. b \in Seq(S) /\ Len(b) = Len(s) - n /\ \A i \in 1 .. Len(s) - n : b[i] = s[n + i]
  <2>1. \A i \in n + 1 .. Len(s) : s[i] \in S
    BY <1>1
  <2>2. /\ b \in Seq(S) /\ Len(b) = IF n + 1 <= Len(s) THEN Len(s) - (n + 1) + 1 ELSE 0
        /\ \A i \in 1 .. Len(s) - (n + 1) + 1 : b[i] = s[(n + 1) + i - 1]
    BY <1>1, <2>1, SubSeqProperties
  <2> QED
    BY <1>1, <2>2
<1> HIDE DEF a, b
<1>4. a \o b = s
  BY <1>2, <1>3, JoinHalves, Zenon
<1>5. n = 0 => a = <<>>
  BY <1>2
<1>6. n = Len(s) => b = <<>>
  BY <1>1, <1>3
<1>7. <<>> \o b = b /\ a \o <<>> = a
  BY <1>2, <1>3, ConcatEmptySeq, Zenon
<1>8. Halves(S, s, n, a, b)
  BY <1>2, <1>3, <1>4, <1>5, <1>6, <1>7, Zenon DEF Halves
<1> QED
  BY <1>8 DEF a, b

(* The wire and the buffer after a send hold what they held, and then b. *)
InOrder(S, o, w, b, n, first, rest) ==
  /\ w \o first \in Seq(S) /\ o \o rest \in Seq(S)
  /\ (w \o first) \o (o \o rest) = (w \o o) \o b
  /\ rest = <<>> => n > 0
  /\ o \o rest = <<>> <=> o = <<>> /\ rest = <<>>

(* sendInLoop cuts the bytes b in two: the first n go to the wire w, the rest *)
(* goes behind the buffered ones o; n > 0 only when nothing is buffered.      *)
LEMMA SentBehind ==
  ASSUME NEW S, NEW o \in Seq(S), NEW w \in Seq(S), NEW b \in Seq(S), Len(b) > 0,
         NEW n \in Nat, n > 0 => o = <<>>,
         NEW first, NEW rest, Halves(S, b, n, first, rest)
  PROVE  InOrder(S, o, w, b, n, first, rest)
<1>1. /\ first \in Seq(S) /\ rest \in Seq(S) /\ first \o rest = b
      /\ Len(first) = n /\ Len(rest) = Len(b) - n
      /\ n = 0 => first = <<>> /\ rest = b
  BY DEF Halves
<1>3. w \o first \in Seq(S) /\ o \o rest \in Seq(S)
  BY <1>1, ConcatProperties, Zenon
<1>4. o \o rest = <<>> <=> o = <<>> /\ rest = <<>>
  <2>1. rest \in Seq(S)
    BY <1>1
  <2> QED
    BY <2>1, ConcatEqualIffEmpty
<1>5. rest = <<>> => n > 0
  <2>1. rest = <<>> => Len(rest) = 0
    OBVIOUS
  <2>2. Len(b) \in Nat
    OBVIOUS
  <2> QED
    BY <1>1, <2>1, <2>2
<1>6. (w \o first) \o (o \o rest) = (w \o o) \o b
  <2>0. first \in Seq(S) /\ rest \in Seq(S)
    BY <1>1
  <2>1. CASE n > 0
    <3>1. <<>> \o rest = rest /\ w \o <<>> = w
      BY <2>0, ConcatEmptySeq, Zenon
    <3>2. o = <<>>
      BY <2>1
    <3>3. o \o rest = rest /\ w \o o = w
      BY <3>1, <3>2, Zenon
    <3>4. (w \o first) \o rest = w \o (first \o rest)
      <4>1. Assoc(w, first, rest)
        BY <1>1, Associative, Zenon
      <4> QED
        BY <4>1, Zenon DEF Assoc
    <3> QED
      BY <1>1, <3>3, <3>4, Zenon
  <2>2. CASE ~(n > 0)
    <3>1. first = <<>> /\ rest = b
      BY <1>1, <2>2
    <3>2. w \o <<>> = w
      BY ConcatEmptySeq, Zenon
    <3>3. w \o first = w
      BY <3>1, <3>2, Zenon
    <3>4. w \o (o \o b) = (w \o o) \o b
      BY ConcatAssociative
    <3> QED
      BY <3>1, <3>3, <3>4, Zenon
  <2> QED
    BY <2>1, <2>2
<1> QED
  BY <1>3, <1>4, <1>5, <1>6, Zenon DEF InOrder

(* What Types says of the variables that sendInLoop and handleWrite use. *)
Sound ==
  /\ out \in Seq(Octets) /\ wire \in Seq(Octets) /\ accepted \in Seq(Msgs)
  /\ events \subseteq {"in", "out"} /\ index \in {"kNew", "kAdded", "kDeleted"}
  /\ soError \in BOOLEAN /\ writeClosed \in BOOLEAN

(* sendInLoop(m) on a connection that takes the message: the bytes go behind *)
(* those of earlier messages, and what cannot leave at once leaves with a    *)
(* write event.                                                              *)
Takes(m) ==
  /\ state # "kDisconnected" /\ (writeClosed => ~Direct)
  /\ accepted' = Append(accepted, m) /\ wire' \o out' = (wire \o out) \o Bytes(m)
  /\ out' = <<>> => out = <<>> /\ ~Writing /\ events' = events /\ index' = index
  /\ out' # <<>> => \/ Writing /\ events' = events /\ index' = index
                    \/ ~Writing /\ events' = events \cup {"out"} /\ index' = "kAdded"

(* sendInLoop on a connection that is closed or broken. *)
Discards ==
  accepted' = accepted /\ wire' = wire /\ out' = out /\ events' = events /\ index' = index

(* After sendInLoop(m) on the queues q. *)
Sent(m, q) ==
  /\ rx' = rx /\ peer' = peer /\ writeClosed' = writeClosed /\ Sound'
  /\ \/ queue' = q
     \/ queue' = Enqueue(q, ioLoop, "writeComplete", NoMsg)
     \/ queue' = Enqueue(q, ioLoop, "highWaterMark", NoMsg)
  /\ Takes(m) \/ Discards

(* sendInLoop, all paths. *)
LEMMA SendIs ==
  ASSUME Sound, NEW m \in Msgs, NEW q, SendInLoop(m, q)
  PROVE  Sent(m, q)
<1>1. CASE /\ state = "kDisconnected"
           /\ queue' = q
           /\ UNCHANGED <<channel, out, socket, accepted>>
  BY <1>1 DEF Sent, Sound, Discards, channel, socket
<1>2. CASE /\ state # "kDisconnected" /\ Direct /\ WriteFails
           /\ soError' = FALSE
           /\ queue' = q
           /\ UNCHANGED <<channel, out, rx, peer, writeClosed, wire, accepted>>
  BY <1>2 DEF Sent, Sound, Discards, channel
<1>3. ASSUME state # "kDisconnected", Direct => ~WriteFails,
             NEW n \in IF Direct THEN 0 .. MsgLen ELSE {0}, NEW rest,
             rest = SubSeq(Bytes(m), n + 1, MsgLen),
             wire' = wire \o SubSeq(Bytes(m), 1, n), out' = out \o rest, WantOut(rest),
             queue' =
               IF rest = <<>> THEN Enqueue(q, ioLoop, "writeComplete", NoMsg)
               ELSE IF /\ Len(out) < HighWaterMark
                       /\ Len(out) + Len(rest) >= HighWaterMark
                    THEN Enqueue(q, ioLoop, "highWaterMark", NoMsg)
                    ELSE q,
             accepted' = Append(accepted, m), UNCHANGED <<rx, peer, soError, writeClosed>>
      PROVE  Sent(m, q)
  <2> DEFINE b == Bytes(m)
             first == SubSeq(b, 1, n)
  <2>1. b \in Seq(Octets) /\ Len(b) = MsgLen /\ MsgLen \in Nat \ {0}
    BY BytesAre
  <2>2. n \in Nat /\ n <= Len(b) /\ (n > 0 => Direct) /\ Len(b) > 0
    BY <2>1
  <2>3. out \in Seq(Octets) /\ wire \in Seq(Octets)
    BY DEF Sound
  <2> HIDE DEF b
  <2>4. first = SubSeq(b, 1, n) /\ rest = SubSeq(b, n + 1, Len(b))
    BY <1>3, <2>1 DEF b
  <2>5. wire' = wire \o first
    BY <1>3 DEF b
  <2>6. n > 0 => out = <<>>
    BY <2>2 DEF Direct
  <2> HIDE DEF first
  <2>7. /\ wire \o first \in Seq(Octets) /\ out \o rest \in Seq(Octets)
        /\ (wire \o first) \o (out \o rest) = (wire \o out) \o b
        /\ rest = <<>> => n > 0
        /\ out \o rest = <<>> <=> out = <<>> /\ rest = <<>>
    <3>1. Halves(Octets, b, n, first, rest)
      BY <2>1, <2>2, <2>4, CutInTwo, Zenon
    <3>2. InOrder(Octets, out, wire, b, n, first, rest)
      BY <2>1, <2>2, <2>3, <2>6, <3>1, SentBehind, Zenon
    <3> QED
      BY <3>2, Zenon DEF InOrder
  <2>8. /\ wire' \in Seq(Octets) /\ out' \in Seq(Octets) /\ wire' \o out' = (wire \o out) \o b
        /\ out' = <<>> <=> out = <<>> /\ rest = <<>>
    BY <1>3, <2>5, <2>7, Zenon
  <2>9. rest = <<>> => out = <<>> /\ ~Writing
    BY <2>2, <2>7, Zenon DEF Direct
  <2>12. rest = <<>> => events' = events /\ index' = index
    BY <1>3 DEF WantOut, channel
  <2>13. rest # <<>> =>
           \/ Writing /\ events' = events /\ index' = index
           \/ ~Writing /\ events' = events \cup {"out"} /\ index' = "kAdded"
    BY <1>3 DEF WantOut, SetEvents, UpdateIndex, channel
  <2>14. writeClosed => ~Direct
    BY <1>3 DEF WriteFails
  <2>15. Takes(m)
    BY <1>3, <2>8, <2>9, <2>12, <2>13, <2>14, Zenon DEF Takes, b
  <2>16. events' \subseteq {"in", "out"} /\ index' \in {"kNew", "kAdded", "kDeleted"}
    BY <2>12, <2>13 DEF Sound
  <2>17. accepted' \in Seq(Msgs)
    BY <1>3 DEF Sound
  <2>18. Sound'
    BY <1>3, <2>8, <2>16, <2>17 DEF Sound
  <2>19. \/ queue' = q
         \/ queue' = Enqueue(q, ioLoop, "writeComplete", NoMsg)
         \/ queue' = Enqueue(q, ioLoop, "highWaterMark", NoMsg)
    BY <1>3, Zenon
  <2> QED
    BY <1>3, <2>15, <2>18, <2>19 DEF Sent
<1>4. ASSUME /\ state # "kDisconnected" /\ (Direct => ~WriteFails)
             /\ \E n \in IF Direct THEN 0 .. MsgLen ELSE {0} :
                  LET rest == SubSeq(Bytes(m), n + 1, MsgLen) IN
                  /\ wire' = wire \o SubSeq(Bytes(m), 1, n)
                  /\ out' = out \o rest
                  /\ WantOut(rest)
                  /\ queue' =
                       IF rest = <<>> THEN Enqueue(q, ioLoop, "writeComplete", NoMsg)
                       ELSE IF /\ Len(out) < HighWaterMark
                               /\ Len(out) + Len(rest) >= HighWaterMark
                            THEN Enqueue(q, ioLoop, "highWaterMark", NoMsg)
                            ELSE q
             /\ accepted' = Append(accepted, m)
             /\ UNCHANGED <<rx, peer, soError, writeClosed>>
      PROVE  Sent(m, q)
  BY <1>3, <1>4
<1> QED
  BY <1>1, <1>2, <1>4 DEF SendInLoop

(* After handleWrite: nothing was written, or some bytes were, or the last    *)
(* ones, which ends the wait for write events and lets a shutdown go on.      *)
Written ==
  /\ rx' = rx /\ peer' = peer /\ Sound' /\ accepted' = accepted
  /\ wire' \o out' = wire \o out
  /\ \/ out' = out /\ events' = events /\ index' = index /\ queue' = queue
        /\ writeClosed' = writeClosed
     \/ /\ Writing /\ out' # <<>> /\ events' = events /\ index' = index /\ queue' = queue
        /\ writeClosed' = writeClosed /\ ~writeClosed
     \/ /\ Writing /\ out' = <<>> /\ events' = events \ {"out"}
        /\ index' = UpdateIndex(events \ {"out"})
        /\ queue' = Enqueue(queue, ioLoop, "writeComplete", NoMsg)

(* handleWrite, all paths. *)
LEMMA WriteIs ==
  ASSUME Sound, WriteEvent
  PROVE  Written
<1>0. accepted' = accepted
  BY DEF WriteEvent, history
<1>1. CASE ~Writing /\ UNCHANGED <<channel, out, queue, socket>>
  BY <1>0, <1>1 DEF Written, Sound, channel, socket
<1>2. CASE /\ Writing /\ WriteFails
           /\ soError' = FALSE
           /\ UNCHANGED <<channel, out, queue, rx, peer, writeClosed, wire>>
  BY <1>0, <1>2 DEF Written, Sound, channel
<1>3. ASSUME Writing, ~WriteFails, UNCHANGED <<rx, peer, soError>>, NEW n \in 1 .. Len(out),
             wire' = wire \o SubSeq(out, 1, n), out' = SubSeq(out, n + 1, Len(out)),
             \/ n < Len(out) /\ UNCHANGED <<channel, queue, writeClosed>>
             \/ /\ n = Len(out)
                /\ SetEvents(events \ {"out"})
                /\ queue' = Enqueue(queue, ioLoop, "writeComplete", NoMsg)
                /\ ShutdownWhenDrained
      PROVE  Written
  <2> DEFINE first == SubSeq(out, 1, n)
             rest == SubSeq(out, n + 1, Len(out))
  <2>1. out \in Seq(Octets) /\ wire \in Seq(Octets) /\ Len(out) \in Nat
    BY DEF Sound
  <2>2. n \in Nat /\ n <= Len(out)
    BY <2>1
  <2>3. Halves(Octets, out, n, first, rest)
    BY <2>1, <2>2, CutInTwo, Zenon
  <2>4. wire' = wire \o first /\ out' = rest
    BY <1>3
  <2> HIDE DEF first, rest
  <2>5. first \in Seq(Octets) /\ rest \in Seq(Octets) /\ first \o rest = out
    BY <2>3 DEF Halves
  <2>6. wire \o first \in Seq(Octets)
    BY <2>1, <2>5, ConcatProperties, Zenon
  <2>7. wire' \o out' = wire \o out
    <3>1. Assoc(wire, first, rest)
      BY <2>1, <2>5, Associative, Zenon
    <3> QED
      BY <2>4, <2>5, <3>1, Zenon DEF Assoc
  <2>8. n < Len(out) => rest # <<>>
    <3>1. Len(rest) = Len(out) - n
      BY <2>3 DEF Halves
    <3>2. rest = <<>> => Len(rest) = 0
      OBVIOUS
    <3> QED
      BY <2>1, <3>1, <3>2
  <2>9. n = Len(out) => rest = <<>>
    BY <2>3 DEF Halves
  <2>10. CASE n < Len(out) /\ UNCHANGED <<channel, queue, writeClosed>>
    <3>1. out' \in Seq(Octets) /\ wire' \in Seq(Octets)
      BY <2>4, <2>5, <2>6, Zenon
    <3>2. Sound'
      BY <1>0, <1>3, <2>10, <3>1 DEF Sound, channel
    <3>3. ~writeClosed
      BY <1>3 DEF WriteFails
    <3>4. out' # <<>>
      BY <2>4, <2>8, <2>10, Zenon
    <3>5. events' = events /\ index' = index /\ queue' = queue /\ writeClosed' = writeClosed
      BY <2>10 DEF channel
    <3>6. rx' = rx /\ peer' = peer /\ Writing
      BY <1>3
    <3> QED
      BY <1>0, <2>7, <3>2, <3>3, <3>4, <3>5, <3>6, Zenon DEF Written
  <2>11. CASE /\ n = Len(out)
              /\ SetEvents(events \ {"out"})
              /\ queue' = Enqueue(queue, ioLoop, "writeComplete", NoMsg)
              /\ ShutdownWhenDrained
    <3>1. out' \in Seq(Octets) /\ wire' \in Seq(Octets)
      BY <2>4, <2>5, <2>6, Zenon
    <3>2. events' = events \ {"out"} /\ index' = UpdateIndex(events \ {"out"})
      BY <2>11, Zenon DEF SetEvents
    <3>3. events' \subseteq {"in", "out"} /\ index' \in {"kNew", "kAdded", "kDeleted"}
      BY <3>2 DEF Sound, UpdateIndex
    <3>4. writeClosed' \in BOOLEAN
      BY <2>11 DEF ShutdownWhenDrained
    <3>5. rx' = rx /\ peer' = peer /\ Writing /\ soError' = soError
      BY <1>3
    <3>6. Sound'
      BY <1>0, <3>1, <3>3, <3>4, <3>5, Zenon DEF Sound
    <3>7. out' = <<>>
      BY <2>4, <2>9, <2>11, Zenon
    <3> QED
      BY <1>0, <2>7, <2>11, <3>2, <3>5, <3>6, <3>7, Zenon DEF Written
  <2> QED
    BY <1>3, <2>10, <2>11, Zenon
<1>4. CASE /\ Writing /\ ~WriteFails
           /\ \E n \in 1 .. Len(out) :
                /\ wire' = wire \o SubSeq(out, 1, n)
                /\ out' = SubSeq(out, n + 1, Len(out))
                /\ \/ n < Len(out) /\ UNCHANGED <<channel, queue, writeClosed>>
                   \/ /\ n = Len(out)
                      /\ SetEvents(events \ {"out"})
                      /\ queue' = Enqueue(queue, ioLoop, "writeComplete", NoMsg)
                      /\ ShutdownWhenDrained
           /\ UNCHANGED <<rx, peer, soError>>
  BY <1>3, <1>4
<1> QED
  BY <1>1, <1>2, <1>4, Zenon DEF WriteEvent

-----------------------------------------------------------------------------
(* Types.                                                                   *)

(* The types of the variables without structure. *)
Scalars ==
  /\ ioLoop \in IoLoops
  /\ state \in {"none", "kConnecting", "kConnected", "kDisconnecting", "kDisconnected"}
  /\ inMap \in BOOLEAN /\ server \in BOOLEAN /\ user \in BOOLEAN /\ reopened \in BOOLEAN
  /\ rx \in 0 .. 1 /\ peer \in {"open", "fin", "rst"} /\ unsent \subseteq Msgs
  /\ ups \in Nat /\ downs \in Nat

(* The types of queues and workers. *)
Shapes ==
  /\ queue \in [Loops -> Seq(Functors)] /\ worker \in [Workers -> WorkerStates]
  /\ todo \in Seq(Kinds) /\ holds \in [Workers -> BOOLEAN]

(* What Types says. *)
LEMMA TypesSay ==
  ASSUME Types
  PROVE  Sound /\ Scalars /\ Shapes /\ ioLoop \in Loops /\ BaseLoop \in Loops
<1>1. Sound
  BY DEF Types, TypeOK, Sound, Octets
<1>2. Scalars
  BY DEF Types, TypeOK, Scalars
<1>3. Shapes
  BY DEF Types, TypeOK, Shapes, Kinds
<1>4. ioLoop \in Loops /\ BaseLoop \in Loops
  BY <1>2 DEF Scalars, Loops
<1> QED
  BY <1>1, <1>2, <1>3, <1>4

(* Functors and calls of workers fit the types of TypeOK. *)
LEMMA ShapesFit ==
  /\ [Loops -> Seq(Functors)] \subseteq
       [Loops -> Seq([op : SharedOps \cup BareThis, msg : Msgs \cup {NoMsg}])]
  /\ [Workers -> WorkerStates] \subseteq
       [Workers -> [at : {"idle", "send", "setState", "shutdown"}, msg : Msgs \cup {NoMsg}]]
<1> DEFINE F == [op : SharedOps \cup BareThis, msg : Msgs \cup {NoMsg}]
           W == [at : {"idle", "send", "setState", "shutdown"}, msg : Msgs \cup {NoMsg}]
<1>1. Functors \subseteq F
  BY FunctorsAre
<1>2. WorkerStates \subseteq W
  BY DEF WorkerStates
<1> HIDE DEF F, W
<1>3. Seq(Functors) \subseteq Seq(F)
  BY <1>1
<1>4. [Loops -> Seq(Functors)] \subseteq [Loops -> Seq(F)]
  BY <1>3
<1>5. [Workers -> WorkerStates] \subseteq [Workers -> W]
  BY <1>2
<1> QED
  BY <1>4, <1>5 DEF F, W

(* The same of the next state, from its parts. *)
LEMMA TypesNext ==
  ASSUME Sound', Scalars', Shapes'
  PROVE  Types'
<1>1. /\ queue' \in [Loops -> Seq([op : SharedOps \cup BareThis, msg : Msgs \cup {NoMsg}])]
      /\ worker' \in [Workers -> [at : {"idle", "send", "setState", "shutdown"},
                                  msg : Msgs \cup {NoMsg}]]
  BY ShapesFit DEF Shapes
<1>2. {inMap, server, user, soError, writeClosed, reopened}' \subseteq BOOLEAN
  BY DEF Sound, Scalars
<1>3. /\ todo' \in Seq({"close", "error", "read", "write"}) /\ holds' \in [Workers -> BOOLEAN]
      /\ queue' \in [Loops -> Seq(Functors)] /\ worker' \in [Workers -> WorkerStates]
  BY DEF Shapes, Kinds
<1>4. /\ out' \in Seq(Msgs \X (1 .. MsgLen)) /\ wire' \in Seq(Msgs \X (1 .. MsgLen))
      /\ events' \subseteq {"in", "out"} /\ index' \in {"kNew", "kAdded", "kDeleted"}
      /\ accepted' \in Seq(Msgs)
  BY DEF Sound, Octets
<1>5. TypeOK'
  BY <1>1, <1>2, <1>3, <1>4 DEF TypeOK, Scalars
<1> QED
  BY <1>3, <1>5 DEF Types

-----------------------------------------------------------------------------
(* The queues and the steps, as the proofs below take them.                 *)

(* queueInLoop. *)
LEMMA EnqueueGrows ==
  ASSUME NEW q \in Queues, NEW l \in Loops, NEW op \in SharedOps \cup {"shutdownInLoop"}
  PROVE  Grown(q, l, op, Enqueue(q, l, op, NoMsg))
<1>1. Functor(op, NoMsg) \in Functors /\ Functor(op, NoMsg).op = op
  BY FunctorsAre
<1> DEFINE r == Enqueue(q, l, op, NoMsg)
<1>2. r = Enqueue(q, l, op, NoMsg)
  OBVIOUS
<1> HIDE DEF r
<1>3. Grown(q, l, op, r)
  BY <1>1, <1>2, EnqueueIs, Zenon
<1> QED
  BY <1>3 DEF r

(* queueInLoop of a send. *)
LEMMA SendGrows ==
  ASSUME NEW q \in Queues, NEW l \in Loops, NEW m \in Msgs
  PROVE  Grown(q, l, "sendInLoop", Enqueue(q, l, "sendInLoop", m))
<1>1. Functor("sendInLoop", m) \in Functors /\ Functor("sendInLoop", m).op = "sendInLoop"
  BY FunctorsAre
<1> DEFINE r == Enqueue(q, l, "sendInLoop", m)
<1>2. r = Enqueue(q, l, "sendInLoop", m)
  OBVIOUS
<1> HIDE DEF r
<1>3. Grown(q, l, "sendInLoop", r)
  BY <1>1, <1>2, EnqueueIs, Zenon
<1> QED
  BY <1>3 DEF r

(* A functor that runs leaves its queue. *)
LEMMA RunShrinks ==
  ASSUME NEW l \in Loops, queue \in Queues, NEW op, Runs(l, op)
  PROVE  Shrunk(queue, l, Dequeued(l)) /\ Head(queue[l]).op = op /\ QHas(queue, l, op)
<1>1. queue[l] # <<>> /\ Head(queue[l]).op = op
  BY DEF Runs
<1> DEFINE r == Dequeued(l)
<1>2. r = [queue EXCEPT ![l] = Tail(@)]
  BY DEF Dequeued
<1> HIDE DEF r
<1>3. Shrunk(queue, l, r)
  BY <1>1, <1>2, DequeueIs, Zenon
<1>4. QHas(queue, l, op)
  BY <1>1, <1>3, Zenon DEF Shrunk
<1> QED
  BY <1>1, <1>3, <1>4 DEF r

(* handleClose, called by either callback that ends the connection. *)
CloseStep ==
  /\ todo # <<>> /\ Head(todo) \in Ends /\ ~user /\ todo' = Tail(todo)
  /\ HandleClose
  /\ UNCHANGED <<ioLoop, server, out, user, worker, holds, socket, unsent, accepted, ups,
                 reopened>>

(* sendInLoop, called from either side. *)
SendStep == RunSendInLoop \/ \E m \in Msgs : UserSend(m)

(* The callbacks that change nothing but todo, user and the kernel's state. *)
CallbackStep ==
  \/ Poll \/ ErrorEvent
  \/ /\ Callback("read") /\ todo' = Tail(todo) /\ (user' = user \/ user' = TRUE) /\ rx' = 0
     /\ soError' \in BOOLEAN
     /\ (rx' # rx => rx > 0)
     /\ UNCHANGED <<ioLoop, server, state, channel, out, inMap, queue, worker, holds, peer,
                    writeClosed, wire, history>>

(* References and the peer. *)
LinkStep ==
  \/ UserReturns \/ Peer \/ UNCHANGED vars
  \/ \E w \in Workers : UserShares(w) \/ WorkerReleases(w)

(* What a worker does except for its late setState. *)
CallStep ==
  \E w \in Workers :
    \/ WorkerQueuesSend(w) \/ WorkerQueuesShutdown(w) \/ WorkerShutsDown(w)
    \/ \E m \in Msgs : WorkerSends(w, m)

(* The steps that touch neither the life of the connection nor its bytes. *)
Quiet == CallbackStep \/ LinkStep \/ CallStep \/ RunUserCallback

(* Every step is of one of these kinds. *)
LEMMA NextIs ==
  ASSUME Types, [Next]_vars
  PROVE  \/ NewConnection \/ DestroyServer \/ RunRemoveConnectionInLoop
         \/ RunConnectEstablished \/ RunConnectDestroyed \/ SendStep \/ RunShutdownInLoop
         \/ UserShutdown \/ CloseStep \/ WriteEvent
         \/ \E w \in Workers : WorkerSetsState(w)
         \/ Quiet
<1>1. CASE CloseEvent
  BY <1>1 DEF CloseEvent, CloseStep, Callback, Ends
<1>2. CASE ReadEvent
  <2>1. CASE rx = 0 /\ ~soError /\ HandleClose /\ UNCHANGED <<user, rx, soError>>
    BY <1>2, <2>1 DEF ReadEvent, CloseStep, Callback, Ends, socket
  <2>2. CASE /\ rx > 0
             /\ rx' = 0 /\ user' = TRUE
             /\ UNCHANGED <<state, channel, inMap, queue, soError, downs>>
    <3>1. soError' \in BOOLEAN
      BY <2>2 DEF Types, TypeOK
    <3>2. CallbackStep
      BY <1>2, <2>2, <3>1 DEF ReadEvent, CallbackStep, history
    <3> QED
      BY <3>2 DEF Quiet
  <2>3. CASE /\ rx = 0 /\ soError
             /\ soError' = FALSE
             /\ UNCHANGED <<state, channel, inMap, queue, user, rx, downs>>
    <3>1. CallbackStep
      BY <1>2, <2>3 DEF ReadEvent, CallbackStep, history
    <3> QED
      BY <3>1 DEF Quiet
  <2> QED
    BY <1>2, <2>1, <2>2, <2>3, Zenon DEF ReadEvent
<1>3. CASE UNCHANGED vars
  BY <1>3 DEF Quiet, LinkStep
<1>4. CASE Next /\ ~CloseEvent /\ ~ReadEvent
  BY <1>4, Zenon DEF Next, IoFunctor, ChannelStep, UserCode, WorkerStep, WorkerCode, SendStep, Quiet,
     CallbackStep, LinkStep, CallStep
<1> QED
  BY <1>1, <1>2, <1>3, <1>4

(* What no quiet step touches. *)
Core ==
  <<ioLoop, state, events, index, out, inMap, server, wire, writeClosed, accepted, ups, downs,
    reopened>>

(* Quiet steps leave it alone. *)
LEMMA QuietKeeps ==
  ASSUME Quiet
  PROVE  UNCHANGED Core
<1>1. CASE CallbackStep
  BY <1>1 DEF CallbackStep, Poll, ErrorEvent, Core, channel, socket, history
<1>2. CASE LinkStep
  BY <1>2 DEF LinkStep, UserReturns, Peer, PeerSends, PeerCloses, PeerResets, UserShares,
     WorkerReleases, vars, Core, channel, socket, history
<1>3. CASE CallStep
  BY <1>3 DEF CallStep, WorkerQueuesSend, WorkerQueuesShutdown, WorkerShutsDown, WorkerSends, Core,
     channel, socket, history
<1>4. CASE RunUserCallback
  BY <1>4 DEF RunUserCallback, Core, channel, socket, history
<1> QED
  BY <1>1, <1>2, <1>3, <1>4 DEF Quiet

(* The functors that the other parts of the invariant speak of. *)
Tracked == {"connectEstablished", "connectDestroyed", "removeConnectionInLoop"}

(* q and r have the same of them. *)
SameTracked(q, r) ==
  r \in Queues /\ \A k \in Loops : \A o \in Tracked : QHas(r, k, o) <=> QHas(q, k, o)

(* A functor of another kind comes or goes. *)
LEMMA OthersComeAndGo ==
  /\ \A q, r, op : \A l \in Loops :
       Grown(q, l, op, r) /\ op \notin Tracked => SameTracked(q, r)
  /\ \A q, r : \A l \in Loops :
       Shrunk(q, l, r) /\ Head(q[l]).op \notin Tracked => SameTracked(q, r)
  /\ \A q, r, s : SameTracked(q, r) /\ SameTracked(r, s) => SameTracked(q, s)
  /\ \A q \in Queues : SameTracked(q, q)
<1>1. \A q, r, op : \A l \in Loops :
        Grown(q, l, op, r) /\ op \notin Tracked => SameTracked(q, r)
  BY Zenon DEF Grown, SameTracked
<1>2. \A q, r : \A l \in Loops :
        Shrunk(q, l, r) /\ Head(q[l]).op \notin Tracked => SameTracked(q, r)
  BY Zenon DEF Shrunk, SameTracked
<1>3. \A q, r, s : SameTracked(q, r) /\ SameTracked(r, s) => SameTracked(q, s)
  BY Zenon DEF SameTracked
<1>4. \A q \in Queues : SameTracked(q, q)
  BY Zenon DEF SameTracked
<1> QED
  BY <1>1, <1>2, <1>3, <1>4, Zenon

(* A send, by a callback or by a functor: what it changes, and where it is. *)
LEMMA SendStepIs ==
  ASSUME Types, SendStep
  PROVE  /\ \E m \in Msgs, q \in Queues : Sent(m, q)
         /\ SameTracked(queue, queue') /\ Shapes'
         /\ UNCHANGED <<ioLoop, server, state, inMap, todo, user, worker, holds, ups, downs,
                        reopened>>
         /\ unsent' \subseteq unsent
         /\ (user /\ state = "kConnected") \/ Runs(ioLoop, "sendInLoop")
<1>1. Sound /\ Scalars /\ Shapes /\ ioLoop \in Loops
  BY TypesSay
<1>2. queue \in Queues
  BY <1>1 DEF Shapes, Queues
<1>3. PICK m \in Msgs, q \in Queues :
        /\ SendInLoop(m, q)
        /\ SameTracked(queue, q)
        /\ UNCHANGED <<ioLoop, server, state, inMap, todo, user, worker, holds, ups, downs,
                       reopened>>
        /\ unsent' \subseteq unsent
        /\ (user /\ state = "kConnected") \/ Runs(ioLoop, "sendInLoop")
  <2>1. CASE RunSendInLoop
    <3>1. Runs(ioLoop, "sendInLoop")
      BY <2>1 DEF RunSendInLoop
    <3>2. /\ Shrunk(queue, ioLoop, Dequeued(ioLoop)) /\ Head(queue[ioLoop]).op = "sendInLoop"
      BY <1>1, <1>2, <3>1, RunShrinks, Zenon
    <3>3. Head(queue[ioLoop]) \in Functors /\ Dequeued(ioLoop) \in Queues
      BY <3>2, Zenon DEF Shrunk
    <3>4. Head(queue[ioLoop]).msg \in Msgs
      BY <3>2, <3>3, FunctorsAre, Zenon
    <3>5. "sendInLoop" \notin Tracked
      BY DEF Tracked
    <3>6. SameTracked(queue, Dequeued(ioLoop))
      BY <1>1, <3>2, <3>5, OthersComeAndGo, Zenon
    <3>7. /\ SendInLoop(Head(queue[ioLoop]).msg, Dequeued(ioLoop))
          /\ UNCHANGED <<ioLoop, server, state, inMap, todo, user, worker, holds, unsent, ups,
                         downs, reopened>>
      BY <2>1, Zenon DEF RunSendInLoop
    <3>8. unsent' \subseteq unsent
      BY <3>7
    <3> QED
      BY <3>1, <3>3, <3>4, <3>6, <3>7, <3>8, Zenon
  <2>2. CASE \E m \in Msgs : UserSend(m)
    <3>1. PICK m \in Msgs : UserSend(m)
      BY <2>2
    <3>2. SameTracked(queue, queue)
      BY <1>2, OthersComeAndGo, Zenon
    <3>3. /\ SendInLoop(m, queue)
          /\ UNCHANGED <<ioLoop, server, state, inMap, todo, user, worker, holds, ups, downs,
                         reopened>>
          /\ user /\ state = "kConnected"
      BY <3>1, Zenon DEF UserSend
    <3>4. unsent' \subseteq unsent
      BY <3>1 DEF UserSend
    <3> QED
      BY <1>2, <3>2, <3>3, <3>4, Zenon
  <2> QED
    BY <2>1, <2>2 DEF SendStep
<1>4. Sent(m, q)
  BY <1>1, <1>3, SendIs, Zenon
<1>5. SameTracked(queue, queue')
  <2>1. "writeComplete" \in SharedOps \cup {"shutdownInLoop"} /\ "writeComplete" \notin Tracked
    BY DEF SharedOps, Tracked
  <2>2. "highWaterMark" \in SharedOps \cup {"shutdownInLoop"} /\ "highWaterMark" \notin Tracked
    BY DEF SharedOps, Tracked
  <2>3. Grown(q, ioLoop, "writeComplete", Enqueue(q, ioLoop, "writeComplete", NoMsg))
    BY <1>1, <2>1, EnqueueGrows, Zenon
  <2>4. Grown(q, ioLoop, "highWaterMark", Enqueue(q, ioLoop, "highWaterMark", NoMsg))
    BY <1>1, <2>2, EnqueueGrows, Zenon
  <2>5. /\ SameTracked(q, Enqueue(q, ioLoop, "writeComplete", NoMsg))
        /\ SameTracked(q, Enqueue(q, ioLoop, "highWaterMark", NoMsg))
    BY <1>1, <2>1, <2>2, <2>3, <2>4, OthersComeAndGo, Zenon
  <2>6. SameTracked(q, q)
    BY OthersComeAndGo, Zenon
  <2>7. SameTracked(q, queue')
    BY <1>4, <2>5, <2>6, Zenon DEF Sent
  <2> QED
    BY <1>3, <2>7, OthersComeAndGo, Zenon
<1>6. Shapes'
  <2>1. queue' \in [Loops -> Seq(Functors)]
    BY <1>5 DEF SameTracked, Queues
  <2>2. worker' = worker /\ todo' = todo /\ holds' = holds
    BY <1>3
  <2> QED
    BY <1>1, <2>1, <2>2, Zenon DEF Shapes
<1>7. \E x \in Msgs, y \in Queues : Sent(x, y)
  BY <1>4
<1>8. /\ UNCHANGED <<ioLoop, server, state, inMap, todo, user, worker, holds, ups, downs,
                     reopened>>
      /\ unsent' \subseteq unsent
      /\ (user /\ state = "kConnected") \/ Runs(ioLoop, "sendInLoop")
  BY <1>3, Zenon
<1> QED
  BY <1>5, <1>6, <1>7, <1>8, Zenon

(* The bytes stay in order, whoever sends them and whenever they leave. *)
LEMMA BytesNext ==
  ASSUME Types, BytesInOrder, [Next]_vars
  PROVE  BytesInOrder'
<1>1. Sound /\ Scalars /\ Shapes
  BY TypesSay
<1>2. wire \o out = Flat(accepted)
  BY DEF BytesInOrder, Flat
<1>3. wire' \o out' = Flat(accepted')
  <2>1. CASE SendStep
    <3>1. PICK m \in Msgs, q \in Queues : Sent(m, q)
      BY <2>1, SendStepIs, Zenon
    <3>2. CASE Discards
      BY <1>2, <3>2, Zenon DEF Discards
    <3>3. CASE Takes(m)
      <4>1. accepted \in Seq(Msgs)
        BY <1>1 DEF Sound
      <4>2. Flat(Append(accepted, m)) = Flat(accepted) \o Bytes(m)
        BY <4>1, FlatAppend, Zenon
      <4> QED
        BY <1>2, <3>3, <4>2, Zenon DEF Takes
    <3> QED
      BY <3>1, <3>2, <3>3, Zenon DEF Sent
  <2>2. CASE WriteEvent
    BY <1>1, <1>2, <2>2, WriteIs, Zenon DEF Written
  <2>3. CASE Quiet
    <3>1. wire' = wire /\ out' = out /\ accepted' = accepted
      BY <2>3, QuietKeeps DEF Core
    <3> QED
      BY <1>2, <3>1, Zenon
  <2>4. CASE \/ NewConnection \/ DestroyServer \/ RunRemoveConnectionInLoop
             \/ RunConnectEstablished \/ RunConnectDestroyed \/ RunShutdownInLoop
             \/ UserShutdown \/ CloseStep \/ \E w \in Workers : WorkerSetsState(w)
    <3>1. wire' = wire /\ out' = out /\ accepted' = accepted
      BY <2>4 DEF NewConnection, DestroyServer, RunRemoveConnectionInLoop, RunConnectEstablished,
         RunConnectDestroyed, RunShutdownInLoop, UserShutdown, CloseStep, WorkerSetsState, socket,
         history
    <3> QED
      BY <1>2, <3>1, Zenon
  <2> QED
    BY <2>1, <2>2, <2>3, <2>4, NextIs, Zenon
<1> QED
  BY <1>3 DEF BytesInOrder, Flat

(* removeConnection: erased at once, or on the base loop later. *)
LEMMA RemoveIs ==
  ASSUME Types, RemoveConnection
  PROVE  /\ queue' \in Queues /\ inMap' \in BOOLEAN
         /\ ioLoop = BaseLoop =>
              inMap' = FALSE /\ Grown(queue, ioLoop, "connectDestroyed", queue')
         /\ ioLoop # BaseLoop =>
              inMap' = inMap /\ Grown(queue, BaseLoop, "removeConnectionInLoop", queue')
<1>1. Scalars /\ Shapes /\ ioLoop \in Loops /\ BaseLoop \in Loops
  BY TypesSay
<1>2. queue \in Queues
  BY <1>1 DEF Shapes, Queues
<1>3. {"connectDestroyed", "removeConnectionInLoop"} \subseteq SharedOps \cup {"shutdownInLoop"}
  BY DEF SharedOps
<1>4. Grown(queue, ioLoop, "connectDestroyed", Enqueue(queue, ioLoop, "connectDestroyed", NoMsg))
  BY <1>1, <1>2, <1>3, EnqueueGrows
<1>5. Grown(queue, BaseLoop, "removeConnectionInLoop",
            Enqueue(queue, BaseLoop, "removeConnectionInLoop", NoMsg))
  BY <1>1, <1>2, <1>3, EnqueueGrows
<1>6. CASE ioLoop = BaseLoop
  <2>1. inMap' = FALSE /\ queue' = Enqueue(queue, ioLoop, "connectDestroyed", NoMsg)
    BY <1>6, Zenon DEF RemoveConnection, RemoveInLoop
  <2>2. Grown(queue, ioLoop, "connectDestroyed", queue')
    BY <1>4, <2>1, Zenon
  <2>3. queue' \in Queues
    BY <2>2, Zenon DEF Grown
  <2> QED
    BY <1>6, <2>1, <2>2, <2>3
<1>7. CASE ioLoop # BaseLoop
  <2>1. inMap' = inMap /\ queue' = Enqueue(queue, BaseLoop, "removeConnectionInLoop", NoMsg)
    BY <1>7, Zenon DEF RemoveConnection
  <2>2. Grown(queue, BaseLoop, "removeConnectionInLoop", queue')
    BY <1>5, <2>1, Zenon
  <2>3. queue' \in Queues
    BY <2>2, Zenon DEF Grown
  <2>4. inMap' \in BOOLEAN
    BY <1>1, <2>1 DEF Scalars
  <2> QED
    BY <1>7, <2>1, <2>2, <2>3, <2>4
<1> QED
  BY <1>6, <1>7

(* removeConnectionInLoop, as a functor of the base loop. *)
LEMMA RunRemoveIs ==
  ASSUME Types, RunRemoveConnectionInLoop
  PROVE  /\ QHas(queue, BaseLoop, "removeConnectionInLoop")
         /\ Head(queue[BaseLoop]).op = "removeConnectionInLoop"
         /\ inMap' = FALSE
         /\ \E q \in Queues : /\ Shrunk(queue, BaseLoop, q)
                              /\ Grown(q, ioLoop, "connectDestroyed", queue')
         /\ queue' \in Queues
<1>1. Scalars /\ Shapes /\ ioLoop \in Loops /\ BaseLoop \in Loops
  BY TypesSay
<1>2. queue \in Queues
  BY <1>1 DEF Shapes, Queues
<1>3. Runs(BaseLoop, "removeConnectionInLoop")
  BY DEF RunRemoveConnectionInLoop
<1>4. /\ Shrunk(queue, BaseLoop, Dequeued(BaseLoop))
      /\ Head(queue[BaseLoop]).op = "removeConnectionInLoop"
      /\ QHas(queue, BaseLoop, "removeConnectionInLoop")
  BY <1>1, <1>2, <1>3, RunShrinks, Zenon
<1>5. Dequeued(BaseLoop) \in Queues
  BY <1>4, Zenon DEF Shrunk
<1>6. "connectDestroyed" \in SharedOps \cup {"shutdownInLoop"}
  BY DEF SharedOps
<1>7. inMap' = FALSE /\ queue' = Enqueue(Dequeued(BaseLoop), ioLoop, "connectDestroyed", NoMsg)
  BY Zenon DEF RunRemoveConnectionInLoop, RemoveInLoop
<1>8. Grown(Dequeued(BaseLoop), ioLoop, "connectDestroyed", queue')
  BY <1>1, <1>5, <1>6, <1>7, EnqueueGrows, Zenon
<1>9. queue' \in Queues
  BY <1>8, Zenon DEF Grown
<1> QED
  BY <1>4, <1>5, <1>7, <1>8, <1>9, Zenon

(* The destruction of the server: nothing to do, or connectDestroyed now or   *)
(* later.                                                                     *)
LEMMA DestroyIs ==
  ASSUME Types, DestroyServer
  PROVE  /\ queue' \in Queues /\ server' = FALSE /\ inMap' = FALSE
         /\ \/ ~inMap /\ UNCHANGED <<state, events, index, queue, downs, worker>>
            \/ inMap /\ ioLoop = BaseLoop /\ IoIdle /\ ConnectDestroyed /\ queue' = queue
            \/ /\ inMap /\ Grown(queue, ioLoop, "connectDestroyed", queue')
               /\ UNCHANGED <<state, events, index, downs, worker>>
<1>1. Scalars /\ Shapes /\ ioLoop \in Loops
  BY TypesSay
<1>2. queue \in Queues
  BY <1>1 DEF Shapes, Queues
<1>3. "connectDestroyed" \in SharedOps \cup {"shutdownInLoop"}
  BY DEF SharedOps
<1>4. Grown(queue, ioLoop, "connectDestroyed", Enqueue(queue, ioLoop, "connectDestroyed", NoMsg))
  BY <1>1, <1>2, <1>3, EnqueueGrows, Zenon
<1>5. server' = FALSE /\ inMap' = FALSE /\ (ioLoop = BaseLoop => IoIdle)
  BY DEF DestroyServer
<1>6. CASE ~inMap /\ UNCHANGED <<state, channel, queue, downs, worker>>
  BY <1>2, <1>5, <1>6 DEF channel
<1>7. CASE inMap /\ ioLoop = BaseLoop /\ ConnectDestroyed /\ UNCHANGED queue
  BY <1>2, <1>5, <1>7
<1>8. CASE /\ inMap /\ ioLoop # BaseLoop
           /\ queue' = Enqueue(queue, ioLoop, "connectDestroyed", NoMsg)
           /\ UNCHANGED <<state, channel, downs, worker>>
  <2>1. Grown(queue, ioLoop, "connectDestroyed", queue')
    BY <1>4, <1>8, Zenon
  <2>2. queue' \in Queues
    BY <2>1, Zenon DEF Grown
  <2>3. UNCHANGED <<state, events, index, downs, worker>> /\ inMap
    BY <1>8 DEF channel
  <2> QED
    BY <1>5, <2>1, <2>2, <2>3, Zenon
<1> QED
  BY <1>6, <1>7, <1>8, Zenon DEF DestroyServer

(* A new connection, established at once or later. *)
LEMMA NewIs ==
  ASSUME Types, NewConnection
  PROVE  /\ state = "none" /\ server /\ inMap' = TRUE /\ queue' \in Queues
         /\ \/ Establish /\ queue' = queue
            \/ /\ state' = "kConnecting" /\ Grown(queue, ioLoop, "connectEstablished", queue')
               /\ UNCHANGED <<events, index, user, ups>>
<1>1. Scalars /\ Shapes /\ ioLoop \in Loops
  BY TypesSay
<1>2. queue \in Queues
  BY <1>1 DEF Shapes, Queues
<1>3. "connectEstablished" \in SharedOps \cup {"shutdownInLoop"}
  BY DEF SharedOps
<1>4. Grown(queue, ioLoop, "connectEstablished", Enqueue(queue, ioLoop, "connectEstablished", NoMsg))
  BY <1>1, <1>2, <1>3, EnqueueGrows, Zenon
<1>5. state = "none" /\ server /\ inMap' = TRUE
  BY DEF NewConnection
<1>6. CASE ioLoop = BaseLoop /\ Establish /\ UNCHANGED queue
  BY <1>2, <1>5, <1>6
<1>7. CASE /\ ioLoop # BaseLoop
           /\ state' = "kConnecting"
           /\ queue' = Enqueue(queue, ioLoop, "connectEstablished", NoMsg)
           /\ UNCHANGED <<channel, user, ups>>
  <2>1. Grown(queue, ioLoop, "connectEstablished", queue')
    BY <1>4, <1>7, Zenon
  <2>2. queue' \in Queues
    BY <2>1, Zenon DEF Grown
  <2>3. UNCHANGED <<events, index, user, ups>> /\ state' = "kConnecting"
    BY <1>7 DEF channel
  <2> QED
    BY <1>5, <2>1, <2>2, <2>3, Zenon
<1> QED
  BY <1>6, <1>7, Zenon DEF NewConnection

(* The functors of the I/O loop leave its queue. *)
LEMMA RunIs ==
  ASSUME Types, NEW op, Runs(ioLoop, op), queue' = Dequeued(ioLoop)
  PROVE  /\ Shrunk(queue, ioLoop, queue') /\ Head(queue[ioLoop]).op = op
         /\ QHas(queue, ioLoop, op) /\ queue' \in Queues /\ IoIdle
<1>1. Shapes /\ ioLoop \in Loops
  BY TypesSay
<1>2. queue \in Queues
  BY <1>1 DEF Shapes, Queues
<1>3. /\ Shrunk(queue, ioLoop, Dequeued(ioLoop)) /\ Head(queue[ioLoop]).op = op
      /\ QHas(queue, ioLoop, op)
  BY <1>1, <1>2, RunShrinks, Zenon
<1>4. queue' \in Queues
  BY <1>3, Zenon DEF Shrunk
<1>5. IoIdle
  BY DEF Runs
<1> QED
  BY <1>3, <1>4, <1>5, Zenon

(* Calls of workers. *)
LEMMA CallIs ==
  ASSUME Types, CallStep
  PROVE  /\ worker' \in [Workers -> WorkerStates] /\ unsent' \subseteq unsent
         /\ SameTracked(queue, queue')
         /\ UNCHANGED <<todo, user, holds, rx, peer, soError>>
         /\ \E w \in Workers : worker[w].at # "idle" \/ holds[w]
         /\ state = "kConnected" \/ Setting' = Setting
<1>1. Scalars /\ Shapes /\ ioLoop \in Loops
  BY TypesSay
<1>2. queue \in Queues /\ worker \in [Workers -> WorkerStates]
  BY <1>1 DEF Shapes, Queues
<1>3. SameTracked(queue, queue)
  BY <1>2, OthersComeAndGo, Zenon
<1>4. \A m \in Msgs : [at |-> "send", msg |-> m] \in WorkerStates /\ [at |-> "send", msg |-> m].at = "send"
  BY DEF WorkerStates
<1>5. /\ Idle \in WorkerStates /\ Idle.at = "idle"
      /\ [at |-> "setState", msg |-> NoMsg] \in WorkerStates
      /\ [at |-> "shutdown", msg |-> NoMsg] \in WorkerStates
  BY DEF WorkerStates, Idle
<1>6. PICK w \in Workers : \/ WorkerQueuesSend(w) \/ WorkerQueuesShutdown(w) \/ WorkerShutsDown(w)
                           \/ \E m \in Msgs : WorkerSends(w, m)
  BY DEF CallStep
<1>7. CASE WorkerQueuesSend(w)
  <2>1. worker[w].msg \in Msgs
    BY <1>2, <1>7 DEF WorkerQueuesSend, AtWorker, WorkerStates
  <2>2. Grown(queue, ioLoop, "sendInLoop", queue')
    <3>1. queue' = Enqueue(queue, ioLoop, "sendInLoop", worker[w].msg)
      BY <1>7, Zenon DEF WorkerQueuesSend
    <3> QED
      BY <1>1, <1>2, <2>1, <3>1, SendGrows, Zenon
  <2>3. "sendInLoop" \notin Tracked
    BY DEF Tracked
  <2>4. SameTracked(queue, queue')
    BY <1>1, <2>2, <2>3, OthersComeAndGo, Zenon
  <2>5. /\ worker' = [worker EXCEPT ![w] = Idle] /\ unsent' = unsent
        /\ UNCHANGED <<todo, user, holds, rx, peer, soError>> /\ worker[w].at = "send"
    BY <1>7 DEF WorkerQueuesSend, AtWorker, socket, history
  <2>6. worker' \in [Workers -> WorkerStates]
    BY <1>2, <1>5, <2>5
  <2>7. Setting' = Setting
    BY <1>2, <1>5, <2>5 DEF Setting
  <2> QED
    BY <2>4, <2>5, <2>6, <2>7
<1>8. CASE WorkerQueuesShutdown(w)
  <2>1. "shutdownInLoop" \notin Tracked /\ "shutdownInLoop" \in SharedOps \cup {"shutdownInLoop"}
    BY DEF Tracked
  <2>2. queue' = Enqueue(queue, ioLoop, "shutdownInLoop", NoMsg)
    BY <1>8, Zenon DEF WorkerQueuesShutdown
  <2>3. Grown(queue, ioLoop, "shutdownInLoop", queue')
    BY <1>1, <1>2, <2>1, <2>2, EnqueueGrows, Zenon
  <2>4. SameTracked(queue, queue')
    BY <1>1, <2>1, <2>3, OthersComeAndGo, Zenon
  <2>5. /\ worker' = [worker EXCEPT ![w] = Idle] /\ unsent' = unsent
        /\ UNCHANGED <<todo, user, holds, rx, peer, soError>> /\ worker[w].at = "shutdown"
    BY <1>8 DEF WorkerQueuesShutdown, AtWorker, socket, history
  <2>6. worker' \in [Workers -> WorkerStates]
    BY <1>2, <1>5, <2>5
  <2>7. Setting' = Setting
    BY <1>2, <1>5, <2>5 DEF Setting
  <2> QED
    BY <2>4, <2>5, <2>6, <2>7
<1>9. CASE WorkerShutsDown(w)
  <2>1. /\ worker' = [worker EXCEPT ![w] = [at |-> "setState", msg |-> NoMsg]] /\ unsent' = unsent
        /\ queue' = queue /\ holds[w] /\ state = "kConnected"
        /\ UNCHANGED <<todo, user, holds, rx, peer, soError>>
    BY <1>9 DEF WorkerShutsDown, socket, history
  <2>2. worker' \in [Workers -> WorkerStates]
    BY <1>2, <1>5, <2>1
  <2> QED
    BY <1>3, <2>1, <2>2
<1>10. CASE \E m \in Msgs : WorkerSends(w, m)
  <2>1. PICK m \in Msgs : WorkerSends(w, m)
    BY <1>10
  <2>2. /\ worker' = [worker EXCEPT ![w] = [at |-> "send", msg |-> m]]
        /\ queue' = queue /\ holds[w] /\ state = "kConnected"
        /\ UNCHANGED <<todo, user, holds, rx, peer, soError>>
    BY <2>1 DEF WorkerSends, socket
  <2>3. unsent' \subseteq unsent
    BY <2>1 DEF WorkerSends
  <2>4. worker' \in [Workers -> WorkerStates]
    BY <1>2, <1>4, <2>2
  <2> QED
    BY <1>3, <2>2, <2>3, <2>4
<1> QED
  BY <1>6, <1>7, <1>8, <1>9, <1>10

(* Callbacks that do not close, and Poll. *)
LEMMA CallbackIs ==
  ASSUME Types, CallbackStep
  PROVE  /\ UNCHANGED <<worker, holds, queue, unsent, peer>>
         /\ soError' \in BOOLEAN /\ user' \in BOOLEAN /\ rx' \in 0 .. 1
         /\ \/ Poll /\ user' = user /\ rx' = rx
            \/ /\ todo # <<>> /\ todo' = Tail(todo)
               /\ user' # user \/ rx' # rx => Head(todo) = "read"
         /\ todo' \in Seq(Kinds)
<1>1. Sound /\ Scalars /\ Shapes
  BY TypesSay
<1>2. todo \in Seq(Kinds) /\ soError \in BOOLEAN /\ user \in BOOLEAN /\ rx \in 0 .. 1
  BY <1>1 DEF Sound, Scalars, Shapes
<1>3. todo # <<>> => Tail(todo) \in Seq(Kinds)
  BY <1>2
<1>4. CASE Poll
  <2>1. UNCHANGED <<worker, holds, queue, unsent, peer, soError, user, rx>>
    BY <1>4 DEF Poll, socket, history
  <2>2. \A rev : Callbacks(rev) \in Seq(Kinds)
    BY CallbacksAre, Zenon DEF OneEnd
  <2>3. todo' \in Seq(Kinds)
    BY <1>4, <2>2 DEF Poll
  <2> QED
    BY <1>2, <1>4, <2>1, <2>3
<1>5. CASE ErrorEvent
  <2>1. /\ UNCHANGED <<worker, holds, queue, unsent, peer, user, rx>> /\ soError' = FALSE
        /\ todo # <<>> /\ todo' = Tail(todo)
    BY <1>5 DEF ErrorEvent, Callback, history
  <2> QED
    BY <1>2, <1>3, <2>1
<1>6. CASE /\ Callback("read") /\ todo' = Tail(todo) /\ (user' = user \/ user' = TRUE) /\ rx' = 0
           /\ soError' \in BOOLEAN
           /\ (rx' # rx => rx > 0)
           /\ UNCHANGED <<ioLoop, server, state, channel, out, inMap, queue, worker, holds, peer,
                          writeClosed, wire, history>>
  <2>1. /\ UNCHANGED <<worker, holds, queue, unsent, peer>> /\ soError' \in BOOLEAN
        /\ todo # <<>> /\ todo' = Tail(todo) /\ Head(todo) = "read"
    BY <1>6 DEF Callback, history
  <2>2. rx' \in 0 .. 1
    BY <1>6
  <2>3. user' \in BOOLEAN
    BY <1>2, <1>6, Zenon
  <2> QED
    BY <1>3, <2>1, <2>2, <2>3, Zenon
<1> QED
  BY <1>4, <1>5, <1>6, Zenon DEF CallbackStep

(* References and the peer. *)
LEMMA LinkIs ==
  ASSUME Types, LinkStep
  PROVE  /\ UNCHANGED <<worker, queue, unsent, todo>>
         /\ soError' \in BOOLEAN /\ rx' \in 0 .. 1 /\ peer' \in {"open", "fin", "rst"}
         /\ holds' \in [Workers -> BOOLEAN]
         /\ user' = user \/ (user /\ user' = FALSE)
         /\ holds' # holds => user \/ \E w \in Workers : holds[w]
<1>1. soError \in BOOLEAN /\ rx \in 0 .. 1 /\ peer \in {"open", "fin", "rst"}
  BY TypesSay DEF Sound, Scalars
<1>2. holds \in [Workers -> BOOLEAN]
  BY TypesSay DEF Shapes
<1>3. CASE UserReturns
  <2>1. /\ UNCHANGED <<worker, queue, unsent, todo, soError, rx, peer, holds>>
        /\ user /\ user' = FALSE
    BY <1>3, Zenon DEF UserReturns, socket, history
  <2>2. soError' \in BOOLEAN /\ rx' \in 0 .. 1 /\ peer' \in {"open", "fin", "rst"}
    BY <1>1, <2>1
  <2>3. holds' \in [Workers -> BOOLEAN] /\ holds' = holds
    BY <1>2, <2>1
  <2>4. UNCHANGED <<worker, queue, unsent, todo>>
    BY <2>1
  <2>5. user' = user \/ (user /\ user' = FALSE)
    BY <2>1, Zenon
  <2>6. holds' # holds => user \/ \E w \in Workers : holds[w]
    BY <2>3
  <2> QED
    BY <2>2, <2>3, <2>4, <2>5, <2>6
<1>4. CASE Peer
  <2>1. UNCHANGED <<worker, queue, unsent, todo, user, holds>>
    BY <1>4, Zenon DEF Peer, PeerSends, PeerCloses, PeerResets, history
  <2>2. soError' \in BOOLEAN /\ rx' \in 0 .. 1 /\ peer' \in {"open", "fin", "rst"}
    <3>1. CASE PeerSends
      <4>1. rx' = 1 /\ peer' = peer /\ soError' = soError
        BY <3>1 DEF PeerSends
      <4> QED
        BY <1>1, <4>1
    <3>2. CASE PeerCloses
      <4>1. rx' = rx /\ peer' = "fin" /\ soError' = soError
        BY <3>2 DEF PeerCloses
      <4> QED
        BY <1>1, <4>1
    <3>3. CASE PeerResets
      <4>1. rx' = rx /\ peer' = "rst" /\ soError' = TRUE
        BY <3>3 DEF PeerResets
      <4> QED
        BY <1>1, <4>1
    <3> QED
      BY <1>4, <3>1, <3>2, <3>3 DEF Peer
  <2> QED
    BY <1>2, <2>1, <2>2
<1>5. CASE UNCHANGED vars
  BY <1>1, <1>2, <1>5 DEF vars, socket, history
<1>6. ASSUME NEW w \in Workers, UserShares(w)
      PROVE  /\ UNCHANGED <<worker, queue, unsent, todo, soError, rx, peer, user>> /\ user
             /\ holds' \in [Workers -> BOOLEAN]
  BY <1>2, <1>6 DEF UserShares, socket, history
<1>7. ASSUME NEW w \in Workers, WorkerReleases(w)
      PROVE  /\ UNCHANGED <<worker, queue, unsent, todo, soError, rx, peer, user>> /\ holds[w]
             /\ holds' \in [Workers -> BOOLEAN]
  BY <1>2, <1>7 DEF WorkerReleases, socket, history
<1>8. CASE \E w \in Workers : UserShares(w) \/ WorkerReleases(w)
  BY <1>1, <1>6, <1>7, <1>8
<1> QED
  BY <1>3, <1>4, <1>5, <1>8 DEF LinkStep

(* writeCompleteCallback_ and highWaterMarkCallback_. *)
LEMMA UserCallbackIs ==
  ASSUME Types, RunUserCallback
  PROVE  /\ SameTracked(queue, queue') /\ IoIdle /\ user' = TRUE
         /\ Head(queue[ioLoop]).op \in {"writeComplete", "highWaterMark"} /\ queue[ioLoop] # <<>>
         /\ UNCHANGED <<worker, holds, todo, unsent, rx, peer, soError>>
<1>1. ioLoop \in Loops
  BY TypesSay
<1>2. PICK op \in {"writeComplete", "highWaterMark"} : Runs(ioLoop, op)
  BY DEF RunUserCallback
<1>3. queue' = Dequeued(ioLoop)
  BY DEF RunUserCallback
<1>4. Shrunk(queue, ioLoop, queue') /\ Head(queue[ioLoop]).op = op /\ IoIdle
  BY <1>2, <1>3, RunIs, Zenon
<1>5. op \notin Tracked
  BY DEF Tracked
<1>6. SameTracked(queue, queue')
  BY <1>1, <1>4, <1>5, OthersComeAndGo, Zenon
<1>7. user' = TRUE /\ UNCHANGED <<worker, holds, todo, unsent, rx, peer, soError>>
  BY DEF RunUserCallback, socket, history
<1>8. queue[ioLoop] # <<>>
  BY <1>2 DEF Runs
<1> QED
  BY <1>4, <1>6, <1>7, <1>8

(* A quiet step, put together. *)
LEMMA QuietIs ==
  ASSUME Types, Quiet
  PROVE  /\ SameTracked(queue, queue') /\ Types'
         /\ state = "kConnected" \/ Setting' = Setting
<1>1. Sound /\ Scalars /\ Shapes
  BY TypesSay
<1>2. queue \in Queues
  BY <1>1 DEF Shapes, Queues
<1>3. SameTracked(queue, queue)
  BY <1>2, OthersComeAndGo, Zenon
<1>4. /\ SameTracked(queue, queue') /\ worker' \in [Workers -> WorkerStates]
      /\ todo' \in Seq(Kinds) /\ holds' \in [Workers -> BOOLEAN]
      /\ soError' \in BOOLEAN /\ user' \in BOOLEAN /\ rx' \in 0 .. 1
      /\ peer' \in {"open", "fin", "rst"} /\ unsent' \subseteq unsent
      /\ state = "kConnected" \/ Setting' = Setting
  <2>1. CASE CallbackStep
    <3>1. /\ UNCHANGED <<worker, holds, queue, unsent, peer>>
          /\ soError' \in BOOLEAN /\ user' \in BOOLEAN /\ rx' \in 0 .. 1 /\ todo' \in Seq(Kinds)
      BY <2>1, CallbackIs
    <3>2. Setting' = Setting
      BY <3>1 DEF Setting
    <3> QED
      BY <1>1, <1>3, <3>1, <3>2 DEF Scalars, Shapes
  <2>2. CASE LinkStep
    <3>1. /\ UNCHANGED <<worker, queue, unsent, todo>>
          /\ soError' \in BOOLEAN /\ rx' \in 0 .. 1 /\ peer' \in {"open", "fin", "rst"}
          /\ holds' \in [Workers -> BOOLEAN]
      BY <2>2, LinkIs
    <3>2. user' \in BOOLEAN
      <4>1. user \in BOOLEAN
        BY <1>1 DEF Scalars
      <4>2. user' = user \/ user' = FALSE
        BY <2>2, LinkIs
      <4> QED
        BY <4>1, <4>2, Zenon
    <3>3. Setting' = Setting
      BY <3>1 DEF Setting
    <3> QED
      BY <1>1, <1>3, <3>1, <3>2, <3>3 DEF Shapes
  <2>3. CASE CallStep
    <3>1. /\ worker' \in [Workers -> WorkerStates] /\ unsent' \subseteq unsent
          /\ SameTracked(queue, queue')
          /\ UNCHANGED <<todo, user, holds, rx, peer, soError>>
          /\ state = "kConnected" \/ Setting' = Setting
      BY <2>3, CallIs
    <3> QED
      BY <1>1, <3>1 DEF Sound, Scalars, Shapes
  <2>4. CASE RunUserCallback
    <3>1. /\ SameTracked(queue, queue') /\ user' = TRUE
          /\ UNCHANGED <<worker, holds, todo, unsent, rx, peer, soError>>
      BY <2>4, UserCallbackIs
    <3>2. Setting' = Setting
      BY <3>1 DEF Setting
    <3> QED
      BY <1>1, <3>1, <3>2 DEF Sound, Scalars, Shapes
  <2> QED
    BY <2>1, <2>2, <2>3, <2>4 DEF Quiet
<1>5. UNCHANGED Core
  BY QuietKeeps
<1>6. Sound'
  BY <1>1, <1>4, <1>5 DEF Sound, Core
<1>7. Scalars'
  <2>1. UNCHANGED <<ioLoop, state, inMap, server, reopened, ups, downs>>
    BY <1>5 DEF Core
  <2> QED
    BY <1>1, <1>4, <2>1 DEF Scalars
<1>8. Shapes'
  <2>1. queue' \in [Loops -> Seq(Functors)]
    BY <1>4 DEF SameTracked, Queues
  <2> QED
    BY <1>4, <2>1 DEF Shapes
<1> QED
  BY <1>4, <1>6, <1>7, <1>8, TypesNext

(* connectDestroyed lets workers on their way to kDisconnecting get past it,  *)
(* and sends no new ones.                                                     *)
LEMMA StoresLostIs ==
  ASSUME worker \in [Workers -> WorkerStates], ConnectDestroyed
  PROVE  worker' \in [Workers -> WorkerStates] /\ Setting' \subseteq Setting
<1>1. InShutdown \in WorkerStates /\ InShutdown.at = "shutdown"
  BY DEF InShutdown, WorkerStates
<1>2. CASE worker' = worker
  BY <1>2 DEF Setting
<1>3. CASE StoresLost
  <2>1. PICK W \in SUBSET {w \in Workers : AtWorker(w, "setState")} :
          worker' = [w \in Workers |-> IF w \in W THEN InShutdown ELSE worker[w]]
    BY <1>3 DEF StoresLost
  <2>2. worker' \in [Workers -> WorkerStates]
    BY <1>1, <2>1
  <2>3. \A w \in Workers : worker'[w].at = "setState" => worker[w].at = "setState"
    BY <1>1, <2>1
  <2> QED
    BY <2>2, <2>3 DEF Setting
<1> QED
  BY <1>2, <1>3 DEF ConnectDestroyed

(* connectEstablished and connectDestroyed, without their queues. *)
LEMMA ChannelTypes ==
  ASSUME Sound, Scalars
  PROVE  /\ \A ev \in SUBSET {"in", "out"} :
              SetEvents(ev) => /\ events' \subseteq {"in", "out"}
                               /\ index' \in {"kNew", "kAdded", "kDeleted"}
         /\ ConnectDestroyed => /\ events' \subseteq {"in", "out"} /\ index' = "kNew"
                                /\ downs' \in Nat
                                /\ \/ state' = state
                                   \/ state' = "kDisconnected"
         /\ events \cup {"in"} \in SUBSET {"in", "out"}
<1>1. \A ev \in SUBSET {"in", "out"} :
        SetEvents(ev) => /\ events' \subseteq {"in", "out"}
                         /\ index' \in {"kNew", "kAdded", "kDeleted"}
  BY DEF SetEvents, UpdateIndex
<1>2. ConnectDestroyed => /\ events' \subseteq {"in", "out"} /\ index' = "kNew"
                          /\ downs' \in Nat
                          /\ \/ state' = state
                             \/ state' = "kDisconnected"
  <2> SUFFICES ASSUME ConnectDestroyed
               PROVE  /\ events' \subseteq {"in", "out"} /\ index' = "kNew" /\ downs' \in Nat
                      /\ state' = state \/ state' = "kDisconnected"
    OBVIOUS
  <2>1. downs \in Nat /\ events \subseteq {"in", "out"}
    BY DEF Sound, Scalars
  <2>2. index' = "kNew"
    BY DEF ConnectDestroyed
  <2>3. CASE state' = "kDisconnected" /\ events' = {} /\ downs' = downs + 1
    BY <2>1, <2>2, <2>3
  <2>4. CASE UNCHANGED <<state, events, downs>>
    BY <2>1, <2>2, <2>4
  <2> QED
    BY <2>3, <2>4 DEF ConnectDestroyed
<1>3. events \cup {"in"} \in SUBSET {"in", "out"}
  BY DEF Sound
<1> QED
  BY <1>1, <1>2, <1>3

(* The types of the next state. *)
LEMMA TypesStay ==
  ASSUME Types, [Next]_vars
  PROVE  Types'
<1>1. Sound /\ Scalars /\ Shapes /\ ioLoop \in Loops /\ BaseLoop \in Loops
  BY TypesSay
<1>2. queue \in Queues
  BY <1>1 DEF Shapes, Queues
<1>3. CASE NewConnection
  <2>1. /\ inMap' = TRUE /\ queue' \in Queues
        /\ \/ Establish /\ queue' = queue
           \/ state' = "kConnecting" /\ UNCHANGED <<events, index, user, ups>>
    BY <1>3, NewIs
  <2>2. UNCHANGED <<ioLoop, server, out, todo, worker, holds, socket, unsent, accepted, downs,
                    reopened>>
    BY <1>3 DEF NewConnection
  <2>3. /\ events' \subseteq {"in", "out"} /\ index' \in {"kNew", "kAdded", "kDeleted"}
        /\ user' \in BOOLEAN /\ ups' \in Nat /\ state' \in {"kConnecting", "kConnected"}
    <3>1. CASE Establish
      BY <1>1, <3>1, ChannelTypes DEF Establish, Scalars
    <3>2. CASE state' = "kConnecting" /\ UNCHANGED <<events, index, user, ups>>
      BY <1>1, <3>2 DEF Sound, Scalars
    <3> QED
      BY <2>1, <3>1, <3>2
  <2>4. Sound'
    BY <1>1, <2>2, <2>3 DEF Sound, socket
  <2>5. Scalars'
    BY <1>1, <2>1, <2>2, <2>3 DEF Scalars, socket
  <2>6. Shapes'
    BY <1>1, <2>1, <2>2 DEF Shapes, Queues
  <2> QED
    BY <2>4, <2>5, <2>6, TypesNext
<1>4. CASE DestroyServer
  <2>1. /\ queue' \in Queues /\ server' = FALSE /\ inMap' = FALSE
        /\ UNCHANGED <<state, events, index, downs, worker>> \/ ConnectDestroyed
    BY <1>4, DestroyIs
  <2>2. UNCHANGED <<ioLoop, out, todo, user, holds, socket, unsent, accepted, ups, reopened>>
    BY <1>4 DEF DestroyServer
  <2>3. /\ events' \subseteq {"in", "out"} /\ index' \in {"kNew", "kAdded", "kDeleted"}
        /\ downs' \in Nat /\ (state' = state \/ state' = "kDisconnected")
    BY <1>1, <2>1, ChannelTypes DEF Sound, Scalars
  <2>7. worker' \in [Workers -> WorkerStates]
    BY <1>1, <2>1, StoresLostIs DEF Shapes
  <2>4. Sound'
    BY <1>1, <2>2, <2>3 DEF Sound, socket
  <2>5. Scalars'
    BY <1>1, <2>1, <2>2, <2>3 DEF Scalars, socket
  <2>6. Shapes'
    BY <1>1, <2>1, <2>2, <2>7 DEF Shapes, Queues
  <2> QED
    BY <2>4, <2>5, <2>6, TypesNext
<1>5. CASE RunRemoveConnectionInLoop
  <2>1. queue' \in Queues /\ inMap' = FALSE
    BY <1>5, RunRemoveIs
  <2>2. UNCHANGED <<ioLoop, server, state, channel, out, todo, user, worker, holds, socket, history>>
    BY <1>5 DEF RunRemoveConnectionInLoop
  <2>3. Sound'
    BY <1>1, <2>2 DEF Sound, socket, channel, history
  <2>4. Scalars'
    BY <1>1, <2>1, <2>2 DEF Scalars, socket, history
  <2>5. Shapes'
    BY <1>1, <2>1, <2>2 DEF Shapes, Queues
  <2> QED
    BY <2>3, <2>4, <2>5, TypesNext
<1>6. CASE RunConnectEstablished
  <2>1. queue' \in Queues
    BY <1>6, RunIs DEF RunConnectEstablished
  <2>2. /\ Establish
        /\ UNCHANGED <<ioLoop, server, out, inMap, todo, worker, holds, socket, unsent, accepted,
                       downs, reopened>>
    BY <1>6 DEF RunConnectEstablished
  <2>3. /\ events' \subseteq {"in", "out"} /\ index' \in {"kNew", "kAdded", "kDeleted"}
        /\ user' = TRUE /\ ups' \in Nat /\ state' = "kConnected"
    BY <1>1, <2>2, ChannelTypes DEF Establish, Scalars
  <2>4. Sound'
    BY <1>1, <2>2, <2>3 DEF Sound, socket
  <2>5. Scalars'
    BY <1>1, <2>2, <2>3 DEF Scalars, socket
  <2>6. Shapes'
    BY <1>1, <2>1, <2>2 DEF Shapes, Queues
  <2> QED
    BY <2>4, <2>5, <2>6, TypesNext
<1>7. CASE RunConnectDestroyed
  <2>1. queue' \in Queues
    BY <1>7, RunIs DEF RunConnectDestroyed
  <2>2. /\ ConnectDestroyed
        /\ UNCHANGED <<ioLoop, server, out, inMap, todo, user, holds, socket, unsent, accepted,
                       ups, reopened>>
    BY <1>7 DEF RunConnectDestroyed
  <2>3. /\ events' \subseteq {"in", "out"} /\ index' \in {"kNew", "kAdded", "kDeleted"}
        /\ downs' \in Nat /\ (state' = state \/ state' = "kDisconnected")
    BY <1>1, <2>2, ChannelTypes
  <2>7. worker' \in [Workers -> WorkerStates]
    BY <1>1, <2>2, StoresLostIs DEF Shapes
  <2>4. Sound'
    BY <1>1, <2>2, <2>3 DEF Sound, socket
  <2>5. Scalars'
    BY <1>1, <2>2, <2>3 DEF Scalars, socket
  <2>6. Shapes'
    BY <1>1, <2>1, <2>2, <2>7 DEF Shapes, Queues
  <2> QED
    BY <2>4, <2>5, <2>6, TypesNext
<1>8. CASE SendStep
  <2>1. /\ \E m \in Msgs, q \in Queues : Sent(m, q)
        /\ Shapes'
        /\ UNCHANGED <<ioLoop, server, state, inMap, todo, user, worker, holds, ups, downs,
                       reopened>>
        /\ unsent' \subseteq unsent
    BY <1>8, SendStepIs
  <2>2. Sound' /\ rx' = rx /\ peer' = peer
    BY <2>1 DEF Sent
  <2>3. Scalars'
    BY <1>1, <2>1, <2>2 DEF Scalars
  <2> QED
    BY <2>1, <2>2, <2>3, TypesNext
<1>9. CASE RunShutdownInLoop
  <2>1. queue' \in Queues
    BY <1>9, RunIs DEF RunShutdownInLoop
  <2>2. /\ ShutdownInLoop
        /\ UNCHANGED <<ioLoop, server, state, channel, out, inMap, todo, user, worker, holds, rx,
                       peer, soError, wire, history>>
    BY <1>9 DEF RunShutdownInLoop
  <2>3. Sound'
    BY <1>1, <2>2 DEF Sound, ShutdownInLoop, channel, history
  <2>4. Scalars'
    BY <1>1, <2>2 DEF Scalars, history
  <2>5. Shapes'
    BY <1>1, <2>1, <2>2 DEF Shapes, Queues
  <2> QED
    BY <2>3, <2>4, <2>5, TypesNext
<1>10. CASE UserShutdown
  <2>1. /\ ShutdownInLoop /\ state' = "kDisconnecting"
        /\ UNCHANGED <<ioLoop, server, channel, out, inMap, queue, todo, user, worker, holds, rx,
                       peer, soError, wire, history>>
    BY <1>10 DEF UserShutdown
  <2>2. Sound'
    BY <1>1, <2>1 DEF Sound, ShutdownInLoop, channel, history
  <2>3. Scalars'
    BY <1>1, <2>1 DEF Scalars, history
  <2>4. Shapes'
    BY <1>1, <2>1 DEF Shapes
  <2> QED
    BY <2>2, <2>3, <2>4, TypesNext
<1>11. CASE CloseStep
  <2>1. /\ state' = "kDisconnected" /\ SetEvents({}) /\ downs' = downs + 1 /\ RemoveConnection
        /\ todo # <<>> /\ todo' = Tail(todo)
        /\ UNCHANGED <<ioLoop, server, out, user, worker, holds, socket, unsent, accepted, ups,
                       reopened>>
    BY <1>11 DEF CloseStep, HandleClose
  <2>2. queue' \in Queues /\ inMap' \in BOOLEAN
    BY <2>1, RemoveIs
  <2>3. events' \subseteq {"in", "out"} /\ index' \in {"kNew", "kAdded", "kDeleted"}
    BY <1>1, <2>1, ChannelTypes
  <2>4. todo' \in Seq(Kinds)
    BY <1>1, <2>1 DEF Shapes
  <2>5. Sound'
    BY <1>1, <2>1, <2>3 DEF Sound, socket
  <2>6. Scalars'
    BY <1>1, <2>1, <2>2 DEF Scalars, socket
  <2>7. Shapes'
    BY <1>1, <2>1, <2>2, <2>4 DEF Shapes, Queues
  <2> QED
    BY <2>5, <2>6, <2>7, TypesNext
<1>12. CASE WriteEvent
  <2>1. Written
    BY <1>1, <1>12, WriteIs
  <2>2. /\ todo # <<>> /\ todo' = Tail(todo)
        /\ UNCHANGED <<ioLoop, server, state, inMap, user, worker, holds, history>>
    BY <1>12 DEF WriteEvent, Callback
  <2>3. Sound' /\ rx' = rx /\ peer' = peer
    BY <2>1 DEF Written
  <2>4. Scalars'
    BY <1>1, <2>2, <2>3 DEF Scalars, history
  <2>5. queue' \in Queues
    <3>1. "writeComplete" \in SharedOps \cup {"shutdownInLoop"}
      BY DEF SharedOps
    <3>2. Grown(queue, ioLoop, "writeComplete", Enqueue(queue, ioLoop, "writeComplete", NoMsg))
      BY <1>1, <1>2, <3>1, EnqueueGrows, Zenon
    <3>3. Enqueue(queue, ioLoop, "writeComplete", NoMsg) \in Queues
      BY <3>2, Zenon DEF Grown
    <3> QED
      BY <1>2, <2>1, <3>3, Zenon DEF Written
  <2>6. todo' \in Seq(Kinds)
    BY <1>1, <2>2 DEF Shapes
  <2>7. Shapes'
    BY <1>1, <2>2, <2>5, <2>6 DEF Shapes, Queues
  <2> QED
    BY <2>3, <2>4, <2>7, TypesNext
<1>13. ASSUME NEW w \in Workers, WorkerSetsState(w) PROVE Types'
  <2>1. /\ state' = "kDisconnecting" /\ reopened' \in BOOLEAN
        /\ worker' = [worker EXCEPT ![w] = [at |-> "shutdown", msg |-> NoMsg]]
        /\ UNCHANGED <<ioLoop, server, channel, out, inMap, queue, todo, user, holds, socket,
                       unsent, accepted, ups, downs>>
    BY <1>1, <1>13 DEF WorkerSetsState, Scalars, InShutdown
  <2>2. [at |-> "shutdown", msg |-> NoMsg] \in WorkerStates
    BY DEF WorkerStates
  <2>3. worker' \in [Workers -> WorkerStates]
    BY <1>1, <2>1, <2>2 DEF Shapes
  <2>4. Sound'
    BY <1>1, <2>1 DEF Sound, channel, socket
  <2>5. Scalars'
    BY <1>1, <2>1 DEF Scalars, socket
  <2>6. Shapes'
    BY <1>1, <2>1, <2>3 DEF Shapes
  <2> QED
    BY <2>4, <2>5, <2>6, TypesNext
<1>14. CASE Quiet
  BY <1>14, QuietIs
<1> QED
  BY <1>3, <1>4, <1>5, <1>6, <1>7, <1>8, <1>9, <1>10, <1>11, <1>12, <1>13, <1>14, NextIs, Zenon

-----------------------------------------------------------------------------
(* Before connectEstablished.                                               *)

(* The head of the I/O loop's queue. *)
LEMMA HeadIs ==
  ASSUME Types, NEW op, Runs(ioLoop, op)
  PROVE  queue[ioLoop] # <<>> /\ queue[ioLoop][1].op = op /\ IoIdle
<1>1. Shapes /\ ioLoop \in Loops
  BY TypesSay
<1>2. queue \in Queues
  BY <1>1 DEF Shapes, Queues
<1>3. Shrunk(queue, ioLoop, Dequeued(ioLoop)) /\ Head(queue[ioLoop]).op = op
  BY <1>1, <1>2, RunShrinks, Zenon
<1>4. Head(queue[ioLoop]) = queue[ioLoop][1]
  BY <1>3, Zenon DEF Shrunk
<1>5. queue[ioLoop] # <<>> /\ IoIdle
  BY DEF Runs
<1> QED
  BY <1>3, <1>4, <1>5

(* No callback, user code or worker runs before connectEstablished. *)
LEMMA FreshStep ==
  ASSUME Inv, [Next]_vars, state \in {"none", "kConnecting"}
  PROVE  \/ NewConnection \/ DestroyServer \/ RunConnectEstablished
         \/ UNCHANGED Core /\ UNCHANGED <<queue, todo, user, worker, holds>>
<1>1. Types /\ Scalars /\ Shapes /\ ioLoop \in Loops /\ BaseLoop \in Loops
  BY TypesSay DEF Inv
<1>2. /\ downs = 0 /\ index = "kNew" /\ todo = <<>> /\ ~user
      /\ \A w \in Workers : worker[w].at = "idle" /\ ~holds[w]
      /\ state = "none" => \A l \in Loops : queue[l] = <<>>
  BY DEF Inv, Fresh
<1>3. ASSUME NEW op, Runs(ioLoop, op) PROVE op = "connectEstablished"
  <2>1. queue[ioLoop] # <<>> /\ queue[ioLoop][1].op = op
    BY <1>1, <1>3, HeadIs, Zenon
  <2>2. state = "kConnecting"
    BY <1>1, <1>2, <2>1
  <2> QED
    BY <2>1, <2>2 DEF Inv, EstablishedOnce
<1>4. ~RunRemoveConnectionInLoop
  <2>1. RunRemoveConnectionInLoop => QHas(queue, BaseLoop, "removeConnectionInLoop")
    BY <1>1, RunRemoveIs, Zenon
  <2>2. ~QHas(queue, BaseLoop, "removeConnectionInLoop")
    BY <1>2 DEF Inv, RemovalOK
  <2> QED
    BY <2>1, <2>2
<1>5. ~RunConnectDestroyed
  <2>1. ~Runs(ioLoop, "connectDestroyed")
    BY <1>3
  <2> QED
    BY <2>1 DEF RunConnectDestroyed
<1>6. ~RunShutdownInLoop
  <2>1. ~Runs(ioLoop, "shutdownInLoop")
    BY <1>3
  <2> QED
    BY <2>1 DEF RunShutdownInLoop
<1>7. ~RunUserCallback
  <2>1. ~Runs(ioLoop, "writeComplete") /\ ~Runs(ioLoop, "highWaterMark")
    BY <1>3
  <2> QED
    BY <2>1 DEF RunUserCallback
<1>8. ~SendStep
  <2>1. ~Runs(ioLoop, "sendInLoop")
    BY <1>3
  <2> QED
    BY <1>2, <2>1 DEF SendStep, RunSendInLoop, UserSend
<1>9. ~UserShutdown /\ ~CloseStep /\ ~WriteEvent /\ ~CallbackStep
  BY <1>2 DEF UserShutdown, CloseStep, WriteEvent, Callback, CallbackStep, Poll, ErrorEvent
<1>10. \A w \in Workers : ~WorkerSetsState(w)
  BY <1>2 DEF WorkerSetsState, AtWorker
<1>11. ~CallStep
  BY <1>1, <1>2, CallIs
<1>12. CASE LinkStep
  <2>1. UNCHANGED <<worker, queue, unsent, todo>> /\ user' = user /\ holds' = holds
    BY <1>1, <1>2, <1>12, LinkIs
  <2>2. UNCHANGED Core
    BY <1>12, QuietKeeps DEF Quiet
  <2> QED
    BY <2>1, <2>2
<1> QED
  BY <1>1, <1>4, <1>5, <1>6, <1>7, <1>8, <1>9, <1>10, <1>11, <1>12, NextIs, Zenon DEF Quiet

(* Once established, a connection is never fresh again. *)
LEMMA NotFreshAgain ==
  ASSUME Inv, [Next]_vars, state \notin {"none", "kConnecting"}
  PROVE  state' \notin {"none", "kConnecting"} /\ ~NewConnection /\ ~RunConnectEstablished
<1>1. Types /\ Shapes /\ ioLoop \in Loops /\ BaseLoop \in Loops
  BY TypesSay DEF Inv
<1>2. ~NewConnection
  BY DEF NewConnection
<1>3. ~RunConnectEstablished
  <2>1. ~QHas(queue, ioLoop, "connectEstablished")
    BY DEF Inv, EstablishedOnce
  <2>2. queue \in Queues
    BY <1>1 DEF Shapes, Queues
  <2>3. Runs(ioLoop, "connectEstablished") => QHas(queue, ioLoop, "connectEstablished")
    BY <1>1, <2>2, RunShrinks, Zenon
  <2> QED
    BY <2>1, <2>3 DEF RunConnectEstablished
<1>4. state' \notin {"none", "kConnecting"}
  <2>1. CASE DestroyServer
    <3>1. state' = state \/ state' = "kDisconnected"
      BY <1>1, <2>1, DestroyIs DEF ConnectDestroyed
    <3> QED
      BY <3>1
  <2>2. CASE SendStep
    BY <1>1, <2>2, SendStepIs
  <2>3. CASE WriteEvent
    BY <2>3 DEF WriteEvent
  <2>4. CASE Quiet
    BY <2>4, QuietKeeps DEF Core
  <2>5. CASE \/ RunRemoveConnectionInLoop \/ RunConnectDestroyed \/ RunShutdownInLoop
             \/ UserShutdown \/ CloseStep \/ \E w \in Workers : WorkerSetsState(w)
    <3>1. state' \in {state, "kDisconnecting", "kDisconnected"}
      BY <2>5 DEF RunRemoveConnectionInLoop, RunConnectDestroyed, ConnectDestroyed,
         RunShutdownInLoop, UserShutdown, CloseStep, HandleClose, WorkerSetsState
    <3> QED
      BY <3>1
  <2> QED
    BY <1>1, <1>2, <1>3, <2>1, <2>2, <2>3, <2>4, <2>5, NextIs, Zenon
<1> QED
  BY <1>2, <1>3, <1>4

(* The steps that neither queue nor run one of the tracked functors. *)
LEMMA TrackedKept ==
  ASSUME Types,
         \/ SendStep \/ RunShutdownInLoop \/ UserShutdown \/ WriteEvent \/ Quiet
         \/ \E w \in Workers : WorkerSetsState(w)
  PROVE  SameTracked(queue, queue') /\ ioLoop' = ioLoop
<1>1. Sound /\ Shapes /\ ioLoop \in Loops
  BY TypesSay
<1>2. queue \in Queues
  BY <1>1 DEF Shapes, Queues
<1>3. SameTracked(queue, queue)
  BY <1>2, OthersComeAndGo, Zenon
<1>4. CASE SendStep
  BY <1>4, SendStepIs
<1>5. CASE RunShutdownInLoop
  <2>1. Shrunk(queue, ioLoop, queue') /\ Head(queue[ioLoop]).op = "shutdownInLoop"
    BY <1>5, RunIs DEF RunShutdownInLoop
  <2>2. "shutdownInLoop" \notin Tracked
    BY DEF Tracked
  <2>3. SameTracked(queue, queue')
    BY <1>1, <2>1, <2>2, OthersComeAndGo, Zenon
  <2> QED
    BY <1>5, <2>3 DEF RunShutdownInLoop
<1>6. CASE UserShutdown
  BY <1>3, <1>6 DEF UserShutdown
<1>7. CASE WriteEvent
  <2>1. Written
    BY <1>1, <1>7, WriteIs
  <2>2. "writeComplete" \in SharedOps \cup {"shutdownInLoop"} /\ "writeComplete" \notin Tracked
    BY DEF SharedOps, Tracked
  <2>3. Grown(queue, ioLoop, "writeComplete", Enqueue(queue, ioLoop, "writeComplete", NoMsg))
    BY <1>1, <1>2, <2>2, EnqueueGrows, Zenon
  <2>4. SameTracked(queue, Enqueue(queue, ioLoop, "writeComplete", NoMsg))
    BY <1>1, <2>2, <2>3, OthersComeAndGo, Zenon
  <2>5. SameTracked(queue, queue')
    BY <1>3, <2>1, <2>4, Zenon DEF Written
  <2> QED
    BY <1>7, <2>5 DEF WriteEvent
<1>8. CASE Quiet
  BY <1>8, QuietIs, QuietKeeps DEF Core
<1>9. CASE \E w \in Workers : WorkerSetsState(w)
  BY <1>3, <1>9 DEF WorkerSetsState
<1> QED
  BY <1>4, <1>5, <1>6, <1>7, <1>8, <1>9

(* The loop of a connection never changes. *)
LEMMA LoopStays ==
  ASSUME Types, [Next]_vars
  PROVE  ioLoop' = ioLoop
<1>1. CASE SendStep
  BY <1>1, SendStepIs
<1>2. CASE Quiet
  BY <1>2, QuietKeeps DEF Core
<1>3. CASE \/ NewConnection \/ DestroyServer \/ RunRemoveConnectionInLoop
           \/ RunConnectEstablished \/ RunConnectDestroyed \/ RunShutdownInLoop
           \/ UserShutdown \/ CloseStep \/ WriteEvent \/ \E w \in Workers : WorkerSetsState(w)
  BY <1>3 DEF NewConnection, DestroyServer, RunRemoveConnectionInLoop, RunConnectEstablished,
     RunConnectDestroyed, RunShutdownInLoop, UserShutdown, CloseStep, WriteEvent, WorkerSetsState
<1> QED
  BY <1>1, <1>2, <1>3, NextIs, Zenon

(* Nothing is set in motion before connectEstablished. *)
LEMMA FreshStays ==
  ASSUME Inv, [Next]_vars
  PROVE  Fresh'
<1>1. Types /\ Scalars /\ ioLoop \in Loops
  BY TypesSay DEF Inv
<1>2. SUFFICES ASSUME state' \in {"none", "kConnecting"} PROVE Fresh'
  BY DEF Fresh
<1>3. state \in {"none", "kConnecting"}
  BY <1>2, NotFreshAgain
<1>4. /\ ups = 0 /\ downs = 0 /\ events = {} /\ index = "kNew" /\ out = <<>> /\ todo = <<>>
      /\ ~user /\ ~writeClosed
      /\ \A w \in Workers : worker[w].at = "idle" /\ ~holds[w]
      /\ state = "none" => ~inMap /\ \A l \in Loops : queue[l] = <<>>
      /\ state = "kConnecting" =>
           ioLoop # BaseLoop /\ (inMap \/ QHas(queue, ioLoop, "connectDestroyed"))
  BY <1>3 DEF Inv, Fresh
<1>5. CASE NewConnection
  <2>1. /\ inMap' = TRUE /\ state' = "kConnecting" /\ UNCHANGED <<events, index, user, ups>>
        /\ ioLoop # BaseLoop
    BY <1>2, <1>5 DEF NewConnection, Establish, channel
  <2>2. UNCHANGED <<ioLoop, out, todo, worker, holds, writeClosed, downs>>
    BY <1>5 DEF NewConnection, socket
  <2> QED
    BY <1>4, <2>1, <2>2 DEF Fresh
<1>6. CASE DestroyServer
  <2>1. UNCHANGED <<ioLoop, out, todo, user, holds, writeClosed, ups>>
    BY <1>6 DEF DestroyServer, socket
  <2>2. CASE ~inMap /\ UNCHANGED <<state, events, index, queue, downs, worker>>
    <3>1. inMap' = FALSE
      BY <1>6 DEF DestroyServer
    <3>2. QHas(queue', ioLoop', "connectDestroyed") <=> QHas(queue, ioLoop, "connectDestroyed")
      BY <2>1, <2>2
    <3>3. QHas(queue, ioLoop, "connectDestroyed")' <=> QHas(queue, ioLoop, "connectDestroyed")
      BY <3>2
    <3> QED
      BY <1>4, <2>1, <2>2, <3>1, <3>3 DEF Fresh
  <2>3. CASE inMap /\ ioLoop = BaseLoop
    BY <1>3, <1>4, <2>3
  <2>4. CASE /\ inMap /\ Grown(queue, ioLoop, "connectDestroyed", queue')
             /\ UNCHANGED <<state, events, index, downs, worker>>
    <3>1. QHas(queue', ioLoop, "connectDestroyed")
      BY <1>1, <2>4, Zenon DEF Grown
    <3>2. QHas(queue', ioLoop', "connectDestroyed")
      BY <2>1, <3>1
    <3>3. state' = "kConnecting"
      BY <1>3, <1>4, <2>4
    <3> QED
      BY <1>4, <2>1, <2>4, <3>2, <3>3 DEF Fresh
  <2> QED
    BY <1>1, <1>6, <2>2, <2>3, <2>4, DestroyIs
<1>7. CASE UNCHANGED Core /\ UNCHANGED <<queue, todo, user, worker, holds>>
  <2>1. UNCHANGED <<state, ups, downs, events, index, out, todo, user, writeClosed, worker, holds,
                    inMap, ioLoop, queue>>
    BY <1>7 DEF Core
  <2> QED
    BY <1>4, <2>1 DEF Fresh, QHas
<1>8. ~RunConnectEstablished
  BY <1>2 DEF RunConnectEstablished, Establish
<1> QED
  BY <1>3, <1>5, <1>6, <1>7, <1>8, FreshStep

(* connectEstablished is queued once, and runs first. *)
LEMMA EstablishedOnceStays ==
  ASSUME Inv, [Next]_vars
  PROVE  EstablishedOnce'
<1>1. Types /\ Scalars /\ Shapes /\ ioLoop \in Loops /\ BaseLoop \in Loops
  BY TypesSay DEF Inv
<1>2. queue \in Queues /\ ioLoop' = ioLoop
  BY <1>1, LoopStays DEF Shapes, Queues
<1> DEFINE First(q) ==
             /\ Len(q[ioLoop]) >= 1 /\ q[ioLoop][1].op = "connectEstablished"
             /\ \A i \in 2 .. Len(q[ioLoop]) : q[ioLoop][i].op # "connectEstablished"
           Gone(q) == ~QHas(q, ioLoop, "connectEstablished")
<1>3. (state = "kConnecting" => First(queue)) /\ (state # "kConnecting" => Gone(queue))
  <2>1. queue[ioLoop] \in Seq(Functors)
    BY <1>1, <1>2 DEF Queues
  <2>2. queue[ioLoop] # <<>> => Len(queue[ioLoop]) >= 1
    BY <2>1
  <2> QED
    BY <2>2 DEF Inv, EstablishedOnce
<1>4. SUFFICES (state' = "kConnecting" => First(queue')) /\ (state' # "kConnecting" => Gone(queue'))
  <2>1. First(queue') => queue'[ioLoop] # <<>>
    OBVIOUS
  <2>2. /\ First(queue') =>
             /\ queue'[ioLoop'] # <<>> /\ queue'[ioLoop'][1].op = "connectEstablished"
             /\ \A i \in 2 .. Len(queue'[ioLoop']) :
                  queue'[ioLoop'][i].op # "connectEstablished"
        /\ Gone(queue') => ~QHas(queue', ioLoop', "connectEstablished")
    BY <1>2, <2>1, Zenon
  <2> QED
    BY <2>2, Zenon DEF EstablishedOnce
<1>5. \A q \in Queues : SameTracked(queue, q) /\ Gone(queue) => Gone(q)
  <2>1. "connectEstablished" \in Tracked
    BY DEF Tracked
  <2> QED
    BY <1>1, <2>1, Zenon DEF SameTracked
<1>6. CASE state \in {"none", "kConnecting"}
  <2>1. CASE NewConnection
    <3>0. state = "none" /\ queue[ioLoop] = <<>>
      BY <1>1, <2>1 DEF NewConnection, Inv, Fresh
    <3>1. CASE Establish /\ queue' = queue
      BY <1>3, <3>0, <3>1 DEF Establish
    <3>2. CASE state' = "kConnecting" /\ Grown(queue, ioLoop, "connectEstablished", queue')
      <4>1. Len(queue[ioLoop]) = 0
        BY <3>0
      <4>2. /\ Len(queue'[ioLoop]) = Len(queue[ioLoop]) + 1
            /\ queue'[ioLoop][Len(queue[ioLoop]) + 1].op = "connectEstablished"
        BY <3>2, Zenon DEF Grown
      <4>3. Len(queue'[ioLoop]) = 1 /\ queue'[ioLoop][1].op = "connectEstablished"
        BY <4>1, <4>2
      <4>4. 2 .. Len(queue'[ioLoop]) = {}
        BY <4>3
      <4>5. First(queue')
        BY <4>3, <4>4
      <4> QED
        BY <3>2, <4>5
    <3> QED
      BY <1>1, <2>1, <3>1, <3>2, NewIs, Zenon
  <2>2. CASE DestroyServer
    <3>1. CASE ~inMap /\ UNCHANGED <<state, events, index, queue, downs>>
      BY <1>3, <3>1
    <3>2. CASE inMap /\ ioLoop = BaseLoop
      BY <1>6, <3>2 DEF Inv, Fresh
    <3>3. CASE /\ inMap /\ Grown(queue, ioLoop, "connectDestroyed", queue')
               /\ UNCHANGED <<state, events, index, downs>>
      <4>1. state = "kConnecting" /\ state' = "kConnecting"
        BY <1>6, <3>3 DEF Inv, Fresh
      <4>2. First(queue)
        BY <1>3, <4>1
      <4>3. /\ Len(queue'[ioLoop]) = Len(queue[ioLoop]) + 1 /\ Len(queue[ioLoop]) \in Nat
            /\ \A i \in 1 .. Len(queue[ioLoop]) : queue'[ioLoop][i] = queue[ioLoop][i]
            /\ queue'[ioLoop][Len(queue[ioLoop]) + 1].op = "connectDestroyed"
        BY <3>3, Zenon DEF Grown
      <4>4. queue'[ioLoop][1] = queue[ioLoop][1] /\ Len(queue'[ioLoop]) >= 1
        BY <4>2, <4>3
      <4>5. ASSUME NEW i \in 2 .. Len(queue'[ioLoop])
            PROVE  queue'[ioLoop][i].op # "connectEstablished"
        <5>1. CASE i = Len(queue[ioLoop]) + 1
          BY <4>3, <5>1
        <5>2. CASE i # Len(queue[ioLoop]) + 1
          <6>1. i \in 1 .. Len(queue[ioLoop]) /\ i \in 2 .. Len(queue[ioLoop])
            BY <4>3, <5>2
          <6> QED
            BY <4>2, <4>3, <6>1
        <5> QED
          BY <5>1, <5>2
      <4>6. First(queue')
        BY <4>2, <4>4, <4>5
      <4> QED
        BY <4>1, <4>6
    <3> QED
      BY <1>1, <2>2, <3>1, <3>2, <3>3, DestroyIs
  <2>3. CASE RunConnectEstablished
    <3>1. state' = "kConnected" /\ queue' = Dequeued(ioLoop) /\ Runs(ioLoop, "connectEstablished")
      BY <2>3 DEF RunConnectEstablished, Establish
    <3>2. Shrunk(queue, ioLoop, queue') /\ QHas(queue, ioLoop, "connectEstablished")
      BY <1>1, <3>1, RunIs, Zenon
    <3>3. First(queue)
      BY <1>3, <3>2
    <3>4. /\ Len(queue'[ioLoop]) = Len(queue[ioLoop]) - 1 /\ Len(queue[ioLoop]) \in Nat
          /\ \A i \in 1 .. Len(queue'[ioLoop]) : queue'[ioLoop][i] = queue[ioLoop][i + 1]
      BY <3>2, Zenon DEF Shrunk
    <3>5. ASSUME NEW i \in 1 .. Len(queue'[ioLoop])
          PROVE  queue'[ioLoop][i].op # "connectEstablished"
      <4>1. i + 1 \in 2 .. Len(queue[ioLoop])
        BY <3>4
      <4> QED
        BY <3>3, <3>4, <4>1
    <3>6. Gone(queue')
      BY <3>5 DEF QHas
    <3> QED
      BY <3>1, <3>6
  <2>4. CASE UNCHANGED Core /\ UNCHANGED <<queue, todo, user, worker, holds>>
    BY <1>3, <2>4 DEF Core
  <2> QED
    BY <1>6, <2>1, <2>2, <2>3, <2>4, FreshStep
<1>7. CASE state \notin {"none", "kConnecting"}
  <2>1. Gone(queue) /\ state' # "kConnecting" /\ ~NewConnection /\ ~RunConnectEstablished
    BY <1>3, <1>7, NotFreshAgain
  <2> SUFFICES Gone(queue')
    BY <2>1
  <2>2. CASE DestroyServer
    <3>1. queue' = queue \/ Grown(queue, ioLoop, "connectDestroyed", queue')
      BY <1>1, <2>2, DestroyIs
    <3> QED
      BY <1>1, <2>1, <3>1 DEF Grown
  <2>3. CASE RunRemoveConnectionInLoop
    <3>1. PICK q \in Queues : /\ Shrunk(queue, BaseLoop, q)
                              /\ Grown(q, ioLoop, "connectDestroyed", queue')
      BY <1>1, <2>3, RunRemoveIs
    <3>2. Gone(q)
      BY <1>1, <2>1, <3>1, Zenon DEF Shrunk
    <3> QED
      BY <1>1, <3>1, <3>2 DEF Grown
  <2>4. CASE RunConnectDestroyed
    <3>1. Shrunk(queue, ioLoop, queue')
      BY <1>1, <2>4, RunIs DEF RunConnectDestroyed
    <3> QED
      BY <1>1, <2>1, <3>1, Zenon DEF Shrunk
  <2>5. CASE CloseStep
    <3>1. RemoveConnection
      BY <2>5 DEF CloseStep, HandleClose
    <3>2. \/ Grown(queue, ioLoop, "connectDestroyed", queue')
          \/ Grown(queue, BaseLoop, "removeConnectionInLoop", queue')
      BY <1>1, <3>1, RemoveIs
    <3> QED
      BY <1>1, <2>1, <3>2 DEF Grown
  <2>6. CASE \/ SendStep \/ RunShutdownInLoop \/ UserShutdown \/ WriteEvent \/ Quiet
             \/ \E w \in Workers : WorkerSetsState(w)
    <3>1. SameTracked(queue, queue')
      BY <1>1, <2>6, TrackedKept
    <3>2. queue' \in Queues
      BY <3>1 DEF SameTracked
    <3> QED
      BY <1>5, <2>1, <3>1, <3>2, Zenon
  <2> QED
    BY <1>1, <2>1, <2>2, <2>3, <2>4, <2>5, <2>6, NextIs, Zenon
<1> QED
  BY <1>6, <1>7

-----------------------------------------------------------------------------
(* The callbacks of one event.                                              *)

(* What TodoOK says. *)
LEMMA TodoSays ==
  ASSUME Inv
  PROVE  /\ OneEnd(todo) /\ WriteLast(todo) /\ todo \in Seq(Kinds)
         /\ \A i \in 1 .. Len(todo) : todo[i] \in Ends => index = "kAdded" /\ ~user
         /\ \A i \in 1 .. Len(todo) : todo[i] = "read" => downs = 0
         /\ todo # <<>> => index = "kAdded" \/ events = {}
<1>1. todo \in Seq(Kinds)
  BY TypesSay DEF Inv, Shapes
<1> QED
  BY <1>1 DEF Inv, TodoOK, OneEnd, WriteLast

(* No callback is left. *)
LEMMA NoTodo ==
  ASSUME todo' = <<>>
  PROVE  TodoOK'
<1>1. Len(todo') = 0 /\ 1 .. 0 = {}
  OBVIOUS
<1> QED
  BY <1>1 DEF TodoOK

(* One callback less, which was the one that may end the connection, or left *)
(* user code and the channel alone.                                          *)
LEMMA LessTodo ==
  ASSUME Inv, todo # <<>>, todo' = Tail(todo), downs' >= downs,
         \/ Head(todo) \in Ends
         \/ user' = user /\ index' = index /\ downs' = downs,
         \/ events' = {}
         \/ events' = events /\ index' = index
  PROVE  TodoOK'
<1>1. /\ OneEnd(todo) /\ WriteLast(todo) /\ todo \in Seq(Kinds)
      /\ \A i \in 1 .. Len(todo) : todo[i] \in Ends => index = "kAdded" /\ ~user
      /\ \A i \in 1 .. Len(todo) : todo[i] = "read" => downs = 0
      /\ index = "kAdded" \/ events = {}
  BY TodoSays
<1>2. /\ OneEnd(todo')
      /\ \A i \in 1 .. Len(todo') : todo'[i] = todo[i + 1] /\ i + 1 \in 1 .. Len(todo)
      /\ Head(todo) \in Ends => \A i \in 1 .. Len(todo') : todo'[i] \notin Ends
  BY <1>1, TailOfTodo, Zenon
<1>3. WriteLast(todo')
  BY <1>1, TailWriteLast, Zenon
<1>4. \A i \in 1 .. Len(todo') : todo'[i] \in Ends => index' = "kAdded" /\ ~user'
  BY <1>1, <1>2, Zenon
<1>5. "read" \in Ends
  BY DEF Ends
<1>6. \A i \in 1 .. Len(todo') : todo'[i] = "read" => downs' = 0
  BY <1>1, <1>2, <1>5, Zenon
<1>7. index' = "kAdded" \/ events' = {}
  BY <1>1, Zenon
<1> QED
  BY <1>2, <1>3, <1>4, <1>6, <1>7, Zenon DEF TodoOK, OneEnd, WriteLast

(* The same callbacks, and user code has at most ended. *)
LEMMA SameTodo ==
  ASSUME Inv, todo' = todo, downs' = downs, index' = index, events' = events,
         user' = user \/ user' = FALSE
  PROVE  TodoOK'
<1>1. \A i \in 1 .. Len(todo) : todo[i] \in Ends => index = "kAdded" /\ ~user'
  BY TodoSays, Zenon
<1> QED
  BY <1>1 DEF Inv, TodoOK

(* Every event stays of that form. *)
LEMMA TodoStays ==
  ASSUME Inv, [Next]_vars
  PROVE  TodoOK'
<1>1. Types /\ Sound /\ Scalars /\ Shapes
  BY TypesSay DEF Inv
<1>2. downs \in Nat
  BY <1>1 DEF Scalars
<1>3. CASE NewConnection
  <2>1. todo' = todo /\ state = "none"
    BY <1>3 DEF NewConnection
  <2>2. todo' = <<>>
    BY <2>1 DEF Inv, Fresh
  <2> QED
    BY <2>2, NoTodo
<1>4. CASE DestroyServer
  <2>1. todo' = todo /\ user' = user
    BY <1>4 DEF DestroyServer
  <2>2. CASE IoIdle
    BY <2>1, <2>2, NoTodo DEF IoIdle
  <2>3. CASE UNCHANGED <<state, events, index, downs>>
    BY <2>1, <2>3, SameTodo
  <2> QED
    BY <1>1, <1>4, <2>2, <2>3, DestroyIs
<1>5. CASE RunRemoveConnectionInLoop
  BY <1>5, SameTodo DEF RunRemoveConnectionInLoop, channel, history
<1>6. CASE RunConnectEstablished \/ RunConnectDestroyed \/ RunShutdownInLoop \/ RunUserCallback
  <2>1. todo' = todo /\ IoIdle
    BY <1>6 DEF RunConnectEstablished, RunConnectDestroyed, RunShutdownInLoop, RunUserCallback, Runs
  <2> QED
    BY <2>1, NoTodo DEF IoIdle
<1>7. CASE SendStep
  <2>1. /\ todo' = todo /\ user' = user /\ downs' = downs
        /\ user \/ Runs(ioLoop, "sendInLoop")
    BY <1>1, <1>7, SendStepIs
  <2>2. CASE Runs(ioLoop, "sendInLoop")
    BY <2>1, <2>2, NoTodo DEF Runs, IoIdle
  <2>3. CASE user
    <3>1. PICK m \in Msgs, q \in Queues : Sent(m, q)
      BY <1>1, <1>7, SendStepIs, Zenon
    <3>2. index' = "kAdded" \/ (index' = index /\ events' = events)
      BY <3>1 DEF Sent, Takes, Discards
    <3>3. /\ \A i \in 1 .. Len(todo) : todo[i] \notin Ends
          /\ \A i \in 1 .. Len(todo) : todo[i] = "read" => downs = 0
          /\ todo # <<>> => index = "kAdded" \/ events = {}
      BY <2>3, TodoSays
    <3>4. todo' # <<>> => index' = "kAdded" \/ events' = {}
      BY <2>1, <3>2, <3>3
    <3>5. OneEnd(todo) /\ WriteLast(todo)
      BY TodoSays
    <3> QED
      BY <2>1, <3>3, <3>4, <3>5, Zenon DEF TodoOK, OneEnd, WriteLast
  <2> QED
    BY <2>1, <2>2, <2>3
<1>8. CASE UserShutdown
  BY <1>8, SameTodo DEF UserShutdown, channel, history
<1>9. CASE CloseStep
  <2>1. /\ todo # <<>> /\ Head(todo) \in Ends /\ todo' = Tail(todo)
        /\ events' = {} /\ downs' = downs + 1
    BY <1>9 DEF CloseStep, HandleClose, SetEvents
  <2>2. downs' >= downs
    BY <1>2, <2>1
  <2> QED
    BY <2>1, <2>2, LessTodo
<1>10. CASE WriteEvent
  <2>1. todo # <<>> /\ Head(todo) = "write" /\ todo' = Tail(todo)
    BY <1>10 DEF WriteEvent, Callback
  <2>2. todo' = <<>>
    BY <2>1, TodoSays, TailWriteLast
  <2> QED
    BY <2>2, NoTodo
<1>11. ASSUME NEW w \in Workers, WorkerSetsState(w) PROVE TodoOK'
  BY <1>11, SameTodo DEF WorkerSetsState, channel
<1>12. CASE CallbackStep
  <2>1. UNCHANGED <<index, events, downs>>
    BY <1>12, QuietKeeps DEF Quiet, Core
  <2>2. CASE todo # <<>> /\ todo' = Tail(todo) /\ (user' # user => Head(todo) = "read")
    <3>1. downs' >= downs /\ (Head(todo) \in Ends \/ user' = user)
      BY <1>2, <2>1, <2>2 DEF Ends
    <3> QED
      BY <2>1, <2>2, <3>1, LessTodo
  <2>3. CASE Poll /\ user' = user
    <3>1. PICK writable \in BOOLEAN : todo' = Callbacks(Revents(writable))
      BY <2>3 DEF Poll
    <3>2. index = "kAdded" /\ ~user
      BY <2>3 DEF Poll, IoIdle
    <3>3. OneEnd(todo') /\ \A i \in 1 .. Len(todo') : todo'[i] = "read" => "in" \in Revents(writable)
      BY <3>1, CallbacksAre, Zenon
    <3>4. WriteLast(todo')
      BY <3>1, CallbacksWriteLast, Zenon
    <3>5. "in" \in Revents(writable) => "in" \in events
      BY DEF Revents
    <3>6. "in" \in events => downs = 0
      BY <1>2 DEF Inv, DownOK
    <3>7. \A i \in 1 .. Len(todo') : todo'[i] = "read" => downs' = 0
      BY <2>1, <3>3, <3>5, <3>6
    <3>8. index' = "kAdded" /\ ~user'
      BY <2>1, <2>3, <3>2
    <3> QED
      BY <3>3, <3>4, <3>7, <3>8, Zenon DEF TodoOK, OneEnd, WriteLast
  <2> QED
    BY <1>1, <1>12, <2>2, <2>3, CallbackIs
<1>13. CASE LinkStep \/ CallStep
  <2>1. UNCHANGED <<index, events, downs>>
    BY <1>13, QuietKeeps DEF Quiet, Core
  <2>2. todo' = todo /\ (user' = user \/ user' = FALSE)
    BY <1>1, <1>13, LinkIs, CallIs
  <2> QED
    BY <2>1, <2>2, SameTodo
<1> QED
  BY <1>1, <1>3, <1>4, <1>5, <1>6, <1>7, <1>8, <1>9, <1>10, <1>11, <1>12, <1>13, NextIs, Zenon
     DEF Quiet

-----------------------------------------------------------------------------
(* The interest in write events.                                            *)

(* connectEstablished runs, or is called, on a fresh connection. *)
LEMMA EstablishIs ==
  ASSUME Inv, [Next]_vars, NewConnection \/ RunConnectEstablished
  PROVE  /\ state \in {"none", "kConnecting"}
         /\ ups = 0 /\ downs = 0 /\ events = {} /\ index = "kNew" /\ out = <<>> /\ ~writeClosed
         /\ UNCHANGED <<out, wire, writeClosed, downs, worker, reopened, server, ioLoop>>
         /\ \/ state' = "kConnected" /\ events' = {"in"} /\ ups' = 1
            \/ state' = "kConnecting" /\ UNCHANGED <<events, index, ups>>
<1>1. Types
  BY DEF Inv
<1>2. state \in {"none", "kConnecting"}
  BY NotFreshAgain
<1>3. ups = 0 /\ downs = 0 /\ events = {} /\ index = "kNew" /\ out = <<>> /\ ~writeClosed
  BY <1>2 DEF Inv, Fresh
<1>4. Establish => state' = "kConnected" /\ events' = {"in"} /\ ups' = 1
  BY <1>3 DEF Establish, SetEvents
<1>5. UNCHANGED <<out, wire, writeClosed, downs, worker, reopened, server, ioLoop>>
  BY DEF NewConnection, RunConnectEstablished, socket
<1>6. \/ state' = "kConnected" /\ events' = {"in"} /\ ups' = 1
      \/ state' = "kConnecting" /\ UNCHANGED <<events, index, ups>>
  <2>1. CASE RunConnectEstablished
    BY <1>4, <2>1 DEF RunConnectEstablished
  <2>2. CASE NewConnection
    BY <1>1, <1>4, <2>2, NewIs
  <2> QED
    BY <2>1, <2>2
<1> QED
  BY <1>2, <1>3, <1>5, <1>6

(* handleClose is called on a channel that the poller has. *)
LEMMA CloseIs ==
  ASSUME Inv, CloseStep
  PROVE  /\ index = "kAdded" /\ state \notin {"none", "kConnecting"}
         /\ state' = "kDisconnected" /\ events' = {} /\ index' = "kDeleted" /\ downs' = downs + 1
         /\ UNCHANGED <<ioLoop, server, out, worker, writeClosed, ups, reopened>>
<1>1. todo # <<>> /\ Head(todo) \in Ends
  BY DEF CloseStep
<1>2. OneEnd(todo) /\ \A i \in 1 .. Len(todo) : todo[i] \in Ends => index = "kAdded" /\ ~user
  BY TodoSays
<1>3. Head(todo) = todo[1] /\ 1 \in 1 .. Len(todo)
  BY <1>1, <1>2, TailOfTodo, Zenon
<1>4. index = "kAdded"
  BY <1>1, <1>2, <1>3
<1>5. state \notin {"none", "kConnecting"}
  BY <1>4 DEF Inv, Fresh
<1>6. /\ state' = "kDisconnected" /\ events' = {} /\ index' = "kDeleted" /\ downs' = downs + 1
      /\ UNCHANGED <<ioLoop, server, out, worker, writeClosed, ups, reopened>>
  BY <1>4 DEF CloseStep, HandleClose, SetEvents, UpdateIndex, socket
<1> QED
  BY <1>4, <1>5, <1>6

(* handleWrite finds write events awaited only in the poller's set. *)
LEMMA WriteInPoller ==
  ASSUME Inv, WriteEvent, Writing
  PROVE  index = "kAdded"
<1>1. todo # <<>>
  BY DEF WriteEvent, Callback
<1>2. index = "kAdded" \/ events = {}
  BY <1>1, TodoSays
<1> QED
  BY <1>2 DEF Writing

(* connectDestroyed, apart from its queue: told and disabled when up, and out *)
(* of the poller in any case.                                                 *)
LEMMA ConnectDestroyedIs ==
  ASSUME Inv, ConnectDestroyed
  PROVE  /\ index' = "kNew"
         /\ \/ /\ state = "kConnected" /\ downs = 0 /\ ups = 1
               /\ state' = "kDisconnected" /\ events' = {} /\ downs' = 1
            \/ state # "kConnected" /\ UNCHANGED <<state, events, downs>>
<1>1. downs \in Nat
  BY TypesSay DEF Inv, Scalars
<1>2. state = "kConnected" => downs = 0 /\ ups = 1
  BY <1>1 DEF Inv, DownOK
<1> QED
  BY <1>1, <1>2 DEF ConnectDestroyed

(* The steps that leave the core of the state alone, but for the queues and    *)
(* inMap.                                                                      *)
LEMMA RemoveKeeps ==
  ASSUME RunRemoveConnectionInLoop
  PROVE  UNCHANGED <<ioLoop, server, state, events, index, out, worker, writeClosed, ups, downs,
                     reopened>>
BY DEF RunRemoveConnectionInLoop, channel, socket, history

(* Shutting down leaves most of it alone. *)
LEMMA ShutdownIs ==
  ASSUME RunShutdownInLoop \/ UserShutdown
  PROVE  /\ UNCHANGED <<ioLoop, server, events, index, out, worker, ups, downs, reopened, inMap>>
         /\ writeClosed' = (writeClosed \/ ~Writing)
         /\ state' = state \/ (state = "kConnected" /\ state' = "kDisconnecting")
BY DEF RunShutdownInLoop, UserShutdown, ShutdownInLoop, ClosesWrite, channel, history

(* The interest in write events stays what the buffer asks for. *)
LEMMA WriteStays ==
  ASSUME Inv, [Next]_vars
  PROVE  WriteOK'
<1>1. Types /\ Sound /\ Scalars /\ Shapes
  BY TypesSay DEF Inv
<1>2. downs \in Nat
  BY <1>1 DEF Scalars
<1>3. /\ "out" \in events => out # <<>>
      /\ downs = 0 \/ index = "kAdded" => (out # <<>> => "out" \in events)
      /\ writeClosed /\ downs = 0 => out = <<>>
  BY DEF Inv, WriteOK, Writing
<1>4. SUFFICES /\ "out" \in events' => out' # <<>>
               /\ downs' = 0 \/ index' = "kAdded" => (out' # <<>> => "out" \in events')
               /\ writeClosed' /\ downs' = 0 => out' = <<>>
  BY Zenon DEF WriteOK, Writing
<1>5. CASE NewConnection \/ RunConnectEstablished
  <2>1. /\ events = {} /\ out = <<>> /\ out' = out
        /\ events' = {"in"} \/ events' = events
    BY <1>5, EstablishIs
  <2>2. "out" \notin events' /\ out' = <<>>
    BY <2>1
  <2> QED
    BY <2>2
<1>6. CASE DestroyServer \/ RunConnectDestroyed
  <2>1. UNCHANGED <<out, writeClosed>>
    BY <1>6 DEF DestroyServer, RunConnectDestroyed, socket
  <2>2. CASE ConnectDestroyed
    <3>1. CASE events' = {} /\ downs' = 1 /\ index' = "kNew"
      BY <3>1
    <3>2. CASE UNCHANGED <<state, events, downs>> /\ index' = "kNew"
      BY <1>3, <2>1, <3>2
    <3> QED
      BY <2>2, <3>1, <3>2, ConnectDestroyedIs
  <2>3. CASE UNCHANGED <<state, events, index, downs>>
    BY <1>3, <2>1, <2>3
  <2> QED
    BY <1>1, <1>6, <2>2, <2>3, DestroyIs DEF RunConnectDestroyed
<1>7. CASE RunRemoveConnectionInLoop
  BY <1>3, <1>7, RemoveKeeps
<1>8. CASE SendStep
  <2>1. PICK m \in Msgs, q \in Queues : Sent(m, q)
    BY <1>1, <1>8, SendStepIs, Zenon
  <2>2. downs' = downs /\ writeClosed' = writeClosed
    BY <1>1, <1>8, <2>1, SendStepIs DEF Sent
  <2>3. CASE Discards
    BY <1>3, <2>2, <2>3 DEF Discards
  <2>4. CASE Takes(m)
    <3>1. CASE out' = <<>>
      BY <1>3, <2>4, <3>1 DEF Takes, Writing
    <3>2. CASE out' # <<>>
      <4>1. "out" \in events'
        BY <2>4, <3>2 DEF Takes, Writing
      <4>2. writeClosed => ~("out" \notin events /\ out = <<>>)
        BY <2>4 DEF Takes, Direct, Writing
      <4>3. ~(writeClosed /\ downs = 0)
        BY <1>3, <4>2
      <4> QED
        BY <2>2, <3>2, <4>1, <4>3
    <3> QED
      BY <3>1, <3>2
  <2> QED
    BY <2>1, <2>3, <2>4 DEF Sent
<1>9. CASE RunShutdownInLoop \/ UserShutdown
  <2>1. UNCHANGED <<events, index, out, downs>> /\ writeClosed' = (writeClosed \/ "out" \notin events)
    BY <1>9, ShutdownIs DEF Writing
  <2> QED
    BY <1>3, <2>1
<1>10. CASE CloseStep
  <2>1. events' = {} /\ index' = "kDeleted" /\ downs' = downs + 1
    BY <1>10, CloseIs
  <2>2. downs' # 0 /\ "out" \notin events'
    BY <1>2, <2>1
  <2> QED
    BY <2>1, <2>2
<1>11. CASE WriteEvent
  <2>1. Written /\ downs' = downs
    BY <1>1, <1>11, WriteIs DEF WriteEvent, history
  <2>2. CASE /\ out' = out /\ events' = events /\ index' = index
             /\ writeClosed' = writeClosed
    BY <1>3, <2>1, <2>2
  <2>3. CASE /\ Writing /\ out' # <<>> /\ events' = events
             /\ writeClosed' = writeClosed /\ ~writeClosed
    BY <1>3, <2>1, <2>3 DEF Writing
  <2>4. CASE out' = <<>> /\ events' = events \ {"out"}
    BY <2>4
  <2> QED
    BY <2>1, <2>2, <2>3, <2>4, Zenon DEF Written
<1>12. ASSUME NEW w \in Workers, WorkerSetsState(w)
       PROVE  UNCHANGED <<events, index, out, downs, writeClosed>>
  BY <1>12 DEF WorkerSetsState, channel, socket
<1>13. CASE Quiet \/ \E w \in Workers : WorkerSetsState(w)
  <2>1. UNCHANGED <<events, index, out, downs, writeClosed>>
    BY <1>12, <1>13, QuietKeeps DEF Core
  <2> QED
    BY <1>3, <2>1
<1> QED
  BY <1>1, <1>5, <1>6, <1>7, <1>8, <1>9, <1>10, <1>11, <1>13, NextIs, Zenon

-----------------------------------------------------------------------------
(* Closing.                                                                 *)

(* The workers on their way to kDisconnecting are finitely many. *)
LEMMA SettingIs ==
  /\ Cardinality(Setting) \in Nat /\ Cardinality(Workers) \in Nat
  /\ Cardinality(Setting) <= Cardinality(Workers)
<1>1. IsFiniteSet(Workers)
  BY ConnAssumption
<1>2. Setting \subseteq Workers
  BY DEF Setting
<1> QED
  BY <1>1, <1>2, FS_Subset, FS_CardinalityType

(* A worker that writes kDisconnecting is one less on its way. *)
LEMMA SettingLess ==
  ASSUME Types, NEW w \in Workers, WorkerSetsState(w)
  PROVE  Cardinality(Setting') = Cardinality(Setting) - 1
<1>1. worker \in [Workers -> WorkerStates]
  BY DEF Types
<1>2. worker' = [worker EXCEPT ![w] = [at |-> "shutdown", msg |-> NoMsg]] /\ worker[w].at = "setState"
  BY DEF WorkerSetsState, AtWorker, InShutdown
<1>3. worker'[w].at = "shutdown" /\ \A v \in Workers : v # w => worker'[v] = worker[v]
  BY <1>1, <1>2
<1>4. Setting' = Setting \ {w} /\ w \in Setting
  BY <1>2, <1>3 DEF Setting
<1>5. IsFiniteSet(Setting)
  BY ConnAssumption, FS_Subset DEF Setting
<1> QED
  BY <1>4, <1>5, FS_RemoveElement

(* connectDestroyed sends no worker on its way. *)
LEMMA SettingFewer ==
  ASSUME Types, ConnectDestroyed
  PROVE  Cardinality(Setting') \in Nat /\ Cardinality(Setting') <= Cardinality(Setting)
<1>1. Setting' \subseteq Setting
  BY StoresLostIs DEF Types
<1>2. IsFiniteSet(Setting)
  BY ConnAssumption, FS_Subset DEF Setting
<1> QED
  BY <1>1, <1>2, FS_Subset, FS_CardinalityType

(* Every close after the first is paid for by a worker. *)
LEMMA DownStays ==
  ASSUME Inv, [Next]_vars
  PROVE  DownOK'
<1>1. Types /\ Sound /\ Scalars /\ Shapes
  BY TypesSay DEF Inv
<1>2. downs \in Nat /\ ups \in Nat /\ reopened \in BOOLEAN
  BY <1>1 DEF Scalars
<1> DEFINE Left == Cardinality(Setting)
           All == Cardinality(Workers)
           Bound(d, l, s) == d + l + (IF s = "kDisconnecting" THEN 1 ELSE 0) <= 1 + All
<1>3. Left \in Nat /\ All \in Nat /\ Left <= All
  BY SettingIs
<1>4. /\ state \notin {"none", "kConnecting"} => ups = 1
      /\ state = "kDisconnected" => downs >= 1
      /\ downs >= 2 => reopened
      /\ downs >= 1 => state \in {"kDisconnecting", "kDisconnected"} /\ "in" \notin events
      /\ downs >= 1 => (state = "kDisconnecting" => reopened)
      /\ downs >= 1 => (index = "kAdded" => state = "kDisconnecting")
      /\ downs >= 1 => Bound(downs, Left, state)
  BY DEF Inv, DownOK
<1>5. SUFFICES /\ state' \notin {"none", "kConnecting"} => ups' = 1
               /\ state' = "kDisconnected" => downs' >= 1
               /\ downs' >= 2 => reopened'
               /\ downs' >= 1 => /\ state' \in {"kDisconnecting", "kDisconnected"}
                                 /\ "in" \notin events'
               /\ downs' >= 1 => (state' = "kDisconnecting" => reopened')
               /\ downs' >= 1 => (index' = "kAdded" => state' = "kDisconnecting")
               /\ downs' >= 1 => Bound(downs', Cardinality(Setting'), state')
  BY DEF DownOK
<1>6. worker' = worker => Cardinality(Setting') = Left
  <2>1. worker' = worker => Setting' = Setting
    BY DEF Setting
  <2> QED
    BY <2>1
<1> HIDE DEF Left, All
<1>7. CASE NewConnection \/ RunConnectEstablished
  <2>1. downs' = 0 /\ \/ state' = "kConnected" /\ ups' = 1
                      \/ state' = "kConnecting"
    BY <1>7, EstablishIs
  <2> QED
    BY <2>1
<1>8. CASE DestroyServer \/ RunConnectDestroyed
  <2>1. UNCHANGED <<ups, reopened>>
    BY <1>8 DEF DestroyServer, RunConnectDestroyed
  <2>3. CASE ConnectDestroyed
    <3>0. Cardinality(Setting') \in Nat /\ Cardinality(Setting') <= Left
      BY <1>1, <2>3, SettingFewer DEF Left, Inv
    <3>1. CASE /\ index' = "kNew" /\ ups = 1
               /\ state' = "kDisconnected" /\ events' = {} /\ downs' = 1
      <4>1. Bound(downs', Cardinality(Setting'), state')
        BY <1>3, <3>0, <3>1
      <4> QED
        BY <2>1, <3>1, <4>1
    <3>2. CASE UNCHANGED <<state, events, downs>> /\ index' = "kNew"
      <4>1. downs' >= 1 => Bound(downs', Cardinality(Setting'), state')
        BY <1>2, <1>3, <1>4, <3>0, <3>2
      <4> QED
        BY <1>4, <2>1, <3>2, <4>1
    <3> QED
      BY <2>3, <3>1, <3>2, ConnectDestroyedIs
  <2>4. CASE UNCHANGED <<state, events, index, downs, worker>>
    <3>1. downs' >= 1 => Bound(downs', Cardinality(Setting'), state')
      BY <1>4, <1>6, <2>4
    <3> QED
      BY <1>4, <2>1, <2>4, <3>1
  <2> QED
    BY <1>1, <1>8, <2>3, <2>4, DestroyIs DEF RunConnectDestroyed
<1>9. CASE RunRemoveConnectionInLoop
  <2>1. UNCHANGED <<state, events, index, ups, downs, reopened, worker>>
    BY <1>9, RemoveKeeps
  <2>2. downs' >= 1 => Bound(downs', Cardinality(Setting'), state')
    BY <1>4, <1>6, <2>1
  <2> QED
    BY <1>4, <2>1, <2>2
<1>10. CASE SendStep
  <2>1. PICK m \in Msgs, q \in Queues : Sent(m, q)
    BY <1>1, <1>10, SendStepIs, Zenon
  <2>2. UNCHANGED <<state, worker, ups, downs, reopened>>
    BY <1>1, <1>10, SendStepIs
  <2>3. downs' >= 1 => Bound(downs', Cardinality(Setting'), state')
    BY <1>4, <1>6, <2>2
  <2>4. "in" \in events' => "in" \in events
    BY <2>1 DEF Sent, Takes, Discards
  <2>5. index' = index \/ state # "kDisconnected"
    BY <2>1 DEF Sent, Takes, Discards
  <2> QED
    BY <1>4, <2>2, <2>3, <2>4, <2>5
<1>11. CASE RunShutdownInLoop \/ UserShutdown
  <2>1. /\ UNCHANGED <<events, index, worker, ups, downs, reopened>>
        /\ state' = state \/ (state = "kConnected" /\ state' = "kDisconnecting")
    BY <1>11, ShutdownIs
  <2>2. CASE state' = state
    <3>1. downs' >= 1 => Bound(downs', Cardinality(Setting'), state')
      BY <1>4, <1>6, <2>1, <2>2
    <3> QED
      BY <1>4, <2>1, <2>2, <3>1
  <2>3. CASE state = "kConnected" /\ state' = "kDisconnecting"
    <3>1. downs = 0 /\ ups = 1
      BY <1>2, <1>4, <2>3
    <3> QED
      BY <2>1, <2>3, <3>1
  <2> QED
    BY <2>1, <2>2, <2>3
<1>12. CASE CloseStep
  <2>1. /\ index = "kAdded" /\ state \notin {"none", "kConnecting"}
        /\ state' = "kDisconnected" /\ events' = {} /\ index' = "kDeleted" /\ downs' = downs + 1
        /\ UNCHANGED <<worker, ups, reopened>>
    BY <1>12, CloseIs
  <2>2. downs >= 1 => state = "kDisconnecting" /\ reopened /\ downs + Left + 1 <= 1 + All
    BY <1>4, <2>1
  <2>3. Bound(downs', Cardinality(Setting'), state')
    <3>1. CASE downs = 0
      BY <1>3, <1>6, <2>1, <3>1
    <3>2. CASE downs >= 1
      BY <1>2, <1>3, <1>6, <2>1, <2>2, <3>2
    <3> QED
      BY <1>2, <3>1, <3>2
  <2>4. downs' >= 1 /\ (downs' >= 2 => downs >= 1)
    BY <1>2, <2>1
  <2>5. downs' >= 2 => reopened'
    BY <2>1, <2>2, <2>4
  <2>6. ups' = 1 /\ "in" \notin events'
    BY <1>4, <2>1
  <2> QED
    BY <2>1, <2>3, <2>4, <2>5, <2>6
<1>13. CASE WriteEvent
  <2>1. Written /\ UNCHANGED <<state, worker, ups, downs, reopened>>
    BY <1>1, <1>13, WriteIs DEF WriteEvent, history
  <2>2. downs' >= 1 => Bound(downs', Cardinality(Setting'), state')
    BY <1>4, <1>6, <2>1
  <2>3. "in" \in events' => "in" \in events
    BY <2>1 DEF Written
  <2>4. index' = index \/ Writing
    BY <2>1 DEF Written
  <2>5. index' = index \/ index = "kAdded"
    BY <1>13, <2>4, WriteInPoller
  <2> QED
    BY <1>4, <2>1, <2>2, <2>3, <2>5
<1>14. ASSUME NEW w \in Workers, WorkerSetsState(w) PROVE <1>5!1
  <2>1. /\ state' = "kDisconnecting" /\ reopened' = (reopened \/ state = "kDisconnected")
        /\ UNCHANGED <<events, index, ups, downs>>
    BY <1>14 DEF WorkerSetsState, channel
  <2>2. state \notin {"none", "kConnecting"}
    BY <1>14 DEF WorkerSetsState, AtWorker, Inv, Fresh
  <2>3. Cardinality(Setting') = Left - 1
    BY <1>1, <1>14, SettingLess DEF Left
  <2>4. downs >= 1 => reopened'
    BY <1>4, <2>1
  <2>5. downs' >= 1 => Bound(downs', Cardinality(Setting'), state')
    BY <1>2, <1>3, <1>4, <2>1, <2>3
  <2>6. downs' >= 2 => downs >= 1
    BY <1>2, <2>1
  <2> QED
    BY <1>4, <2>1, <2>2, <2>4, <2>5, <2>6
<1>15. CASE Quiet
  <2>1. UNCHANGED <<state, events, index, ups, downs, reopened>>
    BY <1>15, QuietKeeps DEF Core
  <2>2. downs' >= 1 => Bound(downs', Cardinality(Setting'), state')
    <3>1. CASE state = "kConnected"
      BY <1>2, <1>4, <2>1, <3>1
    <3>2. CASE Setting' = Setting
      BY <1>4, <2>1, <3>2 DEF Left
    <3> QED
      BY <1>1, <1>15, <3>1, <3>2, QuietIs
  <2> QED
    BY <1>4, <2>1, <2>2
<1> QED
  BY <1>1, <1>7, <1>8, <1>9, <1>10, <1>11, <1>12, <1>13, <1>14, <1>15, NextIs, Zenon

(* A connection that is leaving the map is closed, or will be by              *)
(* connectDestroyed.                                                          *)
LEMMA RemovalStays ==
  ASSUME Inv, [Next]_vars
  PROVE  RemovalOK'
<1>1. Types /\ Scalars /\ Shapes /\ ioLoop \in Loops /\ BaseLoop \in Loops
  BY TypesSay DEF Inv
<1>2. downs \in Nat /\ ups \in Nat /\ queue \in Queues
  BY <1>1 DEF Scalars, Shapes, Queues
<1>3. ioLoop' = ioLoop
  BY <1>1, LoopStays
<1> DEFINE CD(q) == QHas(q, ioLoop, "connectDestroyed")
           RM(q) == QHas(q, BaseLoop, "removeConnectionInLoop")
<1>4. /\ CD(queue) => downs >= 1 \/ ~server
      /\ RM(queue) => downs >= 1
      /\ state # "none" /\ ~inMap /\ ~CD(queue) /\ ~RM(queue) =>
           \/ index = "kNew" /\ downs = ups
           \/ reopened
           \/ ~server /\ state = "kDisconnecting"
  BY DEF Inv, RemovalOK
<1>5. SUFFICES /\ CD(queue') => downs' >= 1 \/ ~server'
               /\ RM(queue') => downs' >= 1
               /\ state' # "none" /\ ~inMap' /\ ~CD(queue') /\ ~RM(queue') =>
                    \/ index' = "kNew" /\ downs' = ups'
                    \/ reopened'
                    \/ ~server' /\ state' = "kDisconnecting"
  BY <1>3, Zenon DEF RemovalOK
<1>6. /\ state \notin {"none", "kConnecting"} => ups = 1
      /\ state = "kDisconnected" => downs >= 1
      /\ downs >= 2 => reopened
      /\ downs >= 1 => state \in {"kDisconnecting", "kDisconnected"}
      /\ downs >= 1 => (state = "kDisconnecting" => reopened)
  BY DEF Inv, DownOK
<1>7. \A q \in Queues : SameTracked(queue, q) => (CD(q) <=> CD(queue)) /\ (RM(q) <=> RM(queue))
  <2>1. "connectDestroyed" \in Tracked /\ "removeConnectionInLoop" \in Tracked
    BY DEF Tracked
  <2> QED
    BY <1>1, <2>1, Zenon DEF SameTracked
<1>8. \A q, r : Grown(q, ioLoop, "connectDestroyed", r) => CD(r) /\ (RM(r) => RM(q))
  <2>1. "removeConnectionInLoop" # "connectDestroyed"
    OBVIOUS
  <2> QED
    BY <1>1, <2>1, Zenon DEF Grown
<1>9. \A q, r : Grown(q, BaseLoop, "removeConnectionInLoop", r) => RM(r)
  BY <1>1, Zenon DEF Grown
<1>10. ASSUME ConnectDestroyed, ~server' \/ downs >= 1,
              state \notin {"none", "kConnecting"}, UNCHANGED <<ups, reopened>>,
              server' = server \/ server' = FALSE
       PROVE  /\ downs' >= downs /\ (~server' \/ downs' >= 1)
              /\ \/ index' = "kNew" /\ downs' = ups'
                 \/ reopened'
                 \/ ~server' /\ state' = "kDisconnecting"
  <2>1. state \in {"kConnected", "kDisconnecting", "kDisconnected"}
    BY <1>1, <1>10 DEF Scalars
  <2>2. CASE /\ state = "kConnected" /\ downs = 0 /\ ups = 1
             /\ state' = "kDisconnected" /\ events' = {} /\ downs' = 1 /\ index' = "kNew"
    BY <1>10, <2>2
  <2>3. CASE state # "kConnected" /\ UNCHANGED <<state, events, downs>> /\ index' = "kNew"
    <3>1. state = "kDisconnected" => (downs = 1 /\ ups = 1) \/ reopened
      BY <1>2, <1>6
    <3>2. state = "kDisconnecting" => reopened \/ ~server'
      BY <1>6, <1>10
    <3> QED
      BY <1>2, <1>10, <2>1, <2>3, <3>1, <3>2
  <2> QED
    BY <1>10, <2>2, <2>3, ConnectDestroyedIs
<1>11. CASE NewConnection
  <2>1. inMap' = TRUE /\ state = "none"
    BY <1>1, <1>11, NewIs
  <2>2. /\ \A l \in Loops : queue[l] = <<>>
        /\ Len(<<>>) = 0 /\ 1 .. 0 = {}
    BY <2>1 DEF Inv, Fresh
  <2>3. ~CD(queue) /\ ~RM(queue)
    BY <1>1, <2>2 DEF QHas
  <2>4. queue' = queue \/ Grown(queue, ioLoop, "connectEstablished", queue')
    BY <1>1, <1>11, NewIs
  <2>5. ~CD(queue') /\ ~RM(queue')
    BY <1>1, <2>3, <2>4 DEF Grown
  <2> QED
    BY <2>1, <2>5
<1>12. CASE RunConnectEstablished
  <2>1. /\ Shrunk(queue, ioLoop, queue') /\ Head(queue[ioLoop]).op = "connectEstablished"
    BY <1>1, <1>12, RunIs DEF RunConnectEstablished
  <2>2. /\ CD(queue') => CD(queue)
        /\ RM(queue') => RM(queue)
    BY <1>1, <2>1, Zenon DEF Shrunk
  <2>3. "connectDestroyed" # "connectEstablished"
    OBVIOUS
  <2>4. CD(queue) => CD(queue')
    BY <1>1, <2>1, <2>3, Zenon DEF Shrunk
  <2>5. state \in {"none", "kConnecting"} /\ UNCHANGED <<downs, server>>
    BY <1>12, EstablishIs
  <2>6. inMap' = inMap
    BY <1>12 DEF RunConnectEstablished
  <2>7. state = "kConnecting"
    <3>1. state = "none" => queue[ioLoop] = <<>>
      BY <1>1 DEF Inv, Fresh
    <3>2. queue[ioLoop] # <<>>
      BY <1>12 DEF RunConnectEstablished, Runs
    <3> QED
      BY <2>5, <3>1, <3>2
  <2>8. inMap \/ CD(queue)
    BY <2>7 DEF Inv, Fresh
  <2> QED
    BY <1>4, <2>2, <2>4, <2>5, <2>6, <2>8
<1>13. CASE DestroyServer
  <2>1. server' = FALSE /\ inMap' = FALSE /\ UNCHANGED <<ups, reopened>>
    BY <1>13 DEF DestroyServer
  <2>2. CASE ~inMap /\ UNCHANGED <<state, events, index, queue, downs>>
    BY <1>4, <2>1, <2>2
  <2>3. CASE inMap /\ ioLoop = BaseLoop /\ ConnectDestroyed /\ queue' = queue
    <3>1. state \notin {"none", "kConnecting"}
      BY <2>3 DEF Inv, Fresh
    <3>2. /\ downs' >= downs
          /\ \/ index' = "kNew" /\ downs' = ups'
             \/ reopened'
             \/ ~server' /\ state' = "kDisconnecting"
      BY <1>10, <2>1, <2>3, <3>1
    <3>3. downs' \in Nat
      BY <1>2, <2>3 DEF ConnectDestroyed
    <3>4. RM(queue') => downs' >= 1
      BY <1>2, <1>4, <2>3, <3>2, <3>3
    <3> QED
      BY <2>1, <3>2, <3>4
  <2>4. CASE /\ inMap /\ Grown(queue, ioLoop, "connectDestroyed", queue')
             /\ UNCHANGED <<state, events, index, downs>>
    BY <1>4, <1>8, <2>1, <2>4
  <2> QED
    BY <1>1, <1>13, <2>2, <2>3, <2>4, DestroyIs
<1>14. CASE RunRemoveConnectionInLoop
  <2>1. UNCHANGED <<state, index, ups, downs, reopened, server>>
    BY <1>14, RemoveKeeps
  <2>2. RM(queue)
    BY <1>1, <1>14, RunRemoveIs
  <2>3. PICK q \in Queues : Grown(q, ioLoop, "connectDestroyed", queue')
    BY <1>1, <1>14, RunRemoveIs
  <2>4. CD(queue') /\ downs' >= 1
    BY <1>4, <1>8, <2>1, <2>2, <2>3
  <2> QED
    BY <2>4
<1>15. CASE RunConnectDestroyed
  <2>1. Shrunk(queue, ioLoop, queue') /\ CD(queue)
    BY <1>1, <1>15, RunIs DEF RunConnectDestroyed
  <2>2. RM(queue') => RM(queue)
    BY <1>1, <2>1, Zenon DEF Shrunk
  <2>3. ConnectDestroyed /\ UNCHANGED <<ups, reopened, server, inMap>>
    BY <1>15 DEF RunConnectDestroyed
  <2>4. state \notin {"none", "kConnecting"}
    <3>1. SUFFICES ASSUME state \in {"none", "kConnecting"} PROVE FALSE
      OBVIOUS
    <3>2. /\ state = "none" => queue[ioLoop] = <<>>
          /\ state = "kConnecting" => queue[ioLoop][1].op = "connectEstablished"
      BY <1>1 DEF Inv, Fresh, EstablishedOnce
    <3>3. queue[ioLoop] # <<>> /\ queue[ioLoop][1].op = "connectDestroyed"
      BY <1>1, <1>15, HeadIs DEF RunConnectDestroyed
    <3> QED
      BY <3>1, <3>2, <3>3
  <2>5. ~server \/ downs >= 1
    BY <1>4, <2>1
  <2>6. /\ downs' >= downs /\ (~server' \/ downs' >= 1)
        /\ \/ index' = "kNew" /\ downs' = ups'
           \/ reopened'
           \/ ~server' /\ state' = "kDisconnecting"
    BY <1>10, <2>3, <2>4, <2>5
  <2>7. downs' \in Nat
    BY <1>2, <2>3 DEF ConnectDestroyed
  <2>8. RM(queue') => downs' >= 1
    BY <1>2, <1>4, <2>2, <2>6, <2>7
  <2> QED
    BY <2>6, <2>8
<1>16. CASE CloseStep
  <2>1. downs' = downs + 1
    BY <1>16, CloseIs
  <2>2. downs' >= 1
    BY <1>2, <2>1
  <2>3. RemoveConnection
    BY <1>16 DEF CloseStep, HandleClose
  <2>4. \/ Grown(queue, ioLoop, "connectDestroyed", queue')
        \/ Grown(queue, BaseLoop, "removeConnectionInLoop", queue')
    BY <1>1, <2>3, RemoveIs
  <2>5. CD(queue') \/ RM(queue')
    BY <1>8, <1>9, <2>4, Zenon
  <2> QED
    BY <2>2, <2>5
<1>17. CASE \/ SendStep \/ RunShutdownInLoop \/ UserShutdown \/ WriteEvent \/ Quiet
            \/ \E w \in Workers : WorkerSetsState(w)
  <2>1. SameTracked(queue, queue')
    BY <1>1, <1>17, TrackedKept
  <2>2. (CD(queue') <=> CD(queue)) /\ (RM(queue') <=> RM(queue))
    <3>1. queue' \in Queues
      BY <2>1 DEF SameTracked
    <3> QED
      BY <1>7, <2>1, <3>1, Zenon
  <2>3. SUFFICES /\ UNCHANGED <<downs, server, inMap>>
                 /\ state' # "none" => state # "none"
                 /\ \/ index = "kNew" /\ downs = ups
                    \/ reopened
                    \/ ~server /\ state = "kDisconnecting"
                    => \/ index' = "kNew" /\ downs' = ups'
                       \/ reopened'
                       \/ ~server' /\ state' = "kDisconnecting"
    BY <1>4, <2>2, <2>3
  <2>4. CASE SendStep
    <3>1. PICK m \in Msgs, q \in Queues : Sent(m, q)
      BY <1>1, <2>4, SendStepIs, Zenon
    <3>2. /\ UNCHANGED <<state, inMap, server, ups, downs, reopened>>
          /\ (user /\ state = "kConnected") \/ Runs(ioLoop, "sendInLoop")
      BY <1>1, <2>4, SendStepIs
    <3>3. state \notin {"none", "kConnecting"}
      <4>1. SUFFICES ASSUME state \in {"none", "kConnecting"} PROVE FALSE
        OBVIOUS
      <4>2. Runs(ioLoop, "sendInLoop")
        BY <3>2, <4>1
      <4>3. /\ state = "none" => queue[ioLoop] = <<>>
            /\ state = "kConnecting" => queue[ioLoop][1].op = "connectEstablished"
        BY <1>1 DEF Inv, Fresh, EstablishedOnce
      <4>4. queue[ioLoop] # <<>> /\ queue[ioLoop][1].op = "sendInLoop"
        BY <1>1, <4>2, HeadIs
      <4> QED
        BY <4>1, <4>3, <4>4
    <3>4. index' = index \/ state # "kDisconnected"
      BY <3>1 DEF Sent, Takes, Discards
    <3>5. downs = ups /\ state # "kDisconnected" => reopened
      BY <1>6, <3>3
    <3> QED
      BY <3>2, <3>4, <3>5
  <2>5. CASE RunShutdownInLoop \/ UserShutdown
    <3>1. /\ UNCHANGED <<server, index, ups, downs, reopened, inMap>>
          /\ state' = state \/ (state = "kConnected" /\ state' = "kDisconnecting")
      BY <2>5, ShutdownIs
    <3> QED
      BY <3>1
  <2>6. CASE WriteEvent
    <3>1. Written /\ UNCHANGED <<state, inMap, server, ups, downs, reopened>>
      BY <2>6, WriteIs, TypesSay DEF Inv, WriteEvent, history
    <3>2. index' = index \/ Writing
      BY <3>1 DEF Written
    <3>3. index' = index \/ index = "kAdded"
      BY <2>6, <3>2, WriteInPoller
    <3> QED
      BY <3>1, <3>3
  <2>7. CASE Quiet
    BY <2>7, QuietKeeps DEF Core
  <2>8. ASSUME NEW w \in Workers, WorkerSetsState(w) PROVE <2>3!1
    <3>1. /\ state' = "kDisconnecting" /\ reopened' = (reopened \/ state = "kDisconnected")
          /\ UNCHANGED <<server, index, ups, downs, inMap>>
      BY <2>8 DEF WorkerSetsState, channel
    <3>2. state # "none"
      BY <2>8 DEF WorkerSetsState, AtWorker, Inv, Fresh
    <3> QED
      BY <3>1, <3>2
  <2> QED
    BY <1>17, <2>4, <2>5, <2>6, <2>7, <2>8
<1> QED
  BY <1>1, <1>11, <1>12, <1>13, <1>14, <1>15, <1>16, <1>17, NextIs, Zenon

-----------------------------------------------------------------------------
(* The theorems.                                                            *)

(* The invariant holds before newConnection. *)
LEMMA InitInv ==
  ASSUME Init
  PROVE  Inv
<1>1. /\ ioLoop \in IoLoops /\ state = "none" /\ events = {} /\ index = "kNew"
      /\ out = <<>> /\ inMap = FALSE /\ server = TRUE
      /\ queue = [l \in Loops |-> <<>>] /\ todo = <<>> /\ user = FALSE
      /\ worker = [w \in Workers |-> Idle] /\ holds = [w \in Workers |-> FALSE]
      /\ rx = 0 /\ peer = "open" /\ soError = FALSE /\ writeClosed = FALSE
      /\ wire = <<>>
      /\ unsent = Msgs /\ accepted = <<>> /\ ups = 0 /\ downs = 0
      /\ reopened = FALSE
  BY DEF Init
<1>2. Idle \in WorkerStates /\ Idle.at = "idle"
  BY DEF Idle, WorkerStates
<1>3. Len(<<>>) = 0 /\ 1 .. 0 = {}
  OBVIOUS
<1>4. /\ queue \in [Loops -> Seq(Functors)] /\ worker \in [Workers -> WorkerStates]
      /\ holds \in [Workers -> BOOLEAN]
  BY <1>1, <1>2
<1>5. Types
  <2>1. /\ queue \in [Loops -> Seq([op : SharedOps \cup BareThis, msg : Msgs \cup {NoMsg}])]
        /\ worker \in [Workers -> [at : {"idle", "send", "setState", "shutdown"},
                                   msg : Msgs \cup {NoMsg}]]
    BY <1>4, ShapesFit
  <2>2. {inMap, server, user, soError, writeClosed, reopened} \subseteq BOOLEAN
    BY <1>1
  <2>3. /\ out \in Seq(Msgs \X (1 .. MsgLen)) /\ wire \in Seq(Msgs \X (1 .. MsgLen))
        /\ todo \in Seq({"close", "error", "read", "write"}) /\ accepted \in Seq(Msgs)
    BY <1>1
  <2>4. TypeOK
    BY <1>1, <1>4, <2>1, <2>2, <2>3 DEF TypeOK
  <2> QED
    BY <1>4, <2>4 DEF Types
<1>6. \A l \in Loops : \A op : queue[l] = <<>> /\ ~QHas(queue, l, op)
  BY <1>1, <1>3 DEF QHas
<1>7. ioLoop \in Loops /\ BaseLoop \in Loops
  BY <1>1 DEF Loops
<1>8. Fresh
  BY <1>1, <1>2, <1>6 DEF Fresh
<1>9. EstablishedOnce
  BY <1>1, <1>6, <1>7 DEF EstablishedOnce
<1>10. TodoOK
  BY <1>1, <1>3 DEF TodoOK
<1>11. DownOK
  BY <1>1 DEF DownOK
<1>12. WriteOK
  BY <1>1 DEF WriteOK, Writing
<1>13. RemovalOK
  BY <1>1, <1>6, <1>7 DEF RemovalOK
<1>14. BytesInOrder
  <2>1. MsgLen \in Nat \ {0}
    BY ConnAssumption
  <2>2. Len(accepted) * MsgLen = 0
    BY <1>1, <1>3, <2>1
  <2>3. wire \o out = <<>>
    BY <1>1
  <2>4. [i \in 1 .. 0 |-> <<accepted[((i - 1) \div MsgLen) + 1], ((i - 1) % MsgLen) + 1>>] = <<>>
    BY <1>3
  <2> QED
    BY <2>2, <2>3, <2>4, Zenon DEF BytesInOrder
<1> QED
  BY <1>5, <1>8, <1>9, <1>10, <1>11, <1>12, <1>13, <1>14 DEF Inv

(* The invariant of every state of TcpConnection: no step of the loops, of the *)
(* user, of a worker or of the peer breaks a part of it.                       *)
THEOREM InvHolds == Spec => []Inv
<1>1. Init => Inv
  BY InitInv
<1>2. Inv /\ [Next]_vars => Inv'
  <2> SUFFICES ASSUME Inv, [Next]_vars PROVE Inv'
    OBVIOUS
  <2>1. Types' /\ BytesInOrder'
    BY TypesStay, BytesNext DEF Inv
  <2>2. Fresh' /\ EstablishedOnce' /\ TodoOK'
    BY FreshStays, EstablishedOnceStays, TodoStays
  <2>3. DownOK' /\ WriteOK' /\ RemovalOK'
    BY DownStays, WriteStays, RemovalStays
  <2> QED
    BY <2>1, <2>2, <2>3 DEF Inv
<1> QED
  BY <1>1, <1>2, PTL DEF Spec

(* handleClose and connectDestroyed report a connection down once, for any     *)
(* number of threads that use it; only a shutdown() that overwrites            *)
(* kDisconnected leads to another report, and each thread to at most one.      *)
THEOREM DownAlwaysOnce == Spec => []DownOnce
<1>1. Inv => DownOnce
  <2> SUFFICES ASSUME Inv PROVE DownOnce
    OBVIOUS
  <2>1. TypeOK /\ Scalars
    BY TypesSay DEF Inv, Types
  <2>2. downs \in Nat /\ ups \in Nat
    BY <2>1 DEF Scalars
  <2>3. CASE state \in {"none", "kConnecting"}
    BY <2>1, <2>3 DEF Inv, Fresh, DownOnce, ClosedOnce
  <2>4. CASE state \notin {"none", "kConnecting"}
    <3>1. ups = 1 /\ (downs >= 2 => reopened)
      BY <2>4 DEF Inv, DownOK
    <3>2. CASE downs <= 1
      BY <2>1, <3>1, <3>2 DEF DownOnce, ClosedOnce
    <3>3. CASE downs >= 2
      <4>1. downs + Cardinality(Setting) + (IF state = "kDisconnecting" THEN 1 ELSE 0)
              <= 1 + Cardinality(Workers)
        BY <2>2, <3>3 DEF Inv, DownOK
      <4>2. downs <= 1 + Cardinality(Workers)
        BY <2>2, <4>1, SettingIs
      <4> QED
        BY <2>1, <3>1, <3>3, <4>2 DEF DownOnce
    <3> QED
      BY <2>2, <3>2, <3>3
  <2> QED
    BY <2>3, <2>4
<1> QED
  BY <1>1, InvHolds, PTL

(* When the last TcpConnectionPtr is gone, the channel is out of the poller    *)
(* and the user has been told, but for the two exceptions of ClosedCleanly:    *)
(* whatever the order in which handleClose, removeConnection, connectDestroyed *)
(* and the destructor of the server come.                                      *)
THEOREM ClosedAlwaysCleanly == Spec => []ClosedCleanly
<1>1. Inv => ClosedCleanly
  <2> SUFFICES ASSUME Inv, Destroyed
               PROVE  \/ index = "kNew" /\ downs = ups
                      \/ reopened
                      \/ ~server /\ state = "kDisconnecting"
    BY DEF ClosedCleanly
  <2>1. state # "none" /\ ~inMap /\ ~Queued(SharedOps)
    BY DEF Destroyed, Alive
  <2>2. ioLoop \in Loops /\ BaseLoop \in Loops
    BY TypesSay DEF Inv
  <2>3. "connectDestroyed" \in SharedOps /\ "removeConnectionInLoop" \in SharedOps
    BY DEF SharedOps
  <2>4. /\ ~QHas(queue, ioLoop, "connectDestroyed")
        /\ ~QHas(queue, BaseLoop, "removeConnectionInLoop")
    BY <2>1, <2>2, <2>3 DEF Queued, QHas
  <2> QED
    BY <2>1, <2>4 DEF Inv, RemovalOK
<1> QED
  BY <1>1, InvHolds, PTL

(* A connection that is up waits for write events exactly when outputBuffer_   *)
(* has bytes: sendInLoop and handleWrite never forget them, and never leave a  *)
(* write event to fire for nothing.                                            *)
THEOREM InterestAlwaysMatches == Spec => []InterestMatchesBuffer
<1>1. Inv => InterestMatchesBuffer
  BY DEF Inv, WriteOK, InterestMatchesBuffer
<1> QED
  BY <1>1, InvHolds, PTL

(* The bytes that left and those in outputBuffer_ are the accepted messages,   *)
(* whole and in order, for any length of messages and any split of the writes. *)
THEOREM BytesAlwaysInOrder == Spec => []BytesInOrder
<1>1. Inv => BytesInOrder
  BY DEF Inv
<1> QED
  BY <1>1, InvHolds, PTL

(* While the connection is up, the write side is closed only behind the last   *)
(* buffered byte, by shutdownInLoop or by handleWrite.                         *)
THEOREM AlwaysDrainedBeforeShutdown == Spec => []DrainedBeforeShutdown
<1>1. Inv => DrainedBeforeShutdown
  BY DEF Inv, WriteOK, DrainedBeforeShutdown
<1> QED
  BY <1>1, InvHolds, PTL

(* handleRead calls messageCallback_ only before connectionCallback_ has       *)
(* reported the connection down.                                               *)
THEOREM NeverMessageAfterDown == Spec => NoMessageAfterDown
<1>1. Inv /\ [Next]_vars => [rx = 1 /\ rx' = 0 => downs = 0]_vars
  <2> SUFFICES ASSUME Inv, [Next]_vars, rx = 1, rx' = 0 PROVE downs = 0
    OBVIOUS
  <2>1. Types
    BY DEF Inv
  <2>2. CASE CallbackStep
    <3>1. todo # <<>> /\ Head(todo) = "read"
      BY <2>1, <2>2, CallbackIs
    <3>2. OneEnd(todo) /\ \A i \in 1 .. Len(todo) : todo[i] = "read" => downs = 0
      BY TodoSays
    <3>3. Head(todo) = todo[1] /\ 1 \in 1 .. Len(todo)
      BY <3>1, <3>2, TailOfTodo, Zenon
    <3> QED
      BY <3>1, <3>2, <3>3
  <2>3. CASE LinkStep
    BY <2>3 DEF LinkStep, UserReturns, Peer, PeerSends, PeerCloses, PeerResets, UserShares,
       WorkerReleases, vars, socket
  <2>4. CASE CallStep \/ RunUserCallback
    BY <2>1, <2>4, CallIs, UserCallbackIs
  <2>5. CASE SendStep
    <3>1. PICK m \in Msgs, q \in Queues : Sent(m, q)
      BY <2>1, <2>5, SendStepIs, Zenon
    <3> QED
      BY <3>1 DEF Sent
  <2>6. CASE WriteEvent
    BY <2>1, <2>6, WriteIs, TypesSay DEF Written
  <2>7. CASE \/ NewConnection \/ DestroyServer \/ RunRemoveConnectionInLoop
             \/ RunConnectEstablished \/ RunConnectDestroyed \/ RunShutdownInLoop
             \/ UserShutdown \/ CloseStep \/ \E w \in Workers : WorkerSetsState(w)
    BY <2>7 DEF NewConnection, DestroyServer, RunRemoveConnectionInLoop, RunConnectEstablished,
       RunConnectDestroyed, RunShutdownInLoop, UserShutdown, CloseStep, WorkerSetsState, socket
  <2> QED
    BY <2>1, <2>2, <2>3, <2>4, <2>5, <2>6, <2>7, NextIs, Zenon DEF Quiet
<1> QED
  BY <1>1, InvHolds, PTL DEF Spec, NoMessageAfterDown

================================================================================
