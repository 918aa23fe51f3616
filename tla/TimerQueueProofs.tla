-------------------------- MODULE TimerQueueProofs ---------------------------
(* Proofs about TimerQueue, for any heap, any number of threads and timers,  *)
(* any delays and intervals and any settings of the wall clock.              *)
EXTENDS TimerQueue, TLAPS, WellFoundedInduction

-----------------------------------------------------------------------------
(* The inductive invariant.                                                 *)

(* The sequence number of a live Timer is positive, given out already and   *)
(* no other Timer's, and its expiration is a valid() time.                  *)
LiveSeqs ==
  \A a \in Addrs :
    /\ heap[a] # Free => heap[a].seq \in 1 .. created /\ heap[a].exp > 0
    /\ \A b \in Addrs : heap[a] # Free /\ heap[a].seq = heap[b].seq => a = b

(* A Timer whose addTimerInLoop is queued is alive, neither waits nor has   *)
(* expired, and is queued once.                                             *)
QueuedAdds ==
  \A i \in 1 .. Len(queue) : queue[i].op = "add" =>
    LET a == queue[i].id[1] IN
    /\ heap[a] # Free /\ heap[a].seq = queue[i].id[2]
    /\ a \notin expired /\ \A x \in active : x[1] # a
    /\ \A j \in 1 .. Len(queue) :
         queue[j].op = "add" /\ queue[j].id[1] = a => i = j

(* addTimerInLoop for id is in the queue q. *)
InQueue(q, id) == \E i \in 1 .. Len(q) : q[i] = [op |-> "add", id |-> id]

(* No Timer is lost: it waits, has expired or is on its way to the loop. *)
NoneLost ==
  \A a \in Addrs : heap[a] # Free =>
    <<a, heap[a].seq>> \in active \/ a \in expired \/ InQueue(queue, <<a, heap[a].seq>>)

(* A sequence number in a TimerId is another Timer's at no address but the  *)
(* one in the TimerId.                                                      *)
Known(id) ==
  id[2] <= created /\ \A b \in Addrs : heap[b] # Free /\ heap[b].seq = id[2] => b = id[1]

(* Every TimerId the user has, or a functor carries, is known. *)
IdsKnown ==
  /\ \A id \in ids : Known(id)
  /\ \A i \in 1 .. Len(queue) : Known(queue[i].id)

(* A cancelled Timer that is still alive is one of those that expired, and  *)
(* reset will find it in cancelingTimers_.                                  *)
CancelledNoted ==
  /\ \A s \in cancelled : s <= created
  /\ \A a \in Addrs : heap[a] # Free /\ heap[a].seq \in cancelled =>
       a \in expired /\ <<a, heap[a].seq>> \in canceling

(* Timers are in expired only while handleRead runs. *)
ExpiredWhenCalling == readAt \in Nat /\ (~calling => expired = {})

(* The inductive invariant. *)
Inv ==
  /\ SetsAgree /\ LiveSeqs /\ QueuedAdds /\ NoneLost /\ IdsKnown /\ CancelledNoted
  /\ ExpiredWhenCalling

(* The functors of addTimer and cancel. *)
QueueItem == [op : {"add", "cancel"}, id : Addrs \X Seqs]

-----------------------------------------------------------------------------
(* Lemmas about the operators.                                              *)

(* A set of times has a least one (the order of std::set in timers_). *)
LEMMA LeastExists ==
  ASSUME NEW S \in SUBSET Nat, S # {}
  PROVE  \E x \in S : \A y \in S : x <= y
<1> DEFINE R == {p \in Nat \X Nat : p[1] < p[2]}
<1>1. IsWellFoundedOn(R, Nat)
  BY NatLessThanWellFounded, Zenon DEF OpToRel
<1>2. PICK x \in S : \A y \in S : ~(<<y, x>> \in R)
  <2> HIDE DEF R
  <2> QED
    BY <1>1, WFMin, Zenon
<1>3. ASSUME NEW y \in S PROVE x <= y
  <2>1. <<y, x>> \notin R
    BY <1>2
  <2>2. x \in Nat /\ y \in Nat
    OBVIOUS
  <2> QED
    BY <2>1, <2>2
<1> QED
  BY <1>3

(* timers_.begin() is the earliest entry. *)
LEMMA EarliestIs ==
  ASSUME NEW ts \in SUBSET (Nat \X Addrs), ts # {}
  PROVE  /\ Earliest(ts) \in Nat
         /\ \E e \in ts : e[1] = Earliest(ts)
         /\ \A e \in ts : Earliest(ts) <= e[1]
<1> DEFINE S == {e[1] : e \in ts}
<1>1. S \in SUBSET Nat /\ S # {}
  OBVIOUS
<1>2. PICK x \in S : \A y \in S : x <= y
  BY <1>1, LeastExists
<1>3. \A e \in ts : x <= e[1]
  BY <1>2
<1>4. Earliest(ts) \in S /\ \A e \in ts : Earliest(ts) <= e[1]
  BY <1>3 DEF Earliest
<1> QED
  BY <1>1, <1>4

(* An interval is not negative. *)
LEMMA IntervalsNat == \A x \in Intervals \cup {0} : x \in Nat
BY TimerAssumption

(* A new Timer has the next sequence number and is due at a time (Timer.h). *)
LEMMA NewTimerIs ==
  ASSUME TypeOK, created < MaxTimers, NEW d \in Delays, NEW i \in Intervals
  PROVE  /\ NewTimer(d, i) \in [seq : Seqs, exp : Nat, interval : Intervals \cup {0}]
         /\ NewTimer(d, i).seq = created + 1 /\ NewTimer(d, i).exp > 0
         /\ NewTimer(d, i) # Free
BY TimerAssumption DEF NewTimer, TypeOK, Seqs, Wall, Free

(* The timerfd is armed for a time, and for one that has come or the one    *)
(* the entry is due by the present setting of the wall clock                *)
(* (howMuchTimeFromNow).                                                    *)
LEMMA DeadlineIs ==
  ASSUME TypeOK, NEW e \in Nat
  PROVE  /\ Deadline(e) \in Nat
         /\ Deadline(e) <= now \/ Deadline(e) <= e - skew
BY TimerAssumption DEF Deadline, TypeOK, Wall

(* What the loop's queue looks like after queueInLoop. *)
LEMMA AppendItem ==
  ASSUME NEW q \in Seq(QueueItem), NEW x \in QueueItem
  PROVE  /\ Append(q, x) \in Seq(QueueItem)
         /\ Len(Append(q, x)) = Len(q) + 1
         /\ \A i \in 1 .. Len(q) : Append(q, x)[i] = q[i]
         /\ Append(q, x)[Len(q) + 1] = x
OBVIOUS

(* What it looks like after its first functor was taken out. *)
LEMMA TailItems ==
  ASSUME NEW q \in Seq(QueueItem), q # <<>>
  PROVE  /\ Head(q) = q[1] /\ Head(q) \in QueueItem
         /\ Tail(q) \in Seq(QueueItem) /\ Len(Tail(q)) = Len(q) - 1 /\ Len(q) \in Nat \ {0}
         /\ \A i \in 1 .. Len(Tail(q)) : Tail(q)[i] = q[i + 1]
OBVIOUS

(* A live Timer is one with a sequence number. *)
LEMMA LiveHasSeq ==
  ASSUME TypeOK, LiveSeqs, NEW a \in Addrs
  PROVE  /\ heap[a] # Free <=> heap[a].seq # 0
         /\ heap[a] # Free => heap[a].seq \in 1 .. created
BY DEF TypeOK, LiveSeqs, Free, Seqs

-----------------------------------------------------------------------------
(* The invariant holds at the beginning.                                    *)

(* No Timer exists yet. *)
LEMMA InitInv == Init => Inv
<1> SUFFICES ASSUME Init PROVE Inv
  OBVIOUS
<1>1. NoCall \in [addr : Addrs, seq : Seqs]
  BY TimerAssumption DEF NoCall, Seqs
<1>2. Free \in [seq : Seqs, exp : Nat, interval : Intervals \cup {0}]
  BY TimerAssumption DEF Free, Seqs
<1>3. TypeOK
  <2>1. heap \in [Addrs -> [seq : Seqs, exp : Nat, interval : Intervals \cup {0}]]
    BY <1>2 DEF Init
  <2>2. created \in Seqs /\ now \in 1 .. MaxTime /\ skew \in Skews
    BY TimerAssumption DEF Init, Seqs
  <2>3. adder \in [Threads -> [addr : Addrs, seq : Seqs]]
    BY <1>1 DEF Init
  <2>4. queue \in Seq([op : {"add", "cancel"}, id : Addrs \X Seqs])
    BY DEF Init
  <2> QED
    BY <2>1, <2>2, <2>3, <2>4, Zenon DEF Init, TypeOK
<1>4. SetsAgree
  BY <1>3 DEF Init, SetsAgree
<1>5. LiveSeqs /\ QueuedAdds /\ NoneLost /\ IdsKnown /\ CancelledNoted /\ ExpiredWhenCalling
  BY DEF Init, LiveSeqs, QueuedAdds, NoneLost, IdsKnown, CancelledNoted, ExpiredWhenCalling
<1> QED
  BY <1>4, <1>5 DEF Inv

-----------------------------------------------------------------------------
(* Every action keeps it.                                                   *)

(* Steps that leave the Timers, the sets and the queue alone. *)
LEMMA QuietInv ==
  ASSUME Inv, TypeOK',
         UNCHANGED <<heap, created, timers, active, canceling, calling, expired,
                     readAt, queue, ids, cancelled>>
  PROVE  Inv'
<1>1. SetsAgree'
  BY DEF Inv, SetsAgree
<1>2. LiveSeqs' /\ QueuedAdds' /\ NoneLost' /\ IdsKnown' /\ CancelledNoted' /\ ExpiredWhenCalling'
  BY DEF Inv, LiveSeqs, QueuedAdds, NoneLost, IdsKnown, CancelledNoted,
         ExpiredWhenCalling, InQueue, Known
<1> QED
  BY <1>1, <1>2 DEF Inv

(* The next callback of handleRead. *)
LEMMA RunTimerInv == ASSUME Inv, NEW a \in Addrs, RunTimer(a) PROVE Inv'
<1>1. TypeOK'
  BY DEF Inv, SetsAgree, TypeOK, RunTimer, clock, calls
<1> QED
  BY <1>1, QuietInv DEF RunTimer, clock, calls

(* Time passes. *)
LEMMA TickInv == ASSUME Inv, Tick PROVE Inv'
<1>1. TypeOK'
  BY TimerAssumption DEF Inv, SetsAgree, TypeOK, Tick, calls
<1> QED
  BY <1>1, QuietInv DEF Tick, calls

(* The wall clock is set. *)
LEMMA SetClockInv == ASSUME Inv, NEW s \in Skews, SetClock(s) PROVE Inv'
<1>1. TypeOK'
  BY DEF Inv, SetsAgree, TypeOK, SetClock, calls
<1> QED
  BY <1>1, QuietInv DEF SetClock, calls

(* addTimer returns on another thread: the TimerId names whatever Timer is  *)
(* at the address now.                                                      *)
LEMMA RemoteReturnsInv == ASSUME Inv, NEW t \in Threads, RemoteReturns(t) PROVE Inv'
<1> DEFINE a == adder[t].addr
<1> USE DEF Inv, SetsAgree
<1>1. a \in Addrs /\ heap[a].seq \in Seqs /\ heap[a].seq <= created
  BY LiveHasSeq DEF TypeOK, Seqs
<1>2. TypeOK'
  <2>1. ids' \subseteq Addrs \X Seqs
    BY <1>1 DEF RemoteReturns, TypeOK
  <2>2. NoCall \in [addr : Addrs, seq : Seqs]
    BY TimerAssumption DEF NoCall, Seqs
  <2>3. adder' \in [Threads -> [addr : Addrs, seq : Seqs]]
    BY <2>2 DEF RemoteReturns, TypeOK
  <2>4. wrongId' \in BOOLEAN
    BY DEF RemoteReturns
  <2> QED
    BY <2>1, <2>3, <2>4, Zenon DEF RemoteReturns, TypeOK, clock
<1>3. SetsAgree'
  BY <1>2 DEF RemoteReturns
<1>4. LiveSeqs' /\ QueuedAdds' /\ NoneLost' /\ CancelledNoted' /\ ExpiredWhenCalling'
  BY DEF RemoteReturns, LiveSeqs, QueuedAdds, NoneLost, CancelledNoted,
         ExpiredWhenCalling, InQueue
<1>5. IdsKnown'
  <2>1. Known(<<a, heap[a].seq>>)
    BY <1>1, LiveHasSeq DEF Known, LiveSeqs
  <2> QED
    BY <2>1 DEF RemoteReturns, IdsKnown, Known
<1> QED
  BY <1>3, <1>4, <1>5

(* cancel on another thread queues a functor. *)
LEMMA RemoteCancelInv == ASSUME Inv, NEW id \in ids, RemoteCancel(id) PROVE Inv'
<1> DEFINE x == [op |-> "cancel", id |-> id]
<1> USE DEF Inv, SetsAgree
<1>1. queue \in Seq(QueueItem) /\ x \in QueueItem /\ queue' = Append(queue, x)
  BY DEF TypeOK, QueueItem, RemoteCancel
<1>2. /\ queue' \in Seq(QueueItem) /\ Len(queue') = Len(queue) + 1 /\ Len(queue) \in Nat
      /\ \A i \in 1 .. Len(queue) : queue'[i] = queue[i]
      /\ queue'[Len(queue) + 1] = x
  <2> HIDE DEF x
  <2> QED
    BY <1>1, AppendItem
<1> HIDE DEF x
<1>3. \A i \in 1 .. Len(queue') : i \in 1 .. Len(queue) \/ i = Len(queue) + 1
  BY <1>2
<1>4. x.op = "cancel" /\ x.id = id
  BY DEF x
<1>5. TypeOK'
  BY <1>2 DEF RemoteCancel, TypeOK, QueueItem, clock
<1>6. SetsAgree' /\ LiveSeqs' /\ CancelledNoted' /\ ExpiredWhenCalling'
  BY <1>5 DEF RemoteCancel, LiveSeqs, CancelledNoted, ExpiredWhenCalling
<1>7. QueuedAdds'
  BY <1>2, <1>3, <1>4 DEF RemoteCancel, QueuedAdds
<1>8. NoneLost'
  BY <1>2 DEF RemoteCancel, NoneLost, InQueue
<1>9. IdsKnown'
  BY <1>2, <1>3, <1>4 DEF RemoteCancel, IdsKnown, Known
<1> QED
  BY <1>6, <1>7, <1>8, <1>9

(* A functor leaves the queue: the other entries move up by one. *)
LEMMA TailKeeps ==
  ASSUME TypeOK, queue # <<>>, queue' = Tail(queue)
  PROVE  /\ Head(queue) \in QueueItem /\ Head(queue) = queue[1] /\ 1 \in 1 .. Len(queue)
         /\ queue' \in Seq(QueueItem)
         /\ \A i \in 1 .. Len(queue') : i + 1 \in 1 .. Len(queue) /\ queue'[i] = queue[i + 1]
         /\ \A i \in 1 .. Len(queue) :
              i = 1 \/ (i - 1 \in 1 .. Len(queue') /\ queue'[i - 1] = queue[i])
<1>1. queue \in Seq(QueueItem)
  BY DEF TypeOK, QueueItem
<1>2. /\ Head(queue) = queue[1] /\ Head(queue) \in QueueItem
      /\ queue' \in Seq(QueueItem) /\ Len(queue') = Len(queue) - 1 /\ Len(queue) \in Nat \ {0}
      /\ \A i \in 1 .. Len(queue') : queue'[i] = queue[i + 1]
  BY <1>1, TailItems
<1>3. ASSUME NEW i \in 1 .. Len(queue), i # 1
      PROVE  i - 1 \in 1 .. Len(queue') /\ queue'[i - 1] = queue[i]
  <2>1. i - 1 \in 1 .. Len(queue') /\ (i - 1) + 1 = i
    BY <1>2, <1>3
  <2> QED
    BY <1>2, <2>1
<1> QED
  BY <1>2, <1>3

(* A cancel leaves the queue: what is queued for addTimerInLoop stays. *)
LEMMA TailKeepsAdds ==
  ASSUME TypeOK, queue # <<>>, queue' = Tail(queue), Head(queue).op = "cancel", NEW id,
         InQueue(queue, id)
  PROVE  InQueue(queue', id)
<1>1. PICK i \in 1 .. Len(queue) : queue[i] = [op |-> "add", id |-> id]
  BY DEF InQueue
<1>2. i # 1
  BY <1>1, TailKeeps
<1>3. i - 1 \in 1 .. Len(queue') /\ queue'[i - 1] = [op |-> "add", id |-> id]
  BY <1>1, <1>2, TailKeeps
<1> QED
  BY <1>3 DEF InQueue

(* cancelInLoop, called by the user or taken from the queue. *)
LEMMA CancelInLoopInv ==
  ASSUME Inv, NEW id \in Addrs \X Seqs, Known(id), CancelInLoop(id), queue' \in Seq(QueueItem),
         UNCHANGED <<created, calling, expired, notRun, readAt, armed, clock, adder,
                     wrongId, ids, fired>>,
         \/ queue' = queue
         \/ queue # <<>> /\ Head(queue).op = "cancel" /\ queue' = Tail(queue)
  PROVE  Inv'
<1> USE DEF Inv
<1> DEFINE c == id[1]
<1>0. c \in Addrs /\ id[2] \in Seqs /\ id = <<c, id[2]>> /\ TypeOK
  BY DEF SetsAgree
<1>q. /\ \A i \in 1 .. Len(queue') : \E j \in 1 .. Len(queue) : queue'[i] = queue[j]
      /\ \A x : InQueue(queue, x) => InQueue(queue', x)
  <2>1. CASE queue' = queue
    BY <2>1 DEF InQueue
  <2>2. CASE queue # <<>> /\ Head(queue).op = "cancel" /\ queue' = Tail(queue)
    BY <2>2, <1>0, TailKeeps, TailKeepsAdds, Zenon
  <2> QED
    BY <2>1, <2>2
<1>a. QueuedAdds => \A i, j \in 1 .. Len(queue') :
        queue'[i].op = "add" /\ queue'[j].op = "add" /\ queue'[i].id[1] = queue'[j].id[1] => i = j
  <2>1. CASE queue' = queue
    BY <2>1 DEF QueuedAdds
  <2>2. CASE queue # <<>> /\ queue' = Tail(queue)
    <3> SUFFICES ASSUME QueuedAdds, NEW i \in 1 .. Len(queue'), NEW j \in 1 .. Len(queue'),
                        queue'[i].op = "add", queue'[j].op = "add",
                        queue'[i].id[1] = queue'[j].id[1]
                 PROVE  i = j
      OBVIOUS
    <3>1. /\ i + 1 \in 1 .. Len(queue) /\ queue'[i] = queue[i + 1]
          /\ j + 1 \in 1 .. Len(queue) /\ queue'[j] = queue[j + 1]
      BY <1>0, <2>2, TailKeeps
    <3>2. i + 1 = j + 1
      BY <3>1 DEF QueuedAdds
    <3> QED
      BY <3>2
  <2> QED
    BY <2>1, <2>2
<1>1. CASE FindActive(id) # {}
  <2>1. /\ id \in active /\ FindActive(id) = {id}
        /\ heap' = [heap EXCEPT ![c] = Free] /\ active' = active \ {id}
        /\ timers' = timers \ {<<heap[c].exp, c>>} /\ canceling' = canceling
    BY <1>1 DEF CancelInLoop, FindActive
  <2>2. heap[c].seq = id[2] /\ id[2] > 0 /\ heap[c] # Free /\ c \notin expired
    BY <2>1, <1>0 DEF SetsAgree, Free
  <2>3. /\ heap \in [Addrs -> [seq : Seqs, exp : Nat, interval : Intervals \cup {0}]]
        /\ Free \in [seq : Seqs, exp : Nat, interval : Intervals \cup {0}]
    BY <1>0, TimerAssumption DEF TypeOK, Free, Seqs
  <2>4. /\ heap'[c] = Free /\ \A b \in Addrs : b # c => heap'[b] = heap[b]
        /\ heap' \in [Addrs -> [seq : Seqs, exp : Nat, interval : Intervals \cup {0}]]
    BY <2>1, <2>3, <1>0
  <2>5. \A x \in active : x = id <=> x[1] = c
    <3> SUFFICES ASSUME NEW x \in active, x[1] = c PROVE x = id
      OBVIOUS
    <3>1. x = <<x[1], x[2]>> /\ x[2] = id[2]
      BY <1>0, <2>2 DEF SetsAgree, TypeOK
    <3> QED
      BY <1>0, <3>1
  <2>6. TypeOK'
    <3>1. timers' \subseteq Nat \X Addrs /\ active' \subseteq Addrs \X (Seqs \ {0})
      BY <1>0, <2>1 DEF TypeOK
    <3>2. cancelled' \subseteq Seqs
      BY <1>0 DEF CancelInLoop, TypeOK
    <3> QED
      BY <1>0, <2>1, <2>4, <3>1, <3>2, Zenon DEF TypeOK, QueueItem, clock
  <2>7. SetsAgree'
    <3>1. timers' = {<<heap'[x[1]].exp, x[1]>> : x \in active'}
      <4>1. timers = {<<heap[x[1]].exp, x[1]>> : x \in active}
        BY DEF SetsAgree
      <4>2. \A x \in active' : heap'[x[1]] = heap[x[1]] /\ x \in active /\ x[1] # c
        BY <1>0, <2>1, <2>4, <2>5 DEF TypeOK
      <4>3. \A x \in active : x[1] # c => x \in active'
        BY <2>1
      <4> QED
        BY <2>1, <4>1, <4>2, <4>3
    <3>2. \A x \in active' : heap'[x[1]].seq = x[2] /\ x[2] > 0
      BY <1>0, <2>1, <2>4, <2>5 DEF SetsAgree, TypeOK
    <3>3. \A a \in expired' : heap'[a] # Free /\ \A x \in active' : x[1] # a
      BY <1>0, <2>1, <2>2, <2>4 DEF SetsAgree, TypeOK
    <3> QED
      BY <2>6, <3>1, <3>2, <3>3 DEF SetsAgree
  <2>8. LiveSeqs'
    <3>1. \A a, b \in Addrs : heap'[a] # Free /\ heap'[a].seq = heap'[b].seq =>
            /\ heap'[a] = heap[a] /\ heap[a].seq # 0 /\ heap'[b].seq # 0
      BY <1>0, <2>4, LiveHasSeq
    <3>2. \A b \in Addrs : heap'[b].seq # 0 => heap'[b] = heap[b]
      BY <2>4 DEF Free
    <3>3. \A a \in Addrs : heap'[a] # Free => heap'[a].seq \in 1 .. created' /\ heap'[a].exp > 0
      BY <2>4 DEF LiveSeqs
    <3>4. \A a, b \in Addrs : heap'[a] # Free /\ heap'[a].seq = heap'[b].seq => a = b
      BY <1>0, <3>1, <3>2, LiveHasSeq DEF LiveSeqs
    <3> QED
      BY <3>3, <3>4 DEF LiveSeqs
  <2>9. QueuedAdds'
    <3> SUFFICES ASSUME NEW i \in 1 .. Len(queue'), queue'[i].op = "add"
                 PROVE  LET a == queue'[i].id[1] IN
                        /\ heap'[a] # Free /\ heap'[a].seq = queue'[i].id[2]
                        /\ a \notin expired' /\ \A x \in active' : x[1] # a
      BY <1>a DEF QueuedAdds
    <3>1. PICK j \in 1 .. Len(queue) : queue'[i] = queue[j]
      BY <1>q
    <3> DEFINE a == queue[j].id[1]
    <3>2. /\ heap[a] # Free /\ heap[a].seq = queue[j].id[2]
          /\ a \notin expired /\ \A x \in active : x[1] # a
      BY <3>1 DEF QueuedAdds
    <3>3. a \in Addrs
      <4>1. queue \in Seq(QueueItem)
        BY <1>0 DEF TypeOK, QueueItem
      <4>2. queue[j] \in QueueItem
        BY <4>1
      <4> QED
        BY <4>2 DEF QueueItem
    <3>4. a # c
      BY <2>1, <3>2
    <3> QED
      BY <2>1, <2>4, <3>1, <3>2, <3>3, <3>4
  <2>10. NoneLost'
    <3> SUFFICES ASSUME NEW a \in Addrs, heap'[a] # Free
                 PROVE  \/ <<a, heap'[a].seq>> \in active' \/ a \in expired'
                        \/ InQueue(queue', <<a, heap'[a].seq>>)
      BY DEF NoneLost
    <3>1. a # c /\ heap'[a] = heap[a]
      BY <2>4
    <3> QED
      BY <1>0, <1>q, <2>1, <3>1 DEF NoneLost
  <2>11. IdsKnown'
    <3>1. \A x : Known(x) => Known(x)'
      BY <1>0, <2>4 DEF Known
    <3> QED
      BY <3>1, <1>q DEF IdsKnown
  <2>12. CancelledNoted'
    <3>1. cancelled' \subseteq cancelled \cup {id[2]}
      BY DEF CancelInLoop
    <3>2. \A b \in Addrs : heap'[b] # Free => heap'[b].seq # id[2] /\ heap'[b] = heap[b]
      BY <1>0, <2>4 DEF Known
    <3>3. \A s \in cancelled' : s <= created'
      BY <3>1 DEF CancelledNoted, Known
    <3> QED
      BY <2>1, <3>1, <3>2, <3>3 DEF CancelledNoted
  <2>13. ExpiredWhenCalling'
    BY DEF ExpiredWhenCalling
  <2> QED
    BY <2>7, <2>8, <2>9, <2>10, <2>11, <2>12, <2>13
<1>2. CASE FindActive(id) = {}
  <2>1. /\ id \notin active /\ UNCHANGED <<timers, active, heap>>
        /\ canceling' = IF calling THEN canceling \cup {id} ELSE canceling
    BY <1>2 DEF CancelInLoop, FindActive
  <2>2. cancelled' = IF AddQueued(id) THEN cancelled ELSE cancelled \cup {id[2]}
    BY DEF CancelInLoop
  <2>3. TypeOK'
    <3>1. canceling' \subseteq Addrs \X Seqs /\ cancelled' \subseteq Seqs
      BY <1>0, <2>1, <2>2 DEF TypeOK
    <3> QED
      BY <1>0, <2>1, <3>1, Zenon DEF TypeOK, QueueItem, clock
  <2>4. SetsAgree' /\ LiveSeqs' /\ ExpiredWhenCalling'
    BY <2>1, <2>3 DEF SetsAgree, LiveSeqs, ExpiredWhenCalling
  <2>5. QueuedAdds'
    <3> SUFFICES ASSUME NEW i \in 1 .. Len(queue'), queue'[i].op = "add"
                 PROVE  LET a == queue'[i].id[1] IN
                        /\ heap[a] # Free /\ heap[a].seq = queue'[i].id[2]
                        /\ a \notin expired /\ \A x \in active : x[1] # a
      BY <1>a, <2>1 DEF QueuedAdds
    <3>1. PICK j \in 1 .. Len(queue) : queue'[i] = queue[j]
      BY <1>q
    <3> QED
      BY <3>1 DEF QueuedAdds
  <2>6. NoneLost'
    <3>1. \A a \in Addrs : heap[a] # Free =>
            <<a, heap[a].seq>> \in active \/ a \in expired \/ InQueue(queue', <<a, heap[a].seq>>)
      BY <1>q DEF NoneLost
    <3> QED
      BY <2>1, <3>1 DEF NoneLost
  <2>7. IdsKnown'
    BY <2>1, <1>q DEF IdsKnown, Known
  <2>8. CancelledNoted'
    <3>1. \A s \in cancelled' : s <= created'
      BY <2>2 DEF CancelledNoted, Known
    <3>2. ASSUME NEW a \in Addrs, heap[a] # Free, heap[a].seq \in cancelled'
          PROVE  a \in expired /\ <<a, heap[a].seq>> \in canceling'
      <4>1. CASE heap[a].seq \in cancelled
        BY <2>1, <3>2, <4>1 DEF CancelledNoted
      <4>2. CASE heap[a].seq \notin cancelled
        <5>1. ~AddQueued(id) /\ heap[a].seq = id[2]
          BY <2>2, <3>2, <4>2
        <5>2. a = c /\ <<a, heap[a].seq>> = id
          BY <1>0, <3>2, <5>1 DEF Known
        <5>3. a \in expired
          BY <2>1, <3>2, <5>1, <5>2 DEF NoneLost, InQueue, AddQueued
        <5>4. calling
          BY <5>3 DEF ExpiredWhenCalling
        <5> QED
          BY <2>1, <5>2, <5>3, <5>4
      <4> QED
        BY <4>1, <4>2
    <3> QED
      BY <2>1, <3>1, <3>2 DEF CancelledNoted
  <2> QED
    BY <2>4, <2>5, <2>6, <2>7, <2>8
<1> QED
  BY <1>1, <1>2

(* cancel on the loop's thread. *)
LEMMA CancelInv == ASSUME Inv, NEW id \in ids, Cancel(id) PROVE Inv'
<1>1. id \in Addrs \X Seqs /\ Known(id) /\ CancelInLoop(id) /\ queue' \in Seq(QueueItem)
  BY DEF Inv, SetsAgree, TypeOK, QueueItem, IdsKnown, Cancel, calls
<1> QED
  BY <1>1, CancelInLoopInv DEF Cancel, calls

(* The loop runs a queued cancelInLoop. *)
LEMMA RunCancelInv == ASSUME Inv, RunCancel PROVE Inv'
<1>1. TypeOK /\ queue # <<>> /\ queue' = Tail(queue)
  BY DEF Inv, SetsAgree, RunCancel
<1>2. Head(queue) \in QueueItem /\ Known(Head(queue).id) /\ queue' \in Seq(QueueItem)
  BY <1>1, TailKeeps DEF Inv, IdsKnown
<1>3. Head(queue).id \in Addrs \X Seqs
  BY <1>2 DEF QueueItem
<1> QED
  BY <1>1, <1>2, <1>3, CancelInLoopInv DEF RunCancel

(* new Timer: the address was free, the sequence number is fresh. *)
LEMMA AllocateFacts ==
  ASSUME Inv, NEW a \in Addrs, NEW d \in Delays, NEW i \in Intervals, Allocate(a, d, i)
  PROVE  /\ heap' \in [Addrs -> [seq : Seqs, exp : Nat, interval : Intervals \cup {0}]]
         /\ heap[a] = Free /\ heap'[a] = NewTimer(d, i) /\ heap'[a] # Free
         /\ heap'[a].seq = created + 1 /\ heap'[a].exp \in Nat /\ heap'[a].exp > 0
         /\ \A b \in Addrs : b # a => heap'[b] = heap[b]
         /\ created' = created + 1 /\ created' \in Seqs /\ created + 1 \in Seqs \ {0}
         /\ LiveSeqs'
         /\ \A x \in Addrs \X Seqs : Known(x) => Known(x)'
         /\ Known(<<a, created>>)'
         /\ a \notin expired /\ \A x \in active : x[1] # a
         /\ \A j \in 1 .. Len(queue) : queue[j].op = "add" => queue[j].id[1] # a
<1> USE DEF Inv
<1>1. TypeOK /\ created < MaxTimers /\ created \in Nat /\ MaxTimers \in Nat
  <2>1. TypeOK /\ created < MaxTimers
    BY DEF SetsAgree, Allocate
  <2>2. created \in Seqs
    BY <2>1 DEF TypeOK
  <2>3. created \in Nat /\ MaxTimers \in Nat
    BY <2>2, TimerAssumption DEF Seqs
  <2> QED
    BY <2>1, <2>3
<1>2. /\ NewTimer(d, i) \in [seq : Seqs, exp : Nat, interval : Intervals \cup {0}]
      /\ NewTimer(d, i).seq = created + 1 /\ NewTimer(d, i).exp > 0 /\ NewTimer(d, i) # Free
  BY <1>1, NewTimerIs
<1>3. /\ heap' \in [Addrs -> [seq : Seqs, exp : Nat, interval : Intervals \cup {0}]]
      /\ heap[a] = Free /\ heap'[a] = NewTimer(d, i)
      /\ \A b \in Addrs : b # a => heap'[b] = heap[b]
  BY <1>1, <1>2 DEF Allocate, TypeOK
<1>4. created' = created + 1 /\ created' \in Seqs /\ created + 1 \in Seqs \ {0}
  BY <1>1 DEF Allocate, Seqs
<1>5. /\ heap'[a].seq = created + 1 /\ heap'[a].exp \in Nat /\ heap'[a].exp > 0
      /\ heap'[a] # Free
  BY <1>2, <1>3
<1>6. LiveSeqs'
  <2>1. \A b \in Addrs : b # a => heap'[b].seq \in 0 .. created /\ heap'[b].seq # created + 1
    BY <1>1, <1>3, LiveHasSeq
  <2>2. \A b \in Addrs : heap'[b] # Free => heap'[b].seq \in 1 .. created'
    BY <1>1, <1>3, <1>4, <1>5, LiveHasSeq
  <2>4. \A b \in Addrs : heap'[b] # Free => heap'[b].exp > 0
    BY <1>3, <1>5 DEF LiveSeqs
  <2>3. ASSUME NEW b \in Addrs, NEW e \in Addrs, heap'[b] # Free, heap'[b].seq = heap'[e].seq
        PROVE  b = e
    <3>1. CASE b = a \/ e = a
      BY <1>5, <2>1, <2>3, <3>1
    <3>2. CASE b # a /\ e # a
      BY <1>3, <2>3, <3>2 DEF LiveSeqs
    <3> QED
      BY <3>1, <3>2
  <2> QED
    BY <2>2, <2>3, <2>4 DEF LiveSeqs
<1>7. \A x \in Addrs \X Seqs : Known(x) => Known(x)'
  <2> SUFFICES ASSUME NEW x \in Addrs \X Seqs, Known(x) PROVE Known(x)'
    OBVIOUS
  <2>1. x[2] \in Nat /\ x[2] <= created
    BY <1>1 DEF Known, Seqs
  <2>2. \A b \in Addrs : heap'[b] # Free /\ heap'[b].seq = x[2] => b = x[1]
    BY <1>1, <1>3, <1>5, <2>1 DEF Known
  <2> QED
    BY <1>1, <1>4, <2>1, <2>2 DEF Known
<1>8. Known(<<a, created>>)'
  BY <1>1, <1>4, <1>5, <1>6 DEF Known, LiveSeqs
<1>9. a \notin expired /\ \A x \in active : x[1] # a
  BY <1>1, <1>3 DEF SetsAgree, Free
<1>10. \A j \in 1 .. Len(queue) : queue[j].op = "add" => queue[j].id[1] # a
  BY <1>3 DEF QueuedAdds
<1> QED
  BY <1>3, <1>4, <1>5, <1>6, <1>7, <1>8, <1>9, <1>10

(* The types of what AddInLoop changes. *)
LEMMA AddInLoopTypes ==
  ASSUME TypeOK, NEW a \in Addrs, NEW tm, tm.exp \in Nat, tm.seq \in Seqs \ {0},
         AddInLoop(a, tm)
  PROVE  /\ timers' \subseteq Nat \X Addrs
         /\ active' \subseteq Addrs \X (Seqs \ {0})
         /\ armed' \in Nat \cup {Never}
<1>1. timers' \subseteq Nat \X Addrs /\ active' \subseteq Addrs \X (Seqs \ {0})
  BY DEF TypeOK, AddInLoop
<1>2. Deadline(tm.exp) \in Nat
  BY DeadlineIs
<1>3. armed' \in Nat \cup {Never}
  BY <1>2 DEF TypeOK, AddInLoop
<1> QED
  BY <1>1, <1>3

(* SetsAgree after an entry was added for the Timer at a. *)
LEMMA AddInLoopAgrees ==
  ASSUME SetsAgree, TypeOK', NEW a \in Addrs, heap'[a] # Free, heap'[a].seq > 0,
         AddInLoop(a, heap'[a]), a \notin expired, expired' = expired,
         \A x \in active : x[1] # a,
         \A b \in Addrs : b # a => heap'[b] = heap[b]
  PROVE  SetsAgree'
<1>1. \A x \in active : heap'[x[1]] = heap[x[1]]
  BY DEF SetsAgree, TypeOK
<1>2. /\ timers' = timers \cup {<<heap'[a].exp, a>>}
      /\ active' = active \cup {<<a, heap'[a].seq>>}
  BY DEF AddInLoop
<1>3. timers' = {<<heap'[x[1]].exp, x[1]>> : x \in active'}
  <2>1. timers = {<<heap'[x[1]].exp, x[1]>> : x \in active}
    BY <1>1 DEF SetsAgree
  <2>2. <<heap'[a].exp, a>> \in {<<heap'[x[1]].exp, x[1]>> : x \in active'}
    <3>1. <<a, heap'[a].seq>> \in active'
      BY <1>2
    <3>2. LET x == <<a, heap'[a].seq>> IN <<heap'[a].exp, a>> = <<heap'[x[1]].exp, x[1]>>
      OBVIOUS
    <3> QED
      BY <3>1, <3>2, Zenon
  <2>3. timers \subseteq {<<heap'[x[1]].exp, x[1]>> : x \in active'}
    BY <1>2, <2>1
  <2>4. ASSUME NEW x \in active' PROVE <<heap'[x[1]].exp, x[1]>> \in timers'
    <3>1. CASE x \in active
      BY <1>2, <2>1, <3>1
    <3>2. CASE x = <<a, heap'[a].seq>>
      BY <1>2, <3>2
    <3> QED
      BY <1>2, <2>4, <3>1, <3>2
  <2> QED
    BY <1>2, <2>2, <2>3, <2>4
<1>4. \A x \in active' : heap'[x[1]].seq = x[2] /\ x[2] > 0
  BY <1>1, <1>2 DEF SetsAgree
<1>5. \A b \in expired' : heap'[b] # Free /\ \A x \in active' : x[1] # b
  BY <1>2 DEF SetsAgree, TypeOK
<1> QED
  BY <1>3, <1>4, <1>5 DEF SetsAgree

(* addTimer on the loop's thread. *)
LEMMA AddTimerInv ==
  ASSUME Inv, NEW a \in Addrs, NEW d \in Delays, NEW i \in Intervals, AddTimer(a, d, i)
  PROVE  Inv'
<1> USE DEF Inv
<1>1. Allocate(a, d, i) /\ AddInLoop(a, NewTimer(d, i)) /\ TypeOK
  BY DEF AddTimer, SetsAgree
<1>2. UNCHANGED <<canceling, calling, expired, notRun, readAt, clock, calls, fired, cancelled>>
      /\ ids' = ids \cup {<<a, created + 1>>} /\ queue' = queue
  BY DEF AddTimer, calls
<1>a. /\ heap' \in [Addrs -> [seq : Seqs, exp : Nat, interval : Intervals \cup {0}]]
      /\ heap'[a] = NewTimer(d, i) /\ heap'[a] # Free
      /\ heap'[a].seq = created + 1 /\ heap'[a].exp \in Nat
      /\ \A b \in Addrs : b # a => heap'[b] = heap[b]
      /\ created' = created + 1 /\ created' \in Seqs /\ created + 1 \in Seqs \ {0}
      /\ a \notin expired /\ \A x \in active : x[1] # a
  BY <1>1, AllocateFacts
<1>3. TypeOK'
  <2>1. /\ timers' \subseteq Nat \X Addrs
        /\ active' \subseteq Addrs \X (Seqs \ {0})
        /\ armed' \in Nat \cup {Never}
    BY <1>1, <1>a, AddInLoopTypes
  <2>2. ids' \subseteq Addrs \X Seqs
    BY <1>1, <1>2, <1>a DEF TypeOK
  <2>3. /\ heap' \in [Addrs -> [seq : Seqs, exp : Nat, interval : Intervals \cup {0}]]
        /\ created' \in Seqs
    BY <1>1, AllocateFacts
  <2> QED
    BY <1>1, <1>2, <2>1, <2>2, <2>3, Zenon DEF TypeOK, clock, calls
<1>4. SetsAgree'
  <2>1. created \in Nat /\ heap'[a].seq > 0
    BY <1>1, <1>a DEF TypeOK, Seqs
  <2> QED
    BY <1>1, <1>2, <1>3, <1>a, <2>1, AddInLoopAgrees
<1>5. LiveSeqs' /\ ExpiredWhenCalling'
  BY <1>1, <1>2, AllocateFacts DEF ExpiredWhenCalling
<1>6. active' = active \cup {<<a, heap'[a].seq>>}
  BY <1>1, <1>a DEF AddInLoop
<1>7. \A j \in 1 .. Len(queue) : queue[j].id \in Addrs \X Seqs
  <2>1. queue \in Seq(QueueItem)
    BY <1>1 DEF TypeOK, QueueItem
  <2>2. \A j \in 1 .. Len(queue) : queue[j] \in QueueItem
    BY <2>1
  <2> QED
    BY <2>2 DEF QueueItem
<1>8. QueuedAdds'
  <2> SUFFICES ASSUME NEW j \in 1 .. Len(queue), queue[j].op = "add"
               PROVE  LET b == queue[j].id[1] IN
                      /\ heap'[b] # Free /\ heap'[b].seq = queue[j].id[2]
                      /\ b \notin expired /\ \A x \in active' : x[1] # b
    BY <1>2 DEF QueuedAdds
  <2> DEFINE b == queue[j].id[1]
  <2>1. b \in Addrs /\ b # a
    BY <1>1, <1>7, AllocateFacts
  <2>2. heap'[b] = heap[b]
    BY <1>a, <2>1
  <2> QED
    BY <1>6, <2>1, <2>2 DEF QueuedAdds
<1>9. NoneLost'
  <2>1. ASSUME NEW b \in Addrs, heap'[b] # Free
        PROVE  <<b, heap'[b].seq>> \in active' \/ b \in expired \/ InQueue(queue, <<b, heap'[b].seq>>)
    <3>1. CASE b = a
      BY <1>6, <3>1
    <3>2. CASE b # a
      BY <1>6, <1>a, <2>1, <3>2 DEF NoneLost
    <3> QED
      BY <3>1, <3>2
  <2> QED
    BY <1>2, <2>1 DEF NoneLost
<1>10. IdsKnown'
  <2>1. \A x \in ids' : Known(x)'
    <3>1. \A x \in ids : Known(x)'
      BY <1>1, AllocateFacts DEF IdsKnown, TypeOK
    <3>2. Known(<<a, created>>)'
      BY <1>1, AllocateFacts
    <3> QED
      BY <1>2, <1>a, <3>1, <3>2 DEF Known
  <2>2. \A j \in 1 .. Len(queue) : Known(queue[j].id)'
    <3> SUFFICES ASSUME NEW j \in 1 .. Len(queue), NEW x, x = queue[j].id PROVE Known(x)'
      BY <1>2 DEF Known
    <3> QED
      BY <1>1, <1>7, AllocateFacts DEF IdsKnown
  <2> QED
    BY <1>2, <2>1, <2>2 DEF IdsKnown, Known
<1>11. CancelledNoted'
  <2>1. created \in Nat /\ \A s \in cancelled : s \in Nat /\ s <= created
    BY <1>1 DEF CancelledNoted, TypeOK, Seqs
  <2>2. \A s \in cancelled' : s <= created' /\ s # created + 1
    BY <1>2, <1>a, <2>1
  <2>3. \A b \in Addrs : heap'[b] # Free /\ heap'[b].seq \in cancelled' => b # a
    BY <1>a, <2>2
  <2> QED
    BY <1>2, <1>a, <2>2, <2>3 DEF CancelledNoted
<1> QED
  BY <1>4, <1>5, <1>8, <1>9, <1>10, <1>11

(* addTimer on another thread: the Timer exists, its functor is queued. *)
LEMMA RemoteAddInv ==
  ASSUME Inv, NEW t \in Threads, NEW a \in Addrs, NEW d \in Delays, NEW i \in Intervals,
         RemoteAdd(t, a, d, i)
  PROVE  Inv'
<1> USE DEF Inv
<1> DEFINE y == [op |-> "add", id |-> <<a, created + 1>>]
<1>1. Allocate(a, d, i) /\ TypeOK
  BY DEF RemoteAdd, SetsAgree
<1>2. UNCHANGED <<timers, active, canceling, calling, expired, notRun, readAt, armed, clock,
                  wrongId, ids, fired, cancelled>>
  BY DEF RemoteAdd
<1>a. /\ heap' \in [Addrs -> [seq : Seqs, exp : Nat, interval : Intervals \cup {0}]]
      /\ heap'[a] = NewTimer(d, i) /\ heap'[a] # Free
      /\ heap'[a].seq = created + 1 /\ heap'[a].exp \in Nat
      /\ \A b \in Addrs : b # a => heap'[b] = heap[b]
      /\ created' = created + 1 /\ created' \in Seqs /\ created + 1 \in Seqs \ {0}
      /\ a \notin expired /\ \A x \in active : x[1] # a
      /\ \A j \in 1 .. Len(queue) : queue[j].op = "add" => queue[j].id[1] # a
  BY <1>1, AllocateFacts
<1>3. queue \in Seq(QueueItem) /\ y \in QueueItem /\ queue' = Append(queue, y)
  <2>1. queue \in Seq(QueueItem)
    BY <1>1 DEF TypeOK, QueueItem
  <2>2. y \in QueueItem
    BY <1>a DEF QueueItem
  <2> QED
    BY <2>1, <2>2 DEF RemoteAdd
<1>4. y.op = "add" /\ y.id = <<a, created + 1>>
  OBVIOUS
<1> HIDE DEF y
<1>5. /\ queue' \in Seq(QueueItem) /\ Len(queue') = Len(queue) + 1 /\ Len(queue) \in Nat
      /\ \A j \in 1 .. Len(queue) : queue'[j] = queue[j] /\ queue[j] \in QueueItem
      /\ queue'[Len(queue) + 1] = y
  BY <1>3, AppendItem
<1>6. \A j \in 1 .. Len(queue') : j \in 1 .. Len(queue) \/ j = Len(queue) + 1
  BY <1>5
<1>7. \A j \in 1 .. Len(queue) : queue[j].id \in Addrs \X Seqs
  BY <1>5 DEF QueueItem
<1>8. TypeOK'
  <2>1. adder' \in [Threads -> [addr : Addrs, seq : Seqs]]
    BY <1>1, <1>a DEF RemoteAdd, TypeOK
  <2> QED
    BY <1>1, <1>2, <1>a, <1>5, <2>1, Zenon DEF TypeOK, QueueItem, clock
<1>9. SetsAgree'
  <2>1. \A x \in active : heap'[x[1]] = heap[x[1]]
    BY <1>1, <1>a DEF TypeOK
  <2>2. \A b \in expired : heap'[b] = heap[b]
    BY <1>1, <1>a DEF TypeOK
  <2> QED
    BY <1>2, <1>8, <2>1, <2>2 DEF SetsAgree
<1>10. LiveSeqs' /\ ExpiredWhenCalling'
  BY <1>1, <1>2, AllocateFacts DEF ExpiredWhenCalling
<1>11. QueuedAdds'
  <2> SUFFICES ASSUME NEW j \in 1 .. Len(queue'), queue'[j].op = "add"
               PROVE  LET b == queue'[j].id[1] IN
                      /\ heap'[b] # Free /\ heap'[b].seq = queue'[j].id[2]
                      /\ b \notin expired /\ \A x \in active : x[1] # b
                      /\ \A k \in 1 .. Len(queue') :
                           queue'[k].op = "add" /\ queue'[k].id[1] = b => j = k
    BY <1>2 DEF QueuedAdds
  <2>1. CASE j = Len(queue) + 1
    <3>1. queue'[j].id[1] = a /\ queue'[j].id[2] = created + 1
      BY <1>4, <1>5, <2>1
    <3>2. \A k \in 1 .. Len(queue') : queue'[k].op = "add" /\ queue'[k].id[1] = a => j = k
      BY <1>5, <1>6, <1>a, <2>1
    <3> QED
      BY <1>a, <3>1, <3>2
  <2>2. CASE j \in 1 .. Len(queue)
    <3> DEFINE b == queue[j].id[1]
    <3>1. b \in Addrs /\ b # a /\ queue'[j] = queue[j]
      BY <1>5, <1>7, <1>a, <2>2
    <3>2. heap'[b] = heap[b]
      BY <1>a, <3>1
    <3>3. /\ heap[b] # Free /\ heap[b].seq = queue[j].id[2]
          /\ b \notin expired /\ \A x \in active : x[1] # b
      BY <2>2, <3>1 DEF QueuedAdds
    <3>4. \A k \in 1 .. Len(queue') : queue'[k].op = "add" /\ queue'[k].id[1] = b => j = k
      BY <1>4, <1>5, <1>6, <2>2, <3>1 DEF QueuedAdds
    <3> QED
      BY <3>1, <3>2, <3>3, <3>4
  <2> QED
    BY <1>6, <2>1, <2>2
<1>12. NoneLost'
  <2>1. \A x : InQueue(queue, x) => InQueue(queue', x)
    BY <1>5 DEF InQueue
  <2>2. InQueue(queue', <<a, heap'[a].seq>>)
    BY <1>5, <1>a DEF InQueue, y
  <2> QED
    BY <1>2, <1>a, <2>1, <2>2 DEF NoneLost
<1>13. IdsKnown'
  <2>1. \A x \in ids' : Known(x)'
    BY <1>1, <1>2, AllocateFacts DEF IdsKnown, TypeOK
  <2>2. ASSUME NEW j \in 1 .. Len(queue'), NEW x, x = queue'[j].id PROVE Known(x)'
    <3>1. CASE j \in 1 .. Len(queue)
      BY <1>1, <1>5, <1>7, <2>2, <3>1, AllocateFacts DEF IdsKnown
    <3>2. CASE j = Len(queue) + 1
      <4>1. x = <<a, created'>>
        BY <1>4, <1>5, <1>a, <2>2, <3>2
      <4>2. Known(<<a, created>>)'
        BY <1>1, AllocateFacts
      <4> QED
        BY <4>1, <4>2 DEF Known
    <3> QED
      BY <1>6, <3>1, <3>2
  <2> QED
    BY <2>1, <2>2 DEF IdsKnown, Known
<1>14. CancelledNoted'
  <2>1. created \in Nat /\ \A s \in cancelled : s \in Nat /\ s <= created
    BY <1>1 DEF CancelledNoted, TypeOK, Seqs
  <2>2. \A s \in cancelled' : s <= created' /\ s # created + 1
    BY <1>2, <1>a, <2>1
  <2>3. \A b \in Addrs : heap'[b] # Free /\ heap'[b].seq \in cancelled' => b # a
    BY <1>a, <2>2
  <2> QED
    BY <1>2, <1>a, <2>2, <2>3 DEF CancelledNoted
<1> QED
  BY <1>9, <1>10, <1>11, <1>12, <1>13, <1>14

(* The loop runs a queued addTimerInLoop. *)
LEMMA RunAddInv == ASSUME Inv, RunAdd PROVE Inv'
<1> USE DEF Inv
<1> DEFINE a == Head(queue).id[1]
<1>1. TypeOK /\ queue # <<>> /\ queue' = Tail(queue) /\ Head(queue).op = "add"
  BY DEF RunAdd, SetsAgree
<1>2. /\ Head(queue) \in QueueItem /\ Head(queue) = queue[1] /\ 1 \in 1 .. Len(queue)
      /\ queue' \in Seq(QueueItem)
      /\ \A i \in 1 .. Len(queue') : i + 1 \in 1 .. Len(queue) /\ queue'[i] = queue[i + 1]
      /\ \A i \in 1 .. Len(queue) :
           i = 1 \/ (i - 1 \in 1 .. Len(queue') /\ queue'[i - 1] = queue[i])
  BY <1>1, TailKeeps
<1>3. a \in Addrs
  BY <1>2 DEF QueueItem
<1>4. /\ heap[a] # Free /\ heap[a].seq = Head(queue).id[2] /\ a \notin expired
      /\ \A x \in active : x[1] # a
      /\ \A j \in 1 .. Len(queue) : queue[j].op = "add" /\ queue[j].id[1] = a => j = 1
  BY <1>1, <1>2 DEF QueuedAdds
<1>5. UNCHANGED <<heap, created, canceling, calling, expired, notRun, readAt, clock, adder,
                  wrongId, ids, fired, cancelled>> /\ AddInLoop(a, heap[a])
  BY DEF RunAdd
<1>6. heap[a].seq > 0 /\ heap[a].seq \in Seqs \ {0} /\ heap[a].exp \in Nat
  <2>1. heap[a] \in [seq : Seqs, exp : Nat, interval : Intervals \cup {0}] /\ created \in Seqs
    BY <1>1, <1>3 DEF TypeOK
  <2>2. heap[a].seq \in Seqs /\ heap[a].exp \in Nat /\ created \in Nat
    BY <2>1, TimerAssumption DEF Seqs
  <2>3. heap[a].seq \in 1 .. created
    BY <1>3, <1>4 DEF LiveSeqs
  <2> QED
    BY <2>2, <2>3
<1>7. TypeOK'
  <2>1. /\ timers' \subseteq Nat \X Addrs
        /\ active' \subseteq Addrs \X (Seqs \ {0})
        /\ armed' \in Nat \cup {Never}
    BY <1>1, <1>3, <1>5, <1>6, AddInLoopTypes
  <2> QED
    BY <1>1, <1>2, <1>5, <2>1, Zenon DEF TypeOK, QueueItem, clock
<1> HIDE DEF a
<1>8. SetsAgree'
  BY <1>3, <1>4, <1>5, <1>6, <1>7, AddInLoopAgrees
<1>9. LiveSeqs' /\ CancelledNoted' /\ ExpiredWhenCalling'
  BY <1>5 DEF LiveSeqs, CancelledNoted, ExpiredWhenCalling
<1>10. active' = active \cup {<<a, heap[a].seq>>}
  BY <1>5 DEF AddInLoop
<1>11. QueuedAdds'
  <2> SUFFICES ASSUME NEW j \in 1 .. Len(queue'), queue'[j].op = "add"
               PROVE  LET b == queue'[j].id[1] IN
                      /\ heap[b] # Free /\ heap[b].seq = queue'[j].id[2]
                      /\ b \notin expired /\ \A x \in active' : x[1] # b
                      /\ \A k \in 1 .. Len(queue') :
                           queue'[k].op = "add" /\ queue'[k].id[1] = b => j = k
    BY <1>5 DEF QueuedAdds
  <2> DEFINE b == queue[j + 1].id[1]
  <2>1. j + 1 \in 1 .. Len(queue) /\ queue'[j] = queue[j + 1] /\ j \in Nat /\ j # 0
    BY <1>2
  <2>2. /\ heap[b] # Free /\ heap[b].seq = queue[j + 1].id[2]
        /\ b \notin expired /\ \A x \in active : x[1] # b
    BY <2>1 DEF QueuedAdds
  <2>3. b # a
    <3>1. j + 1 # 1
      BY <2>1
    <3> QED
      BY <1>4, <2>1, <3>1
  <2>4. ASSUME NEW k \in 1 .. Len(queue'), queue'[k].op = "add", queue'[k].id[1] = b
        PROVE  j = k
    <3>1. k + 1 \in 1 .. Len(queue) /\ queue'[k] = queue[k + 1] /\ k \in Nat
      BY <1>2
    <3>2. j + 1 = k + 1
      BY <2>1, <2>4, <3>1 DEF QueuedAdds
    <3> QED
      BY <2>1, <3>1, <3>2
  <2> QED
    BY <1>10, <2>1, <2>2, <2>3, <2>4
<1>12. NoneLost'
  <2> SUFFICES ASSUME NEW b \in Addrs, heap[b] # Free, <<b, heap[b].seq>> \notin active',
                      b \notin expired
               PROVE  InQueue(queue', <<b, heap[b].seq>>)
    BY <1>5 DEF NoneLost
  <2>1. PICK i \in 1 .. Len(queue) : queue[i] = [op |-> "add", id |-> <<b, heap[b].seq>>]
    BY <1>10 DEF NoneLost, InQueue
  <2>2. i # 1
    <3>1. b # a
      BY <1>10
    <3>2. queue[i].id[1] = b
      BY <2>1
    <3> QED
      BY <1>2, <3>1, <3>2 DEF a
  <2> QED
    BY <1>2, <2>1, <2>2 DEF InQueue
<1>13. IdsKnown'
  BY <1>2, <1>5 DEF IdsKnown, Known
<1> QED
  BY <1>8, <1>9, <1>11, <1>12, <1>13

(* handleRead up to the callbacks. *)
LEMMA HandleReadInv == ASSUME Inv, HandleRead PROVE Inv'
<1> USE DEF Inv
<1> DEFINE due == {e \in timers : IsExpired(e)}
           gone == {e[2] : e \in due}
<1>1. TypeOK /\ expired = {}
  BY DEF HandleRead, SetsAgree, ExpiredWhenCalling
<1>2. /\ timers' = timers \ due /\ expired' = gone /\ notRun' = gone
      /\ active' = {x \in active : x[1] \notin gone}
      /\ armed' = Never /\ readAt' = Wall /\ calling' = TRUE /\ canceling' = {}
      /\ UNCHANGED <<heap, created, clock, calls, ids, fired, cancelled>> /\ queue' = queue
  BY DEF HandleRead, ActiveWithout, calls
<1>3. \A e \in timers : e = <<heap[e[2]].exp, e[2]>> /\ \E x \in active : x[1] = e[2]
  BY DEF SetsAgree
<1>4. gone \subseteq Addrs
  BY <1>1 DEF TypeOK
<1>5. \A x \in active : <<heap[x[1]].exp, x[1]>> \in timers /\ x[1] \in Addrs
  BY <1>1 DEF SetsAgree, TypeOK
<1>6. \A a \in gone : \E x \in active : x[1] = a
  BY <1>3
<1>7. \A e \in timers : e[2] \in gone <=> e \in due
  <2> SUFFICES ASSUME NEW e \in timers, NEW f \in due, f[2] = e[2] PROVE e \in due
    OBVIOUS
  <2>1. e = f
    BY <1>3
  <2> QED
    BY <2>1
<1>8. TypeOK'
  <2>1. Wall \in Nat
    BY <1>1, TimerAssumption DEF TypeOK, Wall
  <2>2. /\ timers' \subseteq Nat \X Addrs /\ active' \subseteq Addrs \X (Seqs \ {0})
        /\ canceling' \subseteq Addrs \X Seqs
    BY <1>1, <1>2 DEF TypeOK
  <2> HIDE DEF gone, due
  <2> QED
    BY <1>1, <1>2, <1>4, <2>1, <2>2, Zenon DEF TypeOK, clock, calls
<1>9. SetsAgree'
  <2>1. timers' = {<<heap[x[1]].exp, x[1]>> : x \in active'}
    <3>1. ASSUME NEW e \in timers' PROVE \E x \in active' : e = <<heap[x[1]].exp, x[1]>>
      <4>1. e \in timers /\ e[2] \notin gone
        BY <1>2, <1>7
      <4>2. PICK x \in active : x[1] = e[2]
        BY <1>3, <4>1
      <4> QED
        BY <1>2, <1>3, <4>1, <4>2
    <3>2. ASSUME NEW x \in active' PROVE <<heap[x[1]].exp, x[1]>> \in timers'
      <4> DEFINE e == <<heap[x[1]].exp, x[1]>>
      <4>1. e \in timers /\ e[2] \notin gone
        BY <1>2, <1>5
      <4>2. e \notin due
        BY <1>7, <4>1
      <4> QED
        BY <1>2, <4>1, <4>2
    <3> QED
      BY <3>1, <3>2
  <2>2. \A x \in active' : heap[x[1]].seq = x[2] /\ x[2] > 0
    BY <1>2 DEF SetsAgree
  <2>3. \A a \in gone : heap[a] # Free
    BY <1>6 DEF SetsAgree, Free
  <2>4. \A a \in expired' : heap[a] # Free /\ \A x \in active' : x[1] # a
    BY <1>2, <2>3
  <2> QED
    BY <1>2, <1>8, <2>1, <2>2, <2>4 DEF SetsAgree
<1>10. LiveSeqs' /\ IdsKnown'
  BY <1>2 DEF LiveSeqs, IdsKnown, Known
<1>11. ExpiredWhenCalling'
  BY <1>1, <1>2, TimerAssumption DEF ExpiredWhenCalling, TypeOK, Wall
<1>12. CancelledNoted'
  BY <1>1, <1>2 DEF CancelledNoted
<1>13. QueuedAdds'
  <2>1. \A a : (\A x \in active : x[1] # a) => a \notin gone /\ \A x \in active' : x[1] # a
    BY <1>2, <1>6
  <2> HIDE DEF gone
  <2> QED
    BY <1>2, <2>1 DEF QueuedAdds
<1>14. NoneLost'
  BY <1>1, <1>2 DEF NoneLost
<1> QED
  BY <1>9, <1>10, <1>11, <1>12, <1>13, <1>14

(* reset: repeating timers go back into the sets, the others are deleted. *)
LEMMA ResetInv == ASSUME Inv, Reset PROVE Inv'
<1> USE DEF Inv
<1> DEFINE kept == {a \in expired : Keeps(a)}
<1>1. TypeOK /\ expired \subseteq Addrs
  BY DEF SetsAgree, TypeOK
<1>2. /\ heap' = [a \in Addrs |-> IF a \in kept THEN Restart(a)
                                  ELSE IF a \in expired THEN Free ELSE heap[a]]
      /\ timers' = timers \cup {<<Restart(a).exp, a>> : a \in kept}
      /\ active' = active \cup {<<a, heap[a].seq>> : a \in kept}
      /\ armed' = Rearm(timers') /\ calling' = FALSE /\ expired' = {} /\ notRun = {}
      /\ UNCHANGED <<created, canceling, notRun, readAt, clock, calls, ids, fired, cancelled>>
      /\ queue' = queue
  BY DEF Reset, calls
<1>3. \A a \in kept : a \in expired /\ a \in Addrs /\ Keeps(a)
  BY <1>1
<1>4. \A a \in Addrs : a \notin expired => heap'[a] = heap[a]
  BY <1>2
<1>5. \A a \in expired : a \notin kept => heap'[a] = Free
  BY <1>1, <1>2
<1>6. ASSUME NEW a \in kept
      PROVE  /\ heap'[a] = Restart(a) /\ heap'[a].seq = heap[a].seq /\ heap'[a].exp \in Nat
             /\ heap'[a] \in [seq : Seqs, exp : Nat, interval : Intervals \cup {0}]
             /\ heap[a] # Free /\ heap[a].seq \in Seqs \ {0} /\ heap[a].seq > 0
             /\ heap'[a] # Free /\ heap'[a].exp > 0
  <2>1. heap'[a] = Restart(a) /\ heap[a] \in [seq : Seqs, exp : Nat, interval : Intervals \cup {0}]
    BY <1>1, <1>2, <1>3 DEF TypeOK
  <2>2. readAt + heap[a].interval \in Nat
    <3>1. readAt \in Nat
      BY DEF ExpiredWhenCalling
    <3>2. heap[a].interval \in Intervals \cup {0}
      BY <2>1
    <3>3. heap[a].interval \in Nat
      BY <3>2, IntervalsNat, Zenon
    <3> QED
      BY <3>1, <3>3
  <2>8. readAt + heap[a].interval > 0
    <3>1. readAt \in Nat /\ heap[a].interval > 0
      BY <1>3 DEF ExpiredWhenCalling, Keeps
    <3>2. heap[a].interval \in Nat
      BY <2>1, IntervalsNat, Zenon
    <3> QED
      BY <3>1, <3>2
  <2>9. Restart(a).exp > 0
    BY <2>1, <2>8 DEF Restart
  <2>3. /\ Restart(a).seq = heap[a].seq /\ Restart(a).exp \in Nat
        /\ Restart(a) \in [seq : Seqs, exp : Nat, interval : Intervals \cup {0}]
    BY <2>1, <2>2 DEF Restart
  <2>4. heap[a] # Free
    BY <1>3 DEF SetsAgree
  <2>5. heap[a].seq \in 1 .. created
    BY <1>3, <2>4 DEF LiveSeqs
  <2>6. heap[a].seq \in Seqs /\ heap[a].seq # 0 /\ heap[a].seq > 0
    BY <2>1, <2>5 DEF Seqs
  <2>7. heap'[a] # Free
    BY <2>1, <2>3, <2>6 DEF Free
  <2> QED
    BY <2>1, <2>3, <2>4, <2>6, <2>7, <2>9
<1>7. /\ timers' = timers \cup {<<heap'[a].exp, a>> : a \in kept}
      /\ active' = active \cup {<<a, heap'[a].seq>> : a \in kept}
  <2>1. \A a \in kept : heap'[a].exp = Restart(a).exp /\ heap'[a].seq = heap[a].seq
    BY <1>6
  <2> HIDE DEF kept
  <2> QED
    BY <1>2, <2>1
<1>8. TypeOK'
  <2>1. heap' \in [Addrs -> [seq : Seqs, exp : Nat, interval : Intervals \cup {0}]]
    <3>1. Free \in [seq : Seqs, exp : Nat, interval : Intervals \cup {0}]
      BY TimerAssumption DEF Free, Seqs
    <3>2. \A a \in Addrs : heap'[a] \in [seq : Seqs, exp : Nat, interval : Intervals \cup {0}]
      <4> HIDE DEF kept
      <4> QED
        BY <1>1, <1>4, <1>5, <1>6, <3>1 DEF TypeOK
    <3> QED
      BY <1>2, <3>2
  <2>2. timers' \subseteq Nat \X Addrs
    BY <1>1, <1>3, <1>6, <1>7 DEF TypeOK
  <2>3. active' \subseteq Addrs \X (Seqs \ {0})
    BY <1>1, <1>3, <1>6, <1>7 DEF TypeOK
  <2>4. armed' \in Nat \cup {Never}
    <3>1. CASE timers' = {}
      BY <1>1, <1>2, <3>1 DEF Rearm, NextExpire, TypeOK
    <3>2. CASE timers' # {}
      <4>1. Earliest(timers') \in Nat
        BY <2>2, <3>2, EarliestIs
      <4>2. Deadline(Earliest(timers')) \in Nat
        BY <1>1, <4>1, DeadlineIs
      <4> QED
        BY <1>1, <1>2, <3>2, <4>2 DEF Rearm, NextExpire, TypeOK
    <3> QED
      BY <3>1, <3>2
  <2> HIDE DEF kept
  <2> QED
    BY <1>1, <1>2, <2>1, <2>2, <2>3, <2>4, Zenon DEF TypeOK, clock, calls
<1> HIDE DEF kept
<1>9. SetsAgree'
  <2>1. \A x \in active : x[1] \in Addrs /\ x[1] \notin expired /\ heap'[x[1]] = heap[x[1]]
    BY <1>1, <1>4 DEF SetsAgree, TypeOK
  <2>2. timers' = {<<heap'[x[1]].exp, x[1]>> : x \in active'}
    <3>1. timers = {<<heap'[x[1]].exp, x[1]>> : x \in active}
      BY <2>1 DEF SetsAgree
    <3>2. ASSUME NEW e \in timers' PROVE \E x \in active' : e = <<heap'[x[1]].exp, x[1]>>
      <4>1. CASE e \in timers
        BY <1>7, <3>1, <4>1
      <4>2. CASE e \in {<<heap'[a].exp, a>> : a \in kept}
        <5>1. PICK a \in kept : e = <<heap'[a].exp, a>>
          BY <4>2
        <5>2. <<a, heap'[a].seq>> \in active'
          BY <1>7
        <5>3. LET x == <<a, heap'[a].seq>> IN e = <<heap'[x[1]].exp, x[1]>>
          BY <5>1
        <5> QED
          BY <5>2, <5>3, Zenon
      <4> QED
        BY <1>7, <4>1, <4>2
    <3>3. ASSUME NEW x \in active' PROVE <<heap'[x[1]].exp, x[1]>> \in timers'
      <4>1. CASE x \in active
        BY <1>7, <3>1, <4>1
      <4>2. CASE x \in {<<a, heap'[a].seq>> : a \in kept}
        BY <1>7, <4>2
      <4> QED
        BY <1>7, <4>1, <4>2
    <3> QED
      BY <3>2, <3>3
  <2>3. \A x \in active' : heap'[x[1]].seq = x[2] /\ x[2] > 0
    <3>1. \A x \in active : heap'[x[1]].seq = x[2] /\ x[2] > 0
      BY <2>1 DEF SetsAgree
    <3> QED
      BY <1>6, <1>7, <3>1
  <2> QED
    BY <1>2, <1>8, <2>2, <2>3 DEF SetsAgree
<1>10. \A a \in Addrs : /\ heap'[a] # Free => heap'[a].seq = heap[a].seq /\ heap[a] # Free
                        /\ heap'[a].seq # 0 => heap'[a] # Free
  BY <1>4, <1>5, <1>6 DEF Free
<1>11. LiveSeqs'
  <2>1. \A a \in Addrs : heap'[a] # Free => heap'[a].seq \in 1 .. created'
    BY <1>2, <1>10 DEF LiveSeqs
  <2>3. \A a \in Addrs : heap'[a] # Free => heap'[a].exp > 0
    BY <1>4, <1>5, <1>6 DEF LiveSeqs
  <2>2. ASSUME NEW a \in Addrs, NEW b \in Addrs, heap'[a] # Free, heap'[a].seq = heap'[b].seq
        PROVE  a = b
    <3>1. heap'[a].seq # 0
      BY <1>2, <2>1, <2>2
    <3>2. heap'[b] # Free
      BY <1>10, <2>2, <3>1
    <3> QED
      BY <1>10, <2>2, <3>2 DEF LiveSeqs
  <2> QED
    BY <2>1, <2>2, <2>3 DEF LiveSeqs
<1>12. QueuedAdds'
  <2> SUFFICES ASSUME NEW j \in 1 .. Len(queue), queue[j].op = "add"
               PROVE  LET b == queue[j].id[1] IN
                      /\ heap'[b] # Free /\ heap'[b].seq = queue[j].id[2]
                      /\ b \notin expired' /\ \A x \in active' : x[1] # b
    BY <1>2 DEF QueuedAdds
  <2> DEFINE b == queue[j].id[1]
  <2>1. queue \in Seq(QueueItem)
    BY <1>1 DEF TypeOK, QueueItem
  <2>2. queue[j] \in QueueItem
    BY <2>1
  <2>3. b \in Addrs
    BY <2>2 DEF QueueItem
  <2>4. /\ heap[b] # Free /\ heap[b].seq = queue[j].id[2] /\ b \notin expired
        /\ \A x \in active : x[1] # b
    BY DEF QueuedAdds
  <2>5. \A x \in active' : x[1] # b
    BY <1>3, <1>7, <2>4
  <2> QED
    BY <1>2, <1>4, <2>3, <2>4, <2>5
<1>13. NoneLost'
  <2> SUFFICES ASSUME NEW a \in Addrs, heap'[a] # Free
               PROVE  <<a, heap'[a].seq>> \in active' \/ InQueue(queue, <<a, heap'[a].seq>>)
    BY <1>2 DEF NoneLost
  <2>1. CASE a \in expired
    BY <1>5, <1>7, <2>1
  <2>2. CASE a \notin expired
    BY <1>4, <1>7, <2>2 DEF NoneLost
  <2> QED
    BY <2>1, <2>2
<1>14. IdsKnown'
  <2>1. \A x : Known(x) => Known(x)'
    BY <1>2, <1>10 DEF Known
  <2> QED
    BY <1>2, <2>1 DEF IdsKnown
<1>15. CancelledNoted'
  <2>1. \A s \in cancelled' : s <= created'
    BY <1>2 DEF CancelledNoted
  <2>2. ASSUME NEW a \in Addrs, heap'[a] # Free, heap'[a].seq \in cancelled' PROVE FALSE
    <3>1. a \in expired /\ <<a, heap[a].seq>> \in canceling
      BY <1>2, <1>10, <2>2 DEF CancelledNoted
    <3>2. a \notin kept
      BY <1>3, <3>1 DEF Keeps
    <3> QED
      BY <1>5, <2>2, <3>1, <3>2
  <2> QED
    BY <2>1, <2>2 DEF CancelledNoted
<1>16. ExpiredWhenCalling'
  BY <1>2 DEF ExpiredWhenCalling
<1> QED
  BY <1>9, <1>11, <1>12, <1>13, <1>14, <1>15, <1>16

(* The inductive step, action by action. *)
LEMMA NextInv == Inv /\ [Next]_vars => Inv'
<1> SUFFICES ASSUME Inv, [Next]_vars PROVE Inv'
  OBVIOUS
<1>1. ASSUME NEW a \in Addrs, NEW d \in Delays, NEW i \in Intervals, AddTimer(a, d, i) PROVE Inv'
  BY <1>1, AddTimerInv
<1>2. ASSUME NEW id \in ids, Cancel(id) PROVE Inv'
  BY <1>2, CancelInv
<1>3. ASSUME NEW id \in ids, RemoteCancel(id) PROVE Inv'
  BY <1>3, RemoteCancelInv
<1>4. ASSUME NEW t \in Threads, NEW a \in Addrs, NEW d \in Delays, NEW i \in Intervals,
             RemoteAdd(t, a, d, i)
      PROVE  Inv'
  BY <1>4, RemoteAddInv
<1>5. ASSUME NEW t \in Threads, RemoteReturns(t) PROVE Inv'
  BY <1>5, RemoteReturnsInv
<1>6. ASSUME NEW a \in Addrs, RunTimer(a) PROVE Inv'
  BY <1>6, RunTimerInv
<1>7. ASSUME NEW s \in Skews, SetClock(s) PROVE Inv'
  BY <1>7, SetClockInv
<1>8. CASE UNCHANGED vars
  <2>1. TypeOK'
    BY <1>8 DEF Inv, SetsAgree, TypeOK, vars, clock, calls
  <2> QED
    BY <1>8, <2>1, QuietInv DEF vars, clock, calls
<1>9. CASE RunAdd \/ RunCancel \/ HandleRead \/ Reset \/ Tick
  BY <1>9, RunAddInv, RunCancelInv, HandleReadInv, ResetInv, TickInv
<1> QED
  BY <1>1, <1>2, <1>3, <1>4, <1>5, <1>6, <1>7, <1>8, <1>9, Zenon
  DEF Next, UserCode, RemoteCode, LoopStep

(* TimerQueue.cc: the inductive invariant holds in every reachable state. *)
THEOREM InvHolds == Spec => []Inv
BY InitInv, NextInv, PTL DEF Spec

(* TimerQueue.cc: timers_ and activeTimers_ always hold the same live       *)
(* Timers, and getExpired's Timers stay alive until reset.                  *)
THEOREM SetsAlwaysAgree == Spec => []SetsAgree
<1>1. Inv => SetsAgree
  BY DEF Inv
<1> QED
  BY <1>1, InvHolds, PTL

(* cancelInLoop: a cancelled timer never waits again. *)
THEOREM CancelAlwaysHolds == Spec => []CancelHolds
<1>1. Inv => CancelHolds
  <2> SUFFICES ASSUME Inv, NEW x \in active, x[2] \in cancelled PROVE FALSE
    BY DEF CancelHolds
  <2>1. x[1] \in Addrs /\ heap[x[1]].seq = x[2] /\ x[2] > 0
    BY DEF Inv, SetsAgree, TypeOK
  <2>2. heap[x[1]] # Free
    BY <2>1 DEF Free
  <2>3. x[1] \in expired
    BY <2>1, <2>2 DEF Inv, CancelledNoted
  <2> QED
    BY <2>3 DEF Inv, SetsAgree
<1> QED
  BY <1>1, InvHolds, PTL

-----------------------------------------------------------------------------
(* The timerfd.                                                             *)

(* resetTimerfd arms the timerfd in time for the expiration it is given. *)
LEMMA DeadlineInTime ==
  ASSUME TypeOK, NEW e \in Nat, armed' = Deadline(e), UNCHANGED clock
  PROVE  armed' # Never /\ (armed' <= now' \/ \E s \in Skews : armed' <= e - s)
<1>1. Deadline(e) \in Nat /\ (Deadline(e) <= now \/ Deadline(e) <= e - skew)
  BY DeadlineIs
<1> QED
  BY <1>1 DEF TypeOK, Never, clock

(* What is in time for m is in time for anything later. *)
LEMMA InTimeForLater ==
  ASSUME TypeOK', NEW m \in Nat, NEW n \in Nat, m <= n,
         armed' # Never, armed' <= now' \/ \E s \in Skews : armed' <= m - s
  PROVE  armed' <= now' \/ \E s \in Skews : armed' <= n - s
<1>1. CASE armed' <= now'
  BY <1>1
<1>2. ASSUME NEW s \in Skews, armed' <= m - s PROVE armed' <= n - s
  BY <1>2, TimerAssumption DEF TypeOK
<1> QED
  BY <1>1, <1>2

(* insert and resetTimerfd in addTimerInLoop keep the timerfd in time. *)
LEMMA AddKeepsArmed ==
  ASSUME Inv, TypeOK', TimerfdArmed, ~calling, NEW a \in Addrs, NEW tm, tm.exp \in Nat,
         AddInLoop(a, tm), UNCHANGED clock
  PROVE  TimerfdArmed'
<1> DEFINE x == <<tm.exp, a>>
<1>1. /\ timers \subseteq Nat \X Addrs /\ timers' \subseteq Nat \X Addrs /\ TypeOK
      /\ timers' = timers \cup {x} /\ x[1] = tm.exp
  BY DEF Inv, SetsAgree, TypeOK, AddInLoop
<1>2. /\ Earliest(timers') \in Nat
      /\ \E e \in timers' : e[1] = Earliest(timers')
  BY <1>1, EarliestIs
<1>3. timers # {} => Earliest(timers) \in Nat /\ \A e \in timers : Earliest(timers) <= e[1]
  BY <1>1, EarliestIs
<1>4. CASE EarliestChanged(timers, tm.exp)
  <2>1. armed' = Deadline(tm.exp)
    BY <1>4 DEF AddInLoop
  <2>2. armed' # Never /\ (armed' <= now' \/ \E s \in Skews : armed' <= tm.exp - s)
    BY <1>1, <2>1, DeadlineInTime
  <2>3. \A e \in timers : tm.exp <= e[1]
    BY <1>1, <1>3, <1>4 DEF EarliestChanged
  <2>4. tm.exp <= Earliest(timers')
    BY <1>1, <1>2, <2>3
  <2>5. armed' <= now' \/ \E s \in Skews : armed' <= Earliest(timers') - s
    BY <1>2, <2>2, <2>4, InTimeForLater
  <2> QED
    BY <2>2, <2>5 DEF TimerfdArmed
<1>5. CASE ~EarliestChanged(timers, tm.exp)
  <2>1. armed' = armed /\ timers # {} /\ Earliest(timers) <= tm.exp
    BY <1>3, <1>5 DEF AddInLoop, EarliestChanged
  <2>2. armed' # Never /\ (armed' <= now' \/ \E s \in Skews : armed' <= Earliest(timers) - s)
    BY <2>1 DEF TimerfdArmed, clock
  <2>3. Earliest(timers) <= Earliest(timers')
    BY <1>1, <1>2, <1>3, <2>1
  <2>4. armed' <= now' \/ \E s \in Skews : armed' <= Earliest(timers') - s
    BY <1>2, <1>3, <2>1, <2>2, <2>3, InTimeForLater
  <2> QED
    BY <2>2, <2>4 DEF TimerfdArmed
<1> QED
  BY <1>4, <1>5

(* Cancelling and the passing of time keep it in time. *)
LEMMA FewerKeepsArmed ==
  ASSUME Inv, TypeOK', TimerfdArmed, timers' \subseteq timers, armed' = armed,
         calling' = calling, now' >= now
  PROVE  TimerfdArmed'
<1> SUFFICES ASSUME ~calling, timers' # {}
             PROVE  /\ armed' # Never
                    /\ armed' <= now' \/ \E s \in Skews : armed' <= Earliest(timers') - s
  BY DEF TimerfdArmed
<1>1. timers \subseteq Nat \X Addrs /\ timers' \subseteq Nat \X Addrs /\ TypeOK
  BY DEF Inv, SetsAgree, TypeOK
<1>2. Earliest(timers') \in Nat /\ \E e \in timers' : e[1] = Earliest(timers')
  BY <1>1, EarliestIs
<1>3. Earliest(timers) \in Nat /\ \A e \in timers : Earliest(timers) <= e[1]
  BY <1>1, EarliestIs
<1>4. Earliest(timers) <= Earliest(timers')
  BY <1>2, <1>3
<1>5. armed # Never /\ (armed <= now \/ \E s \in Skews : armed <= Earliest(timers) - s)
  BY DEF TimerfdArmed
<1>6. armed' # Never /\ (armed' <= now' \/ \E s \in Skews : armed' <= Earliest(timers) - s)
  BY <1>1, <1>5 DEF TypeOK
<1> QED
  BY <1>2, <1>3, <1>4, <1>6, InTimeForLater

(* TimerQueue.cc: insert, resetTimerfd and reset keep the timerfd armed in  *)
(* time for the earliest timer that waits, whatever the wall clock is set   *)
(* to.                                                                      *)
THEOREM TimerfdAlwaysArmed == Spec => []TimerfdArmed
<1>1. Init => TimerfdArmed
  BY DEF Init, TimerfdArmed
<1>2. Inv /\ Inv' /\ TimerfdArmed /\ [Next]_vars => TimerfdArmed'
  <2> SUFFICES ASSUME Inv, Inv', TimerfdArmed, [Next]_vars PROVE TimerfdArmed'
    OBVIOUS
  <2>t. TypeOK /\ TypeOK' /\ now \in Nat
    BY DEF Inv, SetsAgree, TypeOK
  <2>1. ASSUME NEW a \in Addrs, NEW d \in Delays, NEW i \in Intervals, AddTimer(a, d, i)
        PROVE  TimerfdArmed'
    <3>1. CASE calling
      BY <2>1, <3>1 DEF AddTimer, TimerfdArmed
    <3>2. CASE ~calling
      <4>1. NewTimer(d, i).exp \in Nat
        BY <2>t, <2>1, NewTimerIs DEF AddTimer, Allocate
      <4> QED
        BY <2>t, <2>1, <3>2, <4>1, AddKeepsArmed DEF AddTimer
    <3> QED
      BY <3>1, <3>2
  <2>2. ASSUME NEW id \in ids, Cancel(id) PROVE TimerfdArmed'
    BY <2>t, <2>2, FewerKeepsArmed DEF Cancel, CancelInLoop, clock
  <2>3. CASE RunCancel
    BY <2>t, <2>3, FewerKeepsArmed DEF RunCancel, CancelInLoop, clock
  <2>4. CASE RunAdd
    <3>1. queue \in Seq(QueueItem) /\ queue # <<>>
      BY <2>t, <2>4 DEF TypeOK, QueueItem, RunAdd
    <3>2. Head(queue) \in QueueItem
      BY <3>1, TailItems
    <3>3. Head(queue).id[1] \in Addrs
      BY <3>2 DEF QueueItem
    <3>4. heap[Head(queue).id[1]].exp \in Nat
      BY <2>t, <3>3 DEF TypeOK
    <3> QED
      BY <2>t, <2>4, <3>3, <3>4, AddKeepsArmed DEF RunAdd
  <2>5. CASE HandleRead
    BY <2>5 DEF HandleRead, TimerfdArmed
  <2>6. CASE Reset
    <3> SUFFICES ASSUME timers' # {}
                 PROVE  /\ armed' # Never
                        /\ armed' <= now' \/ \E s \in Skews : armed' <= Earliest(timers') - s
      BY DEF TimerfdArmed
    <3>2. /\ Earliest(timers') \in Nat
          /\ \E e \in timers' : e[1] = Earliest(timers')
      BY <2>t, EarliestIs DEF TypeOK
    <3>3. Earliest(timers') > 0
      <4>0. PICK e \in timers' : e[1] = Earliest(timers')
        BY <3>2
      <4>3. timers' = {<<heap'[x[1]].exp, x[1]>> : x \in active'}
        BY DEF Inv, SetsAgree
      <4>4. PICK x \in active' : e = <<heap'[x[1]].exp, x[1]>>
        BY <4>3
      <4>1. Earliest(timers') = heap'[x[1]].exp
        BY <4>0, <4>4
      <4>2. x[1] \in Addrs /\ heap'[x[1]].seq = x[2] /\ x[2] > 0
        BY <2>t, <4>1 DEF Inv, SetsAgree, TypeOK
      <4>5. heap'[x[1]] # Free
        BY <4>2 DEF Free
      <4> QED
        BY <4>1, <4>2, <4>5 DEF Inv, LiveSeqs
    <3>1. armed' = Deadline(Earliest(timers')) /\ UNCHANGED clock
      BY <2>6, <3>3 DEF Reset, Rearm, NextExpire
    <3> QED
      BY <2>t, <3>1, <3>2, DeadlineInTime
  <2>7. CASE Tick
    BY <2>t, <2>7, FewerKeepsArmed DEF Tick
  <2>8. ASSUME NEW s \in Skews, SetClock(s) PROVE TimerfdArmed'
    BY <2>t, <2>8, FewerKeepsArmed DEF SetClock
  <2>9. ASSUME NEW id \in ids, RemoteCancel(id) PROVE TimerfdArmed'
    BY <2>t, <2>9, FewerKeepsArmed DEF RemoteCancel, clock
  <2>10. ASSUME NEW t \in Threads, RemoteReturns(t) PROVE TimerfdArmed'
    BY <2>t, <2>10, FewerKeepsArmed DEF RemoteReturns, clock
  <2>11. ASSUME NEW t \in Threads, NEW a \in Addrs, NEW d \in Delays, NEW i \in Intervals,
                RemoteAdd(t, a, d, i)
         PROVE  TimerfdArmed'
    BY <2>t, <2>11, FewerKeepsArmed DEF RemoteAdd, clock
  <2>12. ASSUME NEW a \in Addrs, RunTimer(a) PROVE TimerfdArmed'
    BY <2>t, <2>12, FewerKeepsArmed DEF RunTimer, clock
  <2>13. CASE UNCHANGED vars
    BY <2>t, <2>13, FewerKeepsArmed DEF vars, clock
  <2> QED
    BY <2>1, <2>2, <2>3, <2>4, <2>5, <2>6, <2>7, <2>8, <2>9, <2>10, <2>11, <2>12, <2>13, Zenon
    DEF Next, UserCode, RemoteCode, LoopStep
<1> QED
  BY <1>1, <1>2, InvHolds, PTL DEF Spec

-----------------------------------------------------------------------------
(* TimerQueue implements TimerService.                                      *)

(* The addresses in the functors of addTimer that are queued. *)
AddAddrs(q) == {q[i].id[1] : i \in {j \in 1 .. Len(q) : q[j].op = "add"}}

(* The addresses of the timers that wait, and of those that will not repeat. *)
ActiveAddrs == {x[1] : x \in active}
StoppedAddrs == {b \in expired : <<b, heap[b].seq>> \in canceling}

(* The Timers at the addresses in S. *)
At(S) == {heap[a] : a \in S}

(* The five sets of TimerService by their addresses. *)
LEMMA TimersByAddress ==
  /\ QueuedTimers = At(AddAddrs(queue)) /\ WaitingTimers = At(ActiveAddrs)
  /\ ExpiredTimers = At(expired) /\ UncalledTimers = At(notRun)
  /\ StoppedTimers = At(StoppedAddrs)
<1>1. QueuedTimers = At(AddAddrs(queue))
  BY DEF QueuedTimers, At, AddAddrs
<1>2. WaitingTimers = At(ActiveAddrs)
  BY DEF WaitingTimers, At, ActiveAddrs
<1> QED
  BY <1>1, <1>2 DEF ExpiredTimers, UncalledTimers, StoppedTimers, At, StoppedAddrs

(* The same after a step. *)
LEMMA TimersByAddressNext ==
  /\ QueuedTimers' = At(AddAddrs(queue))' /\ WaitingTimers' = At(ActiveAddrs)'
  /\ ExpiredTimers' = At(expired)' /\ UncalledTimers' = At(notRun)'
  /\ StoppedTimers' = At(StoppedAddrs)'
<1>1. QueuedTimers' = At(AddAddrs(queue))'
  BY DEF QueuedTimers, At, AddAddrs
<1>2. WaitingTimers' = At(ActiveAddrs)'
  BY DEF WaitingTimers, At, ActiveAddrs
<1> QED
  BY <1>1, <1>2 DEF ExpiredTimers, UncalledTimers, StoppedTimers, At, StoppedAddrs

(* No address in use is free, and none is used in two ways. *)
LEMMA AddressesInUse ==
  ASSUME Inv
  PROVE  /\ AddAddrs(queue) \subseteq Addrs /\ ActiveAddrs \subseteq Addrs /\ expired \subseteq Addrs
         /\ notRun \subseteq expired /\ StoppedAddrs \subseteq expired
         /\ \A a \in AddAddrs(queue) \cup ActiveAddrs \cup expired :
              a \in Addrs /\ heap[a] # Free /\ heap[a].seq \in 1 .. created
         /\ \A a \in AddAddrs(queue) : a \notin ActiveAddrs /\ a \notin expired
         /\ \A a \in ActiveAddrs : a \notin expired /\ <<a, heap[a].seq>> \in active
<1>1. TypeOK /\ SetsAgree /\ QueuedAdds /\ LiveSeqs
  BY DEF Inv, SetsAgree
<1>2. \A i \in 1 .. Len(queue) : queue[i] \in QueueItem
  <2>1. queue \in Seq(QueueItem)
    BY <1>1 DEF TypeOK, QueueItem
  <2> QED
    BY <2>1
<1>3. AddAddrs(queue) \subseteq Addrs
  BY <1>2 DEF AddAddrs, QueueItem
<1>4. ActiveAddrs \subseteq Addrs /\ expired \subseteq Addrs /\ notRun \subseteq expired
      /\ StoppedAddrs \subseteq expired
  BY <1>1 DEF TypeOK, ActiveAddrs, StoppedAddrs
<1>5. \A a \in ActiveAddrs : heap[a] # Free /\ a \notin expired /\ <<a, heap[a].seq>> \in active
  <2> SUFFICES ASSUME NEW x \in active
               PROVE heap[x[1]] # Free /\ x[1] \notin expired /\ <<x[1], heap[x[1]].seq>> \in active
    BY DEF ActiveAddrs
  <2>1. x \in Addrs \X Seqs /\ heap[x[1]].seq = x[2] /\ x[2] > 0
    BY <1>1 DEF SetsAgree, TypeOK
  <2>2. heap[x[1]] # Free
    BY <2>1 DEF Free
  <2>3. x[1] \notin expired
    BY <1>1 DEF SetsAgree
  <2>4. <<x[1], heap[x[1]].seq>> = x
    BY <2>1
  <2> QED
    BY <2>2, <2>3, <2>4
<1>6. \A a \in expired : heap[a] # Free
  BY <1>1 DEF SetsAgree
<1>7. \A a \in AddAddrs(queue) : heap[a] # Free /\ a \notin ActiveAddrs /\ a \notin expired
  <2> SUFFICES ASSUME NEW i \in 1 .. Len(queue), queue[i].op = "add"
               PROVE  LET a == queue[i].id[1]
                      IN  heap[a] # Free /\ a \notin ActiveAddrs /\ a \notin expired
    BY DEF AddAddrs
  <2> QED
    BY <1>1 DEF QueuedAdds, ActiveAddrs
<1>8. \A a \in AddAddrs(queue) \cup ActiveAddrs \cup expired :
        a \in Addrs /\ heap[a] # Free /\ heap[a].seq \in 1 .. created
  BY <1>1, <1>3, <1>4, <1>5, <1>6, <1>7 DEF LiveSeqs
<1> QED
  BY <1>3, <1>4, <1>5, <1>7, <1>8

(* Two addresses in use hold different Timers, with different numbers. *)
LEMMA DifferentTimers ==
  ASSUME Inv, NEW a \in AddAddrs(queue) \cup ActiveAddrs \cup expired,
         NEW b \in AddAddrs(queue) \cup ActiveAddrs \cup expired,
         heap[a] = heap[b] \/ heap[a].seq = heap[b].seq
  PROVE  a = b
<1>1. a \in Addrs /\ b \in Addrs /\ heap[a] # Free
  BY AddressesInUse
<1>2. heap[a].seq = heap[b].seq
  OBVIOUS
<1> QED
  BY <1>1, <1>2 DEF Inv, LiveSeqs

(* Timers in place stay what they are. *)
LEMMA AtKeeps ==
  ASSUME NEW S, \A a \in S : heap'[a] = heap[a]
  PROVE  {heap'[a] : a \in S} = At(S)
BY DEF At

(* Leaving addresses out leaves their Timers out. *)
LEMMA AtWithout ==
  ASSUME Inv, NEW S \in SUBSET (AddAddrs(queue) \cup ActiveAddrs \cup expired),
         NEW R \in SUBSET (AddAddrs(queue) \cup ActiveAddrs \cup expired)
  PROVE  At(S \ R) = At(S) \ At(R)
<1>1. ASSUME NEW a \in S, heap[a] \in At(R) PROVE a \in R
  <2>1. PICK b \in R : heap[a] = heap[b]
    BY <1>1 DEF At
  <2>2. a = b
    BY <2>1, DifferentTimers
  <2> QED
    BY <2>2
<1> QED
  BY <1>1 DEF At

(* The functors that queueInLoop and the loop put in and take out. *)
LEMMA AddAddrsAppend ==
  ASSUME NEW q \in Seq(QueueItem), NEW x \in QueueItem
  PROVE  AddAddrs(Append(q, x)) =
           AddAddrs(q) \cup (IF x.op = "add" THEN {x.id[1]} ELSE {})
<1> DEFINE r == Append(q, x)
<1>1. /\ Len(q) \in Nat /\ Len(r) = Len(q) + 1 /\ r[Len(q) + 1] = x
      /\ \A i \in 1 .. Len(q) : r[i] = q[i]
  BY AppendItem
<1> HIDE DEF r
<1>2. \A i \in 1 .. Len(r) : i \in 1 .. Len(q) \/ i = Len(q) + 1
  BY <1>1
<1>3. \A i \in 1 .. Len(q) : i \in 1 .. Len(r)
  BY <1>1
<1>4. Len(q) + 1 \in 1 .. Len(r)
  BY <1>1
<1>5. AddAddrs(r) \subseteq AddAddrs(q) \cup (IF x.op = "add" THEN {x.id[1]} ELSE {})
  BY <1>1, <1>2 DEF AddAddrs
<1>6. AddAddrs(q) \subseteq AddAddrs(r)
  BY <1>1, <1>3 DEF AddAddrs
<1>7. x.op = "add" => x.id[1] \in AddAddrs(r)
  BY <1>1, <1>4 DEF AddAddrs
<1> QED
  BY <1>5, <1>6, <1>7 DEF r

(* The first functor is gone; a Timer is queued once. *)
LEMMA AddAddrsTail ==
  ASSUME Inv, queue # <<>>, queue' = Tail(queue)
  PROVE  /\ Head(queue).op = "add" => AddAddrs(queue') = AddAddrs(queue) \ {Head(queue).id[1]}
         /\ Head(queue).op = "add" => Head(queue).id[1] \in AddAddrs(queue)
         /\ Head(queue).op # "add" => AddAddrs(queue') = AddAddrs(queue)
<1>1. TypeOK /\ QueuedAdds
  BY DEF Inv, SetsAgree
<1>2. /\ Head(queue) = queue[1] /\ 1 \in 1 .. Len(queue)
      /\ \A i \in 1 .. Len(queue') : i + 1 \in 1 .. Len(queue) /\ queue'[i] = queue[i + 1]
      /\ \A i \in 1 .. Len(queue) :
           i = 1 \/ (i - 1 \in 1 .. Len(queue') /\ queue'[i - 1] = queue[i])
  BY <1>1, TailKeeps
<1>3. AddAddrs(queue') \subseteq AddAddrs(queue)
  BY <1>2 DEF AddAddrs
<1>4. ASSUME NEW a \in AddAddrs(queue), a \notin AddAddrs(queue')
      PROVE  queue[1].op = "add" /\ a = queue[1].id[1]
  <2>1. PICK i \in 1 .. Len(queue) : queue[i].op = "add" /\ queue[i].id[1] = a
    BY DEF AddAddrs
  <2>2. i = 1
    <3>1. ASSUME i - 1 \in 1 .. Len(queue'), queue'[i - 1] = queue[i] PROVE a \in AddAddrs(queue')
      BY <2>1, <3>1 DEF AddAddrs
    <3> QED
      BY <1>2, <1>4, <3>1
  <2> QED
    BY <2>1, <2>2
<1>5. ASSUME queue[1].op = "add", queue[1].id[1] \in AddAddrs(queue') PROVE FALSE
  <2>1. PICK i \in 1 .. Len(queue') : queue'[i].op = "add" /\ queue'[i].id[1] = queue[1].id[1]
    BY <1>5 DEF AddAddrs
  <2>2. i + 1 \in 1 .. Len(queue) /\ queue[i + 1].op = "add" /\ queue[i + 1].id[1] = queue[1].id[1]
    BY <1>2, <2>1
  <2>3. 1 = i + 1
    BY <1>1, <1>2, <1>5, <2>2 DEF QueuedAdds
  <2> QED
    BY <2>3
<1>6. queue[1].op = "add" => queue[1].id[1] \in AddAddrs(queue)
  BY <1>2 DEF AddAddrs
<1> QED
  BY <1>2, <1>3, <1>4, <1>5, <1>6

(* A new entry of activeTimers_ makes its address an active one. *)
LEMMA ActiveGrows ==
  ASSUME NEW a, NEW n, active' = active \cup {<<a, n>>}
  PROVE  ActiveAddrs' = ActiveAddrs \cup {a}
<1>1. <<a, n>>[1] = a /\ <<a, n>> \in active'
  OBVIOUS
<1>2. a \in ActiveAddrs'
  BY <1>1 DEF ActiveAddrs
<1>3. ActiveAddrs \subseteq ActiveAddrs'
  BY DEF ActiveAddrs
<1>4. ActiveAddrs' \subseteq ActiveAddrs \cup {a}
  BY DEF ActiveAddrs
<1> QED
  BY <1>2, <1>3, <1>4

(* Steps that leave all timers alone: the wall clock may change. *)
LEMMA QuietStep ==
  ASSUME UNCHANGED <<heap, created, active, canceling, expired, notRun, readAt, cancelled>>,
         AddAddrs(queue)' = AddAddrs(queue)
  PROVE  TS!Next
<1>1. QueuedTimers' = QueuedTimers
  BY TimersByAddress, TimersByAddressNext DEF At
<1>2. WaitingTimers' = WaitingTimers /\ ExpiredTimers' = ExpiredTimers
      /\ UncalledTimers' = UncalledTimers /\ StoppedTimers' = StoppedTimers
  BY DEF WaitingTimers, ExpiredTimers, UncalledTimers, StoppedTimers
<1> QED
  BY <1>1, <1>2 DEF TS!Next, TS!Clock

(* addTimer on the loop's thread, or on another, where the timer is queued. *)
LEMMA CreateStep ==
  ASSUME Inv, NEW a \in Addrs, NEW d \in Delays, NEW i \in Intervals, Allocate(a, d, i),
         UNCHANGED <<canceling, expired, notRun, readAt, clock, cancelled>>,
         \/ active' = active \cup {<<a, created + 1>>} /\ AddAddrs(queue)' = AddAddrs(queue)
         \/ active' = active /\ AddAddrs(queue)' = AddAddrs(queue) \cup {a}
  PROVE  TS!Next
<1>1. /\ heap'[a] = NewTimer(d, i) /\ created' = created + 1 /\ heap'[a].seq = created + 1
      /\ \A b \in Addrs : b # a => heap'[b] = heap[b]
      /\ a \notin expired
  BY AllocateFacts
<1>2. a \notin ActiveAddrs /\ a \notin AddAddrs(queue)
  <2>1. heap[a] = Free
    BY DEF Allocate
  <2> QED
    BY <2>1, AddressesInUse
<1>3. \A b \in AddAddrs(queue) \cup ActiveAddrs \cup expired : heap'[b] = heap[b]
  BY <1>1, <1>2, AddressesInUse
<1>4. /\ {heap'[b] : b \in AddAddrs(queue)} = QueuedTimers
      /\ {heap'[b] : b \in ActiveAddrs} = WaitingTimers
      /\ {heap'[b] : b \in expired} = ExpiredTimers
      /\ {heap'[b] : b \in notRun} = UncalledTimers
      /\ {heap'[b] : b \in StoppedAddrs} = StoppedTimers
  BY <1>3, AtKeeps, TimersByAddress, AddressesInUse
<1>5. ExpiredTimers' = ExpiredTimers /\ UncalledTimers' = UncalledTimers
  BY <1>4, TimersByAddressNext DEF At
<1>6. StoppedTimers' = StoppedTimers
  <2>1. StoppedAddrs' = StoppedAddrs
    BY <1>3 DEF StoppedAddrs
  <2> QED
    BY <1>4, <2>1, TimersByAddressNext DEF At
<1>7. heap'[a].exp >= Wall /\ heap'[a].interval >= 0
  <2>1. NewTimer(d, i).exp = Wall + d /\ NewTimer(d, i).interval = i
    BY DEF NewTimer
  <2>2. Wall \in Int
    BY TimerAssumption DEF Inv, SetsAgree, TypeOK, Wall
  <2>3. d \in Nat /\ i \in Nat
    BY TimerAssumption
  <2>4. Wall + d >= Wall /\ i >= 0
    BY <2>2, <2>3
  <2> QED
    BY <1>1, <2>1, <2>4
<1>8. Wall' = Wall
  BY DEF Wall, clock
<1>9. CASE active' = active \cup {<<a, created + 1>>} /\ AddAddrs(queue)' = AddAddrs(queue)
  <2>1. ActiveAddrs' = ActiveAddrs \cup {a}
    BY <1>9, ActiveGrows
  <2>2. WaitingTimers' = WaitingTimers \cup {heap'[a]}
    BY <1>4, <2>1, TimersByAddressNext DEF At
  <2>3. QueuedTimers' = QueuedTimers
    BY <1>4, <1>9, TimersByAddressNext DEF At
  <2>4. heap'[a] \in WaitingTimers' \cup QueuedTimers'
    BY <2>2
  <2>5. TS!Create
    BY <1>1, <1>5, <1>6, <1>7, <1>8, <2>2, <2>3, <2>4 DEF TS!Create
  <2> QED
    BY <2>5 DEF TS!Next
<1>10. CASE active' = active /\ AddAddrs(queue)' = AddAddrs(queue) \cup {a}
  <2>1. ActiveAddrs' = ActiveAddrs
    BY <1>10 DEF ActiveAddrs
  <2>2. WaitingTimers' = WaitingTimers
    BY <1>4, <2>1, TimersByAddressNext DEF At
  <2>3. QueuedTimers' = QueuedTimers \cup {heap'[a]}
    BY <1>4, <1>10, TimersByAddressNext DEF At
  <2>4. heap'[a] \in WaitingTimers' \cup QueuedTimers'
    BY <2>3
  <2>5. TS!Create
    BY <1>1, <1>5, <1>6, <1>7, <1>8, <2>2, <2>3, <2>4 DEF TS!Create
  <2> QED
    BY <2>5 DEF TS!Next
<1> QED
  BY <1>9, <1>10

(* addTimerInLoop of a timer from the queue starts it. *)
LEMMA StartStep ==
  ASSUME Inv, RunAdd
  PROVE  TS!Next
<1>1. PICK a : a = Head(queue).id[1]
  OBVIOUS
<1>2. /\ queue # <<>> /\ Head(queue).op = "add" /\ queue' = Tail(queue)
      /\ active' = active \cup {<<a, heap[a].seq>>}
      /\ UNCHANGED <<heap, created, canceling, expired, notRun, readAt, clock, cancelled>>
  BY <1>1 DEF RunAdd, AddInLoop
<1>3. AddAddrs(queue)' = AddAddrs(queue) \ {a} /\ a \in AddAddrs(queue)
  BY <1>1, <1>2, AddAddrsTail DEF AddAddrs
<1>4. QueuedTimers' = QueuedTimers \ {heap[a]}
  <2>1. At(AddAddrs(queue) \ {a}) = At(AddAddrs(queue)) \ At({a})
    BY <1>3, AtWithout
  <2>2. At({a}) = {heap[a]}
    BY DEF At
  <2>3. At(AddAddrs(queue))' = At(AddAddrs(queue) \ {a})
    BY <1>2, <1>3 DEF At
  <2> QED
    BY <2>1, <2>2, <2>3, TimersByAddress, TimersByAddressNext
<1>5. WaitingTimers' = WaitingTimers \cup {heap[a]}
  <2>1. ActiveAddrs' = ActiveAddrs \cup {a}
    BY <1>2, ActiveGrows
  <2> QED
    BY <1>2, <2>1, TimersByAddress, TimersByAddressNext DEF At
<1>6. ExpiredTimers' = ExpiredTimers /\ UncalledTimers' = UncalledTimers
      /\ StoppedTimers' = StoppedTimers /\ Wall' = Wall
  BY <1>2 DEF ExpiredTimers, UncalledTimers, StoppedTimers, Wall, clock
<1>7. heap[a] \in QueuedTimers
  BY <1>3, TimersByAddress DEF At
<1>8. TS!Start(heap[a])
  BY <1>2, <1>4, <1>5, <1>6 DEF TS!Start
<1> QED
  BY <1>7, <1>8 DEF TS!Next

(* cancelInLoop reaches the timer with the number in the TimerId, whatever  *)
(* is at the address by now.                                                *)
LEMMA CancelStep ==
  ASSUME Inv, NEW id \in Addrs \X Seqs, Known(id), CancelInLoop(id),
         UNCHANGED <<created, expired, notRun, readAt, clock>>,
         AddAddrs(queue)' = AddAddrs(queue)
  PROVE  TS!Next
<1>1. PICK c \in Addrs, n \in Seqs : id = <<c, n>> /\ c = id[1] /\ n = id[2]
  OBVIOUS
<1>2. n \in 0 .. created
  <2>1. created \in Seqs /\ n <= created
    BY <1>1 DEF Inv, SetsAgree, TypeOK, Known
  <2> QED
    BY <2>1 DEF Seqs
<1>3. \A b \in AddAddrs(queue) \cup ActiveAddrs \cup expired : heap[b].seq = n => b = c
  BY <1>1, AddressesInUse DEF Known
<1>4. CASE AddQueued(id)
  <2>1. c \in AddAddrs(queue) /\ cancelled' = cancelled
    BY <1>1, <1>4 DEF AddQueued, AddAddrs, CancelInLoop
  <2>2. c \notin ActiveAddrs /\ c \notin expired
    BY <2>1, AddressesInUse
  <2>3. id \notin active
    BY <1>1, <2>2 DEF ActiveAddrs
  <2>4. active' = active /\ heap' = heap
        /\ canceling' = (IF calling THEN canceling \cup {id} ELSE canceling)
    BY <2>3 DEF CancelInLoop, FindActive
  <2>5. StoppedAddrs' = StoppedAddrs
    BY <1>1, <2>2, <2>4 DEF StoppedAddrs
  <2>6. QueuedTimers' = QueuedTimers /\ StoppedTimers' = StoppedTimers
    BY <2>4, <2>5, TimersByAddress, TimersByAddressNext DEF At
  <2>7. ExpiredTimers' = ExpiredTimers /\ UncalledTimers' = UncalledTimers
        /\ WaitingTimers' = WaitingTimers
    BY <2>4 DEF ExpiredTimers, UncalledTimers, WaitingTimers
  <2> QED
    BY <2>1, <2>6, <2>7 DEF TS!Next, TS!Clock
<1>5. ASSUME ~AddQueued(id)
      PROVE  cancelled' = cancelled \cup {n} /\ \A t \in QueuedTimers : t.seq # n
  <2>1. cancelled' = cancelled \cup {n}
    BY <1>1, <1>5 DEF CancelInLoop
  <2>2. ASSUME NEW b \in AddAddrs(queue), heap[b].seq = n PROVE FALSE
    <3>1. PICK i \in 1 .. Len(queue) : queue[i].op = "add" /\ queue[i].id[1] = b
      BY DEF AddAddrs
    <3>2. b = c
      BY <1>3, <2>2
    <3>3. queue[i] \in QueueItem
      <4>1. queue \in Seq(QueueItem)
        BY DEF Inv, SetsAgree, TypeOK, QueueItem
      <4> QED
        BY <3>1, <4>1
    <3>4. heap[b].seq = queue[i].id[2]
      BY <3>1 DEF Inv, QueuedAdds
    <3>5. queue[i] = [op |-> "add", id |-> id]
      BY <1>1, <2>2, <3>1, <3>2, <3>3, <3>4 DEF QueueItem
    <3> QED
      BY <1>5, <3>5 DEF AddQueued
  <2> QED
    BY <2>1, <2>2, TimersByAddress DEF At
<1>6. CASE ~AddQueued(id) /\ id \in active
  <2>1. /\ active' = active \ {id} /\ heap' = [heap EXCEPT ![c] = Free] /\ canceling' = canceling
    BY <1>1, <1>6 DEF CancelInLoop, FindActive
  <2>2. c \in ActiveAddrs /\ heap[c].seq = n
    BY <1>1, <1>6 DEF ActiveAddrs, Inv, SetsAgree
  <2>3. c \notin AddAddrs(queue) /\ c \notin expired
    BY <2>2, AddressesInUse
  <2>4. \A b \in Addrs : b # c => heap'[b] = heap[b]
    BY <2>1 DEF Inv, SetsAgree, TypeOK
  <2>5. ActiveAddrs' = ActiveAddrs \ {c}
    <3>1. ASSUME NEW x \in active, x[1] = c PROVE x = id
      <4>1. x \in Addrs \X Seqs /\ heap[x[1]].seq = x[2]
        BY DEF Inv, SetsAgree, TypeOK
      <4> QED
        BY <1>1, <2>2, <3>1, <4>1
    <3> QED
      BY <1>1, <2>1, <3>1 DEF ActiveAddrs
  <2>6. \A b \in AddAddrs(queue) \cup (ActiveAddrs \ {c}) \cup expired : heap'[b] = heap[b]
    BY <2>3, <2>4, AddressesInUse
  <2>7. /\ {heap'[b] : b \in AddAddrs(queue)} = QueuedTimers
        /\ {heap'[b] : b \in expired} = ExpiredTimers
        /\ {heap'[b] : b \in notRun} = UncalledTimers
        /\ {heap'[b] : b \in StoppedAddrs} = StoppedTimers
        /\ {heap'[b] : b \in ActiveAddrs \ {c}} = At(ActiveAddrs \ {c})
    BY <2>6, AtKeeps, TimersByAddress, AddressesInUse
  <2>8. /\ QueuedTimers' = QueuedTimers /\ ExpiredTimers' = ExpiredTimers
        /\ UncalledTimers' = UncalledTimers /\ WaitingTimers' = At(ActiveAddrs \ {c})
    BY <2>5, <2>7, TimersByAddressNext DEF At
  <2>9. StoppedTimers' = StoppedTimers
    <3>1. StoppedAddrs' = StoppedAddrs
      BY <2>1, <2>6 DEF StoppedAddrs
    <3> QED
      BY <2>7, <3>1, TimersByAddressNext DEF At
  <2>10. At(ActiveAddrs \ {c}) = {t \in WaitingTimers : t.seq # n}
    BY <1>3, <2>2, TimersByAddress DEF At
  <2>11. {t \in ExpiredTimers : t.seq = n} = {}
    BY <1>3, <2>3, TimersByAddress DEF At
  <2>12. Wall' = Wall
    BY DEF Wall, clock
  <2>13. TS!Cancel(n)
    BY <1>5, <1>6, <2>8, <2>9, <2>10, <2>11, <2>12 DEF TS!Cancel
  <2> QED
    BY <1>2, <2>13 DEF TS!Next
<1>7. CASE ~AddQueued(id) /\ id \notin active
  <2>1. /\ active' = active /\ heap' = heap
        /\ canceling' = (IF calling THEN canceling \cup {id} ELSE canceling)
    BY <1>7 DEF CancelInLoop, FindActive
  <2>2. /\ QueuedTimers' = QueuedTimers /\ ExpiredTimers' = ExpiredTimers
        /\ UncalledTimers' = UncalledTimers /\ WaitingTimers' = WaitingTimers
    <3>1. QueuedTimers' = QueuedTimers
      BY <2>1, TimersByAddress, TimersByAddressNext DEF At
    <3> QED
      BY <2>1, <3>1 DEF ExpiredTimers, UncalledTimers, WaitingTimers
  <2>3. WaitingTimers = {t \in WaitingTimers : t.seq # n}
    <3>1. ASSUME NEW b \in ActiveAddrs PROVE heap[b].seq # n
      <4>1. <<b, heap[b].seq>> \in active
        BY AddressesInUse
      <4> QED
        BY <1>1, <1>3, <1>7, <4>1
    <3> QED
      BY <3>1, TimersByAddress DEF At
  <2>4. StoppedAddrs' = StoppedAddrs \cup {b \in expired : heap[b].seq = n}
    <3>1. \A b \in expired : <<b, heap[b].seq>> = id <=> heap[b].seq = n
      BY <1>1, <1>3
    <3>2. CASE calling
      BY <2>1, <3>1, <3>2 DEF StoppedAddrs
    <3>3. CASE ~calling
      <4>1. expired = {}
        BY <3>3 DEF Inv, ExpiredWhenCalling
      <4> QED
        BY <4>1 DEF StoppedAddrs
    <3> QED
      BY <3>2, <3>3
  <2>5. StoppedTimers' = StoppedTimers \cup {t \in ExpiredTimers : t.seq = n}
    BY <2>1, <2>4, TimersByAddress, TimersByAddressNext DEF At
  <2>6. Wall' = Wall
    BY DEF Wall, clock
  <2>7. TS!Cancel(n)
    BY <1>5, <1>7, <2>2, <2>3, <2>5, <2>6 DEF TS!Cancel
  <2> QED
    BY <1>2, <2>7 DEF TS!Next
<1> QED
  BY <1>4, <1>6, <1>7

(* handleRead takes out the timers that are due, all of them and no other. *)
LEMMA ExpireStep ==
  ASSUME Inv, HandleRead
  PROVE  TS!Next
<1>1. PICK due : due = {e \in timers : IsExpired(e)}
  OBVIOUS
<1>2. PICK D : D = {e[2] : e \in due}
  OBVIOUS
<1>3. /\ ~calling /\ readAt' = Wall /\ expired' = D /\ active' = {x \in active : x[1] \notin D}
      /\ notRun' = D /\ canceling' = {}
      /\ UNCHANGED <<heap, created, clock, calls, cancelled>>
  BY <1>1, <1>2 DEF HandleRead, ActiveWithout
<1>4. D = {a \in ActiveAddrs : heap[a].exp <= Wall}
  <2>1. timers = {<<heap[x[1]].exp, x[1]>> : x \in active}
    BY DEF Inv, SetsAgree
  <2>2. ASSUME NEW a \in D PROVE a \in ActiveAddrs /\ heap[a].exp <= Wall
    <3>1. PICK e \in timers : e[1] <= Wall /\ a = e[2]
      BY <1>1, <1>2 DEF IsExpired
    <3>2. PICK x \in active : e = <<heap[x[1]].exp, x[1]>>
      BY <2>1
    <3> QED
      BY <3>1, <3>2 DEF ActiveAddrs
  <2>3. ASSUME NEW a \in ActiveAddrs, heap[a].exp <= Wall PROVE a \in D
    <3>1. PICK x \in active : a = x[1]
      BY DEF ActiveAddrs
    <3>2. <<heap[a].exp, a>> \in timers
      BY <2>1, <3>1
    <3>3. <<heap[a].exp, a>> \in due
      BY <1>1, <2>3, <3>2 DEF IsExpired
    <3>4. <<heap[a].exp, a>>[2] = a
      OBVIOUS
    <3> QED
      BY <1>2, <3>3, <3>4
  <2> QED
    BY <2>2, <2>3
<1>5. ExpiredTimers = {} /\ ExpiredTimers' = At(D) /\ UncalledTimers' = At(D)
      /\ StoppedTimers' = {} /\ QueuedTimers' = QueuedTimers
  <2>1. expired = {}
    BY <1>3 DEF Inv, ExpiredWhenCalling
  <2> QED
    BY <1>3, <2>1
    DEF ExpiredTimers, UncalledTimers, StoppedTimers, QueuedTimers, At, calls
<1>6. At(D) = {t \in WaitingTimers : t.exp <= Wall}
  BY <1>4, TimersByAddress DEF At
<1>7. WaitingTimers' = WaitingTimers \ At(D)
  <2>1. ActiveAddrs' = ActiveAddrs \ D
    BY <1>3 DEF ActiveAddrs
  <2>2. At(ActiveAddrs \ D) = At(ActiveAddrs) \ At(D)
    BY <1>4, AtWithout
  <2>3. At(ActiveAddrs)' = At(ActiveAddrs \ D)
    BY <1>3, <2>1 DEF At
  <2> QED
    BY <2>2, <2>3, TimersByAddress, TimersByAddressNext
<1>8. Wall' = Wall
  BY <1>3 DEF Wall, clock
<1>9. TS!Expire
  BY <1>3, <1>5, <1>6, <1>7, <1>8 DEF TS!Expire
<1> QED
  BY <1>9 DEF TS!Next

(* The callbacks run in order. *)
LEMMA FireStep ==
  ASSUME Inv, NEW a \in Addrs, RunTimer(a)
  PROVE  TS!Next
<1>1. /\ a \in notRun /\ notRun' = notRun \ {a}
      /\ \A b \in notRun : heap[a].exp <= heap[b].exp
      /\ UNCHANGED <<heap, created, active, canceling, expired, readAt, clock, calls,
                     cancelled>>
  BY DEF RunTimer
<1>2. UncalledTimers' = UncalledTimers \ {heap[a]}
  <2>1. At(notRun \ {a}) = At(notRun) \ At({a})
    BY <1>1, AtWithout, AddressesInUse
  <2>2. At({a}) = {heap[a]}
    BY DEF At
  <2>3. At(notRun)' = At(notRun \ {a})
    BY <1>1 DEF At
  <2> QED
    BY <2>1, <2>2, <2>3, TimersByAddress, TimersByAddressNext
<1>3. heap[a] \in UncalledTimers /\ \A u \in UncalledTimers : heap[a].exp <= u.exp
  BY <1>1 DEF UncalledTimers
<1>4. QueuedTimers' = QueuedTimers /\ WaitingTimers' = WaitingTimers
      /\ ExpiredTimers' = ExpiredTimers /\ StoppedTimers' = StoppedTimers /\ Wall' = Wall
  BY <1>1 DEF QueuedTimers, WaitingTimers, ExpiredTimers, StoppedTimers, Wall, calls, clock
<1>5. TS!Fire(heap[a])
  BY <1>1, <1>2, <1>3, <1>4 DEF TS!Fire
<1> QED
  BY <1>3, <1>5 DEF TS!Next

(* reset starts the timers that repeat and were not cancelled, and no other. *)
LEMMA FinishStep ==
  ASSUME Inv, Reset
  PROVE  TS!Next
<1>1. PICK K : K = {a \in expired : Keeps(a)}
  OBVIOUS
<1>2. /\ notRun = {} /\ expired' = {} /\ notRun' = notRun
      /\ active' = active \cup {<<a, heap[a].seq>> : a \in K}
      /\ heap' = [a \in Addrs |-> IF a \in K THEN Restart(a)
                                  ELSE IF a \in expired THEN Free ELSE heap[a]]
      /\ UNCHANGED <<created, canceling, readAt, clock, calls, cancelled>>
  BY <1>1 DEF Reset
<1>3. K \subseteq expired /\ K \subseteq Addrs
  BY <1>1, AddressesInUse
<1>4. \A b \in AddAddrs(queue) \cup ActiveAddrs : heap'[b] = heap[b]
  BY <1>2, <1>3, AddressesInUse
<1>5. \A b \in K : heap'[b] = Restart(b)
  BY <1>2, <1>3
<1>6. UncalledTimers = {} /\ UncalledTimers' = {} /\ ExpiredTimers' = {} /\ StoppedTimers' = {}
      /\ Wall' = Wall
  BY <1>2 DEF UncalledTimers, ExpiredTimers, StoppedTimers, Wall, clock
<1>7. QueuedTimers' = QueuedTimers
  <2>1. {heap'[b] : b \in AddAddrs(queue)} = At(AddAddrs(queue))
    BY <1>4, AtKeeps
  <2>2. AddAddrs(queue)' = AddAddrs(queue)
    BY <1>2 DEF AddAddrs, calls
  <2> QED
    BY <2>1, <2>2, TimersByAddress, TimersByAddressNext DEF At
<1>8. WaitingTimers' = WaitingTimers \cup {Restart(b) : b \in K}
  <2>1. ActiveAddrs' = ActiveAddrs \cup K
    <3>1. \A x \in active' : x \in active \/ \E b \in K : x = <<b, heap[b].seq>>
      BY <1>2
    <3>2. ActiveAddrs' \subseteq ActiveAddrs \cup K
      BY <3>1 DEF ActiveAddrs
    <3>3. ASSUME NEW b \in K PROVE b \in ActiveAddrs'
      <4>1. <<b, heap[b].seq>> \in active' /\ <<b, heap[b].seq>>[1] = b
        BY <1>2
      <4> QED
        BY <4>1 DEF ActiveAddrs
    <3>4. ActiveAddrs \subseteq ActiveAddrs'
      BY <1>2 DEF ActiveAddrs
    <3> QED
      BY <3>2, <3>3, <3>4
  <2>2. {heap'[b] : b \in ActiveAddrs} = At(ActiveAddrs)
    BY <1>4, AtKeeps
  <2>3. {heap'[b] : b \in K} = {Restart(b) : b \in K}
    BY <1>5
  <2>4. At(ActiveAddrs)' = {heap'[b] : b \in ActiveAddrs} \cup {heap'[b] : b \in K}
    BY <2>1 DEF At
  <2> QED
    BY <2>2, <2>3, <2>4, TimersByAddress, TimersByAddressNext
<1>9. {u \in ExpiredTimers \ StoppedTimers : u.interval > 0} = At(K)
  <2>1. At(expired \ StoppedAddrs) = At(expired) \ At(StoppedAddrs)
    BY AtWithout, AddressesInUse
  <2>2. K = {a \in expired \ StoppedAddrs : heap[a].interval > 0}
    BY <1>1 DEF Keeps, StoppedAddrs
  <2>3. At(K) = {u \in At(expired \ StoppedAddrs) : u.interval > 0}
    BY <2>2 DEF At
  <2> QED
    BY <2>1, <2>3, TimersByAddress
<1>10. {Restart(b) : b \in K} = {[t EXCEPT !.exp = readAt + t.interval] : t \in At(K)}
  BY DEF Restart, At
<1>11. TS!Finish
  BY <1>2, <1>6, <1>7, <1>8, <1>9, <1>10 DEF TS!Finish
<1> QED
  BY <1>11 DEF TS!Next

(* Every step of TimerQueue is one of TimerService, or none. *)
LEMMA ServiceStep ==
  ASSUME Inv, [Next]_vars
  PROVE  [TS!Next]_(TS!vars)
<1>0. TypeOK /\ queue \in Seq(QueueItem)
  BY DEF Inv, SetsAgree, TypeOK, QueueItem
<1>1. ASSUME NEW a \in Addrs, NEW d \in Delays, NEW i \in Intervals, AddTimer(a, d, i)
      PROVE  TS!Next
  <2>1. /\ Allocate(a, d, i) /\ active' = active \cup {<<a, created + 1>>}
        /\ UNCHANGED <<canceling, expired, notRun, readAt, clock, calls, cancelled>>
    BY <1>1 DEF AddTimer, AddInLoop, NewTimer
  <2>2. AddAddrs(queue)' = AddAddrs(queue)
    BY <2>1 DEF AddAddrs, calls
  <2> QED
    BY <2>1, <2>2, CreateStep
<1>2. ASSUME NEW id \in ids, Cancel(id) PROVE TS!Next
  <2>1. id \in Addrs \X Seqs /\ Known(id)
    BY <1>0 DEF Inv, IdsKnown, TypeOK
  <2>2. CancelInLoop(id) /\ UNCHANGED <<created, expired, notRun, readAt, clock, calls>>
    BY <1>2 DEF Cancel
  <2>3. AddAddrs(queue)' = AddAddrs(queue)
    BY <2>2 DEF AddAddrs, calls
  <2> QED
    BY <2>1, <2>2, <2>3, CancelStep
<1>3. ASSUME NEW id \in ids, RemoteCancel(id) PROVE TS!Next
  <2>1. PICK x : x = [op |-> "cancel", id |-> id]
    OBVIOUS
  <2>2. x \in QueueItem /\ x.op = "cancel"
    BY <1>0, <2>1 DEF TypeOK, QueueItem
  <2>3. queue' = Append(queue, x)
        /\ UNCHANGED <<heap, created, active, canceling, expired, notRun, readAt, cancelled>>
    BY <1>3, <2>1 DEF RemoteCancel
  <2>4. AddAddrs(queue)' = AddAddrs(queue)
    BY <1>0, <2>2, <2>3, AddAddrsAppend DEF AddAddrs
  <2> QED
    BY <2>3, <2>4, QuietStep
<1>4. ASSUME NEW t \in Threads, NEW a \in Addrs, NEW d \in Delays, NEW i \in Intervals,
             RemoteAdd(t, a, d, i)
      PROVE  TS!Next
  <2>1. PICK x : x = [op |-> "add", id |-> <<a, created + 1>>]
    OBVIOUS
  <2>2. /\ Allocate(a, d, i) /\ queue' = Append(queue, x) /\ active' = active
        /\ UNCHANGED <<canceling, expired, notRun, readAt, clock, cancelled>>
    BY <1>4, <2>1 DEF RemoteAdd
  <2>3. created + 1 \in Seqs
    BY <2>2, AllocateFacts
  <2>4. x \in QueueItem /\ x.op = "add" /\ x.id[1] = a
    BY <2>1, <2>3 DEF QueueItem
  <2>5. AddAddrs(queue') = AddAddrs(queue) \cup {a}
    BY <1>0, <2>2, <2>4, AddAddrsAppend
  <2>6. AddAddrs(queue)' = AddAddrs(queue) \cup {a}
    BY <2>5 DEF AddAddrs
  <2> QED
    BY <2>2, <2>6, CreateStep
<1>5. ASSUME NEW t \in Threads, RemoteReturns(t) PROVE TS!Next
  <2>1. UNCHANGED <<heap, created, active, canceling, expired, notRun, readAt, queue, cancelled>>
    BY <1>5 DEF RemoteReturns
  <2>2. AddAddrs(queue)' = AddAddrs(queue)
    BY <2>1 DEF AddAddrs
  <2> QED
    BY <2>1, <2>2, QuietStep
<1>6. ASSUME Tick \/ \E s \in Skews : SetClock(s) PROVE TS!Next
  <2>1. UNCHANGED <<heap, created, active, canceling, expired, notRun, readAt, queue, cancelled>>
    BY <1>6 DEF Tick, SetClock, calls
  <2>2. AddAddrs(queue)' = AddAddrs(queue)
    BY <2>1 DEF AddAddrs
  <2> QED
    BY <2>1, <2>2, QuietStep
<1>7. CASE RunCancel
  <2>1. /\ queue # <<>> /\ Head(queue).op = "cancel" /\ queue' = Tail(queue)
        /\ CancelInLoop(Head(queue).id)
        /\ UNCHANGED <<created, expired, notRun, readAt, clock>>
    BY <1>7 DEF RunCancel
  <2>2. Head(queue).id \in Addrs \X Seqs /\ Known(Head(queue).id)
    <3>1. Head(queue) = queue[1] /\ 1 \in 1 .. Len(queue) /\ Head(queue) \in QueueItem
      BY <1>0, <2>1, TailKeeps
    <3> QED
      BY <3>1 DEF Inv, IdsKnown, QueueItem
  <2>3. AddAddrs(queue)' = AddAddrs(queue)
    BY <2>1, AddAddrsTail DEF AddAddrs
  <2> QED
    BY <2>1, <2>2, <2>3, CancelStep
<1>8. CASE RunAdd
  BY <1>8, StartStep
<1>9. CASE LoopStep
  BY <1>9, ExpireStep, FireStep, FinishStep DEF LoopStep
<1>10. CASE UNCHANGED vars
  <2>1. UNCHANGED <<heap, created, active, canceling, expired, notRun, readAt, queue, cancelled>>
    BY <1>10 DEF vars, calls
  <2>2. AddAddrs(queue)' = AddAddrs(queue)
    BY <2>1 DEF AddAddrs
  <2> QED
    BY <2>1, <2>2, QuietStep
<1> QED
  BY <1>1, <1>2, <1>3, <1>4, <1>5, <1>6, <1>7, <1>8, <1>9, <1>10, Zenon
  DEF Next, UserCode, RemoteCode

(* TimerQueue.cc, for any heap, threads, delays, intervals and clock:       *)
(* addTimer, cancel, handleRead and reset implement timers known by their   *)
(* numbers, although they find them by their addresses.                     *)
THEOREM QueueIsTimerService == Spec => ImplementsTimerService
<1>1. Init => TS!Init
  BY DEF Init, TS!Init, QueuedTimers, WaitingTimers, ExpiredTimers, UncalledTimers,
         StoppedTimers, Wall
<1>2. Inv /\ [Next]_vars => [TS!Next]_(TS!vars)
  BY ServiceStep
<1> QED
  BY <1>1, <1>2, InvHolds, PTL DEF Spec, ImplementsTimerService, TS!Spec
==============================================================================
