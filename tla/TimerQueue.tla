----------------------------- MODULE TimerQueue ------------------------------
(***************************************************************************)
(* The timers of a loop (net/TimerQueue.cc, net/Timer.cc): the sets timers_ *)
(* and activeTimers_ over Timer objects on the heap, and the timerfd that    *)
(* is armed for the earliest of them.  A TimerId is the address of a Timer  *)
(* with its sequence number; addresses are used again after delete.         *)
(*                                                                         *)
(* Expirations are wall-clock times, the timerfd counts monotonic time: the *)
(* wall clock is now + skew and may be set.  A unit of time is long against *)
(* the 100us that howMuchTimeFromNow waits at least.  Calls from threads    *)
(* that do not own the loop go through its task queue.                      *)
(***************************************************************************)
EXTENDS Integers, Sequences, FiniteSets

CONSTANTS Addrs,      \* heap addresses of Timers
          Threads,    \* threads that add timers and do not own the loop
          Delays,     \* what the user adds to the time to get an expiration
          Intervals,  \* intervals of timers, 0 for a timer that fires once
          Skews,      \* how far the wall clock may be off
          MaxTimers,  \* bound: Timers created
          MaxTime,    \* bound: monotonic time
          MaxQueue    \* bound: functors in the loop's queue

ASSUME TimerAssumption ==
  /\ Addrs # {} /\ Delays \subseteq Nat /\ Intervals \subseteq Nat
  /\ Skews \subseteq Int /\ 0 \in Skews
  /\ \A s \in Skews : 1 + s > 0     \* every wall-clock time is after the epoch
  /\ MaxTimers \in Nat /\ MaxTime \in Nat \ {0} /\ MaxQueue \in Nat

VARIABLES
  heap,       \* per address, the Timer there or Free
  created,    \* Timer::s_numCreated_
  timers,     \* timers_: pairs <<expiration, address>>
  active,     \* activeTimers_: pairs <<address, sequence>>
  canceling,  \* cancelingTimers_
  calling,    \* callingExpiredTimers_ (up to the end of handleRead)
  expired,    \* the addresses handleRead found expired
  notRun,     \* those of them whose callback has not been called
  readAt,     \* the wall-clock time handleRead started with
  armed,      \* monotonic time the timerfd is armed for, or Never
  now, skew,  \* monotonic time, wall clock minus it
  queue,      \* add and cancel functors in the loop's queue
  adder,      \* per thread, the addTimer call it is in
  ids,        \* TimerIds that addTimer returned
  fired,      \* sequence numbers whose callback ran
  cancelled,  \* sequence numbers handed to cancelInLoop after addTimerInLoop
  wrongId     \* some addTimer returned a TimerId that is not its timer's

clock == <<now, skew>>
calls == <<queue, adder, wrongId>>
vars == <<heap, created, timers, active, canceling, calling, expired, notRun,
          readAt, armed, clock, calls, ids, fired, cancelled>>

Free == [seq |-> 0, exp |-> 0, interval |-> 0]
Never == -1
Wall == now + skew
NoCall == [addr |-> CHOOSE a \in Addrs : TRUE, seq |-> 0]

Init ==
  /\ heap = [a \in Addrs |-> Free] /\ created = 0
  /\ timers = {} /\ active = {} /\ canceling = {}
  /\ calling = FALSE /\ expired = {} /\ notRun = {} /\ readAt = 0
  /\ armed = Never /\ now = 1 /\ skew = 0
  /\ queue = <<>> /\ adder = [t \in Threads |-> NoCall] /\ wrongId = FALSE
  /\ ids = {} /\ fired = {} /\ cancelled = {}

-----------------------------------------------------------------------------
(* Pieces of the operations, as functions of the state they find.           *)

Earliest(ts) == CHOOSE x \in {e[1] : e \in ts} : \A e \in ts : x <= e[1]

(* resetTimerfd: howMuchTimeFromNow, never negative. *)
Deadline(exp) == now + (IF exp > Wall THEN exp - Wall ELSE 0)

(* insert's result *)
EarliestChanged(ts, exp) == ts = {} \/ exp < Earliest(ts)

(* addTimerInLoop of the Timer tm at a *)
AddInLoop(a, tm) ==
  /\ armed' = IF EarliestChanged(timers, tm.exp) THEN Deadline(tm.exp) ELSE armed
  /\ timers' = timers \cup {<<tm.exp, a>>}
  /\ active' = active \cup {<<a, tm.seq>>}

(* Mutant: a Timer is recognised by its address alone. *)
FindActiveByAddress(id) == {x \in active : x[1] = id[1]}

(* activeTimers_.find in cancelInLoop *)
FindActive(id) == active \cap {id}

(* The timer was created but the loop has not got to addTimerInLoop yet. *)
AddQueued(id) == \E i \in 1 .. Len(queue) : queue[i] = [op |-> "add", id |-> id]

(* cancelInLoop: deletes a waiting timer, or notes it for reset. *)
CancelInLoop(id) ==
  /\ cancelled' = IF AddQueued(id) THEN cancelled ELSE cancelled \cup {id[2]}
  /\ \/ /\ FindActive(id) # {}
        /\ timers' = timers \ {<<heap[id[1]].exp, id[1]>>}
        /\ active' = active \ FindActive(id)
        /\ heap' = [heap EXCEPT ![id[1]] = Free]
        /\ UNCHANGED canceling
     \/ /\ FindActive(id) = {}
        /\ canceling' = IF calling THEN canceling \cup {id} ELSE canceling
        /\ UNCHANGED <<timers, active, heap>>

(* Timer::Timer *)
NewTimer(d, i) == [seq |-> created + 1, exp |-> Wall + d, interval |-> i]

(* new Timer: any free address. *)
Allocate(a, d, i) ==
  /\ created < MaxTimers /\ heap[a] = Free
  /\ heap' = [heap EXCEPT ![a] = NewTimer(d, i)]
  /\ created' = created + 1

-----------------------------------------------------------------------------
(* User code on the loop's thread: a callback of a timer (while calling) or *)
(* anything else the loop runs; addTimer and cancel take effect at once.    *)

MayCall == calling => notRun # expired

AddTimer(a, d, i) ==
  /\ MayCall
  /\ Allocate(a, d, i)
  /\ AddInLoop(a, NewTimer(d, i))
  /\ ids' = ids \cup {<<a, created + 1>>}
  /\ UNCHANGED <<canceling, calling, expired, notRun, readAt, clock, calls, fired,
                 cancelled>>

Cancel(id) ==
  /\ MayCall /\ id \in ids
  /\ CancelInLoop(id)
  /\ UNCHANGED <<created, calling, expired, notRun, readAt, armed, clock, calls,
                 ids, fired>>

-----------------------------------------------------------------------------
(* Other threads: runInLoop queues addTimerInLoop or cancelInLoop.          *)

(* addTimer creates the Timer and hands it to the loop ... *)
RemoteAdd(t, a, d, i) ==
  /\ adder[t] = NoCall /\ Len(queue) < MaxQueue
  /\ Allocate(a, d, i)
  /\ queue' = Append(queue, [op |-> "add", id |-> <<a, created + 1>>])
  /\ adder' = [adder EXCEPT ![t] = [addr |-> a, seq |-> created + 1]]
  /\ UNCHANGED <<timers, active, canceling, calling, expired, notRun, readAt,
                 armed, clock, wrongId, ids, fired, cancelled>>

(* ... and then reads its sequence number for the TimerId it returns; freed *)
(* memory may hold anything.                                                *)
RemoteReturns(t) ==
  /\ adder[t] # NoCall
  /\ LET a == adder[t].addr IN
     /\ ids' = ids \cup {<<a, heap[a].seq>>}
     /\ wrongId' = (wrongId \/ heap[a].seq # adder[t].seq)
  /\ adder' = [adder EXCEPT ![t] = NoCall]
  /\ UNCHANGED <<heap, created, timers, active, canceling, calling, expired, notRun,
                 readAt, armed, clock, queue, fired, cancelled>>

RemoteCancel(id) ==
  /\ id \in ids /\ Len(queue) < MaxQueue
  /\ queue' = Append(queue, [op |-> "cancel", id |-> id])
  /\ UNCHANGED <<heap, created, timers, active, canceling, calling, expired, notRun,
                 readAt, armed, clock, adder, wrongId, ids, fired, cancelled>>

RunAdd ==
  /\ ~calling /\ queue # <<>> /\ Head(queue).op = "add"
  /\ AddInLoop(Head(queue).id[1], heap[Head(queue).id[1]])
  /\ queue' = Tail(queue)
  /\ UNCHANGED <<heap, created, canceling, calling, expired, notRun, readAt, clock,
                 adder, wrongId, ids, fired, cancelled>>

RunCancel ==
  /\ ~calling /\ queue # <<>> /\ Head(queue).op = "cancel"
  /\ CancelInLoop(Head(queue).id)
  /\ queue' = Tail(queue)
  /\ UNCHANGED <<created, calling, expired, notRun, readAt, armed, clock, adder,
                 wrongId, ids, fired>>

-----------------------------------------------------------------------------
(* The timerfd is readable: handleRead.                                     *)

(* getExpired: up to and including now. *)
IsExpired(e) == e[1] <= Wall

(* Mutant: the expired timers stay in activeTimers_. *)
ActiveWithoutNone(addrs) == active

(* The second half of getExpired. *)
ActiveWithout(addrs) == {x \in active : x[1] \notin addrs}

(* handleRead up to the callbacks: read the timerfd, take the expired out. *)
HandleRead ==
  /\ ~calling /\ armed # Never /\ armed <= now
  /\ armed' = Never /\ readAt' = Wall
  /\ LET due == {e \in timers : IsExpired(e)} IN
     /\ expired' = {e[2] : e \in due}
     /\ timers' = timers \ due
     /\ active' = ActiveWithout({e[2] : e \in due})
  /\ notRun' = expired'
  /\ calling' = TRUE /\ canceling' = {}
  /\ UNCHANGED <<heap, created, clock, calls, ids, fired, cancelled>>

(* The next callback, in the order of timers_. *)
RunTimer(a) ==
  /\ calling /\ a \in notRun
  /\ \A b \in notRun : heap[a].exp <= heap[b].exp
  /\ notRun' = notRun \ {a}
  /\ fired' = fired \cup {heap[a].seq}
  /\ UNCHANGED <<heap, created, timers, active, canceling, calling, expired, readAt,
                 armed, clock, calls, ids, cancelled>>

(* Mutant: timers cancelled by a callback are started again. *)
KeepsUncancelled(a) == heap[a].interval > 0

(* A repeating timer goes on unless a callback cancelled it. *)
Keeps(a) == heap[a].interval > 0 /\ <<a, heap[a].seq>> \notin canceling

(* Mutant: the next expiration counts from the last one, not from now. *)
RestartFromLast(a) == [heap[a] EXCEPT !.exp = heap[a].exp + heap[a].interval]

(* Timer::restart; only a repeating timer gets here. *)
Restart(a) == [heap[a] EXCEPT !.exp = readAt + heap[a].interval]

(* Mutant: the timerfd is not armed again. *)
RearmNothing(ts) == armed

(* nextExpire in reset, 0 for the invalid Timestamp it starts as. *)
NextExpire(ts) == IF ts = {} THEN 0 ELSE Earliest(ts)

(* The end of reset: arm for the earliest timer, if nextExpire is valid(). *)
Rearm(ts) == IF NextExpire(ts) > 0 THEN Deadline(NextExpire(ts)) ELSE armed

(* The end of handleRead: reset. *)
Reset ==
  /\ calling /\ notRun = {}
  /\ LET kept == {a \in expired : Keeps(a)} IN
     /\ heap' = [a \in Addrs |-> IF a \in kept THEN Restart(a)
                                 ELSE IF a \in expired THEN Free ELSE heap[a]]
     /\ timers' = timers \cup {<<Restart(a).exp, a>> : a \in kept}
     /\ active' = active \cup {<<a, heap[a].seq>> : a \in kept}
  /\ armed' = Rearm(timers')
  /\ calling' = FALSE /\ expired' = {}
  /\ UNCHANGED <<created, canceling, notRun, readAt, clock, calls, ids, fired,
                 cancelled>>

-----------------------------------------------------------------------------
Tick ==
  /\ now < MaxTime
  /\ now' = now + 1
  /\ UNCHANGED <<heap, created, timers, active, canceling, calling, expired, notRun,
                 readAt, armed, skew, calls, ids, fired, cancelled>>

SetClock(s) ==
  /\ s # skew
  /\ skew' = s
  /\ UNCHANGED <<heap, created, timers, active, canceling, calling, expired, notRun,
                 readAt, armed, now, calls, ids, fired, cancelled>>

UserCode ==
  \/ \E a \in Addrs, d \in Delays, i \in Intervals : AddTimer(a, d, i)
  \/ \E id \in ids : Cancel(id) \/ RemoteCancel(id)

RemoteCode ==
  \E t \in Threads, a \in Addrs, d \in Delays, i \in Intervals : RemoteAdd(t, a, d, i)

LoopStep == HandleRead \/ (\E a \in Addrs : RunTimer(a)) \/ Reset

Next ==
  \/ UserCode \/ RemoteCode \/ (\E t \in Threads : RemoteReturns(t))
  \/ RunAdd \/ RunCancel \/ LoopStep
  \/ Tick \/ \E s \in Skews : SetClock(s)

Spec == Init /\ [][Next]_vars

(* Time goes on and the loop dispatches the timerfd and its functors, as    *)
(* EventsHandled and QueuedRuns of EventLoop say; the wall clock need not   *)
(* be right and nobody has to call anything.                                *)
FairSpec ==
  Spec /\ WF_vars(Tick) /\ WF_vars(LoopStep) /\ SF_vars(RunAdd) /\ SF_vars(RunCancel)

-----------------------------------------------------------------------------
(* Properties.                                                              *)

Seqs == 0 .. MaxTimers

(* Every variable has the type its C++ counterpart has. *)
TypeOK ==
  /\ heap \in [Addrs -> [seq : Seqs, exp : Nat, interval : Intervals \cup {0}]]
  /\ created \in Seqs
  /\ timers \subseteq Nat \X Addrs
  /\ active \subseteq Addrs \X (Seqs \ {0}) /\ canceling \subseteq Addrs \X Seqs
  /\ calling \in BOOLEAN /\ wrongId \in BOOLEAN
  /\ expired \subseteq Addrs /\ notRun \subseteq expired
  /\ armed \in Nat \cup {Never} /\ now \in 1 .. MaxTime /\ skew \in Skews
  /\ queue \in Seq([op : {"add", "cancel"}, id : Addrs \X Seqs])
  /\ adder \in [Threads -> [addr : Addrs, seq : Seqs]]
  /\ ids \subseteq Addrs \X Seqs
  /\ fired \subseteq Seqs /\ cancelled \subseteq Seqs

(* timers_ and activeTimers_ hold the same Timers, each once, and neither   *)
(* they nor the expired ones being called point to a deleted Timer, however *)
(* callbacks add and cancel timers while handleRead walks through them.     *)
(* (Checked with it: the types.)                                            *)
SetsAgree ==
  /\ TypeOK
  /\ timers = {<<heap[x[1]].exp, x[1]>> : x \in active}
  /\ \A x \in active : heap[x[1]].seq = x[2] /\ x[2] > 0
  /\ \A a \in expired : heap[a] # Free /\ \A x \in active : x[1] # a

(* Whenever a timer waits, the timerfd is armed, and for no later than the  *)
(* earliest timer is due by one of the settings of the wall clock (or for a *)
(* time that has come): a late callback is the clock's doing.               *)
TimerfdArmed ==
  ~calling /\ timers # {} =>
    /\ armed # Never
    /\ armed <= now \/ \E s \in Skews : armed <= Earliest(timers) - s

(* A timer that was cancelled does not wait any more, also when a callback  *)
(* of the round it expired in cancelled it and it repeats.  (A cancel on    *)
(* the loop's thread can overtake an addTimer another thread has queued;    *)
(* that cancel is lost and not counted here.)                               *)
CancelHolds == \A x \in active : x[2] \notin cancelled

(* A timer that waits gets its callback unless it is itself cancelled: the  *)
(* cancellation of an older timer at the same address does not reach it,    *)
(* and setting the wall clock does not lose it.                             *)
TimersFire ==
  \A a \in Addrs, s \in Seqs :
    (<<a, s>> \in active /\ heap[a].exp < MaxTime) ~> (s \in fired \cup cancelled)

(* The timers of TimerService, in terms of the heap. *)
QueuedTimers == {heap[queue[i].id[1]] : i \in {j \in 1 .. Len(queue) : queue[j].op = "add"}}
WaitingTimers == {heap[x[1]] : x \in active}
ExpiredTimers == {heap[a] : a \in expired}
UncalledTimers == {heap[a] : a \in notRun}
StoppedTimers == {heap[a] : a \in {b \in expired : <<b, heap[b].seq>> \in canceling}}

TS == INSTANCE TimerService WITH
        coming <- QueuedTimers, waiting <- WaitingTimers, round <- ExpiredTimers,
        toCall <- UncalledTimers, stopped <- StoppedTimers, began <- readAt, wall <- Wall

(* Addresses do not matter: whatever is deleted and allocated again, and    *)
(* whoever adds and cancels while handleRead walks through the expired      *)
(* timers, each timer is started once, expires no earlier than it is due,   *)
(* runs once in a round and in order, repeats exactly when it has an        *)
(* interval and was not cancelled, and a cancel reaches its timer only.     *)
ImplementsTimerService == TS!Spec

(* TimerQueue.h:22-23 says that addTimer must be thread-safe: the TimerId   *)
(* it returns is the one of the timer it added.                             *)
TimerIdIsRight == ~wrongId
==============================================================================
