-------------------------- MODULE LoginServerProofs --------------------------
(* Proofs about LoginServer, for any number of threads and clients, any      *)
(* scripts, users and times to live.                                         *)
EXTENDS LoginServer, TLAPS, FiniteSetTheorems, SequenceTheorems, WellFoundedInduction

-----------------------------------------------------------------------------
(* The inductive invariant, component by component.                         *)

(* EventLoopThreadPool: the loops_ of the pool are those of its first        *)
(* threads, a published loop is constructed, and the threads after the       *)
(* current one do not exist yet.                                             *)
PoolOK ==
  /\ numThreads_ \in {0, MaxThreads}
  /\ main \in {"start", "latch", "cond", "serving"} /\ asleep \in {"no", "latch", "cond"}
  /\ thread \in [Threads -> {"none", "born", "counted", "built", "published", "looping"}]
  /\ count \in [Threads -> 0 .. 1] /\ loop_ \in [Threads -> Threads \cup {Null}]
  /\ loops_ \in Seq(Threads) /\ Len(loops_) <= numThreads_
  /\ \A i \in 1 .. Len(loops_) : loops_[i] = i /\ thread[i] \in {"published", "looping"}
  /\ \A i \in Threads : loop_[i] # Null => loop_[i] = i /\ thread[i] \in {"published", "looping"}
  /\ \A i \in Threads : thread[i] \in {"none", "born"} => count[i] = 1
  /\ \A i \in Threads : i > Len(loops_) + 1 => thread[i] = "none"
  /\ main = "start" => \A i \in Threads : i > Len(loops_) => thread[i] = "none"
  /\ main \in {"latch", "cond"} => Len(loops_) < numThreads_
  /\ main = "serving" => Len(loops_) = numThreads_

(* The clients whose connections use a descriptor. *)
OpenClients == {c \in Clients : client[c] = "open"}

(* Acceptor: the backlog holds each pending client once, a connection has a  *)
(* loop of the pool, and no descriptor is lost.                              *)
AcceptOK ==
  /\ client \in [Clients -> {"new", "pending", "open", "closed"}]
  /\ backlog \in Seq(Clients) /\ free \in Nat /\ inRoot \in BOOLEAN
  /\ idleFd_ \in BOOLEAN /\ emfile \in BOOLEAN /\ (emfile => ~idleFd_)
  /\ next_ \in Nat /\ (next_ = 0 \/ next_ < Len(loops_))
  /\ \A i \in 1 .. Len(backlog) :
       /\ client[backlog[i]] = "pending"
       /\ \A j \in 1 .. Len(backlog) : backlog[i] = backlog[j] => i = j
  /\ main # "serving" => \A c \in Clients : client[c] = "new"
  /\ loopOf \in [Clients -> Loops \cup {Null}]
  /\ \A c \in Clients : client[c] = "open" =>
       IF numThreads_ = 0 THEN loopOf[c] = baseLoop ELSE loopOf[c] \in 1 .. Len(loops_)
  /\ free + Cardinality(OpenClients) + (IF idleFd_ THEN 1 ELSE 0) = FreeAtStart + 1

(* TokenManager: a dead token is in no session and was given. *)
TokensOK ==
  /\ now \in 0 .. MaxTime /\ issued \in Nat
  /\ DOMAIN sessions_ \subseteq 1 .. issued /\ dead \subseteq 1 .. issued
  /\ DOMAIN sessions_ \cap dead = {}
  /\ \A t \in DOMAIN sessions_ : sessions_[t].expireAt \in Int

(* RtmpTicketManager: a ticket in the table says what was asked for it and   *)
(* was never found expired.                                                  *)
TicketsOK ==
  /\ minted \in Seq([key : Keys, permission : Permissions])
  /\ spent \subseteq 1 .. Len(minted)
  /\ \A t \in DOMAIN tickets_ :
       /\ t \in 1 .. Len(minted) /\ t \notin spent
       /\ tickets_[t].streamKey = minted[t].key /\ tickets_[t].expireAt \in Int
       /\ tickets_[t].allowPublish = (minted[t].permission \in {"publish", "both"})
       /\ tickets_[t].allowPlay = (minted[t].permission \in {"play", "both"})
  /\ admission # Refused => admission.ticket \in 1 .. Len(minted)
  /\ TicketsSound

(* The states of HttpContext. *)
States == {"kExpectRequestLine", "kExpectHeaders", "kExpectBody", "kGotAll"}

(* The parts of requests. *)
PartsOf == [n : Nat, expected : States \ {"kGotAll"}, ok : BOOLEAN, after : States]

(* The answers. *)
Statuses == {"ok", "badRequest", "error", "unauthorized", "notFound"}

(* What TCP has for the server from a client, handled parts excepted. *)
Stream(c) == buf[c] \o wire[c]

(* The shape of the variables of HttpServer. *)
HttpTypes ==
  /\ asked \in [Clients -> Seq(BOOLEAN)]
  /\ wire \in [Clients -> Seq(PartsOf)] /\ buf \in [Clients -> Seq(PartsOf)]
  /\ state_ \in [Clients -> States] /\ current_ \in [Clients -> Nat]
  /\ answers \in [Clients -> Seq([n : Nat, status : Statuses])]
  /\ closing \in [Clients -> BOOLEAN] /\ busy \in [Loops -> Clients \cup {Nobody}]

(* A loop that is busy is busy with the one connection whose request is      *)
(* complete and not answered.                                                *)
BusyOf(c) ==
  /\ client[c] \in {"new", "pending"} => state_[c] # "kGotAll"
  /\ client[c] = "open" /\ state_[c] = "kGotAll" => busy[loopOf[c]] = c
  /\ \A l \in Loops : busy[l] = c =>
       client[c] = "open" /\ state_[c] = "kGotAll" /\ loopOf[c] = l

(* The numbers of requests are those of requests sent, a request flagged in  *)
(* asked has a dead token, and neither an answer "ok" nor a ticket that is   *)
(* being made is for one of those.                                           *)
AskedOf(c) ==
  /\ \A i \in 1 .. Len(Stream(c)) : Stream(c)[i].n \in 1 .. Len(asked[c])
  /\ state_[c] = "kGotAll" => current_[c] \in 1 .. Len(asked[c])
  /\ \A n \in 1 .. Len(asked[c]) : asked[c][n] => script[c][n].token \in dead
  /\ \A i \in 1 .. Len(answers[c]) :
       /\ answers[c][i].n \in 1 .. Len(asked[c])
       /\ answers[c][i].status = "ok"
            /\ script[c][answers[c][i].n].what \in {"me", "logout", "ticket"} =>
          ~asked[c][answers[c][i].n]
  /\ \A l \in Loops : busy[l] = c =>
       /\ ~asked[c][current_[c]]
       /\ script[c][current_[c]].key \in Keys
       /\ script[c][current_[c]].permission \in Permissions

(* How many requests were answered or are being answered. *)
Done(c) == Len(answers[c]) + (IF state_[c] = "kGotAll" THEN 1 ELSE 0)

(* The parts s of requests in order: after the last part of a request comes  *)
(* the next request.                                                         *)
Ordered(s) ==
  /\ \A i, j \in 1 .. Len(s) : i < j => s[i].n <= s[j].n
  /\ \A i \in 1 .. Len(s) - 1 :
       s[i + 1].n = s[i].n + (IF s[i].after = "kGotAll" THEN 1 ELSE 0)

(* What is left of the requests is in order and starts after the last one    *)
(* that was answered or is being answered.                                   *)
InOrder(c) ==
  /\ Ordered(Stream(c))
  /\ Stream(c) # <<>> =>
       /\ Stream(c)[1].n = Done(c) + 1
       /\ Stream(c)[Len(Stream(c))].n = Len(asked[c])
       /\ Stream(c)[Len(Stream(c))].after = "kGotAll"
  /\ Stream(c) = <<>> => Done(c) = Len(asked[c])
  /\ state_[c] = "kGotAll" => current_[c] = Done(c)

(* The state of one connection. *)
ClientOK(c) ==
  /\ BusyOf(c) /\ AskedOf(c)
  /\ client[c] # "closed" /\ ~closing[c] => InOrder(c)
  /\ \A i \in 1 .. Len(answers[c]) : answers[c][i].n = i

(* The inductive invariant. *)
Inv ==
  /\ PoolOK /\ AcceptOK /\ TokensOK /\ TicketsOK /\ HttpTypes
  /\ \A c \in Clients : ClientOK(c)

-----------------------------------------------------------------------------
(* The thread pool.                                                         *)

(* Before start() there are no threads. *)
LEMMA PoolInitOK == PoolInit => PoolOK
<1> SUFFICES ASSUME PoolInit PROVE PoolOK
  OBVIOUS
<1>1. loops_ \in Seq(Threads) /\ Len(loops_) = 0 /\ Len(loops_) <= numThreads_
  BY MaxThreadsAssumption DEF PoolInit
<1>2. count \in [Threads -> 0 .. 1] /\ \A i \in Threads : count[i] = 1 /\ thread[i] = "none"
  BY DEF PoolInit
<1>3. \A i \in Threads : loop_[i] = Null
  BY DEF PoolInit
<1> QED
  BY <1>1, <1>2, <1>3 DEF PoolInit, PoolOK

(* startLoop appends the address of the loop of the current thread. *)
LEMMA AppendLoop ==
  ASSUME NEW s \in Seq(Threads), NEW x \in Threads
  PROVE  /\ Append(s, x) \in Seq(Threads) /\ Len(Append(s, x)) = Len(s) + 1 /\ Len(s) \in Nat
         /\ \A i \in 1 .. Len(s) : Append(s, x)[i] = s[i]
         /\ Append(s, x)[Len(s) + 1] = x
OBVIOUS

(* EventLoopThreadPool::start, Thread, CountDownLatch and EventLoopThread    *)
(* keep PoolOK.                                                              *)
LEMMA PoolNextOK == ASSUME PoolOK, PoolNext PROVE PoolOK'
<1> USE DEF PoolOK
<1>1. /\ Len(loops_) \in Nat /\ numThreads_ \in Nat /\ MaxThreads \in Nat
      /\ numThreads_ <= MaxThreads
      /\ \A i : i \in Threads <=> i \in Nat /\ 1 <= i /\ i <= MaxThreads
  BY MaxThreadsAssumption DEF Threads
<1>2. CASE StartThread
  <2>1. current \in Threads /\ current = Len(loops_) + 1
    <3>1. current <= numThreads_
      BY <1>2 DEF StartThread
    <3> QED
      BY ONLY <1>1, <3>1 DEF current
  <2>2. thread[current] = "none" /\ count[current] = 1
    BY <1>1, <1>2, <2>1 DEF StartThread
  <2>3. /\ thread' \in [Threads -> {"none", "born", "counted", "built", "published", "looping"}]
        /\ thread'[current] = "born" /\ \A i \in Threads : i # current => thread'[i] = thread[i]
    BY <1>2, <2>1 DEF StartThread
  <2>4. \A i \in 1 .. Len(loops_) : i \in Threads /\ i # current
    BY <1>1, <2>1
  <2>5. loop_[current] = Null
    BY <2>1, <2>2
  <2> QED
    BY <1>1, <1>2, <2>1, <2>2, <2>3, <2>4, <2>5 DEF StartThread
<1>3. CASE LatchWait
  BY <1>3 DEF LatchWait
<1>4. CASE LoopWait
  <2>1. CASE Published(current)
    <3>1. current \in Threads /\ current = Len(loops_) + 1 /\ Len(loops_) < numThreads_
      <4>1. Len(loops_) < numThreads_
        BY <1>4 DEF LoopWait
      <4> QED
        BY ONLY <1>1, <4>1 DEF current
    <3>2. loop_[current] = current /\ thread[current] \in {"published", "looping"}
      BY <2>1, <3>1 DEF Published
    <3>3. loops_' = Append(loops_, current) /\ main' = "start" /\ asleep' = asleep
      BY <1>4, <2>1, <3>2 DEF LoopWait
    <3>4. /\ loops_' \in Seq(Threads) /\ Len(loops_') = Len(loops_) + 1
          /\ \A i \in 1 .. Len(loops_) : loops_'[i] = loops_[i]
          /\ loops_'[Len(loops_) + 1] = current
      BY <3>1, <3>3, AppendLoop
    <3>5. \A i \in 1 .. Len(loops_') : loops_'[i] = i /\ thread[i] \in {"published", "looping"}
      <4> SUFFICES ASSUME NEW i \in 1 .. Len(loops_')
                   PROVE  loops_'[i] = i /\ thread[i] \in {"published", "looping"}
        OBVIOUS
      <4>1. i \in 1 .. Len(loops_) \/ i = Len(loops_) + 1
        BY ONLY <1>1, <3>4, i \in 1 .. Len(loops_')
      <4>2. CASE i \in 1 .. Len(loops_)
        BY <3>4, <4>2
      <4>3. CASE i = Len(loops_) + 1
        BY <3>1, <3>2, <3>4, <4>3
      <4> QED
        BY <4>1, <4>2, <4>3
    <3>6. \A i \in Threads : i > Len(loops_') => thread[i] = "none"
      BY <1>1, <3>4
    <3> QED
      BY <1>1, <1>4, <3>1, <3>3, <3>4, <3>5, <3>6 DEF LoopWait
  <2>2. CASE ~Published(current)
    BY <1>4, <2>2 DEF LoopWait
  <2> QED
    BY <2>1, <2>2
<1>5. CASE Listen
  BY <1>1, <1>5 DEF Listen, current
<1>6. CASE SpuriousWakeup
  BY <1>6 DEF SpuriousWakeup
<1>7. ASSUME NEW i \in Threads, CountDown(i) PROVE PoolOK'
  <2>1. asleep' \in {"no", "latch", "cond"}
    BY <1>7 DEF CountDown, Notified
  <2>2. count[i] = 1 /\ count' \in [Threads -> 0 .. 1] /\ \A j \in Threads : j # i => count'[j] = count[j]
    BY <1>7 DEF CountDown
  <2>3. /\ thread' \in [Threads -> {"none", "born", "counted", "built", "published", "looping"}]
        /\ thread'[i] = "counted" /\ \A j \in Threads : j # i => thread'[j] = thread[j]
    BY <1>7 DEF CountDown
  <2>4. \A j \in 1 .. Len(loops_) : j \in Threads
    BY <1>1
  <2> QED
    BY <1>1, <1>7, <2>1, <2>2, <2>3, <2>4 DEF CountDown
<1>8. ASSUME NEW i \in Threads, BuildLoop(i) PROVE PoolOK'
  <2>1. /\ thread' \in [Threads -> {"none", "born", "counted", "built", "published", "looping"}]
        /\ thread'[i] = "built" /\ \A j \in Threads : j # i => thread'[j] = thread[j]
    BY <1>8 DEF BuildLoop
  <2>2. \A j \in 1 .. Len(loops_) : j \in Threads
    BY <1>1
  <2> QED
    BY <1>1, <1>8, <2>1, <2>2 DEF BuildLoop
<1>9. ASSUME NEW i \in Threads, Publish(i) PROVE PoolOK'
  <2>1. asleep' \in {"no", "latch", "cond"}
    BY <1>9 DEF Publish, Notified
  <2>2. /\ thread' \in [Threads -> {"none", "born", "counted", "built", "published", "looping"}]
        /\ thread'[i] = "published" /\ \A j \in Threads : j # i => thread'[j] = thread[j]
    BY <1>9 DEF Publish
  <2>3. /\ loop_' \in [Threads -> Threads \cup {Null}]
        /\ loop_'[i] = i /\ \A j \in Threads : j # i => loop_'[j] = loop_[j]
    BY <1>9 DEF Publish
  <2>4. \A j \in 1 .. Len(loops_) : j \in Threads
    BY <1>1
  <2> QED
    BY <1>1, <1>9, <2>1, <2>2, <2>3, <2>4 DEF Publish
<1>10. ASSUME NEW i \in Threads, EnterLoop(i) PROVE PoolOK'
  <2>1. /\ thread' \in [Threads -> {"none", "born", "counted", "built", "published", "looping"}]
        /\ thread[i] = "published" /\ thread'[i] = "looping"
        /\ \A j \in Threads : j # i => thread'[j] = thread[j]
    BY <1>10 DEF EnterLoop
  <2>2. \A j \in 1 .. Len(loops_) : j \in Threads
    BY <1>1
  <2> QED
    BY <1>1, <1>10, <2>1, <2>2 DEF EnterLoop
<1> QED
  BY <1>2, <1>3, <1>4, <1>5, <1>6, <1>7, <1>8, <1>9, <1>10 DEF PoolNext, PoolMain, PoolThread

-----------------------------------------------------------------------------
(* The acceptor.                                                            *)

(* The listening socket starts with all descriptors free but the reserve. *)
LEMMA AcceptInitOK == AcceptInit /\ PoolInit => AcceptOK
<1> SUFFICES ASSUME AcceptInit, PoolInit PROVE AcceptOK
  OBVIOUS
<1>1. OpenClients = {}
  BY DEF AcceptInit, OpenClients
<1>2. Cardinality(OpenClients) = 0
  BY <1>1, FS_EmptySet
<1>3. client \in [Clients -> {"new", "pending", "open", "closed"}] /\ \A c \in Clients : client[c] = "new"
  BY DEF AcceptInit
<1>4. backlog \in Seq(Clients) /\ Len(backlog) = 0
  BY DEF AcceptInit
<1>5. loopOf \in [Clients -> Loops \cup {Null}]
  BY DEF AcceptInit
<1>6. free + Cardinality(OpenClients) + (IF idleFd_ THEN 1 ELSE 0) = FreeAtStart + 1
  BY <1>2, FreeAssumption DEF AcceptInit
<1>7. \A i \in 1 .. Len(backlog) : FALSE
  BY <1>4
<1>8. /\ next_ = 0 /\ inRoot \in BOOLEAN /\ idleFd_ \in BOOLEAN /\ emfile = FALSE /\ free \in Nat
  BY FreeAssumption DEF AcceptInit
<1> QED
  BY <1>3, <1>4, <1>5, <1>6, <1>7, <1>8 DEF AcceptOK

(* The pool moves only while nobody is connected, and loops_ only grows. *)
LEMMA PoolKeepsAccept ==
  ASSUME PoolOK, AcceptOK, PoolNext, UNCHANGED acceptVars
  PROVE  AcceptOK'
<1>1. Len(loops_) \in Nat /\ loops_ \in Seq(Threads)
  BY DEF PoolOK
<1>2. main # "serving" \/ main' = "serving"
  BY DEF PoolOK, PoolNext, PoolMain, PoolThread, StartThread, LatchWait, LoopWait, Listen,
         SpuriousWakeup, CountDown, BuildLoop, Publish, EnterLoop
<1>3. PoolOK'
  BY PoolNextOK
<1>4. numThreads_' = numThreads_ /\ (main = "serving" => loops_' = loops_)
  BY DEF PoolNext, PoolMain, PoolThread, StartThread, LatchWait, LoopWait, Listen,
         SpuriousWakeup, CountDown, BuildLoop, Publish, EnterLoop
<1>5. Len(loops_') >= Len(loops_)
  <2>1. CASE LoopWait /\ Published(current)
    <3>1. loop_[current] \in Threads
      <4>1. current \in Threads
        BY <1>1, <2>1, MaxThreadsAssumption DEF LoopWait, current, PoolOK, Threads
      <4> QED
        BY <2>1, <4>1 DEF PoolOK, Published
    <3> QED
      BY <1>1, <2>1, <3>1, AppendLoop DEF LoopWait
  <2>2. CASE ~(LoopWait /\ Published(current))
    <3>1. loops_' = loops_
      BY <2>2 DEF PoolNext, PoolMain, PoolThread, StartThread, LatchWait, LoopWait, Listen,
                  SpuriousWakeup, CountDown, BuildLoop, Publish, EnterLoop
    <3> QED
      BY <1>1, <3>1
  <2> QED
    BY <2>1, <2>2
<1>6. UNCHANGED <<client, backlog, free, idleFd_, emfile, inRoot, loopOf, next_, OpenClients>>
  BY DEF acceptVars, OpenClients
<1>7. next_' \in Nat /\ (next_' = 0 \/ next_' < Len(loops_'))
  <2>1. Len(loops_') \in Nat
    BY <1>3 DEF PoolOK
  <2> QED
    BY <1>1, <1>5, <1>6, <2>1 DEF AcceptOK
<1>8. main' # "serving" => \A c \in Clients : client'[c] = "new"
  BY <1>2, <1>6 DEF AcceptOK
<1>9. \A c \in Clients : client'[c] = "open" =>
       IF numThreads_' = 0 THEN loopOf'[c] = baseLoop ELSE loopOf'[c] \in 1 .. Len(loops_')
  BY <1>4, <1>6 DEF AcceptOK
<1>10. free' + Cardinality(OpenClients') + (IF idleFd_' THEN 1 ELSE 0) = FreeAtStart + 1
  BY <1>6 DEF AcceptOK
<1> HIDE DEF OpenClients
<1> QED
  BY <1>6, <1>7, <1>8, <1>9, <1>10 DEF AcceptOK

(* A client goes from one state to another: the open ones change by it. *)
LEMMA OpenClientsFinite ==
  ASSUME AcceptOK
  PROVE  IsFiniteSet(OpenClients) /\ Cardinality(OpenClients) \in Nat
BY ClientsAssumption, FS_Subset, FS_CardinalityType DEF OpenClients

(* A client connects. *)
LEMMA ConnectKeepsAccept ==
  ASSUME AcceptOK, NEW c \in Clients, Connect(c), UNCHANGED poolVars
  PROVE  AcceptOK'
<1> USE DEF AcceptOK
<1>1. /\ client' \in [Clients -> {"new", "pending", "open", "closed"}]
      /\ client'[c] = "pending" /\ \A d \in Clients : d # c => client'[d] = client[d]
      /\ client[c] = "new"
  BY DEF Connect
<1>2. OpenClients' = OpenClients
  BY <1>1 DEF OpenClients
<1>3. /\ backlog' \in Seq(Clients) /\ Len(backlog') = Len(backlog) + 1 /\ Len(backlog) \in Nat
      /\ \A i \in 1 .. Len(backlog) : backlog'[i] = backlog[i] /\ backlog[i] \in Clients
      /\ backlog'[Len(backlog) + 1] = c
  BY DEF Connect
<1>4. \A i \in 1 .. Len(backlog) : backlog[i] # c
  BY <1>1
<1>5. \A i \in 1 .. Len(backlog') :
       /\ client'[backlog'[i]] = "pending"
       /\ \A j \in 1 .. Len(backlog') : backlog'[i] = backlog'[j] => i = j
  <2>1. \A i \in 1 .. Len(backlog') : i \in 1 .. Len(backlog) \/ i = Len(backlog) + 1
    BY <1>3
  <2> QED
    BY <1>1, <1>3, <1>4, <2>1
<1>6. free' + Cardinality(OpenClients') + (IF idleFd_' THEN 1 ELSE 0) = FreeAtStart + 1
  BY <1>2 DEF Connect
<1>7. UNCHANGED <<free, idleFd_, emfile, inRoot, loopOf, next_, numThreads_, main, loops_>> /\ main = "serving"
  BY DEF Connect, poolVars
<1> HIDE DEF OpenClients
<1> QED
  BY <1>1, <1>3, <1>5, <1>6, <1>7

(* getNextLoop gives a loop of the pool, and the next index stays in range. *)
LEMMA NextLoopRuns ==
  ASSUME PoolOK, AcceptOK, main = "serving"
  PROVE  /\ IF numThreads_ = 0 THEN getNextLoop(next_) = baseLoop
                               ELSE getNextLoop(next_) \in 1 .. Len(loops_)
         /\ getNextLoop(next_) \in Loops
         /\ nextAfter(next_) \in Nat /\ (nextAfter(next_) = 0 \/ nextAfter(next_) < Len(loops_))
<1>1. loops_ \in Seq(Threads) /\ Len(loops_) = numThreads_ /\ next_ \in Nat
      /\ (next_ = 0 \/ next_ < Len(loops_)) /\ Len(loops_) \in Nat
      /\ \A i \in 1 .. Len(loops_) : loops_[i] = i
  BY DEF PoolOK, AcceptOK
<1>2. CASE numThreads_ = 0
  <2>1. loops_ = <<>>
    BY <1>1, <1>2
  <2> QED
    BY <1>1, <1>2, <2>1 DEF getNextLoop, nextAfter, Loops
<1>3. CASE numThreads_ # 0
  <2>1. loops_ # <<>> /\ next_ + 1 \in 1 .. Len(loops_)
    BY <1>1, <1>3
  <2>2. getNextLoop(next_) = next_ + 1 /\ getNextLoop(next_) \in Threads
    BY <1>1, <2>1 DEF getNextLoop
  <2> QED
    BY <1>1, <1>3, <2>1, <2>2 DEF nextAfter, Loops
<1> QED
  BY <1>2, <1>3

(* accept and newConnection, or the way out of EMFILE. *)
LEMMA HandleReadKeepsAccept ==
  ASSUME PoolOK, AcceptOK, handleRead, UNCHANGED poolVars
  PROVE  AcceptOK'
<1>1. UNCHANGED <<numThreads_, main, loops_>>
  BY DEF poolVars
<1>2. IsFiniteSet(OpenClients) /\ Cardinality(OpenClients) \in Nat
  BY OpenClientsFinite
<1>3. CASE main = "serving" /\ backlog # <<>> /\ free > 0 /\ NewConnection
  <2> DEFINE c == Head(backlog)
  <2>1. /\ c \in Clients /\ client[c] = "pending"
        /\ backlog' \in Seq(Clients) /\ Len(backlog') = Len(backlog) - 1
        /\ Len(backlog) \in Nat /\ Len(backlog) > 0 /\ c = backlog[1]
        /\ \A i \in 1 .. Len(backlog') : backlog'[i] = backlog[i + 1]
    BY <1>1, <1>3 DEF NewConnection, AcceptOK
  <2>2. client' = [client EXCEPT ![c] = "open"] /\ free' = free - 1 /\ next_' = nextAfter(next_)
        /\ loopOf' = [loopOf EXCEPT ![c] = getNextLoop(next_)] /\ UNCHANGED <<idleFd_, emfile, inRoot>>
    BY <1>3 DEF NewConnection
  <2> HIDE DEF c
  <2>3. /\ client' \in [Clients -> {"new", "pending", "open", "closed"}]
        /\ client'[c] = "open" /\ \A d \in Clients : d # c => client'[d] = client[d]
    BY <2>1, <2>2 DEF AcceptOK
  <2>4. OpenClients' = OpenClients \cup {c} /\ c \notin OpenClients
    BY <2>1, <2>3 DEF OpenClients
  <2>5. Cardinality(OpenClients') = Cardinality(OpenClients) + 1
    BY <1>2, <2>4, FS_AddElement
  <2>6. free' \in Nat /\ free' + Cardinality(OpenClients') + (IF idleFd_' THEN 1 ELSE 0) = FreeAtStart + 1
    BY <1>2, <1>3, <2>2, <2>5, FreeAssumption DEF AcceptOK
  <2>7. \A i \in 1 .. Len(backlog') :
         /\ client'[backlog'[i]] = "pending"
         /\ \A j \in 1 .. Len(backlog') : backlog'[i] = backlog'[j] => i = j
    <3> SUFFICES ASSUME NEW i \in 1 .. Len(backlog')
                 PROVE  /\ client'[backlog'[i]] = "pending"
                        /\ \A j \in 1 .. Len(backlog') : backlog'[i] = backlog'[j] => i = j
      OBVIOUS
    <3>1. i + 1 \in 1 .. Len(backlog) /\ i + 1 # 1 /\ 1 \in 1 .. Len(backlog)
      BY <2>1
    <3>2. backlog[i + 1] # c /\ client[backlog[i + 1]] = "pending" /\ backlog[i + 1] \in Clients
      BY <2>1, <3>1 DEF AcceptOK
    <3>3. ASSUME NEW j \in 1 .. Len(backlog'), backlog'[i] = backlog'[j] PROVE i = j
      <4>1. j + 1 \in 1 .. Len(backlog) /\ backlog[i + 1] = backlog[j + 1]
        <5>1. j + 1 \in 1 .. Len(backlog)
          BY ONLY <2>1, j \in 1 .. Len(backlog')
        <5>2. backlog'[i] = backlog[i + 1] /\ backlog'[j] = backlog[j + 1]
          BY <2>1
        <5> QED
          BY <3>3, <5>1, <5>2
      <4>2. i + 1 = j + 1
        BY <3>1, <4>1 DEF AcceptOK
      <4> QED
        BY <4>2
    <3> QED
      BY <2>1, <2>3, <3>2, <3>3
  <2>8. next_' \in Nat /\ (next_' = 0 \/ next_' < Len(loops_'))
    BY <1>1, <1>3, <2>2, NextLoopRuns
  <2>9. /\ loopOf' \in [Clients -> Loops \cup {Null}]
        /\ \A d \in Clients : client'[d] = "open" =>
             IF numThreads_' = 0 THEN loopOf'[d] = baseLoop ELSE loopOf'[d] \in 1 .. Len(loops_')
    <3>1. loopOf' \in [Clients -> Loops \cup {Null}]
      BY <1>1, <1>3, <2>1, <2>2, NextLoopRuns DEF AcceptOK
    <3>2. loopOf'[c] = getNextLoop(next_) /\ \A d \in Clients : d # c => loopOf'[d] = loopOf[d]
      BY <2>1, <2>2 DEF AcceptOK
    <3>3. IF numThreads_ = 0 THEN loopOf'[c] = baseLoop ELSE loopOf'[c] \in 1 .. Len(loops_)
      BY <1>1, <1>3, <3>2, NextLoopRuns
    <3> QED
      BY <1>1, <2>3, <3>1, <3>2, <3>3 DEF AcceptOK
  <2> HIDE DEF OpenClients
  <2> QED
    BY <1>1, <2>1, <2>2, <2>3, <2>6, <2>7, <2>8, <2>9 DEF AcceptOK
<1>4. CASE OutOfDescriptors
  <2>1. UNCHANGED <<client, backlog, inRoot, loopOf, next_, OpenClients>>
    BY <1>4 DEF OutOfDescriptors, OpenClients
  <2>2. idleFd_' = FALSE /\ emfile' = TRUE /\ free' = free + (IF idleFd_ THEN 1 ELSE 0)
    BY <1>4 DEF OutOfDescriptors
  <2>3. free' \in Nat /\ free' + Cardinality(OpenClients') + (IF idleFd_' THEN 1 ELSE 0) = FreeAtStart + 1
    BY <1>2, <2>1, <2>2, FreeAssumption DEF AcceptOK
  <2> HIDE DEF OpenClients
  <2> QED
    BY <1>1, <2>1, <2>2, <2>3 DEF AcceptOK
<1>5. CASE Reopen
  <2>1. UNCHANGED <<client, backlog, inRoot, loopOf, next_, OpenClients>>
    BY <1>5 DEF Reopen, OpenClients
  <2>2. /\ idleFd_ = FALSE /\ emfile' = FALSE /\ idleFd_' \in BOOLEAN
        /\ (idleFd_' => free > 0) /\ free' = free - (IF idleFd_' THEN 1 ELSE 0)
    BY <1>5 DEF Reopen, AcceptOK
  <2>3. free' \in Nat /\ free' + Cardinality(OpenClients') + (IF idleFd_' THEN 1 ELSE 0) = FreeAtStart + 1
    BY <1>2, <2>1, <2>2, FreeAssumption DEF AcceptOK
  <2> HIDE DEF OpenClients
  <2> QED
    BY <1>1, <2>1, <2>2, <2>3 DEF AcceptOK
<1> QED
  BY <1>3, <1>4, <1>5 DEF handleRead

(* A connection is closed and its descriptor is free again. *)
LEMMA ClosedKeepsAccept ==
  ASSUME AcceptOK, NEW c \in Clients, Closed(c), UNCHANGED poolVars
  PROVE  AcceptOK'
<1>1. /\ client' \in [Clients -> {"new", "pending", "open", "closed"}] /\ client[c] = "open"
      /\ client'[c] = "closed" /\ \A d \in Clients : d # c => client'[d] = client[d]
  BY DEF Closed, AcceptOK
<1>2. IsFiniteSet(OpenClients) /\ Cardinality(OpenClients) \in Nat
  BY OpenClientsFinite
<1>3. OpenClients' = OpenClients \ {c} /\ c \in OpenClients
  BY <1>1 DEF OpenClients
<1>4. Cardinality(OpenClients') = Cardinality(OpenClients) - 1
  BY <1>2, <1>3, FS_RemoveElement
<1>5. free' \in Nat /\ free' + Cardinality(OpenClients') + (IF idleFd_' THEN 1 ELSE 0) = FreeAtStart + 1
  BY <1>2, <1>4, FreeAssumption DEF Closed, AcceptOK
<1>6. UNCHANGED <<backlog, idleFd_, emfile, inRoot, loopOf, next_, numThreads_, main, loops_>>
  BY DEF Closed, poolVars
<1>7. \A i \in 1 .. Len(backlog) : backlog[i] \in Clients /\ backlog[i] # c
  BY <1>1 DEF AcceptOK
<1> HIDE DEF OpenClients
<1> QED
  BY <1>1, <1>5, <1>6, <1>7 DEF AcceptOK

-----------------------------------------------------------------------------
(* Tokens and tickets.                                                      *)

(* What the table operators do to the domain and the entries of a table. *)
LEMMA WithoutIs ==
  ASSUME NEW f, NEW k
  PROVE  /\ DOMAIN Without(f, k) = DOMAIN f \ {k}
         /\ DOMAIN Without(f, k) \subseteq DOMAIN f /\ k \notin DOMAIN Without(f, k)
         /\ \A x \in DOMAIN Without(f, k) : Without(f, k)[x] = f[x]
BY DEF Without, Restrict

(* removeExpiredLocked only drops entries. *)
LEMMA Tables ==
  ASSUME NEW f
  PROVE  /\ DOMAIN removeExpiredLocked(f) \subseteq DOMAIN f
         /\ \A x \in DOMAIN removeExpiredLocked(f) : removeExpiredLocked(f)[x] = f[x]
BY DEF removeExpiredLocked, Restrict

(* TokenManager::createSession: the new token is not a dead one. *)
LEMMA CreateSessionKeeps ==
  ASSUME TokensOK, NEW user, createSession(user)
  PROVE  TokensOK' /\ dead' = dead
<1> DEFINE rest == removeExpiredLocked(sessions_)
           e == [user |-> user, expireAt |-> now + TokenTtl]
<1>1. issued' = issued + 1 /\ UNCHANGED <<now, dead>> /\ issued \in Nat /\ now \in Int
  BY DEF createSession, generateToken, TokensOK
<1>2. sessions_' = With(rest, issued + 1, e)
  BY <1>1 DEF createSession
<1>3. e.expireAt \in Int
  BY <1>1, TtlAssumption
<1>4. DOMAIN rest \subseteq DOMAIN sessions_ /\ \A x \in DOMAIN rest : rest[x] = sessions_[x]
  BY Tables
<1> HIDE DEF rest, e
<1>5. /\ DOMAIN sessions_' = DOMAIN rest \cup {issued + 1} /\ sessions_'[issued + 1] = e
      /\ \A x \in DOMAIN rest : x # issued + 1 => sessions_'[x] = rest[x]
  BY <1>2 DEF With
<1>6. DOMAIN sessions_' \subseteq 1 .. issued' /\ dead' \subseteq 1 .. issued'
  BY <1>1, <1>4, <1>5 DEF TokensOK
<1>7. DOMAIN sessions_' \cap dead' = {}
  BY <1>1, <1>4, <1>5 DEF TokensOK
<1>8. \A t \in DOMAIN sessions_' : sessions_'[t].expireAt \in Int
  BY <1>3, <1>4, <1>5 DEF TokensOK
<1> QED
  BY <1>1, <1>6, <1>7, <1>8 DEF TokensOK

(* TokenManager::verify: a token that is refused leaves the table. *)
LEMMA VerifyKeeps ==
  ASSUME TokensOK, NEW token, verify(token)
  PROVE  /\ TokensOK' /\ dead \subseteq dead'
         /\ Verified(token) => token \notin dead /\ token \notin dead'
<1>1. UNCHANGED <<now, issued>> /\ issued \in Nat /\ now \in Int
  BY DEF verify, TokensOK
<1>2. CASE Verified(token)
  <2>1. sessions_' = sessions_ /\ dead' = dead
    BY <1>1, <1>2 DEF verify, Verified, Erased, TokensOK
  <2> QED
    BY <1>1, <1>2, <2>1 DEF Verified, TokensOK
<1>3. CASE ~Verified(token)
  <2>1. token \notin DOMAIN sessions_' /\ DOMAIN sessions_' \subseteq DOMAIN sessions_
        /\ \A x \in DOMAIN sessions_' : sessions_'[x] = sessions_[x]
    <3>1. CASE token \in DOMAIN sessions_
      <4>1. sessions_' = Without(sessions_, token)
        BY <1>1, <1>3, <3>1 DEF verify, Verified, Erased, TokensOK
      <4> QED
        BY <4>1, WithoutIs, Zenon
    <3>2. CASE token \notin DOMAIN sessions_
      BY <3>2 DEF verify, Erased
    <3> QED
      BY <3>1, <3>2
  <2>2. dead' = IF token \in 1 .. issued THEN dead \cup {token} ELSE dead
    BY <1>3 DEF verify
  <2> QED
    BY <1>1, <1>3, <2>1, <2>2 DEF TokensOK
<1> QED
  BY <1>2, <1>3

(* TokenManager::remove: a logged out token leaves the table. *)
LEMMA RemoveKeeps ==
  ASSUME TokensOK, NEW token, remove(token)
  PROVE  /\ TokensOK' /\ dead \subseteq dead'
         /\ Removes(token) => token \notin dead
<1>1. UNCHANGED <<now, issued>> /\ sessions_' = Without(sessions_, token)
      /\ dead' = IF token \in 1 .. issued THEN dead \cup {token} ELSE dead
  BY DEF remove
<1>2. DOMAIN sessions_' = DOMAIN sessions_ \ {token}
      /\ \A x \in DOMAIN sessions_' : sessions_'[x] = sessions_[x]
  BY <1>1, WithoutIs, Zenon
<1> QED
  BY <1>1, <1>2 DEF TokensOK, Removes

(* RtmpTicketManager::createTicket: the new ticket says what was asked. *)
LEMMA CreateTicketKeeps ==
  ASSUME TicketsOK, TokensOK, NEW key \in Keys, NEW permission \in Permissions,
         createTicket(key, permission)
  PROVE  TicketsOK'
<1> DEFINE rest == removeExpiredLocked(tickets_)
           m == [key |-> key, permission |-> permission]
           e == [streamKey |-> key, allowPublish |-> permission \in {"publish", "both"},
                 allowPlay |-> permission \in {"play", "both"}, expireAt |-> now + TicketTtl]
<1>1. minted \in Seq([key : Keys, permission : Permissions])
      /\ m \in [key : Keys, permission : Permissions] /\ minted' = Append(minted, m)
      /\ UNCHANGED <<spent, admission>>
  BY DEF TicketsOK, createTicket
<1>2. /\ minted' \in Seq([key : Keys, permission : Permissions])
      /\ Len(minted') = Len(minted) + 1 /\ Len(minted) \in Nat
      /\ \A i \in 1 .. Len(minted) : minted'[i] = minted[i]
      /\ minted'[Len(minted) + 1] = m
  <2> HIDE DEF m
  <2> QED
    BY <1>1
<1>3. tickets_' = With(rest, Len(minted) + 1, e)
  BY <1>2 DEF createTicket
<1>4. /\ e.streamKey = m.key /\ e.expireAt \in Int
      /\ e.allowPublish = (m.permission \in {"publish", "both"})
      /\ e.allowPlay = (m.permission \in {"play", "both"})
  BY TtlAssumption DEF TokensOK
<1>5. DOMAIN rest \subseteq DOMAIN tickets_ /\ \A x \in DOMAIN rest : rest[x] = tickets_[x]
  BY Tables
<1> HIDE DEF rest, e, m
<1>6. /\ DOMAIN tickets_' = DOMAIN rest \cup {Len(minted) + 1} /\ tickets_'[Len(minted) + 1] = e
      /\ \A x \in DOMAIN rest : x # Len(minted) + 1 => tickets_'[x] = rest[x]
  BY <1>3 DEF With
<1>7. spent' \subseteq 1 .. Len(minted')
  BY <1>1, <1>2 DEF TicketsOK
<1>8. ASSUME NEW t \in DOMAIN tickets_'
      PROVE  /\ t \in 1 .. Len(minted') /\ t \notin spent'
             /\ tickets_'[t].streamKey = minted'[t].key /\ tickets_'[t].expireAt \in Int
             /\ tickets_'[t].allowPublish = (minted'[t].permission \in {"publish", "both"})
             /\ tickets_'[t].allowPlay = (minted'[t].permission \in {"play", "both"})
  <2>1. CASE t = Len(minted) + 1
    BY <1>1, <1>2, <1>4, <1>6, <2>1 DEF TicketsOK
  <2>2. CASE t # Len(minted) + 1
    <3>1. t \in DOMAIN tickets_ /\ tickets_'[t] = tickets_[t]
      BY <1>5, <1>6, <2>2
    <3>2. t \in 1 .. Len(minted) /\ minted'[t] = minted[t]
      BY <1>2, <3>1 DEF TicketsOK
    <3> QED
      BY <1>1, <1>2, <3>1, <3>2 DEF TicketsOK
  <2> QED
    BY <2>1, <2>2
<1>9. admission' # Refused => admission'.ticket \in 1 .. Len(minted')
  BY <1>1, <1>2 DEF TicketsOK
<1>10. TicketsSound'
  BY <1>1, <1>2 DEF TicketsOK, TicketsSound
<1> QED
  BY <1>2, <1>7, <1>8, <1>9, <1>10 DEF TicketsOK

(* RtmpTicketManager::verify: what is admitted was asked for, what is found *)
(* expired leaves the table.                                                *)
LEMMA VerifyTicketKeeps ==
  ASSUME TicketsOK, TokensOK, NEW t \in DOMAIN minted, NEW key, NEW publish \in BOOLEAN,
         verifyTicket(t, key, publish)
  PROVE  TicketsOK'
<1>1. /\ minted' = minted /\ t \in 1 .. Len(minted) /\ now \in Int
      /\ minted \in Seq([key : Keys, permission : Permissions])
  BY DEF verifyTicket, TicketsOK, TokensOK
<1>2. /\ DOMAIN tickets_' \subseteq DOMAIN tickets_
      /\ \A x \in DOMAIN tickets_' : tickets_'[x] = tickets_[x]
      /\ spent' = spent \/ (spent' = spent \cup {t} /\ t \notin DOMAIN tickets_')
  <2>1. CASE t \in DOMAIN tickets_ /\ tickets_[t].expireAt > now
    BY <1>1, <2>1 DEF verifyTicket, Erased, TicketsOK
  <2>2. CASE t \in DOMAIN tickets_ /\ ~(tickets_[t].expireAt > now)
    <3>1. tickets_' = Without(tickets_, t) /\ spent' = spent \cup {t}
      BY <1>1, <2>2 DEF verifyTicket, Erased, TicketsOK
    <3> QED
      BY <3>1, WithoutIs, Zenon
  <2>3. CASE t \notin DOMAIN tickets_
    BY <2>3 DEF verifyTicket, Erased
  <2> QED
    BY <2>1, <2>2, <2>3
<1>3. ASSUME Admits(t, key, publish)
      PROVE  /\ t \notin spent' /\ minted[t].key = key
             /\ minted[t].permission \in (IF publish THEN {"publish", "both"} ELSE {"play", "both"})
  <2>1. spent' = spent /\ t \in DOMAIN tickets_ /\ tickets_[t].streamKey = key
        /\ IF publish THEN tickets_[t].allowPublish ELSE tickets_[t].allowPlay
    BY <1>3 DEF verifyTicket, Admits
  <2> QED
    BY <2>1 DEF TicketsOK
<1>4. TicketsSound' /\ (admission' # Refused => admission'.ticket \in 1 .. Len(minted'))
  <2>1. CASE Admits(t, key, publish)
    <3>1. admission' = [ticket |-> t, key |-> key, publish |-> publish]
      BY <2>1 DEF verifyTicket
    <3>2. admission'.ticket = t /\ admission'.key = key /\ admission'.publish = publish
      BY <3>1
    <3> QED
      BY <1>1, <1>3, <2>1, <3>2 DEF TicketsSound
  <2>2. CASE ~Admits(t, key, publish)
    BY <2>2 DEF verifyTicket, TicketsSound
  <2> QED
    BY <2>1, <2>2
<1> QED
  BY <1>1, <1>2, <1>4 DEF TicketsOK

-----------------------------------------------------------------------------
(* Requests in parts.                                                       *)

(* A set of numbers has a least one. *)
LEMMA LeastExists ==
  ASSUME NEW S \in SUBSET Nat, S # {}
  PROVE  \E x \in S : \A y \in S : x <= y
<1> DEFINE R == {p \in Nat \X Nat : p[1] < p[2]}
<1>1. IsWellFoundedOn(R, Nat)
  BY NatLessThanWellFounded, Zenon DEF OpToRel
<1>2. PICK x \in S : \A y \in S : ~(<<y, x>> \in R)
  <2> HIDE DEF R
  <2> QED
    BY <1>1, WFMin, Zenon
<1>3. ASSUME NEW y \in S PROVE x <= y
  <2>1. <<y, x>> \notin R
    BY <1>2
  <2>2. x \in Nat /\ y \in Nat
    OBVIOUS
  <2> QED
    BY <2>1, <2>2
<1> QED
  BY <1>3

(* A set of numbers from 1 on without a gap is determined by its size. *)
LEMMA NoGap ==
  ASSUME NEW L \in Nat, NEW D \in SUBSET (1 .. L),
         \A i, j \in 1 .. L : j \in D /\ i < j => i \in D
  PROVE  D = 1 .. Cardinality(D)
<1> DEFINE G == {i \in Nat : i > 0 /\ i \notin D}
<1>1. L + 1 \in G
  OBVIOUS
<1>2. PICK k \in G : \A i \in G : k <= i
  BY <1>1, LeastExists
<1>3. k \in Nat /\ k > 0 /\ k <= L + 1 /\ k \notin D
  BY <1>1, <1>2
<1>4. D = 1 .. (k - 1)
  <2>1. ASSUME NEW i \in D PROVE i \in 1 .. (k - 1)
    <3>1. i \in 1 .. L
      OBVIOUS
    <3>2. ~(k < i)
      BY <1>3, <3>1
    <3>3. i # k
      BY <1>3
    <3> QED
      BY <1>3, <3>1, <3>2, <3>3
  <2>2. ASSUME NEW i \in 1 .. (k - 1) PROVE i \in D
    BY <1>2, <1>3
  <2> QED
    BY <2>1, <2>2
<1>5. Cardinality(1 .. (k - 1)) = k - 1
  BY <1>3, FS_Interval
<1> QED
  BY <1>3, <1>4, <1>5

(* parseRequest, case by case (HttpContext::parseRequest). *)
LEMMA ParseIs ==
  ASSUME NEW state \in States \ {"kGotAll"}, NEW b \in Seq(PartsOf), NEW p,
         p = parseRequest(state, b)
  PROVE  /\ p.ok \in BOOLEAN /\ p.taken \in 0 .. Len(b) /\ p.state \in States
         /\ b = <<>> => p.ok /\ p.taken = 0 /\ p.state = state
         /\ ~p.ok => /\ b # <<>> /\ p.taken < Len(b) /\ b[p.taken + 1].n = b[1].n
                     /\ p.state # "kGotAll"
         /\ p.ok /\ b # <<>> => p.taken > 0 /\ p.state = b[p.taken].after
         /\ p.ok /\ b # <<>> /\ Ordered(b) =>
              /\ b[p.taken].n = b[1].n
              /\ p.taken < Len(b) => b[p.taken + 1].n # b[1].n
<1> DEFINE same == {i \in DOMAIN b : b[i].n = b[1].n}
           bad == {i \in same : ~b[i].ok}
           first == CHOOSE i \in bad : \A j \in bad : i <= j
<1>1. CASE b = <<>>
  <2>1. p = [ok |-> TRUE, taken |-> 0, state |-> state]
    BY <1>1 DEF parseRequest
  <2>2. p.ok = TRUE /\ p.taken = 0 /\ p.state = state /\ 0 \in 0 .. Len(b)
    BY <1>1, <2>1
  <2> QED
    BY <1>1, <2>2
<1>2. Len(b) \in Nat /\ DOMAIN b = 1 .. Len(b) /\ same \subseteq 1 .. Len(b)
      /\ \A i \in 1 .. Len(b) : b[i] \in PartsOf
  OBVIOUS
<1>3. CASE b # <<>> /\ bad # {}
  <2>1. bad \in SUBSET Nat
    BY <1>2
  <2>2. \E x \in bad : \A y \in bad : x <= y
    BY <1>3, <2>1, LeastExists
  <2>3. first \in bad
    BY <2>2
  <2>4. p = [ok |-> FALSE, taken |-> first - 1, state |-> b[first].expected]
    BY <1>3 DEF parseRequest
  <2>5. first \in 1 .. Len(b) /\ b[first].n = b[1].n /\ b[first].expected \in States \ {"kGotAll"}
    <3>1. first \in 1 .. Len(b) /\ b[first].n = b[1].n
      BY <1>2, <2>3
    <3> HIDE DEF first
    <3>2. b[first] \in PartsOf
      BY <1>2, <3>1
    <3> QED
      BY <3>1, <3>2 DEF PartsOf
  <2> HIDE DEF first, bad
  <2>6. p.ok = FALSE /\ p.taken = first - 1 /\ p.state = b[first].expected
    BY <2>4
  <2>7. p.taken \in 0 .. Len(b) /\ p.taken < Len(b) /\ p.taken + 1 = first
    BY <1>2, <2>5, <2>6
  <2> QED
    BY <1>3, <2>5, <2>6, <2>7
<1>4. CASE b # <<>> /\ bad = {}
  <2> DEFINE m == Cardinality(same)
  <2>1. p = [ok |-> TRUE, taken |-> m, state |-> b[m].after]
    BY <1>4 DEF parseRequest
  <2>2. 1 \in same
    BY <1>2, <1>4
  <2>3. IsFiniteSet(1 .. Len(b)) /\ Cardinality(1 .. Len(b)) = Len(b)
    BY <1>2, FS_Interval
  <2>4. IsFiniteSet(same) /\ m <= Len(b) /\ m \in Nat /\ m # 0
    <3>1. same \in SUBSET (1 .. Len(b))
      BY <1>2
    <3> HIDE DEF same
    <3>2. IsFiniteSet(same) /\ m <= Cardinality(1 .. Len(b))
      BY <2>3, <3>1, FS_Subset
    <3>3. m \in Nat
      BY <3>2, FS_CardinalityType
    <3>4. m # 0
      BY <2>2, <3>2, FS_EmptySet
    <3> QED
      BY <2>3, <3>2, <3>3, <3>4
  <2>5. m \in 1 .. Len(b)
    BY <1>2, <2>4
  <2>6. ASSUME Ordered(b)
        PROVE  b[m].n = b[1].n /\ (m < Len(b) => b[m + 1].n # b[1].n)
    <3>1. ASSUME NEW i \in 1 .. Len(b), NEW j \in 1 .. Len(b), j \in same, i < j PROVE i \in same
      <4>1. CASE i = 1
        BY <2>2, <4>1
      <4>2. CASE i # 1
        <5>1. b[1].n <= b[i].n /\ b[i].n <= b[j].n /\ b[j].n = b[1].n
          BY <1>2, <2>6, <3>1, <4>2 DEF Ordered
        <5>2. b[1].n \in Nat /\ b[i].n \in Nat
          BY <1>2, <2>2 DEF PartsOf
        <5>3. b[i].n = b[1].n
          BY <5>1, <5>2
        <5> QED
          BY <1>2, <5>3
      <4> QED
        BY <4>1, <4>2
    <3>2. same = 1 .. m
      <4> HIDE DEF same
      <4> QED
        BY <1>2, <3>1, NoGap
    <3>3. m \in same /\ (m < Len(b) => m + 1 \notin same /\ m + 1 \in DOMAIN b)
      <4> HIDE DEF m, same
      <4> QED
        BY <1>2, <2>4, <3>2
    <3> HIDE DEF m
    <3> QED
      BY <3>3
  <2> HIDE DEF m
  <2>7. p.ok = TRUE /\ p.taken = m /\ p.state = b[m].after
    BY <2>1
  <2>8. b[m].after \in States
    BY <1>2, <2>5 DEF PartsOf
  <2>9. m \in 0 .. Len(b) /\ m > 0
    BY <1>2, <2>5
  <2> HIDE DEF same, bad
  <2> QED
    BY <1>4, <2>6, <2>7, <2>8, <2>9
<1> QED
  BY <1>1, <1>3, <1>4

(* The parts of one request: two or three, the last one completes it. *)
LEMMA PartsAre ==
  ASSUME NEW n \in Nat, NEW req, NEW q, q = Parts(n, req)
  PROVE  /\ q \in Seq(PartsOf) /\ Len(q) \in 2 .. 3
         /\ \A i \in 1 .. Len(q) : q[i].n = n
         /\ \A i \in 1 .. Len(q) : q[i].after = "kGotAll" <=> i = Len(q)
<1> DEFINE line == [n |-> n, expected |-> "kExpectRequestLine", ok |-> req.what # "badLine",
                    after |-> "kExpectHeaders"]
           head(a) == [n |-> n, expected |-> "kExpectHeaders", ok |-> req.what # "badLength",
                       after |-> a]
           body == [n |-> n, expected |-> "kExpectBody", ok |-> TRUE, after |-> "kGotAll"]
<1>1. line \in PartsOf /\ body \in PartsOf /\ head("kExpectBody") \in PartsOf
      /\ head("kGotAll") \in PartsOf
  BY DEF PartsOf, States
<1>2. CASE HasBody(req)
  <2>1. q = <<line, head("kExpectBody"), body>>
    BY <1>2 DEF Parts
  <2>2. /\ line.n = n /\ head("kExpectBody").n = n /\ body.n = n
        /\ line.after # "kGotAll" /\ head("kExpectBody").after # "kGotAll" /\ body.after = "kGotAll"
    OBVIOUS
  <2> HIDE DEF line, head, body
  <2> QED
    BY <1>1, <2>1, <2>2
<1>3. CASE ~HasBody(req)
  <2>1. q = <<line, head("kGotAll")>>
    BY <1>3 DEF Parts
  <2>2. /\ line.n = n /\ head("kGotAll").n = n
        /\ line.after # "kGotAll" /\ head("kGotAll").after = "kGotAll"
    OBVIOUS
  <2> HIDE DEF line, head, body
  <2> QED
    BY <1>1, <2>1, <2>2
<1> QED
  BY <1>2, <1>3

(* Two sequences of parts one after the other. *)
LEMMA Joined ==
  ASSUME NEW s \in Seq(PartsOf), NEW t \in Seq(PartsOf), NEW u, u = s \o t
  PROVE  /\ u \in Seq(PartsOf) /\ Len(u) = Len(s) + Len(t) /\ Len(s) \in Nat /\ Len(t) \in Nat
         /\ \A i \in 1 .. Len(s) : u[i] = s[i]
         /\ \A i \in 1 .. Len(t) : u[Len(s) + i] = t[i]
         /\ \A i \in 1 .. Len(u) : i > Len(s) => u[i] = t[i - Len(s)]
         /\ u = <<>> <=> Len(u) = 0
OBVIOUS

(* What is appended to the wire is appended to the stream. *)
LEMMA JoinedTwice ==
  ASSUME NEW s \in Seq(PartsOf), NEW t \in Seq(PartsOf), NEW u \in Seq(PartsOf)
  PROVE  s \o (t \o u) = (s \o t) \o u
<1> DEFINE S == PartsOf
<1>1. s \in Seq(S) /\ t \in Seq(S) /\ u \in Seq(S)
  OBVIOUS
<1> HIDE DEF S
<1>2. (s \o t) \o u = s \o (t \o u)
  BY <1>1, ConcatAssociative
<1> QED
  BY <1>2

(* retrieve takes t parts away from the front of b, what has come of the     *)
(* stream s = u \o w with k parts of w; r is what is left of the stream.     *)
IsCut(u, w, k, b, t, y, z, s, r) ==
  /\ b = u \o SubSeq(w, 1, k) /\ t \in 0 .. Len(b)
  /\ y = SubSeq(b, t + 1, Len(b)) /\ z = SubSeq(w, k + 1, Len(w))
  /\ s = u \o w /\ r = y \o z

(* So b is the beginning of s, and r is s without its first t parts. *)
CutsTo(b, t, y, z, s, r) ==
  /\ b \in Seq(PartsOf) /\ s \in Seq(PartsOf) /\ r \in Seq(PartsOf)
  /\ y \in Seq(PartsOf) /\ z \in Seq(PartsOf)
  /\ \A i \in 1 .. Len(b) : b[i] = s[i]
  /\ Len(b) <= Len(s) /\ Len(r) = Len(s) - t
  /\ \A i \in 1 .. Len(r) : r[i] = s[i + t]

(* retrieve and what it leaves. *)
LEMMA Cut ==
  ASSUME NEW u \in Seq(PartsOf), NEW w \in Seq(PartsOf), NEW k \in 0 .. Len(w),
         NEW b, NEW t, NEW y, NEW z, NEW s, NEW r
  PROVE  IsCut(u, w, k, b, t, y, z, s, r) => CutsTo(b, t, y, z, s, r)
<1>1. ASSUME b = u \o SubSeq(w, 1, k), t \in 0 .. Len(b), y = SubSeq(b, t + 1, Len(b)),
             z = SubSeq(w, k + 1, Len(w)), s = u \o w, r = y \o z
      PROVE  /\ b \in Seq(PartsOf) /\ s \in Seq(PartsOf) /\ r \in Seq(PartsOf)
             /\ y \in Seq(PartsOf) /\ z \in Seq(PartsOf)
             /\ \A i \in 1 .. Len(b) : b[i] = s[i]
             /\ Len(b) <= Len(s) /\ Len(r) = Len(s) - t
             /\ \A i \in 1 .. Len(r) : r[i] = s[i + t]
  <2> DEFINE x == SubSeq(w, 1, k)
  <2>1. x \in Seq(PartsOf) /\ Len(x) = k /\ \A i \in 1 .. k : x[i] = w[i]
    OBVIOUS
  <2>2. /\ SubSeq(w, k + 1, Len(w)) \in Seq(PartsOf)
        /\ Len(SubSeq(w, k + 1, Len(w))) = Len(w) - k
        /\ \A i \in 1 .. Len(w) - k : SubSeq(w, k + 1, Len(w))[i] = w[k + i]
    OBVIOUS
  <2>3. z \in Seq(PartsOf) /\ Len(z) = Len(w) - k /\ \A i \in 1 .. Len(w) - k : z[i] = w[k + i]
    BY <1>1, <2>2, Zenon
  <2>4. b = u \o x
    BY <1>1
  <2> HIDE DEF x
  <2>5. /\ b \in Seq(PartsOf) /\ Len(b) = Len(u) + k /\ \A i \in 1 .. Len(u) : b[i] = u[i]
        /\ \A i \in 1 .. Len(b) : i > Len(u) => b[i] = x[i - Len(u)]
    <3>1. /\ b \in Seq(PartsOf) /\ Len(b) = Len(u) + Len(x) /\ \A i \in 1 .. Len(u) : b[i] = u[i]
          /\ \A i \in 1 .. Len(b) : i > Len(u) => b[i] = x[i - Len(u)]
      <4>1. x \in Seq(PartsOf)
        BY <2>1
      <4> QED
        BY <2>4, <4>1, Joined
    <3> QED
      BY <2>1, <3>1
  <2>6. s = u \o w
    BY <1>1
  <2>7. /\ s \in Seq(PartsOf) /\ Len(s) = Len(u) + Len(w) /\ \A i \in 1 .. Len(u) : s[i] = u[i]
        /\ \A i \in 1 .. Len(s) : i > Len(u) => s[i] = w[i - Len(u)]
    BY <2>6, Joined
  <2>8. t \in 0 .. Len(b) /\ y = SubSeq(b, t + 1, Len(b))
    BY <1>1
  <2>9. y \in Seq(PartsOf) /\ Len(y) = Len(b) - t /\ \A i \in 1 .. Len(b) - t : y[i] = b[t + i]
    <3>1. b \in Seq(PartsOf)
      BY <2>5
    <3> QED
      BY <2>8, <3>1
  <2>10. r = y \o z
    BY <1>1
  <2>11. /\ r \in Seq(PartsOf) /\ Len(r) = Len(y) + Len(z) /\ \A i \in 1 .. Len(y) : r[i] = y[i]
         /\ \A i \in 1 .. Len(r) : i > Len(y) => r[i] = z[i - Len(y)]
    <3>1. y \in Seq(PartsOf) /\ z \in Seq(PartsOf)
      BY <2>3, <2>9
    <3> QED
      BY <2>10, <3>1, Joined
  <2>12. /\ Len(u) \in Nat /\ Len(w) \in Nat /\ k \in Nat /\ k <= Len(w) /\ t \in Nat /\ t <= Len(b)
         /\ Len(b) \in Nat /\ Len(s) \in Nat /\ Len(b) <= Len(s)
         /\ Len(r) = Len(s) - t /\ Len(r) \in Nat /\ Len(y) = Len(b) - t
    <3>1. Len(u) \in Nat /\ Len(w) \in Nat /\ k \in Nat /\ k <= Len(w)
      OBVIOUS
    <3>2. t \in Nat /\ t <= Len(b)
      BY <2>5, <2>8, <3>1
    <3>3. Len(b) = Len(u) + k /\ Len(s) = Len(u) + Len(w) /\ Len(r) = Len(y) + Len(z)
          /\ Len(y) = Len(b) - t /\ Len(z) = Len(w) - k
      BY <2>3, <2>5, <2>7, <2>9, <2>11
    <3> QED
      BY <3>1, <3>2, <3>3
  <2>13. ASSUME NEW i \in 1 .. Len(b) PROVE b[i] = s[i]
    <3>1. CASE i <= Len(u)
      BY <2>5, <2>7, <2>12, <3>1
    <3>2. CASE i > Len(u)
      <4>1. i - Len(u) \in 1 .. k /\ i \in 1 .. Len(s)
        BY <2>5, <2>12, <3>2
      <4> QED
        BY <2>1, <2>5, <2>7, <3>2, <4>1
    <3> QED
      BY <2>12, <3>1, <3>2
  <2>14. ASSUME NEW i \in 1 .. Len(r) PROVE r[i] = s[i + t]
    <3>1. CASE i <= Len(y)
      <4>1. i \in 1 .. Len(b) - t /\ t + i \in 1 .. Len(b) /\ i + t = t + i /\ i \in 1 .. Len(y)
        BY <2>12, <3>1
      <4> QED
        BY <2>9, <2>11, <2>13, <4>1
    <3>2. CASE i > Len(y)
      <4> DEFINE h == i - Len(y)
      <4>1. h \in 1 .. Len(w) - k /\ k + h = (i + t) - Len(u)
        BY <2>5, <2>7, <2>12, <3>2
      <4>2. i + t \in 1 .. Len(s) /\ i + t > Len(u)
        BY <2>5, <2>7, <2>12, <3>2
      <4>3. r[i] = z[h] /\ z[h] = w[k + h]
        BY <2>3, <2>11, <3>2, <4>1
      <4>4. s[i + t] = w[(i + t) - Len(u)]
        BY <2>7, <4>2
      <4> QED
        BY <4>1, <4>3, <4>4
    <3> QED
      BY <2>12, <3>1, <3>2
  <2> QED
    BY <2>3, <2>5, <2>7, <2>9, <2>11, <2>12, <2>13, <2>14
<1> QED
  BY <1>1, Zenon DEF IsCut, CutsTo

(* A step of another connection leaves a client's part of the invariant. *)
LEMMA Frame ==
  ASSUME HttpTypes, NEW d \in Clients, ClientOK(d),
         client[d] = "open" => loopOf[d] \in Loops,
         script' = script, asked'[d] = asked[d], wire'[d] = wire[d], buf'[d] = buf[d],
         state_'[d] = state_[d], current_'[d] = current_[d], answers'[d] = answers[d],
         closing'[d] = closing[d], client'[d] = client[d], loopOf'[d] = loopOf[d],
         dead \subseteq dead', \A l \in Loops : busy'[l] = d <=> busy[l] = d
  PROVE  ClientOK(d)'
<1>1. BusyOf(d)'
  BY DEF ClientOK, BusyOf
<1>2. AskedOf(d)'
  BY DEF ClientOK, AskedOf, Stream
<1>3. InOrder(d) => InOrder(d)'
  BY DEF InOrder, Ordered, Stream, Done
<1> QED
  BY <1>1, <1>2, <1>3 DEF ClientOK

(* What cannot see the connections leaves all of them alone. *)
LEMMA FrameAll ==
  ASSUME Inv, UNCHANGED <<httpVars, acceptVars>>, dead \subseteq dead'
  PROVE  HttpTypes' /\ \A c \in Clients : ClientOK(c)'
<1>1. HttpTypes'
  BY DEF Inv, HttpTypes, httpVars
<1>2. ASSUME NEW d \in Clients PROVE ClientOK(d)'
  <2>1. client[d] = "open" => loopOf[d] \in Loops
    BY MaxThreadsAssumption DEF Inv, AcceptOK, PoolOK, Loops, Threads
  <2> QED
    BY <2>1, Frame DEF Inv, httpVars, acceptVars
<1> QED
  BY <1>1, <1>2

-----------------------------------------------------------------------------
(* The steps of a connection.                                               *)

(* A loop that is not waiting in a handler has no complete request, and an   *)
(* open connection has a loop.                                               *)
LEMMA LoopOfOpen ==
  ASSUME PoolOK, AcceptOK, NEW c \in Clients, client[c] = "open"
  PROVE  loopOf[c] \in Loops
BY MaxThreadsAssumption DEF AcceptOK, PoolOK, Loops, Threads

(* The client sends a request. *)
LEMMA AskKeeps ==
  ASSUME Inv, NEW c \in Clients, ClientAsks(c)
  PROVE  HttpTypes' /\ ClientOK(c)'
<1> DEFINE n == Len(asked[c]) + 1
           q == Parts(n, script[c][n])
           s == Stream(c)
           flag == script[c][n].token \in dead
<1>1. /\ client[c] = "open" /\ asked' = [asked EXCEPT ![c] = Append(@, flag)]
      /\ wire' = [wire EXCEPT ![c] = @ \o q]
      /\ UNCHANGED <<script, buf, state_, current_, answers, closing, busy, client, loopOf, dead>>
  BY DEF ClientAsks, Ask, acceptVars, authVars
<1>2. HttpTypes /\ ClientOK(c)
  BY DEF Inv
<1>3. /\ asked[c] \in Seq(BOOLEAN) /\ Len(asked[c]) \in Nat /\ n \in Nat /\ flag \in BOOLEAN
      /\ wire[c] \in Seq(PartsOf) /\ buf[c] \in Seq(PartsOf) /\ Len(answers[c]) \in Nat
  BY <1>2 DEF HttpTypes
<1>4. /\ q \in Seq(PartsOf) /\ Len(q) \in 2 .. 3
      /\ \A i \in 1 .. Len(q) : q[i].n = n
      /\ \A i \in 1 .. Len(q) : q[i].after = "kGotAll" <=> i = Len(q)
  <2> HIDE DEF n
  <2> QED
    BY <1>3, PartsAre
<1> HIDE DEF q, flag
<1>5. /\ asked'[c] = Append(asked[c], flag) /\ wire'[c] = wire[c] \o q
      /\ buf'[c] = buf[c]
  BY <1>1, <1>2 DEF HttpTypes
<1>6. /\ Len(asked'[c]) = n /\ asked'[c] \in Seq(BOOLEAN)
      /\ \A i \in 1 .. Len(asked[c]) : asked'[c][i] = asked[c][i]
      /\ asked'[c][n] = flag
  BY <1>3, <1>5
<1>7. wire'[c] \in Seq(PartsOf)
  BY <1>3, <1>4, <1>5
<1>8. HttpTypes'
  BY <1>1, <1>2, <1>6, <1>7 DEF HttpTypes
<1>9. Stream(c)' = s \o q /\ s \in Seq(PartsOf)
  <2>1. Stream(c)' = buf[c] \o (wire[c] \o q)
    BY <1>5 DEF Stream
  <2>2. buf[c] \o (wire[c] \o q) = (buf[c] \o wire[c]) \o q
    BY <1>3, <1>4, JoinedTwice
  <2> QED
    BY <1>3, <2>1, <2>2 DEF Stream
<1> DEFINE r == Stream(c)'
<1> HIDE DEF s, r
<1>10. /\ r \in Seq(PartsOf) /\ Len(r) = Len(s) + Len(q) /\ Len(s) \in Nat
       /\ \A i \in 1 .. Len(s) : r[i] = s[i]
       /\ \A i \in 1 .. Len(r) : i > Len(s) => r[i] = q[i - Len(s)]
       /\ s = <<>> <=> Len(s) = 0
  <2>1. r = s \o q
    BY <1>9 DEF r
  <2> QED
    BY <1>4, <1>9, <2>1, Joined
<1>11. \A i \in 1 .. Len(s) : s[i] \in PartsOf /\ s[i].n \in 1 .. Len(asked[c])
  BY <1>2, <1>9 DEF ClientOK, AskedOf, s
<1>12. ASSUME NEW i \in 1 .. Len(r), i > Len(s)
       PROVE  r[i].n = n /\ (r[i].after = "kGotAll" <=> i = Len(r))
  <2>1. i - Len(s) \in 1 .. Len(q)
    BY <1>4, <1>10, <1>12
  <2>2. r[i] = q[i - Len(s)]
    BY <1>10, <1>12
  <2>3. i - Len(s) = Len(q) <=> i = Len(r)
    BY <1>4, <1>10
  <2> QED
    BY <1>4, <2>1, <2>2, <2>3
<1>13. BusyOf(c)'
  BY <1>1, <1>2 DEF ClientOK, BusyOf
<1>14. AskedOf(c)'
  <2>1. \A i \in 1 .. Len(r) : r[i].n \in 1 .. Len(asked'[c])
    <3> SUFFICES ASSUME NEW i \in 1 .. Len(r) PROVE r[i].n \in 1 .. Len(asked'[c])
      OBVIOUS
    <3>1. CASE i <= Len(s)
      BY <1>3, <1>6, <1>10, <1>11, <3>1
    <3>2. CASE i > Len(s)
      BY <1>3, <1>6, <1>12, <3>2
    <3> QED
      BY <1>10, <3>1, <3>2
  <2>2. state_'[c] = "kGotAll" => current_'[c] \in 1 .. Len(asked'[c])
    BY <1>1, <1>2, <1>3, <1>6 DEF ClientOK, AskedOf
  <2>3. \A i \in 1 .. Len(asked'[c]) : asked'[c][i] => script'[c][i].token \in dead'
    <3> SUFFICES ASSUME NEW i \in 1 .. Len(asked'[c]), asked'[c][i]
                 PROVE  script[c][i].token \in dead
      BY <1>1
    <3>1. CASE i = n
      BY <1>6, <3>1 DEF flag
    <3>2. CASE i # n
      <4>1. i \in 1 .. Len(asked[c])
        BY <1>3, <1>6, <3>2
      <4> QED
        BY <1>2, <1>6, <4>1 DEF ClientOK, AskedOf
    <3> QED
      BY <3>1, <3>2
  <2>4. \A i \in 1 .. Len(answers'[c]) :
         /\ answers'[c][i].n \in 1 .. Len(asked'[c])
         /\ answers'[c][i].status = "ok"
              /\ script'[c][answers'[c][i].n].what \in {"me", "logout", "ticket"} =>
            ~asked'[c][answers'[c][i].n]
    <3> SUFFICES ASSUME NEW i \in 1 .. Len(answers[c])
                 PROVE  /\ answers[c][i].n \in 1 .. Len(asked'[c])
                        /\ answers[c][i].status = "ok"
                             /\ script[c][answers[c][i].n].what \in {"me", "logout", "ticket"} =>
                           ~asked'[c][answers[c][i].n]
      BY <1>1
    <3> DEFINE m == answers[c][i].n
    <3>1. /\ m \in 1 .. Len(asked[c])
          /\ answers[c][i].status = "ok" /\ script[c][m].what \in {"me", "logout", "ticket"} =>
             ~asked[c][m]
      BY <1>2 DEF ClientOK, AskedOf
    <3>2. m \in 1 .. Len(asked'[c]) /\ asked'[c][m] = asked[c][m]
      BY <1>3, <1>6, <3>1
    <3> QED
      BY <3>1, <3>2
  <2>5. \A l \in Loops : busy'[l] = c =>
         /\ ~asked'[c][current_'[c]]
         /\ script'[c][current_'[c]].key \in Keys
         /\ script'[c][current_'[c]].permission \in Permissions
    BY <1>1, <1>2, <1>6 DEF ClientOK, AskedOf, BusyOf
  <2> QED
    BY <2>1, <2>2, <2>3, <2>4, <2>5 DEF AskedOf, r
<1>15. ASSUME ~closing[c] PROVE InOrder(c)'
  <2>1. InOrder(c)
    BY <1>1, <1>2, <1>15 DEF ClientOK
  <2>2. Done(c)' = Done(c) /\ Done(c) \in Nat
    <3>1. Done(c)' = Done(c)
      BY <1>1 DEF Done
    <3>2. Done(c) \in Nat
      <4>1. Len(answers[c]) \in Nat
        BY <1>3
      <4>2. CASE state_[c] = "kGotAll"
        BY <4>1, <4>2 DEF Done
      <4>3. CASE state_[c] # "kGotAll"
        BY <4>1, <4>3 DEF Done
      <4> QED
        BY <4>2, <4>3
    <3> QED
      BY <3>1, <3>2
  <2>3. Len(r) > 0 /\ Len(r) > Len(s) /\ Len(r) \in Nat
    BY <1>4, <1>10
  <2>4. \A i \in 1 .. Len(s) : s[i].n <= Len(asked[c])
    BY <1>3, <1>11
  <2>5. r[Len(r)].n = Len(asked'[c]) /\ r[Len(r)].after = "kGotAll"
    BY <1>6, <1>12, <2>3
  <2>6. r[1].n = Done(c) + 1
    <3>1. CASE Len(s) = 0
      <4>1. Done(c) = Len(asked[c])
        BY <1>10, <2>1, <3>1 DEF InOrder, s
      <4> QED
        BY <1>10, <1>12, <2>3, <3>1, <4>1
    <3>2. CASE Len(s) # 0
      <4>1. s[1].n = Done(c) + 1
        BY <1>10, <2>1, <3>2 DEF InOrder, s
      <4> QED
        BY <1>10, <3>2, <4>1
    <3> QED
      BY <3>1, <3>2
  <2>7. \A i, j \in 1 .. Len(r) : i < j => r[i].n <= r[j].n
    <3> SUFFICES ASSUME NEW i \in 1 .. Len(r), NEW j \in 1 .. Len(r), i < j PROVE r[i].n <= r[j].n
      OBVIOUS
    <3>1. CASE j <= Len(s)
      <4>1. i \in 1 .. Len(s) /\ j \in 1 .. Len(s)
        BY <1>10, <3>1
      <4>2. s[i].n <= s[j].n
        BY <2>1, <4>1 DEF InOrder, Ordered, s
      <4> QED
        BY <1>10, <4>1, <4>2
    <3>2. CASE j > Len(s)
      <4>1. r[j].n = n
        BY <1>12, <3>2
      <4>2. CASE i <= Len(s)
        <5>1. i \in 1 .. Len(s) /\ r[i] = s[i]
          BY <1>10, <4>2
        <5>2. s[i].n \in 1 .. Len(asked[c])
          BY <1>11, <5>1
        <5> QED
          BY <1>3, <4>1, <5>1, <5>2
      <4>3. CASE i > Len(s)
        BY <1>3, <1>12, <4>1, <4>3
      <4> QED
        BY <1>10, <4>2, <4>3
    <3> QED
      BY <1>10, <3>1, <3>2
  <2>8. \A i \in 1 .. Len(r) - 1 :
         r[i + 1].n = r[i].n + (IF r[i].after = "kGotAll" THEN 1 ELSE 0)
    <3> SUFFICES ASSUME NEW i \in 1 .. Len(r) - 1
                 PROVE  r[i + 1].n = r[i].n + (IF r[i].after = "kGotAll" THEN 1 ELSE 0)
      OBVIOUS
    <3>1. CASE i < Len(s)
      <4>1. i \in 1 .. Len(s) - 1 /\ i \in 1 .. Len(s) /\ i + 1 \in 1 .. Len(s)
        BY <1>10, <3>1
      <4>2. s[i + 1].n = s[i].n + (IF s[i].after = "kGotAll" THEN 1 ELSE 0)
        BY <2>1, <4>1 DEF InOrder, Ordered, s
      <4> QED
        BY <1>10, <4>1, <4>2
    <3>2. CASE i = Len(s)
      <4>1. r[i] = s[i] /\ s # <<>> /\ i + 1 \in 1 .. Len(r) /\ i + 1 > Len(s)
        BY <1>10, <3>2
      <4>2. s[i].n = Len(asked[c]) /\ s[i].after = "kGotAll"
        BY <2>1, <3>2, <4>1 DEF InOrder, s
      <4>3. r[i + 1].n = n
        BY <1>12, <4>1
      <4> QED
        BY <4>1, <4>2, <4>3
    <3>3. CASE i > Len(s)
      <4>1. i \in 1 .. Len(r) /\ i # Len(r) /\ i + 1 \in 1 .. Len(r) /\ i + 1 > Len(s)
        BY <1>10, <2>3, <3>3
      <4>2. r[i].n = n /\ r[i].after # "kGotAll" /\ r[i + 1].n = n
        BY <1>12, <3>3, <4>1
      <4> QED
        BY <1>3, <4>2
    <3> QED
      BY <1>10, <3>1, <3>2, <3>3
  <2>9. r # <<>>
    BY <2>3
  <2>10. state_'[c] = "kGotAll" => current_'[c] = Done(c)
    BY <1>1, <2>1 DEF InOrder
  <2> QED
    BY <2>2, <2>5, <2>6, <2>7, <2>8, <2>9, <2>10 DEF InOrder, Ordered, r
<1>16. \A i \in 1 .. Len(answers'[c]) : answers'[c][i].n = i
  BY <1>1, <1>2 DEF ClientOK
<1>17. ClientOK(c)'
  BY <1>1, <1>13, <1>14, <1>15, <1>16 DEF ClientOK
<1> QED
  BY <1>8, <1>17

(* An answer goes out for the request n, which is the next one. *)
LEMMA SendsKeeps ==
  ASSUME HttpTypes, NEW c \in Clients, ClientOK(c), NEW n \in 1 .. Len(asked[c]),
         NEW status \in Statuses, Sends(c, n, status),
         ~closing[c] => n = Len(answers[c]) + 1,
         status = "ok" /\ script[c][n].what \in {"me", "logout", "ticket"} => ~asked[c][n]
  PROVE  /\ answers' \in [Clients -> Seq([n : Nat, status : Statuses])]
         /\ \A d \in Clients : d # c => answers'[d] = answers[d]
         /\ ~closing[c] => Len(answers'[c]) = n
         /\ \A i \in 1 .. Len(answers'[c]) :
              /\ answers'[c][i].n = i /\ answers'[c][i].n \in 1 .. Len(asked[c])
              /\ answers'[c][i].status = "ok"
                   /\ script[c][answers'[c][i].n].what \in {"me", "logout", "ticket"} =>
                 ~asked[c][answers'[c][i].n]
<1> DEFINE T == [n : Nat, status : Statuses]
           e == [n |-> n, status |-> status]
<1>1. /\ answers \in [Clients -> Seq(T)] /\ closing[c] \in BOOLEAN /\ Len(asked[c]) \in Nat
      /\ answers[c] \in Seq(T) /\ Len(answers[c]) \in Nat
  <2>1. answers \in [Clients -> Seq(T)] /\ closing[c] \in BOOLEAN /\ asked[c] \in Seq(BOOLEAN)
    BY DEF HttpTypes
  <2> HIDE DEF T
  <2> QED
    BY <2>1
<1>2. e \in T /\ e.n = n /\ e.status = status /\ n \in Nat
  BY <1>1
<1>3. \A i \in 1 .. Len(answers[c]) :
        /\ answers[c][i].n = i /\ answers[c][i].n \in 1 .. Len(asked[c])
        /\ answers[c][i].status = "ok"
             /\ script[c][answers[c][i].n].what \in {"me", "logout", "ticket"} =>
           ~asked[c][answers[c][i].n]
  BY DEF ClientOK, AskedOf
<1>4. answers' = [answers EXCEPT ![c] = IF closing[c] THEN @ ELSE Append(@, e)]
  BY DEF Sends
<1> HIDE DEF T, e
<1>5. CASE closing[c]
  <2>1. answers' = answers
    BY <1>1, <1>4, <1>5
  <2> QED
    BY <1>1, <1>3, <1>5, <2>1 DEF T
<1>6. CASE ~closing[c]
  <2>1. answers'[c] = Append(answers[c], e) /\ \A d \in Clients : d # c => answers'[d] = answers[d]
    BY <1>1, <1>4, <1>6
  <2>2. /\ answers'[c] \in Seq(T) /\ Len(answers'[c]) = Len(answers[c]) + 1
        /\ \A i \in 1 .. Len(answers[c]) : answers'[c][i] = answers[c][i]
        /\ answers'[c][Len(answers[c]) + 1] = e
    BY <1>1, <1>2, <2>1
  <2>3. answers' \in [Clients -> Seq(T)]
    BY <1>1, <1>4, <2>1, <2>2
  <2>4. n = Len(answers[c]) + 1
    BY <1>6
  <2>5. ASSUME NEW i \in 1 .. Len(answers'[c])
        PROVE  /\ answers'[c][i].n = i /\ answers'[c][i].n \in 1 .. Len(asked[c])
               /\ answers'[c][i].status = "ok"
                    /\ script[c][answers'[c][i].n].what \in {"me", "logout", "ticket"} =>
                  ~asked[c][answers'[c][i].n]
    <3>1. CASE i = n
      BY <1>2, <2>2, <2>4, <3>1
    <3>2. CASE i # n
      <4>1. i \in 1 .. Len(answers[c])
        BY <1>1, <2>2, <2>4, <3>2
      <4> QED
        BY <1>3, <2>2, <4>1
    <3> QED
      BY <3>1, <3>2
  <2> QED
    BY <1>6, <2>1, <2>2, <2>3, <2>4, <2>5 DEF T
<1> QED
  BY <1>1, <1>5, <1>6

(* The handler answers, with "ok" only if the token it asks for is not dead. *)
Responds(c, n, status) ==
  /\ Respond(c, n, status) /\ busy' = busy
  /\ status = "ok" /\ script[c][n].what \in {"me", "logout", "ticket"} =>
       script[c][n].token \notin dead

(* What the handlers do, whichever one the router finds: the tokens stay in  *)
(* order, and either the request is answered, or the handler of /ticket      *)
(* waits for its second lock.                                                *)
LEMMA RouteIs ==
  ASSUME TokensOK, NEW c \in Clients, NEW n, route(c, n)
  PROVE  /\ TokensOK' /\ dead \subseteq dead' /\ UNCHANGED <<tickets_, minted, spent, admission>>
         /\ \/ \E status \in Statuses : Responds(c, n, status)
            \/ /\ busy' = [busy EXCEPT ![loopOf[c]] = c]
               /\ state_' = [state_ EXCEPT ![c] = "kGotAll"] /\ UNCHANGED <<answers, closing>>
               /\ script[c][n].token \notin dead
               /\ script[c][n].key \in Keys /\ script[c][n].permission \in Permissions
<1> DEFINE what == script[c][n].what
           token == script[c][n].token
           rest == /\ TokensOK' /\ dead \subseteq dead'
                   /\ UNCHANGED <<tickets_, minted, spent, admission>>
<1>1. CASE what = "health" /\ health(c, n)
  <2>1. rest
    BY <1>1 DEF health, authVars, TokensOK
  <2>2. Responds(c, n, "ok")
    BY <1>1 DEF health, Responds
  <2> QED
    BY <2>1, <2>2 DEF Statuses
<1>2. CASE what \notin Routes /\ notFound(c, n)
  <2>1. rest
    BY <1>2 DEF notFound, authVars, TokensOK
  <2>2. Responds(c, n, "notFound")
    BY <1>2 DEF notFound, Responds
  <2> QED
    BY <2>1, <2>2 DEF Statuses
<1>3. CASE what = "login" /\ login(c, n)
  <2>1. PICK status \in {"badRequest", "error", "ok"} : Respond(c, n, status) /\ busy' = busy
    BY <1>3 DEF login
  <2>2. UNCHANGED authVars \/ \E user : createSession(user)
    BY <1>3 DEF login
  <2>3. rest
    <3>1. CASE UNCHANGED authVars
      BY <3>1 DEF authVars, TokensOK
    <3>2. CASE \E user : createSession(user)
      <4>1. PICK user : createSession(user)
        BY <3>2
      <4>2. TokensOK' /\ dead' = dead
        BY <4>1, CreateSessionKeeps DEF createSession
      <4> QED
        BY <4>1, <4>2 DEF createSession
    <3> QED
      BY <2>2, <3>1, <3>2
  <2>4. Responds(c, n, status)
    BY <1>3, <2>1 DEF Responds
  <2> QED
    BY <2>3, <2>4 DEF Statuses
<1>4. CASE what = "me" /\ me(c, n)
  <2>1. verify(token) /\ busy' = busy
        /\ Respond(c, n, IF Verified(token) THEN "ok" ELSE "unauthorized")
    BY <1>4 DEF me
  <2>2. TokensOK' /\ dead \subseteq dead' /\ (Verified(token) => token \notin dead)
    BY <2>1, VerifyKeeps
  <2>3. rest
    BY <2>1, <2>2 DEF verify
  <2>4. CASE Verified(token)
    <3>1. Responds(c, n, "ok")
      BY <2>1, <2>2, <2>4 DEF Responds
    <3> QED
      BY <2>3, <3>1 DEF Statuses
  <2>5. CASE ~Verified(token)
    <3>1. Responds(c, n, "unauthorized")
      BY <2>1, <2>5 DEF Responds
    <3> QED
      BY <2>3, <3>1 DEF Statuses
  <2> QED
    BY <2>4, <2>5
<1>5. CASE what = "logout" /\ logout(c, n)
  <2>1. remove(token) /\ busy' = busy
        /\ Respond(c, n, IF Removes(token) THEN "ok" ELSE "unauthorized")
    BY <1>5 DEF logout
  <2>2. TokensOK' /\ dead \subseteq dead' /\ (Removes(token) => token \notin dead)
    BY <2>1, RemoveKeeps
  <2>3. rest
    BY <2>1, <2>2 DEF remove
  <2>4. CASE Removes(token)
    <3>1. Responds(c, n, "ok")
      BY <2>1, <2>2, <2>4 DEF Responds
    <3> QED
      BY <2>3, <3>1 DEF Statuses
  <2>5. CASE ~Removes(token)
    <3>1. Responds(c, n, "unauthorized")
      BY <2>1, <2>5 DEF Responds
    <3> QED
      BY <2>3, <3>1 DEF Statuses
  <2> QED
    BY <2>4, <2>5
<1>6. CASE what = "ticket" /\ ticket(c, n)
  <2>1. verify(token)
    BY <1>6 DEF ticket
  <2>2. TokensOK' /\ dead \subseteq dead' /\ (Verified(token) => token \notin dead)
    BY <2>1, VerifyKeeps
  <2>3. rest
    BY <2>1, <2>2 DEF verify
  <2>4. CASE ~Verified(token) /\ Respond(c, n, "unauthorized") /\ UNCHANGED busy
    <3>1. Responds(c, n, "unauthorized")
      BY <2>4 DEF Responds
    <3> QED
      BY <2>3, <3>1 DEF Statuses
  <2>5. CASE Verified(token) /\ Respond(c, n, "badRequest") /\ UNCHANGED busy
    <3>1. Responds(c, n, "badRequest")
      BY <2>5 DEF Responds
    <3> QED
      BY <2>3, <3>1 DEF Statuses
  <2>6. CASE /\ Verified(token) /\ ValidTicketBody(script[c][n])
             /\ busy' = [busy EXCEPT ![loopOf[c]] = c]
             /\ state_' = [state_ EXCEPT ![c] = "kGotAll"]
             /\ UNCHANGED <<answers, closing>>
    BY <2>2, <2>3, <2>6 DEF ValidTicketBody
  <2> QED
    BY <1>6, <2>4, <2>5, <2>6 DEF ticket
<1> QED
  BY <1>1, <1>2, <1>3, <1>4, <1>5, <1>6 DEF route

(* r is a stream s in order, up to the end of request N, without t parts.    *)
IsRest(s, r, t, N) ==
  /\ Ordered(s) /\ s # <<>> /\ t <= Len(s) /\ Len(r) = Len(s) - t
  /\ \A i \in 1 .. Len(r) : r[i] = s[i + t]
  /\ s[Len(s)].n = N /\ s[Len(s)].after = "kGotAll"

(* Then r is in order, too, and begins where request s[1].n left off. *)
RestOrdered(s, r, t, N) ==
  /\ Ordered(r)
  /\ r # <<>> => r[Len(r)].n = N /\ r[Len(r)].after = "kGotAll"
  /\ t > 0 /\ s[t].n = s[1].n =>
       /\ s[t].after = "kGotAll" /\ r # <<>> => r[1].n = s[1].n + 1
       /\ s[t].after = "kGotAll" /\ r = <<>> => s[1].n = N
       /\ s[t].after # "kGotAll" => r # <<>> /\ r[1].n = s[1].n

(* What is left of a stream in order, after t parts of one request.          *)
LEMMA CutOrder ==
  ASSUME NEW s \in Seq(PartsOf), NEW r \in Seq(PartsOf), NEW t \in Nat, NEW N \in Nat
  PROVE  IsRest(s, r, t, N) => RestOrdered(s, r, t, N)
<1> SUFFICES ASSUME Ordered(s), s # <<>>, t <= Len(s), Len(r) = Len(s) - t,
                    \A i \in 1 .. Len(r) : r[i] = s[i + t],
                    s[Len(s)].n = N, s[Len(s)].after = "kGotAll"
             PROVE  RestOrdered(s, r, t, N)
  BY Zenon DEF IsRest
<1>1. Len(s) \in Nat /\ Len(r) \in Nat /\ (s # <<>> <=> Len(s) > 0) /\ (r # <<>> <=> Len(r) > 0)
      /\ \A i \in 1 .. Len(s) : s[i].n \in Nat
  <2>1. Len(s) \in Nat /\ Len(r) \in Nat /\ (s # <<>> <=> Len(s) > 0)
    OBVIOUS
  <2>2. r # <<>> <=> Len(r) > 0
    BY <2>1, EmptySeq
  <2>3. \A i \in 1 .. Len(s) : s[i] \in PartsOf
    OBVIOUS
  <2> QED
    BY <2>1, <2>2, <2>3 DEF PartsOf
<1>2. Ordered(r)
  <2>1. ASSUME NEW i \in 1 .. Len(r), NEW j \in 1 .. Len(r), i < j PROVE r[i].n <= r[j].n
    <3>1. i + t \in 1 .. Len(s) /\ j + t \in 1 .. Len(s) /\ i + t < j + t
      BY <1>1, <2>1
    <3>2. s[i + t].n <= s[j + t].n
      BY <3>1 DEF Ordered
    <3> QED
      BY <3>2
  <2>2. ASSUME NEW i \in 1 .. Len(r) - 1
        PROVE  r[i + 1].n = r[i].n + (IF r[i].after = "kGotAll" THEN 1 ELSE 0)
    <3>1. i + t \in 1 .. Len(s) - 1 /\ i \in 1 .. Len(r) /\ i + 1 \in 1 .. Len(r)
          /\ (i + 1) + t = (i + t) + 1
      BY <1>1
    <3>2. s[(i + t) + 1].n = s[i + t].n + (IF s[i + t].after = "kGotAll" THEN 1 ELSE 0)
      BY <3>1 DEF Ordered
    <3>3. r[i] = s[i + t] /\ r[i + 1] = s[(i + t) + 1]
      <4>1. r[i] = s[i + t]
        BY <3>1
      <4>2. r[i + 1] = s[(i + 1) + t]
        BY <3>1
      <4> QED
        BY <3>1, <4>1, <4>2
    <3> QED
      BY <3>2, <3>3
  <2> QED
    BY <2>1, <2>2 DEF Ordered
<1>3. ASSUME r # <<>> PROVE r[Len(r)] = s[Len(s)] /\ r[1] = s[1 + t] /\ t + 1 \in 1 .. Len(s)
  <2>1. Len(r) \in 1 .. Len(r) /\ 1 \in 1 .. Len(r) /\ Len(r) + t = Len(s) /\ t + 1 \in 1 .. Len(s)
    BY <1>1, <1>3
  <2>2. r[Len(r)] = s[Len(r) + t]
    BY <2>1
  <2>3. r[1] = s[1 + t]
    BY <2>1
  <2> QED
    BY <2>1, <2>2, <2>3
<1>4. ASSUME t > 0, s[t].n = s[1].n, r # <<>>
      PROVE  r[1].n = s[1].n + (IF s[t].after = "kGotAll" THEN 1 ELSE 0)
  <2>1. t \in 1 .. Len(s) - 1 /\ 1 + t = t + 1
    <3>1. t + 1 \in 1 .. Len(s)
      BY <1>3, <1>4
    <3>2. Len(s) \in Nat
      BY <1>1
    <3> QED
      BY <1>4, <3>1, <3>2
  <2>2. s[t + 1].n = s[t].n + (IF s[t].after = "kGotAll" THEN 1 ELSE 0)
    BY <2>1 DEF Ordered
  <2> QED
    BY <1>3, <1>4, <2>1, <2>2
<1>5. ASSUME r = <<>> PROVE t = Len(s)
  BY <1>1, <1>5
<1>6. s[1].n \in Nat
  BY <1>1
<1>7. r # <<>> => r[Len(r)].n = N /\ r[Len(r)].after = "kGotAll"
  BY <1>3
<1>8. ASSUME t > 0, s[t].n = s[1].n
      PROVE  /\ s[t].after = "kGotAll" /\ r # <<>> => r[1].n = s[1].n + 1
             /\ s[t].after = "kGotAll" /\ r = <<>> => s[1].n = N
             /\ s[t].after # "kGotAll" => r # <<>> /\ r[1].n = s[1].n
  <2>1. CASE r = <<>>
    <3>1. t = Len(s)
      BY <1>5, <2>1
    <3>2. s[t].n = N /\ s[t].after = "kGotAll"
      BY <3>1
    <3> QED
      BY <1>8, <2>1, <3>2, Zenon
  <2>2. CASE r # <<>>
    <3>1. r[1].n = s[1].n + (IF s[t].after = "kGotAll" THEN 1 ELSE 0)
      BY <1>4, <1>8, <2>2
    <3>2. s[t].after # "kGotAll" => r[1].n = s[1].n
      BY <1>6, <3>1
    <3>3. s[t].after = "kGotAll" => r[1].n = s[1].n + 1
      BY <3>1
    <3> QED
      BY <2>2, <3>2, <3>3, Zenon
  <2> QED
    BY <2>1, <2>2, Zenon
<1> QED
  BY <1>2, <1>7, <1>8, Zenon DEF RestOrdered

(* HttpServer::onMessage as the client sees it: m of the parts that came are *)
(* taken from the stream, all of request n, and what becomes of the request. *)
LEMMA MessageIs ==
  ASSUME Inv, NEW c \in Clients, NEW k \in 0 .. Len(wire[c]), onMessage(c, k)
  PROVE  \E m \in Nat, n \in Nat :
           /\ m <= Len(Stream(c)) /\ Len(Stream(c)') = Len(Stream(c)) - m
           /\ Stream(c) \in Seq(PartsOf) /\ Stream(c)' \in Seq(PartsOf)
           /\ \A i \in 1 .. Len(Stream(c)') : Stream(c)'[i] = Stream(c)[i + m]
           /\ wire' \in [Clients -> Seq(PartsOf)] /\ buf' \in [Clients -> Seq(PartsOf)]
           /\ current_' \in [Clients -> Nat] /\ current_'[c] = n
           /\ \/ /\ Stream(c) # <<>>
                 /\ Sends(c, Stream(c)[1].n, "badRequest")
                 /\ closing' = [closing EXCEPT ![c] = TRUE]
                 /\ \E st \in States \ {"kGotAll"} : state_' = [state_ EXCEPT ![c] = st]
                 /\ UNCHANGED <<busy, authVars>>
              \/ /\ m > 0 /\ n = Stream(c)[1].n /\ Stream(c)[m].after = "kGotAll"
                 /\ Ordered(Stream(c)) => Stream(c)[m].n = n
                 /\ route(c, n)
              \/ /\ m > 0 /\ Stream(c)[m].after # "kGotAll"
                 /\ Ordered(Stream(c)) => Stream(c)[m].n = Stream(c)[1].n
                 /\ state_' = [state_ EXCEPT ![c] = Stream(c)[m].after]
                 /\ UNCHANGED <<answers, closing, busy, authVars>>
              \/ m = 0 /\ state_' = state_ /\ UNCHANGED <<answers, closing, busy, authVars>>
<1> DEFINE w == wire[c]
           u == buf[c]
           b == u \o SubSeq(w, 1, k)
           p == parseRequest(state_[c], b)
           n == IF p.taken > 0 THEN b[1].n ELSE current_[c]
           m == p.taken
           s == Stream(c)
           r == Stream(c)'
           y == SubSeq(b, m + 1, Len(b))
           z == SubSeq(w, k + 1, Len(w))
<1>1. HttpTypes /\ ClientOK(c) /\ PoolOK /\ AcceptOK
  BY DEF Inv
<1>2. /\ u \in Seq(PartsOf) /\ w \in Seq(PartsOf) /\ state_[c] \in States /\ current_[c] \in Nat
      /\ wire \in [Clients -> Seq(PartsOf)] /\ buf \in [Clients -> Seq(PartsOf)]
      /\ current_ \in [Clients -> Nat] /\ state_ \in [Clients -> States]
  BY <1>1 DEF HttpTypes
<1>3. /\ client[c] = "open" /\ busy[loopOf[c]] = Nobody
      /\ wire' = [wire EXCEPT ![c] = z] /\ buf' = [buf EXCEPT ![c] = y]
      /\ current_' = [current_ EXCEPT ![c] = n]
      /\ \/ /\ ~p.ok
            /\ Sends(c, b[p.taken + 1].n, "badRequest")
            /\ closing' = [closing EXCEPT ![c] = TRUE]
            /\ state_' = [state_ EXCEPT ![c] = p.state]
            /\ UNCHANGED <<busy, authVars>>
         \/ /\ p.ok /\ p.state = "kGotAll"
            /\ route(c, n)
         \/ /\ p.ok /\ p.state # "kGotAll"
            /\ state_' = [state_ EXCEPT ![c] = p.state]
            /\ UNCHANGED <<answers, closing, busy, authVars>>
  BY DEF onMessage, AtPoll
<1>4. state_[c] # "kGotAll"
  BY <1>1, <1>3, ClientsAssumption DEF ClientOK, BusyOf
<1>5. b \in Seq(PartsOf)
  <2> DEFINE x == SubSeq(w, 1, k)
  <2>1. x \in Seq(PartsOf)
    BY <1>2
  <2> HIDE DEF u, x
  <2> QED
    BY <1>2, <2>1 DEF x
<1>6. /\ p.ok \in BOOLEAN /\ m \in 0 .. Len(b) /\ p.state \in States
      /\ b = <<>> => p.ok /\ m = 0 /\ p.state = state_[c]
      /\ ~p.ok => b # <<>> /\ m < Len(b) /\ b[m + 1].n = b[1].n /\ p.state # "kGotAll"
      /\ p.ok /\ b # <<>> => m > 0 /\ p.state = b[m].after
      /\ p.ok /\ b # <<>> /\ Ordered(b) => b[m].n = b[1].n
  <2>1. p = parseRequest(state_[c], b) /\ state_[c] \in States \ {"kGotAll"}
    BY <1>2, <1>4
  <2> HIDE DEF b, p
  <2> QED
    BY <1>5, <2>1, ParseIs
<1>7. s = u \o w
  BY DEF Stream
<1>8. r = y \o z
  <2>1. wire'[c] = z /\ buf'[c] = y
    BY <1>2, <1>3
  <2> QED
    BY <2>1 DEF Stream
<1>9. /\ s \in Seq(PartsOf) /\ r \in Seq(PartsOf) /\ y \in Seq(PartsOf) /\ z \in Seq(PartsOf)
      /\ \A i \in 1 .. Len(b) : b[i] = s[i]
      /\ Len(b) <= Len(s) /\ Len(r) = Len(s) - m
      /\ \A i \in 1 .. Len(r) : r[i] = s[i + m]
  <2>1. b = u \o SubSeq(w, 1, k) /\ y = SubSeq(b, m + 1, Len(b)) /\ z = SubSeq(w, k + 1, Len(w))
    OBVIOUS
  <2>2. k \in 0 .. Len(w)
    OBVIOUS
  <2>3. u \in Seq(PartsOf) /\ w \in Seq(PartsOf) /\ m \in 0 .. Len(b)
    BY <1>2, <1>6
  <2> HIDE DEF b, y, z, s, r, w, u, m, p
  <2>4. IsCut(u, w, k, b, m, y, z, s, r)
    BY <1>7, <1>8, <2>1, <2>3, Zenon DEF IsCut
  <2>5. CutsTo(b, m, y, z, s, r)
    BY <2>2, <2>3, <2>4, Cut, Zenon
  <2> QED
    BY <2>5, Zenon DEF CutsTo
<1> HIDE DEF w, u, b, p, s, r, y, z
<1>10. /\ Len(b) \in Nat /\ Len(s) \in Nat /\ m \in Nat /\ m <= Len(b) /\ m <= Len(s)
       /\ (b # <<>> => Len(b) > 0 /\ Len(s) > 0 /\ s # <<>> /\ b[1] = s[1] /\ b[1].n \in Nat)
       /\ (Len(b) > 0 => b # <<>>)
  <2>1. Len(b) \in Nat /\ (b # <<>> <=> Len(b) > 0) /\ \A i \in 1 .. Len(b) : b[i] \in PartsOf
    BY <1>5
  <2>2. Len(s) \in Nat /\ (s # <<>> <=> Len(s) > 0)
    BY <1>9
  <2>3. m \in Nat /\ m <= Len(b) /\ m <= Len(s)
    BY <1>6, <1>9, <2>1, <2>2
  <2>4. b # <<>> => b[1] \in PartsOf /\ b[1] = s[1] /\ Len(b) > 0 /\ Len(s) > 0
    BY <1>9, <2>1, <2>2
  <2> QED
    BY <2>1, <2>2, <2>3, <2>4 DEF PartsOf
<1>11. n \in Nat
  BY <1>2, <1>6, <1>10
<1>12. /\ wire' \in [Clients -> Seq(PartsOf)] /\ buf' \in [Clients -> Seq(PartsOf)]
       /\ current_' \in [Clients -> Nat] /\ current_'[c] = n
  <2> HIDE DEF n
  <2> QED
    BY <1>2, <1>3, <1>9, <1>11
<1>13. ASSUME Ordered(s) PROVE Ordered(b)
  <2>1. ASSUME NEW i \in 1 .. Len(b), NEW j \in 1 .. Len(b), i < j PROVE b[i].n <= b[j].n
    <3>1. i \in 1 .. Len(s) /\ j \in 1 .. Len(s)
      BY <1>9, <1>10
    <3> QED
      BY <1>9, <1>13, <2>1, <3>1 DEF Ordered
  <2>2. ASSUME NEW i \in 1 .. Len(b) - 1
        PROVE  b[i + 1].n = b[i].n + (IF b[i].after = "kGotAll" THEN 1 ELSE 0)
    <3>1. i \in 1 .. Len(s) - 1 /\ i \in 1 .. Len(b) /\ i + 1 \in 1 .. Len(b)
      BY <1>9, <1>10
    <3>2. s[i + 1].n = s[i].n + (IF s[i].after = "kGotAll" THEN 1 ELSE 0)
      BY <1>13, <3>1 DEF Ordered
    <3> QED
      BY <1>9, <3>1, <3>2
  <2> QED
    BY <2>1, <2>2 DEF Ordered
<1> DEFINE Outcome ==
   \/ /\ s # <<>>
      /\ Sends(c, s[1].n, "badRequest")
      /\ closing' = [closing EXCEPT ![c] = TRUE]
      /\ \E st \in States \ {"kGotAll"} : state_' = [state_ EXCEPT ![c] = st]
      /\ UNCHANGED <<busy, authVars>>
   \/ /\ m > 0 /\ n = s[1].n /\ s[m].after = "kGotAll"
      /\ Ordered(s) => s[m].n = n
      /\ route(c, n)
   \/ /\ m > 0 /\ s[m].after # "kGotAll"
      /\ Ordered(s) => s[m].n = s[1].n
      /\ state_' = [state_ EXCEPT ![c] = s[m].after]
      /\ UNCHANGED <<answers, closing, busy, authVars>>
   \/ m = 0 /\ state_' = state_ /\ UNCHANGED <<answers, closing, busy, authVars>>
<1>14. ASSUME p.ok, b # <<>>
       PROVE  /\ m > 0 /\ n = s[1].n /\ s[m].after = p.state
              /\ Ordered(s) => s[m].n = s[1].n
  <2>1. m > 0 /\ b[m].after = p.state /\ m \in 1 .. Len(b)
    BY <1>6, <1>10, <1>14
  <2>2. b[m] = s[m] /\ b[1] = s[1] /\ n = b[1].n
    BY <1>9, <1>10, <1>14, <2>1
  <2> QED
    BY <1>6, <1>13, <1>14, <2>1, <2>2
<1>15. Outcome
  <2>1. CASE /\ ~p.ok
             /\ Sends(c, b[p.taken + 1].n, "badRequest")
             /\ closing' = [closing EXCEPT ![c] = TRUE]
             /\ state_' = [state_ EXCEPT ![c] = p.state]
             /\ UNCHANGED <<busy, authVars>>
    <3>1. b # <<>> /\ b[p.taken + 1].n = s[1].n /\ s # <<>> /\ p.state \in States \ {"kGotAll"}
      BY <1>6, <1>10, <2>1
    <3>2. Sends(c, s[1].n, "badRequest")
      BY <2>1, <3>1
    <3> QED
      BY <2>1, <3>1, <3>2
  <2>2. CASE p.ok /\ p.state = "kGotAll" /\ route(c, n)
    <3>1. b # <<>>
      BY <1>4, <1>6, <2>2
    <3> QED
      BY <1>14, <2>2, <3>1
  <2>3. CASE /\ p.ok /\ p.state # "kGotAll"
             /\ state_' = [state_ EXCEPT ![c] = p.state]
             /\ UNCHANGED <<answers, closing, busy, authVars>>
    <3>1. CASE b = <<>>
      <4>1. m = 0 /\ p.state = state_[c]
        BY <1>6, <3>1
      <4>2. state_' = state_
        BY <1>2, <2>3, <4>1
      <4> QED
        BY <2>3, <4>1, <4>2
    <3>2. CASE b # <<>>
      BY <1>14, <2>3, <3>2
    <3> QED
      BY <3>1, <3>2
  <2> QED
    BY <1>3, <2>1, <2>2, <2>3
<1> HIDE DEF n, m
<1> QED
  BY <1>9, <1>10, <1>11, <1>12, <1>15 DEF s, r

(* Between requests nobody waits for the connection's second lock. *)
LEMMA IdleLoop ==
  ASSUME Inv, NEW c \in Clients, client[c] = "open", busy[loopOf[c]] = Nobody
  PROVE  /\ state_[c] # "kGotAll" /\ loopOf[c] \in Loops /\ \A l \in Loops : busy[l] # c
         /\ Done(c) = Len(answers[c]) /\ Len(answers[c]) \in Nat
<1>1. ClientOK(c) /\ HttpTypes /\ PoolOK /\ AcceptOK
  BY DEF Inv
<1>2. state_[c] # "kGotAll"
  BY <1>1, ClientsAssumption DEF ClientOK, BusyOf
<1>3. Len(answers[c]) \in Nat
  BY <1>1 DEF HttpTypes
<1>4. Done(c) = Len(answers[c])
  BY <1>2, <1>3 DEF Done
<1> QED
  BY <1>1, <1>2, <1>3, <1>4, LoopOfOpen DEF ClientOK, BusyOf

(* HttpServer::onMessage keeps the connection's part of the invariant.       *)
LEMMA ServeKeeps ==
  ASSUME Inv, NEW c \in Clients, Serve(c)
  PROVE  /\ HttpTypes' /\ ClientOK(c)' /\ TokensOK' /\ TicketsOK' /\ dead \subseteq dead'
         /\ script' = script
         /\ \A d \in Clients : d # c =>
              /\ asked'[d] = asked[d] /\ wire'[d] = wire[d] /\ buf'[d] = buf[d]
              /\ state_'[d] = state_[d] /\ current_'[d] = current_[d] /\ answers'[d] = answers[d]
              /\ closing'[d] = closing[d] /\ \A l \in Loops : busy'[l] = d <=> busy[l] = d
<1> DEFINE s == Stream(c)
           r == Stream(c)'
<1>1. /\ HttpTypes /\ ClientOK(c) /\ TokensOK /\ TicketsOK /\ BusyOf(c) /\ AskedOf(c)
      /\ \A i \in 1 .. Len(answers[c]) : answers[c][i].n = i
  BY DEF Inv, ClientOK
<1>2. PICK k \in 0 .. Len(wire[c]) : onMessage(c, k) /\ UNCHANGED <<poolVars, acceptVars>>
  BY DEF Serve
<1>3. PICK m \in Nat, n \in Nat :
        /\ m <= Len(s) /\ Len(r) = Len(s) - m
        /\ s \in Seq(PartsOf) /\ r \in Seq(PartsOf)
        /\ \A i \in 1 .. Len(r) : r[i] = s[i + m]
        /\ wire' \in [Clients -> Seq(PartsOf)] /\ buf' \in [Clients -> Seq(PartsOf)]
        /\ current_' \in [Clients -> Nat] /\ current_'[c] = n
        /\ \/ /\ s # <<>>
              /\ Sends(c, s[1].n, "badRequest")
              /\ closing' = [closing EXCEPT ![c] = TRUE]
              /\ \E st \in States \ {"kGotAll"} : state_' = [state_ EXCEPT ![c] = st]
              /\ UNCHANGED <<busy, authVars>>
           \/ /\ m > 0 /\ n = s[1].n /\ s[m].after = "kGotAll"
              /\ Ordered(s) => s[m].n = n
              /\ route(c, n)
           \/ /\ m > 0 /\ s[m].after # "kGotAll"
              /\ Ordered(s) => s[m].n = s[1].n
              /\ state_' = [state_ EXCEPT ![c] = s[m].after]
              /\ UNCHANGED <<answers, closing, busy, authVars>>
           \/ m = 0 /\ state_' = state_ /\ UNCHANGED <<answers, closing, busy, authVars>>
  BY <1>2, MessageIs
<1>4. /\ client[c] = "open" /\ busy[loopOf[c]] = Nobody
      /\ script' = script /\ asked' = asked /\ client' = client /\ loopOf' = loopOf
      /\ \A d \in Clients : d # c =>
           wire'[d] = wire[d] /\ buf'[d] = buf[d] /\ current_'[d] = current_[d]
  <2>1. \A d \in Clients : d # c => wire'[d] = wire[d]
    BY <1>1, <1>2 DEF onMessage, HttpTypes
  <2>2. \A d \in Clients : d # c => buf'[d] = buf[d]
    BY <1>1, <1>2 DEF onMessage, HttpTypes
  <2>3. \A d \in Clients : d # c => current_'[d] = current_[d]
    BY <1>1, <1>2 DEF onMessage, HttpTypes
  <2> QED
    BY <1>2, <2>1, <2>2, <2>3 DEF onMessage, AtPoll, acceptVars
<1>5. /\ state_[c] # "kGotAll" /\ loopOf[c] \in Loops /\ \A l \in Loops : busy[l] # c
      /\ Done(c) = Len(answers[c]) /\ Len(answers[c]) \in Nat /\ Len(asked[c]) \in Nat
  BY <1>1, <1>4, IdleLoop DEF HttpTypes
<1> HIDE DEF s, r
<1>6. /\ Len(s) \in Nat /\ Len(r) \in Nat /\ (s # <<>> <=> Len(s) > 0) /\ (r # <<>> <=> Len(r) > 0)
      /\ \A i \in 1 .. Len(s) : s[i] \in PartsOf /\ s[i].n \in 1 .. Len(asked[c])
  <2>1. Len(s) \in Nat /\ Len(r) \in Nat /\ (s # <<>> <=> Len(s) > 0) /\ (r # <<>> <=> Len(r) > 0)
    BY <1>3
  <2>2. \A i \in 1 .. Len(s) : s[i].n \in 1 .. Len(asked[c])
    BY <1>1 DEF AskedOf, s
  <2>3. \A i \in 1 .. Len(s) : s[i] \in PartsOf
    BY <1>3
  <2> QED
    BY <2>1, <2>2, <2>3
<1>7. \A i \in 1 .. Len(r) : r[i].n \in 1 .. Len(asked[c])
  <2> SUFFICES ASSUME NEW i \in 1 .. Len(r) PROVE r[i].n \in 1 .. Len(asked[c])
    OBVIOUS
  <2>1. i + m \in 1 .. Len(s) /\ r[i] = s[i + m]
    BY <1>3, <1>6
  <2> QED
    BY <1>6, <2>1
<1>8. ASSUME ~closing[c]
      PROVE  /\ InOrder(c) /\ Ordered(s)
             /\ s # <<>> => s[1].n = Len(answers[c]) + 1
             /\ s = <<>> => Len(answers[c]) = Len(asked[c])
             /\ Ordered(r)
             /\ s # <<>> /\ r # <<>> => r[Len(r)].n = Len(asked[c]) /\ r[Len(r)].after = "kGotAll"
             /\ m > 0 /\ s[m].n = s[1].n =>
                  /\ s[m].after = "kGotAll" /\ r # <<>> => r[1].n = s[1].n + 1
                  /\ s[m].after = "kGotAll" /\ r = <<>> => s[1].n = Len(asked[c])
                  /\ s[m].after # "kGotAll" => r # <<>> /\ r[1].n = s[1].n
  <2>1. InOrder(c)
    BY <1>1, <1>4, <1>8 DEF ClientOK
  <2>2. /\ Ordered(s) /\ (s # <<>> => s[1].n = Len(answers[c]) + 1)
        /\ (s # <<>> => s[Len(s)].n = Len(asked[c]) /\ s[Len(s)].after = "kGotAll")
        /\ (s = <<>> => Len(answers[c]) = Len(asked[c]))
    BY <1>5, <2>1 DEF InOrder, s
  <2>3. CASE s # <<>>
    <3>1. /\ m \in Nat /\ m <= Len(s) /\ Len(r) = Len(s) - m
          /\ s \in Seq(PartsOf) /\ r \in Seq(PartsOf) /\ \A i \in 1 .. Len(r) : r[i] = s[i + m]
      BY <1>3
    <3>2. IsRest(s, r, m, Len(asked[c]))
      BY <2>2, <2>3, <3>1 DEF IsRest
    <3>3. RestOrdered(s, r, m, Len(asked[c]))
      BY <1>5, <3>1, <3>2, CutOrder, Zenon
    <3> QED
      BY <2>1, <2>2, <2>3, <3>3 DEF RestOrdered
  <2>4. CASE s = <<>>
    <3>1. Len(r) = 0 /\ m = 0
      BY <1>3, <1>6, <2>4
    <3>2. Ordered(r)
      BY <3>1 DEF Ordered
    <3> QED
      BY <2>1, <2>2, <2>4, <3>1, <3>2
  <2> QED
    BY <2>3, <2>4
<1> DEFINE Others == \A d \in Clients : d # c =>
              /\ asked'[d] = asked[d] /\ wire'[d] = wire[d] /\ buf'[d] = buf[d]
              /\ state_'[d] = state_[d] /\ current_'[d] = current_[d] /\ answers'[d] = answers[d]
              /\ closing'[d] = closing[d] /\ \A l \in Loops : busy'[l] = d <=> busy[l] = d
           Sent == \A i \in 1 .. Len(answers'[c]) :
              /\ answers'[c][i].n = i /\ answers'[c][i].n \in 1 .. Len(asked[c])
              /\ answers'[c][i].status = "ok"
                   /\ script[c][answers'[c][i].n].what \in {"me", "logout", "ticket"} =>
                 ~asked[c][answers'[c][i].n]
<1>9. ASSUME state_'[c] # "kGotAll", busy' = busy, dead \subseteq dead', Sent,
             ~closing'[c] => InOrder(c)'
      PROVE  ClientOK(c)'
  <2>1. BusyOf(c)'
    BY <1>4, <1>5, <1>9 DEF BusyOf
  <2>2. \A i \in 1 .. Len(asked'[c]) : asked'[c][i] => script'[c][i].token \in dead'
    BY <1>1, <1>4, <1>9 DEF AskedOf
  <2>3. AskedOf(c)'
    BY <1>4, <1>5, <1>7, <1>9, <2>2 DEF AskedOf, r
  <2> QED
    BY <1>4, <1>9, <2>1, <2>3 DEF ClientOK
<1>10. ASSUME answers' = answers PROVE Sent
  BY <1>1, <1>10 DEF AskedOf
<1>11. ASSUME UNCHANGED authVars PROVE TokensOK' /\ TicketsOK' /\ dead \subseteq dead'
  BY <1>1, <1>11 DEF authVars, TokensOK, TicketsOK, TicketsSound
<1>12. CASE /\ s # <<>>
            /\ Sends(c, s[1].n, "badRequest")
            /\ closing' = [closing EXCEPT ![c] = TRUE]
            /\ \E st \in States \ {"kGotAll"} : state_' = [state_ EXCEPT ![c] = st]
            /\ UNCHANGED <<busy, authVars>>
  <2>1. s[1].n \in 1 .. Len(asked[c]) /\ (~closing[c] => s[1].n = Len(answers[c]) + 1)
    BY <1>6, <1>8, <1>12
  <2>2. "badRequest" \in Statuses
    BY DEF Statuses
  <2>3. /\ answers' \in [Clients -> Seq([n : Nat, status : Statuses])] /\ Sent
        /\ \A d \in Clients : d # c => answers'[d] = answers[d]
    BY <1>1, <1>12, <2>1, <2>2, SendsKeeps
  <2>4. PICK st \in States \ {"kGotAll"} : state_' = [state_ EXCEPT ![c] = st]
    BY <1>12
  <2>5. /\ state_' \in [Clients -> States] /\ state_'[c] # "kGotAll"
        /\ \A d \in Clients : d # c => state_'[d] = state_[d]
    BY <1>1, <2>4 DEF HttpTypes
  <2>6. /\ closing' \in [Clients -> BOOLEAN] /\ closing'[c]
        /\ \A d \in Clients : d # c => closing'[d] = closing[d]
    BY <1>1, <1>12 DEF HttpTypes
  <2>7. busy' = busy /\ TokensOK' /\ TicketsOK' /\ dead \subseteq dead'
    BY <1>11, <1>12
  <2>8. HttpTypes'
    BY <1>1, <1>3, <1>4, <2>3, <2>5, <2>6, <2>7 DEF HttpTypes
  <2>9. ClientOK(c)'
    BY <1>9, <2>3, <2>5, <2>6, <2>7
  <2>10. Others
    BY <1>4, <2>3, <2>5, <2>6, <2>7
  <2> QED
    BY <1>4, <2>7, <2>8, <2>9, <2>10
<1>13. CASE /\ m > 0 /\ n = s[1].n /\ s[m].after = "kGotAll"
            /\ Ordered(s) => s[m].n = n
            /\ route(c, n)
  <2>1. s # <<>> /\ n \in 1 .. Len(asked[c]) /\ (~closing[c] => n = Len(answers[c]) + 1)
    BY <1>3, <1>6, <1>8, <1>13
  <2>2. /\ TokensOK' /\ dead \subseteq dead' /\ UNCHANGED <<tickets_, minted, spent, admission>>
        /\ \/ \E status \in Statuses : Responds(c, n, status)
           \/ /\ busy' = [busy EXCEPT ![loopOf[c]] = c]
              /\ state_' = [state_ EXCEPT ![c] = "kGotAll"] /\ UNCHANGED <<answers, closing>>
              /\ script[c][n].token \notin dead
              /\ script[c][n].key \in Keys /\ script[c][n].permission \in Permissions
    BY <1>1, <1>13, RouteIs, Zenon
  <2>3. TicketsOK'
    BY <1>1, <2>2 DEF TicketsOK, TicketsSound
  <2>4. ASSUME script[c][n].token \notin dead PROVE ~asked[c][n]
    BY <1>1, <2>1, <2>4 DEF AskedOf
  <2>5. ASSUME ~closing[c]
        PROVE  /\ Ordered(r) /\ n = Len(answers[c]) + 1
               /\ r # <<>> => r[1].n = n + 1 /\ r[Len(r)].n = Len(asked[c])
                              /\ r[Len(r)].after = "kGotAll"
               /\ r = <<>> => n = Len(asked[c])
    BY <1>8, <1>13, <2>1, <2>5
  <2>6. CASE \E status \in Statuses : Responds(c, n, status)
    <3>1. PICK status \in Statuses : Responds(c, n, status)
      BY <2>6
    <3>2. /\ Sends(c, n, status) /\ busy' = busy
          /\ closing' = [closing EXCEPT ![c] = @ \/ Closes(script[c][n])]
          /\ state_' = [state_ EXCEPT ![c] = "kExpectRequestLine"]
      BY <3>1 DEF Responds, Respond, Reset
    <3>3. status = "ok" /\ script[c][n].what \in {"me", "logout", "ticket"} => ~asked[c][n]
      BY <2>4, <3>1 DEF Responds
    <3>4. /\ answers' \in [Clients -> Seq([n : Nat, status : Statuses])] /\ Sent
          /\ \A d \in Clients : d # c => answers'[d] = answers[d]
          /\ ~closing[c] => Len(answers'[c]) = n
      BY <1>1, <2>1, <3>2, <3>3, SendsKeeps
    <3>5. /\ state_' \in [Clients -> States] /\ state_'[c] = "kExpectRequestLine"
          /\ \A d \in Clients : d # c => state_'[d] = state_[d]
      BY <1>1, <3>2 DEF HttpTypes, States
    <3>6. /\ closing' \in [Clients -> BOOLEAN] /\ (~closing'[c] => ~closing[c])
          /\ \A d \in Clients : d # c => closing'[d] = closing[d]
      BY <1>1, <3>2 DEF HttpTypes, Closes
    <3>7. HttpTypes'
      BY <1>1, <1>3, <1>4, <3>2, <3>4, <3>5, <3>6 DEF HttpTypes
    <3>8. ASSUME ~closing'[c] PROVE InOrder(c)'
      <4>1. Done(c)' = n
        <5>1. Len(answers'[c]) = n
          BY <3>4, <3>6, <3>8
        <5> QED
          BY <3>5, <5>1 DEF Done
      <4> QED
        BY <1>4, <2>5, <3>5, <3>6, <3>8, <4>1 DEF InOrder, r
    <3>9. ClientOK(c)'
      BY <1>9, <2>2, <3>2, <3>4, <3>5, <3>8
    <3>10. Others
      BY <1>4, <3>2, <3>4, <3>5, <3>6
    <3> QED
      BY <1>4, <2>2, <2>3, <3>7, <3>9, <3>10
  <2>7. CASE /\ busy' = [busy EXCEPT ![loopOf[c]] = c]
             /\ state_' = [state_ EXCEPT ![c] = "kGotAll"] /\ UNCHANGED <<answers, closing>>
             /\ script[c][n].token \notin dead
             /\ script[c][n].key \in Keys /\ script[c][n].permission \in Permissions
    <3>1. /\ state_' \in [Clients -> States] /\ state_'[c] = "kGotAll"
          /\ \A d \in Clients : d # c => state_'[d] = state_[d]
      BY <1>1, <2>7 DEF HttpTypes, States
    <3>2. /\ busy' \in [Loops -> Clients \cup {Nobody}] /\ busy'[loopOf[c]] = c
          /\ \A l \in Loops : l # loopOf[c] => busy'[l] = busy[l]
      BY <1>1, <1>5, <2>7 DEF HttpTypes
    <3>3. HttpTypes'
      BY <1>1, <1>3, <1>4, <2>7, <3>1, <3>2 DEF HttpTypes
    <3>4. BusyOf(c)'
      BY <1>4, <1>5, <3>1, <3>2 DEF BusyOf
    <3>5. Sent
      BY <1>10, <2>7
    <3>6. AskedOf(c)'
      <4>1. \A i \in 1 .. Len(asked'[c]) : asked'[c][i] => script'[c][i].token \in dead'
        BY <1>1, <1>4, <2>2 DEF AskedOf
      <4>2. current_'[c] = n /\ n \in 1 .. Len(asked'[c]) /\ ~asked'[c][n]
        BY <1>3, <1>4, <2>1, <2>4, <2>7
      <4> QED
        BY <1>4, <1>7, <2>7, <3>5, <4>1, <4>2 DEF AskedOf, r
    <3>7. ASSUME ~closing'[c] PROVE InOrder(c)'
      <4>1. n = Len(answers[c]) + 1
        BY <2>5, <2>7, <3>7
      <4>2. Done(c)' = n
        BY <2>7, <3>1, <4>1 DEF Done
      <4>3. current_'[c] = n
        BY <1>3
      <4> QED
        BY <1>4, <2>5, <2>7, <3>1, <3>7, <4>2, <4>3 DEF InOrder, r
    <3>8. ClientOK(c)'
      BY <1>4, <3>4, <3>5, <3>6, <3>7 DEF ClientOK
    <3>9. Others
      <4>1. ASSUME NEW d \in Clients, d # c, NEW l \in Loops PROVE busy'[l] = d <=> busy[l] = d
        BY <1>4, <3>2, <4>1, ClientsAssumption
      <4> QED
        BY <1>4, <2>7, <3>1, <4>1
    <3> QED
      BY <1>4, <2>2, <2>3, <3>3, <3>8, <3>9
  <2> QED
    BY <2>2, <2>6, <2>7
<1>14. CASE /\ m > 0 /\ s[m].after # "kGotAll"
            /\ Ordered(s) => s[m].n = s[1].n
            /\ state_' = [state_ EXCEPT ![c] = s[m].after]
            /\ UNCHANGED <<answers, closing, busy, authVars>>
  <2>1. s[m].after \in States /\ s # <<>>
    <3>1. m \in 1 .. Len(s)
      BY <1>3, <1>6, <1>14
    <3> QED
      BY <1>6, <3>1 DEF PartsOf
  <2>2. /\ state_' \in [Clients -> States] /\ state_'[c] # "kGotAll"
        /\ \A d \in Clients : d # c => state_'[d] = state_[d]
    BY <1>1, <1>14, <2>1 DEF HttpTypes
  <2>3. HttpTypes'
    BY <1>1, <1>3, <1>4, <1>14, <2>2 DEF HttpTypes
  <2>4. ASSUME ~closing'[c] PROVE InOrder(c)'
    <3>1. /\ Ordered(r) /\ r # <<>> /\ r[1].n = Len(answers[c]) + 1
          /\ r[Len(r)].n = Len(asked[c]) /\ r[Len(r)].after = "kGotAll"
      BY <1>8, <1>14, <2>1, <2>4
    <3>2. Done(c)' = Len(answers[c])
      BY <1>5, <1>14, <2>2 DEF Done
    <3> QED
      BY <1>4, <2>2, <3>1, <3>2 DEF InOrder, r
  <2>5. ClientOK(c)'
    BY <1>9, <1>10, <1>11, <1>14, <2>2, <2>4
  <2>6. Others
    BY <1>4, <1>14, <2>2
  <2> QED
    BY <1>4, <1>11, <1>14, <2>3, <2>5, <2>6
<1>15. CASE m = 0 /\ state_' = state_ /\ UNCHANGED <<answers, closing, busy, authVars>>
  <2>1. HttpTypes'
    BY <1>1, <1>3, <1>4, <1>15 DEF HttpTypes
  <2>2. ASSUME ~closing'[c] PROVE InOrder(c)'
    <3>1. /\ Ordered(r) /\ (r # <<>> <=> s # <<>>)
          /\ r # <<>> => r[Len(r)].n = Len(asked[c]) /\ r[Len(r)].after = "kGotAll"
      BY <1>3, <1>6, <1>8, <1>15, <2>2
    <3>2. r # <<>> => r[1] = s[1]
      <4> SUFFICES ASSUME r # <<>> PROVE r[1] = s[1]
        OBVIOUS
      <4>1. 1 \in 1 .. Len(r) /\ 1 + m = 1
        BY <1>6, <1>15
      <4> QED
        BY <1>3, <4>1
    <3>3. Done(c)' = Len(answers[c])
      BY <1>5, <1>15 DEF Done
    <3> QED
      BY <1>4, <1>5, <1>8, <1>15, <2>2, <3>1, <3>2, <3>3 DEF InOrder, r
  <2>3. ClientOK(c)'
    BY <1>5, <1>9, <1>10, <1>11, <1>15, <2>2
  <2>4. Others
    BY <1>4, <1>15
  <2> QED
    BY <1>4, <1>11, <1>15, <2>1, <2>3, <2>4
<1> QED
  BY <1>3, <1>12, <1>13, <1>14, <1>15

(* The handler of /ticket comes back from its second lock and answers. *)
LEMMA FinishKeeps ==
  ASSUME Inv, NEW l \in Loops, Finish(l)
  PROVE  HttpTypes' /\ TokensOK' /\ TicketsOK' /\ \A d \in Clients : ClientOK(d)'
<1>0. PICK c \in Clients : c = busy[l]
  BY DEF Finish, finishTicket, Inv, HttpTypes
<1> DEFINE n == current_[c]
<1>1. /\ c # Nobody /\ createTicket(script[c][n].key, script[c][n].permission)
      /\ Respond(c, n, "ok") /\ busy' = [busy EXCEPT ![l] = Nobody]
      /\ UNCHANGED <<script, patient, asked, wire, buf, current_>>
      /\ client' = client /\ loopOf' = loopOf
  BY <1>0 DEF Finish, finishTicket, acceptVars
<1>2. HttpTypes /\ TokensOK /\ TicketsOK /\ PoolOK /\ AcceptOK
  BY DEF Inv
<1>3. ClientOK(c)
  BY DEF Inv
<1>4. /\ client[c] = "open" /\ state_[c] = "kGotAll" /\ loopOf[c] = l
      /\ n \in 1 .. Len(asked[c]) /\ ~asked[c][n]
      /\ script[c][n].key \in Keys /\ script[c][n].permission \in Permissions
  BY <1>0, <1>3 DEF ClientOK, BusyOf, AskedOf
<1>5. TicketsOK'
  BY <1>1, <1>2, <1>4, CreateTicketKeeps
<1>6. TokensOK' /\ dead' = dead
  BY <1>1, <1>2 DEF createTicket, TokensOK
<1>7. Len(answers[c]) \in Nat /\ Done(c) = Len(answers[c]) + 1
  BY <1>2, <1>4 DEF HttpTypes, Done
<1>8. ASSUME ~closing[c] PROVE InOrder(c) /\ n = Len(answers[c]) + 1
  BY <1>3, <1>4, <1>7, <1>8 DEF ClientOK, InOrder
<1>9. /\ Sends(c, n, "ok") /\ closing' = [closing EXCEPT ![c] = @ \/ Closes(script[c][n])]
      /\ state_' = [state_ EXCEPT ![c] = "kExpectRequestLine"]
  BY <1>1 DEF Respond, Reset
<1>10. "ok" \in Statuses
  BY DEF Statuses
<1>11. /\ answers' \in [Clients -> Seq([n : Nat, status : Statuses])]
       /\ \A d \in Clients : d # c => answers'[d] = answers[d]
       /\ ~closing[c] => Len(answers'[c]) = n
       /\ \A i \in 1 .. Len(answers'[c]) :
            /\ answers'[c][i].n = i /\ answers'[c][i].n \in 1 .. Len(asked[c])
            /\ answers'[c][i].status = "ok"
                 /\ script[c][answers'[c][i].n].what \in {"me", "logout", "ticket"} =>
               ~asked[c][answers'[c][i].n]
  <2> HIDE DEF n
  <2> QED
    BY <1>2, <1>3, <1>4, <1>8, <1>9, <1>10, SendsKeeps
<1>12. /\ state_' \in [Clients -> States] /\ state_'[c] = "kExpectRequestLine"
       /\ \A d \in Clients : d # c => state_'[d] = state_[d]
  BY <1>2, <1>9 DEF HttpTypes, States
<1>13. /\ closing' \in [Clients -> BOOLEAN] /\ (~closing'[c] => ~closing[c])
       /\ \A d \in Clients : d # c => closing'[d] = closing[d]
  BY <1>2, <1>9 DEF HttpTypes, Closes
<1>14. /\ busy' \in [Loops -> Clients \cup {Nobody}] /\ busy'[l] = Nobody
       /\ \A j \in Loops : j # l => busy'[j] = busy[j]
  BY <1>1, <1>2 DEF HttpTypes
<1>15. HttpTypes'
  BY <1>1, <1>2, <1>11, <1>12, <1>13, <1>14 DEF HttpTypes
<1>16. \A j \in Loops : busy'[j] # c
  <2> SUFFICES ASSUME NEW j \in Loops, busy'[j] = c PROVE FALSE
    OBVIOUS
  <2>1. j # l
    BY <1>2, <1>14, ClientsAssumption
  <2>2. busy[j] = c
    BY <1>14, <2>1
  <2> QED
    BY <1>3, <1>4, <2>1, <2>2 DEF ClientOK, BusyOf
<1> HIDE DEF n
<1>17. ClientOK(c)'
  <2>1. BusyOf(c)'
    BY <1>1, <1>4, <1>12, <1>16 DEF BusyOf
  <2>2. \A i \in 1 .. Len(asked'[c]) : asked'[c][i] => script'[c][i].token \in dead'
    BY <1>1, <1>3, <1>6 DEF ClientOK, AskedOf
  <2>3. AskedOf(c)'
    BY <1>1, <1>3, <1>11, <1>12, <1>16, <2>2 DEF ClientOK, AskedOf, Stream
  <2>4. ASSUME ~closing'[c] PROVE InOrder(c)'
    <3>1. InOrder(c) /\ n = Len(answers[c]) + 1 /\ Len(answers'[c]) = n
      BY <1>8, <1>11, <1>13, <2>4
    <3>2. Done(c)' = Len(answers'[c])
      BY <1>7, <1>12, <3>1 DEF Done
    <3>3. Done(c)' = Done(c)
      BY <1>7, <3>1, <3>2
    <3> QED
      BY <1>1, <1>12, <3>1, <3>3 DEF InOrder, Ordered, Stream
  <2> QED
    BY <1>1, <1>11, <2>1, <2>3, <2>4 DEF ClientOK
<1>18. ASSUME NEW d \in Clients, d # c PROVE ClientOK(d)'
  <2>1. ClientOK(d)
    BY DEF Inv
  <2>2. client[d] = "open" => loopOf[d] \in Loops
    BY <1>2, LoopOfOpen
  <2>3. \A j \in Loops : busy'[j] = d <=> busy[j] = d
    BY <1>0, <1>14, <1>18, ClientsAssumption
  <2> QED
    BY <1>1, <1>2, <1>6, <1>11, <1>12, <1>13, <1>18, <2>1, <2>2, <2>3, Frame
<1> QED
  BY <1>5, <1>6, <1>15, <1>17, <1>18

(* A client closes; requests it never got an answer for are gone. *)
LEMMA ClosesKeeps ==
  ASSUME Inv, NEW c \in Clients, ClientCloses(c)
  PROVE  HttpTypes' /\ ClientOK(c)'
<1>1. /\ client[c] = "open" /\ busy[loopOf[c]] = Nobody
      /\ client' = [client EXCEPT ![c] = "closed"] /\ loopOf' = loopOf
      /\ wire' = [wire EXCEPT ![c] = <<>>] /\ buf' = [buf EXCEPT ![c] = <<>>]
      /\ UNCHANGED <<script, asked, state_, current_, answers, closing, busy, dead>>
  BY DEF AtPoll, ClientCloses, Closed, authVars
<1>2. HttpTypes /\ ClientOK(c) /\ AcceptOK
  BY DEF Inv
<1>3. /\ state_[c] # "kGotAll" /\ \A l \in Loops : busy[l] # c
  BY <1>1, IdleLoop
<1>4. /\ wire' \in [Clients -> Seq(PartsOf)] /\ buf' \in [Clients -> Seq(PartsOf)]
      /\ wire'[c] = <<>> /\ buf'[c] = <<>> /\ client'[c] = "closed"
  <2>1. <<>> \in Seq(PartsOf)
    OBVIOUS
  <2>2. client'[c] = "closed"
    BY <1>1, <1>2 DEF AcceptOK
  <2> QED
    BY <1>1, <1>2, <2>1, <2>2 DEF HttpTypes
<1>5. HttpTypes'
  BY <1>1, <1>2, <1>4 DEF HttpTypes
<1>6. Stream(c)' = <<>> /\ Len(Stream(c)') = 0
  <2>1. Stream(c)' = <<>> \o <<>>
    BY <1>4 DEF Stream
  <2> QED
    BY <2>1
<1>7. BusyOf(c)'
  BY <1>1, <1>3, <1>4 DEF BusyOf
<1>8. AskedOf(c)'
  BY <1>1, <1>2, <1>3, <1>6 DEF ClientOK, AskedOf
<1> QED
  BY <1>1, <1>2, <1>4, <1>5, <1>7, <1>8 DEF ClientOK

(* Connecting and being accepted change nothing of what a client has asked. *)
LEMMA AcceptedKeeps ==
  ASSUME Inv, UNCHANGED <<httpVars, authVars>>, NEW c \in Clients,
         client[c] \in {"new", "pending"}, client'[c] \in {"pending", "open"}
  PROVE  ClientOK(c)'
<1>1. ClientOK(c) /\ UNCHANGED <<script, asked, wire, buf, state_, current_, answers, closing, busy, dead>>
  BY DEF Inv, httpVars, authVars
<1>2. state_[c] # "kGotAll" /\ \A l \in Loops : busy[l] # c
  BY <1>1 DEF ClientOK, BusyOf
<1>3. BusyOf(c)'
  BY <1>1, <1>2 DEF BusyOf
<1>4. AskedOf(c)'
  BY <1>1 DEF ClientOK, AskedOf, Stream
<1>5. InOrder(c) => InOrder(c)'
  BY <1>1 DEF InOrder, Ordered, Stream, Done
<1> QED
  BY <1>1, <1>3, <1>4, <1>5 DEF ClientOK

-----------------------------------------------------------------------------
(* The whole server.                                                        *)

(* Nothing has been asked when the server starts. *)
LEMMA InitInv == Init => Inv
<1> SUFFICES ASSUME Init PROVE Inv
  OBVIOUS
<1>1. PoolOK /\ AcceptOK
  BY PoolInitOK, AcceptInitOK DEF Init
<1>2. TokensOK
  BY TtlAssumption DEF Init, AuthInit, TokensOK, Empty
<1>3. TicketsOK
  BY DEF Init, AuthInit, TicketsOK, TicketsSound, Empty
<1>4. <<>> \in Seq(PartsOf) /\ <<>> \in Seq(BOOLEAN) /\ <<>> \in Seq([n : Nat, status : Statuses])
  OBVIOUS
<1>5. HttpTypes
  BY <1>4 DEF Init, HttpInit, HttpTypes, States
<1>6. ASSUME NEW c \in Clients PROVE ClientOK(c)
  <2>1. /\ wire[c] = <<>> /\ buf[c] = <<>> /\ asked[c] = <<>> /\ answers[c] = <<>>
        /\ state_[c] = "kExpectRequestLine" /\ \A l \in Loops : busy[l] = Nobody
        /\ client[c] = "new"
    BY DEF Init, HttpInit, AcceptInit
  <2>2. Stream(c) = <<>> /\ Len(Stream(c)) = 0
    BY <2>1 DEF Stream
  <2>3. Len(asked[c]) = 0 /\ Len(answers[c]) = 0 /\ Done(c) = 0
    BY <2>1 DEF Done
  <2>4. BusyOf(c)
    BY <2>1, ClientsAssumption DEF BusyOf
  <2>5. AskedOf(c)
    BY <2>1, <2>2, <2>3, ClientsAssumption DEF AskedOf
  <2>6. InOrder(c)
    BY <2>1, <2>2, <2>3 DEF InOrder, Ordered
  <2> QED
    BY <2>3, <2>4, <2>5, <2>6 DEF ClientOK
<1> QED
  BY <1>1, <1>2, <1>3, <1>5, <1>6 DEF Inv

(* Each part of the server keeps the invariant, and so do clients, the clock *)
(* and RTMP connections.                                                     *)
LEMMA NextInv == Inv /\ [Next]_vars => Inv'
<1> SUFFICES ASSUME Inv, [Next]_vars PROVE Inv'
  OBVIOUS
<1>1. PoolOK /\ AcceptOK /\ TokensOK /\ TicketsOK /\ HttpTypes /\ \A c \in Clients : ClientOK(c)
  BY DEF Inv
<1>2. ASSUME UNCHANGED poolVars PROVE PoolOK'
  BY <1>1, <1>2 DEF PoolOK, poolVars
<1>3. ASSUME UNCHANGED <<poolVars, acceptVars>> PROVE AcceptOK'
  BY <1>1, <1>3 DEF AcceptOK, OpenClients, poolVars, acceptVars
<1>4. ASSUME UNCHANGED authVars PROVE TokensOK' /\ TicketsOK' /\ dead \subseteq dead'
  BY <1>1, <1>4 DEF authVars, TokensOK, TicketsOK, TicketsSound
<1>5. ASSUME UNCHANGED httpVars PROVE HttpTypes'
  BY <1>1, <1>5 DEF HttpTypes, httpVars
<1>6. CASE Start
  <2>1. PoolNext /\ UNCHANGED acceptVars /\ UNCHANGED httpVars /\ UNCHANGED authVars
    BY <1>6 DEF Start
  <2>2. PoolOK' /\ AcceptOK'
    BY <1>1, <2>1, PoolNextOK, PoolKeepsAccept
  <2> QED
    BY <1>4, <2>1, <2>2, FrameAll DEF Inv
<1>7. CASE Accept
  <2>1. handleRead /\ UNCHANGED poolVars /\ UNCHANGED httpVars /\ UNCHANGED authVars
    BY <1>7 DEF Accept
  <2>2. AcceptOK'
    BY <1>1, <2>1, HandleReadKeepsAccept
  <2>3. ASSUME NEW d \in Clients PROVE ClientOK(d)'
    <3>1. CASE client'[d] = client[d] /\ loopOf'[d] = loopOf[d]
      <4>1. client[d] = "open" => loopOf[d] \in Loops
        BY <1>1, LoopOfOpen
      <4> QED
        BY <1>1, <2>1, <3>1, <4>1, Frame DEF httpVars, authVars
    <3>2. CASE ~(client'[d] = client[d] /\ loopOf'[d] = loopOf[d])
      <4>1. NewConnection
        BY <2>1, <3>2 DEF handleRead, OutOfDescriptors, Reopen
      <4>2. d = Head(backlog)
        BY <1>1, <3>2, <4>1 DEF NewConnection, AcceptOK
      <4>3. client[d] = "pending"
        <5>1. backlog # <<>> /\ backlog \in Seq(Clients)
          BY <1>1, <2>1, <3>2 DEF handleRead, Reopen, AcceptOK
        <5>2. Head(backlog) = backlog[1] /\ 1 \in 1 .. Len(backlog)
          BY <5>1
        <5> QED
          BY <1>1, <4>2, <5>2 DEF AcceptOK
      <4>4. client'[d] = "open"
        BY <1>1, <4>1, <4>2 DEF NewConnection, AcceptOK
      <4> QED
        BY <2>1, <4>3, <4>4, AcceptedKeeps
    <3> QED
      BY <3>1, <3>2
  <2> QED
    BY <1>2, <1>4, <1>5, <2>1, <2>2, <2>3 DEF Inv
<1>8. CASE RtmpAsks
  <2>1. UNCHANGED poolVars /\ UNCHANGED acceptVars /\ UNCHANGED httpVars
    BY <1>8 DEF RtmpAsks
  <2>2. PICK t \in DOMAIN minted, key \in Keys, publish \in BOOLEAN : verifyTicket(t, key, publish)
    BY <1>8 DEF RtmpAsks
  <2>3. TicketsOK'
    BY <1>1, <2>2, VerifyTicketKeeps
  <2>4. TokensOK' /\ dead \subseteq dead'
    BY <1>1, <2>2 DEF verifyTicket, TokensOK
  <2> QED
    BY <1>2, <1>3, <2>1, <2>3, <2>4, FrameAll DEF Inv
<1>9. CASE Clock
  <2>1. UNCHANGED poolVars /\ UNCHANGED acceptVars /\ UNCHANGED httpVars
    BY <1>9 DEF Clock
  <2>2. TokensOK' /\ TicketsOK' /\ dead \subseteq dead'
    BY <1>1, <1>9 DEF Clock, SetClock, TokensOK, TicketsOK, TicketsSound
  <2> QED
    BY <1>2, <1>3, <2>1, <2>2, FrameAll DEF Inv
<1>10. ASSUME NEW c \in Clients, ClientConnects(c) PROVE Inv'
  <2>1. Connect(c) /\ UNCHANGED poolVars /\ UNCHANGED httpVars /\ UNCHANGED authVars
    BY <1>10 DEF ClientConnects
  <2>2. AcceptOK'
    BY <1>1, <2>1, ConnectKeepsAccept
  <2>3. /\ client[c] = "new" /\ client'[c] = "pending" /\ loopOf' = loopOf
        /\ \A d \in Clients : d # c => client'[d] = client[d]
    BY <1>1, <2>1 DEF Connect, AcceptOK
  <2>4. ASSUME NEW d \in Clients PROVE ClientOK(d)'
    <3>1. CASE d = c
      BY <2>1, <2>3, <3>1, AcceptedKeeps
    <3>2. CASE d # c
      <4>1. client[d] = "open" => loopOf[d] \in Loops
        BY <1>1, LoopOfOpen
      <4> QED
        BY <1>1, <2>1, <2>3, <3>2, <4>1, Frame DEF httpVars, authVars
    <3> QED
      BY <3>1, <3>2
  <2> QED
    BY <1>2, <1>4, <1>5, <2>1, <2>2, <2>4 DEF Inv
<1>11. ASSUME NEW c \in Clients, ClientAsks(c) PROVE Inv'
  <2>1. UNCHANGED poolVars /\ UNCHANGED acceptVars /\ UNCHANGED authVars
        /\ client' = client /\ loopOf' = loopOf
    BY <1>11 DEF ClientAsks, acceptVars
  <2>2. HttpTypes' /\ ClientOK(c)'
    BY <1>11, AskKeeps
  <2>3. ASSUME NEW d \in Clients, d # c PROVE ClientOK(d)'
    <3>1. client[d] = "open" => loopOf[d] \in Loops
      BY <1>1, LoopOfOpen
    <3>2. /\ script' = script /\ asked'[d] = asked[d] /\ wire'[d] = wire[d]
          /\ UNCHANGED <<buf, state_, current_, answers, closing, busy, dead>>
      BY <1>1, <1>11, <2>3 DEF ClientAsks, Ask, HttpTypes, authVars
    <3> QED
      BY <1>1, <2>1, <3>1, <3>2, Frame
  <2> QED
    BY <1>2, <1>3, <1>4, <2>1, <2>2, <2>3 DEF Inv
<1>12. ASSUME NEW c \in Clients, Serve(c) PROVE Inv'
  <2>1. UNCHANGED poolVars /\ UNCHANGED acceptVars /\ client' = client /\ loopOf' = loopOf
    BY <1>12 DEF Serve, acceptVars
  <2>2. /\ HttpTypes' /\ ClientOK(c)' /\ TokensOK' /\ TicketsOK' /\ dead \subseteq dead'
        /\ script' = script
        /\ \A d \in Clients : d # c =>
             /\ asked'[d] = asked[d] /\ wire'[d] = wire[d] /\ buf'[d] = buf[d]
             /\ state_'[d] = state_[d] /\ current_'[d] = current_[d] /\ answers'[d] = answers[d]
             /\ closing'[d] = closing[d] /\ \A l \in Loops : busy'[l] = d <=> busy[l] = d
    BY <1>12, ServeKeeps
  <2>3. ASSUME NEW d \in Clients, d # c PROVE ClientOK(d)'
    <3>1. client[d] = "open" => loopOf[d] \in Loops
      BY <1>1, LoopOfOpen
    <3> QED
      BY <1>1, <2>1, <2>2, <2>3, <3>1, Frame
  <2> QED
    BY <1>2, <1>3, <2>1, <2>2, <2>3 DEF Inv
<1>13. ASSUME NEW c \in Clients, ClientCloses(c) PROVE Inv'
  <2>1. Closed(c) /\ UNCHANGED poolVars /\ UNCHANGED authVars
    BY <1>13 DEF ClientCloses
  <2>2. AcceptOK'
    BY <1>1, <2>1, ClosedKeepsAccept
  <2>3. HttpTypes' /\ ClientOK(c)'
    BY <1>13, ClosesKeeps
  <2>4. ASSUME NEW d \in Clients, d # c PROVE ClientOK(d)'
    <3>1. client[d] = "open" => loopOf[d] \in Loops
      BY <1>1, LoopOfOpen
    <3>2. /\ client'[d] = client[d] /\ loopOf' = loopOf /\ wire'[d] = wire[d] /\ buf'[d] = buf[d]
          /\ UNCHANGED <<script, asked, state_, current_, answers, closing, busy, dead>>
      BY <1>1, <1>13, <2>4 DEF ClientCloses, Closed, HttpTypes, AcceptOK, authVars
    <3> QED
      BY <1>1, <3>1, <3>2, Frame
  <2> QED
    BY <1>2, <1>4, <2>1, <2>2, <2>3, <2>4 DEF Inv
<1>14. ASSUME NEW l \in Loops, Finish(l) PROVE Inv'
  <2>1. UNCHANGED poolVars /\ UNCHANGED acceptVars
    BY <1>14 DEF Finish
  <2> QED
    BY <1>2, <1>3, <1>14, <2>1, FinishKeeps DEF Inv
<1>15. CASE UNCHANGED vars
  <2>1. UNCHANGED poolVars /\ UNCHANGED acceptVars /\ UNCHANGED httpVars /\ UNCHANGED authVars
    BY <1>15 DEF vars
  <2> QED
    BY <1>2, <1>3, <1>4, <2>1, FrameAll DEF Inv
<1> QED
  BY <1>6, <1>7, <1>8, <1>9, <1>10, <1>11, <1>12, <1>13, <1>14, <1>15 DEF Next

(* The inductive invariant of the login server holds in every behaviour. *)
THEOREM InvHolds == Spec => []Inv
BY InitInv, NextInv, PTL DEF Spec

(* Types, and no descriptor is lost by the acceptor. *)
THEOREM TypeAlwaysOK == Spec => []TypeOK
<1>1. Inv => TypeOK
  <2> SUFFICES ASSUME Inv PROVE TypeOK
    OBVIOUS
  <2>1. DOMAIN tickets_ \subseteq DOMAIN minted
    BY DEF Inv, TicketsOK
  <2> QED
    BY <2>1 DEF Inv, PoolOK, AcceptOK, OpenClients, TokensOK, HttpTypes, States, TypeOK
<1> QED
  BY <1>1, InvHolds, PTL

(* Whatever the threads do while they start, the pool only ever hands out    *)
(* constructed loops, each that of its own thread, which need not have       *)
(* entered loop() yet (EventLoopThreadPool::start, getNextLoop).             *)
THEOREM LoopsAlwaysReady == Spec => []LoopsReady
<1>1. Inv => LoopsReady
  <2> SUFFICES ASSUME Inv PROVE LoopsReady
    OBVIOUS
  <2>1. PoolOK /\ AcceptOK /\ DOMAIN loops_ = 1 .. Len(loops_)
    BY DEF Inv, PoolOK
  <2>2. ASSUME NEW i \in 1 .. Len(loops_)
        PROVE  i \in Threads /\ loops_[i] = i /\ thread[i] \in {"published", "looping"}
    <3>1. loops_ \in Seq(Threads) /\ loops_[i] = i /\ thread[i] \in {"published", "looping"}
      BY <2>1 DEF PoolOK
    <3>2. loops_[i] \in Threads
      BY <3>1
    <3> QED
      BY <3>1, <3>2
  <2>3. \A c \in Clients : client[c] = "open" =>
          IF numThreads_ = 0 THEN loopOf[c] = baseLoop ELSE loopOf[c] \in 1 .. Len(loops_)
    BY <2>1 DEF AcceptOK
  <2> QED
    BY <2>1, <2>2, <2>3 DEF LoopsReady
<1> QED
  BY <1>1, InvHolds, PTL

(* A connection answers its requests in the order they were sent, none       *)
(* twice and none skipped, however they are cut (HttpServer::onMessage).     *)
THEOREM AnswersAlwaysInOrder == Spec => []AnswersInOrder
<1>1. Inv => AnswersInOrder
  <2> SUFFICES ASSUME Inv, NEW c \in Clients PROVE \A i \in DOMAIN answers[c] : answers[c][i].n = i
    BY DEF AnswersInOrder
  <2>1. DOMAIN answers[c] = 1 .. Len(answers[c])
    BY DEF Inv, HttpTypes
  <2> QED
    BY <2>1 DEF Inv, ClientOK
<1> QED
  BY <1>1, InvHolds, PTL

(* A token that was logged out or found expired opens no door again, on      *)
(* whichever loop and whatever the clock does (TokenManager).                *)
THEOREM DeadTokensAlwaysRefused == Spec => []DeadTokensRefused
<1>1. Inv => DeadTokensRefused
  <2> SUFFICES ASSUME Inv, NEW c \in Clients, NEW i \in DOMAIN answers[c],
                      answers[c][i].status = "ok",
                      script[c][answers[c][i].n].what \in {"me", "logout", "ticket"}
               PROVE  ~asked[c][answers[c][i].n]
    BY DEF DeadTokensRefused
  <2>1. DOMAIN answers[c] = 1 .. Len(answers[c])
    BY DEF Inv, HttpTypes
  <2> QED
    BY <2>1 DEF Inv, ClientOK, AskedOf
<1> QED
  BY <1>1, InvHolds, PTL

(* RTMP admits only what a ticket was asked for, and never one that was      *)
(* found expired (RtmpTicketManager).                                        *)
THEOREM TicketsAlwaysSound == Spec => []TicketsSound
<1>1. Inv => TicketsSound
  BY DEF Inv, TicketsOK
<1> QED
  BY <1>1, InvHolds, PTL
==============================================================================
