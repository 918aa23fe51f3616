----------------------------- MODULE LoginServer -----------------------------
(* login_server as a whole: the threads start, the acceptor takes clients,    *)
(* each connection is served on its loop, and all handlers share the users,   *)
(* tokens and tickets; RTMP connections on the base loop ask about tickets.   *)
EXTENDS HttpServer

vars == <<poolVars, acceptVars, httpVars, authVars>>

Init == PoolInit /\ AcceptInit /\ HttpInit /\ AuthInit

Start == PoolNext /\ UNCHANGED <<acceptVars, httpVars, authVars>>

Accept == handleRead /\ busy[baseLoop] = Nobody /\ UNCHANGED <<poolVars, httpVars, authVars>>

Serve(c) == \E k \in 0 .. Len(wire[c]) : onMessage(c, k) /\ UNCHANGED <<poolVars, acceptVars>>

Finish(l) == finishTicket(l) /\ UNCHANGED <<poolVars, acceptVars>>

ClientConnects(c) == Connect(c) /\ UNCHANGED <<poolVars, httpVars, authVars>>

ClientAsks(c) == Ask(c) /\ UNCHANGED <<poolVars, acceptVars, authVars>>

(* The client closes, and its connection's loop sees it. *)
ClientCloses(c) ==
  /\ Closed(c) /\ AtPoll(loopOf[c])
  /\ wire' = [wire EXCEPT ![c] = <<>>] /\ buf' = [buf EXCEPT ![c] = <<>>]
  /\ UNCHANGED <<script, patient, asked, state_, current_, answers, closing, busy, poolVars, authVars>>

(* The auth callback of RtmpServer: an RTMP client may have any ticket. *)
RtmpAsks ==
  /\ AtPoll(baseLoop)
  /\ \E t \in DOMAIN minted, key \in Keys, publish \in BOOLEAN : verifyTicket(t, key, publish)
  /\ UNCHANGED <<poolVars, acceptVars, httpVars>>

Clock ==
  /\ main = "serving"
  /\ \E t \in 0 .. MaxTime : SetClock(t)
  /\ UNCHANGED <<poolVars, acceptVars, httpVars>>

Next ==
  \/ Start \/ Accept \/ RtmpAsks \/ Clock
  \/ \E c \in Clients : ClientConnects(c) \/ ClientAsks(c) \/ Serve(c) \/ ClientCloses(c)
  \/ \E l \in Loops : Finish(l)

(* Threads run, and TCP delivers.  A loop comes back to poll, which reports   *)
(* every channel that is ready: a connection has its turn however often the   *)
(* acceptor of the same loop has one.  Clients, the clock and spurious wakeups *)
(* owe nothing.                                                               *)
Fairness ==
  /\ WF_vars(PoolMain /\ UNCHANGED <<acceptVars, httpVars, authVars>>)
  /\ \A i \in Threads : WF_vars(PoolThread(i) /\ UNCHANGED <<acceptVars, httpVars, authVars>>)
  /\ WF_vars(Accept)
  /\ \A c \in Clients :
       SF_vars(\E k \in 1 .. Len(wire[c]) : onMessage(c, k) /\ UNCHANGED <<poolVars, acceptVars>>)
  /\ \A l \in Loops : WF_vars(Finish(l))

Spec == Init /\ [][Next]_vars /\ Fairness

-----------------------------------------------------------------------------
(* Types, and every descriptor is free, the reserve, or that of an open       *)
(* connection (Acceptor::handleRead).                                         *)
TypeOK ==
  /\ main \in {"start", "latch", "cond", "serving"} /\ asleep \in {"no", "latch", "cond"}
  /\ thread \in [Threads -> {"none", "born", "counted", "built", "published", "looping"}]
  /\ count \in [Threads -> 0 .. 1] /\ loop_ \in [Threads -> Threads \cup {Null}]
  /\ client \in [Clients -> {"new", "pending", "open", "closed"}] /\ emfile \in BOOLEAN
  /\ free + Cardinality({c \in Clients : client[c] = "open"}) + (IF idleFd_ THEN 1 ELSE 0)
       = FreeAtStart + 1
  /\ state_ \in [Clients -> {"kExpectRequestLine", "kExpectHeaders", "kExpectBody", "kGotAll"}]
  /\ busy \in [Loops -> Clients \cup {Nobody}]
  /\ now \in 0 .. MaxTime /\ DOMAIN sessions_ \subseteq 1 .. issued
  /\ DOMAIN tickets_ \subseteq DOMAIN minted

(* Every loop the main thread has the address of, whatever wakeups came when, *)
(* is the one of its own thread and constructed, and the loop of a connection *)
(* is one of them, though it may not have entered loop() yet                   *)
(* (EventLoopThread::startLoop and threadFunc, getNextLoop).                   *)
LoopsReady ==
  LET Constructed(i) == i \in Threads /\ thread[i] \in {"built", "published", "looping"} IN
  /\ \A i \in DOMAIN loops_ : loops_[i] = i /\ Constructed(i)
  /\ \A c \in Clients : client[c] = "open" =>
       IF numThreads_ = 0 THEN loopOf[c] = baseLoop ELSE Constructed(loopOf[c])

(* However requests are cut and pipelined, a connection answers them in the   *)
(* order they were sent, each at most once and none skipped                    *)
(* (HttpServer::onMessage, HttpContext::reset).                                *)
AnswersInOrder == \A c \in Clients : \A i \in DOMAIN answers[c] : answers[c][i].n = i

(* A token that was logged out, or that verify found expired, is refused by   *)
(* every handler that asks for one in every request sent after that, also on   *)
(* another loop and also when the wall clock is set back                       *)
(* (TokenManager::verify and remove).                                          *)
DeadTokensRefused ==
  \A c \in Clients : \A i \in DOMAIN answers[c] :
    LET n == answers[c][i].n IN
    answers[c][i].status = "ok" /\ script[c][n].what \in {"me", "logout", "ticket"} =>
      ~asked[c][n]

(* RTMP lets in a publisher or player only with a ticket that was asked for   *)
(* that stream and that use, and never again with one it found expired         *)
(* (RtmpTicketManager::createTicket and verify, login_server's callback).      *)
TicketsSound ==
  admission # Refused =>
    /\ admission.ticket \notin spent
    /\ minted[admission.ticket].key = admission.key
    /\ minted[admission.ticket].permission \in
         (IF admission.publish THEN {"publish", "both"} ELSE {"play", "both"})

(* The start-up comes to an end: no wait of the main thread is forgotten       *)
(* (CountDownLatch, EventLoopThread::startLoop).                               *)
StartsListening == <>(main = "serving")

(* A client in the backlog is accepted, unless descriptors run out            *)
(* (Acceptor::handleRead), and one that does not pipeline gets an answer to    *)
(* every request, unless it closed or was told to (HttpServer::onMessage).     *)
ClientsServed ==
  \A c \in Clients :
    /\ client[c] = "pending" ~> (client[c] # "pending" \/ free = 0)
    /\ c \in patient /\ asked[c] # <<>> ~>
         (Len(answers[c]) = Len(asked[c]) \/ closing[c] \/ client[c] = "closed")
==============================================================================
