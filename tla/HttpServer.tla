----------------------------- MODULE HttpServer -----------------------------
(* HttpServer and HttpContext: the requests of a connection as TCP delivers  *)
(* them, parsed part by part (request line, headers, body), one request per   *)
(* message event, answered by the handlers of login_server.                   *)
EXTENDS Acceptor, AuthService, FiniteSets

CONSTANT Scripts  \* what the clients may want: functions from clients to sequences of requests

Loops == Threads \cup {baseLoop}
Nobody == "nobody"

ASSUME ClientsAssumption == IsFiniteSet(Clients) /\ Nobody \notin Clients

VARIABLES
  script,   \* the requests each client sends
  patient,  \* clients that wait for an answer before the next request
  asked,    \* per request sent: was its token dead by then?
  wire,     \* parts of requests on the way
  buf,      \* whole parts in inputBuffer_
  state_,   \* state_ of HttpContext
  current_, \* the number of the request in request_
  answers,  \* responses sent
  closing,  \* shutdown() was called: state kDisconnecting
  busy      \* per loop, the connection whose handler waits for its second lock

httpVars == <<script, patient, asked, wire, buf, state_, current_, answers, closing, busy>>

HttpInit ==
  /\ script \in Scripts /\ patient \in {{}, Clients}
  /\ asked = [c \in Clients |-> <<>>]
  /\ wire = [c \in Clients |-> <<>>] /\ buf = [c \in Clients |-> <<>>]
  /\ state_ = [c \in Clients |-> "kExpectRequestLine"] /\ current_ = [c \in Clients |-> 0]
  /\ answers = [c \in Clients |-> <<>>] /\ closing = [c \in Clients |-> FALSE]
  /\ busy = [l \in Loops |-> Nobody]

-----------------------------------------------------------------------------
(* The loop runs and is in no handler: it may take the next event.  The base *)
(* loop is the main thread's and also the acceptor's.                          *)
AtPoll(l) ==
  /\ busy[l] = Nobody
  /\ IF l = baseLoop THEN main = "serving" /\ ~emfile ELSE thread[l] = "looping"

HasBody(req) == req.what \in {"login", "ticket"}

(* HttpServer::onRequest: does the connection end with the response? *)
Closes(req) ==
  \/ req.connection = "close"
  \/ req.version = "kHttp10" /\ req.connection # "Keep-Alive"

(* The n-th request of a client as parts: which state of HttpContext expects *)
(* the part, does it parse, and what is expected after it.                    *)
Parts(n, req) ==
  LET line == [n |-> n, expected |-> "kExpectRequestLine", ok |-> req.what # "badLine",
               after |-> "kExpectHeaders"]
      head == [n |-> n, expected |-> "kExpectHeaders", ok |-> req.what # "badLength",
               after |-> IF HasBody(req) THEN "kExpectBody" ELSE "kGotAll"]
      body == [n |-> n, expected |-> "kExpectBody", ok |-> TRUE, after |-> "kGotAll"]
  IN IF HasBody(req) THEN <<line, head, body>> ELSE <<line, head>>

(* The client sends its next request. *)
Ask(c) ==
  LET n == Len(asked[c]) + 1 IN
  /\ client[c] = "open" /\ n <= Len(script[c])
  /\ c \in patient => Len(answers[c]) = Len(asked[c])
  /\ asked' = [asked EXCEPT ![c] = Append(@, script[c][n].token \in dead)]
  /\ wire' = [wire EXCEPT ![c] = @ \o Parts(n, script[c][n])]
  /\ UNCHANGED <<script, patient, buf, state_, current_, answers, closing, busy>>

(* Mutant of parseRequest: the body is left for the next call. *)
parseRequestByStages(state, b) ==
  IF b = <<>> THEN [ok |-> TRUE, taken |-> 0, state |-> state]
  ELSE IF ~b[1].ok THEN [ok |-> FALSE, taken |-> 0, state |-> state]
  ELSE [ok |-> TRUE, taken |-> 1, state |-> b[1].after]

(* parseRequest: it takes what is there of the request it is at, up to a     *)
(* part that does not parse, and stops at the end of the request.             *)
parseRequest(state, b) ==
  LET same == {i \in DOMAIN b : b[i].n = b[1].n}
      bad == {i \in same : ~b[i].ok}
      first == CHOOSE i \in bad : \A j \in bad : i <= j
  IN CASE state = "kGotAll" \/ b = <<>> -> [ok |-> TRUE, taken |-> 0, state |-> state]
       [] state # "kGotAll" /\ b # <<>> /\ bad # {} ->
            [ok |-> FALSE, taken |-> first - 1, state |-> b[first].expected]
       [] OTHER -> [ok |-> TRUE, taken |-> Cardinality(same), state |-> b[Cardinality(same)].after]

(* conn->send: a connection that is shutting down sends nothing. *)
Sends(c, n, status) ==
  answers' = [answers EXCEPT ![c] = IF closing[c] THEN @ ELSE Append(@, [n |-> n, status |-> status])]

(* Mutant of Reset: the context stays where it is. *)
ResetNot(c) == "kGotAll"

(* HttpContext::reset after a request. *)
Reset(c) == "kExpectRequestLine"

(* The response goes out, the connection is shut down if the request or the  *)
(* version asks for it, and the context is reset.                             *)
Respond(c, n, status) ==
  /\ Sends(c, n, status)
  /\ closing' = [closing EXCEPT ![c] = @ \/ Closes(script[c][n])]
  /\ state_' = [state_ EXCEPT ![c] = Reset(c)]

(* The handlers: the router finds one by method and path. *)
health(c, n) == Respond(c, n, "ok") /\ UNCHANGED <<busy, authVars>>

notFound(c, n) == Respond(c, n, "notFound") /\ UNCHANGED <<busy, authVars>>

login(c, n) ==
  LET req == script[c][n] IN
  /\ \/ /\ ~req.json
        /\ Respond(c, n, "badRequest") /\ UNCHANGED authVars
     \/ /\ req.json /\ ~LoginAllowed(req.cred)
        /\ Respond(c, n, "error") /\ UNCHANGED authVars
     \/ /\ req.json /\ LoginAllowed(req.cred)
        /\ createSession(req.cred.user) /\ Respond(c, n, "ok")
  /\ UNCHANGED busy

me(c, n) ==
  LET token == script[c][n].token IN
  /\ verify(token)
  /\ Respond(c, n, IF Verified(token) THEN "ok" ELSE "unauthorized")
  /\ UNCHANGED busy

logout(c, n) ==
  LET token == script[c][n].token IN
  /\ remove(token)
  /\ Respond(c, n, IF Removes(token) THEN "ok" ELSE "unauthorized")
  /\ UNCHANGED busy

(* The body names a valid stream and a known permission. *)
ValidTicketBody(req) == req.json /\ req.key \in Keys /\ req.permission \in Permissions

(* The ticket handler verifies the token; the ticket takes another lock. *)
ticket(c, n) ==
  LET req == script[c][n] IN
  /\ verify(req.token)
  /\ \/ /\ ~Verified(req.token)
        /\ Respond(c, n, "unauthorized") /\ UNCHANGED busy
     \/ /\ Verified(req.token) /\ ~ValidTicketBody(req)
        /\ Respond(c, n, "badRequest") /\ UNCHANGED busy
     \/ /\ Verified(req.token) /\ ValidTicketBody(req)
        /\ busy' = [busy EXCEPT ![loopOf[c]] = c]
        /\ state_' = [state_ EXCEPT ![c] = "kGotAll"]
        /\ UNCHANGED <<answers, closing>>

Routes == {"health", "login", "me", "logout", "ticket"}

route(c, n) ==
  \/ script[c][n].what = "health" /\ health(c, n)
  \/ script[c][n].what = "login"  /\ login(c, n)
  \/ script[c][n].what = "me"     /\ me(c, n)
  \/ script[c][n].what = "logout" /\ logout(c, n)
  \/ script[c][n].what = "ticket" /\ ticket(c, n)
  \/ script[c][n].what \notin Routes /\ notFound(c, n)

(* A message event: k more parts have come completely, for k = 0 only bytes  *)
(* of the next one.                                                           *)
onMessage(c, k) ==
  LET b == buf[c] \o SubSeq(wire[c], 1, k)
      p == parseRequest(state_[c], b)
      n == IF p.taken > 0 THEN b[1].n ELSE current_[c]
  IN /\ client[c] = "open" /\ AtPoll(loopOf[c]) /\ wire[c] # <<>>
     /\ wire' = [wire EXCEPT ![c] = SubSeq(@, k + 1, Len(@))]
     /\ buf' = [buf EXCEPT ![c] = SubSeq(b, p.taken + 1, Len(b))]
     /\ current_' = [current_ EXCEPT ![c] = n]
     /\ \/ /\ ~p.ok
           /\ Sends(c, b[p.taken + 1].n, "badRequest")
           /\ closing' = [closing EXCEPT ![c] = TRUE]
           /\ state_' = [state_ EXCEPT ![c] = p.state]
           /\ UNCHANGED <<busy, authVars>>
        \/ /\ p.ok /\ p.state = "kGotAll"
           /\ route(c, n)
        \/ /\ p.ok /\ p.state # "kGotAll"
           /\ state_' = [state_ EXCEPT ![c] = p.state]
           /\ UNCHANGED <<answers, closing, busy, authVars>>
     /\ UNCHANGED <<script, patient, asked>>

(* The ticket handler goes on with createTicket. *)
finishTicket(l) ==
  LET c == busy[l]
      n == current_[c]
  IN /\ c # Nobody
     /\ createTicket(script[c][n].key, script[c][n].permission)
     /\ Respond(c, n, "ok")
     /\ busy' = [busy EXCEPT ![l] = Nobody]
     /\ UNCHANGED <<script, patient, asked, wire, buf, current_>>
==============================================================================
