---------------------------- MODULE MCLoginServer ----------------------------
(* LoginServer with two clients that follow short scripts, for TLC. *)
EXTENDS LoginServer, TLC

CONSTANTS c1, c2

OneTeacher == "teacher01" :> [password |-> "123456", role |-> "teacher", enabled |-> TRUE]

Right == [user |-> "teacher01", password |-> "123456", role |-> "teacher"]
WrongRole == [Right EXCEPT !.role = "student"]

Request(what, token) ==
  [what |-> what, token |-> token, version |-> "kHttp11", connection |-> "",
   json |-> TRUE, cred |-> Right, key |-> "a", permission |-> "publish"]

Login == Request("login", 0)
Me == Request("me", 1)
Logout == Request("logout", 1)
Ticket == Request("ticket", 1)
PlayTicket == [Ticket EXCEPT !.permission = "play", !.key = "b"]
NoTicket == [Ticket EXCEPT !.permission = "unknown"]
Health == Request("health", 0)
LastHealth == [Health EXCEPT !.version = "kHttp10"]
LoginGarbled == [Login EXCEPT !.json = FALSE]
LoginDenied == [Login EXCEPT !.cred = WrongRole]

(* Tokens on two connections, tickets, and requests that do not parse, that  *)
(* close or that nothing answers for.                                         *)
SomeScripts ==
  {c1 :> s[1] @@ c2 :> s[2] : s \in
     {<<<<Login, Logout>>, <<Me, Me>>>>,
      <<<<Login, Ticket>>, <<PlayTicket>>>>,
      <<<<LastHealth, LoginDenied>>, <<LoginGarbled>>>>,
      <<<<Health, Request("badLength", 0)>>, <<Request("unknown", 0)>>>>,
      <<<<Login, NoTicket>>, <<Request("badLine", 0)>>>>}}
==============================================================================
