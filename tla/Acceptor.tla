------------------------------- MODULE Acceptor -------------------------------
(* Acceptor::handleRead and TcpServer::newConnection on the base loop: one    *)
(* accept per readable event, and what happens when the process is out of     *)
(* descriptors.                                                               *)
EXTENDS EventLoopThreadPool

CONSTANTS Clients,
          FreeAtStart  \* descriptors the process may still open when it listens

ASSUME FreeAssumption == FreeAtStart \in Nat

VARIABLES
  client,   \* "new", "pending" in the backlog, "open", "closed"
  backlog,  \* connections the kernel holds for accept
  free,     \* descriptors left
  idleFd_,  \* is the reserve descriptor open?
  emfile,   \* is handleRead between closing the reserve and opening it again?
  inRoot,   \* is the working directory the root, where "dev/null" exists?
  loopOf,   \* the I/O loop of a connection
  next_     \* next_ of the pool

acceptVars == <<client, backlog, free, idleFd_, emfile, inRoot, loopOf, next_>>

AcceptInit ==
  /\ client = [c \in Clients |-> "new"] /\ backlog = <<>>
  /\ free = FreeAtStart /\ idleFd_ = TRUE /\ emfile = FALSE /\ inRoot \in BOOLEAN
  /\ loopOf = [c \in Clients |-> Null] /\ next_ = 0

(* A client connects; the kernel completes it without the server. *)
Connect(c) ==
  /\ main = "serving" /\ client[c] = "new"
  /\ client' = [client EXCEPT ![c] = "pending"]
  /\ backlog' = Append(backlog, c)
  /\ UNCHANGED <<free, idleFd_, emfile, inRoot, loopOf, next_>>

(* accept() gave a descriptor: newConnection hands it to the next loop. *)
NewConnection ==
  LET c == Head(backlog) IN
  /\ client' = [client EXCEPT ![c] = "open"]
  /\ backlog' = Tail(backlog)
  /\ free' = free - 1
  /\ loopOf' = [loopOf EXCEPT ![c] = getNextLoop(next_)]
  /\ next_' = nextAfter(next_)
  /\ UNCHANGED <<idleFd_, emfile, inRoot>>

(* Mutant of OutOfDescriptors: what it closes was open a second time. *)
OutOfDescriptorsClosesTwo ==
  /\ idleFd_' = FALSE /\ free' = 2 /\ emfile' = TRUE
  /\ UNCHANGED <<client, backlog, inRoot, loopOf, next_>>

(* accept() failed with EMFILE: the reserve is closed. *)
OutOfDescriptors ==
  /\ idleFd_' = FALSE /\ emfile' = TRUE
  /\ free' = free + (IF idleFd_ THEN 1 ELSE 0)
  /\ UNCHANGED <<client, backlog, inRoot, loopOf, next_>>

(* The accept on the closed reserve fails and the connection stays in the    *)
(* backlog; the second close finds nothing, since no other thread opens       *)
(* descriptors here; the reserve is opened by a relative name.  Other loops   *)
(* may have closed connections since the reserve was closed.                  *)
Reopen ==
  /\ emfile /\ emfile' = FALSE
  /\ idleFd_' = (inRoot /\ free > 0)
  /\ free' = free - (IF idleFd_' THEN 1 ELSE 0)
  /\ UNCHANGED <<client, backlog, inRoot, loopOf, next_>>

(* The listening socket is readable for as long as the backlog is not empty. *)
handleRead ==
  \/ /\ main = "serving" /\ backlog # <<>> /\ ~emfile
     /\ \/ free > 0 /\ NewConnection
        \/ free = 0 /\ OutOfDescriptors
  \/ Reopen

(* removeConnection and connectDestroyed: with the TcpConnection goes its    *)
(* Socket, which closes the descriptor.                                       *)
Closed(c) ==
  /\ client[c] = "open"
  /\ client' = [client EXCEPT ![c] = "closed"]
  /\ free' = free + 1
  /\ UNCHANGED <<backlog, idleFd_, emfile, inRoot, loopOf, next_>>
==============================================================================
