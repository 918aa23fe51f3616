----------------------------- MODULE AuthService -----------------------------
(* AuthService with its UserStore and TokenManager, and RtmpTicketManager:    *)
(* tokens and tickets that expire by the wall clock, each manager behind a    *)
(* mutex.  The random 128 bits of a token are a number never given before, a  *)
(* request without one has token 0, which is in no table.                     *)
EXTENDS Integers, Sequences, Functions

CONSTANTS Keys,       \* stream keys, those of valid stream names
          Users,      \* the users of UserStore: name -> [password, role, enabled]
          TokenTtl,   \* ttlSeconds_ of TokenManager
          TicketTtl,  \* ttlSeconds_ of RtmpTicketManager
          MaxTime     \* bound: the wall clock

ASSUME TtlAssumption == TokenTtl \in Nat /\ TicketTtl \in Nat /\ MaxTime \in Nat

VARIABLES
  now,        \* system_clock in seconds
  sessions_,  \* token -> AuthSession
  tickets_,   \* ticket -> RtmpTicket
  issued,     \* history: how many tokens were given
  minted,     \* history: the tickets given, with what they were asked for
  dead,       \* history: tokens given that were logged out or found expired
  spent,      \* history: tickets found expired
  admission   \* history: what the last question of an RTMP connection was granted, or Refused

authVars == <<now, sessions_, tickets_, issued, minted, dead, spent, admission>>

Empty == <<>>

Refused == [ticket |-> 0, key |-> "", publish |-> FALSE]

AuthInit ==
  /\ now = 0 /\ sessions_ = Empty /\ tickets_ = Empty
  /\ issued = 0 /\ minted = <<>> /\ dead = {} /\ spent = {}
  /\ admission = Refused

(* The wall clock goes on, or is set. *)
SetClock(t) ==
  /\ now' = t /\ t # now
  /\ UNCHANGED <<sessions_, tickets_, issued, minted, dead, spent, admission>>

(* The table f with the entry e under the key k. *)
With(f, k, e) == [x \in DOMAIN f \cup {k} |-> IF x = k THEN e ELSE f[x]]

Without(f, k) == Restrict(f, DOMAIN f \ {k})

(* removeExpiredLocked of both managers. *)
removeExpiredLocked(f) == Restrict(f, {k \in DOMAIN f : f[k].expireAt > now})

(* UserStore::findByUsername, with the password hash compared. *)
KnownUser(cred) == cred.user \in DOMAIN Users /\ Users[cred.user].password = cred.password

(* AuthService::login: may these credentials have a session? *)
LoginAllowed(cred) ==
  /\ cred.role # "unknown"
  /\ KnownUser(cred)
  /\ Users[cred.user].enabled
  /\ Users[cred.user].role = cred.role

(* TokenManager::generateToken. *)
generateToken == issued + 1

(* TokenManager::createSession. *)
createSession(user) ==
  /\ issued' = generateToken
  /\ sessions_' = With(removeExpiredLocked(sessions_), issued',
                       [user |-> user, expireAt |-> now + TokenTtl])
  /\ UNCHANGED <<now, tickets_, minted, dead, spent, admission>>

(* TokenManager::verify finds the token and its time has not come. *)
Verified(token) == token \in DOMAIN sessions_ /\ sessions_[token].expireAt > now

(* An entry that was found expired is erased. *)
Erased(f, k) == IF k \in DOMAIN f /\ f[k].expireAt <= now THEN Without(f, k) ELSE f

(* Mutant of verify: an expired token is refused and kept. *)
verifyKeeps(token) ==
  /\ dead' = IF ~Verified(token) /\ token \in 1 .. issued THEN dead \cup {token} ELSE dead
  /\ UNCHANGED <<now, sessions_, tickets_, issued, minted, spent, admission>>

(* TokenManager::verify. *)
verify(token) ==
  /\ sessions_' = Erased(sessions_, token)
  /\ dead' = IF ~Verified(token) /\ token \in 1 .. issued THEN dead \cup {token} ELSE dead
  /\ UNCHANGED <<now, tickets_, issued, minted, spent, admission>>

(* TokenManager::remove, and whether it found the token. *)
Removes(token) == token \in DOMAIN sessions_

remove(token) ==
  /\ sessions_' = Without(sessions_, token)
  /\ dead' = IF token \in 1 .. issued THEN dead \cup {token} ELSE dead
  /\ UNCHANGED <<now, tickets_, issued, minted, spent, admission>>

Permissions == {"publish", "play", "both"}

(* RtmpTicketManager::createTicket. *)
createTicket(key, permission) ==
  /\ minted' = Append(minted, [key |-> key, permission |-> permission])
  /\ tickets_' = With(removeExpiredLocked(tickets_), Len(minted'),
                      [streamKey |-> key,
                       allowPublish |-> permission \in {"publish", "both"},
                       allowPlay |-> permission \in {"play", "both"},
                       expireAt |-> now + TicketTtl])
  /\ UNCHANGED <<now, sessions_, issued, dead, spent, admission>>

(* Mutant of Admits: the stream key is not compared. *)
AdmitsAnyStream(ticket, key, publish) ==
  /\ ticket \in DOMAIN tickets_ /\ tickets_[ticket].expireAt > now
  /\ IF publish THEN tickets_[ticket].allowPublish ELSE tickets_[ticket].allowPlay

(* RtmpTicketManager::verify: is the ticket one for this? *)
Admits(ticket, key, publish) ==
  /\ ticket \in DOMAIN tickets_ /\ tickets_[ticket].expireAt > now
  /\ tickets_[ticket].streamKey = key
  /\ IF publish THEN tickets_[ticket].allowPublish ELSE tickets_[ticket].allowPlay

(* verifyPublish or verifyPlay, as the auth callback of RtmpServer calls it. *)
verifyTicket(ticket, key, publish) ==
  /\ admission' = IF Admits(ticket, key, publish)
                  THEN [ticket |-> ticket, key |-> key, publish |-> publish] ELSE Refused
  /\ tickets_' = Erased(tickets_, ticket)
  /\ spent' = IF ticket \in DOMAIN tickets_ /\ tickets_[ticket].expireAt > now
              THEN spent ELSE spent \cup {ticket}
  /\ UNCHANGED <<now, sessions_, issued, minted, dead>>
==============================================================================
