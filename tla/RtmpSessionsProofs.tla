-------------------------- MODULE RtmpSessionsProofs --------------------------
(***************************************************************************)
(* Proofs about RtmpSessions: the types, the groups of pictures, clean-up   *)
(* and the registry for any assignment of connections to I/O loops;         *)
(* publishers, caches and players for a server with a single I/O loop.      *)
(***************************************************************************)
EXTENDS RtmpSessions, TLAPS

(* Every connection has the same I/O loop: RtmpServer without setThreadNum. *)
SingleLoop == \A l, m \in Loops : l = m

-----------------------------------------------------------------------------
(* The invariants.                                                          *)

(* The fields of RtmpConnectionContext that the model keeps. *)
Contexts == [app : Apps \cup {None}, name : Names \cup {None}, stream : BOOLEAN,
             role : {"kUnknown", "kPublisher", "kPlayer"}, session : Objects \cup {None}]

(* The fields of RtmpSession. *)
Sessions == [publisher : Conns \cup {None}, players : SUBSET Conns,
             header : [HeaderKinds -> Messages \cup {None}],
             gop : Seq(Messages), started : BOOLEAN]

(* What a handler at work holds between two of its steps. *)
Jobs == [at : {"setPublisher", "assignPublisher", "addPlayer", "replay", "broadcast",
               "removeIfEmpty"},
         conn : Conns, key : Keys \cup {None}, session : Objects, msg : Messages \cup {None}]

(* A group of pictures begins with a key frame, has no other, and is in the  *)
(* order of publication.                                                     *)
GopOf(o) ==
  /\ o.started <=> o.gop # <<>>
  /\ \A i \in 1 .. Len(o.gop) : o.gop[i].kind = "key" <=> i = 1
  /\ \A i \in 1 .. Len(o.gop) : IsFrame(o.gop[i])
  /\ FramesInOrder(o.gop)

(* No message is numbered higher than the last one, and what is cached as a  *)
(* header is one.                                                            *)
CacheNumbers(o, n) ==
  /\ \A k \in HeaderKinds : o.header[k] # None => o.header[k].n <= n /\ o.header[k].kind = k
  /\ \A i \in 1 .. Len(o.gop) : o.gop[i].n <= n

(* Nor is one that was sent to a player or is being broadcast. *)
Numbers ==
  /\ \A c \in Conns : \A i \in 1 .. Len(heard[c]) : heard[c][i].n <= sent
  /\ \A l \in Loops : busy[l].at = "broadcast" => busy[l].msg \in Messages /\ busy[l].msg.n <= sent

(* What holds on any number of loops. *)
MediaInv ==
  /\ TypeOK /\ Numbers
  /\ \A s \in Objects : GopOf(obj[s]) /\ CacheNumbers(obj[s], sent)

(* Each session has one key, and one that is not in the registry is new. *)
Registry ==
  /\ \A j, k \in Keys : sessions[j] = sessions[k] /\ sessions[k] # None => j = k
  /\ \A s \in Objects : ~InMap(s) => obj[s] = NewSession

(* The session that connection c has named. *)
Named(c, s) == StreamKey(ctx[c]) \in Keys /\ sessions[StreamKey(ctx[c])] = s

(* What the handler on a loop has established and not yet used. *)
Handler(b) ==
  /\ InMap(b.session)
  /\ b.at \in {"setPublisher", "assignPublisher", "addPlayer"} =>
       /\ Open(b.conn) /\ Named(b.conn, b.session)
       /\ b.conn \notin strayed => ctx[b.conn].role = "kUnknown"
  /\ b.at = "assignPublisher" => MayPublish(b.session, b.conn)
  /\ b.at = "replay" => b.conn \in obj[b.session].players /\ heard[b.conn] = <<>>
  /\ b.at = "broadcast" => obj[b.session].publisher = b.conn
  /\ b.at = "removeIfEmpty" => b.key \in Keys /\ sessions[b.key] = b.session

(* Every handler at work can rely on what it has established. *)
Handlers == \A l \in Loops : busy[l] # Idle => Handler(busy[l])

(* A connection that has not strayed is in one session at most, the one it   *)
(* named and has the role in.                                                *)
Member(c, s, role) ==
  Open(c) /\ ctx[c].role = role /\ ctx[c].session = s /\ Named(c, s)

(* Publishers and players are members of their sessions. *)
Members ==
  \A s \in Objects : \A c \in Conns \ strayed :
    /\ obj[s].publisher = c => Member(c, s, "kPublisher")
    /\ c \in obj[s].players => Member(c, s, "kPlayer")

(* The caches come from the publisher. *)
CachesFrom(o) ==
  o.publisher # None =>
    /\ \A k \in HeaderKinds : o.header[k] # None => o.header[k].from = o.publisher
    /\ \A i \in 1 .. Len(o.gop) : o.gop[i].from = o.publisher

(* So it is in every session. *)
Caches == \A s \in Objects : CachesFrom(obj[s])

(* No session is left behind empty. *)
NoneEmpty == \A s \in Objects : InMap(s) /\ ~Held(s) => ~Empty(s)

(* What a player will have been sent when the handler at work returns. *)
Soon(b, s, p) ==
  IF b.at = "replay" /\ b.conn = p /\ b.session = s THEN heard[p] \o Cached(obj[s])
  ELSE IF b.at = "broadcast" /\ b.session = s THEN Append(heard[p], b.msg)
  ELSE heard[p]

(* Every player is up to date as soon as the handler at work returns. *)
Players ==
  \A s \in Objects : \A p \in obj[s].players :
    tcp[p] = "up" /\ p \notin strayed =>
      \A l \in Loops : UpToDate(obj[s], Soon(busy[l], s, p))

(* What holds on a single loop. *)
LoopInv ==
  /\ Registry /\ Members /\ NoneEmpty /\ PublisherKept /\ Players /\ Handlers /\ Caches

-----------------------------------------------------------------------------
(* Lemmas about sessions.                                                   *)

(* The types, by the names of this module. *)
Types ==
  /\ tcp \in [Conns -> {"none", "up", "closing", "down"}]
  /\ ctx \in [Conns -> Contexts] /\ sessions \in [Keys -> Objects \cup {None}]
  /\ obj \in [Objects -> Sessions] /\ busy \in [Loops -> {Idle} \cup Jobs]
  /\ sent \in 0 .. MaxMedia /\ heard \in [Conns -> Seq(Messages)]
  /\ strayed \subseteq Conns

(* These are the types. *)
LEMMA TypesSay == (TypeOK <=> Types) /\ (TypeOK' <=> Types')
BY DEF TypeOK, Types, Contexts, Sessions, Jobs

(* None is nothing else. *)
LEMMA NoneIsNone ==
  /\ None \notin Conns /\ None \notin Apps /\ None \notin Names /\ None \notin Keys
  /\ None \notin Objects /\ None \notin Messages /\ MaxMedia \in Nat
BY SessionsAssumption DEF Keys, Objects, Messages

(* A new session caches nothing. *)
LEMMA NewSessionOK ==
  /\ NewSession \in Sessions /\ GopOf(NewSession) /\ \A n : CacheNumbers(NewSession, n)
  /\ CachesFrom(NewSession)
  /\ NewSession.publisher = None /\ NewSession.players = {} /\ NewSession.gop = <<>>
  /\ \A k \in HeaderKinds : NewSession.header[k] = None
BY DEF NewSession, Sessions, GopOf, CacheNumbers, CachesFrom, FramesInOrder

(* q has the caches of o. *)
SameCaches(o, q) == q.header = o.header /\ q.gop = o.gop /\ q.started = o.started

(* The caches have their invariants together. *)
LEMMA SameCachesOK ==
  ASSUME NEW o, NEW q, SameCaches(o, q), NEW n, GopOf(o), CacheNumbers(o, n)
  PROVE  GopOf(q) /\ CacheNumbers(q, n)
BY DEF SameCaches, GopOf, CacheNumbers

(* Time goes on: higher numbers are possible. *)
LEMMA CacheNumbersGrow ==
  ASSUME NEW o \in Sessions, NEW n \in Nat, CacheNumbers(o, n)
  PROVE  CacheNumbers(o, n + 1)
<1>1. \A k \in HeaderKinds : o.header[k] \in Messages \cup {None}
  BY DEF Sessions
<1>2. \A i \in 1 .. Len(o.gop) : o.gop[i] \in Messages
  BY DEF Sessions
<1>3. \A m \in Messages : m.n \in Nat
  BY DEF Messages
<1> QED
  BY <1>1, <1>2, <1>3 DEF CacheNumbers

(* cacheMediaMessage: the message takes its place behind all others. *)
LEMMA CacheMediaMessageOK ==
  ASSUME NEW o \in Sessions, NEW n \in Nat, NEW m \in Messages, m.n = n + 1,
         GopOf(o), CacheNumbers(o, n)
  PROVE  /\ CacheMediaMessage(o, m) \in Sessions
         /\ GopOf(CacheMediaMessage(o, m)) /\ CacheNumbers(CacheMediaMessage(o, m), n + 1)
         /\ CacheMediaMessage(o, m).publisher = o.publisher
         /\ CacheMediaMessage(o, m).players = o.players
<1> DEFINE q == CacheMediaMessage(o, m)
<1>1. CacheNumbers(o, n + 1)
  BY CacheNumbersGrow
<1>2. CASE m.kind \in HeaderKinds
  <2>1. q = [o EXCEPT !.header[m.kind] = m]
    BY <1>2 DEF CacheMediaMessage
  <2>2. q \in Sessions /\ q.gop = o.gop /\ q.started = o.started /\ q.publisher = o.publisher
        /\ q.players = o.players /\ q.header = [o.header EXCEPT ![m.kind] = m]
    BY <1>2, <2>1 DEF Sessions
  <2> HIDE DEF q
  <2>3. GopOf(q)
    BY <2>2 DEF GopOf
  <2>4. \A k \in HeaderKinds : q.header[k] = IF k = m.kind THEN m ELSE o.header[k]
    BY <1>2, <2>2 DEF Sessions
  <2>5. CacheNumbers(q, n + 1)
    BY <1>1, <1>2, <2>2, <2>4 DEF CacheNumbers
  <2> QED
    BY <2>2, <2>3, <2>5 DEF q
<1>3. CASE m.kind \notin HeaderKinds /\ IsVideoKeyFrame(m)
  <2>1. q = [o EXCEPT !.gop = <<m>>, !.started = TRUE]
    BY <1>3 DEF CacheMediaMessage
  <2>2. q \in Sessions /\ q.gop = <<m>> /\ q.started = TRUE /\ q.publisher = o.publisher
        /\ q.players = o.players /\ q.header = o.header
    <3>1. <<m>> \in Seq(Messages)
      OBVIOUS
    <3>2. PICK g \in Seq(Messages) : g = <<m>>
      BY <3>1
    <3>3. q = [o EXCEPT !.gop = g, !.started = TRUE]
      BY <2>1, <3>2
    <3> HIDE DEF q
    <3>4. q \in Sessions /\ q.gop = g /\ q.started = TRUE /\ q.publisher = o.publisher
          /\ q.players = o.players /\ q.header = o.header
      BY <3>3 DEF Sessions
    <3> QED
      BY <3>2, <3>4
  <2>3. m.kind = "key"
    BY <1>3 DEF IsVideoKeyFrame, HeaderKinds
  <2> HIDE DEF q
  <2>4. Len(q.gop) = 1 /\ q.gop[1] = m /\ q.gop # <<>>
    BY <2>2
  <2>5. GopOf(q)
    BY <2>2, <2>3, <2>4 DEF GopOf, IsFrame, FrameKinds, FramesInOrder
  <2>6. CacheNumbers(q, n + 1)
    BY <1>1, <2>2, <2>4 DEF CacheNumbers
  <2> QED
    BY <2>2, <2>5, <2>6 DEF q
<1>4. CASE m.kind \notin HeaderKinds /\ ~IsVideoKeyFrame(m) /\ o.started
  <2>1. q = [o EXCEPT !.gop = Append(@, m)]
    BY <1>4 DEF CacheMediaMessage
  <2>2. q \in Sessions /\ q.gop = Append(o.gop, m) /\ q.started = o.started
        /\ q.publisher = o.publisher /\ q.players = o.players /\ q.header = o.header
    <3>1. o.gop \in Seq(Messages)
      BY DEF Sessions
    <3>2. Append(o.gop, m) \in Seq(Messages)
      BY <3>1
    <3>5. PICK g \in Seq(Messages) : g = Append(o.gop, m)
      BY <3>2, Zenon
    <3>3. q = [o EXCEPT !.gop = g]
      BY <2>1, <3>5
    <3> HIDE DEF q
    <3>4. q \in Sessions /\ q.gop = g /\ q.started = o.started /\ q.publisher = o.publisher
          /\ q.players = o.players /\ q.header = o.header
      BY <3>3 DEF Sessions
    <3> QED
      BY <3>4, <3>5
  <2>3. o.gop \in Seq(Messages) /\ o.gop # <<>>
    BY <1>4 DEF Sessions, GopOf
  <2>4. m.kind # "key" /\ IsFrame(m)
    BY <1>4, SessionsAssumption DEF IsVideoKeyFrame, IsFrame, Messages
  <2> HIDE DEF q
  <2>5. /\ Len(q.gop) = Len(o.gop) + 1 /\ Len(o.gop) \in Nat \ {0} /\ q.gop # <<>>
        /\ q.gop[Len(o.gop) + 1] = m /\ \A i \in 1 .. Len(o.gop) : q.gop[i] = o.gop[i]
    BY <2>2, <2>3
  <2>6. GopOf(q)
    <3>1. /\ q.started <=> q.gop # <<>>
          /\ \A i \in 1 .. Len(q.gop) : q.gop[i].kind = "key" <=> i = 1
          /\ \A i \in 1 .. Len(q.gop) : IsFrame(q.gop[i])
      BY <1>4, <2>2, <2>4, <2>5 DEF GopOf
    <3>2. FramesInOrder(q.gop)
      <4> SUFFICES ASSUME NEW i \in 1 .. Len(q.gop), NEW j \in 1 .. Len(q.gop), i < j,
                          IsFrame(q.gop[i]), IsFrame(q.gop[j])
                   PROVE  q.gop[i].n < q.gop[j].n
        BY DEF FramesInOrder
      <4>1. CASE j = Len(o.gop) + 1
        <5>1. i \in 1 .. Len(o.gop) /\ q.gop[i] = o.gop[i] /\ q.gop[j] = m
          BY <2>5, <4>1
        <5>2. o.gop[i].n <= n
          BY <5>1 DEF CacheNumbers
        <5>3. o.gop[i] \in Messages
          BY <2>3, <5>1
        <5>4. o.gop[i].n \in Nat
          BY <5>3 DEF Messages
        <5> QED
          BY <5>1, <5>2, <5>4
      <4>2. CASE j # Len(o.gop) + 1
        <5>1. i \in 1 .. Len(o.gop) /\ j \in 1 .. Len(o.gop)
          BY <2>5, <4>2
        <5> QED
          BY <2>5, <5>1 DEF GopOf, FramesInOrder
      <4> QED
        BY <4>1, <4>2
    <3> QED
      BY <3>1, <3>2 DEF GopOf
  <2>7. CacheNumbers(q, n + 1)
    BY <1>1, <2>2, <2>5 DEF CacheNumbers
  <2> QED
    BY <2>2, <2>6, <2>7 DEF q
<1>5. CASE m.kind \notin HeaderKinds /\ ~IsVideoKeyFrame(m) /\ ~o.started
  BY <1>1, <1>5 DEF CacheMediaMessage
<1> QED
  BY <1>2, <1>3, <1>4, <1>5

-----------------------------------------------------------------------------
(* Types.                                                                   *)

(* What an idle loop has, and what the contexts and jobs of handlers are. *)
LEMMA IdleIs ==
  /\ Idle.at = "idle" /\ Idle.conn = None /\ Idle.session = None /\ Idle.msg = None
  /\ Idle.key = None /\ Idle \notin Jobs
  /\ NewContext \in Contexts /\ NewContext.role = "kUnknown" /\ NewContext.session = None
  /\ NewContext.app = None /\ NewContext.name = None
BY DEF Idle, Jobs, NewContext, Contexts

(* A job past its look-up. *)
LEMMA JobIs ==
  ASSUME NEW at \in {"setPublisher", "assignPublisher", "addPlayer", "replay", "broadcast",
                     "removeIfEmpty"},
         NEW c \in Conns, NEW k \in Keys \cup {None}, NEW s \in Objects,
         NEW m \in Messages \cup {None}
  PROVE  /\ [Idle EXCEPT !.at = at, !.conn = c, !.session = s] \in Jobs
         /\ [Idle EXCEPT !.at = at, !.conn = c, !.session = s, !.msg = m] \in Jobs
         /\ [Idle EXCEPT !.at = at, !.conn = c, !.key = k, !.session = s] \in Jobs
         /\ \A j \in Jobs : [j EXCEPT !.at = at] \in Jobs
BY DEF Idle, Jobs

(* A busy loop has a job. *)
LEMMA BusyIs ==
  ASSUME Types, NEW l \in Loops
  PROVE  /\ busy[l] # Idle <=> busy[l] \in Jobs
         /\ busy[l] = Idle <=> busy[l].at = "idle"
         /\ busy[l] # Idle => /\ busy[l].conn \in Conns /\ busy[l].session \in Objects
                              /\ busy[l].key \in Keys \cup {None}
                              /\ busy[l].msg \in Messages \cup {None}
<1>1. busy[l] \in {Idle} \cup Jobs
  BY DEF Types
<1>2. \A j \in Jobs : /\ j.at # "idle" /\ j.conn \in Conns /\ j.session \in Objects
                      /\ j.key \in Keys \cup {None} /\ j.msg \in Messages \cup {None}
  BY DEF Jobs
<1> QED
  BY <1>1, <1>2, IdleIs, Zenon

(* The session of a look-up, and whether it is a new one. *)
LEMMA SessionForIs ==
  ASSUME Types, NEW k \in Keys, sessions[k] # None \/ Free # {}
  PROVE  /\ SessionFor(k) \in Objects
         /\ sessions[k] # None => SessionFor(k) = sessions[k]
         /\ sessions[k] = None => SessionFor(k) \in Free
<1>1. sessions[k] \in Objects \cup {None}
  BY DEF Types
<1>2. CASE sessions[k] # None
  BY <1>1, <1>2 DEF SessionFor
<1>3. CASE sessions[k] = None
  <2>1. SessionFor(k) = CHOOSE s \in Free : TRUE
    BY <1>3 DEF SessionFor
  <2>2. SessionFor(k) \in Free
    BY <1>3, <2>1
  <2>3. Free \subseteq Objects
    BY DEF Free
  <2> QED
    BY <1>3, <2>2, <2>3
<1> QED
  BY <1>2, <1>3

(* A stream key is a key. *)
LEMMA StreamKeyIs ==
  ASSUME NEW x \in Contexts
  PROVE  StreamKey(x) \in Keys \cup {None} /\ (StreamKey(x) # None => StreamKey(x) \in Keys)
BY DEF StreamKey, Contexts, Keys

(* q is the session o after clearPublisher or removePlayer. *)
IsWithout(o, c, role, q) ==
  /\ q \in Sessions /\ SameCaches(o, q)
  /\ q.publisher = IF role = "kPublisher" /\ o.publisher = c THEN None ELSE o.publisher
  /\ q.players = IF role = "kPlayer" THEN o.players \ {c} ELSE o.players

(* By role. *)
LEMMA WithoutIs ==
  ASSUME NEW o \in Sessions, NEW c \in Conns, NEW role
  PROVE  IsWithout(o, c, role, Without(o, c, role))
<1>1. CASE role = "kPublisher" /\ o.publisher = c
  <2>1. Without(o, c, role) = [o EXCEPT !.publisher = None]
    BY <1>1 DEF Without
  <2> QED
    BY <1>1, <2>1 DEF IsWithout, SameCaches, Sessions
<1>2. CASE role = "kPlayer"
  <2>1. Without(o, c, role) = [o EXCEPT !.players = @ \ {c}]
    BY <1>2 DEF Without
  <2> QED
    BY <1>2, <2>1 DEF IsWithout, SameCaches, Sessions
<1>3. CASE ~(role = "kPublisher" /\ o.publisher = c) /\ role # "kPlayer"
  <2>1. Without(o, c, role) = o
    BY <1>3 DEF Without
  <2> QED
    BY <1>3, <2>1 DEF IsWithout, SameCaches
<1> QED
  BY <1>1, <1>2, <1>3

(* Sessions stay sessions. *)
LEMMA SessionsStay ==
  ASSUME NEW o \in Sessions, NEW c \in Conns, NEW P \in SUBSET Conns
  PROVE  /\ PublishedBy(o, c) \in Sessions /\ PublishedBy(o, c).publisher = c
         /\ PublishedBy(o, c).players = o.players
         /\ o.publisher = c => PublishedBy(o, c) = o
         /\ o.publisher # c => SameCaches(NewSession, PublishedBy(o, c))
         /\ [o EXCEPT !.players = P] \in Sessions /\ SameCaches(o, [o EXCEPT !.players = P])
         /\ [o EXCEPT !.players = P].publisher = o.publisher
         /\ [o EXCEPT !.players = P].players = P
<1>1. /\ PublishedBy(o, c) \in Sessions /\ PublishedBy(o, c).publisher = c
      /\ PublishedBy(o, c).players = o.players
      /\ o.publisher = c => PublishedBy(o, c) = o
      /\ o.publisher # c => SameCaches(NewSession, PublishedBy(o, c))
  <2>1. CASE o.publisher = c
    BY <2>1 DEF PublishedBy
  <2>2. CASE o.publisher # c
    BY <2>2, NewSessionOK DEF PublishedBy, SameCaches, Sessions
  <2> QED
    BY <2>1, <2>2
<1>2. /\ [o EXCEPT !.players = P] \in Sessions /\ SameCaches(o, [o EXCEPT !.players = P])
      /\ [o EXCEPT !.players = P].publisher = o.publisher
      /\ [o EXCEPT !.players = P].players = P
  BY DEF SameCaches, Sessions
<1> QED
  BY <1>1, <1>2

-----------------------------------------------------------------------------
(* Types, numbers and groups of pictures on any number of loops.            *)

(* The caches of all sessions are well formed. *)
CachesOK == \A s \in Objects : GopOf(obj[s]) /\ CacheNumbers(obj[s], sent)

(* One session changes and keeps its caches or gets empty ones. *)
LEMMA OneSession ==
  ASSUME Types, CachesOK, NEW s \in Objects, NEW o \in Sessions,
         SameCaches(obj[s], o) \/ SameCaches(NewSession, o),
         obj' = [obj EXCEPT ![s] = o], sent' = sent
  PROVE  obj' \in [Objects -> Sessions] /\ CachesOK'
<1>1. obj' \in [Objects -> Sessions] /\ \A t \in Objects : obj'[t] = IF t = s THEN o ELSE obj[t]
  BY DEF Types
<1>2. GopOf(o) /\ CacheNumbers(o, sent)
  BY SameCachesOK, NewSessionOK, Zenon DEF CachesOK
<1>3. \A t \in Objects : GopOf(obj'[t]) /\ CacheNumbers(obj'[t], sent')
  BY <1>1, <1>2 DEF CachesOK
<1> QED
  BY <1>1, <1>3, Zenon DEF CachesOK

(* Numbers depends on these variables only. *)
LEMMA NumbersStay ==
  ASSUME Types, Numbers, sent' = sent, heard' = heard,
         \A l \in Loops : busy'[l].at = "broadcast" => busy'[l] = busy[l]
  PROVE  Numbers'
BY DEF Numbers

(* The commands that look nothing up. *)
LEMMA PlainCommandMedia ==
  ASSUME Types, Numbers, CachesOK, NEW c \in Conns,
         \/ Connected(c) \/ HandleCreateStream(c) \/ Refused(c)
         \/ \E app \in Apps \cup {None} : HandleConnect(c, app)
         \/ \E name \in Names : StreamRefused(c, name)
  PROVE  Types' /\ Numbers' /\ CachesOK'
<1>1. UNCHANGED <<sessions, obj, busy, sent, heard>>
  BY DEF Connected, HandleCreateStream, Refused, HandleConnect, StreamRefused
<1>2. tcp' \in [Conns -> {"none", "up", "closing", "down"}]
  BY DEF Connected, HandleCreateStream, Refused, HandleConnect, StreamRefused, ShutDown, Types
<1>3. strayed' \subseteq Conns
  BY DEF Connected, HandleCreateStream, Refused, HandleConnect, StreamRefused, Strays, Types
<1>4. ctx' \in [Conns -> Contexts]
  <2>1. ctx \in [Conns -> Contexts] /\ ctx[c] \in Contexts
    BY DEF Types
  <2>2. CASE Connected(c)
    BY <2>1, <2>2, IdleIs DEF Connected
  <2>3. CASE HandleCreateStream(c)
    BY <2>1, <2>3 DEF HandleCreateStream, Contexts
  <2>4. CASE Refused(c)
    BY <2>1, <2>4 DEF Refused
  <2>5. ASSUME NEW app \in Apps \cup {None}, HandleConnect(c, app)
        PROVE  ctx' \in [Conns -> Contexts]
    BY <2>1, <2>5 DEF HandleConnect, Contexts
  <2>6. ASSUME NEW name \in Names, StreamRefused(c, name)
        PROVE  ctx' \in [Conns -> Contexts]
    BY <2>1, <2>6 DEF StreamRefused, Contexts
  <2> QED
    BY <2>2, <2>3, <2>4, <2>5, <2>6
<1>5. Types'
  BY <1>1, <1>2, <1>3, <1>4 DEF Types
<1>6. Numbers'
  BY <1>1 DEF Numbers
<1>7. CachesOK'
  BY <1>1 DEF CachesOK
<1> QED
  BY <1>5, <1>6, <1>7

(* getOrCreateSession *)
LEMMA LookUpMedia ==
  ASSUME Types, Numbers, CachesOK, NEW c \in Conns, NEW name \in Names,
         NEW next \in {"setPublisher", "addPlayer"}, GetOrCreateSession(c, name, next)
  PROVE  Types' /\ Numbers' /\ CachesOK'
<1> DEFINE x == [ctx[c] EXCEPT !.name = name]
           k == StreamKey(x)
           s == SessionFor(k)
           j == [Idle EXCEPT !.at = next, !.conn = c, !.session = s]
<1>1. /\ k # None /\ (sessions[k] # None \/ Free # {})
      /\ ctx' = [ctx EXCEPT ![c] = x] /\ sessions' = [sessions EXCEPT ![k] = s]
      /\ obj' = IF sessions[k] = None THEN [obj EXCEPT ![s] = NewSession] ELSE obj
      /\ busy' = [busy EXCEPT ![LoopOf[c]] = j] /\ Strays(c) /\ UNCHANGED <<tcp, sent, heard>>
  BY DEF GetOrCreateSession
<1>2. x \in Contexts
  BY DEF Types, Contexts
<1> HIDE DEF x
<1>3. k \in Keys
  BY <1>1, <1>2, StreamKeyIs
<1> HIDE DEF k
<1>4. s \in Objects
  BY <1>1, <1>3, SessionForIs
<1>5. j \in Jobs /\ j.at = next
  <2> HIDE DEF s
  <2>1. j \in Jobs
    BY <1>4, JobIs, NoneIsNone
  <2> QED
    BY <2>1 DEF Idle
<1> HIDE DEF s, j
<1>6. ctx' \in [Conns -> Contexts] /\ sessions' \in [Keys -> Objects \cup {None}]
      /\ busy' \in [Loops -> {Idle} \cup Jobs]
      /\ strayed' \subseteq Conns
      /\ \A l \in Loops : busy'[l] = IF l = LoopOf[c] THEN j ELSE busy[l]
  BY <1>1, <1>2, <1>4, <1>5 DEF Types, Strays
<1>7. obj' \in [Objects -> Sessions] /\ CachesOK'
  <2>1. CASE sessions[k] = None
    <3>1. SameCaches(NewSession, NewSession)
      BY DEF SameCaches
    <3> QED
      BY <1>1, <1>4, <2>1, <3>1, OneSession, NewSessionOK
  <2>2. CASE sessions[k] # None
    BY <1>1, <2>2 DEF CachesOK, Types
  <2> QED
    BY <2>1, <2>2
<1>8. Types'
  BY <1>1, <1>6, <1>7 DEF Types
<1>9. Numbers'
  BY <1>1, <1>5, <1>6, NumbersStay
<1> QED
  BY <1>7, <1>8, <1>9

(* cleanupConnection up to removeIfEmpty. *)
LEMMA CleanupMedia ==
  ASSUME Types, Numbers, CachesOK, NEW c \in Conns, CleanupConnection(c), sent' = sent
  PROVE  /\ obj' \in [Objects -> Sessions] /\ CachesOK' /\ busy' \in [Loops -> {Idle} \cup Jobs]
         /\ \A l \in Loops : busy'[l].at = "broadcast" => busy'[l] = busy[l]
<1> DEFINE k == StreamKey(ctx[c])
           j == [Idle EXCEPT !.at = "removeIfEmpty", !.conn = c, !.key = k,
                             !.session = sessions[k]]
<1>1. CASE UNCHANGED <<obj, busy>>
  BY <1>1 DEF CachesOK, Types
<1>2. CASE /\ k # None /\ sessions[k] # None
           /\ obj' = [obj EXCEPT ![sessions[k]] = Without(@, c, ctx[c].role)]
           /\ busy' = [busy EXCEPT ![LoopOf[c]] = j]
  <2>1. k \in Keys
    <3>1. ctx[c] \in Contexts
      BY DEF Types
    <3> QED
      BY <1>2, <3>1, StreamKeyIs
  <2> HIDE DEF k
  <2>2. sessions[k] \in Objects
    BY <1>2, <2>1 DEF Types
  <2>3. j \in Jobs /\ j.at = "removeIfEmpty"
    <3>1. j \in Jobs
      BY <2>1, <2>2, JobIs
    <3> QED
      BY <3>1 DEF Idle
  <2> HIDE DEF j
  <2>4. busy' \in [Loops -> {Idle} \cup Jobs]
        /\ \A l \in Loops : busy'[l] = IF l = LoopOf[c] THEN j ELSE busy[l]
    BY <1>2, <2>3 DEF Types
  <2>5. PICK o \in Sessions : o = Without(obj[sessions[k]], c, ctx[c].role)
                              /\ SameCaches(obj[sessions[k]], o)
    <3>1. obj[sessions[k]] \in Sessions
      BY <2>2 DEF Types
    <3>2. IsWithout(obj[sessions[k]], c, ctx[c].role, Without(obj[sessions[k]], c, ctx[c].role))
      BY <3>1, WithoutIs
    <3> QED
      BY <3>2 DEF IsWithout
  <2>6. obj' = [obj EXCEPT ![sessions[k]] = o]
    BY <1>2, <2>5
  <2>7. obj' \in [Objects -> Sessions] /\ CachesOK'
    BY <2>2, <2>5, <2>6, OneSession
  <2> QED
    BY <2>3, <2>4, <2>7
<1> QED
  BY <1>1, <1>2 DEF CleanupConnection

(* deleteStream and close. *)
LEMMA LeaveMedia ==
  ASSUME Types, Numbers, CachesOK, NEW c \in Conns, HandleDeleteStream(c) \/ Disconnected(c)
  PROVE  Types' /\ Numbers' /\ CachesOK'
<1>1. /\ CleanupConnection(c) /\ heard' = [heard EXCEPT ![c] = <<>>]
      /\ UNCHANGED <<sessions, sent, strayed>>
      /\ tcp' \in [Conns -> {"none", "up", "closing", "down"}]
  BY DEF HandleDeleteStream, Disconnected, Types
<1>2. /\ obj' \in [Objects -> Sessions] /\ CachesOK' /\ busy' \in [Loops -> {Idle} \cup Jobs]
      /\ \A l \in Loops : busy'[l].at = "broadcast" => busy'[l] = busy[l]
  BY <1>1, CleanupMedia
<1>3. ctx' \in [Conns -> Contexts]
  <2>1. ctx \in [Conns -> Contexts] /\ ctx[c] \in Contexts
    BY DEF Types
  <2>2. NewContext \in Contexts /\ [NewContext EXCEPT !.app = ctx[c].app] \in Contexts
    BY <2>1, IdleIs DEF Contexts
  <2>3. \/ ctx' = [ctx EXCEPT ![c] = NewContext]
        \/ ctx' = [ctx EXCEPT ![c] = [NewContext EXCEPT !.app = ctx[c].app]]
    BY DEF HandleDeleteStream, Disconnected
  <2> QED
    BY <2>1, <2>2, <2>3
<1>4. heard' \in [Conns -> Seq(Messages)]
      /\ \A d \in Conns : heard'[d] = IF d = c THEN <<>> ELSE heard[d]
  BY <1>1 DEF Types
<1>5. Types'
  BY <1>1, <1>2, <1>3, <1>4 DEF Types
<1>6. Numbers'
  <2>1. \A d \in Conns : \A i \in 1 .. Len(heard'[d]) : heard'[d][i].n <= sent'
    BY <1>1, <1>4 DEF Numbers
  <2>2. \A l \in Loops : busy'[l].at = "broadcast" =>
          busy'[l].msg \in Messages /\ busy'[l].msg.n <= sent'
    BY <1>1, <1>2 DEF Numbers
  <2> QED
    BY <2>1, <2>2 DEF Numbers
<1> QED
  BY <1>2, <1>5, <1>6

(* The message of handleMediaMessage. *)
Message(c, kind) == [from |-> c, n |-> sent + 1, kind |-> kind]

(* It is one. *)
LEMMA MessageIs ==
  ASSUME Types, NEW c \in Conns, NEW kind \in Kinds, sent < MaxMedia
  PROVE  /\ Message(c, kind) \in Messages /\ Message(c, kind).n = sent + 1
         /\ Message(c, kind).from = c /\ Message(c, kind).kind = kind
         /\ sent \in Nat /\ sent + 1 \in 0 .. MaxMedia
BY NoneIsNone DEF Types, Message, Messages

(* handleMediaMessage *)
LEMMA MediaMedia ==
  ASSUME Types, Numbers, CachesOK, NEW c \in Conns, NEW kind \in Kinds,
         HandleMediaMessage(c, kind)
  PROVE  Types' /\ Numbers' /\ CachesOK'
<1> DEFINE m == Message(c, kind)
           s == ctx[c].session
           j == [Idle EXCEPT !.at = "broadcast", !.conn = c, !.session = s, !.msg = m]
<1>1. /\ Bound(c) /\ sent < MaxMedia /\ sent' = sent + 1
      /\ obj' = [obj EXCEPT ![s] = CacheMediaMessage(@, m)]
      /\ busy' = [busy EXCEPT ![LoopOf[c]] = j]
      /\ UNCHANGED <<tcp, ctx, sessions, heard, strayed>>
  BY DEF HandleMediaMessage, Message
<1>2. m \in Messages /\ m.n = sent + 1 /\ sent \in Nat /\ sent' \in 0 .. MaxMedia
  BY <1>1, MessageIs
<1> HIDE DEF m
<1>3. s \in Objects
  <2>1. ctx[c] \in Contexts
    BY DEF Types
  <2> QED
    BY <1>1, <2>1 DEF Bound, Contexts
<1> HIDE DEF s
<1>4. j \in Jobs /\ j.at = "broadcast" /\ j.msg = m
  <2>1. j \in Jobs
    BY <1>2, <1>3, JobIs
  <2> QED
    BY <2>1 DEF Idle
<1> HIDE DEF j
<1>5. /\ busy' \in [Loops -> {Idle} \cup Jobs]
      /\ \A l \in Loops : busy'[l] = IF l = LoopOf[c] THEN j ELSE busy[l]
  BY <1>1, <1>4 DEF Types
<1>6. obj[s] \in Sessions /\ GopOf(obj[s]) /\ CacheNumbers(obj[s], sent)
  BY <1>3 DEF Types, CachesOK
<1>7. PICK o \in Sessions : o = CacheMediaMessage(obj[s], m) /\ GopOf(o) /\ CacheNumbers(o, sent + 1)
  BY <1>2, <1>6, CacheMediaMessageOK
<1>8. obj' \in [Objects -> Sessions] /\ \A t \in Objects : obj'[t] = IF t = s THEN o ELSE obj[t]
  BY <1>1, <1>7 DEF Types
<1>9. CachesOK'
  <2>1. \A t \in Objects : GopOf(obj[t]) /\ CacheNumbers(obj[t], sent + 1)
    <3>1. \A t \in Objects : obj[t] \in Sessions
      BY DEF Types
    <3> QED
      BY <1>2, <3>1, CacheNumbersGrow DEF CachesOK
  <2>2. \A t \in Objects : GopOf(obj'[t]) /\ CacheNumbers(obj'[t], sent')
    BY <1>1, <1>7, <1>8, <2>1
  <2> QED
    BY <2>2, Zenon DEF CachesOK
<1>10. Types'
  BY <1>1, <1>2, <1>5, <1>8 DEF Types
<1>11. Numbers'
  <2>1. ASSUME NEW d \in Conns, NEW i \in 1 .. Len(heard[d])
        PROVE  heard[d][i].n <= sent + 1
    <3>1. heard[d][i].n <= sent
      BY DEF Numbers
    <3>2. heard[d] \in Seq(Messages)
      BY DEF Types
    <3>3. heard[d][i] \in Messages
      BY <3>2
    <3>4. heard[d][i].n \in Nat
      BY <3>3 DEF Messages
    <3> QED
      BY <1>2, <3>1, <3>4
  <2>2. ASSUME NEW l \in Loops, busy'[l].at = "broadcast"
        PROVE  busy'[l].msg \in Messages /\ busy'[l].msg.n <= sent + 1
    <3>1. CASE l = LoopOf[c]
      BY <1>2, <1>4, <1>5, <3>1
    <3>2. CASE l # LoopOf[c]
      <4>1. busy[l].msg \in Messages /\ busy[l].msg.n <= sent
        BY <1>5, <2>2, <3>2 DEF Numbers
      <4>2. busy[l].msg.n \in Nat
        BY <4>1 DEF Messages
      <4> QED
        BY <1>2, <1>5, <3>2, <4>1, <4>2
    <3> QED
      BY <3>1, <3>2
  <2> QED
    BY <1>1, <2>1, <2>2 DEF Numbers
<1> QED
  BY <1>9, <1>10, <1>11

(* One sequence of messages behind another. *)
LEMMA Joined ==
  ASSUME NEW x \in Seq(Messages), NEW y \in Seq(Messages)
  PROVE  /\ x \o y \in Seq(Messages) /\ Len(x) \in Nat /\ Len(y) \in Nat
         /\ Len(x \o y) = Len(x) + Len(y)
         /\ \A i \in 1 .. Len(x) : (x \o y)[i] = x[i]
         /\ \A i \in 1 .. Len(y) : (x \o y)[Len(x) + i] = y[i]
         /\ \A i \in 1 .. Len(x \o y) : i \in 1 .. Len(x) \/ i - Len(x) \in 1 .. Len(y)
OBVIOUS

(* The headers of o, as a sequence. *)
HeadersOf(o, h) ==
  /\ h \in Seq(Messages)
  /\ \A i \in 1 .. Len(h) : \E k \in HeaderKinds : h[i] = o.header[k] /\ o.header[k] # None

(* One header, if there is one. *)
LEMMA OneHeader ==
  ASSUME NEW o \in Sessions, NEW k \in HeaderKinds
  PROVE  /\ HeadersOf(o, IfAny(o.header[k]))
         /\ o.header[k] # None => Hears(IfAny(o.header[k]), o.header[k])
<1>1. CASE o.header[k] = None
  <2>1. IfAny(o.header[k]) = <<>>
    BY <1>1 DEF IfAny
  <2> QED
    BY <1>1, <2>1 DEF HeadersOf
<1>2. CASE o.header[k] # None
  <2>1. IfAny(o.header[k]) = <<o.header[k]>>
    BY <1>2 DEF IfAny
  <2>2. o.header[k] \in Messages
    BY <1>2 DEF Sessions
  <2>3. PICK m \in Messages : m = o.header[k]
    BY <2>2
  <2>4. <<m>> \in Seq(Messages) /\ Len(<<m>>) = 1 /\ <<m>>[1] = m
    OBVIOUS
  <2> QED
    BY <1>2, <2>1, <2>3, <2>4 DEF HeadersOf, Hears
<1> QED
  BY <1>1, <1>2

(* Headers behind headers are headers. *)
LEMMA HeadersJoin ==
  ASSUME NEW o, NEW x, NEW y, HeadersOf(o, x), HeadersOf(o, y)
  PROVE  HeadersOf(o, x \o y) /\ \A m : Hears(x, m) \/ Hears(y, m) => Hears(x \o y, m)
<1>1. x \in Seq(Messages) /\ y \in Seq(Messages)
  BY DEF HeadersOf
<1>2. PICK z \in Seq(Messages) :
        /\ z = x \o y /\ Len(x) \in Nat /\ Len(y) \in Nat /\ Len(z) = Len(x) + Len(y)
        /\ \A i \in 1 .. Len(x) : z[i] = x[i]
        /\ \A i \in 1 .. Len(y) : z[Len(x) + i] = y[i]
        /\ \A i \in 1 .. Len(z) : i \in 1 .. Len(x) \/ i - Len(x) \in 1 .. Len(y)
  BY <1>1, Joined, Zenon
<1>3. HeadersOf(o, z)
  <2> SUFFICES ASSUME NEW i \in 1 .. Len(z)
               PROVE  \E k \in HeaderKinds : z[i] = o.header[k] /\ o.header[k] # None
    BY DEF HeadersOf
  <2>1. CASE i \in 1 .. Len(x)
    BY <1>2, <2>1 DEF HeadersOf
  <2>2. CASE i - Len(x) \in 1 .. Len(y)
    <3>1. z[i] = y[i - Len(x)]
      BY <1>2, <2>2
    <3> QED
      BY <2>2, <3>1 DEF HeadersOf
  <2> QED
    BY <1>2, <2>1, <2>2
<1>4. ASSUME NEW m, Hears(x, m) \/ Hears(y, m)
      PROVE  Hears(z, m)
  <2>1. CASE Hears(x, m)
    BY <1>2, <2>1 DEF Hears
  <2>2. CASE Hears(y, m)
    <3>1. PICK i \in 1 .. Len(y) : y[i] = m
      BY <2>2 DEF Hears
    <3>2. Len(x) + i \in 1 .. Len(z) /\ z[Len(x) + i] = m
      BY <1>2, <3>1
    <3> QED
      BY <3>2 DEF Hears
  <2> QED
    BY <1>4, <2>1, <2>2
<1> QED
  BY <1>2, <1>3, <1>4

(* What is cached are the headers and then the group of pictures. *)
LEMMA CachedAre ==
  ASSUME NEW o \in Sessions
  PROVE  \E h : /\ HeadersOf(o, h) /\ Cached(o) = h \o o.gop
                /\ \A k \in HeaderKinds : o.header[k] # None => Hears(h, o.header[k])
<1> DEFINE a == IfAny(o.header["metadata"])
           b == IfAny(o.header["aac"])
           d == IfAny(o.header["avc"])
<1>1. /\ HeadersOf(o, a) /\ HeadersOf(o, b) /\ HeadersOf(o, d)
      /\ o.header["metadata"] # None => Hears(a, o.header["metadata"])
      /\ o.header["aac"] # None => Hears(b, o.header["aac"])
      /\ o.header["avc"] # None => Hears(d, o.header["avc"])
  BY OneHeader DEF HeaderKinds
<1>2. Cached(o) = ((a \o b) \o d) \o o.gop
  BY DEF Cached
<1> HIDE DEF a, b, d
<1>3. HeadersOf(o, a \o b) /\ \A m : Hears(a, m) \/ Hears(b, m) => Hears(a \o b, m)
  BY <1>1, HeadersJoin, Zenon
<1>4. HeadersOf(o, (a \o b) \o d)
      /\ \A m : Hears(a \o b, m) \/ Hears(d, m) => Hears((a \o b) \o d, m)
  BY <1>1, <1>3, HeadersJoin, Zenon
<1>5. \A k \in HeaderKinds : o.header[k] # None => Hears((a \o b) \o d, o.header[k])
  BY <1>1, <1>3, <1>4, Zenon DEF HeaderKinds
<1> QED
  BY <1>2, <1>4, <1>5, Zenon

(* They are messages, none of them numbered higher than n. *)
LEMMA CachedNumbers ==
  ASSUME NEW o \in Sessions, NEW n, CacheNumbers(o, n)
  PROVE  /\ Cached(o) \in Seq(Messages)
         /\ \A i \in 1 .. Len(Cached(o)) : Cached(o)[i].n <= n
<1>1. PICK h : HeadersOf(o, h) /\ Cached(o) = h \o o.gop
  BY CachedAre
<1>2. h \in Seq(Messages) /\ o.gop \in Seq(Messages)
  BY <1>1 DEF HeadersOf, Sessions
<1>3. PICK z \in Seq(Messages) :
        /\ z = h \o o.gop
        /\ \A i \in 1 .. Len(h) : z[i] = h[i]
        /\ \A i \in 1 .. Len(o.gop) : z[Len(h) + i] = o.gop[i]
        /\ \A i \in 1 .. Len(z) : i \in 1 .. Len(h) \/ i - Len(h) \in 1 .. Len(o.gop)
        /\ Len(h) \in Nat
  BY <1>2, Joined, Zenon
<1>4. ASSUME NEW i \in 1 .. Len(z)
      PROVE  z[i].n <= n
  <2>1. CASE i \in 1 .. Len(h)
    BY <1>1, <1>3, <2>1 DEF HeadersOf, CacheNumbers
  <2>2. CASE i - Len(h) \in 1 .. Len(o.gop)
    <3>1. z[i] = o.gop[i - Len(h)]
      BY <1>3, <2>2
    <3> QED
      BY <2>2, <3>1 DEF CacheNumbers
  <2> QED
    BY <1>3, <2>1, <2>2
<1> QED
  BY <1>1, <1>3, <1>4

(* The steps of handlePublish. *)
LEMMA PublishMedia ==
  ASSUME Types, Numbers, CachesOK, NEW l \in Loops,
         PublishRejected(l) \/ PublishAllowed(l) \/ AssignPublisher(l)
  PROVE  Types' /\ Numbers' /\ CachesOK'
<1> DEFINE c == busy[l].conn
           s == busy[l].session
<1>1. busy[l] \in Jobs /\ c \in Conns /\ s \in Objects
  <2>1. busy[l].at # "idle"
    BY DEF PublishRejected, PublishAllowed, AssignPublisher
  <2> QED
    BY <2>1, BusyIs
<1>2. /\ UNCHANGED <<tcp, sessions, sent, heard, strayed>>
      /\ Returns(l) \/ Goes(l, "assignPublisher")
  BY DEF PublishRejected, PublishAllowed, AssignPublisher
<1>3. busy' \in [Loops -> {Idle} \cup Jobs]
      /\ \A m \in Loops : busy'[m].at = "broadcast" => busy'[m] = busy[m]
  <2>1. CASE Returns(l)
    BY <2>1, IdleIs DEF Returns, Types
  <2>2. CASE Goes(l, "assignPublisher")
    <3>1. PICK j \in Jobs : j = [busy[l] EXCEPT !.at = "assignPublisher"] /\ j.at = "assignPublisher"
      <4>1. [busy[l] EXCEPT !.at = "assignPublisher"] \in Jobs
        BY <1>1 DEF Jobs
      <4>2. [busy[l] EXCEPT !.at = "assignPublisher"].at = "assignPublisher"
        BY <1>1 DEF Jobs
      <4> QED
        BY <4>1, <4>2
    <3>2. busy' = [busy EXCEPT ![l] = j]
      BY <2>2, <3>1 DEF Goes
    <3> QED
      BY <3>1, <3>2 DEF Types
  <2> QED
    BY <1>2, <2>1, <2>2
<1>4. CASE AssignPublisher(l)
  <2>1. obj[s] \in Sessions
    BY <1>1 DEF Types
  <2>2. PICK o \in Sessions : o = PublishedBy(obj[s], c)
                              /\ (SameCaches(obj[s], o) \/ SameCaches(NewSession, o))
    <3>1. SameCaches(obj[s], obj[s])
      BY DEF SameCaches
    <3>2. /\ PublishedBy(obj[s], c) \in Sessions
          /\ obj[s].publisher = c => PublishedBy(obj[s], c) = obj[s]
          /\ obj[s].publisher # c => SameCaches(NewSession, PublishedBy(obj[s], c))
      BY <1>1, <2>1, SessionsStay
    <3>3. SameCaches(obj[s], PublishedBy(obj[s], c)) \/ SameCaches(NewSession, PublishedBy(obj[s], c))
      BY <3>1, <3>2, Zenon
    <3> QED
      BY <3>2, <3>3, Zenon
  <2>3. obj' = [obj EXCEPT ![s] = o]
    BY <1>4, <2>2 DEF AssignPublisher
  <2>4. obj' \in [Objects -> Sessions] /\ CachesOK'
    BY <1>1, <1>2, <2>2, <2>3, OneSession
  <2>5. ctx' \in [Conns -> Contexts]
    <3>1. ctx \in [Conns -> Contexts] /\ ctx[c] \in Contexts
      BY <1>1 DEF Types
    <3>2. ctx' = [ctx EXCEPT ![c] = [ctx[c] EXCEPT !.role = "kPublisher", !.session = s]]
      BY <1>4, <1>1, <3>1 DEF AssignPublisher
    <3> QED
      BY <1>1, <3>1, <3>2 DEF Contexts
  <2> QED
    BY <1>2, <1>3, <2>4, <2>5, NumbersStay DEF Types
<1>5. CASE PublishRejected(l) \/ PublishAllowed(l)
  <2>1. UNCHANGED <<obj, ctx>>
    BY <1>5 DEF PublishRejected, PublishAllowed
  <2>2. CachesOK'
    BY <1>2, <2>1 DEF CachesOK
  <2> QED
    BY <1>2, <1>3, <2>1, <2>2, NumbersStay DEF Types
<1> QED
  BY <1>4, <1>5

(* The steps of handlePlay. *)
LEMMA PlayMedia ==
  ASSUME Types, Numbers, CachesOK, NEW l \in Loops, AddPlayer(l) \/ Replay(l)
  PROVE  Types' /\ Numbers' /\ CachesOK'
<1> DEFINE c == busy[l].conn
           s == busy[l].session
<1>1. busy[l] \in Jobs /\ c \in Conns /\ s \in Objects /\ obj[s] \in Sessions
  <2>1. busy[l].at # "idle"
    BY DEF AddPlayer, Replay
  <2> QED
    BY <2>1, BusyIs DEF Types
<1>2. CASE AddPlayer(l)
  <2>1. busy' \in [Loops -> {Idle} \cup Jobs]
        /\ \A m \in Loops : busy'[m].at = "broadcast" => busy'[m] = busy[m]
    <3>1. PICK j \in Jobs : j = [busy[l] EXCEPT !.at = "replay"] /\ j.at = "replay"
      <4>1. [busy[l] EXCEPT !.at = "replay"] \in Jobs
        BY <1>1 DEF Jobs
      <4>2. [busy[l] EXCEPT !.at = "replay"].at = "replay"
        BY <1>1 DEF Jobs
      <4> QED
        BY <4>1, <4>2
    <3>2. busy' = [busy EXCEPT ![l] = j]
      BY <1>2, <3>1 DEF Goes, AddPlayer
    <3> QED
      BY <3>1, <3>2 DEF Types
  <2>2. PICK o \in Sessions : o = [obj[s] EXCEPT !.players = @ \cup {c}] /\ SameCaches(obj[s], o)
    <3>1. obj[s].players \cup {c} \in SUBSET Conns
      BY <1>1 DEF Sessions
    <3>2. PICK P \in SUBSET Conns : P = obj[s].players \cup {c}
      BY <3>1, Zenon
    <3>3. [obj[s] EXCEPT !.players = P] \in Sessions
          /\ SameCaches(obj[s], [obj[s] EXCEPT !.players = P])
      BY <1>1, SessionsStay
    <3>4. [obj[s] EXCEPT !.players = P] = [obj[s] EXCEPT !.players = @ \cup {c}]
      BY <3>2
    <3> QED
      BY <3>3, <3>4, Zenon
  <2>3. obj' = [obj EXCEPT ![s] = o] /\ sent' = sent
    BY <1>2, <2>2 DEF AddPlayer
  <2>4. obj' \in [Objects -> Sessions] /\ CachesOK'
    BY <1>1, <2>2, <2>3, OneSession
  <2>5. ctx' \in [Conns -> Contexts]
    <3>1. ctx \in [Conns -> Contexts] /\ ctx[c] \in Contexts
      BY <1>1 DEF Types
    <3>2. ctx' = [ctx EXCEPT ![c] = [ctx[c] EXCEPT !.role = "kPlayer", !.session = s]]
      BY <1>2, <1>1, <3>1 DEF AddPlayer
    <3> QED
      BY <1>1, <3>1, <3>2 DEF Contexts
  <2>6. heard' \in [Conns -> Seq(Messages)]
        /\ \A d \in Conns : heard'[d] = IF d = c THEN <<>> ELSE heard[d]
    BY <1>1, <1>2 DEF AddPlayer, Types
  <2>7. Types'
    BY <1>2, <2>1, <2>4, <2>5, <2>6 DEF AddPlayer, Types
  <2>8. Numbers'
    <3>1. \A d \in Conns : \A i \in 1 .. Len(heard'[d]) : heard'[d][i].n <= sent'
      BY <2>3, <2>6 DEF Numbers
    <3>2. \A m \in Loops : busy'[m].at = "broadcast" =>
            busy'[m].msg \in Messages /\ busy'[m].msg.n <= sent'
      BY <2>1, <2>3 DEF Numbers
    <3> QED
      BY <3>1, <3>2 DEF Numbers
  <2> QED
    BY <2>4, <2>7, <2>8
<1>3. CASE Replay(l)
  <2>1. /\ UNCHANGED <<tcp, ctx, sessions, obj, sent, strayed>> /\ Returns(l)
        /\ heard' = heard \/ heard' = [heard EXCEPT ![c] = @ \o Cached(obj[s])]
    BY <1>3 DEF Replay
  <2>2. busy' \in [Loops -> {Idle} \cup Jobs]
        /\ \A m \in Loops : busy'[m].at = "broadcast" => busy'[m] = busy[m]
    BY <2>1, IdleIs DEF Returns, Types
  <2>3. CachesOK'
    BY <2>1 DEF CachesOK
  <2>4. CASE heard' = heard
    BY <2>1, <2>2, <2>3, <2>4, NumbersStay DEF Types
  <2>5. CASE heard' = [heard EXCEPT ![c] = @ \o Cached(obj[s])]
    <3>1. /\ Cached(obj[s]) \in Seq(Messages)
          /\ \A i \in 1 .. Len(Cached(obj[s])) : Cached(obj[s])[i].n <= sent
      BY <1>1, CachedNumbers DEF CachesOK
    <3>2. PICK g \in Seq(Messages) : g = Cached(obj[s]) /\ \A i \in 1 .. Len(g) : g[i].n <= sent
      BY <3>1, Zenon
    <3>3. heard[c] \in Seq(Messages) /\ \A i \in 1 .. Len(heard[c]) : heard[c][i].n <= sent
      BY <1>1 DEF Types, Numbers
    <3>4. PICK h \in Seq(Messages) :
            /\ h = heard[c] \o g /\ Len(heard[c]) \in Nat
            /\ \A i \in 1 .. Len(heard[c]) : h[i] = heard[c][i]
            /\ \A i \in 1 .. Len(g) : h[Len(heard[c]) + i] = g[i]
            /\ \A i \in 1 .. Len(h) : i \in 1 .. Len(heard[c]) \/ i - Len(heard[c]) \in 1 .. Len(g)
      BY <3>3, Joined, Zenon
    <3>5. heard' \in [Conns -> Seq(Messages)]
          /\ \A d \in Conns : heard'[d] = IF d = c THEN h ELSE heard[d]
      BY <1>1, <2>5, <3>2, <3>4 DEF Types
    <3>6. \A i \in 1 .. Len(h) : h[i].n <= sent
      <4> SUFFICES ASSUME NEW i \in 1 .. Len(h) PROVE h[i].n <= sent
        OBVIOUS
      <4>1. CASE i \in 1 .. Len(heard[c])
        BY <3>3, <3>4, <4>1
      <4>2. CASE i - Len(heard[c]) \in 1 .. Len(g)
        <5>1. h[i] = g[i - Len(heard[c])]
          BY <3>4, <4>2
        <5> QED
          BY <3>2, <4>2, <5>1
      <4> QED
        BY <3>4, <4>1, <4>2
    <3>7. Numbers'
      <4>1. \A d \in Conns : \A i \in 1 .. Len(heard'[d]) : heard'[d][i].n <= sent'
        BY <2>1, <3>5, <3>6 DEF Numbers
      <4>2. \A m \in Loops : busy'[m].at = "broadcast" =>
              busy'[m].msg \in Messages /\ busy'[m].msg.n <= sent'
        BY <2>1, <2>2 DEF Numbers
      <4> QED
        BY <4>1, <4>2 DEF Numbers
    <3> QED
      BY <2>1, <2>2, <2>3, <3>5, <3>7 DEF Types
  <2> QED
    BY <2>1, <2>4, <2>5
<1> QED
  BY <1>2, <1>3

(* broadcastMessage *)
LEMMA BroadcastMedia ==
  ASSUME Types, Numbers, CachesOK, NEW l \in Loops, BroadcastMessage(l)
  PROVE  Types' /\ Numbers' /\ CachesOK'
<1> DEFINE s == busy[l].session
           m == busy[l].msg
           live == {p \in obj[s].players : tcp[p] = "up"}
<1>1. /\ busy[l].at = "broadcast" /\ obj' = [obj EXCEPT ![s].players = live]
      /\ heard' = [p \in Conns |-> IF p \in live THEN Append(heard[p], m) ELSE heard[p]]
      /\ Returns(l) /\ UNCHANGED <<tcp, ctx, sessions, sent, strayed>>
  BY DEF BroadcastMessage
<1>2. /\ s \in Objects /\ m \in Messages /\ m.n <= sent /\ obj[s] \in Sessions
      /\ busy[l].conn \in Conns
  <2>1. busy[l].at # "idle"
    BY <1>1
  <2> QED
    BY <1>1, <2>1, BusyIs DEF Types, Numbers
<1>3. live \in SUBSET Conns
  BY <1>2 DEF Sessions
<1> HIDE DEF live
<1>4. obj' \in [Objects -> Sessions] /\ CachesOK'
  <2>1. PICK o \in Sessions : o = [obj[s] EXCEPT !.players = live] /\ SameCaches(obj[s], o)
    <3>1. [obj[s] EXCEPT !.players = live] \in Sessions
          /\ SameCaches(obj[s], [obj[s] EXCEPT !.players = live])
      BY <1>2, <1>3, SessionsStay
    <3> QED
      BY <3>1, Zenon
  <2>2. obj' = [obj EXCEPT ![s] = o]
    BY <1>1, <2>1
  <2> QED
    BY <1>1, <1>2, <2>1, <2>2, OneSession
<1>5. busy' \in [Loops -> {Idle} \cup Jobs]
      /\ \A k \in Loops : busy'[k].at = "broadcast" => busy'[k] = busy[k]
  BY <1>1, IdleIs DEF Returns, Types
<1>6. ASSUME NEW p \in Conns
      PROVE  heard'[p] \in Seq(Messages) /\ \A i \in 1 .. Len(heard'[p]) : heard'[p][i].n <= sent
  <2>1. heard[p] \in Seq(Messages) /\ \A i \in 1 .. Len(heard[p]) : heard[p][i].n <= sent
    BY DEF Types, Numbers
  <2>2. CASE p \notin live
    BY <1>1, <2>1, <2>2
  <2>3. CASE p \in live
    <3>1. heard'[p] = Append(heard[p], m)
      BY <1>1, <2>3
    <3>2. /\ Append(heard[p], m) \in Seq(Messages) /\ Len(Append(heard[p], m)) = Len(heard[p]) + 1
          /\ Append(heard[p], m)[Len(heard[p]) + 1] = m /\ Len(heard[p]) \in Nat
          /\ \A i \in 1 .. Len(heard[p]) : Append(heard[p], m)[i] = heard[p][i]
      BY <1>2, <2>1
    <3> QED
      BY <1>2, <2>1, <3>1, <3>2
  <2> QED
    BY <2>2, <2>3
<1>7. heard' \in [Conns -> Seq(Messages)]
  BY <1>1, <1>6
<1>8. Numbers'
  <2>1. \A k \in Loops : busy'[k].at = "broadcast" =>
          busy'[k].msg \in Messages /\ busy'[k].msg.n <= sent'
    BY <1>1, <1>5 DEF Numbers
  <2> QED
    BY <1>1, <1>6, <2>1 DEF Numbers
<1> QED
  BY <1>1, <1>4, <1>5, <1>7, <1>8 DEF Types

(* removeIfEmpty *)
LEMMA RemoveMedia ==
  ASSUME Types, Numbers, CachesOK, NEW l \in Loops, RemoveIfEmpty(l)
  PROVE  Types' /\ Numbers' /\ CachesOK'
<1> DEFINE s == busy[l].session
<1>1. /\ busy[l].at = "removeIfEmpty" /\ Returns(l) /\ UNCHANGED <<tcp, ctx, sent, heard, strayed>>
      /\ sessions' = sessions \/ sessions' = [sessions EXCEPT ![busy[l].key] = None]
      /\ obj' = obj \/ obj' = [obj EXCEPT ![s] = NewSession]
  BY DEF RemoveIfEmpty
<1>2. s \in Objects
  BY <1>1, BusyIs
<1>3. busy' \in [Loops -> {Idle} \cup Jobs]
      /\ \A m \in Loops : busy'[m].at = "broadcast" => busy'[m] = busy[m]
  BY <1>1, IdleIs DEF Returns, Types
<1>4. obj' \in [Objects -> Sessions] /\ CachesOK'
  <2>1. CASE obj' = obj
    BY <1>1, <2>1 DEF Types, CachesOK
  <2>2. CASE obj' = [obj EXCEPT ![s] = NewSession]
    <3>1. SameCaches(NewSession, NewSession)
      BY DEF SameCaches
    <3> QED
      BY <1>1, <1>2, <2>2, <3>1, OneSession, NewSessionOK
  <2> QED
    BY <1>1, <2>1, <2>2
<1>5. sessions' \in [Keys -> Objects \cup {None}]
  BY <1>1 DEF Types
<1> QED
  BY <1>1, <1>3, <1>4, <1>5, NumbersStay DEF Types

(* The invariant, by the names of this section. *)
LEMMA MediaInvIs == (MediaInv <=> Types /\ Numbers /\ CachesOK)
                    /\ (MediaInv' <=> Types' /\ Numbers' /\ CachesOK')
BY TypesSay DEF MediaInv, CachesOK

(* No connection yet. *)
LEMMA MediaInit == Init => MediaInv
<1> SUFFICES ASSUME Init PROVE Types /\ Numbers /\ CachesOK
  BY MediaInvIs
<1>1. Types
  BY IdleIs, NewSessionOK, NoneIsNone DEF Init, Types
<1>2. Numbers
  BY IdleIs DEF Init, Numbers
<1>3. CachesOK
  BY NewSessionOK DEF Init, CachesOK
<1> QED
  BY <1>1, <1>2, <1>3

(* Every step keeps MediaInv. *)
LEMMA MediaNext == MediaInv /\ [Next]_vars => MediaInv'
<1> SUFFICES ASSUME Types, Numbers, CachesOK, [Next]_vars
             PROVE  Types' /\ Numbers' /\ CachesOK'
  BY MediaInvIs
<1>1. ASSUME NEW c \in Conns, Command(c)
      PROVE  Types' /\ Numbers' /\ CachesOK'
  <2>1. ASSUME NEW name \in Names, HandlePublish(c, name) \/ HandlePlay(c, name)
        PROVE  Types' /\ Numbers' /\ CachesOK'
    BY <2>1, LookUpMedia DEF HandlePublish, HandlePlay
  <2> QED
    BY <1>1, <2>1, PlainCommandMedia, LeaveMedia, MediaMedia DEF Command
<1>2. ASSUME NEW l \in Loops, Continue(l)
      PROVE  Types' /\ Numbers' /\ CachesOK'
  BY <1>2, PublishMedia, PlayMedia, BroadcastMedia, RemoveMedia DEF Continue
<1>3. CASE UNCHANGED vars
  BY <1>3 DEF vars, Types, Numbers, CachesOK
<1> QED
  BY <1>1, <1>2, <1>3 DEF Next

(* MediaInv holds in every reachable state, on any number of loops. *)
THEOREM MediaInvHolds == Spec => []MediaInv
BY MediaInit, MediaNext, PTL DEF Spec

(* Every variable has its type, and the cached group of pictures of a stream *)
(* begins with its only key frame (RtmpSession::cacheMediaMessage), on any   *)
(* number of I/O loops.                                                      *)
THEOREM GopAlwaysFromKeyFrame == Spec => [](TypeOK /\ GopFromKeyFrame)
<1>1. MediaInv => TypeOK /\ GopFromKeyFrame
  BY DEF MediaInv, GopFromKeyFrame, GopOf
<1> QED
  BY <1>1, MediaInvHolds, PTL

-----------------------------------------------------------------------------
(* Being up to date.                                                        *)

(* The same caches, the same news. *)
LEMMA UpToDateSame ==
  ASSUME NEW o, NEW q, SameCaches(o, q), NEW h, UpToDate(o, h)
  PROVE  UpToDate(q, h)
BY DEF SameCaches, UpToDate, HearsCached

(* With a new publisher there is nothing yet to have missed. *)
LEMMA UpToDateNew ==
  ASSUME NEW o, NEW q, SameCaches(NewSession, q), NEW h, UpToDate(o, h)
  PROVE  UpToDate(q, h)
<1>1. q.gop = <<>> /\ \A k \in HeaderKinds : q.header[k] = None
  BY NewSessionOK DEF SameCaches
<1>2. FramesInOrder(q.gop) /\ Len(q.gop) = 0
  BY <1>1 DEF FramesInOrder
<1> QED
  BY <1>1, <1>2 DEF UpToDate, HearsCached

(* The replay of the caches brings a new player up to date. *)
LEMMA UpToDateReplayed ==
  ASSUME NEW o \in Sessions, NEW n, GopOf(o), CacheNumbers(o, n)
  PROVE  UpToDate(o, Cached(o)) /\ UpToDate(o, <<>> \o Cached(o))
<1>1. PICK x : /\ HeadersOf(o, x) /\ Cached(o) = x \o o.gop
               /\ \A k \in HeaderKinds : o.header[k] # None => Hears(x, o.header[k])
  BY CachedAre
<1>2. x \in Seq(Messages) /\ o.gop \in Seq(Messages)
  BY <1>1 DEF HeadersOf, Sessions
<1>3. PICK z \in Seq(Messages) :
        /\ z = x \o o.gop /\ Len(z) = Len(x) + Len(o.gop)
        /\ \A i \in 1 .. Len(x) : z[i] = x[i]
        /\ \A i \in 1 .. Len(o.gop) : z[Len(x) + i] = o.gop[i]
        /\ \A i \in 1 .. Len(z) : i \in 1 .. Len(x) \/ i - Len(x) \in 1 .. Len(o.gop)
        /\ Len(x) \in Nat /\ Len(o.gop) \in Nat
  BY <1>2, Joined, Zenon
<1>4. \A i \in 1 .. Len(x) : ~IsFrame(z[i])
  BY <1>1, <1>3 DEF HeadersOf, CacheNumbers, IsFrame, HeaderKinds, FrameKinds
<1>5. \A i \in 1 .. Len(z) : IsFrame(z[i]) =>
        i - Len(x) \in 1 .. Len(o.gop) /\ z[i] = o.gop[i - Len(x)]
  BY <1>3, <1>4
<1>6. FramesInOrder(o.gop)
  BY DEF GopOf
<1>7. FramesInOrder(z)
  <2> SUFFICES ASSUME NEW i \in 1 .. Len(z), NEW j \in 1 .. Len(z), i < j,
                      IsFrame(z[i]), IsFrame(z[j])
               PROVE  z[i].n < z[j].n
    BY DEF FramesInOrder
  <2>1. /\ i - Len(x) \in 1 .. Len(o.gop) /\ z[i] = o.gop[i - Len(x)]
        /\ j - Len(x) \in 1 .. Len(o.gop) /\ z[j] = o.gop[j - Len(x)]
    BY <1>5
  <2>2. i - Len(x) < j - Len(x)
    BY <1>3
  <2> QED
    BY <1>6, <2>1, <2>2 DEF FramesInOrder
<1>8. \A i \in 1 .. Len(o.gop) : Hears(z, o.gop[i])
  <2> SUFFICES ASSUME NEW i \in 1 .. Len(o.gop) PROVE Hears(z, o.gop[i])
    OBVIOUS
  <2>1. Len(x) + i \in 1 .. Len(z) /\ z[Len(x) + i] = o.gop[i]
    BY <1>3
  <2> QED
    BY <2>1 DEF Hears
<1>9. \A i \in 1 .. Len(z) : IsFrame(z[i]) => Hears(o.gop, z[i])
  BY <1>5 DEF Hears
<1>10. ASSUME NEW k \in HeaderKinds, o.header[k] # None
       PROVE  Hears(z, o.header[k])
  <2>1. PICK i \in 1 .. Len(x) : x[i] = o.header[k]
    BY <1>1, <1>10 DEF Hears
  <2>2. i \in 1 .. Len(z) /\ z[i] = o.header[k]
    BY <1>3, <2>1
  <2> QED
    BY <2>2 DEF Hears
<1>11. UpToDate(o, z)
  BY <1>6, <1>7, <1>8, <1>9, <1>10 DEF UpToDate, HearsCached
<1>12. <<>> \o z = z
  OBVIOUS
<1> QED
  BY <1>1, <1>3, <1>11, <1>12

(* A message that is cached and sent keeps a player up to date. *)
LEMMA UpToDateSent ==
  ASSUME NEW o \in Sessions, NEW n \in Nat, NEW m \in Messages, m.n = n + 1,
         GopOf(o), CacheNumbers(o, n), NEW h \in Seq(Messages),
         \A i \in 1 .. Len(h) : h[i].n <= n, UpToDate(o, h)
  PROVE  UpToDate(CacheMediaMessage(o, m), Append(h, m))
<1> DEFINE q == CacheMediaMessage(o, m)
<1>1. GopOf(q) /\ q \in Sessions
  BY CacheMediaMessageOK
<1>2. FramesInOrder(q.gop) /\ q.gop \in Seq(Messages) /\ o.gop \in Seq(Messages)
  BY <1>1 DEF GopOf, Sessions
<1>3. PICK z \in Seq(Messages) :
        /\ z = Append(h, m) /\ Len(h) \in Nat /\ Len(z) = Len(h) + 1 /\ z[Len(h) + 1] = m
        /\ \A i \in 1 .. Len(h) : z[i] = h[i] /\ i \in 1 .. Len(z)
        /\ \A i \in 1 .. Len(z) : i \in 1 .. Len(h) \/ i = Len(h) + 1
  <2>1. /\ Append(h, m) \in Seq(Messages) /\ Len(h) \in Nat /\ Len(Append(h, m)) = Len(h) + 1
        /\ Append(h, m)[Len(h) + 1] = m
        /\ \A i \in 1 .. Len(h) : Append(h, m)[i] = h[i] /\ i \in 1 .. Len(Append(h, m))
        /\ \A i \in 1 .. Len(Append(h, m)) : i \in 1 .. Len(h) \/ i = Len(h) + 1
    OBVIOUS
  <2> QED
    BY <2>1, Zenon
<1>4. \A x \in Messages : x.n \in Nat
  BY DEF Messages
<1>5. \A i \in 1 .. Len(h) : h[i] \in Messages /\ h[i].n <= n /\ h[i].n \in Nat
  BY <1>4
<1>6. FramesInOrder(z)
  <2> SUFFICES ASSUME NEW i \in 1 .. Len(z), NEW j \in 1 .. Len(z), i < j,
                      IsFrame(z[i]), IsFrame(z[j])
               PROVE  z[i].n < z[j].n
    BY DEF FramesInOrder
  <2>1. i \in 1 .. Len(h) /\ z[i] = h[i]
    BY <1>3
  <2>2. CASE j = Len(h) + 1
    BY <1>3, <1>5, <2>1, <2>2
  <2>3. CASE j \in 1 .. Len(h)
    BY <1>3, <2>1, <2>3 DEF UpToDate, HearsCached, FramesInOrder
  <2> QED
    BY <1>3, <2>2, <2>3
<1>7. \A x : Hears(h, x) => Hears(z, x)
  BY <1>3 DEF Hears
<1>8. Hears(z, m)
  <2>1. Len(h) + 1 \in 1 .. Len(z)
    BY <1>3
  <2> QED
    BY <1>3, <2>1 DEF Hears
<1>9. UpToDate(q, z)
  <2>1. CASE m.kind \in HeaderKinds
    <3>1. q = [o EXCEPT !.header[m.kind] = m]
      BY <2>1 DEF CacheMediaMessage
    <3>2. q.gop = o.gop /\ \A k \in HeaderKinds : q.header[k] = IF k = m.kind THEN m ELSE o.header[k]
      BY <2>1, <3>1 DEF Sessions
    <3> HIDE DEF q
    <3>3. ~IsFrame(m)
      BY <2>1 DEF IsFrame, HeaderKinds, FrameKinds
    <3>4. \A i \in 1 .. Len(z) : IsFrame(z[i]) => i \in 1 .. Len(h) /\ z[i] = h[i]
      BY <1>3, <3>3
    <3>5. \A i \in 1 .. Len(q.gop) : Hears(z, q.gop[i])
      BY <1>7, <3>2 DEF UpToDate, HearsCached
    <3>6. q.gop # <<>> => \A i \in 1 .. Len(z) :
            IsFrame(z[i]) /\ z[i].n >= q.gop[1].n => Hears(q.gop, z[i])
      BY <3>2, <3>4 DEF UpToDate, HearsCached
    <3>7. \A k \in HeaderKinds : q.header[k] # None => Hears(z, q.header[k])
      BY <1>7, <1>8, <3>2 DEF UpToDate, HearsCached
    <3> QED
      BY <1>2, <1>6, <3>5, <3>6, <3>7 DEF UpToDate, HearsCached
  <2>2. CASE m.kind \notin HeaderKinds /\ IsVideoKeyFrame(m)
    <3>1. q = [o EXCEPT !.gop = <<m>>, !.started = TRUE]
      BY <2>2 DEF CacheMediaMessage
    <3>2. q.gop = <<m>> /\ q.header = o.header
      BY <3>1 DEF Sessions
    <3>3. Len(q.gop) = 1 /\ q.gop[1] = m
      BY <3>2
    <3> HIDE DEF q
    <3>4. \A i \in 1 .. Len(q.gop) : Hears(z, q.gop[i])
      BY <1>8, <3>3
    <3>5. Hears(q.gop, m)
      BY <3>3 DEF Hears
    <3>6. \A i \in 1 .. Len(z) : IsFrame(z[i]) /\ z[i].n >= q.gop[1].n => Hears(q.gop, z[i])
      <4> SUFFICES ASSUME NEW i \in 1 .. Len(z), z[i].n >= m.n PROVE Hears(q.gop, z[i])
        BY <3>3
      <4>1. i = Len(h) + 1
        BY <1>3, <1>5
      <4> QED
        BY <1>3, <3>5, <4>1
    <3>7. \A k \in HeaderKinds : q.header[k] # None => Hears(z, q.header[k])
      BY <1>7, <3>2 DEF UpToDate, HearsCached
    <3> QED
      BY <1>2, <1>6, <3>4, <3>6, <3>7 DEF UpToDate, HearsCached
  <2>3. CASE m.kind \notin HeaderKinds /\ ~IsVideoKeyFrame(m) /\ o.started
    <3>1. q = [o EXCEPT !.gop = Append(@, m)]
      BY <2>3 DEF CacheMediaMessage
    <3>2. q.gop = Append(o.gop, m) /\ q.header = o.header
      BY <3>1 DEF Sessions
    <3> HIDE DEF q
    <3>3. /\ Len(q.gop) = Len(o.gop) + 1 /\ q.gop[Len(o.gop) + 1] = m /\ Len(o.gop) \in Nat
          /\ \A i \in 1 .. Len(o.gop) : q.gop[i] = o.gop[i] /\ i \in 1 .. Len(q.gop)
          /\ \A i \in 1 .. Len(q.gop) : i \in 1 .. Len(o.gop) \/ i = Len(o.gop) + 1
      BY <1>2, <3>2
    <3>4. o.gop # <<>> /\ 1 \in 1 .. Len(o.gop)
      <4>1. o.gop # <<>>
        BY <2>3 DEF GopOf
      <4> QED
        BY <1>2, <4>1
    <3>5. \A i \in 1 .. Len(q.gop) : Hears(z, q.gop[i])
      BY <1>7, <1>8, <3>3 DEF UpToDate, HearsCached
    <3>6. Hears(q.gop, m) /\ \A x : Hears(o.gop, x) => Hears(q.gop, x)
      <4>1. Len(o.gop) + 1 \in 1 .. Len(q.gop)
        BY <3>3
      <4> QED
        BY <3>3, <4>1 DEF Hears
    <3>7. \A i \in 1 .. Len(z) : IsFrame(z[i]) /\ z[i].n >= q.gop[1].n => Hears(q.gop, z[i])
      <4> SUFFICES ASSUME NEW i \in 1 .. Len(z), IsFrame(z[i]), z[i].n >= q.gop[1].n
                   PROVE  Hears(q.gop, z[i])
        OBVIOUS
      <4>1. CASE i \in 1 .. Len(h)
        <5>1. z[i] = h[i] /\ q.gop[1] = o.gop[1]
          BY <1>3, <3>3, <3>4, <4>1
        <5>2. Hears(o.gop, h[i])
          BY <3>4, <4>1, <5>1 DEF UpToDate, HearsCached
        <5> QED
          BY <3>6, <5>1, <5>2
      <4>2. CASE i = Len(h) + 1
        BY <1>3, <3>6, <4>2
      <4> QED
        BY <1>3, <4>1, <4>2
    <3>8. \A k \in HeaderKinds : q.header[k] # None => Hears(z, q.header[k])
      BY <1>7, <3>2 DEF UpToDate, HearsCached
    <3> QED
      BY <1>2, <1>6, <3>5, <3>7, <3>8 DEF UpToDate, HearsCached
  <2>4. CASE m.kind \notin HeaderKinds /\ ~IsVideoKeyFrame(m) /\ ~o.started
    <3>1. q = o /\ o.gop = <<>>
      BY <2>4 DEF CacheMediaMessage, GopOf
    <3> HIDE DEF q
    <3>2. \A i \in 1 .. Len(q.gop) : Hears(z, q.gop[i])
      BY <3>1
    <3>3. \A k \in HeaderKinds : q.header[k] # None => Hears(z, q.header[k])
      BY <1>7, <3>1 DEF UpToDate, HearsCached
    <3> QED
      BY <1>2, <1>6, <3>1, <3>2, <3>3 DEF UpToDate, HearsCached
  <2> QED
    BY <2>1, <2>2, <2>3, <2>4
<1> QED
  BY <1>3, <1>9

-----------------------------------------------------------------------------
(* What the steps do, on any number of loops.                               *)

(* The commands that look nothing up change one context, and a connection    *)
(* with a role that names another stream strays.                             *)
LEMMA PlainCommandIs ==
  ASSUME Types, NEW c \in Conns,
         \/ Connected(c) \/ HandleCreateStream(c) \/ Refused(c)
         \/ \E app \in Apps \cup {None} : HandleConnect(c, app)
         \/ \E name \in Names : StreamRefused(c, name)
  PROVE  /\ UNCHANGED <<sessions, obj, busy, sent, heard>> /\ busy[LoopOf[c]] = Idle
         /\ \A d \in Conns \ {c} : ctx'[d] = ctx[d] /\ tcp'[d] = tcp[d]
         /\ strayed \subseteq strayed' /\ strayed' \subseteq strayed \cup {c}
         /\ \/ tcp[c] = "none" /\ ctx'[c].role = "kUnknown"
            \/ /\ tcp'[c] = tcp[c] \/ (tcp[c] = "up" /\ tcp'[c] = "closing")
               /\ Open(c) /\ ctx'[c].role = ctx[c].role /\ ctx'[c].session = ctx[c].session
               /\ \/ ctx[c].role = "kUnknown" \/ c \in strayed'
                  \/ ctx'[c].app = ctx[c].app /\ ctx'[c].name = ctx[c].name
<1>1. UNCHANGED <<sessions, obj, busy, sent, heard>> /\ busy[LoopOf[c]] = Idle
  BY DEF Connected, HandleCreateStream, Refused, HandleConnect, StreamRefused, Turn
<1>2. /\ \A d \in Conns \ {c} : ctx'[d] = ctx[d] /\ tcp'[d] = tcp[d]
      /\ strayed \subseteq strayed' /\ strayed' \subseteq strayed \cup {c}
  BY DEF Connected, HandleCreateStream, Refused, HandleConnect, StreamRefused, ShutDown, Strays,
         Types
<1>3. \/ tcp[c] = "none" /\ ctx'[c].role = "kUnknown"
      \/ /\ tcp'[c] = tcp[c] \/ (tcp[c] = "up" /\ tcp'[c] = "closing")
         /\ Open(c) /\ ctx'[c].role = ctx[c].role /\ ctx'[c].session = ctx[c].session
         /\ \/ ctx[c].role = "kUnknown" \/ c \in strayed'
            \/ ctx'[c].app = ctx[c].app /\ ctx'[c].name = ctx[c].name
  <2>1. ctx[c] \in Contexts /\ ctx \in [Conns -> Contexts]
        /\ tcp \in [Conns -> {"none", "up", "closing", "down"}]
    BY DEF Types
  <2>2. CASE Connected(c)
    BY <2>1, <2>2, IdleIs DEF Connected
  <2>3. CASE HandleCreateStream(c)
    BY <2>1, <2>3 DEF HandleCreateStream, Turn, Open, Contexts
  <2>4. CASE Refused(c)
    BY <2>1, <2>4 DEF Refused, Turn, Open, ShutDown
  <2>5. ASSUME NEW app \in Apps \cup {None}, HandleConnect(c, app)
        PROVE  <1>3!2
    BY <2>1, <2>5 DEF HandleConnect, Turn, Open, Contexts, Strays
  <2>6. ASSUME NEW name \in Names, StreamRefused(c, name)
        PROVE  <1>3!2
    BY <2>1, <2>6 DEF StreamRefused, Turn, Open, Contexts, Strays, ShutDown
  <2> QED
    BY <2>2, <2>3, <2>4, <2>5, <2>6
<1> QED
  BY <1>1, <1>2, <1>3

(* getOrCreateSession: the session at the key, or one that nobody has. *)
LEMMA LookUpIs ==
  ASSUME Types, NEW c \in Conns, NEW name \in Names, NEW next \in {"setPublisher", "addPlayer"},
         GetOrCreateSession(c, name, next)
  PROVE  \E x \in Contexts, k \in Keys, s \in Objects, j \in Jobs, l \in Loops :
          /\ x = [ctx[c] EXCEPT !.name = name] /\ k = StreamKey(x) /\ l = LoopOf[c]
          /\ x.role = ctx[c].role /\ x.session = ctx[c].session
          /\ Open(c) /\ busy[l] = Idle
          /\ ctx' = [ctx EXCEPT ![c] = x] /\ sessions' = [sessions EXCEPT ![k] = s]
          /\ obj' = IF sessions[k] = None THEN [obj EXCEPT ![s] = NewSession] ELSE obj
          /\ busy' = [busy EXCEPT ![l] = j] /\ j.at = next /\ j.conn = c /\ j.session = s
          /\ Strays(c) /\ UNCHANGED <<tcp, sent, heard>>
          /\ sessions[k] # None => s = sessions[k]
          /\ sessions[k] = None => ~InMap(s) /\ ~Held(s)
<1> DEFINE x == [ctx[c] EXCEPT !.name = name]
           k == StreamKey(x)
           s == SessionFor(k)
           j == [Idle EXCEPT !.at = next, !.conn = c, !.session = s]
           l == LoopOf[c]
<1>1. /\ k # None /\ (sessions[k] # None \/ Free # {}) /\ Open(c) /\ busy[l] = Idle
      /\ ctx' = [ctx EXCEPT ![c] = x] /\ sessions' = [sessions EXCEPT ![k] = s]
      /\ obj' = IF sessions[k] = None THEN [obj EXCEPT ![s] = NewSession] ELSE obj
      /\ busy' = [busy EXCEPT ![l] = j] /\ Strays(c) /\ UNCHANGED <<tcp, sent, heard>>
  BY DEF GetOrCreateSession, Turn, Open
<1>2. x \in Contexts /\ x.role = ctx[c].role /\ x.session = ctx[c].session
  <2>1. ctx[c] \in Contexts
    BY DEF Types
  <2> QED
    BY <2>1 DEF Contexts
<1>3. k \in Keys
  <2> HIDE DEF x
  <2> QED
    BY <1>1, <1>2, StreamKeyIs
<1>4. /\ s \in Objects /\ (sessions[k] # None => s = sessions[k])
      /\ sessions[k] = None => ~InMap(s) /\ ~Held(s)
  <2> HIDE DEF k
  <2>1. \A t \in Free : ~InMap(t) /\ ~Held(t)
    BY DEF Free, Exists
  <2> QED
    BY <1>1, <1>3, <2>1, SessionForIs
<1>5. j \in Jobs /\ j.at = next /\ j.conn = c /\ j.session = s
  <2> HIDE DEF s
  <2>1. j \in Jobs
    BY <1>4, JobIs, NoneIsNone
  <2> QED
    BY <2>1 DEF Idle
<1>6. l \in Loops
  BY DEF Loops
<1>7. x = [ctx[c] EXCEPT !.name = name] /\ k = StreamKey(x) /\ l = LoopOf[c]
  OBVIOUS
<1> HIDE DEF x, k, s, j, l
<1> QED
  BY <1>1, <1>2, <1>3, <1>4, <1>5, <1>6, <1>7, Zenon

(* addPlayer: one more player. *)
LEMMA AddPlayerIs ==
  ASSUME Types, NEW l \in Loops, AddPlayer(l)
  PROVE  \E c \in Conns, s \in Objects, o \in Sessions, j \in Jobs :
          /\ busy[l].at = "addPlayer" /\ busy[l].conn = c /\ busy[l].session = s
          /\ o.publisher = obj[s].publisher /\ o.players = obj[s].players \cup {c}
          /\ SameCaches(obj[s], o) /\ obj[s] \in Sessions
          /\ obj' = [obj EXCEPT ![s] = o]
          /\ ctx' = [ctx EXCEPT ![c].role = "kPlayer", ![c].session = s]
          /\ heard' = [heard EXCEPT ![c] = <<>>]
          /\ busy' = [busy EXCEPT ![l] = j] /\ j.at = "replay" /\ j.conn = c /\ j.session = s
          /\ UNCHANGED <<tcp, sessions, sent, strayed>>
<1> DEFINE c == busy[l].conn
           s == busy[l].session
           j == [busy[l] EXCEPT !.at = "replay"]
<1>1. busy[l].at = "addPlayer"
  BY DEF AddPlayer
<1>2. c \in Conns /\ s \in Objects /\ busy[l] \in Jobs
  BY <1>1, BusyIs
<1>3. obj[s] \in Sessions
  BY <1>2 DEF Types
<1>4. PICK P \in SUBSET Conns : P = obj[s].players \cup {c}
  BY <1>2, <1>3 DEF Sessions
<1>5. PICK o \in Sessions :
        /\ o = [obj[s] EXCEPT !.players = P] /\ SameCaches(obj[s], o)
        /\ o.publisher = obj[s].publisher /\ o.players = P
  <2>1. /\ [obj[s] EXCEPT !.players = P] \in Sessions
        /\ SameCaches(obj[s], [obj[s] EXCEPT !.players = P])
        /\ [obj[s] EXCEPT !.players = P].publisher = obj[s].publisher
        /\ [obj[s] EXCEPT !.players = P].players = P
    BY <1>2, <1>3, SessionsStay
  <2> QED
    BY <2>1, Zenon
<1>6. obj' = [obj EXCEPT ![s] = o]
  BY <1>4, <1>5 DEF AddPlayer
<1>7. j \in Jobs /\ j.at = "replay" /\ j.conn = c /\ j.session = s
  BY <1>2 DEF Jobs
<1>8. /\ ctx' = [ctx EXCEPT ![c].role = "kPlayer", ![c].session = s]
      /\ heard' = [heard EXCEPT ![c] = <<>>] /\ busy' = [busy EXCEPT ![l] = j]
      /\ UNCHANGED <<tcp, sessions, sent, strayed>>
  BY DEF AddPlayer, Goes
<1>9. c = busy[l].conn /\ s = busy[l].session
  OBVIOUS
<1> HIDE DEF c, s, j
<1> QED
  BY <1>1, <1>2, <1>3, <1>4, <1>5, <1>6, <1>7, <1>8, <1>9, Zenon

(* handleMediaMessage: the message is cached; nobody joins or leaves. *)
LEMMA MediaMessageIs ==
  ASSUME Types, CachesOK, NEW c \in Conns, NEW kind \in Kinds, HandleMediaMessage(c, kind)
  PROVE  \E s \in Objects, m \in Messages, o \in Sessions, j \in Jobs, l \in Loops :
          /\ s = ctx[c].session /\ l = LoopOf[c] /\ Open(c) /\ busy[l] = Idle
          /\ ctx[c].role = "kPublisher"
          /\ m.n = sent + 1 /\ m.from = c
          /\ o = CacheMediaMessage(obj[s], m) /\ obj[s] \in Sessions
          /\ o.publisher = obj[s].publisher /\ o.players = obj[s].players
          /\ obj' = [obj EXCEPT ![s] = o] /\ busy' = [busy EXCEPT ![l] = j]
          /\ j.at = "broadcast" /\ j.conn = c /\ j.session = s /\ j.msg = m
          /\ UNCHANGED <<tcp, ctx, sessions, heard, strayed>>
<1> DEFINE m == Message(c, kind)
           s == ctx[c].session
           l == LoopOf[c]
           j == [Idle EXCEPT !.at = "broadcast", !.conn = c, !.session = s, !.msg = m]
           o == CacheMediaMessage(obj[s], m)
<1>1. /\ Bound(c) /\ sent < MaxMedia /\ Open(c) /\ busy[l] = Idle /\ ctx[c].role = "kPublisher"
      /\ obj' = [obj EXCEPT ![s] = o] /\ busy' = [busy EXCEPT ![l] = j]
      /\ UNCHANGED <<tcp, ctx, sessions, heard, strayed>>
  BY DEF HandleMediaMessage, Message, Turn, Open
<1>2. m \in Messages /\ m.n = sent + 1 /\ m.from = c /\ sent \in Nat
  BY <1>1, MessageIs
<1>3. s \in Objects
  <2>1. ctx[c] \in Contexts
    BY DEF Types
  <2> QED
    BY <1>1, <2>1 DEF Bound, Contexts
<1>4. s = ctx[c].session /\ l = LoopOf[c] /\ l \in Loops
  BY DEF Loops
<1> HIDE DEF m, s, l
<1>5. j \in Jobs /\ j.at = "broadcast" /\ j.conn = c /\ j.session = s /\ j.msg = m
  <2>1. j \in Jobs
    BY <1>2, <1>3, JobIs
  <2> QED
    BY <2>1 DEF Idle
<1>6. obj[s] \in Sessions /\ GopOf(obj[s]) /\ CacheNumbers(obj[s], sent)
  BY <1>3 DEF Types, CachesOK
<1>7. o \in Sessions /\ o.publisher = obj[s].publisher /\ o.players = obj[s].players
  BY <1>2, <1>6, CacheMediaMessageOK
<1>8. o = CacheMediaMessage(obj[s], m)
  OBVIOUS
<1> HIDE DEF j, o
<1> QED
  BY <1>1, <1>2, <1>3, <1>4, <1>5, <1>6, <1>7, <1>8, Zenon

(* A session with other players. *)
LEMMA WithPlayers ==
  ASSUME NEW o \in Sessions, NEW P \in SUBSET Conns
  PROVE  \E q \in Sessions : /\ q = [o EXCEPT !.players = P] /\ SameCaches(o, q)
                             /\ q.publisher = o.publisher /\ q.players = P
<1>1. [o EXCEPT !.players = P] \in Sessions /\ SameCaches(o, [o EXCEPT !.players = P])
      /\ [o EXCEPT !.players = P].publisher = o.publisher /\ [o EXCEPT !.players = P].players = P
  BY DEF SameCaches, Sessions
<1> QED
  BY <1>1, Zenon

-----------------------------------------------------------------------------
(* Registry and clean-up on any number of I/O loops.                        *)

(* The first steps of publish and play, between the look-up and the joining. *)
Joining == {"setPublisher", "assignPublisher", "addPlayer"}

(* Each session has one key. *)
OneKey == \A j, k \in Keys : sessions[j] = sessions[k] /\ sessions[k] # None => j = k

(* Connection c has this role in the session at key k, and cleanupConnection *)
(* will look it up there.                                                    *)
InRole(c, k, role) ==
  /\ Open(c) /\ ctx[c].role = role /\ role # "kUnknown"
  /\ ctx[c].session = sessions[k] /\ StreamKey(ctx[c]) = k

(* What a connection on its way into a session can rely on, although the     *)
(* registry may have lost the session since: nobody else uses its context.   *)
JoiningOK(l) ==
  LET c == busy[l].conn IN
  /\ LoopOf[c] = l /\ Open(c)
  /\ c \notin strayed => ctx[c].role = "kUnknown"
  /\ \A k \in Keys : sessions[k] = busy[l].session => StreamKey(ctx[c]) = k

(* What mutex_ protects: removeIfEmpty is alone, and the key is still right. *)
RemovalOK(l) ==
  /\ busy[l].key \in Keys /\ sessions[busy[l].key] = busy[l].session
  /\ \A m \in Loops : busy[m].at = "removeIfEmpty" => m = l

(* So it is on every loop. *)
LoopsOK ==
  \A l \in Loops : /\ busy[l].at \in Joining => JoiningOK(l)
                   /\ busy[l].at = "removeIfEmpty" => RemovalOK(l)

(* The publisher and the players of a registered session have joined it. *)
MembersJoined ==
  \A k \in Keys : \A c \in Conns \ strayed :
    sessions[k] # None =>
      /\ obj[sessions[k]].publisher = c => InRole(c, k, "kPublisher")
      /\ c \in obj[sessions[k]].players => InRole(c, k, "kPlayer")

(* A handler will join the session s, or is about to clean it up. *)
Tended(s) == \E l \in Loops : busy[l].at \in Joining \cup {"removeIfEmpty"} /\ busy[l].session = s

(* Somebody has joined the session at key k. *)
Taken(k) == \E c \in Conns, role \in {"kPublisher", "kPlayer"} : InRole(c, k, role)

(* While nobody strays, no session in the registry is forgotten. *)
Owned == strayed = {} => \A k \in Keys : sessions[k] # None => Tended(sessions[k]) \/ Taken(k)

(* What holds of the registry on any number of loops. *)
SharedInv == OneKey /\ LoopsOK /\ MembersJoined /\ Owned

(* A handler that is joining belongs to a connection of its own loop. *)
LEMMA JoiningElsewhere ==
  ASSUME LoopsOK, NEW c, busy[LoopOf[c]] = Idle, NEW l \in Loops, busy[l].at \in Joining
  PROVE  busy[l].conn # c
<1>1. LoopOf[busy[l].conn] = l
  BY DEF LoopsOK, JoiningOK
<1>2. busy[l] # Idle
  BY IdleIs DEF Joining
<1> QED
  BY <1>1, <1>2

(* It goes on as it was while others change their contexts and the registry, *)
(* unless they register its session.                                         *)
LEMMA JoiningStays ==
  ASSUME LoopsOK, NEW l \in Loops, busy[l].at \in Joining,
         busy'[l].conn = busy[l].conn, busy'[l].session = busy[l].session,
         NEW c, c = busy[l].conn, ctx'[c] = ctx[c], tcp'[c] = tcp[c], strayed \subseteq strayed',
         \A k \in Keys : sessions'[k] = busy[l].session => sessions[k] = busy[l].session
  PROVE  JoiningOK(l)'
<1>1. JoiningOK(l)
  BY DEF LoopsOK
<1> QED
  BY <1>1 DEF JoiningOK, Open

(* Who has joined stays, when its context does and the session is still there. *)
LEMMA InRoleStays ==
  ASSUME NEW c, NEW k, NEW role, InRole(c, k, role), ctx'[c] = ctx[c], tcp'[c] = tcp[c],
         sessions'[k] = sessions[k]
  PROVE  InRole(c, k, role)'
BY DEF InRole, Open

(* Steps by which nobody joins. *)
LEMMA MembersStay ==
  ASSUME Types, MembersJoined, strayed \subseteq strayed',
         \A k \in Keys : sessions'[k] # None => sessions'[k] = sessions[k],
         \A s \in Objects : /\ obj'[s].publisher \in {obj[s].publisher, None}
                            /\ obj'[s].players \subseteq obj[s].players,
         \A k \in Keys : \A c \in Conns \ strayed' : \A role :
           /\ sessions'[k] # None /\ InRole(c, k, role)
           /\ obj'[sessions[k]].publisher = c \/ c \in obj'[sessions[k]].players
           => InRole(c, k, role)'
  PROVE  MembersJoined'
<1> SUFFICES ASSUME NEW k \in Keys, NEW c \in Conns \ strayed', sessions'[k] # None
             PROVE  /\ obj'[sessions'[k]].publisher = c => InRole(c, k, "kPublisher")'
                    /\ c \in obj'[sessions'[k]].players => InRole(c, k, "kPlayer")'
  BY DEF MembersJoined
<1>1. PICK s \in Objects : s = sessions[k] /\ s = sessions'[k]
  BY DEF Types
<1>2. c \in Conns \ strayed /\ c # None
  BY NoneIsNone
<1>3. /\ obj[s].publisher = c => InRole(c, k, "kPublisher")
      /\ c \in obj[s].players => InRole(c, k, "kPlayer")
  BY <1>1, <1>2 DEF MembersJoined
<1>4. ASSUME obj'[s].publisher = c PROVE InRole(c, k, "kPublisher")'
  <2>1. InRole(c, k, "kPublisher")
    BY <1>2, <1>3, <1>4
  <2> QED
    BY <1>1, <1>4, <2>1
<1>5. ASSUME c \in obj'[s].players PROVE InRole(c, k, "kPlayer")'
  <2>1. InRole(c, k, "kPlayer")
    BY <1>3, <1>5
  <2> QED
    BY <1>1, <1>5, <2>1
<1> QED
  BY <1>1, <1>4, <1>5

(* Steps that join, look up and clean up nothing: media, replay, broadcast. *)
LEMMA WorkShared ==
  ASSUME Types, SharedInv, UNCHANGED <<tcp, ctx, sessions, strayed>>,
         \A s \in Objects : /\ obj'[s].publisher = obj[s].publisher
                            /\ obj'[s].players \subseteq obj[s].players,
         \A l \in Loops : \/ busy'[l] = busy[l]
                          \/ /\ busy[l].at \notin Joining \cup {"removeIfEmpty"}
                             /\ busy'[l].at \notin Joining \cup {"removeIfEmpty"}
  PROVE  SharedInv'
<1> USE DEF SharedInv
<1>1. OneKey'
  BY DEF OneKey
<1>2. MembersJoined'
  BY MembersStay DEF InRole, Open
<1>3. LoopsOK'
  <2> SUFFICES ASSUME NEW l \in Loops
               PROVE  /\ busy'[l].at \in Joining => JoiningOK(l)'
                      /\ busy'[l].at = "removeIfEmpty" => RemovalOK(l)'
    BY DEF LoopsOK
  <2>1. ASSUME busy'[l].at \in Joining PROVE JoiningOK(l)'
    <3>1. busy'[l] = busy[l]
      BY <2>1
    <3> QED
      BY <2>1, <3>1, JoiningStays
  <2>2. ASSUME busy'[l].at = "removeIfEmpty" PROVE RemovalOK(l)'
    <3>1. busy'[l] = busy[l] /\ RemovalOK(l)
      BY <2>2 DEF LoopsOK
    <3>2. \A m \in Loops : busy'[m].at = "removeIfEmpty" => busy[m].at = "removeIfEmpty"
      OBVIOUS
    <3> QED
      BY <3>1, <3>2 DEF RemovalOK
  <2> QED
    BY <2>1, <2>2
<1>4. Owned'
  <2>1. \A s : Tended(s) => Tended(s)'
    BY DEF Tended
  <2>2. \A k : Taken(k) => Taken(k)'
    BY DEF Taken, InRole, Open
  <2> QED
    BY <2>1, <2>2 DEF Owned
<1> QED
  BY <1>1, <1>2, <1>3, <1>4

(* The commands that look nothing up: who changes the stream it names has no *)
(* role yet, or strays.                                                      *)
LEMMA PlainCommandShared ==
  ASSUME Types, SharedInv, NEW c \in Conns,
         \/ Connected(c) \/ HandleCreateStream(c) \/ Refused(c)
         \/ \E app \in Apps \cup {None} : HandleConnect(c, app)
         \/ \E name \in Names : StreamRefused(c, name)
  PROVE  SharedInv'
<1> USE DEF SharedInv
<1>1. /\ UNCHANGED <<sessions, obj, busy>> /\ busy[LoopOf[c]] = Idle
      /\ \A d \in Conns \ {c} : ctx'[d] = ctx[d] /\ tcp'[d] = tcp[d]
      /\ strayed \subseteq strayed'
  BY PlainCommandIs
<1>2. \/ tcp[c] = "none"
      \/ /\ tcp'[c] = tcp[c] \/ (tcp[c] = "up" /\ tcp'[c] = "closing")
         /\ Open(c) /\ ctx'[c].role = ctx[c].role /\ ctx'[c].session = ctx[c].session
         /\ \/ ctx[c].role = "kUnknown" \/ c \in strayed'
            \/ ctx'[c].app = ctx[c].app /\ ctx'[c].name = ctx[c].name
  BY PlainCommandIs
<1>3. ASSUME NEW d \in Conns \ strayed', NEW k \in Keys, NEW role, InRole(d, k, role)
      PROVE  InRole(d, k, role)'
  <2>1. CASE d # c
    BY <1>1, <1>3, <2>1, InRoleStays
  <2>2. CASE d = c
    <3>1. /\ Open(c)' /\ ctx'[c].role = ctx[c].role /\ ctx'[c].session = ctx[c].session
          /\ ctx'[c].app = ctx[c].app /\ ctx'[c].name = ctx[c].name
      BY <1>2, <1>3, <2>2 DEF InRole, Open
    <3>2. StreamKey(ctx'[c]) = StreamKey(ctx[c])
      BY <3>1 DEF StreamKey
    <3> QED
      BY <1>1, <1>3, <2>2, <3>1, <3>2 DEF InRole
  <2> QED
    BY <2>1, <2>2
<1>4. OneKey'
  BY <1>1 DEF OneKey
<1>5. MembersJoined'
  BY <1>1, <1>3, MembersStay
<1>6. LoopsOK'
  <2>1. ASSUME NEW l \in Loops, busy[l].at \in Joining PROVE JoiningOK(l)'
    <3>1. busy[l].conn \in Conns \ {c}
      BY <1>1, <2>1, JoiningElsewhere, BusyIs, IdleIs DEF Joining
    <3> QED
      BY <1>1, <2>1, <3>1, JoiningStays
  <2>2. ASSUME NEW l \in Loops, busy[l].at = "removeIfEmpty" PROVE RemovalOK(l)'
    BY <1>1, <2>2 DEF LoopsOK, RemovalOK
  <2> QED
    BY <1>1, <2>1, <2>2 DEF LoopsOK
<1>7. Owned'
  <2>1. \A s : Tended(s) => Tended(s)'
    BY <1>1 DEF Tended
  <2>2. ASSUME strayed' = {}, NEW k \in Keys, Taken(k) PROVE Taken(k)'
    BY <1>3, <2>2 DEF Taken
  <2> QED
    BY <1>1, <2>1, <2>2 DEF Owned
<1> QED
  BY <1>4, <1>5, <1>6, <1>7

(* getOrCreateSession: the connection is on its way; nobody else relied on   *)
(* the object that a new session is.                                         *)
LEMMA LookUpShared ==
  ASSUME Types, SharedInv, NEW c \in Conns, NEW name \in Names,
         NEW next \in {"setPublisher", "addPlayer"}, GetOrCreateSession(c, name, next)
  PROVE  SharedInv'
<1> USE DEF SharedInv
<1>1. PICK x \in Contexts, k \in Keys, s \in Objects, j \in Jobs, l \in Loops :
        /\ x = [ctx[c] EXCEPT !.name = name] /\ k = StreamKey(x) /\ l = LoopOf[c]
        /\ x.role = ctx[c].role /\ x.session = ctx[c].session
        /\ Open(c) /\ busy[l] = Idle
        /\ ctx' = [ctx EXCEPT ![c] = x] /\ sessions' = [sessions EXCEPT ![k] = s]
        /\ obj' = IF sessions[k] = None THEN [obj EXCEPT ![s] = NewSession] ELSE obj
        /\ busy' = [busy EXCEPT ![l] = j] /\ j.at = next /\ j.conn = c /\ j.session = s
        /\ Strays(c) /\ UNCHANGED <<tcp, sent, heard>>
        /\ sessions[k] # None => s = sessions[k]
        /\ sessions[k] = None => ~InMap(s) /\ ~Held(s)
  BY LookUpIs
<1>2. /\ ctx'[c] = x /\ \A d \in Conns \ {c} : ctx'[d] = ctx[d] /\ tcp'[d] = tcp[d]
      /\ c \notin strayed' => ctx[c].role = "kUnknown"
      /\ strayed \subseteq strayed'
  BY <1>1 DEF Types, Strays
<1>3. /\ \A i \in Keys : sessions'[i] = IF i = k THEN s ELSE sessions[i]
      /\ \A m \in Loops : busy'[m] = IF m = l THEN j ELSE busy[m]
  BY <1>1 DEF Types
<1>4. \A i \in Keys : sessions[i] = s => i = k
  BY <1>1, NoneIsNone DEF OneKey, InMap
<1>5. OneKey'
  BY <1>3, <1>4 DEF OneKey
<1>6. MembersJoined'
  <2> SUFFICES ASSUME NEW i \in Keys, NEW d \in Conns \ strayed', sessions'[i] # None
               PROVE  /\ obj'[sessions'[i]].publisher = d => InRole(d, i, "kPublisher")'
                      /\ d \in obj'[sessions'[i]].players => InRole(d, i, "kPlayer")'
    BY DEF MembersJoined
  <2>1. CASE i = k /\ sessions[k] = None
    <3>1. obj'[s] = NewSession
      BY <1>1, <2>1 DEF Types
    <3> QED
      BY <1>3, <2>1, <3>1, NewSessionOK, NoneIsNone
  <2>2. CASE ~(i = k /\ sessions[k] = None)
    <3>1. sessions'[i] = sessions[i] /\ sessions[i] # None /\ sessions[i] \in Objects
      BY <1>1, <1>3, <2>2 DEF Types
    <3>2. obj'[sessions[i]] = obj[sessions[i]]
      BY <1>1, <1>4, <2>2, <3>1 DEF Types
    <3>3. /\ obj[sessions[i]].publisher = d => InRole(d, i, "kPublisher")
          /\ d \in obj[sessions[i]].players => InRole(d, i, "kPlayer")
      BY <1>2, <3>1 DEF MembersJoined
    <3>4. ASSUME NEW role, InRole(d, i, role) PROVE InRole(d, i, role)'
      <4>1. d # c
        BY <1>2, <3>4 DEF InRole
      <4> QED
        BY <1>2, <3>1, <3>4, <4>1, InRoleStays
    <3> QED
      BY <3>1, <3>2, <3>3, <3>4
  <2> QED
    BY <2>1, <2>2
<1>7. LoopsOK'
  <2>1. JoiningOK(l)'
    <3>1. \A i \in Keys : sessions'[i] = s => i = k
      BY <1>3, <1>4
    <3> QED
      BY <1>1, <1>2, <1>3, <3>1 DEF JoiningOK, Open
  <2>2. ASSUME NEW m \in Loops \ {l}, busy'[m].at \in Joining PROVE JoiningOK(m)'
    <3>1. busy'[m] = busy[m]
      BY <1>3
    <3>2. busy[m].conn \in Conns \ {c}
      BY <1>1, <2>2, <3>1, JoiningElsewhere, BusyIs, IdleIs DEF Joining
    <3>3. \A i \in Keys : sessions'[i] = busy[m].session => sessions[i] = busy[m].session
      BY <1>1, <1>3 DEF Held
    <3> QED
      BY <1>2, <2>2, <3>1, <3>2, <3>3, JoiningStays
  <2>3. \A m \in Loops : busy'[m].at # "removeIfEmpty"
    <3>1. \A m \in Loops : busy[m].at # "removeIfEmpty"
      BY DEF GetOrCreateSession, Locked
    <3> QED
      BY <1>1, <1>3, <3>1
  <2> QED
    BY <2>1, <2>2, <2>3 DEF LoopsOK
<1>8. Owned'
  <2> SUFFICES ASSUME strayed' = {}, NEW i \in Keys, sessions'[i] # None
               PROVE  Tended(sessions[i])' \/ Taken(i)'
    BY DEF Owned
  <2>1. CASE i = k
    BY <1>1, <1>3, <2>1 DEF Tended, Joining
  <2>2. CASE i # k
    <3>1. sessions'[i] = sessions[i] /\ (Tended(sessions[i]) \/ Taken(i))
      BY <1>2, <1>3, <2>2 DEF Owned
    <3>2. ASSUME Tended(sessions[i]) PROVE Tended(sessions[i])'
      <4>1. PICK m \in Loops : busy[m].at \in Joining \cup {"removeIfEmpty"} /\ busy[m].session = sessions[i]
        BY <3>2 DEF Tended
      <4>2. m # l
        BY <1>1, <4>1, IdleIs DEF Joining
      <4> QED
        BY <1>3, <3>1, <4>1, <4>2 DEF Tended
    <3>3. ASSUME Taken(i) PROVE Taken(i)'
      <4>1. PICK d \in Conns, role \in {"kPublisher", "kPlayer"} : InRole(d, i, role)
        BY <3>3 DEF Taken
      <4>2. d # c
        BY <1>2, <4>1 DEF InRole
      <4>3. InRole(d, i, role)'
        BY <1>2, <3>1, <4>1, <4>2, InRoleStays
      <4> QED
        BY <4>3 DEF Taken
    <3> QED
      BY <3>1, <3>2, <3>3
  <2> QED
    BY <2>1, <2>2
<1> QED
  BY <1>5, <1>6, <1>7, <1>8

(* setPublisher: whoever rejects this connection has joined the session. *)
LEMMA PublishTestShared ==
  ASSUME Types, SharedInv, NEW l \in Loops, PublishRejected(l) \/ PublishAllowed(l)
  PROVE  SharedInv'
<1> USE DEF SharedInv
<1>1. busy[l].at = "setPublisher" /\ UNCHANGED <<tcp, ctx, sessions, obj, strayed>>
  BY DEF PublishRejected, PublishAllowed
<1>2. busy[l] \in Jobs /\ busy[l].session \in Objects
  BY <1>1, BusyIs
<1>3. /\ \A m \in Loops \ {l} : busy'[m] = busy[m]
      /\ \/ busy'[l] = Idle /\ ~MayPublish(busy[l].session, busy[l].conn)
         \/ /\ busy'[l].at = "assignPublisher"
            /\ busy'[l].conn = busy[l].conn /\ busy'[l].session = busy[l].session
  <2>1. CASE PublishRejected(l)
    BY <2>1 DEF PublishRejected, Returns, Types
  <2>2. CASE PublishAllowed(l)
    <3>1. busy'[l] = [busy[l] EXCEPT !.at = "assignPublisher"] /\ \A m \in Loops \ {l} : busy'[m] = busy[m]
      BY <2>2 DEF PublishAllowed, Goes, Types
    <3> QED
      BY <1>2, <3>1 DEF Jobs
  <2> QED
    BY <2>1, <2>2
<1>4. OneKey'
  BY <1>1 DEF OneKey
<1>5. MembersJoined'
  BY <1>1, MembersStay DEF InRole, Open
<1>6. LoopsOK'
  <2>1. ASSUME NEW m \in Loops, busy'[m].at \in Joining PROVE JoiningOK(m)'
    <3>1. busy[m].at \in Joining /\ busy'[m].conn = busy[m].conn /\ busy'[m].session = busy[m].session
      BY <1>1, <1>3, <2>1, IdleIs DEF Joining
    <3> QED
      BY <1>1, <3>1, JoiningStays
  <2>2. ASSUME NEW m \in Loops, busy'[m].at = "removeIfEmpty" PROVE RemovalOK(m)'
    <3>1. m # l /\ busy'[m] = busy[m]
      BY <1>3, <2>2, IdleIs
    <3>2. RemovalOK(m)
      BY <2>2, <3>1 DEF LoopsOK
    <3>3. \A i \in Loops : busy'[i].at = "removeIfEmpty" => busy[i].at = "removeIfEmpty"
      BY <1>3, IdleIs
    <3> QED
      BY <1>1, <3>1, <3>2, <3>3 DEF RemovalOK
  <2> QED
    BY <2>1, <2>2 DEF LoopsOK
<1>7. Owned'
  <2> SUFFICES ASSUME strayed = {}, NEW k \in Keys, sessions[k] # None
               PROVE  Tended(sessions[k])' \/ Taken(k)'
    BY <1>1 DEF Owned
  <2>1. Taken(k) => Taken(k)'
    BY <1>1 DEF Taken, InRole, Open
  <2>2. CASE busy'[l] = Idle /\ sessions[k] = busy[l].session
    <3>1. PICK d \in Conns : obj[sessions[k]].publisher = d
      <4>1. obj[sessions[k]] \in Sessions
        BY <1>2, <2>2 DEF Types
      <4> QED
        BY <1>3, <2>2, <4>1, IdleIs DEF MayPublish, Sessions
    <3>2. InRole(d, k, "kPublisher")
      BY <3>1 DEF MembersJoined
    <3> QED
      BY <2>1, <3>2 DEF Taken
  <2>3. CASE ~(busy'[l] = Idle /\ sessions[k] = busy[l].session)
    <3>1. Tended(sessions[k]) => Tended(sessions[k])'
      <4> SUFFICES ASSUME NEW m \in Loops, busy[m].at \in Joining \cup {"removeIfEmpty"},
                          busy[m].session = sessions[k]
                   PROVE  Tended(sessions[k])'
        BY DEF Tended
      <4>1. busy'[m].at \in Joining \cup {"removeIfEmpty"} /\ busy'[m].session = sessions'[k]
        BY <1>1, <1>3, <2>3 DEF Joining
      <4> QED
        BY <4>1 DEF Tended
    <3> QED
      BY <2>1, <3>1 DEF Owned
  <2> QED
    BY <2>2, <2>3
<1> QED
  BY <1>4, <1>5, <1>6, <1>7

(* The handler on loop l makes c a member of the session s, which may not be *)
(* registered any more.                                                      *)
Joins(l, c, s, role) ==
  /\ busy[l].at \in Joining /\ busy[l].conn = c /\ busy[l].session = s
  /\ \A m \in Loops \ {l} : busy'[m] = busy[m]
  /\ busy'[l].at \notin Joining \cup {"removeIfEmpty"}
  /\ UNCHANGED <<tcp, sessions, strayed>>
  /\ \A d \in Conns \ {c} : ctx'[d] = ctx[d]
  /\ ctx'[c].role = role /\ ctx'[c].session = s /\ StreamKey(ctx'[c]) = StreamKey(ctx[c])
  /\ \A t \in Objects \ {s} : obj'[t] = obj[t]
  /\ \A d \in Conns :
       /\ obj'[s].publisher = d => obj[s].publisher = d \/ (d = c /\ role = "kPublisher")
       /\ d \in obj'[s].players => d \in obj[s].players \/ (d = c /\ role = "kPlayer")

(* It can rely on what it was told by the look-up. *)
LEMMA JoinShared ==
  ASSUME Types, SharedInv, NEW l \in Loops, NEW c \in Conns, NEW s \in Objects,
         NEW role \in {"kPublisher", "kPlayer"}, Joins(l, c, s, role)
  PROVE  SharedInv'
<1>0. /\ busy[l].at \in Joining /\ busy[l].conn = c /\ busy[l].session = s
      /\ \A m \in Loops \ {l} : busy'[m] = busy[m]
      /\ busy'[l].at \notin Joining \cup {"removeIfEmpty"}
      /\ UNCHANGED <<tcp, sessions, strayed>>
      /\ \A d \in Conns \ {c} : ctx'[d] = ctx[d]
      /\ ctx'[c].role = role /\ ctx'[c].session = s /\ StreamKey(ctx'[c]) = StreamKey(ctx[c])
      /\ \A t \in Objects \ {s} : obj'[t] = obj[t]
      /\ \A d \in Conns :
           /\ obj'[s].publisher = d => obj[s].publisher = d \/ (d = c /\ role = "kPublisher")
           /\ d \in obj'[s].players => d \in obj[s].players \/ (d = c /\ role = "kPlayer")
  BY DEF Joins
<1> USE <1>0
<1> USE DEF SharedInv
<1>1. /\ LoopOf[c] = l /\ Open(c) /\ (c \notin strayed => ctx[c].role = "kUnknown")
      /\ \A k \in Keys : sessions[k] = s => StreamKey(ctx[c]) = k
  BY DEF LoopsOK, JoiningOK
<1>2. ASSUME NEW k \in Keys, sessions[k] = s PROVE InRole(c, k, role)'
  BY <1>1, <1>2 DEF InRole, Open
<1>3. ASSUME NEW d \in Conns \ strayed, NEW k \in Keys, NEW r, InRole(d, k, r)
      PROVE  d # c /\ InRole(d, k, r)'
  <2>1. d # c
    BY <1>1, <1>3 DEF InRole
  <2> QED
    BY <1>3, <2>1, InRoleStays
<1>4. OneKey'
  BY DEF OneKey
<1>5. MembersJoined'
  <2> SUFFICES ASSUME NEW k \in Keys, NEW d \in Conns \ strayed, sessions[k] # None
               PROVE  /\ obj'[sessions[k]].publisher = d => InRole(d, k, "kPublisher")'
                      /\ d \in obj'[sessions[k]].players => InRole(d, k, "kPlayer")'
    BY DEF MembersJoined
  <2>1. PICK t \in Objects : t = sessions[k]
    BY DEF Types
  <2>2. /\ obj[t].publisher = d => InRole(d, k, "kPublisher")'
        /\ d \in obj[t].players => InRole(d, k, "kPlayer")'
    BY <1>3, <2>1 DEF MembersJoined
  <2>3. CASE t = s
    <3>1. InRole(c, k, role)'
      BY <1>2, <2>1, <2>3
    <3>2. obj'[s].publisher = d => InRole(d, k, "kPublisher")'
      BY <2>2, <2>3, <3>1
    <3>3. d \in obj'[s].players => InRole(d, k, "kPlayer")'
      BY <2>2, <2>3, <3>1
    <3> QED
      BY <2>1, <2>3, <3>2, <3>3
  <2>4. CASE t # s
    BY <2>1, <2>2, <2>4
  <2> QED
    BY <2>3, <2>4
<1>6. LoopsOK'
  <2>1. ASSUME NEW m \in Loops, busy'[m].at \in Joining PROVE JoiningOK(m)'
    <3>1. m # l /\ busy'[m] = busy[m]
      BY <2>1
    <3>2. LoopOf[busy[m].conn] = m /\ busy[m].conn \in Conns
      BY <2>1, <3>1, BusyIs, IdleIs DEF LoopsOK, JoiningOK, Joining
    <3>3. busy[m].conn # c
      BY <1>1, <3>1, <3>2
    <3> QED
      BY <2>1, <3>1, <3>2, <3>3, JoiningStays
  <2>2. ASSUME NEW m \in Loops, busy'[m].at = "removeIfEmpty" PROVE RemovalOK(m)'
    <3>1. m # l /\ busy'[m] = busy[m]
      BY <2>2
    <3>2. RemovalOK(m)
      BY <2>2, <3>1 DEF LoopsOK
    <3>3. \A i \in Loops : busy'[i].at = "removeIfEmpty" => busy[i].at = "removeIfEmpty"
      OBVIOUS
    <3> QED
      BY <3>1, <3>2, <3>3 DEF RemovalOK
  <2> QED
    BY <2>1, <2>2 DEF LoopsOK
<1>7. Owned'
  <2> SUFFICES ASSUME strayed = {}, NEW k \in Keys, sessions[k] # None
               PROVE  Tended(sessions[k])' \/ Taken(k)'
    BY DEF Owned
  <2>1. CASE sessions[k] = s
    BY <1>2, <2>1 DEF Taken
  <2>2. CASE sessions[k] # s
    <3>1. Tended(sessions[k]) => Tended(sessions[k])'
      BY <2>2 DEF Tended
    <3>2. Taken(k) => Taken(k)'
      BY <1>3 DEF Taken
    <3> QED
      BY <3>1, <3>2 DEF Owned
  <2> QED
    BY <2>1, <2>2
<1> QED
  BY <1>4, <1>5, <1>6, <1>7

(* The rest of setPublisher, and addPlayer. *)
LEMMA AssignPublisherShared ==
  ASSUME Types, SharedInv, NEW l \in Loops, AssignPublisher(l)
  PROVE  SharedInv'
<1>1. PICK c \in Conns, s \in Objects :
        /\ busy[l].at = "assignPublisher" /\ busy[l].conn = c /\ busy[l].session = s
        /\ obj' = [obj EXCEPT ![s] = PublishedBy(@, c)]
        /\ ctx' = [ctx EXCEPT ![c].role = "kPublisher", ![c].session = s]
        /\ Returns(l) /\ UNCHANGED <<tcp, sessions, strayed>>
  <2>1. busy[l].at = "assignPublisher"
    BY DEF AssignPublisher
  <2>2. busy[l].conn \in Conns /\ busy[l].session \in Objects
    BY <2>1, BusyIs, IdleIs
  <2> QED
    BY <2>1, <2>2 DEF AssignPublisher
<1>2. PICK o \in Sessions : o = PublishedBy(obj[s], c)
                            /\ o.publisher = c /\ o.players = obj[s].players
  <2>1. obj[s] \in Sessions
    BY DEF Types
  <2> QED
    BY <2>1, SessionsStay
<1>3. \A t \in Objects : obj'[t] = IF t = s THEN o ELSE obj[t]
  BY <1>1, <1>2 DEF Types
<1>4. /\ \A d \in Conns \ {c} : ctx'[d] = ctx[d]
      /\ ctx'[c].role = "kPublisher" /\ ctx'[c].session = s
      /\ StreamKey(ctx'[c]) = StreamKey(ctx[c])
  <2>1. ctx[c] \in Contexts /\ ctx \in [Conns -> Contexts]
    BY DEF Types
  <2>2. ctx'[c] = [ctx[c] EXCEPT !.role = "kPublisher", !.session = s]
        /\ \A d \in Conns \ {c} : ctx'[d] = ctx[d]
    BY <1>1, <2>1
  <2>3. /\ ctx'[c].app = ctx[c].app /\ ctx'[c].name = ctx[c].name
        /\ ctx'[c].role = "kPublisher" /\ ctx'[c].session = s
    BY <2>1, <2>2 DEF Contexts
  <2> QED
    BY <2>2, <2>3 DEF StreamKey
<1>5. busy'[l] = Idle /\ \A m \in Loops \ {l} : busy'[m] = busy[m]
  BY <1>1 DEF Returns, Types
<1>6. busy[l].at \in Joining /\ busy'[l].at \notin Joining \cup {"removeIfEmpty"}
  BY <1>1, <1>5, IdleIs DEF Joining
<1>7. /\ \A t \in Objects \ {s} : obj'[t] = obj[t]
      /\ obj'[s].publisher = c /\ obj'[s].players = obj[s].players
  BY <1>2, <1>3
<1>8. Joins(l, c, s, "kPublisher")
  BY <1>1, <1>4, <1>5, <1>6, <1>7 DEF Joins
<1> QED
  BY <1>8, JoinShared

(* The same for a player. *)
LEMMA AddPlayerShared ==
  ASSUME Types, SharedInv, NEW l \in Loops, AddPlayer(l)
  PROVE  SharedInv'
<1>1. PICK c \in Conns, s \in Objects, o \in Sessions, j \in Jobs :
        /\ busy[l].at = "addPlayer" /\ busy[l].conn = c /\ busy[l].session = s
        /\ o.publisher = obj[s].publisher /\ o.players = obj[s].players \cup {c}
        /\ SameCaches(obj[s], o) /\ obj[s] \in Sessions
        /\ obj' = [obj EXCEPT ![s] = o]
        /\ ctx' = [ctx EXCEPT ![c].role = "kPlayer", ![c].session = s]
        /\ heard' = [heard EXCEPT ![c] = <<>>]
        /\ busy' = [busy EXCEPT ![l] = j] /\ j.at = "replay" /\ j.conn = c /\ j.session = s
        /\ UNCHANGED <<tcp, sessions, sent, strayed>>
  BY AddPlayerIs
<1>2. \A t \in Objects : obj'[t] = IF t = s THEN o ELSE obj[t]
  BY <1>1 DEF Types
<1>3. /\ \A d \in Conns \ {c} : ctx'[d] = ctx[d]
      /\ ctx'[c].role = "kPlayer" /\ ctx'[c].session = s
      /\ StreamKey(ctx'[c]) = StreamKey(ctx[c])
  <2>1. ctx[c] \in Contexts /\ ctx \in [Conns -> Contexts]
    BY DEF Types
  <2>2. ctx'[c] = [ctx[c] EXCEPT !.role = "kPlayer", !.session = s]
        /\ \A d \in Conns \ {c} : ctx'[d] = ctx[d]
    BY <1>1, <2>1
  <2>3. /\ ctx'[c].app = ctx[c].app /\ ctx'[c].name = ctx[c].name
        /\ ctx'[c].role = "kPlayer" /\ ctx'[c].session = s
    BY <2>1, <2>2 DEF Contexts
  <2> QED
    BY <2>2, <2>3 DEF StreamKey
<1>4. busy'[l] = j /\ \A m \in Loops \ {l} : busy'[m] = busy[m]
  BY <1>1 DEF Types
<1>5. busy[l].at \in Joining /\ busy'[l].at \notin Joining \cup {"removeIfEmpty"}
  BY <1>1, <1>4 DEF Joining
<1>6. /\ \A t \in Objects \ {s} : obj'[t] = obj[t]
      /\ obj'[s].publisher = obj[s].publisher /\ obj'[s].players = obj[s].players \cup {c}
  BY <1>1, <1>2
<1>7. Joins(l, c, s, "kPlayer")
  BY <1>1, <1>3, <1>4, <1>5, <1>6 DEF Joins
<1> QED
  BY <1>7, JoinShared

(* Media, replay and broadcast. *)
LEMMA MediaShared ==
  ASSUME Types, CachesOK, SharedInv, NEW c \in Conns, NEW kind \in Kinds, HandleMediaMessage(c, kind)
  PROVE  SharedInv'
<1>1. PICK s \in Objects, m \in Messages, o \in Sessions, j \in Jobs, l \in Loops :
        /\ s = ctx[c].session /\ l = LoopOf[c] /\ Open(c) /\ busy[l] = Idle
        /\ ctx[c].role = "kPublisher"
        /\ m.n = sent + 1 /\ m.from = c
        /\ o = CacheMediaMessage(obj[s], m) /\ obj[s] \in Sessions
        /\ o.publisher = obj[s].publisher /\ o.players = obj[s].players
        /\ obj' = [obj EXCEPT ![s] = o] /\ busy' = [busy EXCEPT ![l] = j]
        /\ j.at = "broadcast" /\ j.conn = c /\ j.session = s /\ j.msg = m
        /\ UNCHANGED <<tcp, ctx, sessions, heard, strayed>>
  BY MediaMessageIs
<1>2. /\ \A t \in Objects : obj'[t] = IF t = s THEN o ELSE obj[t]
      /\ \A i \in Loops : busy'[i] = IF i = l THEN j ELSE busy[i]
  BY <1>1 DEF Types
<1>3. \A t \in Objects : obj'[t].publisher = obj[t].publisher /\ obj'[t].players \subseteq obj[t].players
  BY <1>1, <1>2
<1>4. busy[l].at \notin Joining \cup {"removeIfEmpty"} /\ j.at \notin Joining \cup {"removeIfEmpty"}
  BY <1>1, IdleIs DEF Joining
<1> QED
  BY <1>1, <1>2, <1>3, <1>4, WorkShared

(* A player that is not connected any more is dropped, which is no joining. *)
LEMMA SendShared ==
  ASSUME Types, SharedInv, NEW l \in Loops, Replay(l) \/ BroadcastMessage(l)
  PROVE  SharedInv'
<1>1. /\ busy[l].at \in {"replay", "broadcast"} /\ Returns(l)
      /\ UNCHANGED <<tcp, ctx, sessions, strayed>>
  BY DEF Replay, BroadcastMessage
<1>2. \A t \in Objects : obj'[t].publisher = obj[t].publisher /\ obj'[t].players \subseteq obj[t].players
  <2>1. CASE Replay(l)
    BY <2>1 DEF Replay
  <2>2. CASE BroadcastMessage(l)
    <3>1. PICK s \in Objects : s = busy[l].session /\ obj[s] \in Sessions
      BY <1>1, BusyIs, IdleIs DEF Types
    <3>2. PICK P \in SUBSET Conns : P = {p \in obj[s].players : tcp[p] = "up"}
      BY <3>1 DEF Sessions
    <3>3. PICK o \in Sessions : /\ o = [obj[s] EXCEPT !.players = P] /\ SameCaches(obj[s], o)
                                /\ o.publisher = obj[s].publisher /\ o.players = P
      BY <3>1, WithPlayers
    <3>4. obj' = [obj EXCEPT ![s] = o]
      BY <2>2, <3>1, <3>2, <3>3 DEF BroadcastMessage
    <3>5. \A t \in Objects : obj'[t] = IF t = s THEN o ELSE obj[t]
      BY <3>4 DEF Types
    <3> QED
      BY <3>2, <3>3, <3>5
  <2> QED
    BY <2>1, <2>2
<1>3. \A m \in Loops : busy'[m] = IF m = l THEN Idle ELSE busy[m]
  BY <1>1 DEF Returns, Types
<1>4. busy[l].at \notin Joining \cup {"removeIfEmpty"} /\ Idle.at \notin Joining \cup {"removeIfEmpty"}
  BY <1>1, IdleIs DEF Joining
<1> QED
  BY <1>1, <1>2, <1>3, <1>4, WorkShared

(* deleteStream and close find the session that the connection is in, if it  *)
(* is still registered.                                                      *)
LEMMA LeaveShared ==
  ASSUME Types, SharedInv, NEW c \in Conns, HandleDeleteStream(c) \/ Disconnected(c)
  PROVE  SharedInv'
<1> USE DEF SharedInv
<1>1. /\ CleanupConnection(c) /\ Open(c) /\ busy[LoopOf[c]] = Idle
      /\ UNCHANGED <<sessions, strayed>>
  BY DEF HandleDeleteStream, Disconnected, Turn, Open
<1>2. \A d \in Conns \ {c} : ctx'[d] = ctx[d] /\ tcp'[d] = tcp[d]
  BY DEF HandleDeleteStream, Disconnected, Types
<1>3. PICK l \in Loops : l = LoopOf[c]
  BY DEF Loops
<1>4. OneKey'
  BY <1>1 DEF OneKey
<1>5. ASSUME NEW d \in Conns \ {c}, NEW k \in Keys, NEW role, InRole(d, k, role)
      PROVE  InRole(d, k, role)'
  BY <1>1, <1>2, <1>5, InRoleStays
<1>6. ASSUME NEW m \in Loops, busy[m].at \in Joining, busy'[m] = busy[m] PROVE JoiningOK(m)'
  <2>1. busy[m].conn \in Conns \ {c}
    BY <1>1, <1>6, JoiningElsewhere, BusyIs, IdleIs DEF Joining
  <2> QED
    BY <1>1, <1>2, <1>6, <2>1, JoiningStays
<1>7. CASE /\ StreamKey(ctx[c]) # None => sessions[StreamKey(ctx[c])] = None
           /\ UNCHANGED <<obj, busy>>
  <2>1. ASSUME NEW k \in Keys, sessions[k] # None, NEW role PROVE ~InRole(c, k, role)
    BY <1>7, <2>1, NoneIsNone DEF InRole
  <2>2. MembersJoined'
    BY <1>1, <1>5, <1>7, <2>1, MembersStay
  <2>3. LoopsOK'
    <3>1. ASSUME NEW m \in Loops, busy[m].at = "removeIfEmpty" PROVE RemovalOK(m)'
      BY <1>1, <1>7, <3>1 DEF LoopsOK, RemovalOK
    <3> QED
      BY <1>6, <1>7, <3>1 DEF LoopsOK
  <2>4. Owned'
    <3>1. \A s : Tended(s) => Tended(s)'
      BY <1>7 DEF Tended
    <3>2. ASSUME NEW k \in Keys, sessions[k] # None, Taken(k) PROVE Taken(k)'
      BY <1>5, <2>1, <3>2 DEF Taken
    <3> QED
      BY <1>1, <3>1, <3>2 DEF Owned
  <2> QED
    BY <1>4, <2>2, <2>3, <2>4
<1>8. CASE /\ StreamKey(ctx[c]) # None /\ ~Locked /\ sessions[StreamKey(ctx[c])] # None
           /\ obj' = [obj EXCEPT ![sessions[StreamKey(ctx[c])]] = Without(@, c, ctx[c].role)]
           /\ busy' = [busy EXCEPT ![LoopOf[c]] =
                 [Idle EXCEPT !.at = "removeIfEmpty", !.conn = c, !.key = StreamKey(ctx[c]),
                              !.session = sessions[StreamKey(ctx[c])]]]
  <2>1. PICK k \in Keys : k = StreamKey(ctx[c])
    <3>1. ctx[c] \in Contexts
      BY DEF Types
    <3> QED
      BY <1>8, <3>1, StreamKeyIs
  <2>2. PICK s \in Objects : s = sessions[k] /\ obj[s] \in Sessions
    BY <1>8, <2>1 DEF Types
  <2>3. PICK own : own = ctx[c].role
    OBVIOUS
  <2>4. PICK o \in Sessions :
          /\ o = Without(obj[s], c, own)
          /\ o.publisher = IF own = "kPublisher" /\ obj[s].publisher = c THEN None
                           ELSE obj[s].publisher
          /\ o.players = IF own = "kPlayer" THEN obj[s].players \ {c} ELSE obj[s].players
    <3>1. PICK q : q = Without(obj[s], c, own)
      OBVIOUS
    <3>2. IsWithout(obj[s], c, own, q)
      BY <2>2, <3>1, WithoutIs
    <3> QED
      BY <3>1, <3>2 DEF IsWithout
  <2>5. PICK j : /\ j = [Idle EXCEPT !.at = "removeIfEmpty", !.conn = c, !.key = k, !.session = s]
                 /\ j.at = "removeIfEmpty" /\ j.key = k /\ j.session = s
    <3>1. LET j == [Idle EXCEPT !.at = "removeIfEmpty", !.conn = c, !.key = k, !.session = s]
          IN  j.at = "removeIfEmpty" /\ j.key = k /\ j.session = s
      BY DEF Idle
    <3> QED
      BY <3>1, Zenon
  <2>6. obj' = [obj EXCEPT ![s] = o] /\ busy' = [busy EXCEPT ![l] = j]
    BY <1>3, <1>8, <2>1, <2>2, <2>3, <2>4, <2>5
  <2>7. /\ \A t \in Objects : obj'[t] = IF t = s THEN o ELSE obj[t]
        /\ \A m \in Loops : busy'[m] = IF m = l THEN j ELSE busy[m]
    BY <2>6 DEF Types
  <2>8. ASSUME NEW i \in Keys, NEW role, InRole(c, i, role) PROVE i = k /\ own = role
    BY <2>1, <2>3, <2>8 DEF InRole
  <2>9. ASSUME c \notin strayed PROVE o.publisher # c /\ c \notin o.players
    <3>1. obj[s].publisher = c => own = "kPublisher"
      BY <1>8, <2>1, <2>2, <2>8, <2>9 DEF MembersJoined
    <3>2. c \in obj[s].players => own = "kPlayer"
      BY <1>8, <2>1, <2>2, <2>8, <2>9 DEF MembersJoined
    <3> QED
      BY <2>4, <3>1, <3>2, NoneIsNone
  <2>10. MembersJoined'
    <3>1. ASSUME NEW i \in Keys, NEW d \in Conns \ strayed', NEW role, InRole(d, i, role),
                 obj'[sessions[i]].publisher = d \/ d \in obj'[sessions[i]].players
          PROVE  d # c
      BY <1>1, <2>2, <2>7, <2>8, <2>9, <3>1
    <3>2. \A t \in Objects : /\ obj'[t].publisher \in {obj[t].publisher, None}
                             /\ obj'[t].players \subseteq obj[t].players
      BY <2>4, <2>7
    <3> QED
      BY <1>1, <1>5, <3>1, <3>2, MembersStay
  <2>11. LoopsOK'
    <3>1. \A m \in Loops : busy'[m].at = "removeIfEmpty" => m = l
      BY <1>8, <2>7 DEF Locked
    <3>2. RemovalOK(l)'
      <4>1. busy'[l].key = k /\ busy'[l].session = s
        <5>1. busy'[l] = j
          BY <2>7
        <5> QED
          BY <2>5, <5>1, Zenon
      <4>2. sessions'[k] = s
        BY <1>1, <2>2
      <4> QED
        BY <3>1, <4>1, <4>2 DEF RemovalOK
    <3>3. ASSUME NEW m \in Loops, busy'[m].at \in Joining PROVE JoiningOK(m)'
      <4>1. busy'[m] = busy[m]
        BY <2>5, <2>7, <3>3 DEF Joining
      <4> QED
        BY <1>6, <3>3, <4>1
    <3> QED
      BY <3>1, <3>2, <3>3 DEF LoopsOK
  <2>12. Owned'
    <3> SUFFICES ASSUME strayed = {}, NEW i \in Keys, sessions[i] # None
                 PROVE  Tended(sessions[i])' \/ Taken(i)'
      BY <1>1 DEF Owned
    <3>1. CASE sessions[i] = s
      BY <1>1, <2>5, <2>7, <3>1 DEF Tended
    <3>2. CASE sessions[i] # s
      <4>1. Tended(sessions[i]) => Tended(sessions[i])'
        <5> SUFFICES ASSUME NEW m \in Loops, busy[m].at \in Joining \cup {"removeIfEmpty"},
                            busy[m].session = sessions[i]
                     PROVE  Tended(sessions[i])'
          BY DEF Tended
        <5>1. m # l
          BY <1>1, <1>3, IdleIs DEF Joining
        <5> QED
          BY <1>1, <2>7, <5>1 DEF Tended
      <4>2. Taken(i) => Taken(i)'
        BY <1>5, <2>2, <2>8, <3>2 DEF Taken
      <4> QED
        BY <4>1, <4>2 DEF Owned
    <3> QED
      BY <3>1, <3>2
  <2> QED
    BY <1>4, <2>10, <2>11, <2>12
<1> QED
  BY <1>1, <1>7, <1>8 DEF CleanupConnection

(* removeIfEmpty erases no session that somebody has joined, and no other    *)
(* session than the one it found.                                            *)
LEMMA RemoveShared ==
  ASSUME Types, SharedInv, NEW l \in Loops, RemoveIfEmpty(l)
  PROVE  SharedInv'
<1> USE DEF SharedInv
<1>1. /\ busy[l].at = "removeIfEmpty" /\ Returns(l) /\ UNCHANGED <<tcp, ctx, strayed>>
  BY DEF RemoveIfEmpty
<1>2. PICK s \in Objects, k \in Keys : s = busy[l].session /\ k = busy[l].key /\ sessions[k] = s
  BY <1>1, BusyIs, IdleIs DEF LoopsOK, RemovalOK
<1>3. \A m \in Loops : busy'[m] = IF m = l THEN Idle ELSE busy[m]
  BY <1>1 DEF Returns, Types
<1>4. \A m \in Loops : busy'[m].at # "removeIfEmpty"
  BY <1>1, <1>3, IdleIs DEF LoopsOK, RemovalOK
<1>5. CASE ~Removes(s) /\ UNCHANGED <<sessions, obj>>
  <2>1. OneKey' /\ MembersJoined'
    BY <1>1, <1>5, MembersStay DEF OneKey, InRole, Open
  <2>2. LoopsOK'
    <3>1. ASSUME NEW m \in Loops, busy'[m].at \in Joining PROVE JoiningOK(m)'
      <4>1. busy'[m] = busy[m]
        BY <1>3, <3>1, IdleIs DEF Joining
      <4> QED
        BY <1>1, <1>5, <3>1, <4>1, JoiningStays
    <3> QED
      BY <1>4, <3>1 DEF LoopsOK
  <2>3. Owned'
    <3> SUFFICES ASSUME strayed = {}, NEW i \in Keys, sessions[i] # None
                 PROVE  Tended(sessions[i])' \/ Taken(i)'
      BY <1>1, <1>5 DEF Owned
    <3>1. Taken(i) => Taken(i)'
      BY <1>1, <1>5 DEF Taken, InRole, Open
    <3>2. CASE sessions[i] = s
      <4>1. PICK d \in Conns : obj[s].publisher = d \/ d \in obj[s].players
        <5>1. obj[s] \in Sessions
          BY DEF Types
        <5> QED
          BY <1>5, <5>1 DEF Removes, Empty, Sessions
      <4>2. InRole(d, i, "kPublisher") \/ InRole(d, i, "kPlayer")
        BY <3>2, <4>1 DEF MembersJoined
      <4> QED
        BY <3>1, <4>2 DEF Taken
    <3>3. CASE sessions[i] # s
      <4>1. Tended(sessions[i]) => Tended(sessions[i])'
        BY <1>2, <1>3, <1>5, <3>3 DEF Tended
      <4> QED
        BY <3>1, <4>1 DEF Owned
    <3> QED
      BY <3>2, <3>3
  <2> QED
    BY <2>1, <2>2, <2>3
<1>6. CASE /\ Removes(s) /\ sessions' = [sessions EXCEPT ![k] = None]
           /\ obj' = obj \/ obj' = [obj EXCEPT ![s] = NewSession]
  <2>1. /\ \A i \in Keys : sessions'[i] = IF i = k THEN None ELSE sessions[i]
        /\ \A t \in Objects : obj'[t] = obj[t] \/ (t = s /\ obj'[t] = NewSession)
    BY <1>6 DEF Types
  <2>2. OneKey'
    BY <2>1 DEF OneKey
  <2>3. MembersJoined'
    <3>1. \A t \in Objects : /\ obj'[t].publisher \in {obj[t].publisher, None}
                             /\ obj'[t].players \subseteq obj[t].players
      BY <2>1, NewSessionOK
    <3>2. ASSUME NEW i \in Keys, NEW d \in Conns, NEW role, sessions'[i] # None, InRole(d, i, role)
          PROVE  InRole(d, i, role)'
      BY <1>1, <2>1, <3>2, InRoleStays
    <3> QED
      BY <1>1, <2>1, <3>1, <3>2, MembersStay
  <2>4. LoopsOK'
    <3>1. ASSUME NEW m \in Loops, busy'[m].at \in Joining PROVE JoiningOK(m)'
      <4>1. busy'[m] = busy[m]
        BY <1>3, <3>1, IdleIs DEF Joining
      <4>2. busy[m].session \in Objects
        BY <3>1, <4>1, BusyIs, IdleIs DEF Joining
      <4>3. \A i \in Keys : sessions'[i] = busy[m].session => sessions[i] = busy[m].session
        BY <2>1, <4>2, NoneIsNone
      <4> QED
        BY <1>1, <3>1, <4>1, <4>3, JoiningStays
    <3> QED
      BY <1>4, <3>1 DEF LoopsOK
  <2>5. Owned'
    <3> SUFFICES ASSUME strayed = {}, NEW i \in Keys, sessions'[i] # None
                 PROVE  Tended(sessions[i])' \/ Taken(i)'
      BY <1>1 DEF Owned
    <3>1. sessions'[i] = sessions[i] /\ sessions[i] # s /\ sessions[i] # None
      BY <1>2, <2>1 DEF OneKey
    <3>2. Tended(sessions[i]) => Tended(sessions[i])'
      BY <1>2, <1>3, <3>1 DEF Tended
    <3>3. Taken(i) => Taken(i)'
      BY <1>1, <3>1 DEF Taken, InRole, Open
    <3> QED
      BY <3>1, <3>2, <3>3 DEF Owned
  <2> QED
    BY <2>2, <2>3, <2>4, <2>5
<1> QED
  BY <1>2, <1>5, <1>6 DEF RemoveIfEmpty

(* No session yet. *)
LEMMA SharedInit == Init => SharedInv
<1> SUFFICES ASSUME Init PROVE SharedInv
  OBVIOUS
<1>1. (\A k \in Keys : sessions[k] = None) /\ \A l \in Loops : busy[l] = Idle
  BY DEF Init
<1> QED
  BY <1>1, IdleIs DEF SharedInv, OneKey, LoopsOK, MembersJoined, Owned, Joining

(* Every step keeps SharedInv. *)
LEMMA SharedNext == MediaInv /\ SharedInv /\ [Next]_vars => SharedInv'
<1> SUFFICES ASSUME Types, CachesOK, SharedInv, [Next]_vars PROVE SharedInv'
  BY MediaInvIs
<1>1. ASSUME NEW c \in Conns, Command(c) PROVE SharedInv'
  <2>1. ASSUME NEW name \in Names, HandlePublish(c, name) \/ HandlePlay(c, name)
        PROVE  SharedInv'
    BY <2>1, LookUpShared DEF HandlePublish, HandlePlay
  <2> QED
    BY <1>1, <2>1, PlainCommandShared, LeaveShared, MediaShared DEF Command
<1>2. ASSUME NEW l \in Loops, Continue(l) PROVE SharedInv'
  BY <1>2, PublishTestShared, AssignPublisherShared, AddPlayerShared, SendShared, RemoveShared
  DEF Continue
<1>3. CASE UNCHANGED vars
  <2>1. UNCHANGED <<tcp, ctx, sessions, obj, busy, strayed>>
    BY <1>3 DEF vars
  <2> QED
    BY <2>1, WorkShared
<1> QED
  BY <1>1, <1>2, <1>3 DEF Next

(* SharedInv holds in every reachable state, on any number of I/O loops. *)
THEOREM SharedInvHolds == Spec => []SharedInv
BY SharedInit, SharedNext, MediaInvHolds, PTL DEF Spec

(* On any number of I/O loops a closed connection that never gave a connect, *)
(* publish or play while it had a role is in no session of the registry any  *)
(* more (RtmpServer::cleanupConnection), although the session is looked up   *)
(* under mutex_ and joined without it.                                       *)
THEOREM AlwaysCleanedUp == Spec => []CleanedUp
<1>1. SharedInv => CleanedUp
  <2> SUFFICES ASSUME SharedInv, NEW c \in Conns, tcp[c] = "down", c \notin strayed,
                      NEW s \in Objects, InMap(s)
               PROVE  obj[s].publisher # c /\ c \notin obj[s].players
    BY DEF CleanedUp, Referenced, Exists
  <2>1. PICK k \in Keys : sessions[k] = s
    BY DEF InMap
  <2>2. s # None /\ ~Open(c)
    BY NoneIsNone DEF Open
  <2> QED
    BY <2>1, <2>2 DEF SharedInv, MembersJoined, InRole
<1> QED
  BY <1>1, SharedInvHolds, PTL

(* On any number of I/O loops, as long as every client follows the protocol, *)
(* the registry fills with no sessions that nobody will clean up             *)
(* (RtmpServer::cleanupConnection, RtmpSessionManager::removeIfEmpty).       *)
THEOREM NeverDeadSession == Spec => []NoDeadSession
<1>1. SharedInv => NoDeadSession
  <2> SUFFICES ASSUME SharedInv, strayed = {}, NEW k \in Keys, sessions[k] # None,
                      ~Held(sessions[k])
               PROVE  \E c \in Conns : /\ Open(c) /\ ctx[c].session = sessions[k]
                                       /\ StreamKey(ctx[c]) = k
    BY DEF NoDeadSession
  <2>1. ~Tended(sessions[k])
    BY DEF Tended, Held
  <2>2. Taken(k)
    BY <2>1 DEF SharedInv, Owned
  <2> QED
    BY <2>2 DEF Taken, InRole
<1> QED
  BY <1>1, SharedInvHolds, PTL

-----------------------------------------------------------------------------
(* Publishers and players on a single loop.                                 *)

(* What a step starts from: the invariants, and types afterwards. *)
Before == SingleLoop /\ Types /\ Numbers /\ CachesOK /\ Types' /\ LoopInv

(* What one loop does is what all do. *)
LEMMA OneForAll ==
  ASSUME SingleLoop, NEW l \in Loops
  PROVE  /\ \A m \in Loops : busy[m] = busy[l] /\ busy'[m] = busy'[l]
         /\ \A s : (Held(s) <=> busy[l].session = s) /\ (Held(s)' <=> busy'[l].session = s)
BY DEF SingleLoop, Held

(* Nobody holds a session while the loop is idle. *)
LEMMA Idling ==
  ASSUME SingleLoop, NEW c \in Conns, busy[LoopOf[c]] = Idle
  PROVE  /\ LoopOf[c] \in Loops /\ \A l \in Loops : busy[l] = Idle
         /\ \A s \in Objects : ~Held(s)
<1>1. LoopOf[c] \in Loops
  BY DEF Loops
<1>2. \A l \in Loops : busy[l] = Idle
  BY <1>1 DEF SingleLoop
<1> QED
  BY <1>1, <1>2, IdleIs, NoneIsNone DEF Held

(* A job that neither replays nor broadcasts leaves the players as they are. *)
LEMMA SoonIs ==
  ASSUME NEW b, b.at \notin {"replay", "broadcast"}, NEW s, NEW p
  PROVE  Soon(b, s, p) = heard[p]
BY DEF Soon

(* The invariant while nothing but the contexts, and the names they give,    *)
(* changes.                                                                  *)
LEMMA PlainCommandLoop ==
  ASSUME Before, NEW c \in Conns,
         \/ Connected(c) \/ HandleCreateStream(c) \/ Refused(c)
         \/ \E app \in Apps \cup {None} : HandleConnect(c, app)
         \/ \E name \in Names : StreamRefused(c, name)
  PROVE  LoopInv'
<1> USE DEF Before
<1>1. UNCHANGED <<sessions, obj, busy, sent, heard>>
  BY DEF Connected, HandleCreateStream, Refused, HandleConnect, StreamRefused
<1>2. \A l \in Loops : busy[l] = Idle
  BY Idling DEF Connected, HandleCreateStream, Refused, HandleConnect, StreamRefused, Turn
<1>3. Registry'
  BY <1>1 DEF LoopInv, Registry, InMap
<1>4. NoneEmpty' /\ Caches'
  BY <1>1 DEF LoopInv, NoneEmpty, Caches, InMap, Held, Empty
<1>5. Handlers'
  BY <1>1, <1>2 DEF Handlers
<1>6. /\ \A d \in Conns \ {c} : ctx'[d] = ctx[d] /\ tcp'[d] = tcp[d]
      /\ strayed \subseteq strayed' /\ strayed' \subseteq strayed \cup {c}
  BY PlainCommandIs
<1>7. \/ tcp[c] = "none" /\ ctx'[c].role = "kUnknown"
      \/ /\ tcp'[c] = tcp[c] \/ (tcp[c] = "up" /\ tcp'[c] = "closing")
         /\ Open(c) /\ ctx'[c].role = ctx[c].role /\ ctx'[c].session = ctx[c].session
         /\ \/ ctx[c].role = "kUnknown" \/ c \in strayed'
            \/ ctx'[c].app = ctx[c].app /\ ctx'[c].name = ctx[c].name
  BY PlainCommandIs
<1>8. ASSUME NEW d \in Conns \ strayed', NEW s \in Objects,
             NEW role \in {"kPublisher", "kPlayer"}, Member(d, s, role)
      PROVE  Member(d, s, role)'
  <2>1. CASE d # c
    <3>1. ctx'[d] = ctx[d] /\ tcp'[d] = tcp[d]
      BY <1>6, <2>1
    <3> QED
      BY <1>1, <1>8, <3>1 DEF Member, Named, Open
  <2>2. CASE d = c
    <3>1. /\ Open(c)' /\ ctx'[c].role = ctx[c].role /\ ctx'[c].session = ctx[c].session
          /\ ctx'[c].app = ctx[c].app /\ ctx'[c].name = ctx[c].name
      BY <1>7, <1>8, <2>2 DEF Member, Open
    <3>2. StreamKey(ctx'[c]) = StreamKey(ctx[c])
      BY <3>1 DEF StreamKey
    <3> QED
      BY <1>1, <1>8, <2>2, <3>1, <3>2 DEF Member, Named
  <2> QED
    BY <2>1, <2>2
<1>9. Members'
  BY <1>1, <1>6, <1>8 DEF LoopInv, Members
<1>10. PublisherKept'
  <2>1. \A d \in Conns : \A s \in Objects : Publishes(d, s)' => Publishes(d, s)
    BY <1>6, <1>7 DEF Publishes, Open
  <2> QED
    BY <1>1, <2>1 DEF LoopInv, PublisherKept, InMap
<1>11. Players'
  <2> SUFFICES ASSUME NEW s \in Objects, NEW p \in obj[s].players, tcp'[p] = "up",
                      p \notin strayed', NEW l \in Loops
               PROVE  UpToDate(obj[s], heard[p])
    <3>1. \A l \in Loops : \A s, p : Soon(busy[l], s, p)' = heard[p]
      BY <1>1, <1>2, IdleIs DEF Soon
    <3> QED
      BY <1>1, <3>1 DEF Players
  <2>1. p \in Conns
    BY DEF Types, Sessions
  <2>2. p \notin strayed /\ Open(p)
    BY <1>6, <2>1 DEF LoopInv, Members, Member
  <2>3. tcp[p] = "up"
    BY <1>6, <1>7, <2>1, <2>2 DEF Open
  <2>4. Soon(busy[l], s, p) = heard[p]
    BY <1>2, IdleIs, SoonIs
  <2> QED
    BY <2>2, <2>3, <2>4 DEF LoopInv, Players
<1> QED
  BY <1>3, <1>4, <1>5, <1>9, <1>10, <1>11 DEF LoopInv

(* getOrCreateSession: a new session is as good as one that was erased. *)
LEMMA LookUpLoop ==
  ASSUME Before, NEW c \in Conns, NEW name \in Names, NEW next \in {"setPublisher", "addPlayer"},
         GetOrCreateSession(c, name, next)
  PROVE  LoopInv'
<1> USE DEF Before
<1>1. PICK x \in Contexts, k \in Keys, s \in Objects, j \in Jobs, l \in Loops :
        /\ x = [ctx[c] EXCEPT !.name = name] /\ k = StreamKey(x) /\ l = LoopOf[c]
        /\ x.role = ctx[c].role /\ x.session = ctx[c].session
        /\ Open(c) /\ busy[l] = Idle
        /\ ctx' = [ctx EXCEPT ![c] = x] /\ sessions' = [sessions EXCEPT ![k] = s]
        /\ obj' = IF sessions[k] = None THEN [obj EXCEPT ![s] = NewSession] ELSE obj
        /\ busy' = [busy EXCEPT ![l] = j] /\ j.at = next /\ j.conn = c /\ j.session = s
        /\ Strays(c) /\ UNCHANGED <<tcp, sent, heard>>
        /\ sessions[k] # None => s = sessions[k]
        /\ sessions[k] = None => ~InMap(s) /\ ~Held(s)
  BY LookUpIs
<1>4. /\ \A d \in Conns \ {c} : ctx'[d] = ctx[d]
      /\ ctx'[c].role = ctx[c].role /\ ctx'[c].session = ctx[c].session
      /\ StreamKey(ctx'[c]) = k
      /\ c \notin strayed' => ctx[c].role = "kUnknown"
      /\ strayed \subseteq strayed' /\ strayed' \subseteq strayed \cup {c}
  <2>1. ctx'[c] = x /\ \A d \in Conns \ {c} : ctx'[d] = ctx[d]
    BY <1>1 DEF Types
  <2> QED
    BY <1>1, <2>1 DEF Strays
<1>7. obj' = obj
  <2>1. CASE sessions[k] = None
    <3>1. obj[s] = NewSession
      BY <1>1, <2>1 DEF LoopInv, Registry
    <3> QED
      BY <1>1, <2>1, <3>1 DEF Types
  <2>2. CASE sessions[k] # None
    BY <1>1, <2>2
  <2> QED
    BY <2>1, <2>2
<1>8. /\ l \in Loops /\ \A m \in Loops : busy[m] = Idle /\ busy'[m] = j
      /\ \A t \in Objects : ~Held(t) /\ (Held(t)' <=> t = s)
  <2>1. l \in Loops /\ \A m \in Loops : busy[m] = Idle
    BY <1>1, Idling
  <2>2. busy'[l] = j
    BY <1>1, <2>1 DEF Types
  <2>3. \A m \in Loops : busy'[m] = j
    BY <2>1, <2>2 DEF SingleLoop
  <2> QED
    BY <1>1, <2>1, <2>3, Idling DEF Held
<1>9. /\ \A i \in Keys : sessions'[i] = IF i = k THEN s ELSE sessions[i]
      /\ \A t \in Objects : InMap(t)' <=> InMap(t) \/ t = s
  <2>1. \A i \in Keys : sessions'[i] = IF i = k THEN s ELSE sessions[i]
    BY <1>1 DEF Types
  <2>2. ASSUME NEW t \in Objects PROVE InMap(t)' <=> InMap(t) \/ t = s
    <3>1. CASE sessions[k] = None
      BY <1>1, <2>1, <3>1, NoneIsNone DEF InMap
    <3>2. CASE sessions[k] # None
      BY <1>1, <2>1, <3>2 DEF InMap
    <3> QED
      BY <3>1, <3>2
  <2> QED
    BY <2>1, <2>2
<1>10. Registry'
  <2>1. ASSUME NEW i \in Keys, NEW m \in Keys, sessions'[i] = sessions'[m], sessions'[m] # None
        PROVE  i = m
    <3>1. CASE sessions[k] # None
      BY <1>1, <1>9, <2>1, <3>1 DEF LoopInv, Registry
    <3>2. CASE sessions[k] = None
      BY <1>1, <1>9, <2>1, <3>2 DEF LoopInv, Registry, InMap
    <3> QED
      BY <3>1, <3>2
  <2>2. \A t \in Objects : ~InMap(t)' => obj'[t] = NewSession
    BY <1>7, <1>9 DEF LoopInv, Registry
  <2> QED
    BY <2>1, <2>2 DEF Registry
<1>11. Members'
  <2>1. ASSUME NEW d \in Conns \ strayed', NEW t \in Objects,
               NEW role \in {"kPublisher", "kPlayer"}, Member(d, t, role)
        PROVE  Member(d, t, role)'
    <3>1. d # c
      BY <1>4, <2>1 DEF Member
    <3>2. ctx'[d] = ctx[d] /\ tcp'[d] = tcp[d]
      BY <1>1, <1>4, <3>1
    <3>3. sessions'[StreamKey(ctx[d])] = t
      BY <1>1, <1>9, <2>1, NoneIsNone DEF Member, Named
    <3> QED
      BY <2>1, <3>2, <3>3 DEF Member, Named, Open
  <2> QED
    BY <1>4, <1>7, <2>1 DEF LoopInv, Members
<1>12. NoneEmpty'
  BY <1>7, <1>8, <1>9 DEF LoopInv, NoneEmpty, Empty
<1>13. PublisherKept'
  <2>1. \A d \in Conns : \A t \in Objects : Publishes(d, t)' => Publishes(d, t)
    BY <1>1, <1>4 DEF Publishes, Open
  <2> QED
    BY <1>7, <1>9, <2>1 DEF LoopInv, PublisherKept
<1>14. Players'
  <2> SUFFICES ASSUME NEW t \in Objects, NEW p \in obj[t].players, tcp[p] = "up",
                      p \notin strayed
               PROVE  UpToDate(obj[t], heard[p])
    <3>1. \A m \in Loops : \A t, p : Soon(busy[m], t, p)' = heard[p]
      BY <1>1, <1>8 DEF Soon
    <3> QED
      BY <1>1, <1>4, <1>7, <3>1 DEF Players
  <2>1. Soon(busy[l], t, p) = heard[p]
    BY <1>8, IdleIs, SoonIs
  <2> QED
    BY <1>8, <2>1 DEF LoopInv, Players
<1>15. Handlers'
  <2>1. InMap(s)' /\ Open(c)' /\ Named(c, s)'
    BY <1>1, <1>4, <1>9 DEF Open, Named
  <2>2. Handler(j)'
    BY <1>1, <1>4, <2>1 DEF Handler
  <2> QED
    BY <1>8, <2>2 DEF Handlers
<1>16. Caches'
  BY <1>7 DEF LoopInv, Caches
<1> QED
  BY <1>10, <1>11, <1>12, <1>13, <1>14, <1>15, <1>16 DEF LoopInv

(* setPublisher up to the assignment. *)
LEMMA PublishTestLoop ==
  ASSUME Before, NEW l \in Loops, PublishRejected(l) \/ PublishAllowed(l)
  PROVE  LoopInv'
<1> USE DEF Before
<1> DEFINE c == busy[l].conn
           s == busy[l].session
<1>1. /\ busy[l].at = "setPublisher" /\ UNCHANGED <<tcp, ctx, sessions, obj, sent, heard, strayed>>
  BY DEF PublishRejected, PublishAllowed
<1>2. busy[l] \in Jobs /\ c \in Conns /\ s \in Objects /\ obj[s] \in Sessions
  BY <1>1, BusyIs DEF Types
<1>3. Registry' /\ Members' /\ PublisherKept' /\ Caches'
  BY <1>1 DEF LoopInv, Registry, InMap, Members, Member, Named, Open, PublisherKept, Publishes, Caches
<1>4. Handler(busy[l])
  BY <1>2, BusyIs DEF LoopInv, Handlers
<1>5. Players' /\ NoneEmpty' /\ Handlers'
  <2>1. ASSUME busy'[l].at \in {"idle", "assignPublisher"}
        PROVE  Players'
    <3>1. \A m \in Loops : \A t, p : Soon(busy[m], t, p)' = heard[p] /\ Soon(busy[m], t, p) = heard[p]
      BY <1>1, <2>1, OneForAll DEF Soon
    <3> QED
      BY <1>1, <3>1 DEF LoopInv, Players
  <2>2. CASE PublishRejected(l)
    <3>1. busy'[l] = Idle
      BY <2>2 DEF PublishRejected, Returns, Types
    <3>2. ~Empty(s)
      BY <2>2 DEF PublishRejected, MayPublish, Empty
    <3>3. NoneEmpty'
      BY <1>1, <3>2, OneForAll DEF LoopInv, NoneEmpty, Empty, InMap
    <3>4. Handlers'
      BY <3>1, OneForAll DEF Handlers
    <3> QED
      BY <2>1, <3>1, <3>3, <3>4, IdleIs
  <2>3. CASE PublishAllowed(l)
    <3>1. busy'[l] = [busy[l] EXCEPT !.at = "assignPublisher"]
      BY <2>3 DEF PublishAllowed, Goes, Types
    <3>2. busy'[l].at = "assignPublisher" /\ busy'[l].conn = c /\ busy'[l].session = s
      BY <1>2, <3>1 DEF Jobs
    <3>3. NoneEmpty'
      BY <1>1, <3>2, OneForAll DEF LoopInv, NoneEmpty, Empty, InMap
    <3>4. Handler(busy[l])'
      <4>1. MayPublish(s, c)
        BY <2>3 DEF PublishAllowed
      <4> QED
        BY <1>1, <1>4, <3>2, <4>1 DEF Handler, MayPublish, InMap, Open, Named
    <3>5. Handlers'
      BY <3>4, OneForAll DEF Handlers
    <3> QED
      BY <2>1, <3>2, <3>3, <3>5
  <2> QED
    BY <2>2, <2>3
<1> QED
  BY <1>3, <1>5 DEF LoopInv

(* setPublisher: nobody else was told before that they publish. *)
LEMMA AssignPublisherLoop ==
  ASSUME Before, NEW l \in Loops, AssignPublisher(l)
  PROVE  LoopInv'
<1> USE DEF Before
<1>1. PICK c \in Conns, s \in Objects, o \in Sessions :
        /\ busy[l].at = "assignPublisher" /\ busy[l].conn = c /\ busy[l].session = s
        /\ o = PublishedBy(obj[s], c) /\ obj[s] \in Sessions
        /\ obj' = [obj EXCEPT ![s] = o]
        /\ ctx' = [ctx EXCEPT ![c].role = "kPublisher", ![c].session = s]
        /\ Returns(l) /\ UNCHANGED <<tcp, sessions, sent, heard, strayed>>
  <2>1. busy[l].at = "assignPublisher"
    BY DEF AssignPublisher
  <2>2. busy[l].conn \in Conns /\ busy[l].session \in Objects
    BY <2>1, BusyIs
  <2>3. obj[busy[l].session] \in Sessions
    BY <2>2 DEF Types
  <2>4. PublishedBy(obj[busy[l].session], busy[l].conn) \in Sessions
    BY <2>2, <2>3, SessionsStay
  <2> QED
    BY <2>2, <2>3, <2>4 DEF AssignPublisher
<1>2. /\ InMap(s) /\ Open(c) /\ Named(c, s) /\ (c \notin strayed => ctx[c].role = "kUnknown")
      /\ obj[s].publisher \in {None, c}
  <2>1. Handler(busy[l])
    BY <1>1, BusyIs DEF LoopInv, Handlers
  <2> QED
    BY <1>1, <2>1 DEF Handler, MayPublish
<1>3. /\ \A t \in Objects : obj'[t] = IF t = s THEN o ELSE obj[t]
      /\ o.publisher = c /\ o.players = obj[s].players
      /\ obj[s].publisher = c => o = obj[s]
      /\ obj[s].publisher # c => SameCaches(NewSession, o)
  <2>1. \A t \in Objects : obj'[t] = IF t = s THEN o ELSE obj[t]
    BY <1>1 DEF Types
  <2>2. /\ PublishedBy(obj[s], c).publisher = c /\ PublishedBy(obj[s], c).players = obj[s].players
        /\ obj[s].publisher = c => PublishedBy(obj[s], c) = obj[s]
        /\ obj[s].publisher # c => SameCaches(NewSession, PublishedBy(obj[s], c))
    <3>1. obj[s] \in Sessions
      BY <1>1
    <3> QED
      BY <3>1, SessionsStay
  <2> QED
    BY <1>1, <2>1, <2>2, Zenon
<1>4. /\ \A d \in Conns \ {c} : ctx'[d] = ctx[d]
      /\ ctx'[c].role = "kPublisher" /\ ctx'[c].session = s
      /\ StreamKey(ctx'[c]) = StreamKey(ctx[c])
  <2>1. ctx[c] \in Contexts /\ ctx \in [Conns -> Contexts]
    BY DEF Types
  <2>2. ctx'[c] = [ctx[c] EXCEPT !.role = "kPublisher", !.session = s]
        /\ \A d \in Conns \ {c} : ctx'[d] = ctx[d]
    BY <1>1, <2>1
  <2>3. /\ ctx'[c].app = ctx[c].app /\ ctx'[c].name = ctx[c].name
        /\ ctx'[c].role = "kPublisher" /\ ctx'[c].session = s
    BY <2>1, <2>2 DEF Contexts
  <2> QED
    BY <2>2, <2>3 DEF StreamKey
<1>5. /\ busy'[l] = Idle /\ \A m \in Loops : busy[m] = busy[l] /\ busy'[m] = Idle
      /\ \A t \in Objects : (Held(t) <=> t = s) /\ ~Held(t)'
  <2>1. busy'[l] = Idle
    BY <1>1 DEF Returns, Types
  <2> QED
    BY <1>1, <2>1, OneForAll, IdleIs, NoneIsNone
<1>6. \A t \in Objects : InMap(t)' <=> InMap(t)
  BY <1>1 DEF InMap
<1>7. Registry'
  <2>1. \A t \in Objects : ~InMap(t)' => obj'[t] = NewSession
    BY <1>2, <1>3, <1>6 DEF LoopInv, Registry
  <2> QED
    BY <1>1, <2>1 DEF LoopInv, Registry
<1>8. Members'
  <2>1. ASSUME NEW d \in Conns \ strayed, NEW t \in Objects,
               NEW role \in {"kPublisher", "kPlayer"}, Member(d, t, role)
        PROVE  Member(d, t, role)'
    <3>1. ctx'[d] = ctx[d] /\ tcp'[d] = tcp[d]
      BY <1>1, <1>2, <1>4, <2>1 DEF Member
    <3> QED
      BY <1>1, <2>1, <3>1 DEF Member, Named, Open
  <2>2. Member(c, s, "kPublisher")'
    BY <1>1, <1>2, <1>4 DEF Member, Named, Open
  <2>3. ASSUME NEW d \in Conns \ strayed, NEW t \in Objects, obj'[t].publisher = d
        PROVE  Member(d, t, "kPublisher")'
    BY <1>3, <2>1, <2>2, <2>3 DEF LoopInv, Members
  <2>4. ASSUME NEW d \in Conns \ strayed, NEW t \in Objects, d \in obj'[t].players
        PROVE  Member(d, t, "kPlayer")'
    BY <1>3, <2>1, <2>4 DEF LoopInv, Members
  <2> QED
    BY <1>1, <2>3, <2>4 DEF Members
<1>9. NoneEmpty'
  BY <1>3, <1>5, <1>6, NoneIsNone DEF LoopInv, NoneEmpty, Empty
<1>10. PublisherKept'
  <2> SUFFICES ASSUME NEW d \in Conns, NEW t \in Objects, Publishes(d, t)'
               PROVE  InMap(t)' /\ obj'[t].publisher = d
    BY DEF PublisherKept
  <2>1. CASE d = c
    BY <1>2, <1>3, <1>4, <1>6, <2>1 DEF Publishes
  <2>2. CASE d # c
    <3>1. Publishes(d, t)
      BY <1>1, <1>4, <2>2 DEF Publishes, Open
    <3>2. InMap(t) /\ obj[t].publisher = d
      BY <3>1 DEF LoopInv, PublisherKept
    <3>3. t # s
      BY <1>2, <2>2, <3>2, NoneIsNone
    <3> QED
      BY <1>3, <1>6, <3>2, <3>3
  <2> QED
    BY <2>1, <2>2
<1>11. Players'
  <2> SUFFICES ASSUME NEW t \in Objects, NEW p \in obj[t].players, tcp[p] = "up", p \notin strayed
               PROVE  UpToDate(obj'[t], heard[p])
    <3>1. \A m \in Loops : \A t, p : Soon(busy[m], t, p)' = heard[p]
      BY <1>1, <1>5, IdleIs DEF Soon
    <3> QED
      BY <1>1, <1>3, <3>1 DEF Players
  <2>1. Soon(busy[l], t, p) = heard[p]
    BY <1>1, SoonIs
  <2>2. UpToDate(obj[t], heard[p])
    BY <2>1 DEF LoopInv, Players
  <2>3. CASE t # s \/ obj[s].publisher = c
    BY <1>3, <2>2, <2>3
  <2>4. CASE t = s /\ obj[s].publisher # c
    BY <1>3, <2>2, <2>4, UpToDateNew
  <2> QED
    BY <2>3, <2>4
<1>12. Handlers'
  BY <1>5 DEF Handlers
<1>13. Caches'
  <2>1. CachesFrom(o)
    <3>1. CASE obj[s].publisher = c
      BY <1>3, <3>1 DEF LoopInv, Caches
    <3>2. CASE obj[s].publisher # c
      <4>1. o.gop = <<>> /\ \A k \in HeaderKinds : o.header[k] = None
        BY <1>3, <3>2, NewSessionOK DEF SameCaches
      <4> QED
        BY <4>1 DEF CachesFrom
    <3> QED
      BY <3>1, <3>2
  <2> QED
    BY <1>3, <2>1 DEF LoopInv, Caches
<1> QED
  BY <1>7, <1>8, <1>9, <1>10, <1>11, <1>12, <1>13 DEF LoopInv

(* addPlayer: the caches will be replayed to the new player alone. *)
LEMMA AddPlayerLoop ==
  ASSUME Before, NEW l \in Loops, AddPlayer(l)
  PROVE  LoopInv'
<1> USE DEF Before
<1>1. PICK c \in Conns, s \in Objects, o \in Sessions, j \in Jobs :
        /\ busy[l].at = "addPlayer" /\ busy[l].conn = c /\ busy[l].session = s
        /\ o.publisher = obj[s].publisher /\ o.players = obj[s].players \cup {c}
        /\ SameCaches(obj[s], o) /\ obj[s] \in Sessions
        /\ obj' = [obj EXCEPT ![s] = o]
        /\ ctx' = [ctx EXCEPT ![c].role = "kPlayer", ![c].session = s]
        /\ heard' = [heard EXCEPT ![c] = <<>>]
        /\ busy' = [busy EXCEPT ![l] = j] /\ j.at = "replay" /\ j.conn = c /\ j.session = s
        /\ UNCHANGED <<tcp, sessions, sent, strayed>>
  BY AddPlayerIs
<1>2. InMap(s) /\ Open(c) /\ Named(c, s) /\ (c \notin strayed => ctx[c].role = "kUnknown")
  <2>1. Handler(busy[l])
    BY <1>1, BusyIs DEF LoopInv, Handlers
  <2> QED
    BY <1>1, <2>1 DEF Handler
<1>3. /\ \A t \in Objects : obj'[t] = IF t = s THEN o ELSE obj[t]
      /\ \A d \in Conns : heard'[d] = IF d = c THEN <<>> ELSE heard[d]
  BY <1>1 DEF Types
<1>4. /\ \A d \in Conns \ {c} : ctx'[d] = ctx[d]
      /\ ctx'[c].role = "kPlayer" /\ ctx'[c].session = s
      /\ StreamKey(ctx'[c]) = StreamKey(ctx[c])
  <2>1. ctx[c] \in Contexts /\ ctx \in [Conns -> Contexts]
    BY DEF Types
  <2>2. ctx'[c] = [ctx[c] EXCEPT !.role = "kPlayer", !.session = s]
        /\ \A d \in Conns \ {c} : ctx'[d] = ctx[d]
    BY <1>1, <2>1
  <2>3. /\ ctx'[c].app = ctx[c].app /\ ctx'[c].name = ctx[c].name
        /\ ctx'[c].role = "kPlayer" /\ ctx'[c].session = s
    BY <2>1, <2>2 DEF Contexts
  <2> QED
    BY <2>2, <2>3 DEF StreamKey
<1>5. /\ \A m \in Loops : busy[m] = busy[l] /\ busy'[m] = j
      /\ \A t \in Objects : (Held(t) <=> t = s) /\ (Held(t)' <=> t = s)
  <2>1. busy'[l] = j
    BY <1>1 DEF Types
  <2> QED
    BY <1>1, <2>1, OneForAll
<1>6. \A t \in Objects : InMap(t)' <=> InMap(t)
  BY <1>1 DEF InMap
<1>7. Registry'
  <2>1. \A t \in Objects : ~InMap(t)' => obj'[t] = NewSession
    BY <1>2, <1>3, <1>6 DEF LoopInv, Registry
  <2> QED
    BY <1>1, <2>1 DEF LoopInv, Registry
<1>8. Members'
  <2>1. ASSUME NEW d \in Conns \ strayed, NEW t \in Objects,
               NEW role \in {"kPublisher", "kPlayer"}, Member(d, t, role)
        PROVE  Member(d, t, role)'
    <3>1. ctx'[d] = ctx[d] /\ tcp'[d] = tcp[d]
      BY <1>1, <1>2, <1>4, <2>1 DEF Member
    <3> QED
      BY <1>1, <2>1, <3>1 DEF Member, Named, Open
  <2>2. Member(c, s, "kPlayer")'
    BY <1>1, <1>2, <1>4 DEF Member, Named, Open
  <2>3. ASSUME NEW d \in Conns \ strayed, NEW t \in Objects, obj'[t].publisher = d
        PROVE  Member(d, t, "kPublisher")'
    BY <1>1, <1>3, <2>1, <2>3 DEF LoopInv, Members
  <2>4. ASSUME NEW d \in Conns \ strayed, NEW t \in Objects, d \in obj'[t].players
        PROVE  Member(d, t, "kPlayer")'
    BY <1>1, <1>3, <2>1, <2>2, <2>4 DEF LoopInv, Members
  <2> QED
    BY <1>1, <2>3, <2>4 DEF Members
<1>9. NoneEmpty'
  BY <1>3, <1>5, <1>6 DEF LoopInv, NoneEmpty, Empty
<1>10. PublisherKept'
  <2> SUFFICES ASSUME NEW d \in Conns, NEW t \in Objects, Publishes(d, t)'
               PROVE  InMap(t)' /\ obj'[t].publisher = d
    BY DEF PublisherKept
  <2>1. d # c
    BY <1>4 DEF Publishes
  <2>2. Publishes(d, t)
    BY <1>1, <1>4, <2>1 DEF Publishes, Open
  <2> QED
    BY <1>1, <1>3, <1>6, <2>2 DEF LoopInv, PublisherKept
<1>11. Players'
  <2> SUFFICES ASSUME NEW t \in Objects, NEW p \in obj'[t].players, tcp[p] = "up", p \notin strayed
               PROVE  UpToDate(obj[t], Soon(j, t, p))'
    BY <1>1, <1>5 DEF Players
  <2>1. p \in Conns
    BY DEF Types, Sessions
  <2>2. CASE p = c
    <3>1. t = s
      BY <1>1, <1>2, <1>3, <2>1, <2>2 DEF LoopInv, Members, Member
    <3>2. Soon(j, t, p)' = <<>> \o Cached(o)
      BY <1>1, <1>3, <2>2, <3>1 DEF Soon
    <3>3. GopOf(o) /\ CacheNumbers(o, sent)
      BY <1>1, SameCachesOK DEF CachesOK
    <3>4. UpToDate(o, <<>> \o Cached(o))
      BY <3>3, UpToDateReplayed
    <3> QED
      BY <1>3, <3>1, <3>2, <3>4
  <2>3. CASE p # c
    <3>1. Soon(j, t, p)' = heard[p]
      BY <1>1, <1>3, <2>1, <2>3 DEF Soon
    <3>2. p \in obj[t].players
      BY <1>1, <1>3, <2>3
    <3>3. Soon(busy[l], t, p) = heard[p]
      BY <1>1, SoonIs
    <3>4. UpToDate(obj[t], heard[p])
      BY <3>2, <3>3 DEF LoopInv, Players
    <3>5. UpToDate(obj'[t], heard[p])
      <4>1. CASE t = s
        BY <1>1, <1>3, <3>4, <4>1, UpToDateSame
      <4>2. CASE t # s
        BY <1>3, <3>4, <4>2
      <4> QED
        BY <4>1, <4>2
    <3> QED
      BY <3>1, <3>5
  <2> QED
    BY <2>2, <2>3
<1>12. Handlers'
  <2>1. Handler(j)'
    BY <1>1, <1>2, <1>3, <1>6 DEF Handler
  <2> QED
    BY <1>5, <2>1 DEF Handlers
<1>13. Caches'
  <2>1. CachesFrom(o)
    BY <1>1 DEF LoopInv, Caches, CachesFrom, SameCaches
  <2> QED
    BY <1>3, <2>1 DEF LoopInv, Caches
<1> QED
  BY <1>7, <1>8, <1>9, <1>10, <1>11, <1>12, <1>13 DEF LoopInv

(* replayCachedMessagesToPlayer *)
LEMMA ReplayLoop ==
  ASSUME Before, NEW l \in Loops, Replay(l)
  PROVE  LoopInv'
<1> USE DEF Before
<1>1. PICK c \in Conns, s \in Objects :
        /\ busy[l].at = "replay" /\ busy[l].conn = c /\ busy[l].session = s
        /\ heard' = IF tcp[c] = "up" THEN [heard EXCEPT ![c] = @ \o Cached(obj[s])] ELSE heard
        /\ Returns(l) /\ UNCHANGED <<tcp, ctx, sessions, obj, sent, strayed>>
  <2>1. busy[l].at = "replay"
    BY DEF Replay
  <2>2. busy[l].conn \in Conns /\ busy[l].session \in Objects
    BY <2>1, BusyIs
  <2> QED
    BY <2>2 DEF Replay
<1>2. c \in obj[s].players
  <2>1. Handler(busy[l])
    BY <1>1, BusyIs DEF LoopInv, Handlers
  <2> QED
    BY <1>1, <2>1 DEF Handler
<1>3. /\ \A d \in Conns \ {c} : heard'[d] = heard[d]
      /\ tcp[c] = "up" => heard'[c] = heard[c] \o Cached(obj[s])
  BY <1>1 DEF Types
<1>4. /\ \A m \in Loops : busy[m] = busy[l] /\ busy'[m] = Idle
      /\ \A t \in Objects : (Held(t) <=> t = s) /\ ~Held(t)'
  <2>1. busy'[l] = Idle
    BY <1>1 DEF Returns, Types
  <2> QED
    BY <1>1, <2>1, OneForAll, IdleIs, NoneIsNone
<1>5. Registry' /\ Members' /\ PublisherKept' /\ Caches'
  BY <1>1 DEF LoopInv, Registry, InMap, Members, Member, Named, Open, PublisherKept, Publishes, Caches
<1>6. NoneEmpty'
  BY <1>1, <1>2, <1>4 DEF LoopInv, NoneEmpty, Empty, InMap
<1>7. Players'
  <2> SUFFICES ASSUME NEW t \in Objects, NEW p \in obj[t].players, tcp[p] = "up", p \notin strayed
               PROVE  UpToDate(obj[t], heard'[p])
    <3>1. \A m \in Loops : \A t, p : Soon(busy[m], t, p)' = heard'[p]
      BY <1>4, IdleIs DEF Soon
    <3> QED
      BY <1>1, <3>1 DEF Players
  <2>1. UpToDate(obj[t], Soon(busy[l], t, p)) /\ p \in Conns
    BY DEF LoopInv, Players, Types, Sessions
  <2>2. CASE p = c
    <3>1. t = s
      BY <1>2, <2>2 DEF LoopInv, Members, Member
    <3>2. Soon(busy[l], t, p) = heard'[p]
      BY <1>1, <1>3, <2>2, <3>1 DEF Soon
    <3> QED
      BY <2>1, <3>2
  <2>3. CASE p # c
    <3>1. Soon(busy[l], t, p) = heard'[p]
      BY <1>1, <1>3, <2>1, <2>3 DEF Soon
    <3> QED
      BY <2>1, <3>1
  <2> QED
    BY <2>2, <2>3
<1>8. Handlers'
  BY <1>4 DEF Handlers
<1> QED
  BY <1>5, <1>6, <1>7, <1>8 DEF LoopInv

(* broadcastMessage: the players of this session, and no others, hear it. *)
LEMMA BroadcastLoop ==
  ASSUME Before, NEW l \in Loops, BroadcastMessage(l)
  PROVE  LoopInv'
<1> USE DEF Before
<1>a. busy[l].at = "broadcast"
  BY DEF BroadcastMessage
<1>b. PICK s \in Objects : s = busy[l].session /\ obj[s] \in Sessions /\ busy[l].conn \in Conns
  BY <1>a, BusyIs DEF Types
<1>c. PICK P \in SUBSET Conns : P = {p \in obj[s].players : tcp[p] = "up"}
  BY <1>b DEF Sessions
<1>d. PICK o \in Sessions : /\ o = [obj[s] EXCEPT !.players = P] /\ SameCaches(obj[s], o)
                            /\ o.publisher = obj[s].publisher /\ o.players = P
  BY <1>b, WithPlayers
<1>1. /\ busy[l].at = "broadcast" /\ busy[l].session = s /\ busy[l].conn \in Conns
      /\ P = {p \in obj[s].players : tcp[p] = "up"}
      /\ o.publisher = obj[s].publisher /\ o.players = P /\ SameCaches(obj[s], o)
      /\ obj' = [obj EXCEPT ![s] = o]
      /\ heard' = [p \in Conns |-> IF p \in P THEN Append(heard[p], busy[l].msg) ELSE heard[p]]
      /\ Returns(l) /\ UNCHANGED <<tcp, ctx, sessions, sent, strayed>>
  BY <1>a, <1>b, <1>c, <1>d DEF BroadcastMessage
<1>2. InMap(s) /\ obj[s].publisher = busy[l].conn
  <2>1. Handler(busy[l])
    BY <1>1, BusyIs DEF LoopInv, Handlers
  <2> QED
    BY <1>1, <2>1 DEF Handler
<1>3. \A t \in Objects : obj'[t] = IF t = s THEN o ELSE obj[t]
  BY <1>1 DEF Types
<1>4. /\ \A m \in Loops : busy[m] = busy[l] /\ busy'[m] = Idle
      /\ \A t \in Objects : (Held(t) <=> t = s) /\ ~Held(t)'
  <2>1. busy'[l] = Idle
    BY <1>1 DEF Returns, Types
  <2> QED
    BY <1>1, <2>1, OneForAll, IdleIs, NoneIsNone
<1>5. \A t \in Objects : InMap(t)' <=> InMap(t)
  BY <1>1 DEF InMap
<1>6. Registry'
  <2>1. \A t \in Objects : ~InMap(t)' => obj'[t] = NewSession
    BY <1>2, <1>3, <1>5 DEF LoopInv, Registry
  <2> QED
    BY <1>1, <2>1 DEF LoopInv, Registry
<1>7. Members'
  <2>1. \A d \in Conns : \A t \in Objects : \A role : Member(d, t, role)' <=> Member(d, t, role)
    BY <1>1 DEF Member, Named, Open
  <2>2. \A t \in Objects : obj'[t].publisher = obj[t].publisher
                           /\ obj'[t].players \subseteq obj[t].players
    BY <1>1, <1>3
  <2> QED
    BY <1>1, <2>1, <2>2 DEF LoopInv, Members
<1>8. NoneEmpty'
  BY <1>1, <1>2, <1>3, <1>4, <1>5, NoneIsNone DEF LoopInv, NoneEmpty, Empty
<1>9. PublisherKept'
  BY <1>1, <1>3, <1>5 DEF LoopInv, PublisherKept, Publishes, Open
<1>10. Players'
  <2> SUFFICES ASSUME NEW t \in Objects, NEW p \in obj'[t].players, tcp[p] = "up", p \notin strayed
               PROVE  UpToDate(obj'[t], heard'[p])
    <3>1. \A m \in Loops : \A t, p : Soon(busy[m], t, p)' = heard'[p]
      BY <1>4, IdleIs DEF Soon
    <3>2. tcp' = tcp /\ strayed' = strayed
      BY <1>1
    <3> QED
      BY <3>1, <3>2 DEF Players
  <2>1. p \in obj[t].players
    BY <1>1, <1>3
  <2>2. UpToDate(obj[t], Soon(busy[l], t, p)) /\ p \in Conns
    BY <2>1 DEF LoopInv, Players, Types, Sessions
  <2>3. CASE t = s
    <3>1. p \in P
      BY <1>1, <1>3, <2>3
    <3>2. Soon(busy[l], t, p) = heard'[p]
      BY <1>1, <2>2, <2>3, <3>1 DEF Soon
    <3>3. SameCaches(obj[t], obj'[t])
      BY <1>1, <1>3, <2>3
    <3> QED
      BY <2>2, <3>2, <3>3, UpToDateSame
  <2>4. CASE t # s
    <3>1. p \notin P
      BY <1>1, <2>1, <2>2, <2>4 DEF LoopInv, Members, Member
    <3>2. Soon(busy[l], t, p) = heard'[p]
      BY <1>1, <2>2, <2>4, <3>1 DEF Soon
    <3> QED
      BY <1>3, <2>2, <2>4, <3>2
  <2> QED
    BY <2>3, <2>4
<1>11. Handlers'
  BY <1>4 DEF Handlers
<1>12. Caches'
  <2>1. CachesFrom(o)
    BY <1>1 DEF LoopInv, Caches, CachesFrom, SameCaches
  <2> QED
    BY <1>3, <2>1 DEF LoopInv, Caches
<1> QED
  BY <1>6, <1>7, <1>8, <1>9, <1>10, <1>11, <1>12 DEF LoopInv

(* cacheMediaMessage for the publisher. *)
LEMMA CachesFromSent ==
  ASSUME NEW o \in Sessions, NEW m \in Messages, m.from = o.publisher, CachesFrom(o)
  PROVE  CachesFrom(CacheMediaMessage(o, m))
<1> DEFINE q == CacheMediaMessage(o, m)
<1>1. CASE m.kind \in HeaderKinds
  <2>1. q = [o EXCEPT !.header[m.kind] = m]
    BY <1>1 DEF CacheMediaMessage
  <2>2. /\ q.gop = o.gop /\ q.publisher = o.publisher
        /\ \A k \in HeaderKinds : q.header[k] = IF k = m.kind THEN m ELSE o.header[k]
    BY <1>1, <2>1 DEF Sessions
  <2> HIDE DEF q
  <2>3. CachesFrom(q)
    BY <2>2 DEF CachesFrom
  <2> QED
    BY <2>3 DEF q
<1>2. CASE m.kind \notin HeaderKinds /\ IsVideoKeyFrame(m)
  <2>1. q = [o EXCEPT !.gop = <<m>>, !.started = TRUE]
    BY <1>2 DEF CacheMediaMessage
  <2>2. q.gop = <<m>> /\ q.publisher = o.publisher /\ q.header = o.header
    BY <2>1 DEF Sessions
  <2>3. Len(q.gop) = 1 /\ q.gop[1] = m
    BY <2>2
  <2> HIDE DEF q
  <2>4. CachesFrom(q)
    BY <2>2, <2>3 DEF CachesFrom
  <2> QED
    BY <2>4 DEF q
<1>3. CASE m.kind \notin HeaderKinds /\ ~IsVideoKeyFrame(m) /\ o.started
  <2>1. q = [o EXCEPT !.gop = Append(@, m)]
    BY <1>3 DEF CacheMediaMessage
  <2>2. q.gop = Append(o.gop, m) /\ q.publisher = o.publisher /\ q.header = o.header
        /\ o.gop \in Seq(Messages)
    BY <2>1 DEF Sessions
  <2>3. /\ Len(q.gop) = Len(o.gop) + 1 /\ q.gop[Len(o.gop) + 1] = m /\ Len(o.gop) \in Nat
        /\ \A i \in 1 .. Len(o.gop) : q.gop[i] = o.gop[i]
    BY <2>2
  <2> HIDE DEF q
  <2>4. CachesFrom(q)
    BY <2>2, <2>3 DEF CachesFrom
  <2> QED
    BY <2>4 DEF q
<1>4. CASE m.kind \notin HeaderKinds /\ ~IsVideoKeyFrame(m) /\ ~o.started
  BY <1>4 DEF CacheMediaMessage
<1> QED
  BY <1>1, <1>2, <1>3, <1>4

(* handleMediaMessage: only the publisher gets this far. *)
LEMMA MediaLoop ==
  ASSUME Before, NEW c \in Conns, NEW kind \in Kinds, HandleMediaMessage(c, kind)
  PROVE  LoopInv'
<1> USE DEF Before
<1>1. PICK s \in Objects, m \in Messages, o \in Sessions, j \in Jobs, l \in Loops :
        /\ s = ctx[c].session /\ l = LoopOf[c] /\ Open(c) /\ busy[l] = Idle
        /\ ctx[c].role = "kPublisher"
        /\ m.n = sent + 1 /\ m.from = c
        /\ o = CacheMediaMessage(obj[s], m) /\ obj[s] \in Sessions
        /\ o.publisher = obj[s].publisher /\ o.players = obj[s].players
        /\ obj' = [obj EXCEPT ![s] = o] /\ busy' = [busy EXCEPT ![l] = j]
        /\ j.at = "broadcast" /\ j.conn = c /\ j.session = s /\ j.msg = m
        /\ UNCHANGED <<tcp, ctx, sessions, heard, strayed>>
  BY MediaMessageIs
<1>2. InMap(s) /\ obj[s].publisher = c
  BY <1>1 DEF LoopInv, PublisherKept, Publishes
<1>3. \A t \in Objects : obj'[t] = IF t = s THEN o ELSE obj[t]
  BY <1>1 DEF Types
<1>4. /\ \A i \in Loops : busy[i] = Idle /\ busy'[i] = j
      /\ \A t \in Objects : ~Held(t) /\ (Held(t)' <=> t = s)
  <2>1. \A i \in Loops : busy[i] = Idle
    BY <1>1, Idling
  <2>2. busy'[l] = j
    BY <1>1 DEF Types
  <2> QED
    BY <1>1, <2>1, <2>2, OneForAll, Idling
<1>5. \A t \in Objects : InMap(t)' <=> InMap(t)
  BY <1>1 DEF InMap
<1>6. Registry'
  <2>1. \A t \in Objects : ~InMap(t)' => obj'[t] = NewSession
    BY <1>2, <1>3, <1>5 DEF LoopInv, Registry
  <2> QED
    BY <1>1, <2>1 DEF LoopInv, Registry
<1>7. Members'
  <2>1. \A d \in Conns : \A t \in Objects : \A role : Member(d, t, role)' <=> Member(d, t, role)
    BY <1>1 DEF Member, Named, Open
  <2>2. \A t \in Objects : obj'[t].publisher = obj[t].publisher /\ obj'[t].players = obj[t].players
    BY <1>1, <1>3
  <2> QED
    BY <1>1, <2>1, <2>2 DEF LoopInv, Members
<1>8. NoneEmpty'
  BY <1>1, <1>3, <1>4, <1>5 DEF LoopInv, NoneEmpty, Empty
<1>9. PublisherKept'
  BY <1>1, <1>3, <1>5 DEF LoopInv, PublisherKept, Publishes, Open
<1>10. Players'
  <2> SUFFICES ASSUME NEW t \in Objects, NEW p \in obj[t].players, tcp[p] = "up", p \notin strayed
               PROVE  UpToDate(obj[t], Soon(j, t, p))'
    BY <1>1, <1>3, <1>4 DEF Players
  <2>1. p \in Conns
    BY DEF Types, Sessions
  <2>2. Soon(busy[l], t, p) = heard[p]
    BY <1>1, IdleIs, SoonIs
  <2>3. UpToDate(obj[t], heard[p])
    BY <2>2 DEF LoopInv, Players
  <2>4. CASE t = s
    <3>1. Soon(j, t, p)' = Append(heard[p], m)
      BY <1>1, <2>4 DEF Soon
    <3>2. heard[p] \in Seq(Messages) /\ \A i \in 1 .. Len(heard[p]) : heard[p][i].n <= sent
      BY <2>1 DEF Types, Numbers
    <3>3. GopOf(obj[s]) /\ CacheNumbers(obj[s], sent) /\ sent \in Nat /\ UpToDate(obj[s], heard[p])
      BY <2>3, <2>4, NoneIsNone DEF CachesOK, Types
    <3>4. UpToDate(CacheMediaMessage(obj[s], m), Append(heard[p], m))
      BY <1>1, <3>2, <3>3, UpToDateSent
    <3> QED
      BY <1>1, <1>3, <2>4, <3>1, <3>4
  <2>5. CASE t # s
    <3>1. Soon(j, t, p)' = heard[p]
      BY <1>1, <2>5 DEF Soon
    <3> QED
      BY <1>3, <2>3, <2>5, <3>1
  <2> QED
    BY <2>4, <2>5
<1>11. Handlers'
  <2>1. Handler(j)'
    BY <1>1, <1>2, <1>3, <1>5 DEF Handler
  <2> QED
    BY <1>4, <2>1 DEF Handlers
<1>12. Caches'
  <2>1. CachesFrom(obj[s]) /\ m.from = obj[s].publisher
    BY <1>1, <1>2 DEF LoopInv, Caches
  <2>2. CachesFrom(o)
    BY <1>1, <2>1, CachesFromSent
  <2> QED
    BY <1>3, <2>2 DEF LoopInv, Caches
<1> QED
  BY <1>6, <1>7, <1>8, <1>9, <1>10, <1>11, <1>12 DEF LoopInv

(* cleanupConnection takes nothing away from anybody else, and a connection  *)
(* that has not strayed out of the only session it is in.                    *)
LEMMA LeaveLoop ==
  ASSUME Before, NEW c \in Conns, HandleDeleteStream(c) \/ Disconnected(c)
  PROVE  LoopInv'
<1> USE DEF Before
<1>1. /\ CleanupConnection(c) /\ heard' = [heard EXCEPT ![c] = <<>>]
      /\ Open(c) /\ busy[LoopOf[c]] = Idle
      /\ UNCHANGED <<sessions, sent, strayed>>
  BY DEF HandleDeleteStream, Disconnected, Turn, Open
<1>2. /\ \A d \in Conns \ {c} : ctx'[d] = ctx[d] /\ tcp'[d] = tcp[d] /\ heard'[d] = heard[d]
      /\ ctx'[c].role = "kUnknown"
  <2>1. ctx'[c] = NewContext \/ ctx'[c] = [NewContext EXCEPT !.app = ctx[c].app]
    BY DEF HandleDeleteStream, Disconnected, Types
  <2>2. ctx'[c].role = "kUnknown"
    BY <2>1 DEF NewContext
  <2>3. \A d \in Conns \ {c} : ctx'[d] = ctx[d] /\ tcp'[d] = tcp[d] /\ heard'[d] = heard[d]
    BY DEF HandleDeleteStream, Disconnected, Types
  <2> QED
    BY <2>2, <2>3
<1>3. \A t \in Objects : InMap(t)' <=> InMap(t)
  BY <1>1 DEF InMap
<1>4. PICK l \in Loops : l = LoopOf[c]
  BY DEF Loops
<1>5. (\A m \in Loops : busy[m] = Idle) /\ \A t \in Objects : ~Held(t)
  BY <1>1, Idling
<1>6. ctx[c] \in Contexts
  BY DEF Types
<1>7. \A t \in Objects : \A role : Named(c, t) => StreamKey(ctx[c]) # None /\ sessions[StreamKey(ctx[c])] = t
  BY NoneIsNone DEF Named
<1>8. /\ \A t \in Objects : /\ SameCaches(obj[t], obj'[t])
                            /\ obj'[t].publisher \in {obj[t].publisher, None}
                            /\ obj'[t].players \subseteq obj[t].players
                            /\ obj[t].publisher # c => obj'[t].publisher = obj[t].publisher
                            /\ Held(t)' \/ obj'[t] = obj[t]
                            /\ ~InMap(t) => obj'[t] = obj[t]
                            /\ Member(c, t, "kPublisher") => obj'[t].publisher # c
                            /\ Member(c, t, "kPlayer") => c \notin obj'[t].players
      /\ Handlers'
      /\ \A m \in Loops : busy'[m].at \notin {"replay", "broadcast"}
  <2>1. CASE /\ StreamKey(ctx[c]) # None => sessions[StreamKey(ctx[c])] = None
             /\ UNCHANGED <<obj, busy>>
    <3>1. \A t \in Objects : ~Named(c, t)
      BY <1>7, <2>1, NoneIsNone
    <3>2. \A t \in Objects : SameCaches(obj[t], obj'[t])
      BY <2>1 DEF SameCaches
    <3>3. Handlers' /\ \A m \in Loops : busy'[m].at \notin {"replay", "broadcast"}
      BY <1>5, <2>1, IdleIs DEF Handlers
    <3> QED
      BY <2>1, <3>1, <3>2, <3>3 DEF Member
  <2>2. CASE /\ StreamKey(ctx[c]) # None /\ sessions[StreamKey(ctx[c])] # None
             /\ obj' = [obj EXCEPT ![sessions[StreamKey(ctx[c])]] = Without(@, c, ctx[c].role)]
             /\ busy' = [busy EXCEPT ![LoopOf[c]] =
                   [Idle EXCEPT !.at = "removeIfEmpty", !.conn = c, !.key = StreamKey(ctx[c]),
                                !.session = sessions[StreamKey(ctx[c])]]]
    <3>1. PICK k \in Keys : k = StreamKey(ctx[c])
      BY <1>6, <2>2, StreamKeyIs
    <3>2. PICK s \in Objects : s = sessions[k]
      BY <2>2, <3>1 DEF Types
    <3>3. obj[s] \in Sessions /\ InMap(s)
      BY <3>2 DEF Types, InMap
    <3>4. PICK role : role = ctx[c].role
      OBVIOUS
    <3>5. PICK o \in Sessions :
            /\ o = Without(obj[s], c, role) /\ SameCaches(obj[s], o)
            /\ o.publisher = IF role = "kPublisher" /\ obj[s].publisher = c THEN None
                             ELSE obj[s].publisher
            /\ o.players = IF role = "kPlayer" THEN obj[s].players \ {c} ELSE obj[s].players
      <4>1. IsWithout(obj[s], c, role, Without(obj[s], c, role))
        BY <3>3, WithoutIs, Zenon
      <4>2. PICK q : q = Without(obj[s], c, role)
        OBVIOUS
      <4>3. IsWithout(obj[s], c, role, q)
        BY <4>1, <4>2
      <4> QED
        BY <4>2, <4>3 DEF IsWithout
    <3>6. PICK j : /\ j = [Idle EXCEPT !.at = "removeIfEmpty", !.conn = c, !.key = k, !.session = s]
                   /\ j.at = "removeIfEmpty" /\ j.key = k /\ j.session = s
      <4>1. LET j == [Idle EXCEPT !.at = "removeIfEmpty", !.conn = c, !.key = k, !.session = s]
            IN  j.at = "removeIfEmpty" /\ j.key = k /\ j.session = s
        BY DEF Idle
      <4> QED
        BY <4>1, Zenon
    <3>7. obj' = [obj EXCEPT ![s] = o] /\ busy' = [busy EXCEPT ![l] = j]
      BY <1>4, <2>2, <3>1, <3>2, <3>4, <3>5, <3>6
    <3>8. \A t \in Objects : obj'[t] = IF t = s THEN o ELSE obj[t]
      BY <3>7 DEF Types
    <3>9. busy'[l] = j
      BY <3>7 DEF Types
    <3>10. (\A m \in Loops : busy'[m] = j) /\ \A t \in Objects : Held(t)' <=> t = s
      BY <3>6, <3>9, OneForAll
    <3>11. Handlers'
      <4>1. Handler(j)'
        BY <1>1, <1>3, <3>2, <3>3, <3>6 DEF Handler
      <4> QED
        BY <3>10, <4>1 DEF Handlers
    <3>12. \A t \in Objects : t # s => ~Member(c, t, "kPublisher") /\ ~Member(c, t, "kPlayer")
      BY <3>1, <3>2 DEF Member, Named
    <3>13. /\ Member(c, s, "kPublisher") => o.publisher # c
           /\ Member(c, s, "kPlayer") => c \notin o.players
      BY <3>4, <3>5, NoneIsNone DEF Member
    <3>14. \A t \in Objects : SameCaches(obj[t], obj'[t])
      BY <3>5, <3>8 DEF SameCaches
    <3> QED
      BY <3>3, <3>5, <3>6, <3>8, <3>10, <3>11, <3>12, <3>13, <3>14
  <2> QED
    BY <1>1, <2>1, <2>2 DEF CleanupConnection
<1>9. Registry'
  <2>1. \A t \in Objects : ~InMap(t)' => obj'[t] = NewSession
    BY <1>3, <1>8 DEF LoopInv, Registry
  <2> QED
    BY <1>1, <2>1 DEF LoopInv, Registry
<1>10. ASSUME NEW t \in Objects, c \notin strayed
       PROVE  obj'[t].publisher # c /\ c \notin obj'[t].players
  BY <1>8, <1>10, NoneIsNone DEF LoopInv, Members
<1>11. Members'
  <2>1. ASSUME NEW d \in Conns \ {c}, NEW t \in Objects, NEW role, Member(d, t, role)
        PROVE  Member(d, t, role)'
    <3>1. ctx'[d] = ctx[d] /\ tcp'[d] = tcp[d]
      BY <1>2
    <3> QED
      BY <1>1, <2>1, <3>1 DEF Member, Named, Open
  <2>2. ASSUME NEW d \in Conns \ strayed, NEW t \in Objects, obj'[t].publisher = d
        PROVE  Member(d, t, "kPublisher")'
    <3>1. d # c
      BY <1>10, <2>2
    <3>2. obj[t].publisher = d
      BY <1>8, <2>2, NoneIsNone
    <3> QED
      BY <2>1, <3>1, <3>2 DEF LoopInv, Members
  <2>3. ASSUME NEW d \in Conns \ strayed, NEW t \in Objects, d \in obj'[t].players
        PROVE  Member(d, t, "kPlayer")'
    <3>1. d # c
      BY <1>10, <2>3
    <3>2. d \in obj[t].players
      BY <1>8, <2>3
    <3> QED
      BY <2>1, <3>1, <3>2 DEF LoopInv, Members
  <2> QED
    BY <1>1, <2>2, <2>3 DEF Members
<1>12. NoneEmpty'
  BY <1>3, <1>5, <1>8 DEF LoopInv, NoneEmpty, Empty
<1>13. PublisherKept'
  <2> SUFFICES ASSUME NEW d \in Conns, NEW t \in Objects, Publishes(d, t)'
               PROVE  InMap(t)' /\ obj'[t].publisher = d
    BY DEF PublisherKept
  <2>1. d # c
    BY <1>2 DEF Publishes
  <2>2. Publishes(d, t)
    BY <1>2, <2>1 DEF Publishes, Open
  <2>3. InMap(t) /\ obj[t].publisher = d
    BY <2>2 DEF LoopInv, PublisherKept
  <2> QED
    BY <1>3, <1>8, <2>1, <2>3
<1>14. Players'
  <2> SUFFICES ASSUME NEW t \in Objects, NEW p \in obj'[t].players, tcp'[p] = "up", p \notin strayed
               PROVE  UpToDate(obj'[t], heard'[p])
    <3>1. \A m \in Loops : \A t, p : Soon(busy[m], t, p)' = heard'[p]
      BY <1>8 DEF Soon
    <3>2. strayed' = strayed
      BY <1>1
    <3> QED
      BY <3>1, <3>2 DEF Players
  <2>1. p \in Conns /\ p # c /\ p \in obj[t].players
    BY <1>8, <1>10 DEF Types, Sessions
  <2>2. heard'[p] = heard[p] /\ tcp[p] = "up"
    BY <1>2, <2>1
  <2>3. Soon(busy[l], t, p) = heard[p]
    BY <1>5, IdleIs, SoonIs
  <2>4. UpToDate(obj[t], heard[p])
    BY <2>1, <2>2, <2>3 DEF LoopInv, Players
  <2>5. SameCaches(obj[t], obj'[t])
    BY <1>8
  <2> QED
    BY <2>2, <2>4, <2>5, UpToDateSame
<1>15. Caches'
  BY <1>8 DEF LoopInv, Caches, CachesFrom, SameCaches
<1> QED
  BY <1>8, <1>9, <1>11, <1>12, <1>13, <1>14, <1>15 DEF LoopInv

(* removeIfEmpty: nobody is left in what is erased. *)
LEMMA RemoveLoop ==
  ASSUME Before, NEW l \in Loops, RemoveIfEmpty(l)
  PROVE  LoopInv'
<1> USE DEF Before
<1>1. busy[l].at = "removeIfEmpty" /\ Returns(l) /\ UNCHANGED <<tcp, ctx, sent, heard, strayed>>
  BY DEF RemoveIfEmpty
<1>2. PICK s \in Objects, k \in Keys : s = busy[l].session /\ k = busy[l].key /\ sessions[k] = s
  <2>1. Handler(busy[l])
    BY <1>1, BusyIs DEF LoopInv, Handlers
  <2>2. busy[l].session \in Objects
    BY <1>1, BusyIs
  <2> QED
    BY <1>1, <2>1, <2>2 DEF Handler
<1>3. /\ \A m \in Loops : busy[m] = busy[l] /\ busy'[m] = Idle
      /\ \A t \in Objects : (Held(t) <=> t = s) /\ ~Held(t)'
  <2>1. busy'[l] = Idle
    BY <1>1 DEF Returns, Types
  <2> QED
    BY <1>2, <2>1, OneForAll, IdleIs, NoneIsNone
<1>4. Handlers'
  BY <1>3 DEF Handlers
<1>5. \A m \in Loops : \A t, p : Soon(busy[m], t, p)' = heard[p] /\ Soon(busy[m], t, p) = heard[p]
  BY <1>1, <1>3, IdleIs DEF Soon
<1>6. CASE ~Removes(s) /\ UNCHANGED <<sessions, obj>>
  <2>1. Registry' /\ Members' /\ PublisherKept' /\ Caches'
    BY <1>1, <1>6
    DEF LoopInv, Registry, InMap, Members, Member, Named, Open, PublisherKept, Publishes, Caches
  <2>2. NoneEmpty'
    BY <1>3, <1>6 DEF LoopInv, NoneEmpty, Empty, InMap, Removes
  <2>3. Players'
    <3> SUFFICES ASSUME NEW t \in Objects, NEW p \in obj[t].players, tcp[p] = "up", p \notin strayed
                 PROVE  UpToDate(obj[t], heard[p])
      BY <1>1, <1>5, <1>6 DEF Players
    <3> QED
      BY <1>5 DEF LoopInv, Players
  <2> QED
    BY <1>4, <2>1, <2>2, <2>3 DEF LoopInv
<1>7. CASE /\ Removes(s) /\ sessions' = [sessions EXCEPT ![k] = None]
           /\ obj' = [obj EXCEPT ![s] = NewSession]
  <2>1. /\ \A i \in Keys : sessions'[i] = IF i = k THEN None ELSE sessions[i]
        /\ \A t \in Objects : obj'[t] = IF t = s THEN NewSession ELSE obj[t]
    BY <1>7 DEF Types
  <2>2. obj[s].publisher = None /\ obj[s].players = {}
    BY <1>7 DEF Removes, Empty
  <2>3. \A t \in Objects : InMap(t)' <=> InMap(t) /\ t # s
    <3> SUFFICES ASSUME NEW t \in Objects PROVE InMap(t)' <=> InMap(t) /\ t # s
      OBVIOUS
    <3>1. CASE t = s
      BY <1>2, <2>1, <3>1, NoneIsNone DEF LoopInv, Registry, InMap
    <3>2. CASE t # s
      BY <1>2, <2>1, <3>2, NoneIsNone DEF InMap
    <3> QED
      BY <3>1, <3>2
  <2>4. Registry'
    BY <2>1, <2>3 DEF LoopInv, Registry
  <2>5. Members'
    <3>1. ASSUME NEW d \in Conns, NEW t \in Objects, t # s, NEW role, Member(d, t, role)
          PROVE  Member(d, t, role)'
      BY <1>1, <1>2, <2>1, <3>1 DEF Member, Named, Open
    <3>2. ASSUME NEW d \in Conns \ strayed, NEW t \in Objects
          PROVE  /\ obj'[t].publisher = d => Member(d, t, "kPublisher")'
                 /\ d \in obj'[t].players => Member(d, t, "kPlayer")'
      <4>1. CASE t = s
        BY <2>1, <4>1, NewSessionOK, NoneIsNone
      <4>2. CASE t # s
        BY <2>1, <3>1, <4>2 DEF LoopInv, Members
      <4> QED
        BY <4>1, <4>2
    <3> QED
      BY <1>1, <3>2 DEF Members
  <2>6. NoneEmpty'
    BY <1>3, <2>1, <2>3 DEF LoopInv, NoneEmpty, Empty
  <2>7. PublisherKept'
    <3> SUFFICES ASSUME NEW d \in Conns, NEW t \in Objects, Publishes(d, t)'
                 PROVE  InMap(t)' /\ obj'[t].publisher = d
      BY DEF PublisherKept
    <3>1. Publishes(d, t)
      BY <1>1 DEF Publishes, Open
    <3>2. InMap(t) /\ obj[t].publisher = d
      BY <3>1 DEF LoopInv, PublisherKept
    <3> QED
      BY <2>1, <2>2, <2>3, <3>2, NoneIsNone
  <2>8. Players'
    <3> SUFFICES ASSUME NEW t \in Objects, NEW p \in obj'[t].players, tcp[p] = "up", p \notin strayed
                 PROVE  UpToDate(obj'[t], heard[p])
      BY <1>1, <1>5 DEF Players
    <3>1. t # s /\ obj'[t] = obj[t]
      BY <2>1, NewSessionOK
    <3> QED
      BY <1>5, <3>1 DEF LoopInv, Players
  <2>9. Caches'
    BY <2>1, NewSessionOK DEF LoopInv, Caches
  <2> QED
    BY <1>4, <2>4, <2>5, <2>6, <2>7, <2>8, <2>9 DEF LoopInv
<1> QED
  <2>1. ~\E m \in Loops \ {l} : busy[m].session = s
    BY DEF SingleLoop
  <2> QED
    BY <1>2, <1>6, <1>7, <2>1 DEF RemoveIfEmpty

(* No connection and no session yet. *)
LEMMA LoopInit == Init => LoopInv
<1> SUFFICES ASSUME Init PROVE LoopInv
  OBVIOUS
<1>1. /\ \A k \in Keys : sessions[k] = None
      /\ \A s \in Objects : obj[s] = NewSession
      /\ \A l \in Loops : busy[l] = Idle
      /\ \A c \in Conns : tcp[c] = "none"
  BY DEF Init
<1>2. \A s \in Objects : ~InMap(s)
  BY <1>1, NoneIsNone DEF InMap
<1>3. Registry /\ NoneEmpty /\ Handlers
  BY <1>1, <1>2 DEF Registry, NoneEmpty, Handlers
<1>4. Members /\ Players /\ Caches
  BY <1>1, NewSessionOK, NoneIsNone DEF Members, Players, Caches
<1>5. PublisherKept
  BY <1>1 DEF PublisherKept, Publishes, Open
<1> QED
  BY <1>3, <1>4, <1>5 DEF LoopInv

(* On a single loop every step keeps LoopInv. *)
LEMMA LoopNext ==
  MediaInv /\ MediaInv' /\ (SingleLoop => LoopInv) /\ [Next]_vars => (SingleLoop => LoopInv)'
<1> SUFFICES ASSUME MediaInv, MediaInv', LoopInv, SingleLoop, [Next]_vars
             PROVE  LoopInv'
  BY DEF SingleLoop, Loops
<1>1. Before
  BY MediaInvIs DEF Before
<1>2. ASSUME NEW c \in Conns, Command(c)
      PROVE  LoopInv'
  <2>1. ASSUME NEW name \in Names, HandlePublish(c, name) \/ HandlePlay(c, name)
        PROVE  LoopInv'
    BY <1>1, <2>1, LookUpLoop DEF HandlePublish, HandlePlay
  <2> QED
    BY <1>1, <1>2, <2>1, PlainCommandLoop, LeaveLoop, MediaLoop DEF Command
<1>3. ASSUME NEW l \in Loops, Continue(l)
      PROVE  LoopInv'
  BY <1>1, <1>3, PublishTestLoop, AssignPublisherLoop, AddPlayerLoop, ReplayLoop, BroadcastLoop,
     RemoveLoop DEF Continue
<1>4. CASE UNCHANGED vars
  <2>1. Registry' /\ NoneEmpty' /\ Members' /\ PublisherKept' /\ Caches'
    BY <1>4 DEF vars, LoopInv, Registry, NoneEmpty, Empty, InMap, Held, Members, Member, Named, Open,
                PublisherKept, Publishes, Caches
  <2>2. Players'
    <3>1. \A l \in Loops : \A s, p : Soon(busy[l], s, p)' = Soon(busy[l], s, p)
      BY <1>4 DEF vars, Soon
    <3> QED
      BY <1>4, <3>1 DEF vars, LoopInv, Players
  <2>3. Handlers'
    BY <1>4 DEF vars, LoopInv, Handlers, Handler, InMap, Open, Named, MayPublish
  <2> QED
    BY <2>1, <2>2, <2>3 DEF LoopInv
<1> QED
  BY <1>2, <1>3, <1>4 DEF Next

(* LoopInv holds in every reachable state of a server with one I/O loop. *)
THEOREM LoopInvHolds == Spec => [](SingleLoop => LoopInv)
<1>1. Init => (SingleLoop => LoopInv)
  BY LoopInit
<1> QED
  BY <1>1, LoopNext, MediaInvHolds, PTL DEF Spec

(* On one I/O loop a connection that was told that it publishes stays the    *)
(* publisher of a session in the registry (RtmpSession::setPublisher,        *)
(* RtmpServer::cleanupConnection).                                           *)
THEOREM PublisherAlwaysKept == Spec => [](SingleLoop => PublisherKept)
<1>1. (SingleLoop => LoopInv) => (SingleLoop => PublisherKept)
  BY DEF LoopInv
<1> QED
  BY <1>1, LoopInvHolds, PTL

(* On one I/O loop no two connections are told that they publish the same     *)
(* stream (RtmpSession::setPublisher tests and assigns with no handler of     *)
(* another connection in between).                                            *)
THEOREM AlwaysOnePublisher == Spec => [](SingleLoop => OnePublisher)
<1>1. (SingleLoop => LoopInv) => (SingleLoop => OnePublisher)
  BY DEF LoopInv, PublisherKept, OnePublisher
<1> QED
  BY <1>1, LoopInvHolds, PTL

(* On one I/O loop no session without publisher and players is left in the   *)
(* registry (RtmpSessionManager::removeIfEmpty).                             *)
THEOREM NeverEmptySession == Spec => [](SingleLoop => NoEmptySession)
<1>1. MediaInv /\ (SingleLoop => LoopInv) => (SingleLoop => NoEmptySession)
  BY DEF MediaInv, LoopInv, NoneEmpty, NoEmptySession
<1> QED
  BY <1>1, MediaInvHolds, LoopInvHolds, PTL

(* On one I/O loop what a session would replay comes from its publisher      *)
(* (RtmpSession::setPublisher clears the caches).                            *)
THEOREM CachesAlwaysOfPublisher == Spec => [](SingleLoop => CachesOfPublisher)
<1>1. MediaInv /\ (SingleLoop => LoopInv) => (SingleLoop => CachesOfPublisher)
  <2> SUFFICES ASSUME MediaInv, LoopInv, NEW s \in Objects, obj[s].publisher # None,
                      NEW i \in 1 .. Len(Cached(obj[s]))
               PROVE  Cached(obj[s])[i].from = obj[s].publisher
    BY DEF CachesOfPublisher
  <2>1. obj[s] \in Sessions /\ CachesFrom(obj[s])
    BY MediaInvIs DEF Types, LoopInv, Caches
  <2>2. PICK o \in Sessions : o = obj[s] /\ CachesFrom(o) /\ o.publisher # None
    BY <2>1
  <2>3. PICK h : HeadersOf(o, h) /\ Cached(o) = h \o o.gop
    BY CachedAre
  <2>4. h \in Seq(Messages) /\ o.gop \in Seq(Messages)
    BY <2>3 DEF HeadersOf, Sessions
  <2>5. PICK z \in Seq(Messages) :
          /\ z = h \o o.gop
          /\ \A n \in 1 .. Len(h) : z[n] = h[n]
          /\ \A n \in 1 .. Len(o.gop) : z[Len(h) + n] = o.gop[n]
          /\ \A n \in 1 .. Len(z) : n \in 1 .. Len(h) \/ n - Len(h) \in 1 .. Len(o.gop)
          /\ Len(h) \in Nat
    BY <2>4, Joined, Zenon
  <2>6. i \in 1 .. Len(z) /\ Cached(obj[s])[i] = z[i]
    BY <2>2, <2>3, <2>5
  <2>7. CASE i \in 1 .. Len(h)
    <3>1. PICK k \in HeaderKinds : h[i] = o.header[k] /\ o.header[k] # None
      BY <2>3, <2>7 DEF HeadersOf
    <3>2. o.header[k].from = o.publisher
      BY <2>2, <3>1 DEF CachesFrom
    <3>3. z[i] = o.header[k]
      BY <2>5, <2>7, <3>1
    <3> QED
      BY <2>2, <2>6, <3>2, <3>3
  <2>8. CASE i - Len(h) \in 1 .. Len(o.gop)
    <3>1. z[i] = o.gop[i - Len(h)]
      BY <2>5, <2>6, <2>8
    <3> QED
      BY <2>2, <2>6, <2>8, <3>1 DEF CachesFrom
  <2> QED
    BY <2>5, <2>6, <2>7, <2>8
<1> QED
  BY <1>1, MediaInvHolds, LoopInvHolds, PTL

(* On one I/O loop every player that followed the protocol is up to date     *)
(* whenever no handler is at work on its session: it was sent every cached   *)
(* header and the frames since the last key frame, each of them once and in  *)
(* order (RtmpConnection::handlePlay, RtmpSession::broadcastMessage).        *)
THEOREM PlayersAlwaysUpToDate == Spec => [](SingleLoop => PlayersUpToDate)
<1>1. MediaInv /\ (SingleLoop => LoopInv) => (SingleLoop => PlayersUpToDate)
  <2> SUFFICES ASSUME MediaInv, LoopInv, NEW s \in Objects, NEW p \in obj[s].players,
                      ~Held(s), tcp[p] = "up", p \notin strayed
               PROVE  UpToDate(obj[s], heard[p])
    BY DEF PlayersUpToDate
  <2>1. p \in Conns
    BY MediaInvIs DEF Types, Sessions
  <2>2. PICK l \in Loops : l = LoopOf[p]
    BY <2>1 DEF Loops
  <2>3. busy[l].session # s
    BY DEF Held
  <2>4. Soon(busy[l], s, p) = heard[p]
    BY <2>3 DEF Soon
  <2> QED
    BY <2>4 DEF LoopInv, Players
<1> QED
  BY <1>1, MediaInvHolds, LoopInvHolds, PTL
==============================================================================
