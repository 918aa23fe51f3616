----------------------------- MODULE RtmpSessions -----------------------------
(***************************************************************************)
(* The streams of an RTMP server: RtmpServer's registry of sessions, the    *)
(* publisher, players and caches of an RtmpSession, and the commands of     *)
(* RtmpConnection that use them.                                            *)
(*                                                                         *)
(* A connection's messages are handled on its I/O loop, one after the       *)
(* other.  mutex_ covers the registry only: a handler that has looked up a  *)
(* session goes on without it, and the handlers of two loops interleave     *)
(* between their statements.  (What a torn std::unordered_map or shared_ptr *)
(* would do is not modelled.)                                               *)
(***************************************************************************)
EXTENDS Naturals, Sequences

CONSTANTS
  Conns,         \* TcpConnections, each of them established at most once
  LoopOf,        \* the I/O loop of a connection
  Apps, Names,   \* what connect, publish and play name
  Kinds,         \* the kinds of media messages that publishers send
  MaxMedia,      \* bound: media messages in a behaviour
  MaxSessions,   \* bound: RtmpSession objects at a time
  None

HeaderKinds == {"metadata", "aac", "avc"}
FrameKinds == {"key", "inter", "audio"}

ASSUME SessionsAssumption ==
  /\ None \notin Conns /\ None \notin Apps /\ None \notin Names
  /\ None \notin Apps \X Names /\ None \notin 1 .. MaxSessions
  /\ None \notin [from : Conns, n : 1 .. MaxMedia, kind : Kinds]
  /\ Kinds \subseteq HeaderKinds \cup FrameKinds
  /\ MaxMedia \in Nat /\ MaxSessions \in Nat

VARIABLES
  tcp,        \* per connection: "none", "up", "closing" (after shutdown()), "down"
  ctx,        \* per connection, its RtmpConnectionContext
  sessions,   \* sessions_: per stream key, an object or None
  obj,        \* the RtmpSession objects
  busy,       \* per loop, the handler it is in
  sent,       \* number of media messages so far
  heard,      \* per connection, the media messages sent to it since it began to play
  strayed     \* connections that gave a connect, publish or play while they had a role

vars == <<tcp, ctx, sessions, obj, busy, sent, heard, strayed>>

Loops == {LoopOf[c] : c \in Conns}
Keys == Apps \X Names
Objects == 1 .. MaxSessions

NewContext == [app |-> None, name |-> None, stream |-> FALSE, role |-> "kUnknown",
               session |-> None]

NewSession == [publisher |-> None, players |-> {}, header |-> [k \in HeaderKinds |-> None],
               gop |-> <<>>, started |-> FALSE]

Idle == [at |-> "idle", conn |-> None, key |-> None, session |-> None, msg |-> None]

Init ==
  /\ tcp = [c \in Conns |-> "none"]
  /\ ctx = [c \in Conns |-> NewContext]
  /\ sessions = [k \in Keys |-> None]
  /\ obj = [s \in Objects |-> NewSession]
  /\ busy = [l \in Loops |-> Idle]
  /\ sent = 0
  /\ heard = [c \in Conns |-> <<>>]
  /\ strayed = {}

-----------------------------------------------------------------------------
(* Contexts and sessions.                                                   *)

(* RtmpConnectionContext::streamKey, None when a part is empty. *)
StreamKey(x) == IF x.app = None \/ x.name = None THEN None ELSE <<x.app, x.name>>

InMap(s) == \E k \in Keys : sessions[k] = s
Held(s) == \E l \in Loops : busy[l].session = s

(* Who owns a session: the registry and the handlers at work on it; a       *)
(* context has a weak_ptr only.                                             *)
Exists(s) == InMap(s) \/ Held(s)

(* context->session() is not null. *)
Bound(c) == ctx[c].session # None /\ Exists(ctx[c].session)

(* mutex_ is held across the two steps of cleanupConnection only. *)
Locked == \E l \in Loops : busy[l].at = "removeIfEmpty"

(* RtmpSession::empty *)
Empty(s) == obj[s].publisher = None /\ obj[s].players = {}

(* Objects that a new session may be: no weak_ptr of an open connection     *)
(* still refers to them.                                                    *)
Free == {s \in Objects : ~Exists(s) /\ \A c \in Conns : ctx[c].session # s}

(* RtmpSessionManager::getOrCreate *)
SessionFor(k) ==
  IF sessions[k] # None THEN sessions[k] ELSE CHOOSE s \in Free : TRUE

(* The loop of c takes its next message, which c sent while it was open.    *)
Turn(c) == tcp[c] \in {"up", "closing"} /\ busy[LoopOf[c]] = Idle

(* A handler returns false: conn->shutdown(). *)
ShutDown(c) == tcp' = [tcp EXCEPT ![c] = IF @ = "up" THEN "closing" ELSE @]

Strays(c) == strayed' = IF ctx[c].role = "kUnknown" THEN strayed ELSE strayed \cup {c}

Returns(l) == busy' = [busy EXCEPT ![l] = Idle]

Goes(l, at) == busy' = [busy EXCEPT ![l].at = at]

-----------------------------------------------------------------------------
(* The commands before a stream.                                            *)

(* onConnection, connected *)
Connected(c) ==
  /\ tcp[c] = "none" /\ busy[LoopOf[c]] = Idle
  /\ tcp' = [tcp EXCEPT ![c] = "up"]
  /\ ctx' = [ctx EXCEPT ![c] = NewContext]
  /\ UNCHANGED <<sessions, obj, busy, sent, heard, strayed>>

(* The app may be empty, which is None. *)
HandleConnect(c, app) ==
  /\ Turn(c)
  /\ ctx' = [ctx EXCEPT ![c].app = app]
  /\ Strays(c)
  /\ UNCHANGED <<tcp, sessions, obj, busy, sent, heard>>

HandleCreateStream(c) ==
  /\ Turn(c)
  /\ ctx' = [ctx EXCEPT ![c].stream = TRUE]
  /\ UNCHANGED <<tcp, sessions, obj, busy, sent, heard, strayed>>

(* Any message that a handler refuses before it has changed anything: one   *)
(* that cannot be decoded, lacks an argument or a stream, names another     *)
(* stream id, or is media without a bound session.                          *)
Refused(c) ==
  /\ Turn(c)
  /\ ShutDown(c)
  /\ UNCHANGED <<ctx, sessions, obj, busy, sent, heard, strayed>>

-----------------------------------------------------------------------------
(* publish and play.                                                        *)

(* Both name the stream; without a key or a valid ticket that is all they   *)
(* do.                                                                      *)
StreamRefused(c, name) ==
  /\ Turn(c) /\ ctx[c].stream
  /\ ctx' = [ctx EXCEPT ![c].name = name]
  /\ Strays(c)
  /\ ShutDown(c)
  /\ UNCHANGED <<sessions, obj, busy, sent, heard>>

(* The authorised ones look their session up, under mutex_; next says       *)
(* which of the two goes on.                                                *)
GetOrCreateSession(c, name, next) ==
  LET x == [ctx[c] EXCEPT !.name = name]
      k == StreamKey(x)
      s == SessionFor(k)
  IN
  /\ Turn(c) /\ ctx[c].stream /\ k # None /\ ~Locked
  /\ sessions[k] # None \/ Free # {}
  /\ ctx' = [ctx EXCEPT ![c] = x]
  /\ sessions' = [sessions EXCEPT ![k] = s]
  /\ obj' = IF sessions[k] = None THEN [obj EXCEPT ![s] = NewSession] ELSE obj
  /\ busy' = [busy EXCEPT ![LoopOf[c]] = [Idle EXCEPT !.at = next, !.conn = c, !.session = s]]
  /\ Strays(c)
  /\ UNCHANGED <<tcp, sent, heard>>

HandlePublish(c, name) == GetOrCreateSession(c, name, "setPublisher")

HandlePlay(c, name) == GetOrCreateSession(c, name, "addPlayer")

(* Mutant: whoever comes last is the publisher. *)
MayPublishAlways(s, c) == TRUE

(* The test at the head of setPublisher. *)
MayPublish(s, c) == obj[s].publisher \in {None, c}

(* setPublisher finds another publisher: the command is answered, no more. *)
PublishRejected(l) ==
  /\ busy[l].at = "setPublisher" /\ ~MayPublish(busy[l].session, busy[l].conn)
  /\ Returns(l)
  /\ UNCHANGED <<tcp, ctx, sessions, obj, sent, heard, strayed>>

PublishAllowed(l) ==
  /\ busy[l].at = "setPublisher" /\ MayPublish(busy[l].session, busy[l].conn)
  /\ Goes(l, "assignPublisher")
  /\ UNCHANGED <<tcp, ctx, sessions, obj, sent, heard, strayed>>

(* Mutant: the caches of the publisher before are kept. *)
PublishedByKeeping(o, c) == [o EXCEPT !.publisher = c]

(* The rest of setPublisher: a new publisher starts with empty caches. *)
PublishedBy(o, c) ==
  IF o.publisher = c THEN o ELSE [NewSession EXCEPT !.publisher = c, !.players = o.players]

AssignPublisher(l) ==
  LET c == busy[l].conn  s == busy[l].session IN
  /\ busy[l].at = "assignPublisher"
  /\ obj' = [obj EXCEPT ![s] = PublishedBy(@, c)]
  /\ ctx' = [ctx EXCEPT ![c].role = "kPublisher", ![c].session = s]
  /\ Returns(l)
  /\ UNCHANGED <<tcp, sessions, sent, heard, strayed>>

AddPlayer(l) ==
  LET c == busy[l].conn  s == busy[l].session IN
  /\ busy[l].at = "addPlayer"
  /\ obj' = [obj EXCEPT ![s].players = @ \cup {c}]
  /\ ctx' = [ctx EXCEPT ![c].role = "kPlayer", ![c].session = s]
  /\ heard' = [heard EXCEPT ![c] = <<>>]
  /\ Goes(l, "replay")
  /\ UNCHANGED <<tcp, sessions, sent, strayed>>

IfAny(m) == IF m = None THEN <<>> ELSE <<m>>

(* Mutant: the frames are left out. *)
CachedHeaders(o) ==
  IfAny(o.header["metadata"]) \o IfAny(o.header["aac"]) \o IfAny(o.header["avc"])

(* What replayCachedMessagesToPlayer sends, in this order. *)
Cached(o) ==
  IfAny(o.header["metadata"]) \o IfAny(o.header["aac"]) \o IfAny(o.header["avc"]) \o o.gop

(* Mutant: nothing is replayed to a player that was sent something already. *)
ReplayToSilent(l) ==
  LET c == busy[l].conn IN
  /\ busy[l].at = "replay"
  /\ heard' = IF tcp[c] = "up" /\ heard[c] = <<>>
              THEN [heard EXCEPT ![c] = Cached(obj[busy[l].session])] ELSE heard
  /\ Returns(l)
  /\ UNCHANGED <<tcp, ctx, sessions, obj, sent, strayed>>

Replay(l) ==
  LET c == busy[l].conn IN
  /\ busy[l].at = "replay"
  /\ heard' = IF tcp[c] = "up" THEN [heard EXCEPT ![c] = @ \o Cached(obj[busy[l].session])]
                               ELSE heard
  /\ Returns(l)
  /\ UNCHANGED <<tcp, ctx, sessions, obj, sent, strayed>>

-----------------------------------------------------------------------------
(* Media.                                                                   *)

(* An AVC sequence header is marked as a key frame, too. *)
IsVideoKeyFrame(m) == m.kind \in {"key", "avc"}

(* Mutant: the key frame is looked for first. *)
CacheMediaMessageKeyFirst(o, m) ==
  IF IsVideoKeyFrame(m) THEN [o EXCEPT !.gop = <<m>>, !.started = TRUE]
  ELSE IF m.kind \in HeaderKinds THEN [o EXCEPT !.header[m.kind] = m]
  ELSE IF o.started THEN [o EXCEPT !.gop = Append(@, m)] ELSE o

(* RtmpSession::cacheMediaMessage *)
CacheMediaMessage(o, m) ==
  IF m.kind \in HeaderKinds THEN [o EXCEPT !.header[m.kind] = m]
  ELSE IF IsVideoKeyFrame(m) THEN [o EXCEPT !.gop = <<m>>, !.started = TRUE]
  ELSE IF o.started THEN [o EXCEPT !.gop = Append(@, m)] ELSE o

HandleMediaMessage(c, kind) ==
  LET m == [from |-> c, n |-> sent + 1, kind |-> kind]
      s == ctx[c].session
  IN
  /\ Turn(c) /\ ctx[c].role = "kPublisher" /\ Bound(c) /\ sent < MaxMedia
  /\ sent' = sent + 1
  /\ obj' = [obj EXCEPT ![s] = CacheMediaMessage(@, m)]
  /\ busy' = [busy EXCEPT ![LoopOf[c]] =
                [Idle EXCEPT !.at = "broadcast", !.conn = c, !.session = s, !.msg = m]]
  /\ UNCHANGED <<tcp, ctx, sessions, heard, strayed>>

(* RtmpSession::broadcastMessage: players that are not connected any more   *)
(* are dropped.                                                             *)
BroadcastMessage(l) ==
  LET s == busy[l].session
      live == {p \in obj[s].players : tcp[p] = "up"}
  IN
  /\ busy[l].at = "broadcast"
  /\ obj' = [obj EXCEPT ![s].players = live]
  /\ heard' = [p \in Conns |-> IF p \in live THEN Append(heard[p], busy[l].msg) ELSE heard[p]]
  /\ Returns(l)
  /\ UNCHANGED <<tcp, ctx, sessions, sent, strayed>>

-----------------------------------------------------------------------------
(* deleteStream and close.                                                  *)

(* Mutants: the publisher is reset whoever it is; players stay. *)
WithoutAnyPublisher(o, c, role) ==
  CASE role = "kPublisher" -> [o EXCEPT !.publisher = None]
    [] role = "kPlayer" -> [o EXCEPT !.players = @ \ {c}]
    [] OTHER -> o
WithoutPublisherOnly(o, c, role) ==
  IF role = "kPublisher" /\ o.publisher = c THEN [o EXCEPT !.publisher = None] ELSE o

(* A session after clearPublisher or removePlayer, by role. *)
Without(o, c, role) ==
  CASE role = "kPublisher" /\ o.publisher = c -> [o EXCEPT !.publisher = None]
    [] role = "kPlayer" -> [o EXCEPT !.players = @ \ {c}]
    [] OTHER -> o

(* Mutant: no clean-up while another loop has mutex_. *)
CleanupConnectionTry(c) ==
  LET k == StreamKey(ctx[c]) IN
  \/ /\ k # None => Locked \/ sessions[k] = None
     /\ UNCHANGED <<obj, busy>>
  \/ /\ k # None /\ ~Locked /\ sessions[k] # None
     /\ obj' = [obj EXCEPT ![sessions[k]] = Without(@, c, ctx[c].role)]
     /\ busy' = [busy EXCEPT ![LoopOf[c]] =
                   [Idle EXCEPT !.at = "removeIfEmpty", !.conn = c, !.key = k,
                                !.session = sessions[k]]]

(* cleanupConnection up to removeIfEmpty. *)
CleanupConnection(c) ==
  LET k == StreamKey(ctx[c]) IN
  \/ /\ k # None => ~Locked /\ sessions[k] = None
     /\ UNCHANGED <<obj, busy>>
  \/ /\ k # None /\ ~Locked /\ sessions[k] # None
     /\ obj' = [obj EXCEPT ![sessions[k]] = Without(@, c, ctx[c].role)]
     /\ busy' = [busy EXCEPT ![LoopOf[c]] =
                   [Idle EXCEPT !.at = "removeIfEmpty", !.conn = c, !.key = k,
                                !.session = sessions[k]]]

HandleDeleteStream(c) ==
  /\ Turn(c) /\ ctx[c].role # "kUnknown" /\ Bound(c)
  /\ CleanupConnection(c)
  /\ ctx' = [ctx EXCEPT ![c] = [NewContext EXCEPT !.app = ctx[c].app]]
  /\ heard' = [heard EXCEPT ![c] = <<>>]
  /\ UNCHANGED <<tcp, sessions, sent, strayed>>

(* onConnection, not connected any more; nobody reads the context again.    *)
Disconnected(c) ==
  /\ Turn(c)
  /\ tcp' = [tcp EXCEPT ![c] = "down"]
  /\ CleanupConnection(c)
  /\ ctx' = [ctx EXCEPT ![c] = NewContext]
  /\ heard' = [heard EXCEPT ![c] = <<>>]
  /\ UNCHANGED <<sessions, sent, strayed>>

(* Mutant: the session stays. *)
RemovesNever(s) == FALSE

Removes(s) == Empty(s)

(* An erased session is destroyed unless the handler of another loop has it. *)
RemoveIfEmpty(l) ==
  LET s == busy[l].session IN
  /\ busy[l].at = "removeIfEmpty"
  /\ \/ ~Removes(s) /\ UNCHANGED <<sessions, obj>>
     \/ /\ Removes(s)
        /\ sessions' = [sessions EXCEPT ![busy[l].key] = None]
        /\ obj' = IF \E m \in Loops \ {l} : busy[m].session = s
                  THEN obj ELSE [obj EXCEPT ![s] = NewSession]
  /\ Returns(l)
  /\ UNCHANGED <<tcp, ctx, sent, heard, strayed>>

-----------------------------------------------------------------------------
Command(c) ==
  \/ Connected(c) \/ Disconnected(c) \/ Refused(c)
  \/ HandleCreateStream(c) \/ HandleDeleteStream(c)
  \/ \E app \in Apps \cup {None} : HandleConnect(c, app)
  \/ \E name \in Names : StreamRefused(c, name) \/ HandlePublish(c, name) \/ HandlePlay(c, name)
  \/ \E kind \in Kinds : HandleMediaMessage(c, kind)

Continue(l) ==
  \/ PublishRejected(l) \/ PublishAllowed(l) \/ AssignPublisher(l)
  \/ AddPlayer(l) \/ Replay(l) \/ BroadcastMessage(l) \/ RemoveIfEmpty(l)

Next == (\E c \in Conns : Command(c)) \/ (\E l \in Loops : Continue(l))

Spec == Init /\ [][Next]_vars

-----------------------------------------------------------------------------
(* Properties.                                                              *)

Messages == [from : Conns, n : 1 .. MaxMedia, kind : Kinds]

(* Every variable has the type its C++ counterpart has; a handler past its  *)
(* look-up has a session.                                                   *)
TypeOK ==
  /\ tcp \in [Conns -> {"none", "up", "closing", "down"}]
  /\ ctx \in [Conns -> [app : Apps \cup {None}, name : Names \cup {None}, stream : BOOLEAN,
                        role : {"kUnknown", "kPublisher", "kPlayer"},
                        session : Objects \cup {None}]]
  /\ sessions \in [Keys -> Objects \cup {None}]
  /\ obj \in [Objects -> [publisher : Conns \cup {None}, players : SUBSET Conns,
                          header : [HeaderKinds -> Messages \cup {None}],
                          gop : Seq(Messages), started : BOOLEAN]]
  /\ busy \in [Loops -> {Idle} \cup
                       [at : {"setPublisher", "assignPublisher", "addPlayer", "replay",
                              "broadcast", "removeIfEmpty"},
                        conn : Conns, key : Keys \cup {None}, session : Objects,
                        msg : Messages \cup {None}]]
  /\ sent \in 0 .. MaxMedia
  /\ heard \in [Conns -> Seq(Messages)]
  /\ strayed \subseteq Conns

Open(c) == tcp[c] \in {"up", "closing"}

Publishes(c, s) == Open(c) /\ ctx[c].role = "kPublisher" /\ ctx[c].session = s

(* A stream has one publisher: no two open connections were both told that  *)
(* they publish it.                                                         *)
OnePublisher ==
  \A s \in Objects : \A c, d \in Conns :
    Exists(s) /\ Publishes(c, s) /\ Publishes(d, s) => c = d

(* A connection that was told that it publishes keeps its session: the      *)
(* registry has it, and has this connection as its publisher, whatever      *)
(* others, and this connection under other names, ask for.                  *)
PublisherKept ==
  \A c \in Conns : \A s \in Objects :
    Publishes(c, s) => InMap(s) /\ obj[s].publisher = c

Referenced(c) ==
  \E s \in Objects : Exists(s) /\ ~Held(s) /\ (obj[s].publisher = c \/ c \in obj[s].players)

(* A closed connection, and with it its socket, is held by no session. *)
NoDirtyReference == \A c \in Conns : tcp[c] = "down" => ~Referenced(c)

(* The same of every connection that never gave a connect, publish or play  *)
(* while it was publishing or playing.                                      *)
CleanedUp == \A c \in Conns : tcp[c] = "down" => c \in strayed \/ ~Referenced(c)

(* A session that no handler works on has a publisher or a player: the      *)
(* registry does not fill with dead streams.  (Checked with it: the types.) *)
NoEmptySession == TypeOK /\ \A s \in Objects : InMap(s) /\ ~Held(s) => ~Empty(s)

(* On several loops a session may be empty for longer, but while nobody     *)
(* strays the registry has none that is forgotten: a handler works on it,   *)
(* or an open connection is bound to it and names its key, so that the      *)
(* clean-up of that connection finds it.                                    *)
NoDeadSession ==
  strayed = {} =>
    \A k \in Keys :
      sessions[k] = None \/ Held(sessions[k])
      \/ \E c \in Conns : Open(c) /\ ctx[c].session = sessions[k] /\ StreamKey(ctx[c]) = k

(* What a publisher's session would replay to a new player comes from that  *)
(* publisher, not from the one before.                                      *)
CachesOfPublisher ==
  \A s \in Objects :
    Exists(s) /\ obj[s].publisher # None =>
      \A i \in 1 .. Len(Cached(obj[s])) : Cached(obj[s])[i].from = obj[s].publisher

(* The cached group of pictures begins with a key frame and has no other. *)
GopFromKeyFrame ==
  \A s \in Objects :
    Exists(s) => /\ obj[s].started <=> obj[s].gop # <<>>
                 /\ \A i \in 1 .. Len(obj[s].gop) : obj[s].gop[i].kind = "key" <=> i = 1

Hears(h, m) == \E i \in 1 .. Len(h) : h[i] = m
IsFrame(m) == m.kind \in FrameKinds

(* The frames of h go up in the order in which they were published. *)
FramesInOrder(h) ==
  \A i, j \in 1 .. Len(h) : i < j /\ IsFrame(h[i]) /\ IsFrame(h[j]) => h[i].n < h[j].n

(* Whoever was sent h has all that the session o caches. *)
HearsCached(o, h) ==
  /\ \A i \in 1 .. Len(o.gop) : Hears(h, o.gop[i])
  /\ \A k \in HeaderKinds : o.header[k] # None => Hears(h, o.header[k])

(* And since the last key frame it has no other frames. *)
UpToDate(o, h) ==
  /\ FramesInOrder(o.gop) /\ FramesInOrder(h)
  /\ HearsCached(o, h)
  /\ o.gop # <<>> =>
       \A i \in 1 .. Len(h) :
         IsFrame(h[i]) /\ h[i].n >= o.gop[1].n => Hears(o.gop, h[i])

(* A player that joined late has what one that was there from the start     *)
(* has: every cached header, and as the last frames sent to it exactly the  *)
(* frames since the last key frame, without a gap and without a repetition. *)
PlayersUpToDate ==
  \A s \in Objects : \A p \in obj[s].players :
    InMap(s) /\ ~Held(s) /\ tcp[p] = "up" /\ p \notin strayed => UpToDate(obj[s], heard[p])

(* On several loops media may come between addPlayer and the replay, or the *)
(* replay between caching and broadcast: the player is then sent a frame    *)
(* twice, or out of order, but none of the cached ones is missed.           *)
NothingMissed ==
  \A s \in Objects : \A p \in obj[s].players :
    InMap(s) /\ ~Held(s) /\ tcp[p] = "up" /\ p \notin strayed => HearsCached(obj[s], heard[p])
==============================================================================
