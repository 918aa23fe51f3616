------------------------------ MODULE RtmpChunks ------------------------------
(* The receiving half of an RTMP connection: RtmpHandshake, RtmpChunkParser *)
(* and the loop of RtmpConnection::onMessage, on a byte stream that TCP cuts *)
(* anywhere.  The peer interleaves the chunks of several chunk streams, or   *)
(* encodes with this library's RtmpChunkWriter.                              *)
EXTENDS Integers, Sequences

CONSTANTS Csids,            \* chunk stream ids the peer uses
          Lengths,          \* lengths of its media messages
          Times,            \* timestamps and timestamp deltas it sends
          ChunkSizes,       \* values of its Set Chunk Size messages
          kDefaultChunkSize,
          C0C1Size,         \* kC0C1Size, 1537 in the code
          PacketSize,       \* kHandshakePacketSize, 1536 in the code
          ExtMark,          \* 0xFFFFFF: from here on the timestamp is extended
          TimeMod,          \* 2^32, the width of a timestamp
          MaxMessages,      \* bound: messages of the peer
          Window            \* bound: chunks under way

ASSUME CsidsAssumption == Csids \subseteq {csid \in Nat : csid >= 2 /\ csid <= 65599}
ASSUME SizesAssumption ==
  /\ ChunkSizes \subseteq Nat \ {0} /\ kDefaultChunkSize \in Nat \ {0}
  /\ Lengths \subseteq Nat
  /\ C0C1Size \in Nat \ {0} /\ PacketSize \in Nat \ {0}
ASSUME TimesAssumption ==
  /\ TimeMod \in Nat \ {0} /\ ExtMark \in 1 .. TimeMod /\ Times \subseteq 0 .. TimeMod - 1
ASSUME BoundsAssumption == MaxMessages \in Nat /\ Window \in Nat

(* What a message is about: the size that a Set Chunk Size message carries   *)
(* in its four bytes, or Media for any other message.                         *)
Media == 0

Kinds == {Media} \cup ChunkSizes

VARIABLES
  \* the peer, and the bytes between it and the server
  version,     \* is the version byte of C0 the one the server knows?
  talk,        \* per chunk stream, the header and the rest of the message the peer is sending
  peerSize,    \* the peer's chunk size
  sent,        \* history: the messages the peer sent completely
  started,     \* history: how many messages it began
  net,         \* chunks sent and not yet parsed
  coming,      \* bytes sent that have not arrived
  \* the server
  arrived,     \* readable bytes of inputBuffer_
  handshake,   \* state_ of RtmpHandshake
  replies,     \* how many S0S1S2 were sent
  streams,     \* chunkStreams_
  inChunkSize, \* inChunkSize_
  messages,    \* the messages of this call of onMessage that wait for handleMessage
  past,        \* history: the messages that left the batch, handled or dropped
  dropped,     \* history: the places in past of those that were dropped
  stale,       \* history: was the last Set Chunk Size of the past dropped?
  drifted,     \* history: chunk streams whose timestamp a second parse of a header moved
  resized,     \* history: did the last call change the chunk size with bytes left unparsed?
  pc           \* "idle", "parse", "handle", "failed"; "lateSize", "staleSize", "noExt", "other": lost the chunk boundary

peerVars == <<version, talk, peerSize, sent, started>>
parserVars == <<handshake, replies, streams, inChunkSize, messages, past, dropped, stale, drifted, resized>>
vars == <<peerVars, parserVars, net, coming, arrived, pc>>

-----------------------------------------------------------------------------
(* The bytes of a chunk.                                                      *)

(* The basic header: two bits of fmt and the chunk stream id in one to three bytes. *)
appendBasicHeader(fmt, csid) ==
  CASE csid < 64  -> <<fmt * 64 + csid>>
    [] csid >= 64 /\ csid < 320 -> <<fmt * 64, csid - 64>>
    [] OTHER -> <<fmt * 64 + 1, (csid - 64) % 256, ((csid - 64) \div 256) % 256>>

FmtOf(basic) == basic[1] \div 64

(* The size of a basic header, told from its first byte. *)
BasicSize(first) == CASE first % 64 = 0 -> 2 [] first % 64 = 1 -> 3 [] OTHER -> 1

CsidOf(basic) ==
  LET mark == basic[1] % 64 IN
  CASE mark = 0 -> 64 + basic[2]
    [] mark = 1 -> 64 + basic[2] + basic[3] * 256
    [] OTHER    -> mark

HeaderSize == [fmt \in 0 .. 3 |-> CASE fmt = 0 -> 11 [] fmt = 1 -> 7 [] fmt = 2 -> 3 [] fmt = 3 -> 0]

ExtSize(ext) == IF ext THEN 4 ELSE 0

ChunkBytes(c) == Len(c.basic) + HeaderSize[FmtOf(c.basic)] + ExtSize(c.ext) + Len(c.data)

Chunk(fmt, csid, time, ext, len, kind, data) ==
  [basic |-> appendBasicHeader(fmt, csid), time |-> time, ext |-> ext,
   len |-> len, kind |-> kind, data |-> data]

(* The payload of the n-th message: bytes that differ from all others. *)
Payload(n, len) == [i \in 1 .. len |-> <<n, i>>]

SmallerOf(a, b) == IF a < b THEN a ELSE b

(* A chunk takes a full chunk size of what is left of the message, or all of it. *)
FirstBytes(rest, size) == SubSeq(rest, 1, SmallerOf(Len(rest), size))

-----------------------------------------------------------------------------
(* The peer.  Its steps commute with those of the server, which sees only    *)
(* what has arrived: it is enough that it sends between two calls.           *)

NoHeader == [init |-> FALSE, ts |-> 0, delta |-> 0, ext |-> 0, len |-> 0, kind |-> Media,
             id |-> 0, rest |-> <<>>]

PeerMaySend == pc = "idle" /\ Len(net) < Window

(* The peer sends chunk c, after which its state for the chunk stream is h.  *)
PeerSends(csid, c, h) ==
  /\ talk' = [talk EXCEPT ![csid] = h]
  /\ net' = Append(net, c)
  /\ coming' = coming + ChunkBytes(c)
  /\ sent' = IF h.rest # <<>> THEN sent ELSE
       Append(sent, [csid |-> csid, ts |-> h.ts, len |-> h.len, kind |-> h.kind,
                     payload |-> Payload(h.id, h.len)])
  /\ peerSize' = IF h.rest = <<>> /\ h.kind \in ChunkSizes THEN h.kind ELSE peerSize
  /\ UNCHANGED <<version, arrived, parserVars, pc>>

(* A new message: fmt 0 with an absolute time, fmt 1 and 2 with a delta, fmt *)
(* 3 with all of the last header of the chunk stream.                         *)
PeerStarts(csid, fmt, time, len, kind) ==
  LET old == talk[csid]
      h == [init  |-> TRUE,
            delta |-> CASE fmt = 0 -> 0 [] fmt = 3 -> old.delta [] OTHER -> time,
            ts    |-> CASE fmt = 0 -> time [] fmt = 3 -> (old.ts + old.delta) % TimeMod
                        [] OTHER -> (old.ts + time) % TimeMod,
            ext   |-> IF fmt = 3 THEN old.ext ELSE IF time < ExtMark THEN 0 ELSE time,
            len   |-> IF fmt \in {0, 1} THEN len ELSE old.len,
            kind  |-> IF fmt \in {0, 1} THEN kind ELSE old.kind,
            id    |-> started + 1,
            rest  |-> <<>>]
      payload == Payload(h.id, h.len)
      data == FirstBytes(payload, peerSize)
  IN /\ PeerMaySend /\ started < MaxMessages
     /\ old.rest = <<>> /\ (fmt = 0 \/ old.init)
     /\ started' = started + 1
     /\ PeerSends(csid, Chunk(fmt, csid, time, h.ext # 0, len, kind, data),
                  [h EXCEPT !.rest = SubSeq(payload, Len(data) + 1, h.len)])

(* The next chunk of a message: fmt 3, the extended timestamp repeated. *)
PeerContinues(csid) ==
  LET h == talk[csid]
      data == FirstBytes(h.rest, peerSize)
  IN /\ PeerMaySend /\ h.rest # <<>>
     /\ PeerSends(csid, Chunk(3, csid, 0, h.ext # 0, 0, Media, data),
                  [h EXCEPT !.rest = SubSeq(@, Len(data) + 1, Len(@))])
     /\ UNCHANGED started

(* A peer that begins a chunk stream with a continuation. *)
PeerErrs(csid) ==
  /\ PeerMaySend /\ started < MaxMessages
  /\ ~talk[csid].init
  /\ started' = MaxMessages
  /\ net' = Append(net, Chunk(3, csid, 0, FALSE, 0, Media, <<>>))
  /\ coming' = coming + Len(appendBasicHeader(3, csid))
  /\ UNCHANGED <<version, talk, peerSize, sent, arrived, parserVars, pc>>

(* RtmpChunkWriter: one fmt 0 header, and between the pieces of the payload  *)
(* a basic header of fmt 3 and nothing else.                                  *)
EncodeMessage(n, csid, time, len, out_chunk_size) ==
  LET pieces == IF len = 0 THEN 1 ELSE (len + out_chunk_size - 1) \div out_chunk_size
      piece(i) == SubSeq(Payload(n, len), (i - 1) * out_chunk_size + 1,
                         SmallerOf(i * out_chunk_size, len))
  IN [i \in 1 .. pieces |->
        IF i = 1 THEN Chunk(0, csid, time, time >= ExtMark, len, Media, piece(1))
        ELSE Chunk(3, csid, 0, FALSE, 0, Media, piece(i))]

(* The peer is this library: all chunks of a message at once. *)
PeerEncodes(csid, time, len) ==
  LET out == EncodeMessage(started + 1, csid, time, len, peerSize) IN
  /\ PeerMaySend /\ started < MaxMessages /\ talk[csid].rest = <<>>
  /\ started' = started + 1
  /\ talk' = [talk EXCEPT ![csid] =
       [init |-> TRUE, ts |-> time, delta |-> 0, ext |-> IF time < ExtMark THEN 0 ELSE time,
        len |-> len, kind |-> Media, id |-> started + 1, rest |-> <<>>]]
  /\ net' = net \o out
  /\ coming' = coming + Len(out) * Len(appendBasicHeader(0, csid))
                + HeaderSize[0] + ExtSize(time >= ExtMark) + len
  /\ sent' = Append(sent, [csid |-> csid, ts |-> time, len |-> len, kind |-> Media,
                           payload |-> Payload(started + 1, len)])
  /\ UNCHANGED <<version, peerSize, arrived, parserVars, pc>>

-----------------------------------------------------------------------------
(* The server.                                                                *)

(* Mutant of process: C0C1 is answered and taken, state_ stays. *)
processStays(state, n) ==
  IF state = "kWaitC0C1" /\ n >= C0C1Size
  THEN [state |-> state, taken |-> C0C1Size] ELSE [state |-> state, taken |-> 0]

(* RtmpHandshake::process and what onMessage does with it, when n bytes are  *)
(* readable: the state it reaches and the bytes it takes.                     *)
process(state, n) ==
  CASE state = "kWaitC0C1" /\ n >= C0C1Size + PacketSize ->
         [state |-> "kHandshakeDone", taken |-> C0C1Size + PacketSize]
    [] state = "kWaitC0C1" /\ n \in C0C1Size .. C0C1Size + PacketSize - 1 ->
         [state |-> "kWaitC2", taken |-> C0C1Size]
    [] state = "kWaitC2" /\ n >= PacketSize ->
         [state |-> "kHandshakeDone", taken |-> PacketSize]
    [] OTHER -> [state |-> state, taken |-> 0]

(* A readable event with n more bytes: onMessage up to the chunk parser. *)
onMessage(n) ==
  LET readable == arrived + n
      done == process(handshake, readable)
  IN /\ pc = "idle" /\ n \in 1 .. coming
     /\ coming' = coming - n
     /\ resized' = FALSE
     /\ \/ /\ handshake = "kWaitC0C1" /\ readable >= C0C1Size /\ ~version
           /\ arrived' = readable /\ pc' = "failed"
           /\ UNCHANGED <<handshake, replies>>
        \/ /\ handshake # "kWaitC0C1" \/ readable < C0C1Size \/ version
           /\ handshake' = done.state
           /\ replies' = IF handshake = "kWaitC0C1" /\ done.taken > 0 THEN replies + 1 ELSE replies
           /\ arrived' = readable - done.taken
           /\ pc' = IF done.state = "kHandshakeDone" /\ arrived' > 0 THEN "parse" ELSE "idle"
     /\ UNCHANGED <<peerVars, net, streams, inChunkSize, messages, past, dropped, stale, drifted>>

NoState == [init |-> FALSE, ts |-> 0, delta |-> 0, ext |-> 0, len |-> 0, kind |-> Media,
            got |-> 0, payload |-> <<>>]

(* Mutant of ReusesHeader: every fmt 3 chunk begins a message. *)
ReusesHeaderAlways(s) == s.len > 0

(* A fmt 3 chunk begins a new message when none is half received, but for   *)
(* messages of no bytes, which it does not recognise as new.                  *)
ReusesHeader(s) == s.got = 0 /\ s.len > 0

(* parseMessageHeader on n bytes: the state of the chunk stream after it and *)
(* the bytes it used.  A header that is not there completely uses none, but   *)
(* the fields that were read stay in the state.                               *)
parseMessageHeader(s, fmt, c, n) ==
  LET size == HeaderSize[fmt]
      read == [s EXCEPT !.len = IF fmt = 2 THEN @ ELSE c.len,
                        !.kind = IF fmt = 2 THEN @ ELSE c.kind,
                        !.delta = IF fmt = 0 THEN 0 ELSE @]
      whole == [read EXCEPT !.ext = IF c.ext THEN c.time ELSE 0,
                            !.delta = IF fmt = 0 THEN 0 ELSE c.time,
                            !.ts = IF fmt = 0 THEN c.time ELSE (@ + c.time) % TimeMod,
                            !.got = 0, !.payload = <<>>, !.init = TRUE]
      again == IF ReusesHeader(s)
               THEN [s EXCEPT !.ts = (@ + s.delta) % TimeMod, !.payload = <<>>] ELSE s
  IN CASE fmt = 3 /\ s.ext = 0         -> [state |-> again, used |-> 0]
       [] fmt = 3 /\ s.ext # 0         -> [state |-> again, used |-> IF n < 4 THEN 0 ELSE 4]
       [] fmt < 3 /\ n < size          -> [state |-> s, used |-> 0]
       [] fmt < 3 /\ n >= size /\ n < size + ExtSize(c.ext) -> [state |-> read, used |-> 0]
       [] OTHER                        -> [state |-> whole, used |-> size + ExtSize(c.ext)]

(* Mutant of fmt3_without_extra_header: a header of no bytes is a half one. *)
fmt3NeedsHeader(s, fmt) == FALSE

(* A fmt 3 chunk without extended timestamp has no message header at all. *)
fmt3_without_extra_header(s, fmt) == fmt = 3 /\ s.init /\ s.ext = 0

(* The payload of the chunk: what the message lacks, at most a chunk size. *)
ChunkPayload(s, size) == SmallerOf(s.len - s.got, size)

(* parseOneChunk found no whole chunk: the state of the header stays, parse  *)
(* returns and the messages of the batch are handled.                         *)
HalfChunk(csid, fmt, s) ==
  /\ streams' = [streams EXCEPT ![csid] = s]
  /\ drifted' = IF fmt # 0 /\ s.ts # streams[csid].ts THEN drifted \cup {csid} ELSE drifted
  /\ pc' = "handle"
  /\ UNCHANGED <<net, arrived, messages>>

(* The delta of the chunk stream is not added for a fmt 3 message of no bytes. *)
SkipsDelta(s, fmt) == fmt = 3 /\ s.len = 0 /\ s.delta # 0

(* The chunk is whole: its payload joins the message, and the message, when  *)
(* complete, the batch.  A parser that takes other bytes than the chunk's has *)
(* lost the boundaries; the model ends there and says why.                    *)
WholeChunk(csid, fmt, c, s, used, take) ==
  LET t == [s EXCEPT !.got = @ + take, !.payload = @ \o c.data]
      drift == IF fmt = 0 THEN drifted \ {csid}
               ELSE IF SkipsDelta(s, fmt) THEN drifted \cup {csid} ELSE drifted
  IN IF used # HeaderSize[fmt] + ExtSize(c.ext) \/ take # Len(c.data)
     THEN /\ pc' = IF used # HeaderSize[fmt] + ExtSize(c.ext) THEN "noExt"
                   ELSE IF \E i \in DOMAIN messages : messages[i].kind \in ChunkSizes
                   THEN "lateSize" ELSE IF stale THEN "staleSize" ELSE "other"
          /\ UNCHANGED <<streams, drifted, net, arrived, messages>>
     ELSE /\ net' = Tail(net) /\ arrived' = arrived - ChunkBytes(c)
          /\ drifted' = drift
          /\ messages' = IF t.got < t.len THEN messages ELSE
               Append(messages, [csid |-> csid, ts |-> t.ts, len |-> t.len, kind |-> t.kind,
                                 payload |-> t.payload, exact |-> csid \notin drift])
          /\ streams' = [streams EXCEPT ![csid] =
               IF t.got < t.len THEN t ELSE [t EXCEPT !.got = 0, !.payload = <<>>]]
          /\ pc' = IF arrived' > 0 THEN "parse" ELSE "handle"

parseOneChunk ==
  LET c == Head(net)
      fmt == FmtOf(c.basic)
      csid == CsidOf(c.basic)
      basic == BasicSize(c.basic[1])
      h == parseMessageHeader(streams[csid], fmt, c, arrived - basic)
      take == ChunkPayload(h.state, inChunkSize)
  IN /\ pc = "parse"
     /\ \/ /\ arrived < basic
           /\ pc' = "handle" /\ UNCHANGED <<streams, drifted, net, arrived, messages>>
        \/ /\ arrived >= basic /\ fmt # 0 /\ ~streams[csid].init
           /\ pc' = "failed" /\ messages' = <<>>
           /\ UNCHANGED <<streams, drifted, net, arrived>>
        \/ /\ arrived >= basic /\ (fmt = 0 \/ streams[csid].init)
           /\ \/ h.used = 0 /\ ~fmt3_without_extra_header(h.state, fmt)
              \/ arrived < basic + h.used + take
           /\ HalfChunk(csid, fmt, h.state)
        \/ /\ arrived >= basic /\ (fmt = 0 \/ streams[csid].init)
           /\ arrived >= basic + h.used + take
           /\ h.used > 0 \/ fmt3_without_extra_header(h.state, fmt)
           /\ WholeChunk(csid, fmt, c, h.state, h.used, take)
     /\ UNCHANGED <<peerVars, coming, handshake, replies, inChunkSize, past, dropped, stale, resized>>

(* The loop over the messages of the batch: Set Chunk Size takes effect here, *)
(* after the whole batch was parsed.                                          *)
handleMessage ==
  /\ pc = "handle" /\ messages # <<>>
  /\ LET m == Head(messages) IN
       /\ inChunkSize' = IF m.kind \in ChunkSizes THEN m.kind ELSE inChunkSize
       /\ resized' = (resized \/ (m.kind \in ChunkSizes /\ arrived > 0))
       /\ stale' = (stale /\ m.kind \notin ChunkSizes)
       /\ past' = Append(past, m)
  /\ messages' = Tail(messages)
  /\ UNCHANGED <<peerVars, net, coming, arrived, handshake, replies, streams, dropped, drifted, pc>>

(* A message that is no Set Chunk Size may be refused: onMessage returns at   *)
(* once, and what is behind it in the batch is lost, a Set Chunk Size too.    *)
(* RtmpServer closes the write side only; later reads are parsed as before.   *)
refuseMessage ==
  /\ pc = "handle" /\ messages # <<>> /\ Head(messages).kind = Media
  /\ stale' = (stale \/ \E i \in DOMAIN messages : messages[i].kind \in ChunkSizes)
  /\ dropped' = dropped \cup (Len(past) + 2 .. Len(past) + Len(messages))
  /\ past' = past \o messages /\ messages' = <<>>
  /\ pc' = "idle"
  /\ UNCHANGED <<peerVars, net, coming, arrived, handshake, replies, streams, inChunkSize,
                 drifted, resized>>

(* onMessage returns. *)
Return ==
  /\ pc = "handle" /\ messages = <<>>
  /\ pc' = "idle"
  /\ UNCHANGED <<peerVars, parserVars, net, coming, arrived>>

-----------------------------------------------------------------------------
Init ==
  /\ version \in BOOLEAN
  /\ talk = [c \in Csids |-> NoHeader] /\ peerSize = kDefaultChunkSize
  /\ sent = <<>> /\ started = 0
  /\ net = <<>> /\ coming = C0C1Size + PacketSize /\ arrived = 0
  /\ handshake = "kWaitC0C1" /\ replies = 0
  /\ streams = [c \in Csids |-> NoState] /\ inChunkSize = kDefaultChunkSize
  /\ messages = <<>> /\ past = <<>> /\ dropped = {} /\ stale = FALSE
  /\ drifted = {} /\ resized = FALSE
  /\ pc = "idle"

(* A Set Chunk Size message has four bytes. *)
LengthOf(kind) == IF kind = Media THEN Lengths ELSE {4}

PeerNext ==
  \E csid \in Csids :
    \/ \E fmt \in {0, 1}, time \in Times, kind \in Kinds : \E len \in LengthOf(kind) :
         PeerStarts(csid, fmt, time, len, kind)
    \/ \E time \in Times : PeerStarts(csid, 2, time, 0, Media)
    \/ PeerStarts(csid, 3, 0, 0, Media)
    \/ PeerContinues(csid)
    \/ PeerErrs(csid)
    \/ \E time \in Times, len \in Lengths : PeerEncodes(csid, time, len)

Next ==
  \/ PeerNext
  \/ \E n \in 1 .. coming : onMessage(n)
  \/ parseOneChunk
  \/ handleMessage
  \/ refuseMessage
  \/ Return

Spec == Init /\ [][Next]_vars

-----------------------------------------------------------------------------
(* Types of the parser's state and of what passes between peer and server; a *)
(* handshake is answered once.                                                *)
TypeOK ==
  /\ version \in BOOLEAN /\ peerSize \in ChunkSizes \cup {kDefaultChunkSize}
  /\ inChunkSize \in ChunkSizes \cup {kDefaultChunkSize}
  /\ started \in 0 .. MaxMessages /\ coming \in Nat /\ arrived \in Nat
  /\ handshake \in {"kWaitC0C1", "kWaitC2", "kHandshakeDone"}
  /\ replies = IF handshake = "kWaitC0C1" THEN 0 ELSE 1
  /\ \A c \in Csids : /\ streams[c].ts \in 0 .. TimeMod - 1
                      /\ streams[c].kind \in Kinds
                      /\ streams[c].got \in 0 .. streams[c].len
  /\ drifted \subseteq Csids /\ resized \in BOOLEAN /\ stale \in BOOLEAN
  /\ dropped \subseteq 1 .. Len(past)
  /\ pc \in {"idle", "parse", "handle", "failed", "lateSize", "staleSize", "noExt", "other"}

(* What was dropped was behind a message that was not. *)
BehindRefused ==
  \A i \in dropped : \E j \in 1 .. i - 1 : j \notin dropped /\ past[j].kind = Media

(* However TCP cuts the stream and the chunk streams interleave, the peer's   *)
(* messages leave the parser in order, each with its own bytes, length, type  *)
(* and chunk stream (RtmpChunkParser::parseOneChunk), and with its timestamp   *)
(* unless parseMessageHeader added a delta twice, for a half-received chunk,   *)
(* or not at all, for a fmt 3 message of no bytes.  Each is handled unless it  *)
(* is dropped behind one that handleMessage refused.  The parser leaves the    *)
(* chunk boundaries for three reasons only: a Set Chunk Size that came in the  *)
(* same read and is not handled yet, one that was dropped, or a continuation   *)
(* of RtmpChunkWriter, which does not repeat the extended timestamp that       *)
(* parseMessageHeader skips.                                                   *)
AsSent ==
  /\ pc # "other"
  /\ Len(past) + Len(messages) <= Len(sent)
  /\ \A i \in 1 .. Len(past) + Len(messages) :
       LET got == (past \o messages)[i] IN
       /\ got.csid = sent[i].csid /\ got.len = sent[i].len
       /\ got.kind = sent[i].kind /\ got.payload = sent[i].payload
       /\ got.exact => got.ts = sent[i].ts
  /\ BehindRefused

(* Between two reads no whole chunk stays in inputBuffer_ (the loop of parse,  *)
(* the case of fmt 3 without a header, the bytes behind the handshake), except *)
(* behind a Set Chunk Size of the same read or one that was dropped, or a       *)
(* continuation without the extended timestamp the parser waits for.             *)
NothingLeft ==
  pc = "idle" /\ handshake = "kHandshakeDone" /\ net # <<>> /\ ~resized /\ ~stale =>
    \/ arrived < ChunkBytes(Head(net))
    \/ FmtOf(Head(net).basic) = 3 /\ ~Head(net).ext /\ streams[CsidOf(Head(net).basic)].ext # 0
==============================================================================
