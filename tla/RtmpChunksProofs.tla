--------------------------- MODULE RtmpChunksProofs ---------------------------
(* Proofs about RtmpChunks, for any chunk stream ids, message lengths, chunk  *)
(* sizes, timestamps and sizes of the handshake packets.                      *)
EXTENDS RtmpChunks, TLAPS, SequenceTheorems

-----------------------------------------------------------------------------
(* The inductive invariant.                                                  *)

(* A timestamp, of 32 bits in the code. *)
Time == 0 .. TimeMod - 1

(* The chunk sizes that the peer may have set, and the one it begins with. *)
Sizes == ChunkSizes \cup {kDefaultChunkSize}

(* A byte of a payload: the message it belongs to and its place there. *)
Bytes == Nat \X Nat

(* What the peer keeps of a chunk stream. *)
Headers == [init : BOOLEAN, ts : Time, delta : Time, ext : Time, len : Nat, kind : Kinds,
            id : Nat, rest : Seq(Bytes)]

(* What chunkStreams_ keeps of a chunk stream. *)
States == [init : BOOLEAN, ts : Time, delta : Time, ext : Time, len : Nat, kind : Kinds,
           got : Nat, payload : Seq(Bytes)]

(* A chunk under way. *)
Chunks == [basic : Seq(Nat), time : Time, ext : BOOLEAN, len : Nat, kind : Kinds,
           data : Seq(Bytes)]

(* A message the peer sent completely. *)
Sent == [csid : Csids, ts : Time, len : Nat, kind : Kinds, payload : Seq(Bytes)]

(* A message the parser put together. *)
Parsed == [csid : Csids, ts : Time, len : Nat, kind : Kinds, payload : Seq(Bytes),
           exact : BOOLEAN]

(* A point of the stream, between two chunks: what the peer's state was      *)
(* there, how many messages were complete and how many bytes sent.           *)
Points == [talk : [Csids -> Headers], size : Sizes, n : Nat, off : Nat]

(* How much of the message that the peer is sending it has sent. *)
Given(b) == IF b.rest = <<>> THEN 0 ELSE b.len - Len(b.rest)

(* A header of the peer: what is left is the end of the message. *)
GoodHeader(b) ==
  /\ ~b.init => b.rest = <<>>
  /\ Len(b.rest) < b.len \/ b.rest = <<>>
  /\ b.rest = SubSeq(Payload(b.id, b.len), b.len - Len(b.rest) + 1, b.len)

(* Chunk c of format fmt takes the header of its chunk stream from b to h. *)
HeaderMoves(b, c, fmt, h) ==
  /\ h.init
  /\ fmt # 3 => b.rest = <<>>
  /\ h.len = (IF fmt \in {0, 1} THEN c.len ELSE b.len)
  /\ h.kind = (IF fmt \in {0, 1} THEN c.kind ELSE b.kind)
  /\ fmt = 3 => h.delta = b.delta /\ h.ext = b.ext
  /\ fmt # 3 => h.ext = (IF c.ext THEN c.time ELSE 0)
  /\ fmt = 0 => h.delta = 0 /\ h.ts = c.time
  /\ fmt \in {1, 2} => h.delta = c.time /\ h.ts = (b.ts + c.time) % TimeMod
  /\ fmt = 3 => h.ts = (IF b.rest = <<>> THEN (b.ts + b.delta) % TimeMod ELSE b.ts)
  /\ b.rest # <<>> => h.id = b.id

(* The chunk has the next bytes of the message, as many as fit into a chunk. *)
PayloadMoves(b, c, size, h) ==
  /\ Len(c.data) = SmallerOf(h.len - Given(b), size)
  /\ c.data = SubSeq(Payload(h.id, h.len), Given(b) + 1, Given(b) + Len(c.data))
  /\ Len(h.rest) = h.len - Given(b) - Len(c.data)

(* The message that ends with the chunk, if one does, is the next one sent.  *)
MessageMoves(u, csid, h, v, s) ==
  IF h.rest # <<>> THEN v.n = u.n /\ v.size = u.size
  ELSE /\ v.n = u.n + 1 /\ v.n <= Len(s)
       /\ s[v.n].csid = csid /\ s[v.n].ts = h.ts /\ s[v.n].len = h.len
       /\ s[v.n].kind = h.kind /\ s[v.n].payload = Payload(h.id, h.len)
       /\ v.size = (IF h.kind \in ChunkSizes THEN h.kind ELSE u.size)

(* A chunk that is no continuation of anything. *)
Stray(u, csid, fmt, v) ==
  fmt # 0 /\ ~u.talk[csid].init /\ v.talk = u.talk /\ v.n = u.n /\ v.size = u.size

(* A chunk that belongs to a message. *)
Proper(u, c, csid, fmt, v, s) ==
  LET b == u.talk[csid]
      h == v.talk[csid]
  IN /\ fmt = 0 \/ b.init
     /\ v.talk = [u.talk EXCEPT ![csid] = h]
     /\ HeaderMoves(b, c, fmt, h) /\ PayloadMoves(b, c, u.size, h)
     /\ MessageMoves(u, csid, h, v, s)

(* What the parser tells from the basic header. *)
BasicOK(c) ==
  /\ CsidOf(c.basic) \in Csids /\ FmtOf(c.basic) \in 0 .. 3
  /\ BasicSize(c.basic[1]) = Len(c.basic) /\ Len(c.basic) \in 1 .. 3

(* Chunk c leads from point u to point v, when the peer sent the messages s. *)
Link(u, c, v, s) ==
  /\ c \in Chunks /\ BasicOK(c) /\ v.off = u.off + ChunkBytes(c)
  /\ \/ Stray(u, CsidOf(c.basic), FmtOf(c.basic), v)
     \/ Proper(u, c, CsidOf(c.basic), FmtOf(c.basic), v, s)

(* A point where every header is one the peer can have. *)
GoodPoint(u) == u \in Points /\ \A c \in Csids : GoodHeader(u.talk[c])

(* The points p lie before, between and behind the chunks under way. *)
Path(p, chunks, s) ==
  /\ p \in Seq(Points) /\ Len(p) = Len(chunks) + 1
  /\ \A i \in 1 .. Len(p) : GoodPoint(p[i])
  /\ \A i \in 1 .. Len(chunks) : Link(p[i], chunks[i], p[i + 1], s)

(* What is left of the handshake. *)
HandshakeLeft ==
  CASE handshake = "kWaitC0C1" -> C0C1Size + PacketSize
    [] handshake = "kWaitC2" -> PacketSize
    [] OTHER -> 0

(* The last point is where the peer is, and the bytes are all there. *)
AtPeer(u, v) ==
  /\ v.talk = talk /\ v.size = peerSize /\ v.n = Len(sent)
  /\ v.off = u.off + (arrived + coming - HandshakeLeft)

(* The state s of the parser and the header b of the peer agree, where the   *)
(* chunk with format f may have been parsed in part.                          *)
Match(s, b, f, drift) ==
  /\ s.got = Given(b) /\ s.payload = SubSeq(Payload(b.id, b.len), 1, Given(b))
  /\ f # 0 => s.init = b.init /\ (~drift => s.ts = b.ts)
  /\ f \notin {0, 1} => s.len = b.len /\ s.kind = b.kind
  /\ f \notin {0, 1, 2} => s.delta = b.delta /\ s.ext = b.ext

(* The format of the first chunk under way when it is on chunk stream csid,  *)
(* and 4 when it is not.                                                      *)
HeadFmt(chunks, csid) ==
  IF chunks # <<>> /\ CsidOf(chunks[1].basic) = csid THEN FmtOf(chunks[1].basic) ELSE 4

(* The parser is at the first point. *)
AtParser(u) ==
  /\ u.n = Len(past) + Len(messages)
  /\ \A c \in Csids : Match(streams[c], u.talk[c], HeadFmt(net, c), c \in drifted)

(* A Set Chunk Size that is not handled yet. *)
Pending(m) == \E i \in 1 .. Len(m) : m[i].kind \in ChunkSizes

(* The chunk size at the first point is that of the last Set Chunk Size in   *)
(* the batch, or the parser's, unless the last Set Chunk Size was dropped.    *)
SizeAt(u) ==
  /\ ~Pending(messages) /\ ~stale => inChunkSize = u.size
  /\ \A i \in 1 .. Len(messages) :
       (/\ messages[i].kind \in ChunkSizes
        /\ \A j \in i + 1 .. Len(messages) : messages[j].kind \notin ChunkSizes)
       => u.size = messages[i].kind

(* Unless the parser failed or left the chunk boundaries. *)
Working == pc \in {"idle", "parse", "handle"}

(* The chunks under way lead from the parser's state to the peer's. *)
Simulates(p) ==
  Path(p, net, sent) /\ AtPeer(p[1], p[Len(p)]) /\ AtParser(p[1]) /\ SizeAt(p[1])

(* There is such a path as long as the parser works. *)
Simulation == Working => \E p \in Seq(Points) : Simulates(p)

(* The types. *)
Types ==
  /\ TypeOK
  /\ sent \in Seq(Sent) /\ messages \in Seq(Parsed) /\ past \in Seq(Parsed)
  /\ streams \in [Csids -> States] /\ net \in Seq(Chunks) /\ started \in Nat

(* The phases of onMessage. *)
Phases ==
  /\ pc \in {"idle", "failed"} => messages = <<>>
  /\ handshake # "kHandshakeDone" => pc \in {"idle", "failed"}
  /\ pc = "parse" => arrived > 0

(* No whole chunk is left behind. *)
Left ==
  \/ arrived < ChunkBytes(Head(net))
  \/ FmtOf(Head(net).basic) = 3 /\ ~Head(net).ext /\ streams[CsidOf(Head(net).basic)].ext # 0

(* Nor is there one while the batch is handled, unless the chunk size changes. *)
LeftOK ==
  pc \in {"idle", "handle"} /\ handshake = "kHandshakeDone" /\ net # <<>> /\ ~resized
    /\ ~Pending(messages) /\ ~stale => Left

(* The inductive invariant. *)
Inv == Types /\ Phases /\ AsSent /\ LeftOK /\ Simulation

-----------------------------------------------------------------------------
(* Basic headers.                                                            *)

(* The parser reads fmt and csid from the bytes of a basic header. *)
BasicIs(basic, fmt, csid) ==
  /\ basic \in Seq(Nat) /\ Len(basic) \in 1 .. 3
  /\ FmtOf(basic) = fmt /\ CsidOf(basic) = csid /\ BasicSize(basic[1]) = Len(basic)

(* Writer and parser agree on the basic header of every chunk stream id that  *)
(* a basic header can hold.                                                   *)
LEMMA BasicHeader ==
  ASSUME NEW csid \in Nat, csid >= 2, csid <= 65599, NEW fmt \in 0 .. 3
  PROVE  BasicIs(appendBasicHeader(fmt, csid), fmt, csid)
<1>1. CASE csid < 64
  <2>1. appendBasicHeader(fmt, csid) = <<fmt * 64 + csid>>
    BY <1>1 DEF appendBasicHeader
  <2>2. (fmt * 64 + csid) \div 64 = fmt /\ (fmt * 64 + csid) % 64 = csid
    BY <1>1
  <2>3. FmtOf(<<fmt * 64 + csid>>) = fmt
    BY <2>2 DEF FmtOf
  <2>4. csid # 0 /\ csid # 1
    OBVIOUS
  <2>5. CsidOf(<<fmt * 64 + csid>>) = csid
    BY <2>2, <2>4 DEF CsidOf
  <2>6. BasicSize(fmt * 64 + csid) = 1
    BY <2>2, <2>4 DEF BasicSize
  <2> QED
    BY <2>1, <2>3, <2>5, <2>6 DEF BasicIs
<1>2. CASE csid >= 64 /\ csid < 320
  <2>1. appendBasicHeader(fmt, csid) = <<fmt * 64, csid - 64>>
    BY <1>2 DEF appendBasicHeader
  <2>2. (fmt * 64) \div 64 = fmt /\ (fmt * 64) % 64 = 0
    OBVIOUS
  <2> QED
    BY <1>2, <2>1, <2>2 DEF BasicIs, FmtOf, CsidOf, BasicSize
<1>3. CASE csid >= 320
  <2> DEFINE v == csid - 64
  <2>1. appendBasicHeader(fmt, csid) = <<fmt * 64 + 1, v % 256, (v \div 256) % 256>>
    BY <1>3 DEF appendBasicHeader
  <2>2. (fmt * 64 + 1) \div 64 = fmt /\ (fmt * 64 + 1) % 64 = 1
    OBVIOUS
  <2>3. v % 256 \in Nat /\ (v \div 256) % 256 \in Nat /\ v = (v % 256) + ((v \div 256) % 256) * 256
    BY <1>3
  <2> QED
    BY <1>3, <2>1, <2>2, <2>3 DEF BasicIs, FmtOf, CsidOf, BasicSize
<1> QED
  BY <1>1, <1>2, <1>3

(* The fields of a chunk. *)
ChunkIs(c, fmt, csid, time, ext, len, kind, data) ==
  /\ c \in Chunks /\ BasicOK(c) /\ CsidOf(c.basic) = csid /\ FmtOf(c.basic) = fmt
  /\ c.time = time /\ c.ext = ext /\ c.len = len /\ c.kind = kind /\ c.data = data
  /\ Len(c.basic) = Len(appendBasicHeader(fmt, csid))

(* The chunks of the peer have a basic header that the parser reads back. *)
LEMMA ChunkBasic ==
  ASSUME NEW csid \in Csids, NEW fmt \in 0 .. 3, NEW time \in Time, NEW ext \in BOOLEAN,
         NEW len \in Nat, NEW kind \in Kinds, NEW data \in Seq(Bytes), NEW c,
         c = Chunk(fmt, csid, time, ext, len, kind, data)
  PROVE  ChunkIs(c, fmt, csid, time, ext, len, kind, data)
<1>1. csid \in Nat /\ csid >= 2 /\ csid <= 65599
  BY CsidsAssumption
<1>2. BasicIs(appendBasicHeader(fmt, csid), fmt, csid)
  BY <1>1, BasicHeader
<1>3. PICK basic : basic = appendBasicHeader(fmt, csid)
  OBVIOUS
<1>4. c = [basic |-> basic, time |-> time, ext |-> ext, len |-> len, kind |-> kind, data |-> data]
  BY <1>3 DEF Chunk
<1>5. BasicIs(basic, fmt, csid)
  BY <1>2, <1>3
<1> QED
  BY <1>3, <1>4, <1>5 DEF Chunks, BasicOK, BasicIs, ChunkIs

(* The sizes of message headers. *)
LEMMA HeaderSizes ==
  /\ HeaderSize[0] = 11 /\ HeaderSize[1] = 7 /\ HeaderSize[2] = 3 /\ HeaderSize[3] = 0
  /\ \A fmt \in 0 .. 3 : HeaderSize[fmt] \in Nat
<1>1. HeaderSize[0] = 11
  BY DEF HeaderSize
<1>2. HeaderSize[1] = 7
  BY DEF HeaderSize
<1>3. HeaderSize[2] = 3
  BY DEF HeaderSize
<1>4. HeaderSize[3] = 0
  BY DEF HeaderSize
<1> QED
  BY <1>1, <1>2, <1>3, <1>4

(* A chunk has at least one byte. *)
LEMMA ChunkBytesType ==
  ASSUME NEW c \in Chunks, BasicOK(c)
  PROVE  ChunkBytes(c) \in Nat /\ ChunkBytes(c) >= 1
<1>1. HeaderSize[FmtOf(c.basic)] \in Nat
  BY HeaderSizes DEF BasicOK
<1>2. ExtSize(c.ext) \in Nat
  BY DEF Chunks, ExtSize
<1>3. Len(c.data) \in Nat /\ Len(c.basic) \in Nat /\ Len(c.basic) >= 1
  BY DEF Chunks, BasicOK
<1> QED
  BY <1>1, <1>2, <1>3 DEF ChunkBytes

-----------------------------------------------------------------------------
(* Payloads.                                                                 *)

(* A payload has its length. *)
LEMMA PayloadType ==
  ASSUME NEW n \in Nat, NEW len \in Nat
  PROVE  Payload(n, len) \in Seq(Bytes) /\ Len(Payload(n, len)) = len
<1>1. \A i \in 1 .. len : <<n, i>> \in Bytes
  BY DEF Bytes
<1> QED
  BY <1>1 DEF Payload

(* A part of a payload has the length it should. *)
LEMMA PartType ==
  ASSUME NEW n \in Nat, NEW len \in Nat, NEW i \in Nat, NEW j \in Nat, i <= j, j <= len
  PROVE  /\ SubSeq(Payload(n, len), i + 1, j) \in Seq(Bytes)
         /\ Len(SubSeq(Payload(n, len), i + 1, j)) = j - i
<1>1. PICK s \in Seq(Bytes) : s = Payload(n, len) /\ Len(s) = len
  BY PayloadType
<1>2. \A k \in i + 1 .. j : s[k] \in Bytes
  BY <1>1, ElementOfSeq
<1>3. /\ SubSeq(s, i + 1, j) \in Seq(Bytes)
      /\ Len(SubSeq(s, i + 1, j)) = IF i + 1 <= j THEN j - (i + 1) + 1 ELSE 0
  BY <1>2, SubSeqProperties
<1> QED
  BY <1>1, <1>3

(* Two adjacent parts of a payload, the empty part and the whole payload. *)
PartsFit(n, len, i, j) ==
  /\ SubSeq(Payload(n, len), 1, i) \o SubSeq(Payload(n, len), i + 1, j)
       = SubSeq(Payload(n, len), 1, j)
  /\ SubSeq(Payload(n, len), 1, 0) = <<>>
  /\ SubSeq(Payload(n, len), 1, len) = Payload(n, len)

(* Parts of a payload fit. *)
LEMMA Parts ==
  ASSUME NEW n \in Nat, NEW len \in Nat, NEW i \in Nat, NEW j \in Nat, i <= j, j <= len
  PROVE  PartsFit(n, len, i, j)
<1>1. PICK s \in Seq(Bytes) : s = Payload(n, len) /\ Len(s) = len
  BY PayloadType
<1>2. SubSeq(s, 1, i) \o SubSeq(s, i + 1, j) = SubSeq(s, 1, j)
  <2>1. 1 \in 1 .. Len(s) + 1 /\ i \in 1 - 1 .. Len(s) /\ j \in i .. Len(s)
    BY <1>1
  <2> QED
    BY <2>1, ConcatAdjacentSubSeq
<1>3. SubSeq(s, 1, 0) = <<>>
  BY SubSeqEmpty
<1>4. SubSeq(s, 1, len) = s
  BY <1>1, SubSeqFull
<1> QED
  BY <1>1, <1>2, <1>3, <1>4 DEF PartsFit

(* How much was sent of a message is at most its length. *)
LEMMA GivenType ==
  ASSUME NEW b \in Headers, GoodHeader(b)
  PROVE  /\ Given(b) \in Nat /\ Len(b.rest) \in Nat /\ Given(b) <= b.len
         /\ b.rest # <<>> => Given(b) > 0 /\ Given(b) < b.len /\ Given(b) = b.len - Len(b.rest)
         /\ b.rest = <<>> => Given(b) = 0
<1>1. b.len \in Nat /\ b.rest \in Seq(Bytes) /\ Len(b.rest) \in Nat
  BY DEF Headers
<1>2. b.rest # <<>> => Len(b.rest) > 0
  BY <1>1, EmptySeq
<1> QED
  BY <1>1, <1>2 DEF Given, GoodHeader

-----------------------------------------------------------------------------
(* parseMessageHeader.                                                       *)

(* A chunk of format 3 leaves the header as it is or repeats its delta. *)
Fmt3Does(s, n, m) ==
  /\ ReusesHeader(s) =>
       m.state = [s EXCEPT !.ts = (s.ts + s.delta) % TimeMod, !.payload = <<>>]
  /\ ~ReusesHeader(s) => m.state = s
  /\ m.used = (IF s.ext = 0 \/ n < 4 THEN 0 ELSE 4)

(* That is what parseMessageHeader does. *)
LEMMA HeaderOfFmt3 ==
  ASSUME NEW s \in States, NEW c \in Chunks, NEW n \in Nat, NEW m,
         m = parseMessageHeader(s, 3, c, n)
  PROVE  Fmt3Does(s, n, m)
BY DEF parseMessageHeader, Fmt3Does

(* The state after the fields of a header of format 0, 1 or 2 were read. *)
ReadHeader(s, fmt, c) ==
  [s EXCEPT !.len = IF fmt = 2 THEN @ ELSE c.len,
            !.kind = IF fmt = 2 THEN @ ELSE c.kind,
            !.delta = IF fmt = 0 THEN 0 ELSE @]

(* The state after the whole header, extended timestamp included. *)
WholeHeader(s, fmt, c) ==
  [ReadHeader(s, fmt, c) EXCEPT
     !.ext = IF c.ext THEN c.time ELSE 0,
     !.delta = IF fmt = 0 THEN 0 ELSE c.time,
     !.ts = IF fmt = 0 THEN c.time ELSE (@ + c.time) % TimeMod,
     !.got = 0, !.payload = <<>>, !.init = TRUE]

(* The fields of both. *)
FieldsAre(s, fmt, c, r, w) ==
  /\ r \in States /\ w \in States
  /\ r.len = (IF fmt = 2 THEN s.len ELSE c.len) /\ w.len = r.len
  /\ r.kind = (IF fmt = 2 THEN s.kind ELSE c.kind) /\ w.kind = r.kind
  /\ r.init = s.init /\ r.got = s.got /\ r.payload = s.payload /\ r.ts = s.ts
  /\ w.init = TRUE /\ w.got = 0 /\ w.payload = <<>>
  /\ w.ext = (IF c.ext THEN c.time ELSE 0)
  /\ w.delta = (IF fmt = 0 THEN 0 ELSE c.time)
  /\ w.ts = (IF fmt = 0 THEN c.time ELSE (s.ts + c.time) % TimeMod)

(* That is what they are. *)
LEMMA HeaderFields ==
  ASSUME NEW s \in States, NEW c \in Chunks, NEW fmt \in {0, 1, 2},
         NEW r, r = ReadHeader(s, fmt, c), NEW w, w = WholeHeader(s, fmt, c)
  PROVE  FieldsAre(s, fmt, c, r, w)
<1>1. 0 \in Time /\ c.time \in Time /\ s.ts \in Time /\ (s.ts + c.time) % TimeMod \in Time
  BY TimesAssumption DEF Time, States, Chunks
<1>2. r \in States
  BY <1>1 DEF ReadHeader, States, Chunks
<1>3. /\ r.len = (IF fmt = 2 THEN s.len ELSE c.len)
      /\ r.kind = (IF fmt = 2 THEN s.kind ELSE c.kind)
      /\ r.init = s.init /\ r.got = s.got /\ r.payload = s.payload /\ r.ts = s.ts
  BY DEF ReadHeader, States
<1>4. w = [r EXCEPT !.ext = IF c.ext THEN c.time ELSE 0,
                    !.delta = IF fmt = 0 THEN 0 ELSE c.time,
                    !.ts = IF fmt = 0 THEN c.time ELSE (s.ts + c.time) % TimeMod,
                    !.got = 0, !.payload = <<>>, !.init = TRUE]
  BY <1>3 DEF WholeHeader
<1>5. /\ w.len = r.len /\ w.kind = r.kind /\ w.init = TRUE /\ w.got = 0 /\ w.payload = <<>>
      /\ w.ext = (IF c.ext THEN c.time ELSE 0)
      /\ w.delta = (IF fmt = 0 THEN 0 ELSE c.time)
      /\ w.ts = (IF fmt = 0 THEN c.time ELSE (s.ts + c.time) % TimeMod)
  BY <1>2, <1>4 DEF States
<1>6. <<>> \in Seq(Bytes)
  OBVIOUS
<1>7. w \in States
  <2>1. PICK e \in Time, d \in Time, z \in Time :
          /\ e = (IF c.ext THEN c.time ELSE 0) /\ d = (IF fmt = 0 THEN 0 ELSE c.time)
          /\ z = (IF fmt = 0 THEN c.time ELSE (s.ts + c.time) % TimeMod)
    BY <1>1
  <2>2. PICK y \in BOOLEAN : y = TRUE
    OBVIOUS
  <2>3. PICK x \in Seq(Bytes) : x = <<>>
    BY <1>6
  <2>4. PICK w1 \in States : w1 = [r EXCEPT !.ext = e, !.delta = d, !.ts = z]
    BY <1>2 DEF States
  <2>5. PICK w2 \in States : w2 = [w1 EXCEPT !.got = 0, !.payload = x]
    BY DEF States
  <2>6. w = [w2 EXCEPT !.init = y]
    BY <1>2, <1>4, <2>1, <2>2, <2>3, <2>4, <2>5 DEF States
  <2>7. [w2 EXCEPT !.init = y] \in States
    BY DEF States
  <2> QED
    BY <2>6, <2>7
<1> QED
  BY <1>2, <1>3, <1>5, <1>7 DEF FieldsAre

(* The message header of formats 0, 1 and 2: not there, there but for the      *)
(* extended timestamp, or there.                                              *)
LEMMA HeaderOfFmt012 ==
  ASSUME NEW s \in States, NEW c \in Chunks, NEW n \in Nat, NEW fmt \in {0, 1, 2}, NEW m,
         m = parseMessageHeader(s, fmt, c, n)
  PROVE  \/ m.state = s /\ m.used = 0 /\ n < HeaderSize[fmt]
         \/ m.state = ReadHeader(s, fmt, c) /\ m.used = 0 /\ n < HeaderSize[fmt] + ExtSize(c.ext)
         \/ m.state = WholeHeader(s, fmt, c) /\ m.used = HeaderSize[fmt] + ExtSize(c.ext)
<1>1. HeaderSize[fmt] \in Nat /\ ExtSize(c.ext) \in Nat
  BY HeaderSizes DEF Chunks, ExtSize
<1> QED
  BY <1>1 DEF parseMessageHeader, ReadHeader, WholeHeader

(* A chunk stream that agrees with the peer's is within its message. *)
LEMMA MatchBounds ==
  ASSUME NEW s \in States, NEW b \in Headers, NEW c \in Chunks, NEW h, NEW fmt \in 0 .. 4,
         NEW drift \in BOOLEAN, GoodHeader(b), Match(s, b, fmt, drift),
         fmt \in {0, 1} => b.rest = <<>>
  PROVE  s.got \in 0 .. s.len
<1>1. s.got = Given(b) /\ Given(b) \in Nat /\ Given(b) <= b.len /\ s.len \in Nat
  BY GivenType DEF Match, States
<1>2. CASE fmt \in {0, 1}
  BY <1>1, <1>2, GivenType
<1>3. CASE fmt \notin {0, 1}
  BY <1>1, <1>3 DEF Match
<1> QED
  BY <1>2, <1>3

(* Parsing the header of a chunk, whole or not, keeps the agreement, but for *)
(* a timestamp that was moved.                                                *)
LEMMA HalfKeepsMatch ==
  ASSUME NEW s \in States, NEW b \in Headers, NEW c \in Chunks, NEW h \in Headers,
         NEW fmt \in 0 .. 3, NEW n \in Nat, NEW drift \in BOOLEAN, NEW m,
         GoodHeader(b), HeaderMoves(b, c, fmt, h), fmt = 0 \/ b.init,
         Match(s, b, fmt, drift), m = parseMessageHeader(s, fmt, c, n)
  PROVE  /\ m.state \in States /\ m.used \in Nat
         /\ Match(m.state, b, fmt, drift \/ (fmt # 0 /\ m.state.ts # s.ts))
         /\ fmt = 3 => m.state.ext = s.ext
<1>1. \A x \in Time, y \in Time : (x + y) % TimeMod \in Time
  BY TimesAssumption DEF Time
<1>2. CASE fmt = 3
  <2>1. /\ ReusesHeader(s) =>
             m.state = [s EXCEPT !.ts = (s.ts + s.delta) % TimeMod, !.payload = <<>>]
        /\ ~ReusesHeader(s) => m.state = s
        /\ m.used = (IF s.ext = 0 \/ n < 4 THEN 0 ELSE 4)
    <3>1. m = parseMessageHeader(s, 3, c, n)
      BY <1>2
    <3>2. Fmt3Does(s, n, m)
      BY <3>1, HeaderOfFmt3
    <3> QED
      BY <3>2 DEF Fmt3Does
  <2>2. CASE ~ReusesHeader(s)
    BY <1>2, <2>1, <2>2 DEF Match
  <2>3. CASE ReusesHeader(s)
    <3>1. m.state = [s EXCEPT !.ts = (s.ts + s.delta) % TimeMod, !.payload = <<>>]
      BY <2>1, <2>3
    <3>2. s.got = 0 /\ s.payload = <<>>
      <4>1. s.got = 0 /\ s.got = Given(b)
        BY <2>3 DEF ReusesHeader, Match
      <4>2. s.payload = SubSeq(Payload(b.id, b.len), 1, 0)
        BY <4>1 DEF Match
      <4> QED
        BY <4>1, <4>2, SubSeqEmpty
    <3>3. m.state \in States
      <4>1. (s.ts + s.delta) % TimeMod \in Time
        BY <1>1 DEF States
      <4> QED
        BY <3>1, <3>2, <4>1 DEF States
    <3>4. /\ m.state.got = s.got /\ m.state.payload = s.payload /\ m.state.init = s.init
          /\ m.state.len = s.len /\ m.state.kind = s.kind /\ m.state.delta = s.delta
          /\ m.state.ext = s.ext
      BY <3>1, <3>2 DEF States
    <3> QED
      BY <1>2, <2>1, <3>3, <3>4 DEF Match
  <2> QED
    BY <2>2, <2>3
<1>3. CASE fmt \in {0, 1, 2}
  <2>1. PICK read, whole : read = ReadHeader(s, fmt, c) /\ whole = WholeHeader(s, fmt, c)
    OBVIOUS
  <2>2. \/ m.state = s /\ m.used = 0
        \/ m.state = read /\ m.used = 0
        \/ m.state = whole /\ m.used = HeaderSize[fmt] + ExtSize(c.ext)
    BY <1>3, <2>1, HeaderOfFmt012
  <2>3. m.used \in Nat
    BY <2>2, HeaderSizes DEF ExtSize
  <2>4. s.got = 0 /\ s.payload = <<>> /\ b.rest = <<>> /\ Given(b) = 0
    <3>1. b.rest = <<>> /\ Given(b) = 0
      BY <1>3, GivenType DEF HeaderMoves
    <3> QED
      BY <3>1, SubSeqEmpty DEF Match
  <2>5. /\ read \in States /\ whole \in States
        /\ fmt = 2 => read.len = s.len /\ whole.len = s.len
        /\ fmt = 2 => read.kind = s.kind /\ whole.kind = s.kind
        /\ read.init = s.init /\ read.got = s.got /\ read.payload = s.payload
        /\ whole.init = TRUE /\ whole.got = 0 /\ whole.payload = <<>>
    <3>1. FieldsAre(s, fmt, c, read, whole)
      BY <1>3, <2>1, HeaderFields
    <3> QED
      BY <3>1 DEF FieldsAre
  <2>8. m.state \in States
    BY <2>2, <2>5
  <2>9. m.state.got = s.got /\ m.state.payload = s.payload
    BY <2>2, <2>4, <2>5
  <2>10. fmt # 0 => m.state.init = b.init
    <3>1. fmt # 0 => b.init /\ s.init = b.init
      BY DEF Match
    <3> QED
      BY <2>2, <2>5, <3>1 DEF Headers
  <2>11. fmt = 2 => m.state.len = s.len /\ m.state.kind = s.kind
    BY <2>2, <2>5
  <2> QED
    BY <1>3, <2>3, <2>8, <2>9, <2>10, <2>11 DEF Match
<1> QED
  BY <1>2, <1>3

(* The header of state s is h, and the payload what was given of it at b. *)
HeaderIs(s, b, h, drift) ==
  /\ s.init /\ s.len = h.len /\ s.kind = h.kind /\ s.delta = h.delta /\ s.ext = h.ext
  /\ s.got = Given(b) /\ s.payload = SubSeq(Payload(h.id, h.len), 1, Given(b))
  /\ ~drift => s.ts = h.ts

(* A header that was parsed with the bytes it has is the peer's, but for the *)
(* timestamp when it drifted or a delta was left out.                         *)
LEMMA WholeMatches ==
  ASSUME NEW s \in States, NEW b \in Headers, NEW c \in Chunks, NEW h \in Headers,
         NEW fmt \in 0 .. 3, NEW n \in Nat, NEW drift \in BOOLEAN, NEW m,
         GoodHeader(b), HeaderMoves(b, c, fmt, h), fmt = 0 \/ b.init,
         Match(s, b, fmt, drift), m = parseMessageHeader(s, fmt, c, n),
         m.used > 0 \/ fmt3_without_extra_header(m.state, fmt),
         m.used = HeaderSize[fmt] + ExtSize(c.ext)
  PROVE  HeaderIs(m.state, b, h, fmt # 0 /\ (drift \/ SkipsDelta(m.state, fmt)))
<1>1. CASE fmt = 3
  <2>1. /\ ReusesHeader(s) =>
             m.state = [s EXCEPT !.ts = (s.ts + s.delta) % TimeMod, !.payload = <<>>]
        /\ ~ReusesHeader(s) => m.state = s
        /\ m.used = (IF s.ext = 0 \/ n < 4 THEN 0 ELSE 4)
    <3>1. m = parseMessageHeader(s, 3, c, n)
      BY <1>1
    <3>2. Fmt3Does(s, n, m)
      BY <3>1, HeaderOfFmt3
    <3> QED
      BY <3>2 DEF Fmt3Does
  <2>2. /\ s.init /\ s.len = b.len /\ s.kind = b.kind /\ s.delta = b.delta /\ s.ext = b.ext
        /\ s.got = Given(b) /\ s.payload = SubSeq(Payload(b.id, b.len), 1, Given(b))
        /\ ~drift => s.ts = b.ts
    <3>1. b.init /\ s.init = b.init
      BY <1>1 DEF Match
    <3> QED
      BY <1>1, <3>1 DEF Match
  <2>3. /\ h.len = b.len /\ h.kind = b.kind /\ h.delta = b.delta /\ h.ext = b.ext
        /\ b.rest = <<>> => h.ts = (b.ts + b.delta) % TimeMod
        /\ b.rest # <<>> => h.ts = b.ts /\ h.id = b.id
    BY <1>1 DEF HeaderMoves
  <2>4. CASE b.rest = <<>> /\ s.len > 0
    <3>1. Given(b) = 0 /\ s.len > 0
      BY <2>4 DEF Given
    <3>2. m.state = [s EXCEPT !.ts = (s.ts + s.delta) % TimeMod, !.payload = <<>>]
      BY <2>1, <2>2, <3>1 DEF ReusesHeader
    <3>3. /\ m.state.init = s.init /\ m.state.len = s.len /\ m.state.kind = s.kind
          /\ m.state.delta = s.delta /\ m.state.ext = s.ext /\ m.state.got = s.got
          /\ m.state.payload = <<>> /\ m.state.ts = (s.ts + s.delta) % TimeMod
      BY <3>2 DEF States
    <3>4. SubSeq(Payload(h.id, h.len), 1, Given(b)) = <<>>
      BY <3>1, SubSeqEmpty
    <3>5. /\ m.state.init /\ m.state.len = h.len /\ m.state.kind = h.kind
          /\ m.state.delta = h.delta /\ m.state.ext = h.ext
      BY <2>2, <2>3, <3>3
    <3>6. m.state.got = Given(b) /\ m.state.payload = SubSeq(Payload(h.id, h.len), 1, Given(b))
      BY <2>2, <3>3, <3>4
    <3>7. ~drift => m.state.ts = h.ts
      BY <1>1, <2>2, <2>3, <2>4, <3>3
    <3> QED
      BY <1>1, <3>5, <3>6, <3>7 DEF HeaderIs
  <2>6. CASE b.rest = <<>> /\ ~(s.len > 0)
    <3>1. Given(b) = 0 /\ s.len = 0
      BY <2>6 DEF Given, States
    <3>2. m.state = s
      BY <2>1, <2>6 DEF ReusesHeader
    <3>3. SubSeq(Payload(h.id, h.len), 1, Given(b)) = <<>>
      BY <3>1, SubSeqEmpty
    <3>4. s.payload = <<>>
      BY <2>2, <3>1, SubSeqEmpty
    <3>5. ~drift /\ ~SkipsDelta(s, fmt) => s.ts = h.ts
      <4>1. SUFFICES ASSUME ~drift, ~SkipsDelta(s, fmt) PROVE s.ts = h.ts
        OBVIOUS
      <4>2. s.delta = 0
        BY <1>1, <3>1, <4>1 DEF SkipsDelta
      <4>3. h.ts = (b.ts + 0) % TimeMod /\ s.ts = b.ts
        BY <2>2, <2>3, <2>6, <4>1, <4>2
      <4>4. b.ts \in 0 .. TimeMod - 1 /\ TimeMod \in Nat \ {0}
        BY TimesAssumption DEF Headers, Time
      <4>5. \A x \in 0 .. TimeMod - 1 : (x + 0) % TimeMod = x
        BY <4>4
      <4> QED
        BY <4>3, <4>4, <4>5
    <3>6. /\ m.state.init /\ m.state.len = h.len /\ m.state.kind = h.kind
          /\ m.state.delta = h.delta /\ m.state.ext = h.ext
      BY <2>2, <2>3, <3>2
    <3>7. m.state.got = Given(b) /\ m.state.payload = SubSeq(Payload(h.id, h.len), 1, Given(b))
      BY <2>2, <3>2, <3>3, <3>4
    <3>8. ~drift /\ ~SkipsDelta(m.state, fmt) => m.state.ts = h.ts
      BY <3>2, <3>5
    <3> QED
      BY <1>1, <3>6, <3>7, <3>8 DEF HeaderIs
  <2>5. CASE b.rest # <<>>
    <3>1. s.got > 0
      BY <2>2, <2>5, GivenType
    <3>2. m.state = s
      BY <2>1, <3>1 DEF ReusesHeader
    <3> QED
      BY <1>1, <2>2, <2>3, <2>5, <3>2 DEF HeaderIs
  <2> QED
    BY <2>4, <2>5, <2>6
<1>2. CASE fmt \in {0, 1, 2}
  <2>1. m.used > 0
    BY <1>2 DEF fmt3_without_extra_header
  <2>2. PICK r, w : r = ReadHeader(s, fmt, c) /\ w = WholeHeader(s, fmt, c)
    OBVIOUS
  <2>3. m.state = w
    BY <1>2, <2>1, <2>2, HeaderOfFmt012
  <2>4. FieldsAre(s, fmt, c, r, w)
    BY <1>2, <2>2, HeaderFields
  <2>5. b.rest = <<>> /\ Given(b) = 0
    BY <1>2, GivenType DEF HeaderMoves
  <2>6. SubSeq(Payload(h.id, h.len), 1, Given(b)) = <<>>
    BY <2>5, SubSeqEmpty
  <2>7. w.init /\ w.got = Given(b) /\ w.payload = SubSeq(Payload(h.id, h.len), 1, Given(b))
    BY <2>4, <2>5, <2>6 DEF FieldsAre
  <2>8. w.len = h.len /\ w.kind = h.kind
    <3>1. fmt = 2 => s.len = b.len /\ s.kind = b.kind
      BY DEF Match
    <3> QED
      BY <1>2, <2>4, <3>1 DEF FieldsAre, HeaderMoves
  <2>9. w.ext = h.ext
    BY <1>2, <2>4 DEF FieldsAre, HeaderMoves
  <2>10. w.delta = h.delta
    BY <1>2, <2>4 DEF FieldsAre, HeaderMoves
  <2>11. ~(fmt # 0 /\ drift) => w.ts = h.ts
    <3>1. CASE fmt = 0
      BY <2>4, <3>1 DEF FieldsAre, HeaderMoves
    <3>2. CASE fmt # 0 /\ ~drift
      <4>1. s.ts = b.ts
        BY <3>2 DEF Match
      <4>2. w.ts = (s.ts + c.time) % TimeMod
        BY <2>4, <3>2 DEF FieldsAre
      <4>3. h.ts = (b.ts + c.time) % TimeMod
        BY <1>2, <3>2 DEF HeaderMoves
      <4> QED
        BY <4>1, <4>2, <4>3
    <3> QED
      BY <3>1, <3>2
  <2> QED
    BY <2>3, <2>7, <2>8, <2>9, <2>10, <2>11 DEF HeaderIs
<1> QED
  BY <1>1, <1>2

(* The state of a chunk stream after the payload of a chunk joined it. *)
Joined(s, c, take) == [s EXCEPT !.got = @ + take, !.payload = @ \o c.data]

(* The state when the message is complete. *)
Emptied(t) == [t EXCEPT !.got = 0, !.payload = <<>>]

(* The payload of a chunk takes the chunk stream to the peer's next header. *)
LEMMA JoinMatches ==
  ASSUME NEW s \in States, NEW b \in Headers, NEW c \in Chunks, NEW h \in Headers,
         NEW drift \in BOOLEAN, NEW size \in Nat, size > 0, NEW t, t = Joined(s, c, Len(c.data)),
         GoodHeader(b), GoodHeader(h), PayloadMoves(b, c, size, h), HeaderIs(s, b, h, drift),
         Given(b) <= h.len, h.init
  PROVE  /\ t \in States /\ Emptied(t) \in States
         /\ t.ts = s.ts /\ t.len = h.len /\ t.kind = h.kind
         /\ t.got < t.len <=> h.rest # <<>>
         /\ h.rest # <<>> => Match(t, h, 4, drift)
         /\ h.rest = <<>> => Match(Emptied(t), h, 4, drift) /\ t.payload = Payload(h.id, h.len)
<1>1. /\ Given(b) \in Nat /\ h.len \in Nat /\ h.id \in Nat /\ Len(c.data) \in Nat
      /\ Len(h.rest) \in Nat /\ s.payload \in Seq(Bytes) /\ c.data \in Seq(Bytes)
      /\ h.init \in BOOLEAN /\ s.got \in Nat
  BY GivenType DEF Headers, Chunks, States
<1>2. PICK g \in Nat, k \in Nat : g = Given(b) /\ k = Len(c.data)
  BY <1>1
<1>3. g + k <= h.len /\ Len(h.rest) = h.len - g - k
  BY <1>1, <1>2 DEF PayloadMoves, SmallerOf
<1>4. SubSeq(Payload(h.id, h.len), 1, g) \o SubSeq(Payload(h.id, h.len), g + 1, g + k)
        = SubSeq(Payload(h.id, h.len), 1, g + k)
  <2>1. g + k \in Nat /\ g <= g + k
    BY <1>1, <1>2
  <2>2. PICK i \in Nat, l \in Nat, j \in Nat : i = h.id /\ l = h.len /\ j = g + k
    BY <1>1, <2>1
  <2>3. PartsFit(i, l, g, j)
    BY <1>3, <2>1, <2>2, Parts
  <2> QED
    BY <2>2, <2>3 DEF PartsFit
<1>5. /\ t = [s EXCEPT !.got = s.got + k, !.payload = s.payload \o c.data]
  BY <1>2 DEF Joined
<1>6. s.payload \o c.data \in Seq(Bytes) /\ s.got + k \in Nat
  BY <1>1
<1>7. t \in States
  BY <1>5, <1>6 DEF States
<1>8. /\ t.ts = s.ts /\ t.len = s.len /\ t.kind = s.kind /\ t.init = s.init
      /\ t.delta = s.delta /\ t.ext = s.ext
      /\ t.got = s.got + k /\ t.payload = s.payload \o c.data
  BY <1>5 DEF States
<1>9. t.got = g + k /\ t.payload = SubSeq(Payload(h.id, h.len), 1, g + k)
  BY <1>2, <1>4, <1>8 DEF HeaderIs, PayloadMoves
<1>10. h.rest # <<>> <=> Len(h.rest) > 0
  BY <1>1, EmptySeq DEF Headers
<1>11. t.got < t.len <=> h.rest # <<>>
  BY <1>1, <1>3, <1>8, <1>9, <1>10 DEF HeaderIs
<1>12. h.init
  OBVIOUS
<1>13. h.rest # <<>> => Match(t, h, 4, drift)
  <2>1. h.rest # <<>> => Given(h) = g + k
    BY <1>1, <1>3 DEF Given
  <2> QED
    BY <1>8, <1>9, <1>12, <2>1 DEF Match, HeaderIs, States, Headers
<1>14. PICK e \in States : e = Emptied(t)
  BY <1>7, EmptySeq DEF Emptied, States
<1>15. /\ e.ts = t.ts /\ e.len = t.len /\ e.kind = t.kind /\ e.init = t.init
       /\ e.delta = t.delta /\ e.ext = t.ext /\ e.got = 0 /\ e.payload = <<>>
  BY <1>7, <1>14 DEF Emptied, States
<1>16. h.rest = <<>> => Match(e, h, 4, drift) /\ t.payload = Payload(h.id, h.len)
  <2>1. h.rest = <<>> => Given(h) = 0 /\ g + k = h.len
    <3>1. h.rest = <<>> => Len(h.rest) = 0
      BY <1>1, <1>10
    <3>2. h.rest = <<>> => g + k = h.len
      <4>1. PICK l \in Nat, r \in Nat : l = h.len /\ r = Len(h.rest)
        BY <1>1
      <4>2. r = (l - g) - k
        BY <1>3, <4>1
      <4>3. r = 0 => g + k = l
        BY ONLY g \in Nat, k \in Nat, l \in Nat, <4>2
      <4> QED
        BY <3>1, <4>1, <4>3
    <3> QED
      BY <3>2 DEF Given
  <2>2. /\ SubSeq(Payload(h.id, h.len), 1, 0) = <<>>
        /\ SubSeq(Payload(h.id, h.len), 1, h.len) = Payload(h.id, h.len)
    <3>1. PICK i \in Nat, l \in Nat : i = h.id /\ l = h.len
      BY <1>1
    <3>2. 0 <= l /\ l <= l
      BY <3>1
    <3>3. PartsFit(i, l, 0, l)
      BY <3>2, Parts
    <3> QED
      BY <3>1, <3>3 DEF PartsFit
  <2> QED
    BY <1>8, <1>9, <1>12, <1>15, <2>1, <2>2 DEF Match, HeaderIs, States, Headers
<1> QED
  BY <1>7, <1>8, <1>11, <1>13, <1>14, <1>16 DEF HeaderIs

-----------------------------------------------------------------------------
(* Paths.                                                                    *)

(* The sequence s continues as t. *)
Continues(s, t) == Len(s) <= Len(t) /\ \A i \in 1 .. Len(s) : t[i] = s[i]

(* Further messages do not change what was sent before. *)
LEMMA LinkContinues ==
  ASSUME NEW s \in Seq(Sent), NEW t \in Seq(Sent), Continues(s, t), NEW u \in Points,
         NEW v \in Points, NEW c, Link(u, c, v, s)
  PROVE  Link(u, c, v, t)
<1>1. PICK csid, fmt : csid = CsidOf(c.basic) /\ fmt = FmtOf(c.basic)
  OBVIOUS
<1>2. u.n \in Nat /\ Len(s) \in Nat /\ Len(t) \in Nat
  BY DEF Points
<1>3. ASSUME NEW h, MessageMoves(u, csid, h, v, s) PROVE MessageMoves(u, csid, h, v, t)
  <2>1. CASE h.rest # <<>>
    BY <1>3, <2>1 DEF MessageMoves
  <2>2. CASE h.rest = <<>>
    <3>1. v.n = u.n + 1 /\ v.n <= Len(s)
      BY <1>3, <2>2 DEF MessageMoves
    <3>2. v.n <= Len(t) /\ t[v.n] = s[v.n]
      BY <1>2, <3>1 DEF Continues
    <3> QED
      BY <1>3, <2>2, <3>1, <3>2 DEF MessageMoves
  <2> QED
    BY <2>1, <2>2
<1>4. Proper(u, c, csid, fmt, v, s) => Proper(u, c, csid, fmt, v, t)
  BY <1>3 DEF Proper
<1> QED
  BY <1>1, <1>4 DEF Link

(* The points q behind point u, along the chunks out. *)
Chain(u, out, q, s) ==
  /\ Len(q) = Len(out) /\ out # <<>> /\ \A i \in 1 .. Len(q) : GoodPoint(q[i])
  /\ Link(u, out[1], q[1], s)
  /\ \A i \in 1 .. Len(q) - 1 : Link(q[i], out[i + 1], q[i + 1], s)

(* The path r leads from u to v. *)
Leads(r, chunks, s, u, v) ==
  r \in Seq(Points) /\ Path(r, chunks, s) /\ r[1] = u /\ r[Len(r)] = v

(* A path that is continued. *)
LEMMA PathConcat ==
  ASSUME NEW p \in Seq(Points), NEW chunks \in Seq(Chunks), NEW s \in Seq(Sent),
         NEW t \in Seq(Sent), Path(p, chunks, s), Continues(s, t),
         NEW q \in Seq(Points), NEW out \in Seq(Chunks), Chain(p[Len(p)], out, q, t)
  PROVE  Leads(p \o q, chunks \o out, t, p[1], q[Len(q)])
<1>0. /\ Len(q) = Len(out) /\ out # <<>> /\ \A i \in 1 .. Len(q) : GoodPoint(q[i])
      /\ Link(p[Len(p)], out[1], q[1], t)
      /\ \A i \in 1 .. Len(q) - 1 : Link(q[i], out[i + 1], q[i + 1], t)
  BY DEF Chain
<1>1. /\ p \o q \in Seq(Points) /\ Len(p \o q) = Len(p) + Len(q)
      /\ \A i \in 1 .. Len(p) : (p \o q)[i] = p[i]
      /\ \A i \in Len(p) + 1 .. Len(p) + Len(q) : (p \o q)[i] = q[i - Len(p)]
  BY ONLY p \in Seq(Points), q \in Seq(Points), ConcatProperties
<1>2. /\ Len(chunks \o out) = Len(chunks) + Len(out)
      /\ \A i \in 1 .. Len(chunks) : (chunks \o out)[i] = chunks[i]
      /\ \A i \in Len(chunks) + 1 .. Len(chunks) + Len(out) :
           (chunks \o out)[i] = out[i - Len(chunks)]
  BY ConcatProperties
<1>3. PICK k \in Nat, l \in Nat : k = Len(chunks) /\ l = Len(out) /\ Len(p) = k + 1 /\ Len(q) = l /\ l >= 1
  BY <1>0, EmptySeq DEF Path
<1>4. \A i \in 1 .. Len(p \o q) : GoodPoint((p \o q)[i])
  <2> SUFFICES ASSUME NEW i \in 1 .. Len(p \o q) PROVE GoodPoint((p \o q)[i])
    OBVIOUS
  <2>1. CASE i <= k + 1
    BY <1>1, <1>3, <2>1 DEF Path
  <2>2. CASE i > k + 1
    BY <1>0, <1>1, <1>3, <2>2
  <2> QED
    BY <1>1, <1>3, <2>1, <2>2
<1>5. \A i \in 1 .. Len(chunks \o out) : Link((p \o q)[i], (chunks \o out)[i], (p \o q)[i + 1], t)
  <2> SUFFICES ASSUME NEW i \in 1 .. k + l
               PROVE  Link((p \o q)[i], (chunks \o out)[i], (p \o q)[i + 1], t)
    BY <1>2, <1>3
  <2>1. CASE i <= k
    <3>1. (p \o q)[i] = p[i] /\ (p \o q)[i + 1] = p[i + 1] /\ (chunks \o out)[i] = chunks[i]
      BY <1>1, <1>2, <1>3, <2>1
    <3>2. Link(p[i], chunks[i], p[i + 1], s) /\ p[i] \in Points /\ p[i + 1] \in Points
      BY <1>3, <2>1 DEF Path, GoodPoint
    <3>3. Link(p[i], chunks[i], p[i + 1], t)
      BY <3>2, LinkContinues
    <3> QED
      BY <3>1, <3>3
  <2>2. CASE i = k + 1
    <3>1. (p \o q)[i] = p[Len(p)] /\ (p \o q)[i + 1] = q[1] /\ (chunks \o out)[i] = out[1]
      BY <1>1, <1>2, <1>3, <2>2
    <3> QED
      BY <1>0, <3>1
  <2>3. CASE i > k + 1
    <3>1. PICK j \in 1 .. l - 1 : i = k + 1 + j
      <4>1. i - k - 1 \in 1 .. l - 1 /\ i = k + 1 + (i - k - 1)
        BY <1>3, <2>3
      <4> QED
        BY <4>1
    <3>2. (p \o q)[i] = q[j] /\ (p \o q)[i + 1] = q[j + 1] /\ (chunks \o out)[i] = out[j + 1]
      BY <1>1, <1>2, <1>3, <3>1
    <3> QED
      BY <1>0, <1>3, <3>2
  <2> QED
    BY <1>3, <2>1, <2>2, <2>3
<1>6. (p \o q)[1] = p[1] /\ (p \o q)[Len(p \o q)] = q[Len(q)]
  BY <1>1, <1>3
<1>7. Len(p \o q) = Len(chunks \o out) + 1
  BY <1>1, <1>2, <1>3
<1> QED
  BY <1>1, <1>4, <1>5, <1>6, <1>7 DEF Path, Leads

(* A path without its first point. *)
LEMMA PathTail ==
  ASSUME NEW p \in Seq(Points), NEW chunks \in Seq(Chunks), NEW s \in Seq(Sent),
         Path(p, chunks, s), chunks # <<>>
  PROVE  /\ Path(Tail(p), Tail(chunks), s) /\ Tail(p) \in Seq(Points)
         /\ Tail(p)[1] = p[2] /\ Tail(p)[Len(Tail(p))] = p[Len(p)]
         /\ Link(p[1], Head(chunks), p[2], s) /\ GoodPoint(p[1]) /\ GoodPoint(p[2])
<1>1. PICK k \in Nat : k = Len(chunks) /\ k >= 1 /\ Len(p) = k + 1
  BY EmptySeq DEF Path
<1>2. p # <<>>
  BY <1>1, EmptySeq
<1>3. /\ Tail(p) \in Seq(Points) /\ Len(Tail(p)) = k
      /\ \A i \in 1 .. k : Tail(p)[i] = p[i + 1]
  BY <1>1, <1>2, HeadTailProperties
<1>4. /\ Tail(chunks) \in Seq(Chunks) /\ Len(Tail(chunks)) = k - 1
      /\ \A i \in 1 .. k - 1 : Tail(chunks)[i] = chunks[i + 1]
  BY <1>1, HeadTailProperties
<1>5. \A i \in 1 .. Len(Tail(p)) : GoodPoint(Tail(p)[i])
  BY <1>1, <1>3 DEF Path
<1>6. \A i \in 1 .. Len(Tail(chunks)) : Link(Tail(p)[i], Tail(chunks)[i], Tail(p)[i + 1], s)
  <2> SUFFICES ASSUME NEW i \in 1 .. k - 1
               PROVE  Link(Tail(p)[i], Tail(chunks)[i], Tail(p)[i + 1], s)
    BY <1>4
  <2>1. Tail(p)[i] = p[i + 1] /\ Tail(p)[i + 1] = p[i + 1 + 1] /\ Tail(chunks)[i] = chunks[i + 1]
    BY <1>1, <1>3, <1>4
  <2>2. Link(p[i + 1], chunks[i + 1], p[i + 1 + 1], s)
    BY <1>1 DEF Path
  <2> QED
    BY <2>1, <2>2
<1>7. Path(Tail(p), Tail(chunks), s)
  BY <1>3, <1>4, <1>5, <1>6 DEF Path
<1>8. Tail(p)[1] = p[2] /\ Tail(p)[Len(Tail(p))] = p[Len(p)]
  BY <1>1, <1>3
<1>9. Head(chunks) = chunks[1]
  OBVIOUS
<1>10. Link(p[1], chunks[1], p[2], s) /\ GoodPoint(p[1]) /\ GoodPoint(p[2])
  <2>1. 1 \in 1 .. Len(chunks) /\ 1 + 1 = 2 /\ 1 \in 1 .. Len(p) /\ 2 \in 1 .. Len(p)
    BY <1>1
  <2>2. Link(p[1], chunks[1], p[1 + 1], s)
    BY <2>1 DEF Path
  <2> QED
    BY <2>1, <2>2 DEF Path
<1> QED
  BY <1>3, <1>7, <1>8, <1>9, <1>10

-----------------------------------------------------------------------------
(* The peer.                                                                 *)

(* Agreement with a chunk that was not parsed at all is agreement. *)
LEMMA MatchAny ==
  ASSUME NEW s, NEW b, NEW f \in 0 .. 4, NEW drift, Match(s, b, 4, drift)
  PROVE  Match(s, b, f, drift)
BY DEF Match

(* Formats are formats. *)
LEMMA HeadFmtType ==
  ASSUME NEW chunks \in Seq(Chunks), NEW csid, \A i \in 1 .. Len(chunks) : BasicOK(chunks[i])
  PROVE  HeadFmt(chunks, csid) \in 0 .. 4
<1>1. CASE chunks = <<>>
  BY <1>1 DEF HeadFmt
<1>2. CASE chunks # <<>>
  <2>1. BasicOK(chunks[1])
    BY <1>2, EmptySeq
  <2>2. FmtOf(chunks[1].basic) \in 0 .. 4
    BY <2>1 DEF BasicOK
  <2> QED
    BY <2>2 DEF HeadFmt
<1> QED
  BY <1>1, <1>2

(* What the peer's steps leave alone, and the types of what they change. *)
PeerChanges ==
  /\ UNCHANGED <<version, arrived, parserVars, pc>>
  /\ started' \in 0 .. MaxMessages /\ peerSize' \in Sizes /\ coming' \in Nat
  /\ sent' \in Seq(Sent) /\ Continues(sent, sent')

(* What was parsed stays as it was sent when the peer sends more. *)
LEMMA PeerAsSent ==
  ASSUME Types, AsSent, PeerChanges
  PROVE  AsSent'
<1>1. UNCHANGED <<pc, past, messages, dropped>>
  BY DEF PeerChanges, parserVars
<1>6. BehindRefused'
  BY <1>1 DEF AsSent, BehindRefused
<1>2. Len(sent) <= Len(sent') /\ \A i \in 1 .. Len(sent) : sent'[i] = sent[i]
  BY DEF PeerChanges, Continues
<1>3. PICK k \in Nat : k = Len(past) + Len(messages)
  BY DEF Types
<1>4. k <= Len(sent) /\ Len(sent) \in Nat /\ Len(sent') \in Nat
  BY <1>3 DEF AsSent, Types, PeerChanges
<1>5. \A i \in 1 .. k : sent'[i] = sent[i]
  BY <1>2, <1>4
<1> QED
  BY <1>1, <1>2, <1>3, <1>4, <1>5, <1>6 DEF AsSent

(* The peer sends the chunks out along the points q. *)
LEMMA PeerExtends ==
  ASSUME Inv, pc = "idle", PeerChanges,
         NEW p \in Seq(Points), Simulates(p),
         NEW q \in Seq(Points), NEW out \in Seq(Chunks), Chain(p[Len(p)], out, q, sent'),
         q[Len(q)].talk = talk', q[Len(q)].size = peerSize', q[Len(q)].n = Len(sent'),
         q[Len(q)].off = p[Len(p)].off + (coming' - coming),
         net' = net \o out
  PROVE  Inv'
<1>1. Types /\ Phases /\ AsSent /\ LeftOK
  BY DEF Inv
<1>2. /\ pc' = pc /\ version' = version /\ arrived' = arrived /\ handshake' = handshake
      /\ replies' = replies /\ streams' = streams /\ inChunkSize' = inChunkSize
      /\ messages' = messages /\ past' = past /\ drifted' = drifted /\ resized' = resized
      /\ dropped' = dropped /\ stale' = stale
  BY DEF PeerChanges, parserVars
<1>3. net \in Seq(Chunks) /\ sent \in Seq(Sent)
  BY <1>1 DEF Types
<1>4. net' \in Seq(Chunks)
  BY <1>3
<1>5. Types'
  <2>1. TypeOK'
    BY <1>1, <1>2 DEF Types, TypeOK, PeerChanges, Sizes
  <2> QED
    BY <1>1, <1>2, <1>4, <2>1 DEF Types, PeerChanges
<1>6. Phases'
  BY <1>1, <1>2 DEF Phases
<1>7. AsSent'
  BY <1>1, PeerAsSent
<1>8. Path(p, net, sent) /\ AtPeer(p[1], p[Len(p)]) /\ AtParser(p[1]) /\ SizeAt(p[1])
  BY DEF Simulates
<1>9. /\ Path(p \o q, net', sent') /\ p \o q \in Seq(Points)
      /\ (p \o q)[1] = p[1] /\ (p \o q)[Len(p \o q)] = q[Len(q)]
  <2>1. PICK t \in Seq(Sent) : t = sent' /\ Continues(sent, t)
    BY DEF PeerChanges
  <2>2. Path(p, net, sent) /\ Chain(p[Len(p)], out, q, t)
    BY <1>8, <2>1
  <2>3. Leads(p \o q, net \o out, t, p[1], q[Len(q)])
    BY <1>3, <2>1, <2>2, PathConcat
  <2> QED
    BY <2>1, <2>3 DEF Leads
<1>10. /\ net # <<>> => net'[1] = net[1] /\ Head(net') = Head(net)
       /\ net = <<>> => net'[1] = out[1] /\ Head(net') = out[1]
       /\ net' # <<>>
  BY <1>3, EmptySeq DEF Chain
<1>11. BasicOK(out[1]) /\ ChunkBytes(out[1]) >= 1 /\ ChunkBytes(out[1]) \in Nat
  <2>1. BasicOK(out[1]) /\ out[1] \in Chunks
    BY DEF Link, Chain
  <2> QED
    BY <2>1, ChunkBytesType
<1>12. p[1] \in Points /\ p[Len(p)] \in Points /\ p[1].off \in Nat /\ p[Len(p)].off \in Nat
  <2>1. Len(p) \in Nat /\ Len(p) >= 1
    BY <1>3, <1>8 DEF Path
  <2>2. p[1] \in Points /\ p[Len(p)] \in Points
    BY <2>1
  <2> QED
    BY <2>2 DEF Points
<1>13. arrived \in Nat /\ coming \in Nat /\ coming' \in Nat
  BY <1>1 DEF Types, TypeOK, PeerChanges
<1>14. LeftOK'
  <2>1. CASE net # <<>>
    BY <1>1, <1>2, <1>10, <2>1 DEF LeftOK, Left
  <2>2. CASE net = <<>>
    <3>1. handshake = "kHandshakeDone" => arrived = 0
      <4>1. Len(p) = 1
        BY <1>8, <2>2 DEF Path
      <4>2. handshake = "kHandshakeDone" => p[1].off = p[1].off + (arrived + coming - 0)
        BY <1>8, <4>1 DEF AtPeer, HandshakeLeft
      <4>3. PICK x \in Nat : x = p[1].off
        BY <1>12
      <4>4. handshake = "kHandshakeDone" => x = x + (arrived + coming - 0)
        BY <4>2, <4>3
      <4> QED
        BY <1>13, <4>3, <4>4
    <3> QED
      BY <1>2, <1>10, <1>11, <2>2, <3>1 DEF LeftOK, Left
  <2> QED
    BY <2>1, <2>2
<1>15. AtPeer(p[1], q[Len(q)])'
  <2>1. HandshakeLeft' = HandshakeLeft
    BY <1>2 DEF HandshakeLeft
  <2>2. HandshakeLeft \in Nat
    BY <1>1, SizesAssumption DEF HandshakeLeft
  <2>3. p[Len(p)].off = p[1].off + (arrived + coming - HandshakeLeft)
    BY <1>8 DEF AtPeer
  <2>4. q[Len(q)].off = p[1].off + (arrived + coming' - HandshakeLeft)
    <3>1. PICK x \in Nat, y \in Nat : x = p[1].off /\ y = p[Len(p)].off
      BY <1>12
    <3>2. y = x + (arrived + coming - HandshakeLeft) /\ q[Len(q)].off = y + (coming' - coming)
      BY <2>3, <3>1
    <3>3. \A a, n, m, w \in Nat : (x + (a + n - w)) + (m - n) = x + (a + m - w)
      BY ONLY x \in Nat
    <3>4. q[Len(q)].off = x + (arrived + coming' - HandshakeLeft)
      BY <1>13, <2>2, <3>2, <3>3
    <3> QED
      BY <3>1, <3>4
  <2> QED
    BY <1>2, <2>1, <2>4 DEF AtPeer
<1>16. AtParser(p[1])'
  <2>1. \A c \in Csids : Match(streams[c], p[1].talk[c], HeadFmt(net', c), c \in drifted)
    <3> SUFFICES ASSUME NEW c \in Csids
                 PROVE  Match(streams[c], p[1].talk[c], HeadFmt(net', c), c \in drifted)
      OBVIOUS
    <3>1. Match(streams[c], p[1].talk[c], HeadFmt(net, c), c \in drifted)
      BY <1>8 DEF AtParser
    <3>2. CASE net # <<>>
      BY <1>10, <3>1, <3>2 DEF HeadFmt
    <3>3. CASE net = <<>>
      <4>1. HeadFmt(net, c) = 4
        BY <3>3 DEF HeadFmt
      <4>2. HeadFmt(net', c) \in 0 .. 4
        BY <1>10, <1>11, <3>3 DEF HeadFmt, BasicOK
      <4>3. Match(streams[c], p[1].talk[c], 4, c \in drifted)
        BY <3>1, <4>1
      <4> QED
        BY <4>2, <4>3, MatchAny
    <3> QED
      BY <3>2, <3>3
  <2> QED
    BY <1>2, <1>8, <2>1 DEF AtParser
<1>17. SizeAt(p[1])'
  BY <1>2, <1>8 DEF SizeAt, Pending
<1>18. Simulates(p \o q)'
  BY <1>9, <1>15, <1>16, <1>17 DEF Simulates
<1> QED
  BY <1>5, <1>6, <1>7, <1>9, <1>14, <1>18 DEF Inv, Simulation

(* The peer's own state is that of the last point. *)
LEMMA PeerState ==
  ASSUME Inv, NEW p \in Seq(Points), Simulates(p)
  PROVE  /\ talk \in [Csids -> Headers] /\ \A c \in Csids : GoodHeader(talk[c])
         /\ peerSize \in Sizes /\ peerSize \in Nat /\ peerSize > 0
         /\ p[Len(p)] \in Points /\ p[Len(p)].talk = talk /\ p[Len(p)].size = peerSize
         /\ p[Len(p)].n = Len(sent) /\ p[Len(p)].off \in Nat
<1>1. Len(p) \in Nat /\ Len(p) >= 1 /\ GoodPoint(p[Len(p)])
  <2>1. net \in Seq(Chunks) /\ Len(p) = Len(net) + 1
    BY DEF Simulates, Path, Inv, Types
  <2>2. Len(p) \in 1 .. Len(p)
    BY <2>1
  <2> QED
    BY <2>1, <2>2 DEF Simulates, Path
<1>2. p[Len(p)].talk = talk /\ p[Len(p)].size = peerSize /\ p[Len(p)].n = Len(sent)
  BY DEF Simulates, AtPeer
<1>3. peerSize \in Nat /\ peerSize > 0 /\ peerSize \in Sizes
  <2>1. peerSize \in Sizes
    BY DEF Inv, Types, TypeOK, Sizes
  <2> QED
    BY <2>1, SizesAssumption DEF Sizes
<1> QED
  BY <1>1, <1>2, <1>3 DEF GoodPoint, Points

(* The peer sends one chunk, to point v. *)
LEMMA PeerExtendsByOne ==
  ASSUME Inv, pc = "idle", PeerChanges, NEW p \in Seq(Points), Simulates(p),
         NEW c \in Chunks, NEW v, GoodPoint(v), Link(p[Len(p)], c, v, sent'),
         v.talk = talk', v.size = peerSize', v.n = Len(sent'),
         coming' = coming + ChunkBytes(c), net' = Append(net, c)
  PROVE  Inv'
<1>1. PICK q \in Seq(Points), out \in Seq(Chunks) : q = <<v>> /\ out = <<c>>
  <2>1. v \in Points
    BY DEF GoodPoint
  <2>2. <<v>> \in Seq(Points) /\ <<c>> \in Seq(Chunks)
    BY <2>1
  <2> QED
    BY <2>2, Zenon
<1>2. /\ Len(q) = 1 /\ Len(out) = 1 /\ q[1] = v /\ out[1] = c /\ out # <<>>
      /\ q[Len(q)] = v
  BY <1>1
<1>3. Chain(p[Len(p)], out, q, sent')
  <2>1. \A i \in 1 .. Len(q) : GoodPoint(q[i])
    BY <1>2
  <2>2. \A i \in 1 .. Len(q) - 1 : Link(q[i], out[i + 1], q[i + 1], sent')
    BY <1>2
  <2> QED
    BY <1>2, <2>1, <2>2 DEF Chain
<1>4. net' = net \o out
  <2>1. net \in Seq(Chunks)
    BY DEF Inv, Types
  <2> QED
    BY <1>1, <2>1, AppendIsConcat
<1>5. v.off = p[Len(p)].off + (coming' - coming)
  <2>1. coming \in Nat /\ p[Len(p)].off \in Nat
    BY PeerState DEF Inv, Types, TypeOK
  <2>2. v.off = p[Len(p)].off + ChunkBytes(c) /\ ChunkBytes(c) \in Nat
    BY ChunkBytesType DEF Link
  <2>3. coming' - coming = ChunkBytes(c)
    BY <2>1, <2>2
  <2> QED
    BY <2>2, <2>3
<1> QED
  BY <1>2, <1>3, <1>4, <1>5, PeerExtends

(* The peer sends a chunk of a message. *)
LEMMA PeerSendsKeeps ==
  ASSUME Inv, PeerMaySend, started' \in 0 .. MaxMessages,
         NEW csid \in Csids, NEW fmt \in 0 .. 3, NEW c \in Chunks, BasicOK(c),
         CsidOf(c.basic) = csid, FmtOf(c.basic) = fmt, NEW h \in Headers, GoodHeader(h),
         HeaderMoves(talk[csid], c, fmt, h), PayloadMoves(talk[csid], c, peerSize, h),
         fmt = 0 \/ talk[csid].init, PeerSends(csid, c, h)
  PROVE  Inv'
<1>1. pc = "idle"
  BY DEF PeerMaySend
<1>2. PICK p \in Seq(Points) : Simulates(p)
  BY <1>1 DEF Inv, Simulation, Working
<1>3. /\ talk \in [Csids -> Headers] /\ \A d \in Csids : GoodHeader(talk[d])
      /\ peerSize \in Sizes /\ p[Len(p)] \in Points /\ p[Len(p)].talk = talk
      /\ p[Len(p)].size = peerSize /\ p[Len(p)].n = Len(sent) /\ p[Len(p)].off \in Nat
  BY <1>2, PeerState
<1>4. /\ talk' = [talk EXCEPT ![csid] = h] /\ net' = Append(net, c)
      /\ coming' = coming + ChunkBytes(c)
      /\ UNCHANGED <<version, arrived, parserVars, pc>>
  BY DEF PeerSends
<1>5. talk' \in [Csids -> Headers] /\ talk'[csid] = h /\ \A d \in Csids : GoodHeader(talk'[d])
  BY <1>3, <1>4
<1>6. ChunkBytes(c) \in Nat /\ coming' \in Nat
  BY <1>4, ChunkBytesType DEF Inv, Types, TypeOK
<1>7. sent \in Seq(Sent)
  BY DEF Inv, Types
<1>8. PICK m \in Sent : m = [csid |-> csid, ts |-> h.ts, len |-> h.len, kind |-> h.kind,
                             payload |-> Payload(h.id, h.len)]
  <2>1. Payload(h.id, h.len) \in Seq(Bytes)
    BY PayloadType DEF Headers
  <2> QED
    BY <2>1 DEF Sent, Headers
<1>9. /\ h.rest # <<>> => sent' = sent /\ peerSize' = peerSize
      /\ h.rest = <<>> => sent' = Append(sent, m)
      /\ h.rest = <<>> => peerSize' = (IF h.kind \in ChunkSizes THEN h.kind ELSE peerSize)
  BY <1>8 DEF PeerSends
<1>10. sent' \in Seq(Sent) /\ Continues(sent, sent')
  <2>1. CASE h.rest # <<>>
    BY <1>7, <1>9, <2>1 DEF Continues
  <2>2. CASE h.rest = <<>>
    <3>1. /\ sent' \in Seq(Sent) /\ Len(sent') = Len(sent) + 1
          /\ \A i \in 1 .. Len(sent) : sent'[i] = sent[i]
      <4>1. sent' = Append(sent, m)
        BY <1>9, <2>2
      <4>2. /\ Append(sent, m) \in Seq(Sent) /\ Len(Append(sent, m)) = Len(sent) + 1
            /\ \A i \in 1 .. Len(sent) : Append(sent, m)[i] = sent[i]
        BY ONLY <1>7, m \in Sent, AppendProperties
      <4> QED
        BY <4>1, <4>2
    <3> QED
      BY <1>7, <3>1 DEF Continues
  <2> QED
    BY <2>1, <2>2
<1>11. peerSize' \in Sizes
  BY <1>3, <1>9 DEF Sizes
<1>12. PeerChanges
  BY <1>4, <1>6, <1>10, <1>11 DEF PeerChanges
<1>13. PICK v : v = [talk |-> talk', size |-> peerSize', n |-> Len(sent'),
                     off |-> p[Len(p)].off + ChunkBytes(c)]
  OBVIOUS
<1>14. /\ v.talk = talk' /\ v.size = peerSize' /\ v.n = Len(sent')
       /\ v.off = p[Len(p)].off + ChunkBytes(c)
  BY <1>13
<1>15. GoodPoint(v)
  <2>1. v.off \in Nat /\ v.n \in Nat
    BY <1>3, <1>6, <1>10, <1>14
  <2>2. v \in Points
    BY <1>5, <1>11, <1>13, <1>14, <2>1 DEF Points
  <2> QED
    BY <1>5, <1>14, <2>2 DEF GoodPoint
<1>16. MessageMoves(p[Len(p)], csid, h, v, sent')
  <2>1. CASE h.rest # <<>>
    BY <1>3, <1>9, <1>14, <2>1 DEF MessageMoves
  <2>2. CASE h.rest = <<>>
    <3>1. v.n = Len(sent) + 1 /\ Len(sent') = Len(sent) + 1 /\ sent'[Len(sent) + 1] = m
      BY <1>7, <1>9, <1>14, <2>2, AppendProperties
    <3>2. v.n <= Len(sent') /\ sent'[v.n] = m /\ v.n = p[Len(p)].n + 1
      BY <1>3, <1>7, <3>1
    <3>3. /\ m.csid = csid /\ m.ts = h.ts /\ m.len = h.len /\ m.kind = h.kind
          /\ m.payload = Payload(h.id, h.len)
      BY <1>8
    <3>4. v.size = (IF h.kind \in ChunkSizes THEN h.kind ELSE p[Len(p)].size)
      BY <1>3, <1>9, <1>14, <2>2
    <3> QED
      BY <2>2, <3>2, <3>3, <3>4 DEF MessageMoves
  <2> QED
    BY <2>1, <2>2
<1>17. Proper(p[Len(p)], c, csid, fmt, v, sent')
  <2>1. v.talk = [p[Len(p)].talk EXCEPT ![csid] = h] /\ v.talk[csid] = h
    BY <1>3, <1>4, <1>5, <1>14
  <2>2. p[Len(p)].talk[csid] = talk[csid] /\ p[Len(p)].size = peerSize
    BY <1>3
  <2> QED
    BY <1>16, <2>1, <2>2 DEF Proper
<1>18. Link(p[Len(p)], c, v, sent')
  BY <1>14, <1>17 DEF Link
<1> QED
  BY <1>1, <1>2, <1>4, <1>12, <1>14, <1>15, <1>18, PeerExtendsByOne

(* A chunk that continues nothing. *)
LEMMA PeerErrsKeeps ==
  ASSUME Inv, NEW csid \in Csids, PeerErrs(csid)
  PROVE  Inv'
<1>1. pc = "idle" /\ ~talk[csid].init /\ started' = MaxMessages
  BY DEF PeerErrs, PeerMaySend
<1>2. PICK p \in Seq(Points) : Simulates(p)
  BY <1>1 DEF Inv, Simulation, Working
<1>3. /\ talk \in [Csids -> Headers] /\ \A d \in Csids : GoodHeader(talk[d])
      /\ peerSize \in Sizes /\ p[Len(p)] \in Points /\ p[Len(p)].talk = talk
      /\ p[Len(p)].size = peerSize /\ p[Len(p)].n = Len(sent) /\ p[Len(p)].off \in Nat
  BY <1>2, PeerState
<1>4. PICK c : c = Chunk(3, csid, 0, FALSE, 0, Media, <<>>)
  OBVIOUS
<1>5. 0 \in Time /\ Media \in Kinds /\ <<>> \in Seq(Bytes)
  BY TimesAssumption DEF Time, Kinds
<1>6. /\ c \in Chunks /\ BasicOK(c) /\ CsidOf(c.basic) = csid /\ FmtOf(c.basic) = 3
      /\ c.ext = FALSE /\ c.data = <<>> /\ Len(c.basic) = Len(appendBasicHeader(3, csid))
  <2>1. ChunkIs(c, 3, csid, 0, FALSE, 0, Media, <<>>)
    <3>1. 3 \in 0 .. 3 /\ FALSE \in BOOLEAN /\ 0 \in Nat
      OBVIOUS
    <3> QED
      BY <1>4, <1>5, <3>1, ChunkBasic, Zenon
  <2> QED
    BY <2>1 DEF ChunkIs
<1>7. ChunkBytes(c) = Len(appendBasicHeader(3, csid)) /\ ChunkBytes(c) \in Nat
  <2>1. HeaderSize[FmtOf(c.basic)] = 0 /\ ExtSize(c.ext) = 0 /\ Len(c.data) = 0
    BY <1>6, HeaderSizes DEF ExtSize
  <2>2. Len(c.basic) \in Nat
    BY <1>6 DEF BasicOK
  <2> QED
    BY <1>6, <2>1, <2>2 DEF ChunkBytes
<1>8. /\ net' = Append(net, c) /\ coming' = coming + ChunkBytes(c)
      /\ UNCHANGED <<version, talk, peerSize, sent, arrived, parserVars, pc>>
  BY <1>4, <1>7 DEF PeerErrs
<1>9. PeerChanges
  <2>1. sent \in Seq(Sent) /\ coming \in Nat
    BY DEF Inv, Types, TypeOK
  <2>2. started' \in 0 .. MaxMessages
    BY <1>1, BoundsAssumption
  <2> QED
    BY <1>3, <1>7, <1>8, <2>1, <2>2 DEF PeerChanges, Continues
<1>10. PICK v : v = [talk |-> talk, size |-> peerSize, n |-> Len(sent),
                     off |-> p[Len(p)].off + ChunkBytes(c)]
  OBVIOUS
<1>11. /\ v.talk = talk /\ v.size = peerSize /\ v.n = Len(sent)
       /\ v.off = p[Len(p)].off + ChunkBytes(c)
  BY <1>10
<1>12. GoodPoint(v)
  <2>1. v.off \in Nat /\ v.n \in Nat
    BY <1>3, <1>7, <1>11 DEF Inv, Types
  <2>2. v \in Points
    BY <1>3, <1>10, <1>11, <2>1 DEF Points
  <2> QED
    BY <1>3, <1>11, <2>2 DEF GoodPoint
<1>13. Link(p[Len(p)], c, v, sent')
  <2>1. Stray(p[Len(p)], csid, 3, v)
    BY <1>1, <1>3, <1>11 DEF Stray
  <2> QED
    BY <1>6, <1>11, <2>1 DEF Link
<1> QED
  BY <1>1, <1>2, <1>6, <1>8, <1>9, <1>11, <1>12, <1>13, PeerExtendsByOne

(* The sequence t is n bytes of s, those behind the first i. *)
IsPart(t, s, i, n) ==
  t \in Seq(Bytes) /\ Len(t) = n /\ \A k \in 1 .. n : t[k] = s[i + k]

(* SubSeq makes parts. *)
LEMMA SubSeqIsPart ==
  ASSUME NEW s \in Seq(Bytes), NEW i \in Nat, NEW n \in Nat, NEW j \in Nat, j = i + n,
         j <= Len(s)
  PROVE  IsPart(SubSeq(s, i + 1, j), s, i, n)
<1>1. \A k \in i + 1 .. j : s[k] \in Bytes
  BY ElementOfSeq
<1>2. /\ SubSeq(s, i + 1, j) \in Seq(Bytes)
      /\ Len(SubSeq(s, i + 1, j)) = (IF i + 1 <= j THEN j - (i + 1) + 1 ELSE 0)
      /\ \A k \in 1 .. j - (i + 1) + 1 : SubSeq(s, i + 1, j)[k] = s[i + 1 + k - 1]
  BY <1>1, SubSeqProperties
<1> QED
  BY <1>2 DEF IsPart

(* There is one such part. *)
LEMMA PartUnique ==
  ASSUME NEW s, NEW t, NEW u, NEW i, NEW n \in Nat, IsPart(t, s, i, n), IsPart(u, s, i, n)
  PROVE  t = u
BY SeqEqual DEF IsPart

(* A part of a part is a part. *)
LEMMA PartOfPart ==
  ASSUME NEW s, NEW t, NEW u, NEW i \in Nat, NEW n \in Nat, NEW k \in Nat, NEW m \in Nat,
         k + m <= n, IsPart(t, s, i, n), IsPart(u, t, k, m)
  PROVE  IsPart(u, s, i + k, m)
<1>1. ASSUME NEW l \in 1 .. m PROVE u[l] = s[i + k + l]
  <2>1. u[l] = t[k + l]
    BY DEF IsPart
  <2>2. k + l \in 1 .. n /\ i + (k + l) = i + k + l
    OBVIOUS
  <2>3. t[k + l] = s[i + (k + l)]
    BY <2>2 DEF IsPart
  <2> QED
    BY <2>1, <2>2, <2>3
<1> QED
  BY <1>1 DEF IsPart

(* The first bytes of the rest of a message, and what is left then. *)
Cuts(n, len, g, size, data, left) ==
  /\ data \in Seq(Bytes) /\ left \in Seq(Bytes) /\ Len(data) \in Nat
  /\ g < len => Len(data) > 0
  /\ Len(data) = SmallerOf(len - g, size)
  /\ data = SubSeq(Payload(n, len), g + 1, g + Len(data))
  /\ Len(left) = len - g - Len(data)
  /\ left = SubSeq(Payload(n, len), len - Len(left) + 1, len)

(* FirstBytes cuts the payload there. *)
LEMMA CutPayload ==
  ASSUME NEW n \in Nat, NEW len \in Nat, NEW g \in Nat, g <= len, NEW size \in Nat, size > 0,
         NEW rest, rest = SubSeq(Payload(n, len), g + 1, len),
         NEW data, data = FirstBytes(rest, size),
         NEW left, left = SubSeq(rest, Len(data) + 1, Len(rest))
  PROVE  Cuts(n, len, g, size, data, left)
<1>1. PICK s \in Seq(Bytes) : s = Payload(n, len) /\ Len(s) = len
  BY PayloadType
<1>2. PICK d \in Nat : d = len - g /\ len = g + d
  <2>1. len - g \in Nat /\ len = g + (len - g)
    OBVIOUS
  <2> QED
    BY <2>1
<1>3. IsPart(rest, s, g, d) /\ rest \in Seq(Bytes) /\ Len(rest) = d
  <2>1. len <= Len(s)
    BY <1>1
  <2>2. IsPart(SubSeq(s, g + 1, len), s, g, d)
    BY <1>1, <1>2, <2>1, SubSeqIsPart
  <2> QED
    BY <1>1, <2>2 DEF IsPart
<1>4. PICK k \in Nat, l \in Nat : k = SmallerOf(d, size) /\ (g < len => k > 0) /\ d = k + l
  <2>1. /\ SmallerOf(d, size) \in Nat /\ (g < len => SmallerOf(d, size) > 0)
        /\ d - SmallerOf(d, size) \in Nat /\ d = SmallerOf(d, size) + (d - SmallerOf(d, size))
    BY <1>2 DEF SmallerOf
  <2> QED
    BY <2>1
<1>5. data = SubSeq(rest, 1, k)
  BY <1>3, <1>4 DEF FirstBytes
<1>6. IsPart(data, rest, 0, k) /\ data \in Seq(Bytes) /\ Len(data) = k
  <2>1. 0 \in Nat /\ k = 0 + k /\ k <= Len(rest) /\ 0 + 1 = 1
    BY <1>3, <1>4
  <2>2. IsPart(SubSeq(rest, 0 + 1, k), rest, 0, k)
    BY <1>3, <2>1, SubSeqIsPart
  <2> QED
    BY <1>5, <2>1, <2>2 DEF IsPart
<1>7. data = SubSeq(s, g + 1, g + k)
  <2>1. IsPart(data, s, g + 0, k)
    <3>1. 0 \in Nat /\ 0 + k <= d
      BY <1>4
    <3> QED
      BY <1>3, <1>6, <3>1, PartOfPart
  <2>2. IsPart(SubSeq(s, g + 1, g + k), s, g, k)
    <3>1. PICK j \in Nat : j = g + k /\ j <= Len(s)
      BY <1>1, <1>2, <1>4
    <3>2. IsPart(SubSeq(s, g + 1, j), s, g, k)
      BY <3>1, SubSeqIsPart
    <3> QED
      BY <3>1, <3>2
  <2>3. IsPart(data, s, g, k)
    BY <2>1
  <2> QED
    BY <2>2, <2>3, PartUnique
<1>8. IsPart(left, rest, k, l) /\ left \in Seq(Bytes) /\ Len(left) = l
  <2>1. d <= Len(rest)
    BY <1>3
  <2>2. IsPart(SubSeq(rest, k + 1, d), rest, k, l)
    BY <1>3, <1>4, <2>1, SubSeqIsPart
  <2> QED
    BY <1>3, <1>6, <2>2 DEF IsPart
<1>9. left = SubSeq(s, g + k + 1, len)
  <2>1. PICK a \in Nat : a = g + k /\ len = a + l /\ len <= Len(s) /\ k + l <= d
    <3>1. g + k \in Nat /\ len = g + k + l /\ k + l <= d
      <4>1. d = k + l /\ len = g + d
        BY <1>2, <1>4
      <4> QED
        BY ONLY g \in Nat, k \in Nat, l \in Nat, d \in Nat, <4>1
    <3>2. len <= Len(s)
      BY <1>1
    <3> QED
      BY <3>1, <3>2
  <2>2. IsPart(left, s, a, l)
    BY <1>3, <1>8, <2>1, PartOfPart
  <2>3. IsPart(SubSeq(s, a + 1, len), s, a, l)
    BY <2>1, SubSeqIsPart
  <2>4. left = SubSeq(s, a + 1, len)
    BY <2>2, <2>3, PartUnique
  <2> QED
    BY <2>1, <2>4
<1>10. len - Len(left) + 1 = g + k + 1 /\ l = len - g - k
  <2>1. len = g + k + l
    BY ONLY g \in Nat, k \in Nat, l \in Nat, d \in Nat, <1>2, <1>4
  <2>2. (g + k + l) - l + 1 = g + k + 1 /\ l = (g + k + l) - g - k
    BY ONLY g \in Nat, k \in Nat, l \in Nat
  <2> QED
    BY <1>8, <2>1, <2>2
<1>11. data = SubSeq(Payload(n, len), g + 1, g + Len(data))
  BY <1>1, <1>6, <1>7
<1>12. left = SubSeq(Payload(n, len), len - Len(left) + 1, len)
  BY <1>1, <1>9, <1>10
<1> QED
  BY <1>2, <1>4, <1>6, <1>8, <1>10, <1>11, <1>12 DEF Cuts

(* The next chunk of a message. *)
LEMMA PeerContinuesKeeps ==
  ASSUME Inv, NEW csid \in Csids, PeerContinues(csid)
  PROVE  Inv'
<1>1. pc = "idle" /\ PeerMaySend
  BY DEF PeerContinues, PeerMaySend
<1>2. PICK p \in Seq(Points) : Simulates(p)
  BY <1>1 DEF Inv, Simulation, Working
<1>3. /\ talk \in [Csids -> Headers] /\ \A d \in Csids : GoodHeader(talk[d])
      /\ peerSize \in Nat /\ peerSize > 0
  BY <1>2, PeerState
<1>4. PICK b \in Headers : b = talk[csid] /\ GoodHeader(b)
  BY <1>3
<1>5. PICK data, left : data = FirstBytes(b.rest, peerSize)
                        /\ left = SubSeq(b.rest, Len(data) + 1, Len(b.rest))
  OBVIOUS
<1>6. PICK c, h : /\ c = Chunk(3, csid, 0, b.ext # 0, 0, Media, data)
                  /\ h = [b EXCEPT !.rest = left]
  OBVIOUS
<1>7. b.rest # <<>> /\ PeerSends(csid, c, h) /\ started' = started
  BY <1>4, <1>5, <1>6 DEF PeerContinues
<1>8. PICK n \in Nat, len \in Nat, g \in Nat :
        /\ n = b.id /\ len = b.len /\ g = Given(b) /\ g > 0 /\ g < len
        /\ Len(b.rest) = len - g /\ Len(b.rest) \in Nat
  <2>1. b.id \in Nat /\ b.len \in Nat /\ Len(b.rest) \in Nat
    BY DEF Headers
  <2>2. Given(b) \in Nat /\ Given(b) > 0 /\ Given(b) < b.len /\ Given(b) = b.len - Len(b.rest)
    BY <1>4, <1>7, GivenType
  <2>3. Len(b.rest) = b.len - Given(b)
    BY <2>1, <2>2
  <2> QED
    BY <2>1, <2>2, <2>3
<1>9. Cuts(n, len, g, peerSize, data, left)
  <2>1. b.rest = SubSeq(Payload(n, len), len - Len(b.rest) + 1, len)
    BY <1>4, <1>8 DEF GoodHeader
  <2>2. len - (len - g) + 1 = g + 1
    OBVIOUS
  <2>3. b.rest = SubSeq(Payload(n, len), g + 1, len)
    BY <1>8, <2>1, <2>2
  <2>4. g <= len
    BY <1>8
  <2> QED
    BY <1>3, <1>5, <1>8, <2>3, <2>4, CutPayload
<1>10. ChunkIs(c, 3, csid, 0, b.ext # 0, 0, Media, data)
  <2>1. 0 \in Time /\ Media \in Kinds /\ 3 \in 0 .. 3 /\ 0 \in Nat /\ (b.ext # 0) \in BOOLEAN
    BY TimesAssumption DEF Time, Kinds
  <2>2. data \in Seq(Bytes)
    BY <1>9 DEF Cuts
  <2> QED
    BY <1>6, <2>1, <2>2, ChunkBasic, Zenon
<1>11. h \in Headers
  <2>1. left \in Seq(Bytes)
    BY <1>9 DEF Cuts
  <2> QED
    BY <1>6, <2>1 DEF Headers
<1>12. /\ h.init = b.init /\ h.ts = b.ts /\ h.delta = b.delta /\ h.ext = b.ext /\ h.len = b.len
       /\ h.kind = b.kind /\ h.id = b.id /\ h.rest = left
  BY <1>6 DEF Headers
<1>13. b.init
  BY <1>4, <1>7 DEF GoodHeader
<1>14. GoodHeader(h)
  <2>1. Len(left) = len - g - Len(data) /\ Len(data) \in Nat /\ Len(data) > 0
        /\ left = SubSeq(Payload(n, len), len - Len(left) + 1, len)
    BY <1>8, <1>9 DEF Cuts
  <2>2. Len(left) < len
    BY <1>8, <2>1
  <2>3. h.init
    BY <1>12, <1>13
  <2> QED
    BY <1>8, <1>12, <2>1, <2>2, <2>3 DEF GoodHeader
<1>15. HeaderMoves(b, c, 3, h)
  BY <1>7, <1>12, <1>13 DEF HeaderMoves
<1>16. PayloadMoves(b, c, peerSize, h)
  BY <1>8, <1>9, <1>10, <1>12 DEF PayloadMoves, Cuts, ChunkIs
<1>17. started' \in 0 .. MaxMessages
  BY <1>7 DEF Inv, Types, TypeOK
<1>18. c \in Chunks /\ BasicOK(c) /\ CsidOf(c.basic) = csid /\ FmtOf(c.basic) = 3
  BY <1>10 DEF ChunkIs
<1> QED
  BY <1>1, <1>4, <1>7, <1>11, <1>13, <1>14, <1>15, <1>16, <1>17, <1>18, PeerSendsKeeps

(* The first chunk of a message. *)
LEMMA PeerStartsKeeps ==
  ASSUME Inv, NEW csid \in Csids, NEW fmt \in 0 .. 3, NEW time \in Time, NEW len \in Nat,
         NEW kind \in Kinds, PeerStarts(csid, fmt, time, len, kind)
  PROVE  Inv'
<1>1. pc = "idle" /\ PeerMaySend
  BY DEF PeerStarts, PeerMaySend
<1>2. PICK p \in Seq(Points) : Simulates(p)
  BY <1>1 DEF Inv, Simulation, Working
<1>3. /\ talk \in [Csids -> Headers] /\ \A d \in Csids : GoodHeader(talk[d])
      /\ peerSize \in Nat /\ peerSize > 0
  BY <1>2, PeerState
<1>4. PICK b \in Headers : b = talk[csid] /\ GoodHeader(b)
  BY <1>3
<1>5. /\ b.init \in BOOLEAN /\ b.ts \in Time /\ b.delta \in Time /\ b.ext \in Time
      /\ b.len \in Nat /\ b.kind \in Kinds /\ b.id \in Nat
  BY DEF Headers
<1>6. started \in Nat /\ started + 1 \in Nat
  BY DEF Inv, Types
<1>7. started < MaxMessages /\ started' = started + 1 /\ b.rest = <<>> /\ (fmt = 0 \/ b.init)
  BY <1>4 DEF PeerStarts
<1>8. PICK delta \in Time, ts \in Time, ext \in Time, l \in Nat, k \in Kinds, id \in Nat :
        /\ delta = (CASE fmt = 0 -> 0 [] fmt = 3 -> b.delta [] OTHER -> time)
        /\ ts = (CASE fmt = 0 -> time [] fmt = 3 -> (b.ts + b.delta) % TimeMod
                   [] OTHER -> (b.ts + time) % TimeMod)
        /\ ext = (IF fmt = 3 THEN b.ext ELSE IF time < ExtMark THEN 0 ELSE time)
        /\ l = (IF fmt \in {0, 1} THEN len ELSE b.len)
        /\ k = (IF fmt \in {0, 1} THEN kind ELSE b.kind)
        /\ id = started + 1
  <2>1. 0 \in Time /\ \A x \in Time, y \in Time : (x + y) % TimeMod \in Time
    BY TimesAssumption DEF Time
  <2>2. (CASE fmt = 0 -> 0 [] fmt = 3 -> b.delta [] OTHER -> time) \in Time
    BY <1>5, <2>1
  <2>3. (CASE fmt = 0 -> time [] fmt = 3 -> (b.ts + b.delta) % TimeMod
           [] OTHER -> (b.ts + time) % TimeMod) \in Time
    BY <1>5, <2>1
  <2>4. (IF fmt = 3 THEN b.ext ELSE IF time < ExtMark THEN 0 ELSE time) \in Time
    BY <1>5, <2>1
  <2>5. (IF fmt \in {0, 1} THEN len ELSE b.len) \in Nat
    BY <1>5
  <2>6. (IF fmt \in {0, 1} THEN kind ELSE b.kind) \in Kinds
    BY <1>5
  <2> QED
    BY <1>6, <2>2, <2>3, <2>4, <2>5, <2>6, Zenon
<1>9. PICK data, left : data = FirstBytes(Payload(id, l), peerSize)
                        /\ left = SubSeq(Payload(id, l), Len(data) + 1, l)
  OBVIOUS
<1>10. PICK c, h :
         /\ c = Chunk(fmt, csid, time, ext # 0, len, kind, data)
         /\ h = [init |-> TRUE, ts |-> ts, delta |-> delta, ext |-> ext, len |-> l, kind |-> k,
                 id |-> id, rest |-> left]
  OBVIOUS
<1>11. PeerSends(csid, c, h)
  <2>1. PICK g : g = [init |-> TRUE, delta |-> delta, ts |-> ts, ext |-> ext, len |-> l,
                      kind |-> k, id |-> id, rest |-> <<>>]
    OBVIOUS
  <2>2. PeerSends(csid, Chunk(fmt, csid, time, g.ext # 0, len, kind,
                              FirstBytes(Payload(g.id, g.len), peerSize)),
                  [g EXCEPT !.rest = SubSeq(Payload(g.id, g.len),
                     Len(FirstBytes(Payload(g.id, g.len), peerSize)) + 1, g.len)])
    BY ONLY PeerStarts(csid, fmt, time, len, kind), <1>4, <1>8, <2>1 DEF PeerStarts
  <2>3. g.ext = ext /\ g.id = id /\ g.len = l
    BY <2>1
  <2>4. h = [g EXCEPT !.rest = left]
    <3>1. PICK y : y = TRUE
      OBVIOUS
    <3>2. /\ h = [init |-> y, ts |-> ts, delta |-> delta, ext |-> ext, len |-> l, kind |-> k,
                  id |-> id, rest |-> left]
          /\ g = [init |-> y, delta |-> delta, ts |-> ts, ext |-> ext, len |-> l,
                  kind |-> k, id |-> id, rest |-> <<>>]
      BY <1>10, <2>1, <3>1
    <3> QED
      BY ONLY <3>2
  <2>5. PeerSends(csid, c, [g EXCEPT !.rest = left])
    BY <1>9, <1>10, <2>2, <2>3
  <2> QED
    BY <2>4, <2>5
<1>13. Cuts(id, l, 0, peerSize, data, left)
  <2>1. PICK s \in Seq(Bytes) : s = Payload(id, l) /\ Len(s) = l
    BY PayloadType
  <2>2. s = SubSeq(s, 0 + 1, l)
    BY <2>1, SubSeqFull
  <2>3. 0 \in Nat /\ 0 <= l
    OBVIOUS
  <2>4. left = SubSeq(s, Len(data) + 1, Len(s)) /\ data = FirstBytes(s, peerSize)
    BY <1>9, <2>1
  <2> QED
    BY <1>3, <2>1, <2>2, <2>3, <2>4, CutPayload
<1>14. data \in Seq(Bytes) /\ left \in Seq(Bytes)
  BY <1>13 DEF Cuts
<1>15. ChunkIs(c, fmt, csid, time, ext # 0, len, kind, data)
  <2>1. (ext # 0) \in BOOLEAN
    OBVIOUS
  <2> QED
    BY <1>10, <1>14, <2>1, ChunkBasic, Zenon
<1>16. h \in Headers
  <2>1. PICK y \in BOOLEAN : y = TRUE
    OBVIOUS
  <2>2. h = [init |-> y, ts |-> ts, delta |-> delta, ext |-> ext, len |-> l, kind |-> k,
             id |-> id, rest |-> left]
    BY <1>10, <2>1
  <2> QED
    BY <1>14, <2>2 DEF Headers
<1>17. /\ h.init = TRUE /\ h.ts = ts /\ h.delta = delta /\ h.ext = ext /\ h.len = l
       /\ h.kind = k /\ h.id = id /\ h.rest = left
  BY <1>10
<1>18. GoodHeader(h)
  <2>1. /\ Len(left) = l - 0 - Len(data) /\ Len(data) \in Nat /\ (0 < l => Len(data) > 0)
        /\ left = SubSeq(Payload(id, l), l - Len(left) + 1, l)
    BY <1>13 DEF Cuts
  <2>2. Len(left) \in Nat /\ (Len(left) = 0 => left = <<>>)
    BY <1>14, EmptySeq
  <2>3. Len(left) < l \/ Len(left) = 0
    BY <2>1, <2>2
  <2> QED
    BY <1>17, <2>1, <2>2, <2>3 DEF GoodHeader
<1>19. HeaderMoves(b, c, fmt, h)
  <2>1. c.time = time /\ c.ext = (ext # 0) /\ c.len = len /\ c.kind = kind
    BY <1>15 DEF ChunkIs
  <2>2. h.len = (IF fmt \in {0, 1} THEN c.len ELSE b.len)
        /\ h.kind = (IF fmt \in {0, 1} THEN c.kind ELSE b.kind)
    BY <1>8, <1>17, <2>1
  <2>3. fmt = 3 => h.delta = b.delta /\ h.ext = b.ext
                   /\ h.ts = (IF b.rest = <<>> THEN (b.ts + b.delta) % TimeMod ELSE b.ts)
    BY <1>7, <1>8, <1>17
  <2>4. fmt # 3 => h.ext = (IF c.ext THEN c.time ELSE 0)
    <3>1. CASE fmt # 3 /\ time < ExtMark
      BY <1>8, <1>17, <2>1, <3>1
    <3>2. CASE fmt # 3 /\ ~(time < ExtMark)
      <4>1. time # 0
        BY <3>2, TimesAssumption DEF Time
      <4> QED
        BY <1>8, <1>17, <2>1, <3>2, <4>1
    <3> QED
      BY <3>1, <3>2
  <2>5. fmt = 0 => h.delta = 0 /\ h.ts = c.time
    BY <1>8, <1>17, <2>1
  <2>6. fmt \in {1, 2} => h.delta = c.time /\ h.ts = (b.ts + c.time) % TimeMod
    BY <1>8, <1>17, <2>1
  <2> QED
    BY <1>7, <1>17, <2>2, <2>3, <2>4, <2>5, <2>6 DEF HeaderMoves
<1>20. PayloadMoves(b, c, peerSize, h)
  <2>1. Given(b) = 0
    BY <1>7 DEF Given
  <2> QED
    BY <1>13, <1>15, <1>17, <2>1 DEF PayloadMoves, Cuts, ChunkIs
<1>21. started' \in 0 .. MaxMessages
  BY <1>6, <1>7, BoundsAssumption
<1>22. c \in Chunks /\ BasicOK(c) /\ CsidOf(c.basic) = csid /\ FmtOf(c.basic) = fmt
  BY <1>15 DEF ChunkIs
<1> QED
  BY <1>1, <1>4, <1>7, <1>11, <1>16, <1>18, <1>19, <1>20, <1>21, <1>22, PeerSendsKeeps

-----------------------------------------------------------------------------
(* RtmpChunkWriter.                                                          *)

(* How much of a message of length len the first i pieces hold. *)
Cut(i, size, len) == SmallerOf(i * size, len)

(* The i-th piece is a full chunk size, or all that is left. *)
PieceFits(i, size, len, pieces) ==
  /\ Cut(i - 1, size, len) = (i - 1) * size /\ Cut(i - 1, size, len) \in Nat
  /\ Cut(i - 1, size, len) < len
  /\ Cut(i, size, len) = Cut(i - 1, size, len) + SmallerOf(len - Cut(i - 1, size, len), size)
  /\ Cut(i, size, len) = len <=> i = pieces

(* The pieces of the writer are as many as the message needs. *)
LEMMA Pieces ==
  ASSUME NEW size \in Nat, size > 0, NEW len \in Nat, len > 0, NEW pieces,
         pieces = (len + size - 1) \div size
  PROVE  /\ pieces \in Nat /\ pieces >= 1 /\ Cut(0, size, len) = 0
         /\ \A i \in 1 .. pieces : PieceFits(i, size, len, pieces)
<1>1. \A a \in Nat, b \in Nat : b > 0 => a \div b \in Nat /\ b * (a \div b) <= a /\ a < b * (a \div b) + b
  OBVIOUS
<1>2. len + size - 1 \in Nat
  OBVIOUS
<1>3. /\ pieces \in Nat /\ size * pieces <= len + size - 1
      /\ len + size - 1 < size * pieces + size
  BY <1>1, <1>2
<1>4. PICK total \in Nat : total = pieces * size /\ total = size * pieces
  BY <1>3
<1>5. total <= len + size - 1 /\ len <= total
  BY <1>3, <1>4
<1>6. pieces >= 1
  BY <1>3, <1>4, <1>5
<1>7. Cut(0, size, len) = 0
  BY DEF Cut, SmallerOf
<1>8. ASSUME NEW i \in 1 .. pieces PROVE PieceFits(i, size, len, pieces)
  <2>1. PICK x \in Nat : x = (i - 1) * size /\ i * size = x + size
    BY <1>3
  <2>2. i = pieces => x + size = total
    BY <1>4, <2>1
  <2>3. i # pieces => x + size + size <= total
    <3>1. ASSUME i # pieces PROVE i * size + size <= pieces * size
      <4>1. PICK d \in Nat : pieces = i + 1 + d
        BY <1>3, <3>1
      <4>2. (i + 1 + d) * size = i * size + size + d * size /\ d * size \in Nat
        OBVIOUS
      <4> QED
        BY <4>1, <4>2
    <3> QED
      BY <1>4, <2>1, <3>1
  <2>4. x < len
    BY <1>5, <2>2, <2>3
  <2>5. Cut(i - 1, size, len) = x
    BY <2>1, <2>4 DEF Cut, SmallerOf
  <2>6. Cut(i, size, len) = x + SmallerOf(len - x, size)
    BY <2>1, <2>4 DEF Cut, SmallerOf
  <2>7. x + SmallerOf(len - x, size) = len <=> i = pieces
    BY <1>5, <2>2, <2>3, <2>4 DEF SmallerOf
  <2> QED
    BY <2>1, <2>4, <2>5, <2>6, <2>7 DEF PieceFits
<1> QED
  BY <1>3, <1>6, <1>7, <1>8

(* The header of a message of the writer when g bytes of it are sent. *)
EncHeader(n, time, len, g) ==
  [init |-> TRUE, ts |-> time, delta |-> 0, ext |-> IF time < ExtMark THEN 0 ELSE time,
   len |-> len, kind |-> Media, id |-> n, rest |-> SubSeq(Payload(n, len), g + 1, len)]

(* Its fields. *)
EncHeaderIs(h, n, time, len, g) ==
  /\ h \in Headers /\ GoodHeader(h) /\ h.init /\ h.ts = time /\ h.delta = 0
  /\ h.ext = (IF time < ExtMark THEN 0 ELSE time) /\ h.len = len /\ h.kind = Media /\ h.id = n
  /\ Len(h.rest) = len - g
  /\ g = len <=> h.rest = <<>>
  /\ g # len => Given(h) = g

(* It is a header of the peer. *)
LEMMA EncHeaderGood ==
  ASSUME NEW n \in Nat, NEW time \in Time, NEW len \in Nat, NEW g \in Nat, 0 < g, g <= len,
         NEW h, h = EncHeader(n, time, len, g)
  PROVE  EncHeaderIs(h, n, time, len, g)
<1>1. PICK rest : rest = SubSeq(Payload(n, len), g + 1, len)
  OBVIOUS
<1>2. rest \in Seq(Bytes) /\ Len(rest) = len - g
  <2>1. len <= len
    OBVIOUS
  <2> QED
    BY <1>1, <2>1, PartType
<1>3. PICK ext \in Time : ext = (IF time < ExtMark THEN 0 ELSE time)
  BY TimesAssumption DEF Time
<1>4. PICK y \in BOOLEAN : y = TRUE
  OBVIOUS
<1>5. h = [init |-> y, ts |-> time, delta |-> 0, ext |-> ext, len |-> len, kind |-> Media,
           id |-> n, rest |-> rest]
  BY <1>1, <1>3, <1>4 DEF EncHeader
<1>6. 0 \in Time /\ Media \in Kinds
  BY TimesAssumption DEF Time, Kinds
<1>7. h \in Headers
  BY <1>2, <1>5, <1>6 DEF Headers
<1>8. /\ h.init = y /\ h.ts = time /\ h.delta = 0 /\ h.ext = ext /\ h.len = len
      /\ h.kind = Media /\ h.id = n /\ h.rest = rest
  BY <1>5
<1>9. GoodHeader(h)
  <2>1. Len(rest) < len /\ len > 0
    BY <1>2
  <2>2. len - (len - g) + 1 = g + 1
    OBVIOUS
  <2>3. rest = SubSeq(Payload(n, len), len - Len(rest) + 1, len)
    BY <1>1, <1>2, <2>2
  <2> QED
    BY <1>4, <1>8, <2>1, <2>3 DEF GoodHeader
<1>10. g = len <=> rest = <<>>
  <2>1. Len(rest) = 0 <=> rest = <<>>
    BY <1>2, EmptySeq
  <2> QED
    BY <1>2, <2>1
<1>11. g # len => Given(h) = g
  <2>1. len - (len - g) = g
    OBVIOUS
  <2> QED
    BY <1>2, <1>8, <1>10, <2>1 DEF Given
<1> QED
  BY <1>2, <1>3, <1>4, <1>7, <1>8, <1>9, <1>10, <1>11 DEF EncHeaderIs

(* The chunk of the writer with the bytes behind the first g up to the k-th. *)
EncChunk(n, csid, time, len, g, k) ==
  IF g = 0 THEN Chunk(0, csid, time, time >= ExtMark, len, Media, SubSeq(Payload(n, len), g + 1, k))
  ELSE Chunk(3, csid, 0, FALSE, 0, Media, SubSeq(Payload(n, len), g + 1, k))

(* Its format. *)
EncFmt(g) == IF g = 0 THEN 0 ELSE 3

(* What it does to the header b of the peer, and its size. *)
EncMoves(c, b, h, csid, size, time, g, k) ==
  /\ c \in Chunks /\ BasicOK(c) /\ CsidOf(c.basic) = csid /\ FmtOf(c.basic) = EncFmt(g)
  /\ HeaderMoves(b, c, EncFmt(g), h) /\ PayloadMoves(b, c, size, h)
  /\ EncFmt(g) = 0 \/ b.init
  /\ ChunkBytes(c) = Len(appendBasicHeader(0, csid)) + (k - g)
                     + (IF g = 0 THEN HeaderSize[0] + ExtSize(time >= ExtMark) ELSE 0)

(* A basic header is as long for every format. *)
LEMMA BasicLength ==
  ASSUME NEW csid \in Csids
  PROVE  /\ Len(appendBasicHeader(3, csid)) = Len(appendBasicHeader(0, csid))
         /\ Len(appendBasicHeader(0, csid)) \in Nat
<1>1. csid \in Nat
  BY CsidsAssumption
<1>2. CASE csid < 64
  BY <1>1, <1>2 DEF appendBasicHeader
<1>3. CASE csid >= 64 /\ csid < 320
  BY <1>1, <1>3 DEF appendBasicHeader
<1>4. CASE csid >= 320
  BY <1>1, <1>4 DEF appendBasicHeader
<1> QED
  BY <1>1, <1>2, <1>3, <1>4

(* A chunk of the writer takes the peer from one header to the next. *)
LEMMA EncodedChunk ==
  ASSUME NEW n \in Nat, NEW csid \in Csids, NEW time \in Time, NEW len \in Nat, len > 0,
         NEW size \in Nat, size > 0, NEW g \in Nat, g < len,
         NEW k \in Nat, k = g + SmallerOf(len - g, size),
         NEW b \in Headers, g = 0 => b.rest = <<>>, g # 0 => EncHeaderIs(b, n, time, len, g),
         NEW h, EncHeaderIs(h, n, time, len, k),
         NEW c, c = EncChunk(n, csid, time, len, g, k)
  PROVE  EncMoves(c, b, h, csid, size, time, g, k)
<1>1. k > g /\ k <= len /\ k - g = SmallerOf(len - g, size)
  BY DEF SmallerOf
<1>2. PICK data : data = SubSeq(Payload(n, len), g + 1, k)
  OBVIOUS
<1>3. data \in Seq(Bytes) /\ Len(data) = k - g
  <2>1. g <= k /\ k <= len
    BY <1>1
  <2>2. /\ SubSeq(Payload(n, len), g + 1, k) \in Seq(Bytes)
        /\ Len(SubSeq(Payload(n, len), g + 1, k)) = k - g
    <3>1. \A i \in Nat, j \in Nat : i <= j /\ j <= len =>
            /\ SubSeq(Payload(n, len), i + 1, j) \in Seq(Bytes)
            /\ Len(SubSeq(Payload(n, len), i + 1, j)) = j - i
      BY PartType
    <3> QED
      BY <2>1, <3>1
  <2> QED
    BY <1>2, <2>2, Zenon
<1>4. 0 \in Time /\ Media \in Kinds /\ 3 \in 0 .. 3 /\ 0 \in 0 .. 3 /\ 0 \in Nat
      /\ FALSE \in BOOLEAN /\ (time >= ExtMark) \in BOOLEAN
  BY TimesAssumption DEF Time, Kinds
<1>5. g = 0 => ChunkIs(c, 0, csid, time, time >= ExtMark, len, Media, data)
  <2>1. g = 0 => c = Chunk(0, csid, time, time >= ExtMark, len, Media, data)
    BY <1>2 DEF EncChunk
  <2> QED
    BY <1>3, <1>4, <2>1, ChunkBasic, Zenon
<1>6. g # 0 => ChunkIs(c, 3, csid, 0, FALSE, 0, Media, data)
  <2>1. g # 0 => c = Chunk(3, csid, 0, FALSE, 0, Media, data)
    BY <1>2 DEF EncChunk
  <2> QED
    BY <1>3, <1>4, <2>1, ChunkBasic, Zenon
<1>7. c \in Chunks /\ BasicOK(c) /\ CsidOf(c.basic) = csid /\ FmtOf(c.basic) = EncFmt(g)
      /\ c.data = data
  BY <1>5, <1>6 DEF ChunkIs, EncFmt
<1>8. h.init /\ h.ts = time /\ h.delta = 0 /\ h.len = len /\ h.kind = Media /\ h.id = n
      /\ h.ext = (IF time < ExtMark THEN 0 ELSE time) /\ Len(h.rest) = len - k
  BY DEF EncHeaderIs
<1>9. HeaderMoves(b, c, EncFmt(g), h)
  <2>1. CASE g = 0
    <3>1. c.time = time /\ c.ext = (time >= ExtMark) /\ c.len = len /\ c.kind = Media
      BY <1>5, <2>1 DEF ChunkIs
    <3>2. time \in Nat /\ ExtMark \in Nat
      BY TimesAssumption DEF Time
    <3>3. h.ext = (IF c.ext THEN c.time ELSE 0)
      <4>1. CASE time < ExtMark
        <5>1. ~(time >= ExtMark)
          BY <3>2, <4>1
        <5>2. ~c.ext
          BY <3>1, <5>1, Zenon
        <5> QED
          BY <1>8, <4>1, <5>2
      <4>2. CASE ~(time < ExtMark)
        <5>1. time >= ExtMark
          BY <3>2, <4>2
        <5>2. c.ext
          BY <3>1, <5>1, Zenon
        <5> QED
          BY <1>8, <3>1, <4>2, <5>2
      <4> QED
        BY <4>1, <4>2
    <3>4. b.rest = <<>> /\ EncFmt(g) = 0
      BY <2>1 DEF EncFmt
    <3> QED
      BY <1>8, <3>1, <3>3, <3>4 DEF HeaderMoves
  <2>2. CASE g # 0
    <3>1. EncFmt(g) = 3
      BY <2>2 DEF EncFmt
    <3>2. /\ b.ts = time /\ b.delta = 0 /\ b.len = len /\ b.kind = Media /\ b.id = n
          /\ b.ext = (IF time < ExtMark THEN 0 ELSE time) /\ b.rest # <<>>
      BY <2>2 DEF EncHeaderIs
    <3> QED
      BY <1>8, <3>1, <3>2 DEF HeaderMoves
  <2> QED
    BY <2>1, <2>2
<1>10. Given(b) = g
  <2>1. CASE g = 0
    BY <2>1 DEF Given
  <2>2. CASE g # 0
    BY <2>2 DEF EncHeaderIs
  <2> QED
    BY <2>1, <2>2
<1>11. PayloadMoves(b, c, size, h)
  <2>1. g + (k - g) = k /\ len - g - (k - g) = len - k
    BY <1>1
  <2> QED
    BY <1>1, <1>2, <1>3, <1>7, <1>8, <1>10, <2>1 DEF PayloadMoves
<1>12. EncFmt(g) = 0 \/ b.init
  BY DEF EncFmt, EncHeaderIs
<1>13. ChunkBytes(c) = Len(appendBasicHeader(0, csid)) + (k - g)
                       + (IF g = 0 THEN HeaderSize[0] + ExtSize(time >= ExtMark) ELSE 0)
  <2>1. PICK l \in Nat, x \in Nat : /\ l = Len(appendBasicHeader(0, csid)) /\ x = k - g
                                    /\ l = Len(appendBasicHeader(3, csid))
    BY <1>1, BasicLength
  <2>2. Len(c.data) = x
    BY <1>3, <1>7, <2>1
  <2>3. CASE g = 0
    <3>1. Len(c.basic) = l /\ c.ext = (time >= ExtMark) /\ FmtOf(c.basic) = 0
      BY <1>5, <2>1, <2>3 DEF ChunkIs
    <3>2. PICK e \in Nat : e = ExtSize(time >= ExtMark) /\ e = ExtSize(c.ext)
      <4>1. ExtSize(time >= ExtMark) \in Nat
        BY DEF ExtSize
      <4>2. ExtSize(c.ext) = ExtSize(time >= ExtMark)
        BY <3>1, Zenon
      <4> QED
        BY <4>1, <4>2, Zenon
    <3>3. ChunkBytes(c) = l + 11 + e + x
      BY <2>2, <3>1, <3>2, HeaderSizes DEF ChunkBytes
    <3>4. l + x + (11 + e) = l + 11 + e + x
      OBVIOUS
    <3> QED
      BY <2>1, <2>3, <3>2, <3>3, <3>4, HeaderSizes
  <2>4. CASE g # 0
    <3>1. Len(c.basic) = l /\ c.ext = FALSE /\ FmtOf(c.basic) = 3
      BY <1>6, <2>1, <2>4 DEF ChunkIs
    <3>2. ChunkBytes(c) = l + 0 + 0 + x
      BY <2>2, <3>1, HeaderSizes DEF ChunkBytes, ExtSize
    <3> QED
      BY <2>1, <2>4, <3>2
  <2> QED
    BY <2>3, <2>4
<1> QED
  BY <1>7, <1>9, <1>11, <1>12, <1>13 DEF EncMoves

(* The message of a header. *)
MessageOf(csid, h) ==
  [csid |-> csid, ts |-> h.ts, len |-> h.len, kind |-> h.kind, payload |-> Payload(h.id, h.len)]

(* A chunk of the writer leads from point to point. *)
LEMMA EncodedLink ==
  ASSUME NEW csid \in Csids, NEW u \in Points, NEW v \in Points, NEW c, NEW h, NEW s, NEW size,
         NEW time, NEW g, NEW k, EncMoves(c, u.talk[csid], h, csid, size, time, g, k),
         v.talk = [u.talk EXCEPT ![csid] = h], h.kind = Media, u.size = size, v.size = size,
         v.off = u.off + ChunkBytes(c),
         h.rest # <<>> => v.n = u.n,
         h.rest = <<>> => v.n = u.n + 1 /\ v.n <= Len(s) /\ s[v.n] = MessageOf(csid, h)
  PROVE  Link(u, c, v, s)
<1>1. /\ c \in Chunks /\ BasicOK(c) /\ CsidOf(c.basic) = csid /\ FmtOf(c.basic) = EncFmt(g)
      /\ HeaderMoves(u.talk[csid], c, EncFmt(g), h) /\ PayloadMoves(u.talk[csid], c, size, h)
      /\ EncFmt(g) = 0 \/ u.talk[csid].init
  BY DEF EncMoves
<1>2. h.kind \notin ChunkSizes
  BY SizesAssumption DEF Media
<1>3. MessageMoves(u, csid, h, v, s)
  BY <1>2 DEF MessageMoves, MessageOf
<1>4. v.talk[csid] = h
  BY DEF Points
<1>5. Proper(u, c, csid, EncFmt(g), v, s)
  BY <1>1, <1>3, <1>4 DEF Proper
<1> QED
  BY <1>1, <1>5 DEF Link

(* The chunks of the writer. *)
EncChunksAre(out, n, csid, time, len, size, pieces) ==
  /\ Len(out) = pieces /\ DOMAIN out = 1 .. pieces /\ out = [i \in 1 .. pieces |-> out[i]]
  /\ \A i \in 1 .. pieces :
       out[i] = EncChunk(n, csid, time, len, Cut(i - 1, size, len), Cut(i, size, len))

(* That is what EncodeMessage makes. *)
LEMMA EncodedChunks ==
  ASSUME NEW n \in Nat, NEW csid \in Csids, NEW time \in Time, NEW len \in Nat, len > 0,
         NEW size \in Nat, size > 0, NEW out, out = EncodeMessage(n, csid, time, len, size),
         NEW pieces, pieces = (len + size - 1) \div size
  PROVE  EncChunksAre(out, n, csid, time, len, size, pieces)
<1>1. /\ pieces \in Nat /\ pieces >= 1 /\ Cut(0, size, len) = 0
      /\ \A i \in 1 .. pieces : PieceFits(i, size, len, pieces)
  BY Pieces
<1>2. pieces = (IF len = 0 THEN 1 ELSE (len + size - 1) \div size)
  OBVIOUS
<1>3. out = [i \in 1 .. pieces |->
               IF i = 1 THEN Chunk(0, csid, time, time >= ExtMark, len, Media,
                                   SubSeq(Payload(n, len), (1 - 1) * size + 1,
                                          SmallerOf(1 * size, len)))
               ELSE Chunk(3, csid, 0, FALSE, 0, Media,
                          SubSeq(Payload(n, len), (i - 1) * size + 1, SmallerOf(i * size, len)))]
  BY <1>2, Zenon DEF EncodeMessage
<1>4. Len(out) = pieces /\ DOMAIN out = 1 .. pieces /\ out = [i \in 1 .. pieces |-> out[i]]
  BY <1>1, <1>3
<1>5. ASSUME NEW i \in 1 .. pieces
      PROVE  out[i] = EncChunk(n, csid, time, len, Cut(i - 1, size, len), Cut(i, size, len))
  <2>1. PICK x \in Nat : x = (i - 1) * size /\ Cut(i - 1, size, len) = x
    BY <1>1 DEF PieceFits
  <2>2. PICK d : d = SubSeq(Payload(n, len), (i - 1) * size + 1, SmallerOf(i * size, len))
    OBVIOUS
  <2>3. d = SubSeq(Payload(n, len), x + 1, Cut(i, size, len))
    BY <2>1, <2>2 DEF Cut
  <2>4. CASE i = 1
    <3>1. x = 0
      BY <2>1, <2>4
    <3>2. out[i] = Chunk(0, csid, time, time >= ExtMark, len, Media, d)
      BY <1>3, <2>2, <2>4
    <3> QED
      BY <2>1, <2>3, <3>1, <3>2 DEF EncChunk
  <2>5. CASE i # 1
    <3>1. x # 0
      BY <2>1, <2>5
    <3>2. out[i] = Chunk(3, csid, 0, FALSE, 0, Media, d)
      BY <1>3, <2>2, <2>5
    <3> QED
      BY <2>1, <2>3, <3>1, <3>2 DEF EncChunk
  <2> QED
    BY <2>4, <2>5
<1> QED
  BY <1>4, <1>5 DEF EncChunksAre

(* The point behind the i-th chunk of the writer. *)
EncPoint(u, csid, n, time, len, size, pieces, i) ==
  [talk |-> [u.talk EXCEPT ![csid] = EncHeader(n, time, len, Cut(i, size, len))],
   size |-> size,
   n    |-> IF i = pieces THEN u.n + 1 ELSE u.n,
   off  |-> u.off + (i * Len(appendBasicHeader(0, csid)) + HeaderSize[0]
                     + ExtSize(time >= ExtMark) + Cut(i, size, len))]

(* The fields of that point. *)
EncPointIs(v, u, csid, n, time, len, size, pieces, i, h) ==
  /\ GoodPoint(v) /\ v.talk = [u.talk EXCEPT ![csid] = h] /\ v.talk[csid] = h
  /\ EncHeaderIs(h, n, time, len, Cut(i, size, len))
  /\ v.size = size /\ v.n = (IF i = pieces THEN u.n + 1 ELSE u.n)
  /\ h.rest = <<>> <=> i = pieces
  /\ v.off = u.off + (i * Len(appendBasicHeader(0, csid)) + HeaderSize[0]
                      + ExtSize(time >= ExtMark) + Cut(i, size, len))

(* It is a point. *)
LEMMA EncodedPoint ==
  ASSUME NEW n \in Nat, NEW csid \in Csids, NEW time \in Time, NEW len \in Nat, len > 0,
         NEW size \in Nat, size > 0, size \in Sizes, NEW pieces \in Nat, NEW i \in 1 .. pieces,
         PieceFits(i, size, len, pieces), NEW u \in Points, GoodPoint(u), NEW v,
         v = EncPoint(u, csid, n, time, len, size, pieces, i),
         NEW h, h = EncHeader(n, time, len, Cut(i, size, len))
  PROVE  EncPointIs(v, u, csid, n, time, len, size, pieces, i, h)
<1>1. PICK k \in Nat : k = Cut(i, size, len) /\ 0 < k /\ k <= len /\ (k = len <=> i = pieces)
  <2>1. PICK x \in Nat : x = Cut(i - 1, size, len) /\ x < len
    BY DEF PieceFits
  <2>2. Cut(i, size, len) = x + SmallerOf(len - x, size)
    BY <2>1 DEF PieceFits
  <2>3. x + SmallerOf(len - x, size) \in Nat /\ 0 < x + SmallerOf(len - x, size)
        /\ x + SmallerOf(len - x, size) <= len
    BY <2>1 DEF SmallerOf
  <2> QED
    BY <2>2, <2>3 DEF PieceFits
<1>2. EncHeaderIs(h, n, time, len, k)
  BY <1>1, EncHeaderGood
<1>3. h \in Headers /\ GoodHeader(h) /\ (h.rest = <<>> <=> i = pieces)
  BY <1>1, <1>2 DEF EncHeaderIs
<1>4. u.talk \in [Csids -> Headers] /\ u.n \in Nat /\ u.off \in Nat
      /\ \A d \in Csids : GoodHeader(u.talk[d])
  BY DEF GoodPoint, Points
<1>5. PICK t : t = [u.talk EXCEPT ![csid] = h]
  OBVIOUS
<1>6. t \in [Csids -> Headers] /\ t[csid] = h /\ \A d \in Csids : GoodHeader(t[d])
  BY <1>3, <1>4, <1>5
<1>7. PICK x \in Nat, y \in Nat :
        /\ x = (IF i = pieces THEN u.n + 1 ELSE u.n)
        /\ y = u.off + (i * Len(appendBasicHeader(0, csid)) + HeaderSize[0]
                        + ExtSize(time >= ExtMark) + k)
  <2>1. PICK l \in Nat, e \in Nat : l = Len(appendBasicHeader(0, csid)) /\ e = ExtSize(time >= ExtMark)
    BY BasicLength DEF ExtSize
  <2>2. i * l \in Nat
    OBVIOUS
  <2>3. u.off + (i * l + 11 + e + k) \in Nat
    BY <1>4, <2>2
  <2>4. u.off + (i * Len(appendBasicHeader(0, csid)) + HeaderSize[0]
                 + ExtSize(time >= ExtMark) + k) \in Nat
    BY <2>1, <2>3, HeaderSizes
  <2>5. (IF i = pieces THEN u.n + 1 ELSE u.n) \in Nat
    BY <1>4
  <2> QED
    BY <2>4, <2>5, Zenon
<1>8. v = [talk |-> t, size |-> size, n |-> x, off |-> y]
  BY <1>1, <1>5, <1>7 DEF EncPoint
<1>9. v \in Points /\ v.talk = t /\ v.size = size /\ v.n = x /\ v.off = y
  BY <1>6, <1>8 DEF Points
<1> QED
  BY <1>1, <1>2, <1>3, <1>5, <1>6, <1>7, <1>9 DEF EncPointIs, GoodPoint

(* A message of no bytes: one chunk, as if it were begun with fmt 0. *)
LEMMA PeerEncodesEmpty ==
  ASSUME Inv, NEW csid \in Csids, NEW time \in Times, PeerEncodes(csid, time, 0)
  PROVE  Inv'
<1>1. PICK n \in Nat : n = started + 1 /\ started' = n
  BY DEF Inv, Types, PeerEncodes
<1>2. time \in Time /\ 0 \in Nat /\ 0 \in Time /\ Media \in Kinds /\ <<>> \in Seq(Bytes)
  BY TimesAssumption DEF Time, Kinds
<1>3. PICK size \in Nat : size = peerSize /\ size > 0
  BY SizesAssumption DEF Inv, Types, TypeOK
<1>4. PICK c, ext : /\ c = Chunk(0, csid, time, time >= ExtMark, 0, Media, <<>>)
                    /\ ext = (IF time < ExtMark THEN 0 ELSE time)
  OBVIOUS
<1>5. PICK h : h = [init |-> TRUE, ts |-> time, delta |-> 0, ext |-> ext, len |-> 0,
                    kind |-> Media, id |-> n, rest |-> <<>>]
  OBVIOUS
<1>6. ChunkIs(c, 0, csid, time, time >= ExtMark, 0, Media, <<>>)
  <2>1. (time >= ExtMark) \in BOOLEAN /\ 0 \in 0 .. 3
    OBVIOUS
  <2> QED
    BY <1>2, <1>4, <2>1, ChunkBasic, Zenon
<1>7. h \in Headers
  <2>1. PICK y \in BOOLEAN : y = TRUE
    OBVIOUS
  <2>2. h = [init |-> y, ts |-> time, delta |-> 0, ext |-> ext, len |-> 0, kind |-> Media,
             id |-> n, rest |-> <<>>]
    BY <1>5, <2>1
  <2>3. ext \in Time
    BY <1>2, <1>4
  <2> QED
    BY <1>2, <2>2, <2>3 DEF Headers
<1>8. /\ h.init = TRUE /\ h.ts = time /\ h.delta = 0 /\ h.ext = ext /\ h.len = 0
      /\ h.kind = Media /\ h.id = n /\ h.rest = <<>>
  BY <1>5
<1>9. Payload(n, 0) = <<>> /\ SubSeq(Payload(n, 0), 1, 0) = <<>> /\ Len(<<>>) = 0
  <2>1. Payload(n, 0) \in Seq(Bytes) /\ Len(Payload(n, 0)) = 0
    BY <1>2, PayloadType
  <2> QED
    BY <2>1, EmptySeq, SubSeqEmpty
<1>10. GoodHeader(h)
  BY <1>8, <1>9 DEF GoodHeader
<1>11. PeerMaySend /\ talk[csid].rest = <<>> /\ started < MaxMessages
  BY DEF PeerEncodes
<1>12. HeaderMoves(talk[csid], c, 0, h)
  <2>1. c.time = time /\ c.ext = (time >= ExtMark) /\ c.len = 0 /\ c.kind = Media
    BY <1>6 DEF ChunkIs
  <2>2. h.ext = (IF c.ext THEN c.time ELSE 0)
    <3>1. time \in Nat /\ ExtMark \in Nat
      BY <1>2, TimesAssumption DEF Time
    <3>2. CASE time < ExtMark
      <4>1. ~(time >= ExtMark)
        BY <3>1, <3>2
      <4>2. ~c.ext
        BY <2>1, <4>1, Zenon
      <4> QED
        BY <1>4, <1>8, <3>2, <4>2
    <3>3. CASE ~(time < ExtMark)
      <4>1. time >= ExtMark
        BY <3>1, <3>3
      <4>2. c.ext
        BY <2>1, <4>1, Zenon
      <4> QED
        BY <1>4, <1>8, <2>1, <3>3, <4>2
    <3> QED
      BY <3>2, <3>3
  <2> QED
    BY <1>8, <1>11, <2>1, <2>2 DEF HeaderMoves
<1>13. PayloadMoves(talk[csid], c, peerSize, h)
  <2>1. Given(talk[csid]) = 0
    BY <1>11 DEF Given
  <2>2. c.data = <<>>
    BY <1>6 DEF ChunkIs
  <2>3. SmallerOf(0 - 0, size) = 0
    BY <1>3 DEF SmallerOf
  <2>4. Len(c.data) = SmallerOf(h.len - Given(talk[csid]), peerSize)
    BY <1>3, <1>8, <1>9, <2>1, <2>2, <2>3
  <2>5. 0 + 1 = 1 /\ 0 + 0 = 0 /\ (0 - 0) - 0 = 0
    OBVIOUS
  <2>6. c.data = SubSeq(Payload(h.id, h.len), Given(talk[csid]) + 1,
                        Given(talk[csid]) + Len(c.data))
    BY <1>8, <1>9, <2>1, <2>2, <2>5
  <2>7. Len(h.rest) = h.len - Given(talk[csid]) - Len(c.data)
    BY <1>8, <1>9, <2>1, <2>2, <2>5
  <2> QED
    BY <2>4, <2>6, <2>7 DEF PayloadMoves
<1>14. EncodeMessage(n, csid, time, 0, size) = <<c>>
  <2>1. SmallerOf(1 * size, 0) = 0 /\ (1 - 1) * size + 1 = 1
    BY <1>3 DEF SmallerOf
  <2>2. SubSeq(Payload(n, 0), (1 - 1) * size + 1, SmallerOf(1 * size, 0)) = <<>>
    BY <1>9, <2>1
  <2>3. EncodeMessage(n, csid, time, 0, size) =
          [i \in 1 .. 1 |->
             IF i = 1 THEN Chunk(0, csid, time, time >= ExtMark, 0, Media,
                                 SubSeq(Payload(n, 0), (1 - 1) * size + 1,
                                        SmallerOf(1 * size, 0)))
             ELSE Chunk(3, csid, 0, FALSE, 0, Media,
                        SubSeq(Payload(n, 0), (i - 1) * size + 1, SmallerOf(i * size, 0)))]
    BY Zenon DEF EncodeMessage
  <2>4. \A i \in 1 .. 1 : i = 1
    OBVIOUS
  <2>5. EncodeMessage(n, csid, time, 0, size) = [i \in 1 .. 1 |-> c]
    BY <1>4, <2>2, <2>3, <2>4, Zenon
  <2> QED
    BY <2>5
<1>15. PeerSends(csid, c, h)
  <2>1. /\ net' = net \o <<c>>
        /\ coming' = coming + Len(<<c>>) * Len(appendBasicHeader(0, csid))
                      + HeaderSize[0] + ExtSize(time >= ExtMark) + 0
        /\ talk' = [talk EXCEPT ![csid] = h]
        /\ sent' = Append(sent, [csid |-> csid, ts |-> time, len |-> 0, kind |-> Media,
                                 payload |-> Payload(n, 0)])
        /\ UNCHANGED <<version, peerSize, arrived, parserVars, pc>>
    <3>1. PICK m : m = EncodeMessage(started + 1, csid, time, 0, peerSize)
      OBVIOUS
    <3>2. m = <<c>>
      BY <1>1, <1>3, <1>14, <3>1
    <3>3. /\ net' = net \o m
          /\ coming' = coming + Len(m) * Len(appendBasicHeader(0, csid))
                        + HeaderSize[0] + ExtSize(time >= ExtMark) + 0
          /\ talk' = [talk EXCEPT ![csid] =
               [init |-> TRUE, ts |-> time, delta |-> 0, ext |-> IF time < ExtMark THEN 0 ELSE time,
                len |-> 0, kind |-> Media, id |-> started + 1, rest |-> <<>>]]
          /\ sent' = Append(sent, [csid |-> csid, ts |-> time, len |-> 0, kind |-> Media,
                                   payload |-> Payload(started + 1, 0)])
          /\ UNCHANGED <<version, peerSize, arrived, parserVars, pc>>
      BY <3>1, Zenon DEF PeerEncodes
    <3> QED
      BY <1>1, <1>4, <1>5, <3>2, <3>3, Zenon
  <2>2. net' = Append(net, c)
    <3>1. net \in Seq(Chunks) /\ c \in Chunks
      BY <1>6 DEF Inv, Types, ChunkIs
    <3> QED
      BY <2>1, <3>1, AppendIsConcat
  <2>3. coming' = coming + ChunkBytes(c)
    <3>1. PICK l \in Nat, e \in Nat, k \in Nat :
            /\ l = Len(appendBasicHeader(0, csid)) /\ e = ExtSize(time >= ExtMark)
            /\ k = coming
      BY BasicLength DEF ExtSize, Inv, Types, TypeOK
    <3>2. ExtSize(c.ext) = ExtSize(time >= ExtMark)
      <4>1. c.ext = (time >= ExtMark)
        BY <1>6 DEF ChunkIs
      <4> QED
        BY <4>1, Zenon
    <3>3. ChunkBytes(c) = l + 11 + e + 0
      BY <1>6, <1>9, <3>1, <3>2, HeaderSizes DEF ChunkBytes, ChunkIs
    <3>4. coming' = k + 1 * l + 11 + e + 0
      BY <2>1, <3>1, HeaderSizes
    <3>5. k + 1 * l + 11 + e + 0 = k + (l + 11 + e + 0)
      BY ONLY k \in Nat, l \in Nat, e \in Nat
    <3> QED
      BY <3>1, <3>3, <3>4, <3>5
  <2>4. h.kind \notin ChunkSizes
    BY <1>8, SizesAssumption DEF Media
  <2>5. sent' = Append(sent, [csid |-> csid, ts |-> h.ts, len |-> h.len, kind |-> h.kind,
                              payload |-> Payload(h.id, h.len)])
    BY <1>8, <2>1
  <2> QED
    BY <1>8, <2>1, <2>2, <2>3, <2>4, <2>5 DEF PeerSends
<1>16. started' \in 0 .. MaxMessages
  BY <1>1, <1>11, BoundsAssumption DEF Inv, Types
<1>17. c \in Chunks /\ BasicOK(c) /\ CsidOf(c.basic) = csid /\ FmtOf(c.basic) = 0
  BY <1>6 DEF ChunkIs
<1> QED
  BY <1>7, <1>10, <1>11, <1>12, <1>13, <1>15, <1>16, <1>17, PeerSendsKeeps

(* The writer's other messages. *)
LEMMA PeerEncodesKeeps ==
  ASSUME Inv, NEW csid \in Csids, NEW time \in Times, NEW len \in Lengths, len > 0,
         PeerEncodes(csid, time, len)
  PROVE  Inv'
<1>1. pc = "idle" /\ started < MaxMessages
  BY DEF PeerEncodes, PeerMaySend
<1>2. PICK p \in Seq(Points) : Simulates(p)
  BY <1>1 DEF Inv, Simulation, Working
<1>3. /\ talk \in [Csids -> Headers] /\ \A d \in Csids : GoodHeader(talk[d])
      /\ p[Len(p)] \in Points /\ p[Len(p)].talk = talk
      /\ p[Len(p)].size = peerSize /\ p[Len(p)].n = Len(sent) /\ p[Len(p)].off \in Nat
  BY <1>2, PeerState
<1>4. PICK u \in Points : u = p[Len(p)] /\ GoodPoint(u)
  BY <1>3 DEF GoodPoint
<1>5. PICK size \in Nat : size = peerSize /\ size > 0 /\ size \in Sizes
  BY <1>2, PeerState
<1>6. PICK n \in Nat : n = started + 1
  BY DEF Inv, Types
<1>7. time \in Time /\ len \in Nat /\ len > 0
  BY TimesAssumption, SizesAssumption DEF Time
<1>8. PICK pieces : pieces = (len + size - 1) \div size
  OBVIOUS
<1>9. /\ pieces \in Nat /\ pieces >= 1 /\ Cut(0, size, len) = 0
      /\ \A i \in 1 .. pieces : PieceFits(i, size, len, pieces)
  BY <1>5, <1>7, <1>8, Pieces
<1>10. PICK out : out = EncodeMessage(n, csid, time, len, size)
  OBVIOUS
<1>11. /\ Len(out) = pieces /\ DOMAIN out = 1 .. pieces /\ out = [i \in 1 .. pieces |-> out[i]]
       /\ \A i \in 1 .. pieces :
            out[i] = EncChunk(n, csid, time, len, Cut(i - 1, size, len), Cut(i, size, len))
  <2>1. EncChunksAre(out, n, csid, time, len, size, pieces)
    BY <1>5, <1>7, <1>8, <1>10, EncodedChunks
  <2> QED
    BY <2>1 DEF EncChunksAre
<1>12. PICK q : q = [i \in 1 .. pieces |-> EncPoint(u, csid, n, time, len, size, pieces, i)]
  OBVIOUS
<1>13. PICK H : H = [i \in 1 .. pieces |-> EncHeader(n, time, len, Cut(i, size, len))]
  OBVIOUS
<1>14. \A i \in 1 .. pieces : EncPointIs(q[i], u, csid, n, time, len, size, pieces, i, H[i])
  <2> SUFFICES ASSUME NEW i \in 1 .. pieces
               PROVE  EncPointIs(q[i], u, csid, n, time, len, size, pieces, i, H[i])
    OBVIOUS
  <2>1. /\ q[i] = EncPoint(u, csid, n, time, len, size, pieces, i)
        /\ H[i] = EncHeader(n, time, len, Cut(i, size, len))
    BY <1>12, <1>13
  <2> QED
    BY <1>4, <1>5, <1>7, <1>9, <2>1, EncodedPoint
<1>15. q \in Seq(Points) /\ Len(q) = pieces /\ \A i \in 1 .. pieces : GoodPoint(q[i])
  <2>1. \A i \in 1 .. pieces : GoodPoint(q[i]) /\ q[i] \in Points
    BY <1>14 DEF EncPointIs, GoodPoint
  <2>2. q = [i \in 1 .. pieces |-> q[i]]
    BY <1>12
  <2> QED
    BY <1>9, <2>1, <2>2
<1>16. \A i \in 1 .. pieces, b \in Headers :
         /\ i = 1 => b.rest = <<>>
         /\ i # 1 => b = H[i - 1]
         => EncMoves(out[i], b, H[i], csid, size, time, Cut(i - 1, size, len), Cut(i, size, len))
  <2> SUFFICES ASSUME NEW i \in 1 .. pieces, NEW b \in Headers, i = 1 => b.rest = <<>>,
                      i # 1 => b = H[i - 1]
               PROVE  EncMoves(out[i], b, H[i], csid, size, time, Cut(i - 1, size, len),
                               Cut(i, size, len))
    OBVIOUS
  <2>1. PICK g \in Nat : g = Cut(i - 1, size, len) /\ g < len /\ g = (i - 1) * size
    BY <1>9 DEF PieceFits
  <2>2. PICK k \in Nat : k = Cut(i, size, len) /\ k = g + SmallerOf(len - g, size)
    <3>1. Cut(i, size, len) = g + SmallerOf(len - g, size)
      BY <1>9, <2>1 DEF PieceFits
    <3>2. len \in Nat /\ g < len
      BY <1>7, <2>1
    <3>3. g + SmallerOf(len - g, size) \in Nat
      BY ONLY g \in Nat, size \in Nat, <3>2 DEF SmallerOf
    <3> QED
      BY <3>1, <3>3
  <2>3. EncHeaderIs(H[i], n, time, len, k)
    BY <1>14, <2>2 DEF EncPointIs
  <2>4. out[i] = EncChunk(n, csid, time, len, g, k)
    BY <1>11, <2>1, <2>2
  <2>5. g = 0 <=> i = 1
    BY <1>5, <2>1
  <2>6. g # 0 => EncHeaderIs(b, n, time, len, g)
    <3>1. i # 1 => i - 1 \in 1 .. pieces
      BY <1>9
    <3> QED
      BY <1>14, <2>1, <2>5, <3>1 DEF EncPointIs
  <2>7. EncMoves(out[i], b, H[i], csid, size, time, g, k)
    BY <1>5, <1>7, <2>1, <2>2, <2>3, <2>4, <2>5, <2>6, EncodedChunk
  <2> QED
    BY <2>1, <2>2, <2>7
<1>17. u.talk = talk /\ u.size = size /\ u.n = Len(sent) /\ u.off \in Nat /\ talk[csid].rest = <<>>
       /\ talk[csid] \in Headers
  BY <1>3, <1>4, <1>5 DEF PeerEncodes
<1>18. PICK h : h = H[pieces] /\ EncHeaderIs(h, n, time, len, len) /\ h.rest = <<>>
  <2>1. pieces \in 1 .. pieces
    BY <1>9
  <2>2. Cut(pieces, size, len) = len
    BY <1>9, <2>1 DEF PieceFits
  <2>3. EncHeaderIs(H[pieces], n, time, len, len)
    BY <1>14, <2>1, <2>2 DEF EncPointIs
  <2> QED
    BY <2>3 DEF EncHeaderIs
<1>19. PICK m \in Sent : m = MessageOf(csid, h)
  <2>1. h \in Headers /\ Payload(h.id, h.len) \in Seq(Bytes)
    BY <1>18, PayloadType DEF EncHeaderIs, Headers
  <2> QED
    BY <2>1 DEF MessageOf, Sent, Headers
<1>20. sent' = Append(sent, m)
  <2>1. h.ts = time /\ h.len = len /\ h.kind = Media /\ h.id = n
    BY <1>18 DEF EncHeaderIs
  <2>2. m = [csid |-> csid, ts |-> time, len |-> len, kind |-> Media, payload |-> Payload(n, len)]
    BY <1>19, <2>1 DEF MessageOf
  <2> QED
    BY <1>6, <2>2 DEF PeerEncodes
<1>21. /\ sent \in Seq(Sent) /\ sent' \in Seq(Sent) /\ Len(sent') = Len(sent) + 1
       /\ \A i \in 1 .. Len(sent) : sent'[i] = sent[i]
       /\ sent'[Len(sent) + 1] = m
  <2>1. sent \in Seq(Sent)
    BY DEF Inv, Types
  <2> QED
    BY ONLY <1>20, <2>1, m \in Sent, AppendProperties
<1>22. PICK l \in Nat, e \in Nat : /\ l = Len(appendBasicHeader(0, csid))
                                  /\ e = HeaderSize[0] + ExtSize(time >= ExtMark)
  <2>1. HeaderSize[0] + ExtSize(time >= ExtMark) \in Nat
    BY HeaderSizes DEF ExtSize
  <2> QED
    BY <2>1, BasicLength
<1>23. ASSUME NEW i \in 1 .. pieces, NEW a \in Points, i = 1 => a = u, i # 1 => a = q[i - 1]
       PROVE  Link(a, out[i], q[i], sent')
  <2>1. EncPointIs(q[i], u, csid, n, time, len, size, pieces, i, H[i])
    BY <1>14
  <2>2. i # 1 => i - 1 \in 1 .. pieces /\ i - 1 # pieces
    BY <1>9
  <2>3. i # 1 => EncPointIs(a, u, csid, n, time, len, size, pieces, i - 1, H[i - 1])
    BY <1>14, <1>23, <2>2
  <2>4. PICK b : b = a.talk[csid]
    OBVIOUS
  <2>5. b \in Headers /\ (i = 1 => b.rest = <<>>) /\ (i # 1 => b = H[i - 1])
    <3>1. i = 1 => b \in Headers /\ b.rest = <<>>
      BY <1>17, <1>23, <2>4
    <3>2. i # 1 => b = H[i - 1] /\ b \in Headers
      BY <2>3, <2>4 DEF EncPointIs, EncHeaderIs
    <3> QED
      BY <3>1, <3>2
  <2>6. PICK g \in Nat, k \in Nat : /\ g = Cut(i - 1, size, len) /\ k = Cut(i, size, len)
                                   /\ g <= k /\ (g = 0 <=> i = 1)
    <3>1. PICK x \in Nat : x = Cut(i - 1, size, len) /\ x < len /\ x = (i - 1) * size
      BY <1>9 DEF PieceFits
    <3>2. Cut(i, size, len) = x + SmallerOf(len - x, size)
      BY <1>9, <3>1 DEF PieceFits
    <3>3. len \in Nat /\ x < len
      BY <1>7, <3>1
    <3>4. x + SmallerOf(len - x, size) \in Nat /\ x <= x + SmallerOf(len - x, size)
      BY ONLY x \in Nat, size \in Nat, <3>3 DEF SmallerOf
    <3>5. x = 0 <=> i = 1
      BY <1>5, <3>1
    <3> QED
      BY <3>1, <3>2, <3>4, <3>5
  <2>7. EncMoves(out[i], b, H[i], csid, size, time, g, k)
    BY <1>16, <2>5, <2>6
  <2>8. q[i] \in Points /\ H[i].kind = Media /\ q[i].size = size /\ a.size = size
    <3>1. i = 1 => a.size = size
      BY <1>17, <1>23
    <3>2. i # 1 => a.size = size
      BY <2>3 DEF EncPointIs
    <3> QED
      BY <2>1, <3>1, <3>2 DEF EncPointIs, EncHeaderIs, GoodPoint
  <2>9. q[i].talk = [a.talk EXCEPT ![csid] = H[i]]
    <3>1. q[i].talk = [u.talk EXCEPT ![csid] = H[i]]
      BY <2>1 DEF EncPointIs
    <3>2. i # 1 => a.talk = [u.talk EXCEPT ![csid] = H[i - 1]]
      BY <2>3 DEF EncPointIs
    <3>3. u.talk \in [Csids -> Headers]
      BY DEF Points
    <3> QED
      BY <1>23, <3>1, <3>2, <3>3
  <2>10. q[i].off = a.off + ChunkBytes(out[i])
    <3>1. PICK o \in Nat : o = u.off
      BY <1>17
    <3>2. q[i].off = o + (i * l + HeaderSize[0] + ExtSize(time >= ExtMark) + k)
      BY <1>22, <2>1, <2>6, <3>1 DEF EncPointIs
    <3>3. i # 1 => a.off = o + ((i - 1) * l + HeaderSize[0] + ExtSize(time >= ExtMark) + g)
      BY <1>22, <2>3, <2>6, <3>1 DEF EncPointIs
    <3>4. ChunkBytes(out[i]) = l + (k - g) + (IF g = 0 THEN e ELSE 0)
      BY <1>22, <2>7 DEF EncMoves
    <3>5. \A j \in Nat : j * l + HeaderSize[0] + ExtSize(time >= ExtMark) = j * l + e
      <4>1. PICK y \in Nat, x \in Nat : y = HeaderSize[0] /\ x = ExtSize(time >= ExtMark)
        BY HeaderSizes DEF ExtSize
      <4>2. e = y + x
        BY <1>22, <4>1
      <4>3. \A j \in Nat : j * l + y + x = j * l + (y + x)
        BY ONLY l \in Nat, x \in Nat, y \in Nat
      <4> QED
        BY <4>1, <4>2, <4>3
    <3>6. i \in Nat /\ i - 1 \in Nat
      OBVIOUS
    <3>7. q[i].off = o + (i * l + e + k)
      BY <3>2, <3>5, <3>6
    <3>8. CASE i = 1
      <4>1. a.off = o /\ g = 0
        BY <1>23, <2>6, <3>1, <3>8
      <4>2. ChunkBytes(out[i]) = l + (k - g) + e
        BY <3>4, <4>1
      <4>3. o + (1 * l + e + k) = o + (l + (k - 0) + e)
        OBVIOUS
      <4> QED
        BY <3>7, <3>8, <4>1, <4>2, <4>3
    <3>9. CASE i # 1
      <4>1. a.off = o + ((i - 1) * l + e + g)
        BY <3>3, <3>5, <3>6, <3>9
      <4>2. ChunkBytes(out[i]) = l + (k - g) + 0
        BY <2>6, <3>4, <3>9
      <4>3. PICK z \in Nat : z = (i - 1) * l /\ i * l = z + l
        BY <3>6
      <4>4. o + (z + l + e + k) = o + (z + e + g) + (l + (k - g) + 0)
        BY ONLY o \in Nat, z \in Nat, l \in Nat, e \in Nat, g \in Nat, k \in Nat
      <4> QED
        BY <3>7, <4>1, <4>2, <4>3, <4>4
    <3> QED
      BY <3>8, <3>9
  <2>11. a.n = u.n
    <3>1. i # 1 => a.n = u.n
      BY <2>2, <2>3 DEF EncPointIs
    <3> QED
      BY <1>23, <3>1
  <2>12. H[i].rest # <<>> => q[i].n = a.n
    BY <2>1, <2>11 DEF EncPointIs
  <2>13. H[i].rest = <<>> => /\ q[i].n = a.n + 1 /\ q[i].n <= Len(sent')
                             /\ sent'[q[i].n] = MessageOf(csid, H[i])
    <3>1. H[i].rest = <<>> => i = pieces /\ q[i].n = u.n + 1
      BY <2>1 DEF EncPointIs
    <3>2. i = pieces => H[i] = h
      BY <1>18
    <3> QED
      BY <1>17, <1>19, <1>21, <2>11, <3>1, <3>2
  <2> QED
    BY <2>4, <2>7, <2>8, <2>9, <2>10, <2>12, <2>13, EncodedLink
<1>24. 1 \in 1 .. pieces /\ pieces \in 1 .. pieces
  BY <1>9
<1>25. Link(u, out[1], q[1], sent')
  BY <1>23, <1>24
<1>26. ASSUME NEW i \in 1 .. pieces - 1 PROVE Link(q[i], out[i + 1], q[i + 1], sent')
  <2>1. PICK j \in 1 .. pieces : j = i + 1 /\ j # 1 /\ j - 1 = i
    BY <1>9
  <2>2. q[i] \in Points
    BY <1>9, <1>15
  <2> QED
    BY <1>23, <2>1, <2>2
<1>27. out \in Seq(Chunks)
  <2>1. \A i \in 1 .. pieces : out[i] \in Chunks
    <3> SUFFICES ASSUME NEW i \in 1 .. pieces PROVE out[i] \in Chunks
      OBVIOUS
    <3>1. CASE i = 1
      BY <1>25, <3>1 DEF Link
    <3>2. CASE i # 1
      <4>1. PICK j \in 1 .. pieces - 1 : i = j + 1
        <5>1. i - 1 \in 1 .. pieces - 1 /\ i = (i - 1) + 1
          BY <1>9, <3>2
        <5> QED
          BY <5>1
      <4> QED
        BY <1>26, <4>1 DEF Link
    <3> QED
      BY <3>1, <3>2
  <2> QED
    BY <1>9, <1>11, <2>1
<1>28. Chain(u, out, q, sent')
  <2>1. out # <<>>
    BY <1>9, <1>11
  <2> QED
    BY <1>11, <1>15, <1>25, <1>26, <2>1 DEF Chain
<1>29. q[Len(q)].talk = talk' /\ q[Len(q)].size = peerSize' /\ q[Len(q)].n = Len(sent')
  <2>1. EncPointIs(q[pieces], u, csid, n, time, len, size, pieces, pieces, h)
    BY <1>14, <1>18, <1>24
  <2>2. h = EncHeader(n, time, len, len)
    <3>1. Cut(pieces, size, len) = len
      BY <1>9, <1>24 DEF PieceFits
    <3> QED
      BY <1>13, <1>18, <1>24, <3>1
  <2>3. SubSeq(Payload(n, len), len + 1, len) = <<>>
    <3>1. PICK s \in Seq(Bytes) : s = Payload(n, len)
      BY <1>7, PayloadType
    <3> QED
      BY <1>7, <3>1, SubSeqEmpty
  <2>4. h = [init |-> TRUE, ts |-> time, delta |-> 0, ext |-> IF time < ExtMark THEN 0 ELSE time,
             len |-> len, kind |-> Media, id |-> n, rest |-> <<>>]
    BY <2>2, <2>3 DEF EncHeader
  <2>5. talk' = [talk EXCEPT ![csid] = h] /\ peerSize' = peerSize
    BY <1>6, <2>4 DEF PeerEncodes
  <2> QED
    BY <1>5, <1>15, <1>17, <1>21, <2>1, <2>5 DEF EncPointIs
<1>30. net' = net \o out
  BY <1>5, <1>6, <1>10 DEF PeerEncodes
<1>31. coming \in Nat /\ coming' = coming + pieces * l + HeaderSize[0] + ExtSize(time >= ExtMark) + len
  BY <1>5, <1>6, <1>10, <1>11, <1>22 DEF PeerEncodes, Inv, Types, TypeOK
<1>32. coming' \in Nat /\ coming' - coming = pieces * l + HeaderSize[0] + ExtSize(time >= ExtMark) + len
  <2>1. PICK y \in Nat, x \in Nat, z \in Nat :
          y = HeaderSize[0] /\ x = ExtSize(time >= ExtMark) /\ z = pieces * l
    BY <1>9, HeaderSizes DEF ExtSize
  <2>2. coming' = coming + z + y + x + len
    BY <1>31, <2>1
  <2>3. coming + z + y + x + len \in Nat /\ (coming + z + y + x + len) - coming = z + y + x + len
    BY ONLY x \in Nat, y \in Nat, z \in Nat, <1>7, <1>31
  <2> QED
    BY <2>1, <2>2, <2>3
<1>33. q[Len(q)].off = u.off + (coming' - coming)
  <2>1. EncPointIs(q[pieces], u, csid, n, time, len, size, pieces, pieces, h)
    BY <1>14, <1>18, <1>24
  <2>2. Cut(pieces, size, len) = len
    BY <1>9, <1>24 DEF PieceFits
  <2> QED
    BY <1>15, <1>22, <1>32, <2>1, <2>2 DEF EncPointIs
<1>34. PeerChanges
  <2>1. UNCHANGED <<version, peerSize, arrived, parserVars, pc>> /\ started' = started + 1
    BY DEF PeerEncodes
  <2>2. started' \in 0 .. MaxMessages
    BY <1>1, <2>1, BoundsAssumption DEF Inv, Types
  <2>3. Continues(sent, sent')
    BY <1>21 DEF Continues
  <2> QED
    BY <1>5, <1>21, <1>32, <2>1, <2>2, <2>3 DEF PeerChanges
<1> QED
  BY <1>1, <1>2, <1>4, <1>15, <1>27, <1>28, <1>29, <1>30, <1>33, <1>34, PeerExtends

(* The steps of the peer. *)
LEMMA PeerNextKeeps ==
  ASSUME Inv, PeerNext
  PROVE  Inv'
<1>1. PICK csid \in Csids :
        \/ \E fmt \in {0, 1}, time \in Times, kind \in Kinds : \E len \in LengthOf(kind) :
             PeerStarts(csid, fmt, time, len, kind)
        \/ \E time \in Times : PeerStarts(csid, 2, time, 0, Media)
        \/ PeerStarts(csid, 3, 0, 0, Media)
        \/ PeerContinues(csid)
        \/ PeerErrs(csid)
        \/ \E time \in Times, len \in Lengths : PeerEncodes(csid, time, len)
  BY DEF PeerNext
<1>2. \A time \in Times : time \in Time
  BY TimesAssumption DEF Time
<1>3. 0 \in Time /\ Media \in Kinds /\ 0 \in Nat
  BY TimesAssumption DEF Time, Kinds
<1>4. ASSUME NEW fmt \in {0, 1}, NEW time \in Times, NEW kind \in Kinds,
             NEW len \in LengthOf(kind), PeerStarts(csid, fmt, time, len, kind)
      PROVE  Inv'
  <2>1. len \in Nat
    BY SizesAssumption DEF LengthOf
  <2>2. fmt \in 0 .. 3 /\ time \in Time
    BY <1>2
  <2> QED
    BY <1>4, <2>1, <2>2, PeerStartsKeeps
<1>5. ASSUME NEW time \in Times, PeerStarts(csid, 2, time, 0, Media) PROVE Inv'
  <2>1. 2 \in 0 .. 3 /\ time \in Time /\ 2 \notin {0, 1}
    BY <1>2
  <2> QED
    BY <1>3, <1>5, <2>1, PeerStartsKeeps
<1>6. ASSUME PeerStarts(csid, 3, 0, 0, Media) PROVE Inv'
  <2>1. 3 \in 0 .. 3 /\ 3 \notin {0, 1}
    OBVIOUS
  <2> QED
    BY <1>3, <1>6, <2>1, PeerStartsKeeps
<1>7. ASSUME NEW time \in Times, NEW len \in Lengths, PeerEncodes(csid, time, len) PROVE Inv'
  <2>1. len \in Nat
    BY SizesAssumption
  <2>2. CASE len = 0
    <3>1. PeerEncodes(csid, time, 0)
      BY <1>7, <2>2
    <3> QED
      BY <3>1, PeerEncodesEmpty
  <2>3. CASE len > 0
    BY <1>7, <2>3, PeerEncodesKeeps
  <2> QED
    BY <2>1, <2>2, <2>3
<1> QED
  BY <1>1, <1>4, <1>5, <1>6, <1>7, PeerContinuesKeeps, PeerErrsKeeps

-----------------------------------------------------------------------------
(* The server.                                                               *)

(* What the handshake still takes in a state. *)
LeftIn(state) ==
  CASE state = "kWaitC0C1" -> C0C1Size + PacketSize
    [] state = "kWaitC2" -> PacketSize
    [] OTHER -> 0

(* What process does with n bytes. *)
ProcessDoes(state, n, done) ==
  /\ done.state \in {"kWaitC0C1", "kWaitC2", "kHandshakeDone"}
  /\ done.taken \in Nat /\ done.taken <= n
  /\ LeftIn(done.state) \in Nat /\ LeftIn(state) = LeftIn(done.state) + done.taken
  /\ state # "kWaitC0C1" => done.state # "kWaitC0C1"
  /\ state = "kWaitC0C1" => (done.taken > 0 <=> done.state # "kWaitC0C1")

(* The bytes it takes are those that the handshake lacked. *)
LEMMA ProcessTakes ==
  ASSUME NEW state \in {"kWaitC0C1", "kWaitC2", "kHandshakeDone"}, NEW n \in Nat,
         NEW done, done = process(state, n)
  PROVE  ProcessDoes(state, n, done)
<1>1. C0C1Size \in Nat /\ PacketSize \in Nat /\ C0C1Size > 0 /\ PacketSize > 0
  BY SizesAssumption
<1>2. CASE state = "kWaitC0C1" /\ n >= C0C1Size + PacketSize
  <2>1. done = [state |-> "kHandshakeDone", taken |-> C0C1Size + PacketSize]
    BY <1>1, <1>2 DEF process
  <2> QED
    BY <1>1, <1>2, <2>1 DEF ProcessDoes, LeftIn
<1>3. CASE state = "kWaitC0C1" /\ n >= C0C1Size /\ n < C0C1Size + PacketSize
  <2>1. done = [state |-> "kWaitC2", taken |-> C0C1Size]
    BY <1>1, <1>3 DEF process
  <2> QED
    BY <1>1, <1>3, <2>1 DEF ProcessDoes, LeftIn
<1>4. CASE state = "kWaitC0C1" /\ n < C0C1Size
  <2>1. done = [state |-> state, taken |-> 0]
    BY <1>1, <1>4 DEF process
  <2> QED
    BY <1>1, <1>4, <2>1 DEF ProcessDoes, LeftIn
<1>5. CASE state = "kWaitC2" /\ n >= PacketSize
  <2>1. done = [state |-> "kHandshakeDone", taken |-> PacketSize]
    BY <1>1, <1>5 DEF process
  <2> QED
    BY <1>1, <1>5, <2>1 DEF ProcessDoes, LeftIn
<1>6. CASE (state = "kWaitC2" /\ n < PacketSize) \/ state = "kHandshakeDone"
  <2>1. done = [state |-> state, taken |-> 0]
    BY <1>1, <1>6 DEF process
  <2> QED
    BY <1>1, <1>6, <2>1 DEF ProcessDoes, LeftIn
<1> QED
  BY <1>1, <1>2, <1>3, <1>4, <1>5, <1>6

(* Bytes arrive. *)
LEMMA onMessageKeeps ==
  ASSUME Inv, NEW n \in Nat, onMessage(n)
  PROVE  Inv'
<1>1. /\ pc = "idle" /\ n \in 1 .. coming /\ coming' = coming - n /\ resized' = FALSE
      /\ UNCHANGED <<peerVars, net, streams, inChunkSize, messages, past, dropped, stale, drifted>>
  BY DEF onMessage
<1>2. Types /\ Phases /\ AsSent /\ LeftOK
  BY DEF Inv
<1>3. arrived \in Nat /\ coming \in Nat /\ coming' \in Nat /\ messages = <<>>
      /\ handshake \in {"kWaitC0C1", "kWaitC2", "kHandshakeDone"}
      /\ replies = (IF handshake = "kWaitC0C1" THEN 0 ELSE 1)
  BY <1>1, <1>2 DEF Types, TypeOK, Phases
<1>4. PICK readable \in Nat, done \in {process(handshake, arrived + n)} :
        readable = arrived + n /\ done = process(handshake, readable)
  BY <1>3
<1>5. /\ version' = version /\ talk' = talk /\ peerSize' = peerSize /\ sent' = sent
      /\ started' = started /\ net' = net /\ streams' = streams /\ inChunkSize' = inChunkSize
      /\ messages' = messages /\ past' = past /\ drifted' = drifted
      /\ dropped' = dropped /\ stale' = stale
  BY <1>1 DEF peerVars
<1>6. ASSUME arrived' \in Nat, handshake' \in {"kWaitC0C1", "kWaitC2", "kHandshakeDone"},
             replies' = (IF handshake' = "kWaitC0C1" THEN 0 ELSE 1),
             pc' \in {"idle", "parse", "failed"}
      PROVE  Types' /\ AsSent'
  <2>1. TypeOK'
    BY <1>1, <1>2, <1>3, <1>5, <1>6 DEF Types, TypeOK
  <2>2. Types'
    BY <1>2, <1>5, <2>1 DEF Types
  <2>3. AsSent'
    BY <1>2, <1>5, <1>6 DEF AsSent, BehindRefused
  <2> QED
    BY <2>2, <2>3
<1>7. CASE /\ arrived' = readable /\ pc' = "failed" /\ UNCHANGED <<handshake, replies>>
  <2>1. Types' /\ AsSent'
    BY <1>3, <1>6, <1>7
  <2> QED
    BY <1>3, <1>5, <1>7, <2>1 DEF Inv, Phases, LeftOK, Simulation, Working
<1>8. CASE /\ handshake' = done.state
           /\ replies' = (IF handshake = "kWaitC0C1" /\ done.taken > 0 THEN replies + 1 ELSE replies)
           /\ arrived' = readable - done.taken
           /\ pc' = (IF done.state = "kHandshakeDone" /\ arrived' > 0 THEN "parse" ELSE "idle")
  <2>1. ProcessDoes(handshake, readable, done)
    BY <1>3, <1>4, ProcessTakes
  <2>2. arrived' \in Nat /\ arrived' = arrived + n - done.taken
    BY <1>3, <1>4, <1>8, <2>1 DEF ProcessDoes
  <2>3. pc' \in {"idle", "parse"}
    BY <1>8
  <2>4. replies' = (IF handshake' = "kWaitC0C1" THEN 0 ELSE 1)
    BY <1>3, <1>8, <2>1 DEF ProcessDoes
  <2>5. Types' /\ AsSent'
    BY <1>6, <1>8, <2>1, <2>2, <2>3, <2>4 DEF ProcessDoes
  <2>6. Phases'
    BY <1>3, <1>5, <1>8 DEF Phases
  <2>7. PICK p \in Seq(Points) : Simulates(p)
    BY <1>1, <1>2 DEF Inv, Simulation, Working
  <2>8. LeftOK'
    <3>1. SUFFICES ASSUME pc' = "idle", handshake' = "kHandshakeDone", net # <<>>
                   PROVE  arrived' < ChunkBytes(Head(net))
      <4>1. pc' # "handle"
        BY <2>3
      <4> QED
        BY <1>5, <3>1, <4>1 DEF LeftOK, Left
    <3>2. arrived' = 0
      BY <1>8, <2>2, <3>1
    <3>3. Link(p[1], Head(net), p[2], sent)
      BY <1>2, <2>7, <3>1, PathTail DEF Simulates, Types
    <3>4. Head(net) \in Chunks /\ BasicOK(Head(net))
      BY <3>3 DEF Link
    <3>5. ChunkBytes(Head(net)) \in Nat /\ ChunkBytes(Head(net)) >= 1
      BY <3>4, ChunkBytesType
    <3> QED
      BY <3>2, <3>5
  <2>9. AtPeer(p[1], p[Len(p)])'
    <3>1. PICK a \in Nat, b \in Nat, t \in Nat :
            a = HandshakeLeft /\ b = HandshakeLeft' /\ t = done.taken /\ a = b + t
      <4>1. LeftIn(handshake) = LeftIn(done.state) + done.taken /\ LeftIn(done.state) \in Nat
            /\ done.taken \in Nat
        BY <2>1 DEF ProcessDoes
      <4>2. HandshakeLeft = LeftIn(handshake) /\ HandshakeLeft' = LeftIn(done.state)
        BY <1>8 DEF HandshakeLeft, LeftIn
      <4>3. LeftIn(handshake) \in Nat
        BY <4>1
      <4> QED
        BY <4>1, <4>2, <4>3, Zenon
    <3>2. arrived' + coming' - HandshakeLeft' = arrived + coming - HandshakeLeft
      <4>1. arrived' = arrived + n - t /\ coming' = coming - n
        BY <1>1, <2>2, <3>1
      <4>2. \A x \in Nat, y \in Nat : (x + n - t) + (y - n) - b = x + y - (b + t)
        BY ONLY n \in Nat, t \in Nat, b \in Nat
      <4>3. (arrived + n - t) + (coming - n) - b = arrived + coming - (b + t)
        BY ONLY <1>3, <4>2
      <4> QED
        BY ONLY <3>1, <4>1, <4>3
    <3> QED
      BY <1>5, <2>7, <3>2 DEF AtPeer, Simulates
  <2>10. Simulates(p)'
    BY <1>5, <2>7, <2>9 DEF Simulates, AtParser, SizeAt, Pending
  <2> QED
    BY <2>5, <2>6, <2>8, <2>10 DEF Inv, Simulation
<1> QED
  BY <1>1, <1>4, <1>7, <1>8 DEF onMessage

(* The parser is at the chunk c, between the points u and v of the path p. *)
AtHead(p, c, csid, fmt, u, v) ==
  /\ p \in Seq(Points) /\ Simulates(p) /\ net # <<>> /\ c = Head(net) /\ c = net[1]
  /\ c \in Chunks /\ BasicOK(c) /\ csid = CsidOf(c.basic) /\ fmt = FmtOf(c.basic)
  /\ csid \in Csids /\ fmt \in 0 .. 3
  /\ u = p[1] /\ v = p[2] /\ Link(u, c, v, sent) /\ GoodPoint(u) /\ GoodPoint(v)
  /\ Tail(p) \in Seq(Points) /\ Path(Tail(p), Tail(net), sent) /\ Tail(p)[1] = v
  /\ Tail(p)[Len(Tail(p))] = p[Len(p)]
  /\ handshake = "kHandshakeDone" /\ arrived \in Nat /\ arrived > 0

(* There is a chunk to parse when bytes are left. *)
LEMMA HeadExists ==
  ASSUME Inv, pc = "parse", NEW c, NEW csid, NEW fmt, c = Head(net), csid = CsidOf(c.basic),
         fmt = FmtOf(c.basic)
  PROVE  \E p, u, v : AtHead(p, c, csid, fmt, u, v)
<1>1. handshake = "kHandshakeDone" /\ arrived \in Nat /\ coming \in Nat /\ arrived > 0
      /\ net \in Seq(Chunks) /\ sent \in Seq(Sent)
  BY DEF Inv, Phases, Types, TypeOK
<1>2. PICK p \in Seq(Points) : Simulates(p)
  BY DEF Inv, Simulation, Working
<1>3. Path(p, net, sent) /\ AtPeer(p[1], p[Len(p)])
  BY <1>2 DEF Simulates
<1>4. net # <<>>
  <2>1. SUFFICES ASSUME net = <<>> PROVE FALSE
    OBVIOUS
  <2>2. Len(p) = 1 /\ GoodPoint(p[1])
    BY <1>3, <2>1 DEF Path
  <2>3. PICK x \in Nat : x = p[1].off
    BY <2>2 DEF GoodPoint, Points
  <2>4. x = x + (arrived + coming - 0)
    BY <1>1, <1>3, <2>2, <2>3 DEF AtPeer, HandshakeLeft
  <2> QED
    BY ONLY x \in Nat, <1>1, <2>4
<1>5. /\ Path(Tail(p), Tail(net), sent) /\ Tail(p) \in Seq(Points)
      /\ Tail(p)[1] = p[2] /\ Tail(p)[Len(Tail(p))] = p[Len(p)]
      /\ Link(p[1], Head(net), p[2], sent) /\ GoodPoint(p[1]) /\ GoodPoint(p[2])
  BY <1>1, <1>3, <1>4, PathTail
<1>6. c \in Chunks /\ BasicOK(c) /\ csid \in Csids /\ fmt \in 0 .. 3
  BY <1>5 DEF Link, BasicOK
<1>7. c = net[1]
  BY <1>4
<1>8. AtHead(p, c, csid, fmt, p[1], p[2])
  BY <1>1, <1>2, <1>4, <1>5, <1>6, <1>7 DEF AtHead
<1> QED
  BY <1>8

(* A chunk stream that is begun agrees with a message of the peer. *)
LEMMA HeadProper ==
  ASSUME Inv, NEW p, NEW c, NEW csid, NEW fmt, NEW u, NEW v, AtHead(p, c, csid, fmt, u, v),
         fmt = 0 \/ streams[csid].init
  PROVE  /\ Proper(u, c, csid, fmt, v, sent) /\ streams[csid] \in States
         /\ Match(streams[csid], u.talk[csid], fmt, csid \in drifted)
         /\ u.talk[csid] \in Headers /\ GoodHeader(u.talk[csid])
         /\ v.talk[csid] \in Headers /\ GoodHeader(v.talk[csid])
         /\ u.size \in Nat /\ u.size > 0
<1>1. Link(u, c, v, sent) /\ csid \in Csids /\ AtParser(u) /\ net # <<>> /\ c = net[1]
      /\ csid = CsidOf(c.basic) /\ fmt = FmtOf(c.basic) /\ GoodPoint(u) /\ GoodPoint(v)
  BY DEF AtHead, Simulates
<1>2. HeadFmt(net, csid) = fmt
  BY <1>1 DEF HeadFmt
<1>3. Match(streams[csid], u.talk[csid], fmt, csid \in drifted)
  BY <1>1, <1>2 DEF AtParser
<1>4. streams[csid] \in States
  BY <1>1 DEF Inv, Types
<1>5. u.talk[csid] \in Headers /\ GoodHeader(u.talk[csid])
      /\ v.talk[csid] \in Headers /\ GoodHeader(v.talk[csid]) /\ u.size \in Sizes
  BY <1>1 DEF GoodPoint, Points
<1>6. ~Stray(u, csid, fmt, v)
  BY <1>3 DEF Stray, Match
<1>7. Proper(u, c, csid, fmt, v, sent)
  BY <1>1, <1>6 DEF Link
<1>8. u.size \in Nat /\ u.size > 0
  <2>1. \A z \in Sizes : z \in Nat /\ z > 0
    BY ONLY SizesAssumption DEF Sizes
  <2> QED
    BY <1>5, <2>1
<1> QED
  BY <1>3, <1>4, <1>5, <1>7, <1>8

(* The parser takes the bytes of the chunk when it knows the chunk size. *)
LEMMA TakesData ==
  ASSUME NEW s, NEW b, NEW c, NEW h, NEW size, NEW drift, HeaderIs(s, b, h, drift),
         PayloadMoves(b, c, size, h)
  PROVE  ChunkPayload(s, size) = Len(c.data)
BY DEF HeaderIs, PayloadMoves, ChunkPayload

(* What the server's steps in a chunk leave alone. *)
ParserLeaves ==
  UNCHANGED <<peerVars, coming, handshake, replies, inChunkSize, past, dropped, stale, resized>>

(* Steps that leave the bytes and messages where they are. *)
LEMMA SameMessages ==
  ASSUME Inv, ParserLeaves, UNCHANGED <<net, arrived, messages>>,
         streams' \in [Csids -> States], \A d \in Csids : streams'[d].got \in 0 .. streams'[d].len,
         drifted' \subseteq Csids, pc' \in {"handle", "lateSize", "staleSize", "noExt"},
         handshake = "kHandshakeDone"
  PROVE  Types' /\ Phases' /\ AsSent'
<1>1. /\ version' = version /\ talk' = talk /\ peerSize' = peerSize /\ sent' = sent
      /\ started' = started /\ coming' = coming /\ handshake' = handshake /\ replies' = replies
      /\ inChunkSize' = inChunkSize /\ past' = past /\ resized' = resized
      /\ net' = net /\ arrived' = arrived /\ messages' = messages
      /\ dropped' = dropped /\ stale' = stale
  BY DEF ParserLeaves, peerVars
<1>2. Types /\ Phases /\ AsSent
  BY DEF Inv
<1>3. \A d \in Csids : streams'[d].ts \in 0 .. TimeMod - 1 /\ streams'[d].kind \in Kinds
  BY DEF States, Time
<1>4. TypeOK'
  BY <1>1, <1>2, <1>3 DEF Types, TypeOK
<1>5. Types'
  BY <1>1, <1>2, <1>4 DEF Types
<1>6. Phases'
  BY <1>1 DEF Phases
<1>7. AsSent'
  BY <1>1, <1>2 DEF AsSent, BehindRefused
<1> QED
  BY <1>5, <1>6, <1>7

(* parseOneChunk finds the header or the payload of the chunk incomplete. *)
HalfParsed(m, fmt, bytes, basic, size) ==
  \/ m.used = 0 /\ ~fmt3_without_extra_header(m.state, fmt)
  \/ bytes < basic + m.used + ChunkPayload(m.state, size)

(* No chunk boundary is left behind a header that is not whole, or whose       *)
(* payload is not.                                                            *)
LEMMA HalfLeaves ==
  ASSUME NEW s \in States, NEW b \in Headers, NEW c \in Chunks, NEW h \in Headers,
         NEW fmt \in 0 .. 3, NEW n \in Nat, NEW drift \in BOOLEAN, NEW m, NEW size, NEW bytes \in Nat,
         NEW basic \in Nat, BasicOK(c), basic = Len(c.basic), fmt = FmtOf(c.basic),
         bytes = basic + n,
         GoodHeader(b), HeaderMoves(b, c, fmt, h), PayloadMoves(b, c, size, h), fmt = 0 \/ b.init,
         Match(s, b, fmt, drift), m = parseMessageHeader(s, fmt, c, n),
         HalfParsed(m, fmt, bytes, basic, size)
  PROVE  bytes < ChunkBytes(c) \/ (fmt = 3 /\ ~c.ext /\ m.state.ext # 0)
<1>1. /\ m.state \in States /\ m.used \in Nat /\ (fmt = 3 => m.state.ext = s.ext)
      /\ Match(m.state, b, fmt, drift \/ (fmt # 0 /\ m.state.ts # s.ts))
  BY HalfKeepsMatch
<1>2. PICK x \in Nat, e \in Nat, d \in Nat :
        x = HeaderSize[fmt] /\ e = ExtSize(c.ext) /\ d = Len(c.data) /\ ChunkBytes(c) = basic + x + e + d
  <2>1. HeaderSize[fmt] \in Nat /\ ExtSize(c.ext) \in Nat /\ Len(c.data) \in Nat
    BY HeaderSizes DEF ExtSize, Chunks
  <2>2. ChunkBytes(c) = basic + HeaderSize[fmt] + ExtSize(c.ext) + Len(c.data)
    BY DEF ChunkBytes
  <2> QED
    BY <2>1, <2>2, Zenon
<1>3. ASSUME m.used = x + e, m.used > 0 \/ fmt3_without_extra_header(m.state, fmt)
      PROVE  bytes < ChunkBytes(c)
  <2>1. HeaderIs(m.state, b, h, fmt # 0 /\ (drift \/ SkipsDelta(m.state, fmt)))
    <3>1. m.used = HeaderSize[fmt] + ExtSize(c.ext)
      BY <1>2, <1>3
    <3> QED
      BY <1>3, <3>1, WholeMatches
  <2>2. ChunkPayload(m.state, size) = d
    BY <1>2, <2>1, TakesData
  <2>3. bytes < basic + (x + e) + d
    <3>1. ~(m.used = 0 /\ ~fmt3_without_extra_header(m.state, fmt))
      BY ONLY <1>1, <1>3
    <3>2. bytes < basic + m.used + ChunkPayload(m.state, size)
      BY <3>1 DEF HalfParsed
    <3> QED
      BY <1>3, <2>2, <3>2
  <2> QED
    BY <1>2, <2>3
<1>4. CASE fmt = 3
  <2>1. m.used = (IF s.ext = 0 \/ n < 4 THEN 0 ELSE 4) /\ x = 0
    <3>1. m = parseMessageHeader(s, 3, c, n)
      BY <1>4
    <3>2. Fmt3Does(s, n, m)
      BY <3>1, HeaderOfFmt3
    <3> QED
      BY <1>2, <1>4, <3>2, HeaderSizes DEF Fmt3Does
  <2>2. m.state.init
    BY <1>1, <1>4 DEF Match
  <2>3. CASE s.ext = 0 /\ ~c.ext
    <3>1. fmt3_without_extra_header(m.state, fmt)
      BY <1>1, <1>4, <2>2, <2>3 DEF fmt3_without_extra_header
    <3>2. e = 0
      BY <1>2, <2>3 DEF ExtSize
    <3> QED
      BY <1>3, <2>1, <2>3, <3>1, <3>2
  <2>4. CASE s.ext = 0 /\ c.ext
    <3>1. fmt3_without_extra_header(m.state, fmt)
      BY <1>1, <1>4, <2>2, <2>4 DEF fmt3_without_extra_header
    <3>2. bytes < basic + 0 + ChunkPayload(m.state, size)
      BY <2>1, <2>4, <3>1 DEF HalfParsed
    <3>3. ChunkPayload(m.state, size) = d
      <4>1. m.state.len = b.len /\ m.state.got = Given(b) /\ h.len = b.len
        BY <1>1, <1>4 DEF Match, HeaderMoves
      <4> QED
        BY <1>2, <4>1 DEF ChunkPayload, PayloadMoves
    <3>4. bytes < basic + 0 + d
      BY <3>2, <3>3
    <3>5. bytes < basic + x + e + d
      BY ONLY bytes \in Nat, basic \in Nat, x \in Nat, e \in Nat, d \in Nat, <3>4
    <3> QED
      BY <1>2, <3>5
  <2>5. CASE s.ext # 0 /\ ~c.ext
    BY <1>1, <1>4, <2>5
  <2>6. CASE s.ext # 0 /\ c.ext
    <3>1. e = 4
      BY <1>2, <2>6 DEF ExtSize
    <3>2. CASE n < 4
      <4>1. bytes < basic + x + e + d
        BY ONLY bytes = basic + n, n \in Nat, basic \in Nat, x \in Nat, d \in Nat, <3>1, <3>2
      <4> QED
        BY <1>2, <4>1
    <3>3. CASE n >= 4
      <4>1. m.used = x + e /\ m.used > 0
        BY <2>1, <2>6, <3>1, <3>3
      <4> QED
        BY <1>3, <4>1
    <3> QED
      BY <3>2, <3>3
  <2> QED
    BY <2>3, <2>4, <2>5, <2>6
<1>5. CASE fmt \in {0, 1, 2}
  <2>1. \/ m.used = 0 /\ n < x
        \/ m.used = 0 /\ n < x + e
        \/ m.used = x + e
    <3>1. \/ m.state = s /\ m.used = 0 /\ n < HeaderSize[fmt]
          \/ m.state = ReadHeader(s, fmt, c) /\ m.used = 0 /\ n < HeaderSize[fmt] + ExtSize(c.ext)
          \/ m.state = WholeHeader(s, fmt, c) /\ m.used = HeaderSize[fmt] + ExtSize(c.ext)
      BY ONLY s \in States, c \in Chunks, n \in Nat, <1>5, m = parseMessageHeader(s, fmt, c, n),
              HeaderOfFmt012
    <3> QED
      BY <1>2, <3>1
  <2>2. CASE n < x + e \/ n < x
    <3>1. bytes < basic + x + e + d
      BY ONLY bytes = basic + n, n \in Nat, basic \in Nat, x \in Nat, e \in Nat, d \in Nat, <2>2
    <3> QED
      BY <1>2, <3>1
  <2>3. CASE m.used = x + e
    <3>1. x > 0
      BY <1>2, <1>5, HeaderSizes
    <3> QED
      BY <1>3, <2>3, <3>1
  <2> QED
    BY <2>1, <2>2, <2>3
<1> QED
  BY <1>4, <1>5

(* parseOneChunk ends at a half chunk. *)
LEMMA HalfChunkKeeps ==
  ASSUME Inv, pc = "parse", NEW p, NEW c, NEW csid, NEW fmt, NEW u, NEW v,
         AtHead(p, c, csid, fmt, u, v), ParserLeaves,
         NEW n \in Nat, arrived = Len(c.basic) + n, fmt = 0 \/ streams[csid].init,
         NEW m, m = parseMessageHeader(streams[csid], fmt, c, n),
         \/ m.used = 0 /\ ~fmt3_without_extra_header(m.state, fmt)
         \/ arrived < Len(c.basic) + m.used + ChunkPayload(m.state, inChunkSize),
         HalfChunk(csid, fmt, m.state)
  PROVE  Inv'
<1>1. /\ Proper(u, c, csid, fmt, v, sent) /\ streams[csid] \in States
      /\ Match(streams[csid], u.talk[csid], fmt, csid \in drifted)
      /\ u.talk[csid] \in Headers /\ GoodHeader(u.talk[csid])
      /\ v.talk[csid] \in Headers /\ GoodHeader(v.talk[csid])
  BY HeadProper
<1>2. PICK s \in States, b \in Headers, h \in Headers :
        s = streams[csid] /\ b = u.talk[csid] /\ h = v.talk[csid]
  BY <1>1
<1>3. /\ GoodHeader(b) /\ HeaderMoves(b, c, fmt, h) /\ PayloadMoves(b, c, u.size, h)
      /\ (fmt = 0 \/ b.init) /\ Match(s, b, fmt, csid \in drifted) /\ m = parseMessageHeader(s, fmt, c, n)
  BY <1>1, <1>2 DEF Proper
<1>4. /\ p \in Seq(Points) /\ Simulates(p) /\ net # <<>> /\ c = net[1] /\ c = Head(net)
      /\ c \in Chunks /\ BasicOK(c)
      /\ csid = CsidOf(c.basic) /\ fmt = FmtOf(c.basic) /\ csid \in Csids /\ fmt \in 0 .. 3
      /\ u = p[1] /\ GoodPoint(u) /\ handshake = "kHandshakeDone" /\ arrived \in Nat
  BY DEF AtHead
<1>5. /\ streams' = [streams EXCEPT ![csid] = m.state] /\ pc' = "handle"
      /\ drifted' = (IF fmt # 0 /\ m.state.ts # s.ts THEN drifted \cup {csid} ELSE drifted)
      /\ UNCHANGED <<net, arrived, messages>>
  BY <1>2 DEF HalfChunk
<1>6. /\ m.state \in States
      /\ Match(m.state, b, fmt, csid \in drifted \/ (fmt # 0 /\ m.state.ts # s.ts))
  <2>1. PICK drift \in BOOLEAN : drift = (csid \in drifted)
    <3>1. (csid \in drifted) \in BOOLEAN
      OBVIOUS
    <3> QED
      BY <3>1, Zenon
  <2>2. Match(s, b, fmt, drift)
    BY <1>3, <2>1
  <2>3. m.state \in States /\ Match(m.state, b, fmt, drift \/ (fmt # 0 /\ m.state.ts # s.ts))
    BY <1>3, <1>4, <2>2, HalfKeepsMatch
  <2> QED
    BY <2>1, <2>3
<1>7. Match(m.state, b, fmt, csid \in drifted')
  <2>1. csid \in drifted' <=> csid \in drifted \/ (fmt # 0 /\ m.state.ts # s.ts)
    BY <1>5
  <2> QED
    BY <1>6, <2>1 DEF Match
<1>8. streams \in [Csids -> States] /\ \A d \in Csids : streams[d].got \in 0 .. streams[d].len
  BY DEF Inv, Types, TypeOK
<1>9. m.state.got \in 0 .. m.state.len
  <2>1. fmt \in {0, 1} => b.rest = <<>>
    BY <1>3 DEF HeaderMoves
  <2>2. fmt \in 0 .. 4 /\ (csid \in drifted') \in BOOLEAN
    BY <1>4
  <2> QED
    BY <1>3, <1>4, <1>6, <1>7, <2>1, <2>2, MatchBounds
<1>10. streams' \in [Csids -> States] /\ \A d \in Csids : streams'[d].got \in 0 .. streams'[d].len
  BY <1>4, <1>5, <1>6, <1>8, <1>9
<1>11. drifted' \subseteq Csids
  BY <1>4, <1>5 DEF Inv, Types, TypeOK
<1>12. Types' /\ Phases' /\ AsSent'
  BY <1>4, <1>5, <1>10, <1>11, SameMessages
<1>13. /\ talk' = talk /\ peerSize' = peerSize /\ sent' = sent /\ coming' = coming
       /\ handshake' = handshake /\ inChunkSize' = inChunkSize /\ past' = past
       /\ resized' = resized /\ net' = net /\ arrived' = arrived /\ messages' = messages
       /\ stale' = stale
  BY <1>5 DEF ParserLeaves, peerVars
<1>14. LeftOK'
  <2>1. SUFFICES ASSUME ~Pending(messages), ~stale PROVE Left'
    BY <1>13 DEF LeftOK
  <2>2. inChunkSize = u.size
    BY <1>4, <2>1 DEF Simulates, SizeAt
  <2>3. PICK basic \in Nat : basic = Len(c.basic)
    BY <1>4 DEF BasicOK
  <2>4. \/ m.used = 0 /\ ~fmt3_without_extra_header(m.state, fmt)
        \/ arrived < basic + m.used + ChunkPayload(m.state, u.size)
    BY <2>2, <2>3
  <2>5. PICK drift \in BOOLEAN, bytes \in Nat, size \in {u.size} :
          drift = (csid \in drifted) /\ bytes = arrived /\ bytes = basic + n /\ size = u.size
    <3>1. (csid \in drifted) \in BOOLEAN /\ arrived \in Nat /\ arrived = basic + n
      BY <1>4, <2>3
    <3> QED
      BY <3>1, Zenon
  <2>6. arrived < ChunkBytes(c) \/ (fmt = 3 /\ ~c.ext /\ m.state.ext # 0)
    <3>1. Match(s, b, fmt, drift) /\ PayloadMoves(b, c, size, h)
      BY <1>3, <2>5
    <3>2. HalfParsed(m, fmt, bytes, basic, size)
      BY <2>4, <2>5 DEF HalfParsed
    <3>3. bytes < ChunkBytes(c) \/ (fmt = 3 /\ ~c.ext /\ m.state.ext # 0)
      <4>1. /\ c \in Chunks /\ fmt \in 0 .. 3 /\ BasicOK(c) /\ basic = Len(c.basic)
            /\ fmt = FmtOf(c.basic) /\ bytes = basic + n
        BY <1>4, <2>3, <2>5
      <4>2. /\ GoodHeader(b) /\ HeaderMoves(b, c, fmt, h) /\ (fmt = 0 \/ b.init)
            /\ m = parseMessageHeader(s, fmt, c, n)
        BY <1>3
      <4> QED
        BY ONLY s \in States, b \in Headers, h \in Headers, n \in Nat, drift \in BOOLEAN,
                bytes \in Nat, basic \in Nat, <3>1, <3>2, <4>1, <4>2, HalfLeaves
    <3> QED
      BY <2>5, <3>3
  <2>7. streams'[csid] = m.state
    BY <1>4, <1>5, <1>8
  <2> QED
    BY <1>4, <1>13, <2>6, <2>7 DEF Left
<1>15. AtParser(u)'
  <2>1. AtParser(u)
    BY <1>4 DEF Simulates
  <2>2. ASSUME NEW d \in Csids
        PROVE  Match(streams'[d], u.talk[d], HeadFmt(net, d), d \in drifted')
    <3>1. CASE d = csid
      <4>1. HeadFmt(net, d) = fmt
        BY <1>4, <3>1 DEF HeadFmt
      <4>2. streams'[d] = m.state
        BY <1>5, <1>8, <3>1
      <4> QED
        BY <1>2, <1>7, <3>1, <4>1, <4>2
    <3>2. CASE d # csid
      <4>1. streams'[d] = streams[d] /\ (d \in drifted' <=> d \in drifted)
        BY <1>5, <1>8, <3>2
      <4>2. Match(streams[d], u.talk[d], HeadFmt(net, d), d \in drifted)
        BY <2>1 DEF AtParser
      <4> QED
        BY <4>1, <4>2 DEF Match
    <3> QED
      BY <3>1, <3>2
  <2> QED
    BY <1>13, <2>1, <2>2 DEF AtParser
<1>16. Simulates(p)'
  <2>1. Path(p, net, sent) /\ AtPeer(p[1], p[Len(p)]) /\ SizeAt(p[1])
    BY <1>4 DEF Simulates
  <2>2. AtPeer(p[1], p[Len(p)])'
    BY <1>13, <2>1 DEF AtPeer, HandshakeLeft
  <2>3. SizeAt(p[1])'
    BY <1>13, <2>1 DEF SizeAt, Pending
  <2> QED
    BY <1>4, <1>13, <1>15, <2>1, <2>2, <2>3 DEF Simulates
<1> QED
  BY <1>4, <1>12, <1>14, <1>16 DEF Inv, Simulation

(* The message that a whole chunk completes. *)
ParsedMessage(csid, t, drift) ==
  [csid |-> csid, ts |-> t.ts, len |-> t.len, kind |-> t.kind, payload |-> t.payload,
   exact |-> csid \notin drift]

(* Where a whole chunk takes the parser, when its header skips a delta or not. *)
ChunkTaken(c, csid, fmt, t, skips) ==
  /\ net' = Tail(net) /\ arrived' = arrived - ChunkBytes(c)
  /\ drifted' = (IF fmt = 0 THEN drifted \ {csid}
                 ELSE IF skips THEN drifted \cup {csid} ELSE drifted)
  /\ messages' = (IF t.got < t.len THEN messages
                  ELSE Append(messages, ParsedMessage(csid, t, drifted')))
  /\ streams' = [streams EXCEPT ![csid] = IF t.got < t.len THEN t ELSE Emptied(t)]
  /\ pc' = (IF arrived' > 0 THEN "parse" ELSE "handle")

(* What the chunk stream holds behind a whole chunk. *)
StreamTaken(s, h, t, drift) ==
  /\ s \in States /\ t \in States /\ t.len = h.len /\ t.kind = h.kind
  /\ s = (IF t.got < t.len THEN t ELSE Emptied(t))
  /\ t.got < t.len <=> h.rest # <<>>
  /\ Match(s, h, 4, drift) /\ s.got \in 0 .. s.len
  /\ h.rest = <<>> => t.payload = Payload(h.id, h.len)
  /\ ~drift => t.ts = h.ts

(* parseOneChunk finds the header of the chunk with the bytes that it has. *)
WholeParsed(m, c, fmt) ==
  /\ m.used > 0 \/ fmt3_without_extra_header(m.state, fmt)
  /\ m.used = HeaderSize[fmt] + ExtSize(c.ext)

(* It is the peer's next header. *)
LEMMA TakenMatches ==
  ASSUME NEW s \in States, NEW b \in Headers, NEW c \in Chunks, NEW h \in Headers,
         NEW fmt \in 0 .. 3, NEW n \in Nat, NEW drift \in BOOLEAN, NEW m, NEW size \in Nat, size > 0,
         GoodHeader(b), GoodHeader(h), HeaderMoves(b, c, fmt, h), PayloadMoves(b, c, size, h),
         fmt = 0 \/ b.init, Match(s, b, fmt, drift), m = parseMessageHeader(s, fmt, c, n),
         WholeParsed(m, c, fmt),
         NEW t, t = Joined(m.state, c, Len(c.data)), NEW r,
         r = (IF t.got < t.len THEN t ELSE Emptied(t)), NEW d \in BOOLEAN,
         d <=> fmt # 0 /\ (drift \/ SkipsDelta(m.state, fmt))
  PROVE  StreamTaken(r, h, t, d)
<1>1. HeaderIs(m.state, b, h, fmt # 0 /\ (drift \/ SkipsDelta(m.state, fmt)))
  <2>1. /\ m.used > 0 \/ fmt3_without_extra_header(m.state, fmt)
        /\ m.used = HeaderSize[fmt] + ExtSize(c.ext)
    BY DEF WholeParsed
  <2> QED
    BY <2>1, WholeMatches
<1>2. HeaderIs(m.state, b, h, d)
  BY <1>1 DEF HeaderIs
<1>3. m.state \in States
  BY HalfKeepsMatch
<1>4. h.init
  BY DEF HeaderMoves
<1>5. Given(b) <= h.len
  <2>1. CASE b.rest = <<>>
    <3>1. Given(b) = 0 /\ h.len \in Nat
      BY <2>1 DEF Given, Headers
    <3> QED
      BY <3>1
  <2>2. CASE b.rest # <<>>
    <3>1. fmt = 3 /\ h.len = b.len
      BY <2>2 DEF HeaderMoves
    <3> QED
      BY <2>2, <3>1, GivenType
  <2> QED
    BY <2>1, <2>2
<1>6. /\ t \in States /\ Emptied(t) \in States
      /\ t.ts = m.state.ts /\ t.len = h.len /\ t.kind = h.kind
      /\ t.got < t.len <=> h.rest # <<>>
      /\ h.rest # <<>> => Match(t, h, 4, d)
      /\ h.rest = <<>> => Match(Emptied(t), h, 4, d) /\ t.payload = Payload(h.id, h.len)
  BY ONLY m.state \in States, b \in Headers, c \in Chunks, h \in Headers, d \in BOOLEAN,
          size \in Nat, size > 0, t = Joined(m.state, c, Len(c.data)), GoodHeader(b),
          GoodHeader(h), PayloadMoves(b, c, size, h), <1>2, <1>3, <1>4, <1>5, JoinMatches
<1>7. r \in States /\ Match(r, h, 4, d)
  BY <1>6
<1>8. r.got \in 0 .. r.len
  <2>1. 4 \in 0 .. 4 /\ 4 \notin {0, 1}
    OBVIOUS
  <2> QED
    BY <1>7, <2>1, MatchBounds
<1>9. ~d => t.ts = h.ts
  BY <1>2, <1>6 DEF HeaderIs
<1> QED
  BY <1>6, <1>7, <1>8, <1>9 DEF StreamTaken

(* The messages behind a whole chunk: the same, or one more that is the next  *)
(* one sent.                                                                  *)
MessagesTaken(u, v) ==
  \/ messages' = messages /\ v.n = u.n /\ v.size = u.size
  \/ \E g \in Parsed :
       /\ messages' = Append(messages, g) /\ v.n = u.n + 1 /\ v.n <= Len(sent)
       /\ g.csid = sent[v.n].csid /\ g.len = sent[v.n].len /\ g.kind = sent[v.n].kind
       /\ g.payload = sent[v.n].payload /\ (g.exact => g.ts = sent[v.n].ts)
       /\ v.size = (IF g.kind \in ChunkSizes THEN g.kind ELSE u.size)

(* A completed message is as sent. *)
LEMMA TakenMessage ==
  ASSUME NEW csid \in Csids, NEW u, NEW v, NEW c, NEW fmt, NEW h, NEW t, NEW s, NEW skips,
         MessageMoves(u, csid, h, v, sent), ChunkTaken(c, csid, fmt, t, skips),
         StreamTaken(s, h, t, csid \in drifted')
  PROVE  MessagesTaken(u, v)
<1>1. CASE h.rest # <<>>
  BY <1>1 DEF MessageMoves, ChunkTaken, StreamTaken, MessagesTaken
<1>2. CASE h.rest = <<>>
  <2>1. PICK g : g = ParsedMessage(csid, t, drifted')
    OBVIOUS
  <2>2. messages' = Append(messages, g)
    BY <1>2, <2>1 DEF ChunkTaken, StreamTaken
  <2>3. g \in Parsed
    <3>1. PICK y \in BOOLEAN : y = (csid \notin drifted')
      <4>1. (csid \notin drifted') \in BOOLEAN
        OBVIOUS
      <4> QED
        BY <4>1, Zenon
    <3>2. g = [csid |-> csid, ts |-> t.ts, len |-> t.len, kind |-> t.kind,
               payload |-> t.payload, exact |-> y]
      BY <2>1, <3>1 DEF ParsedMessage
    <3>3. t \in States
      BY DEF StreamTaken
    <3>4. t.ts \in Time /\ t.len \in Nat /\ t.kind \in Kinds /\ t.payload \in Seq(Bytes)
      BY <3>3 DEF States
    <3> QED
      BY <3>2, <3>4 DEF Parsed
  <2>4. /\ g.csid = csid /\ g.ts = t.ts /\ g.len = t.len /\ g.kind = t.kind
        /\ g.payload = t.payload
    BY <2>1 DEF ParsedMessage
  <2>5. g.exact = (csid \notin drifted')
    BY <2>1 DEF ParsedMessage
  <2>6. t.len = h.len /\ t.kind = h.kind /\ t.payload = Payload(h.id, h.len)
    BY <1>2 DEF StreamTaken
  <2>7. g.exact => t.ts = h.ts
    <3>1. csid \notin drifted' => t.ts = h.ts
      BY DEF StreamTaken
    <3> QED
      BY <2>5, <3>1, Zenon
  <2>8. /\ v.n = u.n + 1 /\ v.n <= Len(sent)
        /\ sent[v.n].csid = csid /\ sent[v.n].ts = h.ts /\ sent[v.n].len = h.len
        /\ sent[v.n].kind = h.kind /\ sent[v.n].payload = Payload(h.id, h.len)
        /\ v.size = (IF h.kind \in ChunkSizes THEN h.kind ELSE u.size)
    BY <1>2 DEF MessageMoves
  <2>9. /\ g.csid = sent[v.n].csid /\ g.len = sent[v.n].len /\ g.kind = sent[v.n].kind
        /\ g.payload = sent[v.n].payload /\ (g.exact => g.ts = sent[v.n].ts)
        /\ v.size = (IF g.kind \in ChunkSizes THEN g.kind ELSE u.size)
    BY <2>4, <2>6, <2>7, <2>8
  <2> QED
    BY <2>2, <2>3, <2>8, <2>9, Zenon DEF MessagesTaken
<1> QED
  BY <1>1, <1>2

(* So the messages stay as sent. *)
LEMMA TakenAsSent ==
  ASSUME Types, AsSent, NEW u, NEW v, MessagesTaken(u, v), u.n = Len(past) + Len(messages),
         sent' = sent, past' = past, dropped' = dropped, pc' # "other"
  PROVE  /\ messages' \in Seq(Parsed) /\ AsSent' /\ v.n = Len(past) + Len(messages')
<1>1. messages \in Seq(Parsed) /\ past \in Seq(Parsed) /\ sent \in Seq(Sent)
  BY DEF Types
<1>4. BehindRefused'
  BY DEF AsSent, BehindRefused
<1>2. CASE messages' = messages /\ v.n = u.n /\ v.size = u.size
  BY <1>1, <1>2, <1>4 DEF AsSent
<1>3. ASSUME NEW g \in Parsed, messages' = Append(messages, g), v.n = u.n + 1, v.n <= Len(sent),
             g.csid = sent[v.n].csid, g.len = sent[v.n].len, g.kind = sent[v.n].kind,
             g.payload = sent[v.n].payload, g.exact => g.ts = sent[v.n].ts
      PROVE  /\ messages' \in Seq(Parsed) /\ AsSent' /\ v.n = Len(past) + Len(messages')
  <2>1. /\ messages' \in Seq(Parsed) /\ Len(messages') = Len(messages) + 1
        /\ \A i \in 1 .. Len(messages) : messages'[i] = messages[i]
        /\ messages'[Len(messages) + 1] = g
    BY ONLY <1>1, <1>3, g \in Parsed, AppendProperties
  <2>2. PICK k \in Nat, l \in Nat : k = Len(past) /\ l = Len(messages)
    BY <1>1
  <2>3. v.n = k + l + 1 /\ Len(past) + Len(messages') = k + l + 1 /\ k + l + 1 <= Len(sent)
    BY <1>3, <2>1, <2>2
  <2>4. PICK x, y : x = past \o messages /\ y = past \o messages'
    OBVIOUS
  <2>5. \A i \in 1 .. k + l : y[i] = x[i]
    <3> SUFFICES ASSUME NEW i \in 1 .. k + l PROVE y[i] = x[i]
      OBVIOUS
    <3>1. CASE i <= k
      BY <1>1, <2>1, <2>2, <2>4, <3>1
    <3>2. CASE i > k
      <4>1. PICK j \in 1 .. l : i = k + j /\ i - k = j
        <5>1. i - k \in 1 .. l /\ i = k + (i - k)
          BY <3>2
        <5> QED
          BY <5>1
      <4>2. x[i] = messages[j] /\ y[i] = messages'[j]
        BY <1>1, <2>1, <2>2, <2>4, <3>2, <4>1
      <4> QED
        BY <2>1, <2>2, <4>2
    <3> QED
      BY <3>1, <3>2
  <2>6. y[k + l + 1] = g
    BY <1>1, <2>1, <2>2, <2>4
  <2>7. ASSUME NEW i \in 1 .. k + l + 1
        PROVE  /\ y[i].csid = sent[i].csid /\ y[i].len = sent[i].len
               /\ y[i].kind = sent[i].kind /\ y[i].payload = sent[i].payload
               /\ y[i].exact => y[i].ts = sent[i].ts
    <3>1. CASE i = k + l + 1
      BY <1>3, <2>3, <2>6, <3>1
    <3>2. CASE i \in 1 .. k + l
      <4>1. /\ x[i].csid = sent[i].csid /\ x[i].len = sent[i].len
            /\ x[i].kind = sent[i].kind /\ x[i].payload = sent[i].payload
            /\ x[i].exact => x[i].ts = sent[i].ts
        BY <2>2, <2>4, <3>2 DEF AsSent
      <4> QED
        BY <2>5, <3>2, <4>1
    <3> QED
      BY <3>1, <3>2
  <2>8. AsSent'
    BY <1>4, <2>3, <2>4, <2>7 DEF AsSent
  <2> QED
    BY <2>1, <2>2, <2>3, <2>8
<1> QED
  BY <1>2, <1>3 DEF MessagesTaken

(* And the chunk size stays that of the last Set Chunk Size. *)
LEMMA TakenSize ==
  ASSUME Types, NEW u, NEW v, MessagesTaken(u, v), SizeAt(u), inChunkSize' = inChunkSize,
         stale' = stale
  PROVE  SizeAt(v)'
<1>1. messages \in Seq(Parsed)
  BY DEF Types
<1>2. CASE messages' = messages /\ v.n = u.n /\ v.size = u.size
  BY <1>2 DEF SizeAt, Pending
<1>3. ASSUME NEW g \in Parsed, messages' = Append(messages, g),
             v.size = (IF g.kind \in ChunkSizes THEN g.kind ELSE u.size)
      PROVE  SizeAt(v)'
  <2>1. /\ Len(messages') = Len(messages) + 1
        /\ \A i \in 1 .. Len(messages) : messages'[i] = messages[i]
        /\ messages'[Len(messages) + 1] = g
    BY ONLY <1>1, <1>3, g \in Parsed, AppendProperties
  <2>2. PICK l \in Nat : l = Len(messages) /\ Len(messages') = l + 1
    BY <1>1, <2>1
  <2>3. l + 1 \in 1 .. l + 1 /\ messages'[l + 1] = g /\ \A i \in 1 .. l : messages'[i] = messages[i]
    BY <2>1, <2>2
  <2>4. ~Pending(messages)' /\ ~stale' => inChunkSize' = v.size
    <3>1. SUFFICES ASSUME ~Pending(messages)', ~stale PROVE inChunkSize = v.size
      OBVIOUS
    <3>2. g.kind \notin ChunkSizes
      BY <2>2, <2>3, <3>1 DEF Pending
    <3>3. ~Pending(messages)
      BY <2>2, <2>3, <3>1 DEF Pending
    <3> QED
      BY <1>3, <3>1, <3>2, <3>3 DEF SizeAt
  <2>5. ASSUME NEW i \in 1 .. l + 1, messages'[i].kind \in ChunkSizes,
               \A j \in i + 1 .. l + 1 : messages'[j].kind \notin ChunkSizes
        PROVE  v.size = messages'[i].kind
    <3>1. CASE i = l + 1
      BY <1>3, <2>3, <2>5, <3>1
    <3>2. CASE i \in 1 .. l
      <4>1. g.kind \notin ChunkSizes
        BY <2>3, <2>5, <3>2
      <4>2. messages[i].kind \in ChunkSizes /\ \A j \in i + 1 .. l : messages[j].kind \notin ChunkSizes
        BY <2>3, <2>5, <3>2
      <4>3. u.size = messages[i].kind
        BY <2>2, <3>2, <4>2 DEF SizeAt
      <4> QED
        BY <1>3, <2>3, <3>2, <4>1, <4>3
    <3> QED
      BY <3>1, <3>2
  <2> QED
    BY <2>2, <2>4, <2>5 DEF SizeAt
<1> QED
  BY <1>2, <1>3 DEF MessagesTaken

(* A whole chunk is taken. *)
LEMMA TakenKeeps ==
  ASSUME Inv, pc = "parse", NEW p, NEW c, NEW csid, NEW fmt, NEW u, NEW v,
         AtHead(p, c, csid, fmt, u, v), ParserLeaves, Proper(u, c, csid, fmt, v, sent), NEW t,
         NEW skips, ChunkTaken(c, csid, fmt, t, skips), arrived >= ChunkBytes(c),
         StreamTaken(streams'[csid], v.talk[csid], t, csid \in drifted')
  PROVE  Inv'
<1>1. /\ p \in Seq(Points) /\ Simulates(p) /\ net # <<>> /\ c = net[1]
      /\ c \in Chunks /\ BasicOK(c) /\ csid = CsidOf(c.basic) /\ csid \in Csids
      /\ u = p[1] /\ v = p[2] /\ GoodPoint(u) /\ GoodPoint(v)
      /\ handshake = "kHandshakeDone" /\ arrived \in Nat
  BY DEF AtHead
<1>2. PICK q \in Seq(Points) :
        Path(q, Tail(net), sent) /\ q[1] = v /\ q[Len(q)] = p[Len(p)]
  BY DEF AtHead
<1>3. Types /\ AsSent
  BY DEF Inv
<1>4. /\ version' = version /\ talk' = talk /\ peerSize' = peerSize /\ sent' = sent
      /\ started' = started /\ coming' = coming /\ handshake' = handshake /\ replies' = replies
      /\ inChunkSize' = inChunkSize /\ past' = past /\ resized' = resized
      /\ dropped' = dropped /\ stale' = stale
  BY DEF ParserLeaves, peerVars
<1>5. /\ net' = Tail(net) /\ arrived' = arrived - ChunkBytes(c)
      /\ drifted' = (IF fmt = 0 THEN drifted \ {csid}
                     ELSE IF skips THEN drifted \cup {csid} ELSE drifted)
      /\ streams' = [streams EXCEPT ![csid] = IF t.got < t.len THEN t ELSE Emptied(t)]
      /\ pc' = (IF arrived' > 0 THEN "parse" ELSE "handle")
  BY DEF ChunkTaken
<1>6. AtPeer(u, p[Len(p)]) /\ AtParser(u) /\ SizeAt(u)
  BY <1>1 DEF Simulates
<1>7. MessageMoves(u, csid, v.talk[csid], v, sent) /\ v.talk = [u.talk EXCEPT ![csid] = v.talk[csid]]
  BY DEF Proper
<1>8. MessagesTaken(u, v)
  BY <1>1, <1>7, TakenMessage
<1>9. messages' \in Seq(Parsed) /\ AsSent' /\ v.n = Len(past) + Len(messages')
  <2>1. u.n = Len(past) + Len(messages)
    BY <1>6 DEF AtParser
  <2>2. pc' # "other"
    BY <1>5
  <2> QED
    BY <1>3, <1>4, <1>8, <2>1, <2>2, TakenAsSent
<1>10. SizeAt(v)'
  BY <1>3, <1>4, <1>6, <1>8, TakenSize
<1>11. ChunkBytes(c) \in Nat /\ arrived' \in Nat
  BY <1>1, <1>5, ChunkBytesType
<1>12. net \in Seq(Chunks) /\ net' \in Seq(Chunks) /\ sent \in Seq(Sent)
  BY <1>1, <1>3, <1>5 DEF Types
<1>13. streams \in [Csids -> States] /\ streams' \in [Csids -> States]
       /\ \A d \in Csids : d # csid => streams'[d] = streams[d]
  <2>1. streams \in [Csids -> States]
    BY <1>3 DEF Types
  <2>2. streams'[csid] \in States
    BY DEF StreamTaken
  <2> QED
    BY <1>1, <1>5, <2>1, <2>2
<1>14. \A d \in Csids : streams'[d].got \in 0 .. streams'[d].len
  <2>1. \A d \in Csids : streams[d].got \in 0 .. streams[d].len
    BY <1>3 DEF Types, TypeOK
  <2>2. streams'[csid].got \in 0 .. streams'[csid].len
    BY DEF StreamTaken
  <2> QED
    BY <1>13, <2>1, <2>2
<1>15. Types'
  <2>1. \A d \in Csids : streams'[d].ts \in 0 .. TimeMod - 1 /\ streams'[d].kind \in Kinds
    BY <1>13 DEF States, Time
  <2>2. drifted' \subseteq Csids
    BY <1>1, <1>3, <1>5 DEF Types, TypeOK
  <2>3. pc' \in {"parse", "handle"}
    BY <1>5
  <2>4. TypeOK'
    BY <1>3, <1>4, <1>11, <1>14, <2>1, <2>2, <2>3 DEF Types, TypeOK
  <2> QED
    BY <1>3, <1>4, <1>9, <1>12, <1>13, <2>4 DEF Types
<1>16. Phases'
  BY <1>1, <1>4, <1>5 DEF Phases
<1>17. Path(q, net', sent')
  BY <1>2, <1>4, <1>5
<1>18. LeftOK'
  <2>1. SUFFICES ASSUME pc' # "parse", net' # <<>> PROVE arrived' < ChunkBytes(Head(net'))
    BY <1>5 DEF LeftOK, Left
  <2>2. arrived' = 0
    BY <1>5, <1>11, <2>1
  <2>3. Link(q[1], net'[1], q[1 + 1], sent')
    <3>1. 1 \in 1 .. Len(net')
      BY <1>12, <2>1, EmptySeq
    <3> QED
      BY <1>17, <3>1 DEF Path
  <2>4. net'[1] = Head(net')
    BY <1>12, <2>1
  <2>5. Head(net') \in Chunks /\ BasicOK(Head(net'))
    BY <2>3, <2>4 DEF Link
  <2>6. ChunkBytes(Head(net')) \in Nat /\ ChunkBytes(Head(net')) >= 1
    BY <2>5, ChunkBytesType
  <2> QED
    BY <2>2, <2>6
<1>19. AtPeer(v, q[Len(q)])'
  <2>1. p[Len(p)].off = u.off + (arrived + coming - 0)
    BY <1>1, <1>6 DEF AtPeer, HandshakeLeft
  <2>2. v.off = u.off + ChunkBytes(c)
    BY DEF AtHead, Link
  <2>3. PICK x \in Nat, k \in Nat, a \in Nat, z \in Nat :
          x = u.off /\ k = ChunkBytes(c) /\ a = arrived /\ z = coming
    BY <1>1, <1>3, <1>11 DEF GoodPoint, Points, Types, TypeOK
  <2>4. x + (a + z - 0) = x + k + (a - k + z - 0)
    BY ONLY x \in Nat, k \in Nat, a \in Nat, z \in Nat
  <2>5. p[Len(p)].off = v.off + (arrived' + coming' - 0)
    BY <1>4, <1>5, <2>1, <2>2, <2>3, <2>4
  <2>6. HandshakeLeft' = 0
    BY <1>1, <1>4 DEF HandshakeLeft
  <2> QED
    BY <1>2, <1>4, <1>6, <2>5, <2>6 DEF AtPeer
<1>20. \A d \in Csids : HeadFmt(net', d) \in 0 .. 4
  <2>1. \A i \in 1 .. Len(net') : BasicOK(net'[i])
    BY <1>17 DEF Path, Link
  <2> QED
    BY <1>12, <2>1, HeadFmtType
<1>21. ASSUME NEW d \in Csids PROVE Match(streams'[d], v.talk[d], HeadFmt(net', d), d \in drifted')
  <2>1. Match(streams'[d], v.talk[d], 4, d \in drifted')
    <3>1. CASE d = csid
      BY <3>1 DEF StreamTaken
    <3>2. CASE d # csid
      <4>1. HeadFmt(net, d) = 4
        BY <1>1, <3>2 DEF HeadFmt
      <4>2. Match(streams[d], u.talk[d], 4, d \in drifted)
        BY <1>6, <4>1 DEF AtParser
      <4>3. v.talk[d] = u.talk[d]
        <5>1. u.talk \in [Csids -> Headers]
          BY <1>1 DEF GoodPoint, Points
        <5> QED
          BY <1>7, <3>2, <5>1
      <4>4. d \in drifted' <=> d \in drifted
        BY <1>5, <3>2
      <4> QED
        BY <1>13, <3>2, <4>2, <4>3, <4>4 DEF Match
    <3> QED
      BY <3>1, <3>2
  <2> QED
    BY <1>20, <2>1, MatchAny
<1>22. AtParser(v)'
  BY <1>4, <1>9, <1>21 DEF AtParser
<1>23. Simulates(q)'
  BY <1>2, <1>10, <1>17, <1>19, <1>22 DEF Simulates
<1> QED
  BY <1>9, <1>15, <1>16, <1>18, <1>23 DEF Inv, Simulation

(* parseOneChunk finds a whole chunk. *)
LEMMA WholeChunkKeeps ==
  ASSUME Inv, pc = "parse", NEW p, NEW c, NEW csid, NEW fmt, NEW u, NEW v,
         AtHead(p, c, csid, fmt, u, v), ParserLeaves,
         NEW n \in Nat, arrived = Len(c.basic) + n, fmt = 0 \/ streams[csid].init,
         NEW m, m = parseMessageHeader(streams[csid], fmt, c, n),
         m.used > 0 \/ fmt3_without_extra_header(m.state, fmt),
         NEW take, take = ChunkPayload(m.state, inChunkSize),
         arrived >= Len(c.basic) + m.used + take,
         WholeChunk(csid, fmt, c, m.state, m.used, take)
  PROVE  Inv'
<1>1. /\ Proper(u, c, csid, fmt, v, sent) /\ streams[csid] \in States
      /\ Match(streams[csid], u.talk[csid], fmt, csid \in drifted)
      /\ u.talk[csid] \in Headers /\ GoodHeader(u.talk[csid])
      /\ v.talk[csid] \in Headers /\ GoodHeader(v.talk[csid])
      /\ u.size \in Nat /\ u.size > 0
  BY HeadProper
<1>2. PICK s \in States, b \in Headers, h \in Headers, size \in Nat :
        s = streams[csid] /\ b = u.talk[csid] /\ h = v.talk[csid] /\ size = u.size
  BY <1>1
<1>3. /\ GoodHeader(b) /\ GoodHeader(h) /\ HeaderMoves(b, c, fmt, h) /\ PayloadMoves(b, c, size, h)
      /\ (fmt = 0 \/ b.init) /\ m = parseMessageHeader(s, fmt, c, n) /\ size > 0
  BY <1>1, <1>2 DEF Proper
<1>4. PICK drift \in BOOLEAN : drift = (csid \in drifted) /\ Match(s, b, fmt, drift)
  <2>1. (csid \in drifted) \in BOOLEAN /\ Match(s, b, fmt, csid \in drifted)
    BY <1>1, <1>2
  <2> QED
    BY <2>1, Zenon
<1>5. /\ Simulates(p) /\ c \in Chunks /\ BasicOK(c) /\ csid \in Csids /\ fmt \in 0 .. 3
      /\ fmt = FmtOf(c.basic) /\ u = p[1] /\ handshake = "kHandshakeDone" /\ arrived \in Nat
  BY DEF AtHead
<1>6. CASE m.used # HeaderSize[fmt] + ExtSize(c.ext) \/ take # Len(c.data)
  <2>1. /\ pc' = (IF m.used # HeaderSize[fmt] + ExtSize(c.ext) THEN "noExt"
                  ELSE IF \E i \in DOMAIN messages : messages[i].kind \in ChunkSizes
                  THEN "lateSize" ELSE IF stale THEN "staleSize" ELSE "other")
        /\ UNCHANGED <<streams, drifted, net, arrived, messages>>
    BY <1>6 DEF WholeChunk
  <2>2. pc' # "other"
    <3>1. SUFFICES ASSUME m.used = HeaderSize[fmt] + ExtSize(c.ext),
                          ~\E i \in DOMAIN messages : messages[i].kind \in ChunkSizes,
                          ~stale
                   PROVE  take = Len(c.data)
      BY <1>6, <2>1
    <3>2. ~Pending(messages)
      <4>1. DOMAIN messages = 1 .. Len(messages)
        BY DEF Inv, Types
      <4> QED
        BY <3>1, <4>1 DEF Pending
    <3>3. inChunkSize = size
      BY <1>2, <1>5, <3>1, <3>2 DEF Simulates, SizeAt
    <3>4. HeaderIs(m.state, b, h, fmt # 0 /\ (drift \/ SkipsDelta(m.state, fmt)))
      <4>1. c \in Chunks /\ fmt \in 0 .. 3 /\ Match(s, b, fmt, drift)
            /\ m.used = HeaderSize[fmt] + ExtSize(c.ext)
        BY <1>4, <1>5, <3>1
      <4> QED
        BY ONLY s \in States, b \in Headers, h \in Headers, n \in Nat, drift \in BOOLEAN, <1>3,
                <4>1, m.used > 0 \/ fmt3_without_extra_header(m.state, fmt), WholeMatches
    <3> QED
      BY <1>3, <3>3, <3>4, TakesData
  <2>3. pc' \in {"noExt", "lateSize", "staleSize"}
    BY <2>1, <2>2
  <2>4. Types' /\ Phases' /\ AsSent'
    <3>1. /\ streams' \in [Csids -> States] /\ drifted' \subseteq Csids
          /\ \A d \in Csids : streams'[d].got \in 0 .. streams'[d].len
      BY <2>1 DEF Inv, Types, TypeOK
    <3> QED
      BY <1>5, <2>1, <2>3, <3>1, SameMessages
  <2> QED
    BY <2>3, <2>4 DEF Inv, LeftOK, Simulation, Working
<1>7. CASE m.used = HeaderSize[fmt] + ExtSize(c.ext) /\ take = Len(c.data)
  <2>1. PICK t, skips : t = Joined(m.state, c, Len(c.data)) /\ skips = SkipsDelta(m.state, fmt)
    OBVIOUS
  <2>2. ChunkTaken(c, csid, fmt, t, skips)
    BY <1>7, <2>1 DEF WholeChunk, ChunkTaken, Joined, Emptied, ParsedMessage
  <2>3. arrived >= ChunkBytes(c)
    <3>1. PICK x \in Nat, e \in Nat, d \in Nat, l \in Nat :
            x = HeaderSize[fmt] /\ e = ExtSize(c.ext) /\ d = Len(c.data) /\ l = Len(c.basic)
      <4>1. HeaderSize[fmt] \in Nat
        BY <1>5, HeaderSizes
      <4>2. ExtSize(c.ext) \in Nat
        BY DEF ExtSize
      <4>3. Len(c.data) \in Nat /\ Len(c.basic) \in Nat
        BY <1>5 DEF Chunks
      <4> QED
        BY <4>1, <4>2, <4>3, Zenon
    <3>2. ChunkBytes(c) = l + x + e + d
      BY <1>5, <3>1 DEF ChunkBytes
    <3>3. arrived >= l + (x + e) + d
      BY <1>7, <3>1
    <3> QED
      BY <1>5, <3>2, <3>3
  <2>4. PICK r : r = (IF t.got < t.len THEN t ELSE Emptied(t))
    OBVIOUS
  <2>5. streams'[csid] = r
    BY <1>5, <2>2, <2>4 DEF ChunkTaken, Inv, Types
  <2>6. PICK d \in BOOLEAN : d = (csid \in drifted')
    <3>1. (csid \in drifted') \in BOOLEAN
      OBVIOUS
    <3> QED
      BY <3>1, Zenon
  <2>7. d <=> fmt # 0 /\ (drift \/ SkipsDelta(m.state, fmt))
    <3>1. csid \in drifted' <=> fmt # 0 /\ (csid \in drifted \/ SkipsDelta(m.state, fmt))
      BY <2>1, <2>2 DEF ChunkTaken
    <3> QED
      BY <1>4, <2>6, <3>1, Zenon
  <2>8. StreamTaken(r, h, t, d)
    <3>1. c \in Chunks /\ fmt \in 0 .. 3 /\ Match(s, b, fmt, drift)
      BY <1>4, <1>5
    <3>2. WholeParsed(m, c, fmt)
      BY <1>7 DEF WholeParsed
    <3> QED
      BY ONLY s \in States, b \in Headers, h \in Headers, n \in Nat, drift \in BOOLEAN,
              size \in Nat, d \in BOOLEAN, <1>3, <3>1, <3>2, <2>1, <2>4, <2>7, TakenMatches
  <2>9. StreamTaken(streams'[csid], v.talk[csid], t, csid \in drifted')
    BY <1>2, <2>5, <2>6, <2>8
  <2> QED
    BY <1>1, <2>2, <2>3, <2>9, TakenKeeps
<1> QED
  BY <1>6, <1>7

(* One chunk. *)
LEMMA parseOneChunkKeeps ==
  ASSUME Inv, parseOneChunk
  PROVE  Inv'
<1>1. pc = "parse" /\ ParserLeaves
  BY DEF parseOneChunk, ParserLeaves
<1>2. PICK c, csid, fmt : c = Head(net) /\ csid = CsidOf(c.basic) /\ fmt = FmtOf(c.basic)
  OBVIOUS
<1>3. PICK p, u, v : AtHead(p, c, csid, fmt, u, v)
  BY <1>1, <1>2, HeadExists
<1>4. /\ Simulates(p) /\ p \in Seq(Points) /\ c \in Chunks /\ BasicOK(c) /\ csid \in Csids
      /\ fmt \in 0 .. 3 /\ handshake = "kHandshakeDone" /\ arrived \in Nat /\ net # <<>>
  BY <1>3 DEF AtHead
<1>5. PICK basic \in Nat : basic = BasicSize(c.basic[1]) /\ basic = Len(c.basic)
  BY <1>4 DEF BasicOK
<1>6. PICK m, take : /\ m = parseMessageHeader(streams[csid], fmt, c, arrived - basic)
                     /\ take = ChunkPayload(m.state, inChunkSize)
  OBVIOUS
<1>7. \/ /\ arrived < basic
         /\ pc' = "handle" /\ UNCHANGED <<streams, drifted, net, arrived, messages>>
      \/ /\ arrived >= basic /\ fmt # 0 /\ ~streams[csid].init
         /\ pc' = "failed" /\ messages' = <<>>
         /\ UNCHANGED <<streams, drifted, net, arrived>>
      \/ /\ arrived >= basic /\ (fmt = 0 \/ streams[csid].init)
         /\ \/ m.used = 0 /\ ~fmt3_without_extra_header(m.state, fmt)
            \/ arrived < basic + m.used + take
         /\ HalfChunk(csid, fmt, m.state)
      \/ /\ arrived >= basic /\ (fmt = 0 \/ streams[csid].init)
         /\ arrived >= basic + m.used + take
         /\ m.used > 0 \/ fmt3_without_extra_header(m.state, fmt)
         /\ WholeChunk(csid, fmt, c, m.state, m.used, take)
  BY <1>2, <1>5, <1>6 DEF parseOneChunk
<1>8. CASE arrived < basic /\ pc' = "handle" /\ UNCHANGED <<streams, drifted, net, arrived, messages>>
  <2>1. Types' /\ Phases' /\ AsSent'
    <3>1. /\ streams' \in [Csids -> States] /\ drifted' \subseteq Csids
          /\ \A d \in Csids : streams'[d].got \in 0 .. streams'[d].len
      BY <1>8 DEF Inv, Types, TypeOK
    <3> QED
      BY <1>1, <1>4, <1>8, <3>1, SameMessages
  <2>2. /\ talk' = talk /\ peerSize' = peerSize /\ sent' = sent /\ coming' = coming
        /\ handshake' = handshake /\ inChunkSize' = inChunkSize /\ past' = past
        /\ net' = net /\ arrived' = arrived /\ messages' = messages /\ streams' = streams
        /\ drifted' = drifted /\ stale' = stale
    BY <1>1, <1>8 DEF ParserLeaves, peerVars
  <2>3. arrived < ChunkBytes(c)
    <3>1. PICK x \in Nat, e \in Nat, d \in Nat :
            x = HeaderSize[FmtOf(c.basic)] /\ e = ExtSize(c.ext) /\ d = Len(c.data)
      <4>1. HeaderSize[FmtOf(c.basic)] \in Nat
        BY <1>2, <1>4, HeaderSizes
      <4>2. ExtSize(c.ext) \in Nat
        BY DEF ExtSize
      <4>3. Len(c.data) \in Nat
        BY <1>4 DEF Chunks
      <4> QED
        BY <4>1, <4>2, <4>3, Zenon
    <3>2. ChunkBytes(c) = basic + x + e + d
      BY <1>5, <3>1 DEF ChunkBytes
    <3> QED
      BY <1>4, <1>8, <3>2
  <2>4. LeftOK'
    BY <1>2, <2>2, <2>3 DEF LeftOK, Left
  <2>5. Simulates(p)'
    BY <1>4, <2>2 DEF Simulates, AtPeer, HandshakeLeft, AtParser, SizeAt, Pending
  <2> QED
    BY <1>4, <2>1, <2>4, <2>5 DEF Inv, Simulation
<1>9. CASE pc' = "failed" /\ messages' = <<>> /\ UNCHANGED <<streams, drifted, net, arrived>>
  <2>1. Types /\ AsSent
    BY DEF Inv
  <2>2. /\ version' = version /\ talk' = talk /\ peerSize' = peerSize /\ sent' = sent
        /\ started' = started /\ coming' = coming /\ handshake' = handshake /\ replies' = replies
        /\ inChunkSize' = inChunkSize /\ past' = past /\ resized' = resized
        /\ net' = net /\ arrived' = arrived /\ streams' = streams /\ drifted' = drifted
        /\ dropped' = dropped /\ stale' = stale
    BY <1>1, <1>9 DEF ParserLeaves, peerVars
  <2>3. messages' \in Seq(Parsed)
    BY <1>9
  <2>4. TypeOK'
    BY <1>9, <2>1, <2>2 DEF Types, TypeOK
  <2>5. Types'
    BY <2>1, <2>2, <2>3, <2>4 DEF Types
  <2>6. AsSent'
    <3>1. past \in Seq(Parsed) /\ messages \in Seq(Parsed) /\ sent \in Seq(Sent)
      BY <2>1 DEF Types
    <3>2. PICK k \in Nat, l \in Nat : k = Len(past) /\ l = Len(messages)
      BY <3>1
    <3>3. Len(messages') = 0
      BY <1>9
    <3>4. k + 0 = k /\ k <= k + l /\ k + l <= Len(sent)
      BY <2>1, <3>1, <3>2 DEF AsSent
    <3>5. \A i \in 1 .. k : (past \o messages)[i] = past[i] /\ (past \o messages')[i] = past[i]
      BY <2>3, <3>1, <3>2
    <3>6. \A i \in 1 .. k : i \in 1 .. k + l
      BY <3>2
    <3>7. k <= Len(sent)
      BY <3>1, <3>2, <3>4
    <3>8. BehindRefused'
      BY <2>1, <2>2 DEF AsSent, BehindRefused
    <3> QED
      BY <1>9, <2>1, <2>2, <3>2, <3>3, <3>4, <3>5, <3>6, <3>7, <3>8 DEF AsSent
  <2> QED
    BY <1>9, <2>5, <2>6 DEF Inv, Phases, LeftOK, Simulation, Working
<1>10. CASE arrived >= basic
  <2>1. PICK n \in Nat : n = arrived - basic /\ arrived = Len(c.basic) + n
    <3>1. arrived - basic \in Nat /\ arrived = basic + (arrived - basic)
      BY <1>4, <1>10
    <3> QED
      BY <1>5, <3>1
  <2>2. m = parseMessageHeader(streams[csid], fmt, c, n)
    BY <1>6, <2>1
  <2>3. CASE /\ fmt = 0 \/ streams[csid].init
             /\ \/ m.used = 0 /\ ~fmt3_without_extra_header(m.state, fmt)
                \/ arrived < basic + m.used + take
             /\ HalfChunk(csid, fmt, m.state)
    <3>1. \/ m.used = 0 /\ ~fmt3_without_extra_header(m.state, fmt)
          \/ arrived < Len(c.basic) + m.used + ChunkPayload(m.state, inChunkSize)
      BY <1>5, <1>6, <2>3
    <3> QED
      BY <1>1, <1>3, <2>1, <2>2, <2>3, <3>1, HalfChunkKeeps
  <2>4. CASE /\ fmt = 0 \/ streams[csid].init
             /\ arrived >= basic + m.used + take
             /\ m.used > 0 \/ fmt3_without_extra_header(m.state, fmt)
             /\ WholeChunk(csid, fmt, c, m.state, m.used, take)
    <3>1. arrived >= Len(c.basic) + m.used + take
      BY <1>5, <2>4
    <3> QED
      BY <1>1, <1>3, <1>6, <2>1, <2>2, <2>4, <3>1, WholeChunkKeeps
  <2> QED
    BY <1>4, <1>7, <1>8, <1>9, <1>10, <2>3, <2>4
<1> QED
  BY <1>4, <1>7, <1>8, <1>10

(* A message of the batch is handled. *)
LEMMA handleMessageKeeps ==
  ASSUME Inv, handleMessage
  PROVE  Inv'
<1>1. PICK m : m = Head(messages)
  OBVIOUS
<1>2. /\ pc = "handle" /\ messages # <<>> /\ messages' = Tail(messages)
      /\ inChunkSize' = (IF m.kind \in ChunkSizes THEN m.kind ELSE inChunkSize)
      /\ resized' = (resized \/ (m.kind \in ChunkSizes /\ arrived > 0))
      /\ past' = Append(past, m) /\ stale' = (stale /\ m.kind \notin ChunkSizes)
      /\ UNCHANGED <<peerVars, net, coming, arrived, handshake, replies, streams, dropped, drifted, pc>>
  BY <1>1 DEF handleMessage
<1>3. Types /\ Phases /\ AsSent /\ LeftOK
  BY DEF Inv
<1>4. /\ version' = version /\ talk' = talk /\ peerSize' = peerSize /\ sent' = sent
      /\ started' = started /\ net' = net /\ coming' = coming /\ arrived' = arrived
      /\ handshake' = handshake /\ replies' = replies /\ streams' = streams
      /\ drifted' = drifted /\ pc' = pc /\ dropped' = dropped
  BY <1>2 DEF peerVars
<1>5. past \in Seq(Parsed) /\ messages \in Seq(Parsed) /\ sent \in Seq(Sent) /\ net \in Seq(Chunks)
  BY <1>3 DEF Types
<1>6. PICK k \in Nat, l \in Nat : k = Len(past) /\ l + 1 = Len(messages)
  <2>1. Len(past) \in Nat /\ Len(messages) - 1 \in Nat /\ (Len(messages) - 1) + 1 = Len(messages)
    BY <1>2, <1>5, EmptySeq
  <2> QED
    BY <2>1, Zenon
<1>7. /\ m \in Parsed /\ m = messages[1] /\ messages' \in Seq(Parsed) /\ Len(messages') = l
      /\ \A i \in 1 .. l : messages'[i] = messages[i + 1]
  BY <1>1, <1>2, <1>5, <1>6
<1>8. /\ past' \in Seq(Parsed) /\ Len(past') = k + 1 /\ past'[k + 1] = m
      /\ \A i \in 1 .. k : past'[i] = past[i]
  BY <1>2, <1>5, <1>6, <1>7
<1>9. Types'
  <2>1. inChunkSize' \in ChunkSizes \cup {kDefaultChunkSize} /\ resized' \in BOOLEAN
    BY <1>2, <1>3 DEF Types, TypeOK
  <2>3. stale' \in BOOLEAN
    BY <1>2
  <2>4. dropped' \subseteq 1 .. Len(past')
    <3>1. dropped \subseteq 1 .. k
      BY <1>3, <1>6 DEF Types, TypeOK
    <3> QED
      BY <1>4, <1>8, <3>1
  <2>2. TypeOK'
    BY <1>3, <1>4, <2>1, <2>3, <2>4 DEF Types, TypeOK
  <2> QED
    BY <1>3, <1>4, <1>7, <1>8, <2>2 DEF Types
<1>10. Phases'
  BY <1>2, <1>3, <1>4 DEF Phases
<1>11. Len(past') + Len(messages') = Len(past) + Len(messages)
  <2>1. (k + 1) + l = k + (l + 1)
    BY ONLY k \in Nat, l \in Nat
  <2> QED
    BY <1>6, <1>7, <1>8, <2>1
<1>12. AsSent'
  <2>1. PICK x, y : x = past \o messages /\ y = past' \o messages'
    OBVIOUS
  <2>2. \A i \in 1 .. k + l + 1 : y[i] = x[i]
    <3> SUFFICES ASSUME NEW i \in 1 .. k + l + 1 PROVE y[i] = x[i]
      OBVIOUS
    <3>1. CASE i <= k
      BY <1>5, <1>6, <1>7, <1>8, <2>1, <3>1
    <3>2. CASE i = k + 1
      BY <1>5, <1>6, <1>7, <1>8, <2>1, <3>2
    <3>3. CASE i > k + 1
      <4>1. PICK j \in 1 .. l : i = k + 1 + j /\ i - (k + 1) = j /\ i - k = j + 1
        <5>1. i - (k + 1) \in 1 .. l /\ i = k + 1 + (i - (k + 1)) /\ i - k = (i - (k + 1)) + 1
          BY <3>3
        <5> QED
          BY <5>1
      <4>2. y[i] = messages'[j]
        <5>1. PICK h \in Seq(Parsed), g \in Seq(Parsed) : h = past' /\ g = messages'
          BY <1>7, <1>8
        <5>2. Len(h) = k + 1 /\ Len(g) = l /\ y = h \o g
          BY <1>7, <1>8, <2>1, <5>1
        <5>3. (h \o g)[k + 1 + j] = g[j]
          <6>1. PICK a \in Nat : a = k + 1
            OBVIOUS
          <6>2. Len(h) = a /\ j \in 1 .. Len(g)
            BY <4>1, <5>2, <6>1
          <6>3. (h \o g)[a + j] = g[j]
            BY ONLY h \in Seq(Parsed), g \in Seq(Parsed), a \in Nat, j \in 1 .. l, l \in Nat, <6>2
          <6> QED
            BY <6>1, <6>3
        <5> QED
          BY <4>1, <5>1, <5>2, <5>3
      <4>3. x[i] = messages[j + 1]
        BY <1>5, <1>6, <2>1, <4>1
      <4> QED
        BY <1>7, <4>2, <4>3
    <3> QED
      BY <3>1, <3>2, <3>3
  <2>3. Len(past) + Len(messages) = k + l + 1
    BY <1>6
  <2>4. \A i \in 1 .. k + l + 1 :
          /\ x[i].csid = sent[i].csid /\ x[i].len = sent[i].len
          /\ x[i].kind = sent[i].kind /\ x[i].payload = sent[i].payload
          /\ x[i].exact => x[i].ts = sent[i].ts
    BY <1>3, <2>1, <2>3 DEF AsSent
  <2>5. pc # "other" /\ k + l + 1 <= Len(sent)
    BY <1>3, <2>3 DEF AsSent
  <2>6. BehindRefused'
    <3>1. SUFFICES ASSUME NEW i \in dropped
                   PROVE  \E j \in 1 .. i - 1 : j \notin dropped /\ past'[j].kind = Media
      BY <1>4 DEF BehindRefused
    <3>2. PICK j \in 1 .. i - 1 : j \notin dropped /\ past[j].kind = Media
      BY <1>3 DEF AsSent, BehindRefused
    <3>3. i \in 1 .. k
      BY <1>3, <1>6 DEF Types, TypeOK
    <3>4. past'[j] = past[j]
      BY <1>8, <3>2, <3>3
    <3> QED
      BY <3>2, <3>4
  <2> QED
    BY <1>4, <1>11, <2>1, <2>2, <2>3, <2>4, <2>5, <2>6 DEF AsSent
<1>13. PICK p \in Seq(Points) : Simulates(p)
  BY <1>2 DEF Inv, Simulation, Working
<1>14. Path(p, net, sent) /\ AtPeer(p[1], p[Len(p)]) /\ AtParser(p[1]) /\ SizeAt(p[1])
  BY <1>13 DEF Simulates
<1>15. m.kind \notin ChunkSizes /\ ~Pending(messages)' => ~Pending(messages)
  <2>1. SUFFICES ASSUME m.kind \notin ChunkSizes, NEW i \in 1 .. l + 1, messages[i].kind \in ChunkSizes
                 PROVE  \E j \in 1 .. l : messages'[j].kind \in ChunkSizes
    BY <1>6, <1>7 DEF Pending
  <2>2. PICK j \in 1 .. l : i = j + 1
    <3>1. i # 1
      BY <1>7, <2>1
    <3>2. i - 1 \in 1 .. l /\ i = (i - 1) + 1
      BY <3>1
    <3> QED
      BY <3>2
  <2> QED
    BY <1>7, <2>1, <2>2
<1>16. LeftOK'
  <2>1. SUFFICES ASSUME net # <<>>, ~resized', ~Pending(messages)', ~stale' PROVE Left
    BY <1>4 DEF LeftOK, Left
  <2>2. handshake = "kHandshakeDone"
    BY <1>2, <1>3 DEF Phases
  <2>3. CASE m.kind \notin ChunkSizes
    BY <1>2, <1>3, <1>15, <2>1, <2>2, <2>3 DEF LeftOK
  <2>4. CASE m.kind \in ChunkSizes
    <3>1. arrived = 0
      <4>1. arrived \in Nat
        BY <1>3 DEF Types, TypeOK
      <4>2. resized' = (resized \/ (m.kind \in ChunkSizes /\ arrived > 0))
        BY <1>2
      <4>3. ~(arrived > 0)
        BY <2>1, <2>4, <4>2, Zenon
      <4> QED
        BY <4>1, <4>3
    <3>2. Link(p[1], Head(net), p[2], sent)
      BY <1>5, <1>14, <2>1, PathTail
    <3>3. Head(net) \in Chunks /\ BasicOK(Head(net))
      BY <3>2 DEF Link
    <3>4. ChunkBytes(Head(net)) \in Nat /\ ChunkBytes(Head(net)) >= 1
      BY <3>3, ChunkBytesType
    <3> QED
      BY <3>1, <3>4 DEF Left
  <2> QED
    BY <2>3, <2>4
<1>17. SizeAt(p[1])'
  <2>1. ~Pending(messages)' /\ ~stale' => inChunkSize' = p[1].size
    <3>1. SUFFICES ASSUME ~Pending(messages)', ~stale' PROVE inChunkSize' = p[1].size
      OBVIOUS
    <3>2. CASE m.kind \notin ChunkSizes
      BY <1>2, <1>14, <1>15, <3>1, <3>2 DEF SizeAt
    <3>3. CASE m.kind \in ChunkSizes
      <4>1. ASSUME NEW j \in 1 + 1 .. l + 1 PROVE messages[j].kind \notin ChunkSizes
        <5>1. PICK i \in 1 .. l : j = i + 1
          <6>1. j - 1 \in 1 .. l /\ j = (j - 1) + 1
            OBVIOUS
          <6> QED
            BY <6>1
        <5>2. messages'[i].kind \notin ChunkSizes
          <6>1. ASSUME messages'[i].kind \in ChunkSizes PROVE FALSE
            <7>1. i \in 1 .. Len(messages')
              BY <1>7, <5>1
            <7> QED
              BY <3>1, <6>1, <7>1 DEF Pending
          <6> QED
            BY <6>1
        <5>3. messages'[i] = messages[i + 1]
          BY <1>7, <5>1
        <5>4. messages[j] = messages'[i]
          BY <5>1, <5>3
        <5> QED
          BY ONLY <5>2, <5>4, Zenon
      <4>2. 1 \in 1 .. l + 1
        OBVIOUS
      <4>3. p[1].size = messages[1].kind
        BY <1>6, <1>7, <1>14, <3>3, <4>1, <4>2 DEF SizeAt
      <4> QED
        BY <1>2, <1>7, <3>3, <4>3
    <3> QED
      BY <3>2, <3>3
  <2>2. ASSUME NEW i \in 1 .. l, messages'[i].kind \in ChunkSizes,
               \A j \in i + 1 .. l : messages'[j].kind \notin ChunkSizes
        PROVE  p[1].size = messages'[i].kind
    <3>1. messages[i + 1].kind \in ChunkSizes /\ i + 1 \in 1 .. l + 1
      BY <1>7, <2>2
    <3>2. ASSUME NEW j \in i + 1 + 1 .. l + 1 PROVE messages[j].kind \notin ChunkSizes
      <4>1. PICK z \in i + 1 .. l : j = z + 1
        <5>1. j - 1 \in i + 1 .. l /\ j = (j - 1) + 1
          OBVIOUS
        <5> QED
          BY <5>1
      <4>2. z \in 1 .. l
        OBVIOUS
      <4>3. messages'[z] = messages[z + 1]
        BY <1>7, <4>2
      <4>4. messages[j] = messages'[z]
        BY <4>1, <4>3
      <4>5. messages'[z].kind \notin ChunkSizes
        BY <2>2, <4>1
      <4> QED
        BY ONLY <4>4, <4>5, Zenon
    <3>3. p[1].size = messages[i + 1].kind
      BY <1>6, <1>14, <3>1, <3>2 DEF SizeAt
    <3> QED
      BY <1>7, <3>3
  <2> QED
    BY <1>7, <2>1, <2>2 DEF SizeAt
<1>18. AtPeer(p[1], p[Len(p)])' /\ AtParser(p[1])'
  BY <1>4, <1>11, <1>14 DEF AtPeer, HandshakeLeft, AtParser
<1>19. Simulates(p)'
  BY <1>4, <1>14, <1>17, <1>18 DEF Simulates
<1> QED
  BY <1>9, <1>10, <1>12, <1>13, <1>16, <1>19 DEF Inv, Simulation

(* A message of the batch is refused, and the rest dropped. *)
LEMMA refuseMessageKeeps ==
  ASSUME Inv, refuseMessage
  PROVE  Inv'
<1>1. /\ pc = "handle" /\ messages # <<>> /\ Head(messages).kind = Media
      /\ stale' = (stale \/ \E i \in DOMAIN messages : messages[i].kind \in ChunkSizes)
      /\ dropped' = dropped \cup (Len(past) + 2 .. Len(past) + Len(messages))
      /\ past' = past \o messages /\ messages' = <<>> /\ pc' = "idle"
  BY DEF refuseMessage
<1>2. Types /\ Phases /\ AsSent /\ LeftOK
  BY DEF Inv
<1>3. /\ version' = version /\ talk' = talk /\ peerSize' = peerSize /\ sent' = sent
      /\ started' = started /\ net' = net /\ coming' = coming /\ arrived' = arrived
      /\ handshake' = handshake /\ replies' = replies /\ streams' = streams
      /\ inChunkSize' = inChunkSize /\ drifted' = drifted /\ resized' = resized
  BY DEF refuseMessage, peerVars
<1>4. past \in Seq(Parsed) /\ messages \in Seq(Parsed)
  BY <1>2 DEF Types
<1>5. PICK k \in Nat, l \in Nat : k = Len(past) /\ l = Len(messages) /\ l >= 1
  BY <1>1, <1>4, EmptySeq
<1>6. /\ past' \in Seq(Parsed) /\ Len(past') = k + l
      /\ \A i \in 1 .. k : past'[i] = past[i]
      /\ past'[k + 1] = messages[1] /\ messages[1] = Head(messages)
  BY <1>1, <1>4, <1>5
<1>7. dropped \subseteq 1 .. k /\ dropped' = dropped \cup (k + 2 .. k + l)
  BY <1>1, <1>2, <1>5 DEF Types, TypeOK
<1>8. dropped' \subseteq 1 .. k + l
  <2>1. \A i \in 1 .. k : i \in 1 .. k + l
    BY ONLY k \in Nat, l \in Nat
  <2>2. \A i \in k + 2 .. k + l : i \in 1 .. k + l
    BY ONLY k \in Nat, l \in Nat
  <2> QED
    BY <1>7, <2>1, <2>2, Zenon
<1>9. ~stale' => ~stale /\ ~Pending(messages)
  <2>1. DOMAIN messages = 1 .. Len(messages)
    BY <1>4
  <2> QED
    BY <1>1, <2>1 DEF Pending
<1>10. Types'
  <2>1. TypeOK'
    <3>1. stale' \in BOOLEAN
      BY <1>1, <1>2 DEF Types, TypeOK
    <3> QED
      BY <1>1, <1>2, <1>3, <1>6, <1>8, <3>1 DEF Types, TypeOK
  <2> QED
    BY <1>1, <1>2, <1>3, <1>6, <2>1 DEF Types
<1>11. Phases'
  BY <1>1 DEF Phases
<1>12. past' \o messages' = past \o messages
  BY <1>1, <1>4
<1>13. Len(past') + Len(messages') = Len(past) + Len(messages)
  BY <1>1, <1>5, <1>6
<1>14. BehindRefused'
  <2>1. SUFFICES ASSUME NEW i \in dropped'
                 PROVE  \E j \in 1 .. i - 1 : j \notin dropped' /\ past'[j].kind = Media
    BY DEF BehindRefused
  <2>2. CASE i \in dropped
    <3>1. PICK j \in 1 .. i - 1 : j \notin dropped /\ past[j].kind = Media
      BY <1>2, <2>2 DEF AsSent, BehindRefused
    <3>2. i \in 1 .. k
      BY <1>7, <2>2
    <3>3. j \in 1 .. k /\ j \notin k + 2 .. k + l
      BY <3>1, <3>2
    <3>4. past'[j] = past[j] /\ j \notin dropped'
      BY <1>6, <1>7, <3>1, <3>3
    <3> QED
      BY <3>1, <3>4
  <2>3. CASE i \in k + 2 .. k + l
    <3>1. k + 1 \in 1 .. i - 1 /\ k + 1 \notin dropped'
      BY <1>5, <1>7, <2>3
    <3>2. past'[k + 1].kind = Media
      BY <1>1, <1>6
    <3> QED
      BY <3>1, <3>2
  <2> QED
    BY <1>7, <2>1, <2>2, <2>3
<1>15. AsSent'
  BY <1>1, <1>2, <1>3, <1>12, <1>13, <1>14 DEF AsSent
<1>16. LeftOK'
  <2>1. SUFFICES ASSUME net # <<>>, ~resized, handshake = "kHandshakeDone", ~stale' PROVE Left
    BY <1>3 DEF LeftOK, Left
  <2> QED
    BY <1>1, <1>2, <1>9, <2>1 DEF LeftOK
<1>17. PICK p \in Seq(Points) : Simulates(p)
  BY <1>1 DEF Inv, Simulation, Working
<1>18. Path(p, net, sent) /\ AtPeer(p[1], p[Len(p)]) /\ AtParser(p[1]) /\ SizeAt(p[1])
  BY <1>17 DEF Simulates
<1>19. SizeAt(p[1])'
  BY <1>1, <1>3, <1>9, <1>18 DEF SizeAt
<1>20. AtPeer(p[1], p[Len(p)])' /\ AtParser(p[1])'
  BY <1>3, <1>13, <1>18 DEF AtPeer, HandshakeLeft, AtParser
<1>21. Simulates(p)'
  BY <1>3, <1>18, <1>19, <1>20 DEF Simulates
<1> QED
  BY <1>10, <1>11, <1>15, <1>16, <1>17, <1>21 DEF Inv, Simulation

(* onMessage returns. *)
LEMMA ReturnKeeps ==
  ASSUME Inv, Return
  PROVE  Inv'
<1>1. pc = "handle" /\ messages = <<>> /\ pc' = "idle"
      /\ UNCHANGED <<peerVars, parserVars, net, coming, arrived>>
  BY DEF Return
<1>2. /\ version' = version /\ talk' = talk /\ peerSize' = peerSize /\ sent' = sent
      /\ started' = started /\ net' = net /\ coming' = coming /\ arrived' = arrived
      /\ handshake' = handshake /\ replies' = replies /\ streams' = streams
      /\ inChunkSize' = inChunkSize /\ messages' = messages /\ past' = past
      /\ drifted' = drifted /\ resized' = resized /\ dropped' = dropped /\ stale' = stale
  BY <1>1 DEF peerVars, parserVars
<1>3. Types'
  BY <1>1, <1>2 DEF Inv, Types, TypeOK
<1>4. Phases' /\ LeftOK'
  BY <1>1, <1>2 DEF Inv, Phases, LeftOK, Left, Pending
<1>5. AsSent'
  BY <1>1, <1>2 DEF Inv, AsSent, BehindRefused
<1>6. PICK p \in Seq(Points) : Simulates(p)
  BY <1>1 DEF Inv, Simulation, Working
<1>7. Simulates(p)'
  BY <1>2, <1>6 DEF Simulates, AtPeer, HandshakeLeft, AtParser, SizeAt, Pending
<1> QED
  BY <1>3, <1>4, <1>5, <1>6, <1>7 DEF Inv, Simulation

(* A step that changes nothing. *)
LEMMA StutterKeeps ==
  ASSUME Inv, UNCHANGED vars
  PROVE  Inv'
<1>1. /\ version' = version /\ talk' = talk /\ peerSize' = peerSize /\ sent' = sent
      /\ started' = started /\ net' = net /\ coming' = coming /\ arrived' = arrived
      /\ handshake' = handshake /\ replies' = replies /\ streams' = streams
      /\ inChunkSize' = inChunkSize /\ messages' = messages /\ past' = past
      /\ drifted' = drifted /\ resized' = resized /\ pc' = pc
      /\ dropped' = dropped /\ stale' = stale
  BY DEF vars, peerVars, parserVars
<1>2. Types'
  BY <1>1 DEF Inv, Types, TypeOK
<1>3. Phases' /\ LeftOK' /\ AsSent'
  BY <1>1 DEF Inv, Phases, LeftOK, Left, Pending, AsSent, BehindRefused
<1>4. ASSUME NEW p, Simulates(p) PROVE Simulates(p)'
  BY <1>1, <1>4 DEF Simulates, AtPeer, HandshakeLeft, AtParser, SizeAt, Pending
<1>5. Simulation'
  BY <1>1, <1>4 DEF Inv, Simulation, Working
<1> QED
  BY <1>2, <1>3, <1>5 DEF Inv

(* The first state. *)
LEMMA InitInv ==
  ASSUME Init
  PROVE  Inv
<1>1. /\ version \in BOOLEAN /\ talk = [c \in Csids |-> NoHeader] /\ peerSize = kDefaultChunkSize
      /\ sent = <<>> /\ started = 0 /\ net = <<>> /\ coming = C0C1Size + PacketSize /\ arrived = 0
      /\ handshake = "kWaitC0C1" /\ replies = 0 /\ streams = [c \in Csids |-> NoState]
      /\ inChunkSize = kDefaultChunkSize /\ messages = <<>> /\ past = <<>> /\ drifted = {}
      /\ resized = FALSE /\ pc = "idle" /\ dropped = {} /\ stale = FALSE
  BY DEF Init
<1>2. 0 \in Time /\ Media \in Kinds /\ <<>> \in Seq(Bytes) /\ TimeMod \in Nat
  BY TimesAssumption DEF Time, Kinds
<1>3. NoState \in States /\ NoHeader \in Headers
  <2>1. PICK y \in BOOLEAN : y = FALSE
    OBVIOUS
  <2>2. NoState = [init |-> y, ts |-> 0, delta |-> 0, ext |-> 0, len |-> 0, kind |-> Media,
                   got |-> 0, payload |-> <<>>]
    BY <2>1 DEF NoState
  <2>3. NoHeader = [init |-> y, ts |-> 0, delta |-> 0, ext |-> 0, len |-> 0, kind |-> Media,
                    id |-> 0, rest |-> <<>>]
    BY <2>1 DEF NoHeader
  <2> QED
    BY <1>2, <2>2, <2>3 DEF States, Headers
<1>4. /\ NoState.init = FALSE /\ NoState.ts = 0 /\ NoState.delta = 0 /\ NoState.ext = 0
      /\ NoState.len = 0 /\ NoState.kind = Media /\ NoState.got = 0 /\ NoState.payload = <<>>
  BY DEF NoState
<1>5. /\ NoHeader.init = FALSE /\ NoHeader.ts = 0 /\ NoHeader.delta = 0 /\ NoHeader.ext = 0
      /\ NoHeader.len = 0 /\ NoHeader.kind = Media /\ NoHeader.id = 0 /\ NoHeader.rest = <<>>
  BY DEF NoHeader
<1>6. Types
  <2>1. TypeOK
    <3>1. 0 \in 0 .. MaxMessages /\ coming \in Nat /\ 0 \in 0 .. 0
      BY <1>1, BoundsAssumption, SizesAssumption
    <3>2. \A c \in Csids : streams[c] = NoState
      BY <1>1
    <3> QED
      BY <1>1, <1>2, <1>4, <3>1, <3>2 DEF TypeOK, Time
  <2> QED
    BY <1>1, <1>3, <2>1 DEF Types
<1>7. Phases /\ LeftOK
  BY <1>1 DEF Phases, LeftOK
<1>8. AsSent
  BY <1>1 DEF AsSent, BehindRefused
<1>9. PICK u : u = [talk |-> talk, size |-> peerSize, n |-> 0, off |-> 0]
  OBVIOUS
<1>10. u.talk = talk /\ u.size = peerSize /\ u.n = 0 /\ u.off = 0
  BY <1>9
<1>11. GoodHeader(NoHeader)
  <2>1. Len(NoHeader.rest) = 0 /\ 0 - 0 + 1 = 1
    BY <1>5
  <2>2. SubSeq(Payload(0, 0), 1, 0) = <<>>
    BY SubSeqEmpty
  <2> QED
    BY <1>5, <2>1, <2>2 DEF GoodHeader
<1>12. GoodPoint(u)
  <2>1. u \in Points
    BY <1>1, <1>3, <1>9 DEF Points, Sizes
  <2>2. \A c \in Csids : u.talk[c] = NoHeader
    BY <1>1, <1>10
  <2> QED
    BY <1>11, <2>1, <2>2 DEF GoodPoint
<1>13. PICK p \in Seq(Points) : p = <<u>>
  <2>1. u \in Points
    BY <1>12 DEF GoodPoint
  <2>2. <<u>> \in Seq(Points)
    BY <2>1
  <2> QED
    BY <2>2, Zenon
<1>14. Len(p) = 1 /\ p[1] = u /\ p[Len(p)] = u
  BY <1>13
<1>15. Path(p, net, sent)
  BY <1>1, <1>12, <1>14 DEF Path
<1>16. AtPeer(u, u)
  <2>1. HandshakeLeft = C0C1Size + PacketSize
    BY <1>1 DEF HandshakeLeft
  <2>2. C0C1Size + PacketSize \in Nat
    BY SizesAssumption
  <2>3. 0 = 0 + (0 + (C0C1Size + PacketSize) - (C0C1Size + PacketSize))
    BY <2>2
  <2> QED
    BY <1>1, <1>10, <2>1, <2>3 DEF AtPeer
<1>17. AtParser(u)
  <2>1. Match(NoState, NoHeader, 4, FALSE)
    <3>1. Given(NoHeader) = 0
      BY <1>5 DEF Given
    <3>2. SubSeq(Payload(0, 0), 1, 0) = <<>>
      BY SubSeqEmpty
    <3> QED
      BY <1>4, <1>5, <3>1, <3>2 DEF Match
  <2>2. ASSUME NEW c \in Csids
        PROVE  Match(streams[c], u.talk[c], HeadFmt(net, c), c \in drifted)
    <3>1. streams[c] = NoState /\ u.talk[c] = NoHeader /\ HeadFmt(net, c) = 4
      BY <1>1, <1>10 DEF HeadFmt
    <3> QED
      BY <1>1, <2>1, <3>1 DEF Match
  <2> QED
    BY <1>1, <1>10, <2>2 DEF AtParser
<1>18. SizeAt(u)
  BY <1>1, <1>10 DEF SizeAt
<1>19. Simulates(p)
  BY <1>14, <1>15, <1>16, <1>17, <1>18 DEF Simulates
<1> QED
  BY <1>6, <1>7, <1>8, <1>13, <1>19 DEF Inv, Simulation

-----------------------------------------------------------------------------
(* The theorems.                                                             *)

(* The chunks under way lead from the state of RtmpChunkParser to that of the *)
(* peer, whatever onMessage, parseOneChunk and handleMessage do.              *)
THEOREM InvHolds == Spec => []Inv
<1>1. Init => Inv
  BY InitInv
<1>2. Inv /\ [Next]_vars => Inv'
  <2> SUFFICES ASSUME Inv, [Next]_vars PROVE Inv'
    OBVIOUS
  <2>1. CASE PeerNext
    BY <2>1, PeerNextKeeps
  <2>2. ASSUME NEW n \in 1 .. coming, onMessage(n) PROVE Inv'
    <3>1. n \in Nat
      BY DEF Inv, Types, TypeOK
    <3> QED
      BY <2>2, <3>1, onMessageKeeps
  <2>3. CASE parseOneChunk
    BY <2>3, parseOneChunkKeeps
  <2>4. CASE handleMessage
    BY <2>4, handleMessageKeeps
  <2>7. CASE refuseMessage
    BY <2>7, refuseMessageKeeps
  <2>5. CASE Return
    BY <2>5, ReturnKeeps
  <2>6. CASE UNCHANGED vars
    BY <2>6, StutterKeeps
  <2> QED
    BY <2>1, <2>2, <2>3, <2>4, <2>5, <2>6, <2>7 DEF Next
<1> QED
  BY <1>1, <1>2, PTL DEF Spec

(* The types of RtmpChunkParser's state and of what passes between the peer   *)
(* and the server; RtmpHandshake answers once.                                *)
THEOREM TypesHold == Spec => []TypeOK
<1>1. Inv => TypeOK
  BY DEF Inv, Types
<1> QED
  BY <1>1, InvHolds, PTL

(* However TCP cuts the stream and however the chunk streams interleave,      *)
(* RtmpConnection::onMessage hands the peer's messages to handleMessage in    *)
(* order, each with its bytes, length, type and chunk stream, but for those   *)
(* behind one that it refuses, and leaves the chunk boundaries for the three  *)
(* known reasons only.                                                        *)
THEOREM MessagesAsSent == Spec => []AsSent
<1>1. Inv => AsSent
  BY DEF Inv
<1> QED
  BY <1>1, InvHolds, PTL

(* RtmpConnection::onMessage returns with no whole chunk in inputBuffer_,     *)
(* except behind a Set Chunk Size of the same read or one that was dropped,   *)
(* or before a continuation without the extended timestamp that               *)
(* parseMessageHeader waits for.                                              *)
THEOREM NothingIsLeft == Spec => []NothingLeft
<1>1. Inv => NothingLeft
  <2> SUFFICES ASSUME Inv, pc = "idle", handshake = "kHandshakeDone", net # <<>>, ~resized,
                      ~stale
               PROVE  Left
    BY DEF NothingLeft, Left
  <2>1. messages = <<>>
    BY DEF Inv, Phases
  <2>2. ~Pending(messages)
    BY <2>1 DEF Pending
  <2> QED
    BY <2>2 DEF Inv, LeftOK
<1> QED
  BY <1>1, InvHolds, PTL

==============================================================================
