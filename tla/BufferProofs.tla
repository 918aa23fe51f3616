---------------------------- MODULE BufferProofs -----------------------------
(* Proofs about Buffer, for any sizes and any input. *)
EXTENDS Buffer, TLAPS

(* A buffer whose indices are in order. *)
Good(b) ==
  /\ b \in [store : Seq(Bytes), reader : Nat, writer : Nat]
  /\ CheapPrepend <= b.reader /\ b.reader <= b.writer /\ b.writer <= Len(b.store)

(* Its readable bytes. *)
Content(b) == [i \in 1 .. b.writer - b.reader |-> b.store[b.reader + i]]

(* Two sequences of bytes are equal when they agree everywhere. *)
LEMMA SeqEqual ==
  ASSUME NEW s \in Seq(Bytes), NEW t \in Seq(Bytes), Len(s) = Len(t),
         \A i \in 1 .. Len(s) : s[i] = t[i]
  PROVE  s = t
OBVIOUS

(* The readable bytes of a good buffer are bytes. *)
LEMMA ContentType ==
  ASSUME NEW b, Good(b)
  PROVE  /\ Content(b) \in Seq(Bytes)
         /\ Len(Content(b)) = b.writer - b.reader
         /\ \A i \in 1 .. b.writer - b.reader : Content(b)[i] = b.store[b.reader + i]
<1> DEFINE n == b.writer - b.reader
<1>1. n \in Nat /\ b.reader \in Nat /\ b.store \in Seq(Bytes)
      /\ b.reader + n <= Len(b.store)
  BY DEF Good
<1>2. \A i \in 1 .. n : b.store[b.reader + i] \in Bytes
  BY <1>1
<1>3. Content(b) = [i \in 1 .. n |-> b.store[b.reader + i]]
  BY DEF Content
<1>4. Content(b) \in [1 .. n -> Bytes]
  BY <1>2, <1>3
<1> HIDE DEF n
<1>5. Content(b) \in Seq(Bytes) /\ Len(Content(b)) = n
  BY <1>1, <1>4
<1> QED
  BY <1>3, <1>5 DEF n

(* Buffer::makeSpace by growing: nothing readable changes. *)
LEMMA ResizeKeeps ==
  ASSUME NEW b, Good(b), NEW n \in Nat, n >= Len(b.store)
  PROVE  /\ Good(Resize(b, n))
         /\ Content(Resize(b, n)) = Content(b)
         /\ Len(Resize(b, n).store) = n
         /\ Resize(b, n).writer = b.writer
<1> DEFINE s == [i \in 1 .. n |-> IF i <= Len(b.store) THEN b.store[i] ELSE Zero]
           c == Resize(b, n)
<1>1. s \in Seq(Bytes) /\ Len(s) = n
  BY BufferAssumption DEF Good
<1>2. c = [b EXCEPT !.store = s]
  BY DEF Resize
<1>3. c.store = s /\ c.reader = b.reader /\ c.writer = b.writer
  BY <1>2 DEF Good
<1>4. Good(c)
  <2>1. c \in [store : Seq(Bytes), reader : Nat, writer : Nat]
    BY <1>1, <1>2 DEF Good
  <2> QED
    BY <1>1, <1>3, <2>1 DEF Good
<1>5. Content(c) = Content(b)
  BY <1>3, <1>1 DEF Content, Good
<1> QED
  BY <1>1, <1>3, <1>4, <1>5

(* Buffer::makeSpace by moving: nothing readable changes and the room left  *)
(* is all the room there is.                                                *)
LEMMA CompactKeeps ==
  ASSUME NEW b, Good(b)
  PROVE  /\ Good(Compact(b))
         /\ Content(Compact(b)) = Content(b)
         /\ Len(Compact(b).store) = Len(b.store)
         /\ Compact(b).writer = CheapPrepend + (b.writer - b.reader)
<1> DEFINE n == b.writer - b.reader
           s == [i \in 1 .. Len(b.store) |->
                   IF i \in CheapPrepend + 1 .. CheapPrepend + n
                   THEN b.store[i - CheapPrepend + b.reader] ELSE b.store[i]]
           c == Compact(b)
<1>0. n \in Nat /\ CheapPrepend \in Nat /\ CheapPrepend + n <= Len(b.store)
  BY BufferAssumption DEF Good
<1>1. s \in Seq(Bytes) /\ Len(s) = Len(b.store)
  BY <1>0 DEF Good
<1>2. c.store = s /\ c.reader = CheapPrepend /\ c.writer = CheapPrepend + n
  BY DEF Compact, Buf, ReadableBytes
<1>3. c = [store |-> s, reader |-> CheapPrepend, writer |-> CheapPrepend + n]
  BY DEF Compact, Buf, ReadableBytes
<1>4. Good(c)
  BY <1>0, <1>1, <1>3 DEF Good
<1>5. ASSUME NEW i \in 1 .. n PROVE c.store[c.reader + i] = b.store[b.reader + i]
  <2>1. CheapPrepend + i \in 1 .. Len(b.store)
    BY <1>0, BufferAssumption DEF Good
  <2>2. CheapPrepend + i \in CheapPrepend + 1 .. CheapPrepend + n
    BY <1>0
  <2>3. s[CheapPrepend + i] = b.store[(CheapPrepend + i) - CheapPrepend + b.reader]
    BY <2>1, <2>2
  <2>4. (CheapPrepend + i) - CheapPrepend + b.reader = b.reader + i
    BY <1>0 DEF Good
  <2> QED
    BY <1>2, <2>3, <2>4
<1>6. Content(c) = Content(b)
  BY <1>0, <1>2, <1>5 DEF Content
<1> QED
  BY <1>1, <1>2, <1>4, <1>6

(* Buffer::ensureWritableBytes makes the room it was asked for and keeps    *)
(* what is readable.                                                        *)
LEMMA EnsureMakesRoom ==
  ASSUME NEW b, Good(b), NEW len \in Nat
  PROVE  /\ Good(EnsureWritableBytes(b, len))
         /\ Content(EnsureWritableBytes(b, len)) = Content(b)
         /\ WritableBytes(EnsureWritableBytes(b, len)) >= len
<1> USE BufferAssumption
<1>1. CASE WritableBytes(b) >= len
  BY <1>1 DEF EnsureWritableBytes, WritableBytes, Good
<1>2. CASE WritableBytes(b) < len /\ Fits(b, len)
  BY <1>2, CompactKeeps DEF EnsureWritableBytes, MakeSpace, WritableBytes, Fits, Good
<1>3. CASE WritableBytes(b) < len /\ ~Fits(b, len)
  BY <1>3, ResizeKeeps DEF EnsureWritableBytes, MakeSpace, WritableBytes, Good
<1> QED
  BY <1>1, <1>2, <1>3 DEF WritableBytes, Good

(* Copying behind the readable bytes appends to them. *)
LEMMA CopyInAppends ==
  ASSUME NEW b, Good(b), NEW d \in Seq(Bytes), Len(d) <= WritableBytes(b)
  PROVE  /\ Good(CopyIn(b, d))
         /\ Content(CopyIn(b, d)) = Content(b) \o d
         /\ Len(CopyIn(b, d).store) = Len(b.store)
         /\ CopyIn(b, d).writer = b.writer + Len(d)
<1> DEFINE s == [i \in 1 .. Len(b.store) |->
                   IF i \in b.writer + 1 .. b.writer + Len(d)
                   THEN d[i - b.writer] ELSE b.store[i]]
           c == CopyIn(b, d)
<1>0. b.writer + Len(d) <= Len(b.store) /\ Len(d) \in Nat
  BY DEF WritableBytes, Good
<1>1. s \in Seq(Bytes) /\ Len(s) = Len(b.store)
  BY <1>0 DEF Good
<1>2. c = [store |-> s, reader |-> b.reader, writer |-> b.writer + Len(d)]
  BY DEF CopyIn, Buf
<1>3. Good(c)
  BY <1>0, <1>1, <1>2 DEF Good
<1> DEFINE n == b.writer - b.reader
           l == Content(c)
           r == Content(b)
<1>4. /\ n \in Nat /\ b.reader \in Nat /\ b.writer = b.reader + n
      /\ c.writer - c.reader = n + Len(d) /\ c.reader = b.reader /\ c.store = s
      /\ b.store \in Seq(Bytes)
  BY <1>0, <1>2 DEF Good
<1>5. /\ l \in Seq(Bytes) /\ Len(l) = n + Len(d)
      /\ r \in Seq(Bytes) /\ Len(r) = n
      /\ \A i \in 1 .. n + Len(d) : l[i] = s[b.reader + i]
      /\ \A i \in 1 .. n : r[i] = b.store[b.reader + i]
  <2>1. /\ l \in Seq(Bytes) /\ Len(l) = c.writer - c.reader
        /\ \A i \in 1 .. c.writer - c.reader : l[i] = c.store[c.reader + i]
    BY <1>3, ContentType
  <2>2. /\ r \in Seq(Bytes) /\ Len(r) = n
        /\ \A i \in 1 .. n : r[i] = b.store[b.reader + i]
    BY ContentType
  <2> HIDE DEF s, l, r, n, c
  <2> QED
    BY <1>4, <2>1, <2>2
<1>6. ASSUME NEW i \in 1 .. n + Len(d) PROVE l[i] = (r \o d)[i]
  <2>0. b.reader + i \in 1 .. Len(b.store)
    BY <1>0, <1>4
  <2>1. CASE i <= n
    <3>1. b.reader + i \notin b.writer + 1 .. b.writer + Len(d)
      BY <1>4, <2>1
    <3>2. s[b.reader + i] = b.store[b.reader + i]
      BY <2>0, <3>1
    <3> HIDE DEF s, l, r, n
    <3> QED
      BY <1>4, <1>5, <2>1, <3>2
  <2>2. CASE i > n
    <3>1. /\ b.reader + i \in b.writer + 1 .. b.writer + Len(d)
          /\ b.reader + i - b.writer = i - n
      BY <1>0, <1>4, <2>2
    <3> DEFINE k == b.reader + i
    <3>2. s[k] = d[i - n]
      <4>1. k \in 1 .. Len(b.store) /\ k \in b.writer + 1 .. b.writer + Len(d)
        BY <2>0, <3>1
      <4>2. k - b.writer = i - n
        BY <1>4
      <4> HIDE DEF k, n
      <4> QED
        BY <4>1, <4>2
    <3> HIDE DEF s, l, r, n
    <3> QED
      BY <1>4, <1>5, <2>2, <3>2
  <2>3. i <= n \/ i > n
    BY <1>0, <1>4
  <2> QED
    BY <2>1, <2>2, <2>3
<1>7. Content(c) = Content(b) \o d
  <2> HIDE DEF s, l, r, n, c
  <2>1. r \o d \in Seq(Bytes) /\ Len(r \o d) = n + Len(d)
    BY <1>5
  <2>2. l = r \o d
    BY <1>5, <1>6, <2>1, SeqEqual
  <2> QED
    BY <2>2 DEF l, r
<1> QED
  BY <1>1, <1>2, <1>3, <1>7

(* Buffer::append appends, whatever room there was. *)
LEMMA AppendAppends ==
  ASSUME NEW b, Good(b), NEW d \in Seq(Bytes)
  PROVE  Good(AppendTo(b, d)) /\ Content(AppendTo(b, d)) = Content(b) \o d
<1> DEFINE e == EnsureWritableBytes(b, Len(d))
<1>1. Len(d) \in Nat
  OBVIOUS
<1>2. Good(e) /\ Content(e) = Content(b) /\ WritableBytes(e) >= Len(d)
  BY <1>1, EnsureMakesRoom
<1>3. Len(d) <= WritableBytes(e)
  BY <1>1, <1>2 DEF WritableBytes, Good
<1> HIDE DEF e
<1>4. Good(CopyIn(e, d)) /\ Content(CopyIn(e, d)) = Content(e) \o d
  BY <1>2, <1>3, CopyInAppends
<1> QED
  BY <1>2, <1>4 DEF AppendTo, e

(* What concatenation puts where. *)
LEMMA Concatenation ==
  ASSUME NEW s \in Seq(Bytes), NEW t \in Seq(Bytes)
  PROVE  /\ s \o t \in Seq(Bytes) /\ Len(s \o t) = Len(s) + Len(t)
         /\ \A i \in 1 .. Len(s) : (s \o t)[i] = s[i]
         /\ \A i \in 1 .. Len(t) : (s \o t)[Len(s) + i] = t[i]
OBVIOUS

(* A sequence of bytes cut in two is the two pieces put together. *)
LEMMA CutAndJoin ==
  ASSUME NEW r \in Seq(Bytes), NEW d \in Seq(Bytes), NEW w \in Nat, w < Len(d)
  PROVE  /\ SubSeq(d, 1, w) \in Seq(Bytes) /\ Len(SubSeq(d, 1, w)) = w
         /\ SubSeq(d, w + 1, Len(d)) \in Seq(Bytes)
         /\ (r \o SubSeq(d, 1, w)) \o SubSeq(d, w + 1, Len(d)) = r \o d
<1> DEFINE x == SubSeq(d, 1, w)
           y == SubSeq(d, w + 1, Len(d))
           u == r \o x
           v == u \o y
           z == r \o d
<1>0. Len(r) \in Nat /\ Len(d) \in Nat
  OBVIOUS
<1>1. x \in Seq(Bytes) /\ Len(x) = w /\ \A i \in 1 .. w : x[i] = d[i]
  OBVIOUS
<1>2. y \in Seq(Bytes) /\ Len(y) = Len(d) - w
      /\ \A i \in 1 .. Len(d) - w : y[i] = d[w + i]
  OBVIOUS
<1> HIDE DEF x, y
<1>3. /\ u \in Seq(Bytes) /\ Len(u) = Len(r) + Len(x)
      /\ \A i \in 1 .. Len(r) : u[i] = r[i]
      /\ \A i \in 1 .. Len(x) : u[Len(r) + i] = x[i]
  BY <1>1, Concatenation
<1> HIDE DEF u
<1>4. /\ v \in Seq(Bytes) /\ Len(v) = Len(u) + Len(y)
      /\ \A i \in 1 .. Len(u) : v[i] = u[i]
      /\ \A i \in 1 .. Len(y) : v[Len(u) + i] = y[i]
  BY <1>2, <1>3, Concatenation
<1>5. /\ z \in Seq(Bytes) /\ Len(z) = Len(r) + Len(d)
      /\ \A i \in 1 .. Len(r) : z[i] = r[i]
      /\ \A i \in 1 .. Len(d) : z[Len(r) + i] = d[i]
  BY Concatenation
<1> HIDE DEF v, z
<1>6. ASSUME NEW i \in 1 .. Len(r) + Len(d) PROVE v[i] = z[i]
  <2>1. CASE i <= Len(r)
    BY <1>0, <1>1, <1>3, <1>4, <1>5, <2>1
  <2>2. CASE i > Len(r) /\ i <= Len(r) + w
    <3>1. PICK j \in 1 .. w : i = Len(r) + j
      <4>1. i - Len(r) \in 1 .. w /\ i = Len(r) + (i - Len(r))
        BY <1>0, <2>2
      <4> QED
        BY <4>1
    <3>2. v[i] = u[i]
      BY <1>0, <1>1, <1>3, <1>4, <2>2
    <3>3. u[i] = d[j] /\ z[i] = d[j]
      BY <1>0, <1>1, <1>3, <1>5, <3>1
    <3> QED
      BY <3>2, <3>3
  <2>3. CASE i > Len(r) + w
    <3>1. PICK j \in 1 .. Len(d) - w : i = Len(r) + w + j
      <4>1. i - (Len(r) + w) \in 1 .. Len(d) - w /\ i = Len(r) + w + (i - (Len(r) + w))
        BY <1>0, <2>3
      <4> QED
        BY <4>1
    <3>2. v[i] = y[j]
      BY <1>0, <1>1, <1>2, <1>3, <1>4, <3>1
    <3>3. w + j \in 1 .. Len(d) /\ i = Len(r) + (w + j)
      BY <1>0, <3>1
    <3>4. z[i] = d[w + j]
      BY <1>5, <3>3
    <3> QED
      BY <1>2, <3>2, <3>4
  <2> QED
    BY <1>0, <2>1, <2>2, <2>3
<1>7. v = z
  BY <1>0, <1>1, <1>2, <1>3, <1>4, <1>5, <1>6, SeqEqual
<1> QED
  BY <1>1, <1>2, <1>7 DEF u, v, x, y, z

(* Buffer::readFd appends what readv delivered, in one piece or in two. *)
LEMMA FilledAppends ==
  ASSUME NEW b, Good(b), NEW d \in Seq(Bytes)
  PROVE  Good(Filled(b, d)) /\ Content(Filled(b, d)) = Content(b) \o d
<1> DEFINE w == WritableBytes(b)
           x == SubSeq(d, 1, w)
           y == SubSeq(d, w + 1, Len(d))
<1>1. w \in Nat /\ Len(d) \in Nat
  BY DEF WritableBytes, Good
<1>2. CASE Len(d) <= w
  BY <1>2, CopyInAppends DEF Filled
<1>3. CASE w < Len(d)
  <2>1. Content(b) \in Seq(Bytes)
    BY ContentType
  <2>2. /\ x \in Seq(Bytes) /\ Len(x) = w /\ y \in Seq(Bytes)
        /\ (Content(b) \o x) \o y = Content(b) \o d
    BY <1>1, <1>3, <2>1, CutAndJoin
  <2>3. Filled(b, d) = AppendTo(CopyIn(b, x), y)
    BY <1>1, <1>3 DEF Filled
  <2> HIDE DEF x, y
  <2>4. Good(CopyIn(b, x)) /\ Content(CopyIn(b, x)) = Content(b) \o x
    BY <1>1, <2>2, CopyInAppends
  <2>5. /\ Good(AppendTo(CopyIn(b, x), y))
        /\ Content(AppendTo(CopyIn(b, x), y)) = Content(CopyIn(b, x)) \o y
    BY <2>2, <2>4, AppendAppends
  <2> QED
    BY <2>2, <2>3, <2>4, <2>5
<1> QED
  BY <1>1, <1>2, <1>3

(* Moving the reader index forward drops bytes at the front. *)
LEMMA AdvanceTakes ==
  ASSUME NEW b, Good(b), NEW len \in 1 .. ReadableBytes(b)
  PROVE  LET c == [b EXCEPT !.reader = b.reader + len]
         IN  Good(c) /\ Content(c) = SubSeq(Content(b), len + 1, Len(Content(b)))
<1> DEFINE c == [b EXCEPT !.reader = b.reader + len]
           n == ReadableBytes(b)
           q == SubSeq(Content(b), len + 1, Len(Content(b)))
<1>1. n \in Nat /\ n = b.writer - b.reader /\ b.reader \in Nat /\ len \in Nat
  BY DEF ReadableBytes, Good
<1>2. /\ c \in [store : Seq(Bytes), reader : Nat, writer : Nat]
      /\ c.store = b.store /\ c.reader = b.reader + len /\ c.writer = b.writer
  BY <1>1 DEF Good
<1>3. Good(c)
  BY <1>1, <1>2, BufferAssumption DEF Good
<1>4. /\ Content(b) \in Seq(Bytes) /\ Len(Content(b)) = n
      /\ \A i \in 1 .. n : Content(b)[i] = b.store[b.reader + i]
  BY <1>1, ContentType
<1>5. /\ Content(c) \in Seq(Bytes) /\ Len(Content(c)) = n - len
      /\ \A i \in 1 .. n - len : Content(c)[i] = b.store[b.reader + len + i]
  <2>1. /\ Content(c) \in Seq(Bytes) /\ Len(Content(c)) = c.writer - c.reader
        /\ \A i \in 1 .. c.writer - c.reader : Content(c)[i] = c.store[c.reader + i]
    BY <1>3, ContentType
  <2>2. c.writer - c.reader = n - len
    BY <1>1, <1>2 DEF Good
  <2> HIDE DEF c, n
  <2> QED
    BY <1>2, <2>1, <2>2
<1> HIDE DEF c, n
<1>6. q \in Seq(Bytes) /\ Len(q) = n - len
      /\ \A i \in 1 .. n - len : q[i] = Content(b)[len + i]
  BY <1>1, <1>4 DEF n
<1> HIDE DEF q
<1>7. ASSUME NEW i \in 1 .. n - len PROVE Content(c)[i] = q[i]
  <2>1. len + i \in 1 .. n /\ b.reader + (len + i) = b.reader + len + i
    BY <1>1
  <2> QED
    BY <1>4, <1>5, <1>6, <2>1
<1>8. Content(c) = q
  BY <1>5, <1>6, <1>7, SeqEqual
<1> QED
  BY <1>3, <1>8 DEF c, q

(* Rewinding both indices drops everything. *)
LEMMA RewindTakesAll ==
  ASSUME NEW b, Good(b), ReadableBytes(b) > 0
  PROVE  LET c == [b EXCEPT !.reader = CheapPrepend, !.writer = CheapPrepend]
             n == Len(Content(b))
         IN  Good(c) /\ n \in 1 .. n /\ Content(c) = SubSeq(Content(b), n + 1, n)
<1> DEFINE c == [b EXCEPT !.reader = CheapPrepend, !.writer = CheapPrepend]
           n == Len(Content(b))
<1>1. /\ c \in [store : Seq(Bytes), reader : Nat, writer : Nat]
      /\ c.store = b.store /\ c.reader = CheapPrepend /\ c.writer = CheapPrepend
  BY BufferAssumption DEF Good
<1>2. Good(c)
  BY <1>1, BufferAssumption DEF Good
<1>3. Content(b) \in Seq(Bytes) /\ n = b.writer - b.reader
  BY ContentType
<1>4. n \in 1 .. n
  BY <1>3 DEF ReadableBytes, Good
<1>5. Content(c) \in Seq(Bytes) /\ Len(Content(c)) = 0
  <2>1. Content(c) \in Seq(Bytes) /\ Len(Content(c)) = c.writer - c.reader
    BY <1>2, ContentType
  <2> QED
    BY <1>1, <2>1, BufferAssumption
<1> HIDE DEF c
<1>6. SubSeq(Content(b), n + 1, n) \in Seq(Bytes) /\ Len(SubSeq(Content(b), n + 1, n)) = 0
  BY <1>3, <1>4
<1>7. Content(c) = SubSeq(Content(b), n + 1, n)
  BY <1>5, <1>6, SeqEqual
<1> QED
  BY <1>2, <1>4, <1>7 DEF c

-----------------------------------------------------------------------------
(* The indices are in order and the types are right, in every state. *)
Inv == Good(Here) /\ given \in Seq(Bytes)

(* Where the action says what the buffer becomes, it becomes that. *)
LEMMA BecomesHere ==
  ASSUME NEW b, Good(b), Becomes(b)
  PROVE  Here' = b
BY DEF Good, Becomes, Here, Buf

(* A new buffer, and the initial state, satisfy the invariant. *)
LEMMA InitGood ==
  ASSUME Init
  PROVE  Inv /\ Content(Here) = <<>>
<1>1. /\ Here = [store |-> store, reader |-> CheapPrepend, writer |-> CheapPrepend]
      /\ store \in Seq(Bytes) /\ Len(store) = CheapPrepend + InitialSize
  BY BufferAssumption DEF Init, Here, Buf
<1>2. Good(Here)
  BY <1>1, BufferAssumption DEF Good
<1>3. Content(Here) \in Seq(Bytes) /\ Len(Content(Here)) = 0
  <2>1. Content(Here) \in Seq(Bytes) /\ Len(Content(Here)) = Here.writer - Here.reader
    BY <1>2, ContentType
  <2> QED
    BY <1>1, <2>1, BufferAssumption
<1>4. given \in Seq(Bytes)
  BY DEF Init
<1> QED
  BY <1>2, <1>3, <1>4 DEF Inv

(* What a call does to the readable bytes: it appends or it takes away. *)
LEMMA StepEffect ==
  ASSUME Inv, Next
  PROVE  /\ Inv'
         /\ \/ \E d \in Inputs : Content(Here)' = Content(Here) \o d /\ given' = d
            \/ \E n \in 1 .. Len(Content(Here)) :
                 /\ Content(Here)' = SubSeq(Content(Here), n + 1, Len(Content(Here)))
                 /\ given' = <<>>
<1> USE DEF Inv
<1>0. Good(Here)
  OBVIOUS
<1>1. ASSUME NEW d \in Inputs, AppendBytes(d)
      PROVE  Inv' /\ Content(Here)' = Content(Here) \o d /\ given' = d
  <2>1. d \in Seq(Bytes)
    BY BufferAssumption
  <2>2. Good(AppendTo(Here, d)) /\ Content(AppendTo(Here, d)) = Content(Here) \o d
    BY <1>0, <2>1, AppendAppends
  <2>3. Here' = AppendTo(Here, d)
    BY <1>1, <2>2, BecomesHere DEF AppendBytes
  <2>4. given' = d
    BY <1>1 DEF AppendBytes
  <2> QED
    BY <2>1, <2>2, <2>3, <2>4 DEF Good, Content
<1>2. ASSUME NEW d \in Inputs, ReadFd(d)
      PROVE  Inv' /\ Content(Here)' = Content(Here) \o d /\ given' = d
  <2>1. d \in Seq(Bytes)
    BY BufferAssumption
  <2>2. Good(Filled(Here, d)) /\ Content(Filled(Here, d)) = Content(Here) \o d
    BY <1>0, <2>1, FilledAppends
  <2>3. Here' = Filled(Here, d)
    BY <1>2, <2>2, BecomesHere DEF ReadFd
  <2>4. given' = d
    BY <1>2 DEF ReadFd
  <2> QED
    BY <2>1, <2>2, <2>3, <2>4 DEF Good, Content
<1> DEFINE all == [Here EXCEPT !.reader = CheapPrepend, !.writer = CheapPrepend]
           m == Len(Content(Here))
<1>3. ASSUME ReadableBytes(Here) > 0, Here' = all, given' = <<>>
      PROVE  /\ Inv' /\ m \in 1 .. m /\ given' = <<>>
             /\ Content(Here)' = SubSeq(Content(Here), m + 1, m)
  <2>1. Good(all) /\ m \in 1 .. m /\ Content(all) = SubSeq(Content(Here), m + 1, m)
    BY <1>0, <1>3, RewindTakesAll
  <2>2. <<>> \in Seq(Bytes)
    OBVIOUS
  <2> QED
    BY <1>3, <2>1, <2>2 DEF Good, Content
<1>4. ASSUME RetrieveAll
      PROVE  /\ Inv' /\ m \in 1 .. m /\ given' = <<>>
             /\ Content(Here)' = SubSeq(Content(Here), m + 1, m)
  <2>1. ReadableBytes(Here) > 0 /\ Good(all)
    BY <1>0, <1>4, RewindTakesAll DEF RetrieveAll
  <2>2. Here' = all /\ given' = <<>>
    BY <1>4, <2>1, BecomesHere DEF RetrieveAll
  <2> QED
    BY <1>3, <2>1, <2>2
<1>5. ASSUME NEW len \in 1 .. MaxReadable + 1, Retrieve(len)
      PROVE  /\ Inv'
             /\ given' = <<>>
             /\ \E n \in 1 .. m : Content(Here)' = SubSeq(Content(Here), n + 1, m)
  <2>0. ReadableBytes(Here) > 0 /\ ReadableBytes(Here) \in Nat /\ len \in Nat
    BY <1>0, <1>5, BufferAssumption DEF Retrieve, ReadableBytes, Good
  <2>3. given' = <<>> /\ <<>> \in Seq(Bytes)
    BY <1>5 DEF Retrieve
  <2>1. CASE len <= ReadableBytes(Here)
    <3> DEFINE c == [Here EXCEPT !.reader = Here.reader + len]
    <3>1. len \in 1 .. ReadableBytes(Here)
      BY <2>0, <2>1
    <3>2. Good(c) /\ Content(c) = SubSeq(Content(Here), len + 1, m)
      BY <1>0, <3>1, AdvanceTakes
    <3>3. Here' = c
      BY <1>5, <2>1, <3>2, BecomesHere DEF Retrieve, Retrieved
    <3>4. m = ReadableBytes(Here)
      BY <1>0, ContentType DEF ReadableBytes
    <3>5. Inv' /\ Content(Here)' = SubSeq(Content(Here), len + 1, m)
      BY <2>3, <3>2, <3>3 DEF Good, Content
    <3> QED
      BY <2>3, <3>1, <3>4, <3>5
  <2>2. CASE ~(len <= ReadableBytes(Here))
    <3>1. Good(all)
      BY <1>0, <2>0, RewindTakesAll
    <3>2. Here' = all
      BY <1>5, <2>2, <3>1, BecomesHere DEF Retrieve, Retrieved
    <3> QED
      BY <1>3, <2>0, <2>3, <3>2
  <2> QED
    BY <2>1, <2>2
<1> QED
  BY <1>1, <1>2, <1>4, <1>5 DEF Next

(* An unchanged buffer has unchanged contents. *)
LEMMA StutterKeeps ==
  ASSUME UNCHANGED vars
  PROVE  Here' = Here /\ Content(Here)' = Content(Here) /\ given' = given /\ (Inv => Inv')
BY DEF vars, Here, Buf, Content, Inv, Good

(* Every reachable state of the buffer is a good one. *)
LEMMA InvCorrect == Spec => []Inv
<1>1. Init => Inv
  BY InitGood
<1>2. Inv /\ [Next]_vars => Inv'
  BY StepEffect, StutterKeeps
<1> QED
  BY <1>1, <1>2, PTL DEF Spec

(* The vector of Buffer holds bytes and its indices point into it. *)
THEOREM TypeCorrect == Spec => []TypeOK
<1>1. Inv => TypeOK
  BY BufferAssumption DEF Inv, Good, Here, Buf, TypeOK
<1> QED
  BY <1>1, InvCorrect, PTL

(* No append, readFd, retrieve, compaction or growth, in any order and for  *)
(* any sizes, moves an index of Buffer out of the vector, out of order or   *)
(* into the prepend area.                                                   *)
THEOREM IndicesCorrect == Spec => []IndicesInOrder
<1>1. Inv /\ TypeOK => IndicesInOrder
  BY DEF Inv, Good, Here, Buf, IndicesInOrder
<1> QED
  BY <1>1, InvCorrect, TypeCorrect, PTL

(* For any sizes and any input a Buffer is a queue of bytes: whatever is    *)
(* compacted, grown or read through the stack, bytes leave in the order in  *)
(* which they came, none lost and none twice.                               *)
THEOREM BufferIsByteQueue == Spec => ImplementsByteQueue
<1>1. Readable = Content(Here)
  BY DEF Readable, Content, Here, Buf
<1>2. Init => BQ!Init
  BY <1>1, InitGood DEF BQ!Init, Init
<1>3. Readable' = Content(Here)'
  BY DEF Readable, Content, Here, Buf
<1>4. Inv /\ [Next]_vars => [BQ!Next]_<<Readable, given>>
  <2> SUFFICES ASSUME Inv, [Next]_vars PROVE [BQ!Next]_<<Readable, given>>
    OBVIOUS
  <2>1. CASE Next
    BY <1>1, <1>3, <2>1, StepEffect DEF BQ!Next, BQ!Write, BQ!Take
  <2>2. CASE UNCHANGED vars
    BY <1>1, <1>3, <2>2, StutterKeeps
  <2> QED
    BY <2>1, <2>2
<1> QED
  BY <1>2, <1>4, InvCorrect, PTL DEF Spec, ImplementsByteQueue, BQ!Spec, BQ!vars

-----------------------------------------------------------------------------
(* The buffer c has a longer vector than b only if what is readable now would *)
(* not have fitted behind the prepend area of b.                              *)
GrowsFull(b, c) ==
  Len(c.store) > Len(b.store) => c.writer - c.reader > Len(b.store) - CheapPrepend

(* std::copy writes into the vector and does not move its end. *)
LEMMA CopyInSizes ==
  ASSUME NEW b, Good(b), NEW d \in Seq(Bytes), Len(d) <= WritableBytes(b)
  PROVE  /\ Len(CopyIn(b, d).store) = Len(b.store)
         /\ CopyIn(b, d).reader = b.reader /\ CopyIn(b, d).writer = b.writer + Len(d)
<1>1. Len(b.store) \in Nat
  BY DEF Good
<1> QED
  BY <1>1 DEF CopyIn, Buf

(* Buffer::append grows the vector only when moving would not have done. *)
LEMMA AppendGrows ==
  ASSUME NEW b, Good(b), NEW d \in Seq(Bytes)
  PROVE  GrowsFull(b, AppendTo(b, d))
<1> USE BufferAssumption
<1>1. PICK e : e = EnsureWritableBytes(b, Len(d))
  OBVIOUS
<1>2. Len(d) \in Nat /\ Good(e) /\ WritableBytes(e) >= Len(d)
  BY <1>1, EnsureMakesRoom
<1>3. /\ Len(AppendTo(b, d).store) = Len(e.store)
      /\ AppendTo(b, d).reader = e.reader /\ AppendTo(b, d).writer = e.writer + Len(d)
  <2>1. Len(d) <= WritableBytes(e)
    BY <1>2 DEF WritableBytes, Good
  <2> QED
    BY <1>1, <1>2, <2>1, CopyInSizes DEF AppendTo
<1>4. CASE WritableBytes(b) >= Len(d)
  <2>1. e = b
    BY <1>1, <1>2, <1>4 DEF EnsureWritableBytes, WritableBytes, Good
  <2> QED
    BY <1>3, <2>1 DEF GrowsFull, Good
<1>5. CASE WritableBytes(b) < Len(d) /\ Fits(b, Len(d))
  <2>1. Len(e.store) = Len(b.store)
    BY <1>1, <1>5, CompactKeeps DEF EnsureWritableBytes, MakeSpace
  <2> QED
    BY <1>3, <2>1 DEF GrowsFull, Good
<1>6. CASE WritableBytes(b) < Len(d) /\ ~Fits(b, Len(d))
  <2>1. e = Resize(b, b.writer + Len(d))
    BY <1>1, <1>6 DEF EnsureWritableBytes, MakeSpace
  <2>2. e.reader = b.reader /\ e.writer = b.writer
    BY <2>1 DEF Resize, Good
  <2>3. (b.writer + Len(d)) - b.reader > Len(b.store) - CheapPrepend
    BY <1>2, <1>6 DEF Fits, WritableBytes, Good
  <2>4. AppendTo(b, d).writer - AppendTo(b, d).reader > Len(b.store) - CheapPrepend
    <3>1. AppendTo(b, d).writer = b.writer + Len(d) /\ AppendTo(b, d).reader = b.reader
      BY <1>3, <2>2
    <3> QED
      BY <2>3, <3>1, Zenon
  <2> QED
    BY <2>4 DEF GrowsFull
<1>7. WritableBytes(b) >= Len(d) \/ WritableBytes(b) < Len(d)
  BY <1>2 DEF WritableBytes, Good
<1> QED
  BY <1>4, <1>5, <1>6, <1>7

(* Buffer::readFd grows it only for what went to the stack, when that is so. *)
LEMMA FilledGrows ==
  ASSUME NEW b, Good(b), NEW d \in Seq(Bytes)
  PROVE  GrowsFull(b, Filled(b, d))
<1>1. PICK w \in Nat : w = WritableBytes(b)
  BY DEF WritableBytes, Good
<1>2. Len(d) \in Nat
  OBVIOUS
<1>3. CASE Len(d) <= w
  <2>1. Filled(b, d) = CopyIn(b, d)
    BY <1>1, <1>3 DEF Filled
  <2>2. Len(CopyIn(b, d).store) = Len(b.store)
    BY <1>1, <1>3, CopyInSizes
  <2> QED
    BY <2>1, <2>2 DEF GrowsFull, Good
<1>4. CASE w < Len(d)
  <2>1. PICK x, y : x = SubSeq(d, 1, w) /\ y = SubSeq(d, w + 1, Len(d))
    OBVIOUS
  <2>2. x \in Seq(Bytes) /\ Len(x) = w /\ y \in Seq(Bytes)
    <3>1. Content(b) \in Seq(Bytes)
      BY ContentType
    <3> QED
      BY <1>1, <1>2, <1>4, <2>1, <3>1, CutAndJoin
  <2>3. PICK c : c = CopyIn(b, x)
    OBVIOUS
  <2>4. Good(c) /\ Len(c.store) = Len(b.store)
    BY <1>1, <2>2, <2>3, CopyInAppends, CopyInSizes
  <2>5. Filled(b, d) = AppendTo(c, y)
    BY <1>1, <1>2, <1>4, <2>1, <2>3 DEF Filled
  <2>6. GrowsFull(c, AppendTo(c, y))
    BY <2>2, <2>4, AppendGrows
  <2> QED
    BY <2>4, <2>5, <2>6 DEF GrowsFull
<1> QED
  BY <1>1, <1>2, <1>3, <1>4

(* For any sizes and any input, append and readFd give a Buffer a longer      *)
(* vector only when the readable bytes could not have been moved to the front *)
(* to make the room; retrieve never does.                                     *)
THEOREM GrowthOnlyWhenFull == Spec => GrowsOnlyWhenFull
<1>1. ASSUME Inv, [Next]_vars
      PROVE  Len(store') > Len(store) => writer' - reader' > Len(store) - CheapPrepend
  <2>1. Good(Here) /\ Here.store = store
    BY <1>1 DEF Inv, Here, Buf
  <2>2. ASSUME NEW c, Becomes(c), GrowsFull(Here, c)
        PROVE  Len(store') > Len(store) => writer' - reader' > Len(store) - CheapPrepend
    BY <2>1, <2>2 DEF GrowsFull, Becomes
  <2>3. ASSUME store' = store
        PROVE  Len(store') > Len(store) => writer' - reader' > Len(store) - CheapPrepend
    <3>1. Len(store) \in Nat
      BY <2>1 DEF Good
    <3> QED
      BY <2>3, <3>1
  <2>4. ASSUME NEW d \in Inputs, AppendBytes(d) \/ ReadFd(d)
        PROVE  Len(store') > Len(store) => writer' - reader' > Len(store) - CheapPrepend
    <3>1. d \in Seq(Bytes)
      BY BufferAssumption
    <3>2. GrowsFull(Here, AppendTo(Here, d)) /\ GrowsFull(Here, Filled(Here, d))
      BY <2>1, <3>1, AppendGrows, FilledGrows
    <3>3. Becomes(AppendTo(Here, d)) \/ Becomes(Filled(Here, d))
      BY <2>4 DEF AppendBytes, ReadFd
    <3> QED
      BY <2>2, <3>2, <3>3
  <2>5. ASSUME NEW len \in 1 .. MaxReadable + 1, Retrieve(len) PROVE store' = store
    BY <2>1, <2>5 DEF Retrieve, Retrieved, Becomes, Good
  <2>6. ASSUME RetrieveAll PROVE store' = store
    BY <2>1, <2>6 DEF RetrieveAll, Becomes, Good
  <2>7. CASE UNCHANGED vars
    BY <2>3, <2>7 DEF vars
  <2> QED
    BY <1>1, <2>3, <2>4, <2>5, <2>6, <2>7 DEF Next
<1> QED
  BY <1>1, InvCorrect, PTL DEF Spec, GrowsOnlyWhenFull
==============================================================================
