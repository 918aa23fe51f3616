------------------------------- MODULE Buffer --------------------------------
(***************************************************************************)
(* The byte buffer of a connection (net/Buffer.cc): a vector with a reader  *)
(* and a writer index behind a prepend area, which is compacted or grown    *)
(* when the room at its end does not do, and is filled from a socket        *)
(* through an extra buffer on the stack.  store[i] is buffer_[i - 1].       *)
(***************************************************************************)
EXTENDS Naturals, Sequences

CONSTANTS Bytes, Zero,     \* what the buffer holds; what resize fills in
          CheapPrepend,    \* kCheapPrepend
          InitialSize,     \* kInitialSize
          ExtraSize,       \* sizeof(extrabuf) in readFd
          Inputs,          \* what append is called with and what a socket delivers
          MaxReadable      \* bound: bytes the user leaves in the buffer

ASSUME BufferAssumption ==
  /\ Zero \in Bytes
  /\ CheapPrepend \in Nat /\ InitialSize \in Nat /\ ExtraSize \in Nat
  /\ Inputs \subseteq Seq(Bytes) /\ MaxReadable \in Nat

VARIABLES store, reader, writer,  \* buffer_, readerIndex_, writerIndex_
          given                   \* what the last call put in, <<>> if it took out

vars == <<store, reader, writer, given>>

Init ==
  /\ store = [i \in 1 .. CheapPrepend + InitialSize |-> Zero]
  /\ reader = CheapPrepend /\ writer = CheapPrepend /\ given = <<>>

-----------------------------------------------------------------------------
(* The buffer as a value, so that readFd can call append half-way.          *)

Buf(s, r, w) == [store |-> s, reader |-> r, writer |-> w]
ReadableBytes(b) == b.writer - b.reader
WritableBytes(b) == Len(b.store) - b.writer

Resize(b, n) ==
  [b EXCEPT !.store = [i \in 1 .. n |-> IF i <= Len(b.store) THEN b.store[i] ELSE Zero]]

(* The readable bytes move to the front. *)
Compact(b) ==
  Buf([i \in 1 .. Len(b.store) |->
         IF i \in CheapPrepend + 1 .. CheapPrepend + ReadableBytes(b)
         THEN b.store[i - CheapPrepend + b.reader] ELSE b.store[i]],
      CheapPrepend, CheapPrepend + ReadableBytes(b))

(* Mutants: the prepend area counts as room; what fits is not used. *)
FitsWithPrepend(b, len) == WritableBytes(b) + b.reader >= len
FitsNever(b, len) == FALSE

(* The condition of makeSpace for moving instead of growing. *)
Fits(b, len) == WritableBytes(b) + b.reader >= len + CheapPrepend

MakeSpace(b, len) == IF Fits(b, len) THEN Compact(b) ELSE Resize(b, b.writer + len)

EnsureWritableBytes(b, len) == IF WritableBytes(b) < len THEN MakeSpace(b, len) ELSE b

(* std::copy to beginWrite(), and writerIndex_ moves on. *)
CopyIn(b, d) ==
  Buf([i \in 1 .. Len(b.store) |->
         IF i \in b.writer + 1 .. b.writer + Len(d) THEN d[i - b.writer] ELSE b.store[i]],
      b.reader, b.writer + Len(d))

AppendTo(b, d) == CopyIn(EnsureWritableBytes(b, Len(d)), d)

(* Mutant: what went to the stack is dropped. *)
FilledFirstOnly(b, d) ==
  IF Len(d) <= WritableBytes(b) THEN CopyIn(b, d)
  ELSE CopyIn(b, SubSeq(d, 1, WritableBytes(b)))

(* readv fills the buffer, then extrabuf, which is appended. *)
Filled(b, d) ==
  IF Len(d) <= WritableBytes(b) THEN CopyIn(b, d)
  ELSE AppendTo(CopyIn(b, SubSeq(d, 1, WritableBytes(b))),
                SubSeq(d, WritableBytes(b) + 1, Len(d)))

(* What one readv can deliver. *)
MaxRead(b) ==
  WritableBytes(b) + (IF WritableBytes(b) < ExtraSize THEN ExtraSize ELSE 0)

-----------------------------------------------------------------------------
Here == Buf(store, reader, writer)

Becomes(b) == store' = b.store /\ reader' = b.reader /\ writer' = b.writer

AppendBytes(d) ==
  /\ ReadableBytes(Here) + Len(d) <= MaxReadable
  /\ Becomes(AppendTo(Here, d)) /\ given' = d

ReadFd(d) ==
  /\ ReadableBytes(Here) + Len(d) <= MaxReadable
  /\ Len(d) <= MaxRead(Here)
  /\ Becomes(Filled(Here, d)) /\ given' = d

(* retrieve: more than there is means everything. *)
Retrieved(b, len) ==
  IF len <= ReadableBytes(b) THEN [b EXCEPT !.reader = b.reader + len]
  ELSE [b EXCEPT !.reader = CheapPrepend, !.writer = CheapPrepend]

Retrieve(len) ==
  /\ ReadableBytes(Here) > 0
  /\ Becomes(Retrieved(Here, len)) /\ given' = <<>>

RetrieveAll ==
  /\ ReadableBytes(Here) > 0
  /\ Becomes([Here EXCEPT !.reader = CheapPrepend, !.writer = CheapPrepend])
  /\ given' = <<>>

Next ==
  \/ \E d \in Inputs : AppendBytes(d) \/ ReadFd(d)
  \/ \E len \in 1 .. MaxReadable + 1 : Retrieve(len)
  \/ RetrieveAll

Spec == Init /\ [][Next]_vars

-----------------------------------------------------------------------------
(* Properties.                                                              *)

(* The store holds bytes and the indices point into it. *)
TypeOK ==
  /\ store \in Seq(Bytes) /\ reader \in 0 .. Len(store) /\ writer \in 0 .. Len(store)
  /\ given \in Seq(Bytes)

(* The readable bytes lie behind the prepend area and inside the vector:    *)
(* no copy of append, readFd or makeSpace runs past its end.  (Checked with *)
(* it: the types.)                                                          *)
IndicesInOrder ==
  TypeOK /\ CheapPrepend <= reader /\ reader <= writer /\ writer <= Len(store)

(* The vector grows only when compaction could not have made the room.      *)
GrowsOnlyWhenFull ==
  [][Len(store') > Len(store) => writer' - reader' > Len(store) - CheapPrepend]_vars

(* The readable bytes. *)
Readable == [i \in 1 .. writer - reader |-> store[reader + i]]

BQ == INSTANCE ByteQueue WITH data <- Readable

(* Whatever is compacted, grown or read past the end of the vector into the *)
(* stack: bytes come out in the order they went in, none lost, none twice.  *)
ImplementsByteQueue == BQ!Spec
==============================================================================
