----------------------------- MODULE MCRtmpChunks -----------------------------
(* RtmpChunks for TLC, and the AMF0 codec of the payloads of its messages. *)
EXTENDS RtmpChunks, Amf0, FiniteSets

(* Any two messages; a third one on the same chunk stream, as the chain of   *)
(* deltas of fmt 3 needs it, or to see a chunk size change between the chunks *)
(* of another message, without extended timestamps.                           *)
Scope ==
  \/ started <= 2
  \/ /\ Len(net) <= 1
     /\ \/ Cardinality({c \in Csids : talk[c].init}) = 1
        \/ /\ \E c \in Csids : talk[c].kind \in ChunkSizes
           /\ \A c \in Csids : talk[c].ext = 0 /\ talk[c].delta = 0

(* The writer's basic header (RtmpChunkWriter::appendBasicHeader) is the       *)
(* parser's (RtmpChunkParser::parseBasicHeader) for every id a parser can read. *)
ASSUME BasicHeaderRoundTrip ==
  \A csid \in 2 .. 65599, fmt \in 0 .. 3 :
    LET basic == appendBasicHeader(fmt, csid) IN
    FmtOf(basic) = fmt /\ CsidOf(basic) = csid /\ BasicSize(basic[1]) = Len(basic)

(* The payload of a message that came through is decoded to the values that  *)
(* were encoded, and one cut short is refused, whatever the strings and keys  *)
(* hold: no byte of a string or key is taken for the end of an object          *)
(* (Amf0Encoder::appendObject, Amf0Decoder::decodeObject).                     *)
Amf0RoundTrip == past # <<>> => CodecInverts
==============================================================================
