--------------------------------- MODULE Amf0 ---------------------------------
(* Amf0Encoder and Amf0Decoder: values as bytes, lengths in 16 bits, objects  *)
(* that end with an empty key and a marker.  A double stands for its last byte.*)
EXTENDS Integers, Sequences, SequencesExt, TLC

CONSTANT LengthMod  \* 2^16: a length field holds the length modulo this

ASSUME LengthModAssumption == LengthMod \in 1 .. 65536

(* Type markers. *)
kAmf0Number == 0
kAmf0Boolean == 1
kAmf0String == 2
kAmf0Object == 3
kAmf0Null == 5
kAmf0EcmaArray == 8
kAmf0ObjectEnd == 9

Number(n) == [type |-> kAmf0Number, n |-> n]
Boolean(b) == [type |-> kAmf0Boolean, b |-> b]
String(s) == [type |-> kAmf0String, s |-> s]
ObjectValue(o) == [type |-> kAmf0Object, o |-> o]
EcmaArray(o) == [type |-> kAmf0EcmaArray, o |-> o]
NullValue == [type |-> kAmf0Null]

-----------------------------------------------------------------------------
(* The encoder.                                                               *)

appendUint16BE(n) == <<(n % LengthMod) \div 256, (n % LengthMod) % 256>>

(* A string without its marker: also the key of a property. *)
Counted(s) == appendUint16BE(Len(s)) \o s

RECURSIVE appendValue(_)

appendObject(o) ==
  LET property(key) == Counted(key) \o appendValue(o[key])
  IN FlattenSeq([i \in 1 .. Len(SetToSeq(DOMAIN o)) |-> property(SetToSeq(DOMAIN o)[i])])
       \o <<0, 0, kAmf0ObjectEnd>>

appendValue(v) ==
  <<v.type>> \o
  CASE v.type = kAmf0Number  -> <<0, 0, 0, 0, 0, 0, 0, v.n>>
    [] v.type = kAmf0Boolean -> <<IF v.b THEN 1 ELSE 0>>
    [] v.type = kAmf0String  -> Counted(v.s)
    [] v.type = kAmf0Object  -> appendObject(v.o)
    [] v.type = kAmf0EcmaArray ->
         <<0, 0>> \o appendUint16BE(Len(SetToSeq(DOMAIN v.o))) \o appendObject(v.o)
    [] v.type = kAmf0Null    -> <<>>

-----------------------------------------------------------------------------
(* The decoder: a value and the bytes used, or Failed.                        *)

Failed == [ok |-> FALSE, used |-> 0]
Decoded(value, used) == [ok |-> TRUE, used |-> used, value |-> value]

From(data, i) == SubSeq(data, i, Len(data))

decodeString(data) ==
  LET length == data[1] * 256 + data[2] IN
  IF Len(data) < 2 \/ Len(data) < 2 + length THEN Failed
  ELSE Decoded(SubSeq(data, 3, 2 + length), 2 + length)

(* Mutant of ObjectEnds: an empty key alone ends the object. *)
ObjectEndsAtEmptyKey(data) == Len(data) >= 3 /\ data[1] = 0 /\ data[2] = 0

ObjectEnds(data) == Len(data) >= 3 /\ data[1] = 0 /\ data[2] = 0 /\ data[3] = kAmf0ObjectEnd

RECURSIVE decodeValue(_)

(* The loop of decodeObject, used bytes behind the start, with the           *)
(* properties so far; a key that comes again keeps its first value.           *)
RECURSIVE decodeObject(_, _, _)

decodeObject(data, used, object) ==
  IF data = <<>> THEN Failed
  ELSE IF ObjectEnds(data) THEN Decoded(object, used + 3)
  ELSE LET key == decodeString(data)
           property == decodeValue(From(data, key.used + 1))
       IN IF ~key.ok \/ ~property.ok \/ property.used = 0 THEN Failed
          ELSE decodeObject(From(data, key.used + property.used + 1),
                            used + key.used + property.used,
                            object @@ (key.value :> property.value))

(* The result of a part that begins behind n bytes. *)
Behind(n, part, Make(_)) ==
  IF part.ok THEN Decoded(Make(part.value), n + part.used) ELSE Failed

decodeValue(data) ==
  IF data = <<>> THEN Decoded(NullValue, 0)
  ELSE CASE data[1] = kAmf0Number /\ Len(data) >= 9  -> Decoded(Number(data[9]), 9)
         [] data[1] = kAmf0Boolean /\ Len(data) >= 2 -> Decoded(Boolean(data[2] # 0), 2)
         [] data[1] = kAmf0String -> Behind(1, decodeString(From(data, 2)), String)
         [] data[1] = kAmf0Object -> Behind(1, decodeObject(From(data, 2), 0, <<>>), ObjectValue)
         [] data[1] = kAmf0EcmaArray /\ Len(data) >= 5 ->
              Behind(5, decodeObject(From(data, 6), 0, <<>>), EcmaArray)
         [] data[1] = kAmf0Null -> Decoded(NullValue, 1)
         [] OTHER -> Failed

(* decodeAll: the values of a payload one after the other, behind the ones   *)
(* decoded so far.                                                            *)
RECURSIVE decodeAll(_, _)

decodeAll(data, values) ==
  IF data = <<>> THEN [ok |-> TRUE, values |-> values]
  ELSE LET v == decodeValue(data) IN
       IF ~v.ok THEN [ok |-> FALSE, values |-> values]
       ELSE decodeAll(From(data, v.used + 1), Append(values, v.value))

-----------------------------------------------------------------------------
(* Values that meet the encoding's own marks: strings that hold an end of     *)
(* object, empty strings and keys, objects in objects.                        *)

Texts == {<<>>, <<9>>, <<0, 0, 9>>}

Scalars == {Number(0), Number(9), Boolean(TRUE), Boolean(FALSE), NullValue}
             \cup {String(s) : s \in Texts}

Objects(values) == UNION {[K -> values] : K \in {{}, {<<>>}, {<<0, 9>>}, {<<>>, <<9>>}}}

Nested(values) == {ObjectValue(o) : o \in Objects(values)} \cup {EcmaArray(o) : o \in Objects(values)}

Inner == {String(<<0, 0, 9>>), NullValue} \cup Nested({Boolean(FALSE)})

SomeValues == Scalars \cup Nested(Scalars) \cup Nested(Inner)

(* Decoding inverts encoding, for one value and in front of another one, and *)
(* a payload that is cut short is refused.                                    *)
CodecInverts ==
  \A v \in SomeValues :
    LET data == appendValue(v) IN
    /\ decodeAll(data \o appendValue(NullValue), <<>>) = [ok |-> TRUE, values |-> <<v, NullValue>>]
    /\ \A n \in 1 .. Len(data) - 1 : ~decodeAll(SubSeq(data, 1, n), <<>>).ok
==============================================================================
