------------------------------ MODULE CastWire ------------------------------
(***************************************************************************)
(* CastV2 on the wire: protobuf messages (src/cast/proto.rs) in frames     *)
(* with a length prefix (src/cast/framing.rs), reassembled from whatever   *)
(* the socket reads (FrameAccumulator, src/cast/connection/reader.rs).     *)
(*                                                                         *)
(* Everything is scaled down.  A byte has four bits, of which a varint     *)
(* carries three; u64 has seven bits, so that its third byte, like the     *)
(* tenth in the code, may only carry one; u32 has three, which is enough   *)
(* for the numbers of the fields.  The length prefix has two bytes.  A     *)
(* string is its bytes; that of a message is short.                        *)
(***************************************************************************)
EXTENDS Loops, Integers, Sequences, SequencesExt

CONSTANTS
    MaxFrame,   \* MAX_FRAME_SIZE
    MaxField    \* MAX_FIELD_SIZE

\* The two limits of the code are equal.
ASSUME CastWireAssumption == MaxFrame \in Nat /\ MaxField \in MaxFrame..127

Byte        == 0..15
Group       == 8            \* 0x80: one more than the payload of a byte
VarintBytes == 3            \* 10
U32         == 8            \* 2^32

Invalid    == [ok |-> FALSE]
From(b, i) == SubSeq(b, i, Len(b))

-----------------------------------------------------------------------------
(* Varints and messages.                                                   *)

VarintEncode(v) ==
    LET bytes[n \in 0..v] ==
            IF n < Group THEN <<n>> ELSE <<(n % Group) + Group>> \o bytes[n \div Group]
    IN bytes[v]

\* varint_decode: the value and how many bytes it took.  The last byte that
\* fits may not carry bits that u64 has no room for.
VarintDecode(b) ==
    LET ends == {i \in DOMAIN b : b[i] < Group}
        n    == CHOOSE i \in ends : \A j \in ends : i <= j
        digit(i) == IF i <= n THEN b[i] % Group ELSE 0
    IN IF ends = {} \/ n > VarintBytes \/ (n = VarintBytes /\ b[n] % Group > 1)
       THEN Invalid
       ELSE [ok |-> TRUE, used |-> n,
             value |-> digit(1) + Group * digit(2) + Group * Group * digit(3)]

\* WireType::from_number; the deprecated groups are none.
Varint          == 0
Fixed64         == 1
LengthDelimited == 2
Fixed32         == 5

Width(wire) == IF wire = Fixed64 THEN 8 ELSE 4

Key(field, wire) == VarintEncode(field * 8 + wire)

\* One field as a sender writes it.
WriteVarint(field, v)       == Key(field, Varint) \o VarintEncode(v)
WriteLengthDelimited(field, data) ==
    Key(field, LengthDelimited) \o VarintEncode(Len(data)) \o data
WriteFixed(field, wire)     == Key(field, wire) \o [i \in 1..Width(wire) |-> 0]

\* CastMessage::empty, and what encode_cast_message makes of a message.
EmptyMessage == [version |-> 0, source |-> <<>>, dest |-> <<>>, namespace |-> <<>>,
                 binary |-> FALSE, payload |-> <<>>]

EncodeCastMessage(source, dest, namespace, payload) ==
    WriteVarint(1, 0) \o WriteLengthDelimited(2, source) \o WriteLengthDelimited(3, dest)
      \o WriteLengthDelimited(4, namespace) \o WriteVarint(5, 0) \o WriteLengthDelimited(6, payload)

\* What a field does to the message; the ones that are not known, or come
\* with another wire type, do nothing.
SetVarint(m, field, v) ==
    CASE field = 1 -> [m EXCEPT !.version = v % U32]
      [] field = 5 -> [m EXCEPT !.binary = (v = 1)]
      [] OTHER     -> m

SetBytes(m, field, data) ==
    CASE field = 2 -> [m EXCEPT !.source = data]
      [] field = 3 -> [m EXCEPT !.dest = data]
      [] field = 4 -> [m EXCEPT !.namespace = data]
      [] field = 6 -> [m EXCEPT !.payload = data]
      [] OTHER     -> m

\* The value that b starts with, of the given wire type: the message with it
\* and the bytes it took.
SkipFixed(width, b, m) ==
    IF width > Len(b) THEN Invalid ELSE [ok |-> TRUE, message |-> m, used |-> width]

DecodeVarintField(m, field, b) ==
    LET v == VarintDecode(b)
    IN IF ~v.ok THEN Invalid
       ELSE [ok |-> TRUE, message |-> SetVarint(m, field, v.value), used |-> v.used]

DecodeBytesField(m, field, b) ==
    LET v == VarintDecode(b)
    IN IF ~v.ok \/ v.value > MaxField \/ v.used + v.value > Len(b) THEN Invalid
       ELSE [ok |-> TRUE, used |-> v.used + v.value,
             message |-> SetBytes(m, field, SubSeq(b, v.used + 1, v.used + v.value))]

DecodeValue(m, field, wire, b) ==
    CASE wire = Varint          -> DecodeVarintField(m, field, b)
      [] wire = LengthDelimited -> DecodeBytesField(m, field, b)
      [] wire \in {Fixed64, Fixed32} -> SkipFixed(Width(wire), b, m)
      [] OTHER                  -> Invalid

\* The field that b starts with.
DecodeField(m, b) ==
    LET tag   == VarintDecode(b)
        field == (tag.value \div 8) % U32
        value == DecodeValue(m, field, tag.value % 8, From(b, tag.used + 1))
    IN IF ~tag.ok THEN Invalid
       ELSE IF field = 0 \/ ~value.ok THEN Invalid
       ELSE [value EXCEPT !.used = tag.used + @]

\* decode_cast_message: one turn of its loop, and all of them.
DecodeTurn(d) ==
    LET next == DecodeField(d.message, d.rest)
    IN IF ~d.ok \/ d.rest = <<>> THEN d
       ELSE IF ~next.ok THEN [d EXCEPT !.ok = FALSE]
       ELSE [d EXCEPT !.message = next.message, !.rest = From(@, next.used + 1)]

DecodeCastMessage(b) ==
    LET d == Repeat(DecodeTurn, [ok |-> TRUE, message |-> EmptyMessage, rest |-> b], Len(b))
    IN IF d.ok THEN [ok |-> TRUE, message |-> d.message] ELSE Invalid

-----------------------------------------------------------------------------
(* Frames.                                                                 *)

EncodeFrame(payload) == <<Len(payload) \div 16, Len(payload) % 16>> \o payload

\* read_frame on what is buffered: a frame, a part of one, or an error.
FrameLen(b) == b[1] * 16 + b[2]

ReadFrame(b) ==
    IF Len(b) < 2 THEN "Partial"
    ELSE IF FrameLen(b) > MaxFrame THEN "TooLarge"
    ELSE IF Len(b) < 2 + FrameLen(b) THEN "Partial"
    ELSE "Frame"

\* FrameAccumulator: what it keeps and the frames it has handed out.
NewAccumulator == [buf |-> <<>>, frames |-> <<>>, failed |-> FALSE]

\* push_bytes: one turn of its loop, ...
TakeFrame(a) ==
    IF ReadFrame(a.buf) = "Frame"
    THEN [a EXCEPT !.buf = From(@, FrameLen(@) + 3),
                   !.frames = Append(@, SubSeq(a.buf, 3, FrameLen(a.buf) + 2))]
    ELSE a

PushOnlyOne(a, bytes) ==
    LET b == a.buf \o bytes
    IN IF ReadFrame(b) = "Frame"
       THEN [buf |-> <<>>, failed |-> FALSE,
             frames |-> Append(a.frames, SubSeq(b, 3, FrameLen(b) + 2))]
       ELSE [a EXCEPT !.buf = b, !.failed = (ReadFrame(b) = "TooLarge")]

\* ... and the whole: the frames that one call extracts before an error are
\* lost.
PushBytes(a, bytes) ==
    LET b   == a.buf \o bytes
        got == Repeat(TakeFrame, [a EXCEPT !.buf = b], Len(b))
    IN IF ReadFrame(got.buf) = "TooLarge" THEN [a EXCEPT !.buf = b, !.failed = TRUE] ELSE got

=============================================================================
