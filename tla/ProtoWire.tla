------------------------------- MODULE ProtoWire -------------------------------
(***************************************************************************)
(* The wire format as the generated code (protos/messages.pb.cc) uses it.  *)
(* A message object is a record of its fields and of the unknown fields it *)
(* keeps, and its codec is the sequence of its fields in the order they    *)
(* are written.  Bytes are numbers below 256.                              *)
(*                                                                         *)
(* Kinds of fields: "bytes", "uint32" and "bool" are not written when they *)
(* have their default; "optional" numbers, and a "message", when they are  *)
(* absent; of "repeated" bytes each element is written, and "packed"       *)
(* numbers together.  Numbers stay below 2^28: the width of TLC's own      *)
(* integers.                                                               *)
(***************************************************************************)
EXTENDS Naturals, Sequences, FiniteSets, SequencesExt

CONSTANT Absent

F(number, name, kind) == [number |-> number, name |-> name, kind |-> kind]

LengthDelimited == {"bytes", "message", "repeated", "packed"}

Tag(f) == f.number * 8 + (IF f.kind \in LengthDelimited THEN 2 ELSE 0)

\* Base 128, least significant group first, the high bit set on all but the last.
Varint[n \in Nat] ==
    IF n < 128 THEN <<n>> ELSE <<128 + (n % 128)>> \o Varint[n \div 128]

VarintSize(n) == 1 + Cardinality({k \in 1..3 : n >= 128^k})

Delimited(bytes) == Varint[Len(bytes)] \o bytes

-------------------------------------------------------------------------------
(* Sizes, as ByteSizeLong computes them. *)

DelimitedSize(n) == VarintSize(n) + n

PackedSize(ns) == FoldSeq(LAMBDA n, total : total + VarintSize(n), 0, ns)

\* The size of a field that is no message.
FieldSize(f, v) ==
    CASE f.kind = "bytes" -> IF v = <<>> THEN 0 ELSE 1 + DelimitedSize(Len(v))
      [] f.kind = "uint32" -> IF v = 0 THEN 0 ELSE 1 + VarintSize(v)
      [] f.kind = "bool" -> IF v THEN 2 ELSE 0
      [] f.kind = "optional" -> IF v = Absent THEN 0 ELSE 1 + VarintSize(v)
      [] f.kind = "repeated" ->
            FoldSeq(LAMBDA s, total : total + 1 + DelimitedSize(Len(s)), 0, v)
      [] f.kind = "packed" -> IF v = <<>> THEN 0 ELSE 1 + DelimitedSize(PackedSize(v))

PlainSize(codec, m) ==
    Len(m.unknown) + FoldSeq(LAMBDA f, total : total + FieldSize(f, m[f.name]), 0, codec)

\* Mutant of ByteSizeLong: the length of the header's length is taken to be one.
ByteSizeShort(codec, header, m) ==
    LET inner == SelectSeq(codec, LAMBDA f : f.kind # "message") IN
    PlainSize(inner, m) +
        (IF Len(inner) < Len(codec) /\ m.header # Absent
         THEN 2 + PlainSize(header, m.header) ELSE 0)

\* The only message inside of messages is the header.
ByteSizeLong(codec, header, m) ==
    LET inner == SelectSeq(codec, LAMBDA f : f.kind # "message") IN
    PlainSize(inner, m) +
        (IF Len(inner) < Len(codec) /\ m.header # Absent
         THEN 1 + DelimitedSize(PlainSize(header, m.header)) ELSE 0)

-------------------------------------------------------------------------------
(* Writing. *)

Written(f, v) ==
    CASE f.kind = "bytes" -> IF v = <<>> THEN <<>> ELSE <<Tag(f)>> \o Delimited(v)
      [] f.kind = "uint32" -> IF v = 0 THEN <<>> ELSE <<Tag(f)>> \o Varint[v]
      [] f.kind = "bool" -> IF v THEN <<Tag(f), 1>> ELSE <<>>
      [] f.kind = "optional" -> IF v = Absent THEN <<>> ELSE <<Tag(f)>> \o Varint[v]
      [] f.kind = "repeated" ->
            FlattenSeq([k \in DOMAIN v |-> <<Tag(f)>> \o Delimited(v[k])])
      [] f.kind = "packed" ->
            IF v = <<>> THEN <<>>
            ELSE <<Tag(f)>> \o Delimited(FlattenSeq([k \in DOMAIN v |-> Varint[v[k]]]))

PlainBody(codec, m) ==
    FlattenSeq([k \in DOMAIN codec |-> Written(codec[k], m[codec[k].name])]) \o m.unknown

\* The header is written with the size that ByteSizeLong has left in it.
InternalSerialize(codec, header, m, header_size) ==
    FlattenSeq([k \in DOMAIN codec |->
        LET v == m[codec[k].name] IN
        IF codec[k].kind # "message" THEN Written(codec[k], v)
        ELSE IF v = Absent THEN <<>>
        ELSE <<Tag(codec[k])>> \o Varint[header_size] \o PlainBody(header, v)]) \o m.unknown

-------------------------------------------------------------------------------
(* Reading.  Positions count from 1. *)

\* The last byte of the number at p, if there is one before end.
VarintEnds(wire, p, end) ==
    {k \in p..end : wire[k] < 128 /\ \A j \in p..(k - 1) : wire[j] >= 128}

VarintAt(wire, p, last) ==
    FoldFunctionOnSet(LAMBDA x, y : x + y, 0,
                      [k \in p..last |-> (wire[k] % 128) * 128^(k - p)], p..last)

\* The numbers of a packed field, whose last byte ends one.
Unpacked(bytes) ==
    LET ends == SetToSortSeq({k \in DOMAIN bytes : bytes[k] < 128}, <) IN
    [k \in DOMAIN ends |->
        VarintAt(bytes, IF k = 1 THEN 1 ELSE ends[k - 1] + 1, ends[k])]

\* A number that was read for a field of this kind, and bytes likewise.
WithNumber(f, m, n) ==
    [m EXCEPT ![f.name] =
        CASE f.kind = "bool" -> n # 0
          [] f.kind = "packed" -> Append(@, n)
          [] OTHER -> n]

WithBytes(f, m, bytes) ==
    [m EXCEPT ![f.name] =
        CASE f.kind = "bytes" -> bytes
          [] f.kind = "repeated" -> Append(@, bytes)
          [] f.kind = "packed" -> @ \o Unpacked(bytes)]

-------------------------------------------------------------------------------
(* Merging. *)

MergedField(f, v, w) ==
    CASE f.kind \in {"repeated", "packed"} -> v \o w
      [] f.kind = "bytes" -> IF w = <<>> THEN v ELSE w
      [] f.kind = "uint32" -> IF w = 0 THEN v ELSE w
      [] f.kind = "bool" -> v \/ w
      [] f.kind = "optional" -> IF w = Absent THEN v ELSE w

Merged(codec, name, v, w) ==
    IF name = "unknown" THEN v \o w
    ELSE MergedField(CHOOSE f \in ToSet(codec) : f.name = name, v, w)

PlainMerge(codec, m, from) ==
    [name \in DOMAIN m |-> Merged(codec, name, m[name], from[name])]

\* The headers are merged field by field when both are there.
MergeFrom(codec, header, m, from) ==
    [name \in DOMAIN m |->
        IF name # "header" THEN Merged(codec, name, m[name], from[name])
        ELSE IF from.header = Absent THEN m.header
        ELSE IF m.header = Absent THEN from.header
        ELSE PlainMerge(header, m.header, from.header)]
===============================================================================
