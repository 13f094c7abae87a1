------------------------------ MODULE Encoding ------------------------------
(***************************************************************************)
(* internal/encoding and the object IDs of bacnet/types.go: tags, the      *)
(* methods of Encoder and those of Decoder, as operators on octets.        *)
(*                                                                         *)
(* An Encoder is a record [bytes, err], a Decoder a record [buf, err].  A  *)
(* method of the Decoder returns [dec, val]: the decoder after the call    *)
(* and what the call stored through its pointer, or the zero value when it *)
(* stored nothing.  Errors are told apart as far as callers do.            *)
(*                                                                         *)
(* A uint32 is a natural number here; TLC can count to 2^31 - 1.           *)
(***************************************************************************)
EXTENDS Integers, Sequences

NoErr        == "no error"
IncorrectTag == "ErrorIncorrectTagID"
Failed       == "another error"
Panics       == "panic"

-----------------------------------------------------------------------------
(* Octets *)

Octet == 0..255

(* What four octets hold, said in numbers that TLC has. *)
Uint32 == {v \in Nat : v \div 16777216 < 256}

(* As if the conversion to a byte did not cut off the upper bits. *)
BigEndianUncut(v, n) == [i \in 1..n |-> v \div 256^(n - i)]

(* The last n octets of v, in two's complement, most significant first. *)
BigEndian(v, n) == [i \in 1..n |-> (v \div 256^(n - i)) % 256]

FromBigEndian(s) ==
  LET value[k \in 0..Len(s)] == IF k = 0 THEN 0 ELSE 256 * value[k - 1] + s[k]
  IN value[Len(s)]

-----------------------------------------------------------------------------
(* bytes.Buffer, as a reader.  One octet can be given back after a read,   *)
(* and no second one before the next read.                                 *)

NewBuffer(s) == [bytes |-> s, off |-> 0, canUnread |-> FALSE]

Cursor(b, off, canUnread) ==
  [bytes |-> b.bytes, off |-> off, canUnread |-> canUnread]

(* Reads an unsigned number of n > 0 octets.  A read that comes too late   *)
(* consumes what is left.                                                  *)
ReadUint(b, n) ==
  LET left == Len(b.bytes) - b.off IN
  IF n <= left
  THEN [ok  |-> TRUE,
        val |-> FromBigEndian(SubSeq(b.bytes, b.off + 1, b.off + n)),
        buf |-> Cursor(b, b.off + n, TRUE)]
  ELSE [ok  |-> FALSE,
        val |-> 0,
        buf |-> Cursor(b, Len(b.bytes), FALSE)]

(* As if the loop began at 1. *)
UnreadOneLess(b, n) ==
  [ok  |-> n <= 1 \/ (n = 2 /\ b.canUnread),
   buf |-> IF n > 1 /\ b.canUnread
           THEN Cursor(b, b.off - 1, FALSE) ELSE b]

(* Decoder.unread: n calls of UnreadByte, up to the first that fails. *)
Unread(b, n) ==
  [ok  |-> n = 0 \/ (n = 1 /\ b.canUnread),
   buf |-> IF n > 0 /\ b.canUnread
           THEN Cursor(b, b.off - 1, FALSE) ELSE b]

-----------------------------------------------------------------------------
(* Tags.  No caller sets both opening and closing, or a value with either. *)

Tag(id, context, value, opening, closing) ==
  [id |-> id, context |-> context, value |-> value,
   opening |-> opening, closing |-> closing]

AppTag(id, value)     == Tag(id, FALSE, value, FALSE, FALSE)
ContextTag(id, value) == Tag(id, TRUE, value, FALSE, FALSE)
OpeningTag(id)        == Tag(id, TRUE, 0, TRUE, FALSE)
(* As if the closing tag were a copy of the opening one. *)
ClosingTagOpens(id)   == Tag(id, TRUE, 0, TRUE, FALSE)
ClosingTag(id)        == Tag(id, TRUE, 0, FALSE, TRUE)

Flag16 == 254
Flag32 == 255

(* The upper bits of the first octet are the ID, or 15 if it follows; bit  *)
(* 3 says context; the lower three bits are the value, 5 if it follows, 6  *)
(* for opening, 7 for closing.                                             *)
LowBits(t) ==
  IF t.opening THEN 6 ELSE IF t.closing THEN 7
  ELSE IF t.value <= 4 THEN t.value ELSE 5
Meta(t) == LowBits(t) + IF t.context THEN 8 ELSE 0
IDOctets(t) ==
  IF t.id <= 14 THEN <<16 * t.id + Meta(t)>> ELSE <<240 + Meta(t), t.id>>

LengthOctets(v) ==
  IF v <= 4 THEN <<>>
  ELSE IF v < Flag16 THEN <<v>>
  ELSE IF v <= 65535 THEN <<Flag16>> \o BigEndian(v, 2)
  ELSE <<Flag32>> \o BigEndian(v, 4)

EncodeTag(t) == IDOctets(t) \o LengthOctets(t.value)

TagID(first) == IF first.val \div 16 = 15 THEN ReadUint(first.buf, 1)
                                          ELSE [first EXCEPT !.val = @ \div 16]

ExtendedValue(ext) ==
  IF ext.ok /\ ext.val = Flag16 THEN ReadUint(ext.buf, 2)
  ELSE IF ext.ok /\ ext.val = Flag32 THEN ReadUint(ext.buf, 4)
  ELSE ext

TagValue(low, id) ==
  IF low = 5 THEN ExtendedValue(ReadUint(id.buf, 1))
             ELSE [ok |-> id.ok, val |-> IF low < 5 THEN low ELSE 0, buf |-> id.buf]

TagWith(low, context, id, value, from) ==
  [ok  |-> value.ok,
   len |-> value.buf.off - from,
   tag |-> Tag(id, context, value.val, low = 6, low = 7),
   buf |-> value.buf]

TagBehind(octet, id, from) ==
  TagWith(octet % 8, (octet \div 8) % 2 = 1, id.val, TagValue(octet % 8, id), from)

TagFrom(first, from) == TagBehind(first.val, TagID(first), from)

(* Reads on from a failed read fail too, so only the last one is looked at. *)
DecodeTag(b) == TagFrom(ReadUint(b, 1), b.off)

-----------------------------------------------------------------------------
(* Values.  A Go value is [kind, num, str, obj]: num for the numbers and   *)
(* for bool; a float is the number whose octets are its representation.    *)

NoObject == [type |-> 0, instance |-> 0]
GoNum(kind, n) == [kind |-> kind, num |-> n, str |-> <<>>, obj |-> NoObject]
GoNil       == GoNum("nil", 0)
GoString(s) == [GoNum("string", 0) EXCEPT !.str = s]
GoObject(o) == [GoNum("ObjectID", 0) EXCEPT !.obj = o]

InstanceBits  == 22
TypeBits      == 10
MaxInstance   == 2^InstanceBits - 1
MaxObjectType == 2^TypeBits

(* In 32 bits, the type loses what does not fit above the instance. *)
ValidForEncode(o) == o.instance <= MaxInstance /\ o.type <= MaxObjectType
EncodeObjectID(o) == (o.type % 2^TypeBits) * 2^InstanceBits + o.instance
ObjectIDFromUint32(v) ==
  [type |-> v \div 2^InstanceBits, instance |-> v % 2^InstanceBits]
ObjectIDLength == (InstanceBits + TypeBits) \div 8

ValueLength(v) ==
  IF v < 256 THEN 1 ELSE IF v < 65536 THEN 2 ELSE IF v < 16777216 THEN 3 ELSE 4
Unsigned(v) == BigEndian(v, ValueLength(v))

SignedLength(v) ==
  IF v >= -128 /\ v < 128 THEN 1
  ELSE IF v >= -32768 /\ v < 32768 THEN 2
  ELSE IF v > -8388608 /\ v < 8388608 THEN 3 ELSE 4

(* As if the length of three octets had been forgotten. *)
DecodeUnsignedNo24(b, length) ==
  IF length \in {1, 2, 4} THEN ReadUint(b, length)
                          ELSE [ok |-> TRUE, val |-> 0, buf |-> b]

(* Lengths 0 and above 4 read nothing, and are no error. *)
DecodeUnsigned(b, length) ==
  IF length \in 1..4 THEN ReadUint(b, length)
                     ELSE [ok |-> TRUE, val |-> 0, buf |-> b]

-----------------------------------------------------------------------------
(* Encoder *)

NewEncoder == [bytes |-> <<>>, err |-> NoErr]

Write(e, s) == [bytes |-> e.bytes \o s, err |-> e.err]
WriteIfNoErr(e, s) == IF e.err = NoErr THEN Write(e, s) ELSE e

ContextUnsigned(e, id, v) ==
  WriteIfNoErr(e, EncodeTag(ContextTag(id, ValueLength(v))) \o Unsigned(v))

ContextSigned(e, id, v) ==
  WriteIfNoErr(e, EncodeTag(ContextTag(id, SignedLength(v)))
                    \o BigEndian(v, SignedLength(v)))

WriteObjectID(e, t, o) ==
  LET tagged == Write(e, EncodeTag(t)) IN
  IF e.err # NoErr THEN e
  ELSE IF ~ValidForEncode(o) THEN [tagged EXCEPT !.err = Failed]
  ELSE Write(tagged, BigEndian(EncodeObjectID(o), ObjectIDLength))

ContextObjectID(e, id, o) == WriteObjectID(e, ContextTag(id, ObjectIDLength), o)

EncodeAppData(e, v) ==
  LET Tagged(id, s) == WriteIfNoErr(e, EncodeTag(AppTag(id, Len(s))) \o s) IN
  CASE v.kind = "nil"      -> Tagged(0, <<>>)
    [] v.kind = "uint32"   -> Tagged(2, Unsigned(v.num))
    [] v.kind = "float32"  -> Tagged(4, BigEndian(v.num, 4))
    [] v.kind = "string"   -> Tagged(7, <<0>> \o v.str)
    [] v.kind = "SegmentationSupport" -> Tagged(9, Unsigned(v.num))
    [] v.kind = "ObjectID" -> WriteObjectID(e, AppTag(12, ObjectIDLength), v.obj)
    [] OTHER -> IF e.err = NoErr THEN [e EXCEPT !.err = Failed] ELSE e

(* ContextAsbtractType, for a bacnet.PropertyValue [type, value].  A value *)
(* of the wrong Go type is an error that it returns instead of storing it; *)
(* for some types nothing is written between the tags.  Not all methods it *)
(* calls look at the error of the encoder, and neither does it.            *)
KindOfType == [t \in {1, 2, 3, 4, 5, 9} |->
  CASE t = 1 -> "bool" [] t = 3 -> "int32" [] t \in {4, 5} -> "float32"
    [] t \in {2, 9} -> "uint32"]

AbstractTypeOK(pv) ==
  /\ pv.type \in 0..12
  /\ pv.type \in DOMAIN KindOfType => pv.value.kind = KindOfType[pv.type]

ContextAbstractType(e, id, pv) ==
  LET open == Write(e, EncodeTag(OpeningTag(id)))
      n    == pv.value.num
      Tagged(value, s) == Write(open, EncodeTag(AppTag(pv.type, value)) \o s)
      body == CASE pv.type = 0 -> Tagged(1, <<>>)
                [] pv.type = 1 -> Tagged(n, <<>>)
                [] pv.type = 2 -> ContextUnsigned(open, 2, n)
                [] pv.type = 3 -> ContextSigned(open, 3, n)
                [] pv.type = 4 -> Tagged(4, BigEndian(n, 4))
                [] pv.type = 5 -> Tagged(8, BigEndian(n, 4))
                [] pv.type = 9 -> IF e.err = NoErr
                                  THEN Tagged(ValueLength(n), Unsigned(n)) ELSE open
                [] OTHER -> open
  IN Write(body, EncodeTag(ClosingTag(id)))

-----------------------------------------------------------------------------
(* Decoder *)

NewDecoder(s) == [buf |-> NewBuffer(s), err |-> NoErr]
ResetError(d) == [d EXCEPT !.err = NoErr]

Result(b, e, v) == [dec |-> [buf |-> b, err |-> e], val |-> v]

(* The beginning of ContextValue and ContextObjectID: the tag is read, and *)
(* given back if it has another ID.                                        *)
IfTag(r, id, zero, Value(_)) ==
  LET back == Unread(r.buf, r.len)
  IN IF ~r.ok THEN Result(r.buf, Failed, zero)
     ELSE IF r.tag.id # id
          THEN Result(back.buf, IF back.ok THEN IncorrectTag ELSE Failed, zero)
     ELSE Value(r)

ExpectTag(d, id, zero, Value(_)) ==
  IF d.err # NoErr THEN Result(d.buf, d.err, zero)
  ELSE IfTag(DecodeTag(d.buf), id, zero, Value)

(* A tag that is not contextual is an error, but the value is stored. *)
ContextValue(d, id) ==
  LET Value(r) == LET n == DecodeUnsigned(r.buf, r.tag.value) IN
        Result(n.buf, IF n.ok /\ r.tag.context THEN NoErr ELSE Failed, n.val)
  IN ExpectTag(d, id, 0, Value)

(* The length in the tag is not looked at, nor is the error of the read. *)
DecodeObjectID(d, id) ==
  LET Value(r) == LET w == ReadUint(r.buf, ObjectIDLength) IN
        IF r.tag.context THEN Result(w.buf, NoErr, ObjectIDFromUint32(w.val))
                         ELSE Result(r.buf, Failed, NoObject)
  IN ExpectTag(d, id, NoObject, Value)

(* A string begins with its encoding; only UTF-8 (0) is known.  The slice  *)
(* for the rest has one octet less than the tag says: none is a panic.     *)
DecodeString(b, length) ==
  LET enc  == ReadUint(b, 1)
      read == length - 1
      end  == enc.buf.off + read
  IN IF ~enc.ok \/ enc.val # 0 THEN [err |-> Failed, val |-> GoNil, buf |-> enc.buf]
     ELSE IF read < 0 THEN [err |-> Panics, val |-> GoNil, buf |-> enc.buf]
     ELSE IF end > Len(b.bytes)
          THEN [err |-> Failed, val |-> GoNil,
                buf |-> Cursor(b, Len(b.bytes), TRUE)]
     ELSE [err |-> NoErr,
           val |-> GoString(SubSeq(b.bytes, enc.buf.off + 1, end)),
           buf |-> Cursor(b, end, TRUE)]

(* What AppData finds behind an application tag. *)
Content(t, b) ==
  LET Read(r, v) == [err |-> IF r.ok THEN NoErr ELSE Failed, val |-> v, buf |-> r.buf]
      n == DecodeUnsigned(b, t.value)
      w == ReadUint(b, ObjectIDLength)
      f == ReadUint(b, 4)
  IN CASE t.id = 0  -> [err |-> NoErr, val |-> GoNil, buf |-> b]
       [] t.id = 1  -> [err |-> NoErr, buf |-> b,
                        val |-> GoNum("bool", IF t.value # 0 THEN 1 ELSE 0)]
       [] t.id \in {2, 9} -> Read(n, GoNum("uint32", n.val))
       [] t.id = 4  -> Read(f, GoNum("float32", f.val))
       [] t.id = 7  -> DecodeString(b, t.value)
       [] t.id = 12 -> Read(w, GoObject(ObjectIDFromUint32(w.val)))
       [] OTHER     -> [err |-> Failed, val |-> GoNil, buf |-> b]

(* The Go types a value behind tag id can be stored in, "any" being the    *)
(* empty interface; an enumeration is cut to the width of its type.        *)
Widths == [SegmentationSupport |-> 256, ErrorClass |-> 65536]
Enumerations == {"SegmentationSupport", "ErrorClass", "ErrorCode"}

Fits(id, v, target) ==
  \/ target = "any"
  \/ id = 0
  \/ id = 9 /\ target \in Enumerations
  \/ id # 9 /\ v.kind = target

StoredIn(v, target) ==
  IF target \notin Enumerations \/ v.kind = "nil" THEN v
  ELSE GoNum(target, IF target = "ErrorCode" THEN v.num ELSE v.num % Widths[target])

(* A mismatched type is an error where the code looks for it.  It does not *)
(* for a bool, and for an unsigned number only at the kind of the target,  *)
(* which the enumerations share: what cannot be assigned is a panic.       *)
Unassignable(id, target) == id = 1 \/ (id = 2 /\ target \in Enumerations)

Store(id, c, target) ==
  IF c.err # NoErr THEN Result(c.buf, c.err, GoNil)
  ELSE IF Fits(id, c.val, target)
       THEN Result(c.buf, NoErr, StoredIn(c.val, target))
  ELSE Result(c.buf, IF Unassignable(id, target) THEN Panics ELSE Failed, GoNil)

AppDataBehind(r, target) ==
  IF ~r.ok \/ r.tag.context THEN Result(r.buf, Failed, GoNil)
  ELSE Store(r.tag.id, Content(r.tag, r.buf), target)

DecodeAppData(d, target) ==
  IF d.err # NoErr THEN Result(d.buf, d.err, GoNil)
  ELSE AppDataBehind(DecodeTag(d.buf), target)

(* Once the value has been read it is stored, whatever comes behind it. *)
CloseAbstract(close, id, v) ==
  IF ~close.ok \/ ~close.tag.closing THEN Result(close.buf, Failed, v)
  ELSE Result(close.buf, IF close.tag.id # id THEN IncorrectTag ELSE NoErr, v)

AbstractValue(v, id) ==
  IF v.dec.err # NoErr THEN v ELSE CloseAbstract(DecodeTag(v.dec.buf), id, v.val)

OpenAbstract(open, id) ==
  IF ~open.ok \/ ~open.tag.opening THEN Result(open.buf, Failed, GoNil)
  ELSE IF open.tag.id # id THEN Result(open.buf, IncorrectTag, GoNil)
  ELSE AbstractValue(DecodeAppData([buf |-> open.buf, err |-> NoErr], "any"), id)

DecodeAbstractType(d, id) ==
  IF d.err # NoErr THEN Result(d.buf, d.err, GoNil)
  ELSE OpenAbstract(DecodeTag(d.buf), id)
=============================================================================
