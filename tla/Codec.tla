------------------------------- MODULE Codec --------------------------------
(***************************************************************************)
(* An Encoder and a Decoder at work: values are written one after the      *)
(* other by any methods of the Encoder, and read back in their order, as   *)
(* the Marshal and Unmarshal methods of bacip/services.go do it.  Before   *)
(* it reads the next value a reader may try for optional ones that are not *)
(* there, with ResetError after each miss.                                 *)
(*                                                                         *)
(* An item is what one call writes: its method and tag ID (0 where the     *)
(* method takes none), the type of a PropertyValue (0 if it is none), the  *)
(* Go value, and the Go type of the variable it is read into.              *)
(***************************************************************************)
EXTENDS Encoding

CONSTANTS Items,      \* the items a writer chooses from
          MaxItems,   \* bound on the items written
          OtherIDs    \* the IDs of optional values that were not written

(* The items that have a reader: any numbers, texts and object IDs of the   *)
(* types that are both written and read.  An object type above the maximum *)
(* is refused, and the maximum itself, one too many, is not read back.  Of *)
(* the types of a PropertyValue, 2 and 3 get a tag that AppData does not   *)
(* read, as 5 does, and behind the others nothing is written.              *)
Numbers(kind, range) ==
  [kind : {kind}, num : range, str : {<<>>}, obj : {NoObject}]
Texts == [kind : {"string"}, num : {0}, obj : {NoObject},
          str : {s \in Seq(Octet) : Len(s) + 1 \in Uint32}]
ObjectIDs == [kind : {"ObjectID"}, num : {0}, str : {<<>>},
              obj : [type : Uint32 \ {MaxObjectType}, instance : Uint32]]

ItemsOf(method, ids, types, values, targets) ==
  [method : {method}, id : ids, type : types, value : values, target : targets]
AppDataOf(values, kind) == ItemsOf("AppData", {0}, {0}, values, {kind, "any"})
PropertyOf(type, values) == ItemsOf("ContextAbstractType", Octet, {type}, values, {"any"})

ASSUME ItemsAssumption ==
  \A it \in Items :
    \/ it \in ItemsOf("ContextUnsigned", Octet, {0}, Numbers("uint32", Uint32), {"uint32"})
    \/ it \in ItemsOf("ContextObjectID", Octet, {0}, ObjectIDs, {"ObjectID"})
    \/ it \in AppDataOf({GoNil}, "any")
    \/ it \in AppDataOf(Numbers("uint32", Uint32), "uint32")
    \/ it \in AppDataOf(Numbers("float32", Uint32), "float32")
    \/ it \in AppDataOf(Numbers("SegmentationSupport", Octet), "SegmentationSupport")
    \/ it \in AppDataOf(Texts, "string")
    \/ it \in AppDataOf(ObjectIDs, "ObjectID")
    \/ it \in PropertyOf(0, {GoNil})
    \/ it \in PropertyOf(1, Numbers("bool", {0, 1}))
    \/ it \in PropertyOf(4, Numbers("float32", Uint32))
    \/ it \in PropertyOf(9, Numbers("uint32", Uint32))

VARIABLES enc,      \* the Encoder
          dec,      \* the Decoder
          stage,    \* "writing" or "reading"
          written,  \* the items written so far
          read      \* the values read so far

vars == <<enc, dec, stage, written, read>>

-----------------------------------------------------------------------------

Encode(e, it) ==
  CASE it.method = "ContextUnsigned" -> ContextUnsigned(e, it.id, it.value.num)
    [] it.method = "ContextObjectID" -> ContextObjectID(e, it.id, it.value.obj)
    [] it.method = "AppData"         -> EncodeAppData(e, it.value)
    [] OTHER ->
         ContextAbstractType(e, it.id, [type |-> it.type, value |-> it.value])

(* The call that reads item it, and the value it stores. *)
Decode(d, it) ==
  LET n == ContextValue(d, it.id)
      o == DecodeObjectID(d, it.id)
  IN CASE it.method = "ContextUnsigned" -> [dec |-> n.dec, val |-> GoNum("uint32", n.val)]
       [] it.method = "ContextObjectID" -> [dec |-> o.dec, val |-> GoObject(o.val)]
       [] it.method = "AppData"         -> DecodeAppData(d, it.target)
       [] OTHER                         -> DecodeAbstractType(d, it.id)

(* An empty interface gets an enumeration as a plain number. *)
AsRead(it) ==
  IF it.target = "any" /\ it.value.kind \in Enumerations
  THEN GoNum("uint32", it.value.num) ELSE it.value

-----------------------------------------------------------------------------

Init ==
  /\ enc = NewEncoder
  /\ dec = NewDecoder(<<>>)
  /\ stage = "writing"
  /\ written = <<>>
  /\ read = <<>>

(* The error of the Encoder is looked at when all is written. *)
WriteItem(it) ==
  /\ stage = "writing" /\ Len(written) < MaxItems
  /\ enc' = Encode(enc, it)
  /\ written' = Append(written, it)
  /\ UNCHANGED <<dec, stage, read>>

Transfer ==
  /\ stage = "writing" /\ enc.err = NoErr
  /\ stage' = "reading"
  /\ dec' = NewDecoder(enc.bytes)
  /\ UNCHANGED <<enc, written, read>>

ReadItem ==
  /\ stage = "reading" /\ dec.err = NoErr /\ Len(read) < Len(written)
  /\ LET r == Decode(dec, written[Len(read) + 1]) IN
       /\ dec' = r.dec
       /\ read' = IF r.dec.err = NoErr THEN Append(read, r.val) ELSE read
  /\ UNCHANGED <<enc, stage, written>>

(* The next tag of an item, as it is on the wire. *)
FirstTag(it) == DecodeTag(NewBuffer(Encode(NewEncoder, it).bytes))

(* A call for an optional value that is not there; the calls behind it are *)
(* made all the same, and do nothing.                                      *)
TryOptional(id) ==
  /\ stage = "reading" /\ Len(read) < Len(written)
  /\ FirstTag(written[Len(read) + 1]).tag.id # id
  /\ \/ dec' = ContextValue(dec, id).dec
     \/ dec' = DecodeObjectID(dec, id).dec
  /\ UNCHANGED <<enc, stage, written, read>>

Recover ==
  /\ stage = "reading" /\ dec.err = IncorrectTag
  /\ dec' = ResetError(dec)
  /\ UNCHANGED <<enc, stage, written, read>>

Next ==
  \/ \E it \in Items : WriteItem(it)
  \/ Transfer
  \/ ReadItem
  \/ \E id \in OtherIDs : TryOptional(id)
  \/ Recover

Spec == Init /\ [][Next]_vars

-----------------------------------------------------------------------------
(* Properties *)

(* Every variable has its type: what is written are octets, the cursor     *)
(* stays in the buffer, nothing that was written makes the Decoder panic,  *)
(* and no more is read than was written.                                   *)
CodecTypeOK ==
  /\ enc.bytes \in Seq(Octet) /\ enc.err \in {NoErr, Failed}
  /\ dec.buf.bytes \in Seq(Octet) /\ dec.buf.off \in 0..Len(dec.buf.bytes)
  /\ dec.err \in {NoErr, IncorrectTag, Failed}
  /\ written \in Seq(Items) /\ Len(read) <= Len(written)

(* What is read back is what was written, value by value, over every       *)
(* length of value and tag (encoding.go:366 against decoding.go:293, and   *)
(* tag.go:68 against tag.go:110), and whatever optional values the reader  *)
(* tried for in between.                                                   *)
RoundTrip == \A i \in DOMAIN read : read[i] = AsRead(written[i])

(* A call that finds an incorrect tag, and a call made while the error of  *)
(* an earlier one is set, leave the cursor where it was (decoding.go:50    *)
(* and 14), so that the next call reads the same tag.                      *)
CursorKept ==
  [][stage = "reading" /\ (dec.err # NoErr \/ dec'.err = IncorrectTag)
       => dec'.buf.off = dec.buf.off]_vars

(* A reader that tries for optional values, and recovers after each, can   *)
(* go on, unless the tag it met has more than one octet (decoding.go:38).  *)
StuckOnLongTagOnly ==
  dec.err \in {NoErr, IncorrectTag}
    \/ FirstTag(written[Len(read) + 1]).len > 1

=============================================================================
