----------------------------- MODULE CodecProofs ------------------------------
(***************************************************************************)
(* Theorems about module Codec, for every set of items that have a reader: *)
(* any numbers, texts and object IDs, any IDs of tags, any number of them. *)
(***************************************************************************)
EXTENDS Codec, EncodingProofs

----------------------------------------------------------------------------
(***************************************************************************)
(* What an item writes, and what is read at its octets.                    *)
(***************************************************************************)
\* Item it is written as the octets x.
WrittenAs(it, x) ==
  \A e \in Encoders : e.err = NoErr => Encode(e, it) = Write(e, x)

\* It is read back from them.
ReadFrom(it, x) ==
  \A b : At(b, x) => Decode(Fresh(b), it) = Result(Behind(b, Len(x)), NoErr, AsRead(it))

\* The octets of an item are a tag t, and s behind it.
Carries(it, t, s) ==
  /\ t \in Tags /\ s \in Seq(Octet)
  /\ WrittenAs(it, EncodeTag(t) \o s)
  /\ ReadFrom(it, EncodeTag(t) \o s)

\* Item it has a value that the encoder does not take.
Refused(it) ==
  \A e \in Encoders : e.err = NoErr => Encode(e, it) \in Encoders /\ Encode(e, it).err = Failed

LEMMA UnsignedCarried ==
  ASSUME NEW it \in ItemsOf("ContextUnsigned", Octet, {0}, Numbers("uint32", Uint32), {"uint32"})
  PROVE  Carries(it, ContextTag(it.id, ValueLength(it.value.num)), Unsigned(it.value.num))
<1> DEFINE v == it.value.num
           t == ContextTag(it.id, ValueLength(v))
           s == Unsigned(v)
<1>1. /\ it.method = "ContextUnsigned" /\ it.id \in Octet /\ v \in Uint32
      /\ it.value = GoNum("uint32", v) /\ it.target = "uint32"
  BY DEF ItemsOf, Numbers, GoNum
<1>2. t \in Tags /\ s \in Seq(Octet)
  BY <1>1, TagsBuilt, LengthOfValue, UnsignedType
<1>3. EncodeTag(t) \o s \in Seq(Octet)
  BY <1>2, TagType, ConcatProperties
<1>4. ASSUME NEW e \in Encoders, e.err = NoErr
      PROVE  Encode(e, it) = Write(e, EncodeTag(t) \o s)
  <2>1. Encode(e, it) = WriteIfNoErr(e, EncodeTag(t) \o s)
    BY <1>1 DEF Encode, ContextUnsigned
  <2> QED
    BY <1>3, <1>4, <2>1, WriteFacts
<1>5. AsRead(it) = GoNum("uint32", v)
  BY <1>1 DEF AsRead
<1>6. ASSUME NEW b, At(b, EncodeTag(t) \o s)
      PROVE  Decode(Fresh(b), it) =
               Result(Behind(b, Len(EncodeTag(t) \o s)), NoErr, AsRead(it))
  <2>1. ContextValue(Fresh(b), it.id) = Result(Behind(b, Len(EncodeTag(t) \o s)), NoErr, v)
    BY <1>1, <1>6, ContextValueAt
  <2>2. Decode(Fresh(b), it) = [dec |-> ContextValue(Fresh(b), it.id).dec,
                                val |-> GoNum("uint32", ContextValue(Fresh(b), it.id).val)]
    BY <1>1 DEF Decode
  <2> QED
    BY <1>5, <2>1, <2>2 DEF Result
<1> QED
  BY <1>2, <1>4, <1>6 DEF Carries, WrittenAs, ReadFrom

LEMMA ObjectIDCarried ==
  ASSUME NEW it \in ItemsOf("ContextObjectID", Octet, {0}, ObjectIDs, {"ObjectID"})
  PROVE  \/ Carries(it, ContextTag(it.id, ObjectIDLength), ObjectOctets(it.value.obj))
         \/ Refused(it)
<1> DEFINE o == it.value.obj
           t == ContextTag(it.id, ObjectIDLength)
           s == ObjectOctets(o)
<1>1. /\ it.method = "ContextObjectID" /\ it.id \in Octet
      /\ o \in [type : Uint32 \ {MaxObjectType}, instance : Uint32]
      /\ it.value = GoObject(o) /\ it.target = "ObjectID"
  BY DEF ItemsOf, ObjectIDs, GoObject, GoNum
<1>2. t \in Tags /\ EncodeTag(t) \in Seq(Octet)
  BY <1>1, TagsBuilt, TagType, FourOctets
<1>3. AsRead(it) = GoObject(o)
  BY <1>1 DEF AsRead
<1>4. CASE ValidForEncode(o)
  <2>1. ValidObject(o) /\ s \in Seq(Octet)
    BY <1>1, <1>4, Objects, ObjectOctetsType
  <2>2. ASSUME NEW e \in Encoders, e.err = NoErr
        PROVE  Encode(e, it) = Write(e, EncodeTag(t) \o s)
    <3>1. Encode(e, it) = Write(Write(e, EncodeTag(t)), s)
      BY <1>1, <1>4, <2>2 DEF Encode, ContextObjectID, WriteObjectID, ObjectOctets
    <3> QED
      BY <1>2, <2>1, <3>1, WriteTwice
  <2>3. ASSUME NEW b, At(b, EncodeTag(t) \o s)
        PROVE  Decode(Fresh(b), it) =
                 Result(Behind(b, Len(EncodeTag(t) \o s)), NoErr, AsRead(it))
    <3> DEFINE x == EncodeTag(t) \o s
               id == it.id
    <3>1. DecodeObjectID(Fresh(b), id) = Result(Behind(b, Len(x)), NoErr, o)
      BY <1>1, <2>1, <2>3, ObjectIDAt
    <3> HIDE DEF o, x, id
    <3>2. Decode(Fresh(b), it) = [dec |-> DecodeObjectID(Fresh(b), id).dec,
                                  val |-> GoObject(DecodeObjectID(Fresh(b), id).val)]
      BY <1>1 DEF Decode, id
    <3>3. Decode(Fresh(b), it) = Result(Behind(b, Len(x)), NoErr, AsRead(it))
      BY <1>3, <3>1, <3>2 DEF Result
    <3> QED
      BY <3>3 DEF x
  <2> QED
    BY <1>2, <2>1, <2>2, <2>3 DEF Carries, WrittenAs, ReadFrom
<1>5. ASSUME ~ValidForEncode(o), NEW e \in Encoders, e.err = NoErr
      PROVE  Encode(e, it) \in Encoders /\ Encode(e, it).err = Failed
  <2>1. Encode(e, it) = [Write(e, EncodeTag(t)) EXCEPT !.err = Failed]
    BY <1>1, <1>5 DEF Encode, ContextObjectID, WriteObjectID
  <2>2. Write(e, EncodeTag(t)) \in Encoders
    BY <1>2, WriteFacts
  <2> QED
    BY <2>1, <2>2 DEF Encoders
<1> QED
  BY <1>4, <1>5 DEF Refused

\* The value w found behind tag id goes into the variable it was read for.
Storable(id, w, it) ==
  \A b : Store(id, Holding(w, b), it.target) = Result(b, NoErr, AsRead(it))

\* What AppData writes as one tag and its octets is carried if it is found
\* there and can be stored.
LEMMA TaggedCarried ==
  ASSUME NEW it, it.method = "AppData", NEW id \in Octet, NEW v \in Uint32,
         NEW s \in Seq(Octet), NEW w, Holds(id, v, s, w), Storable(id, w, it),
         WrittenAs(it, EncodeTag(AppTag(id, v)) \o s)
  PROVE  Carries(it, AppTag(id, v), s)
<1> DEFINE x == EncodeTag(AppTag(id, v)) \o s
<1>1. AppTag(id, v) \in Tags
  BY TagsBuilt
<1>2. ASSUME NEW b, At(b, x)
      PROVE  Decode(Fresh(b), it) = Result(Behind(b, Len(x)), NoErr, AsRead(it))
  <2>1. DecodeAppData(Fresh(b), it.target) =
          Store(id, Holding(w, Behind(b, Len(x))), it.target)
    BY <1>2, ValueAt
  <2> HIDE DEF x
  <2>2. Decode(Fresh(b), it) = DecodeAppData(Fresh(b), it.target)
    BY DEF Decode
  <2> QED
    BY <2>1, <2>2, Zenon DEF Storable
<1> QED
  BY <1>1, <1>2 DEF Carries, ReadFrom

\* And so is a value between an opening and a closing tag.
LEMMA PropertyCarried ==
  ASSUME NEW it, it.method = "ContextAbstractType", it.id \in Octet, it.type \in Octet,
         NEW v \in Uint32, NEW s \in Seq(Octet), Holds(it.type, v, s, AsRead(it)),
         WrittenAs(it, EncodeTag(OpeningTag(it.id))
                         \o ((EncodeTag(AppTag(it.type, v)) \o s)
                               \o EncodeTag(ClosingTag(it.id))))
  PROVE  Carries(it, OpeningTag(it.id),
                 (EncodeTag(AppTag(it.type, v)) \o s) \o EncodeTag(ClosingTag(it.id)))
<1> DEFINE id == it.id
           type == it.type
           open == EncodeTag(OpeningTag(id))
           body == EncodeTag(AppTag(type, v)) \o s
           close == EncodeTag(ClosingTag(id))
           x == open \o (body \o close)
<1>0. id \in Octet /\ type \in Octet /\ it.id = id /\ it.type = type
  OBVIOUS
<1> HIDE DEF id, type
<1>1. OpeningTag(id) \in Tags /\ body \o close \in Seq(Octet)
  BY <1>0, TagsBuilt, TagType, ConcatProperties
<1>2. x = PropertyOctets(id, type, v, s)
  BY DEF PropertyOctets
<1>3. ASSUME NEW b, At(b, x)
      PROVE  Decode(Fresh(b), it) = Result(Behind(b, Len(x)), NoErr, AsRead(it))
  <2> DEFINE w == AsRead(it)
  <2>1. Holds(type, v, s, w)
    BY <1>0
  <2> HIDE DEF w, x
  <2>2. DecodeAbstractType(Fresh(b), id) = Result(Behind(b, Len(x)), NoErr, w)
    BY <1>0, <1>2, <1>3, <2>1, PropertyAt
  <2>3. Decode(Fresh(b), it) = DecodeAbstractType(Fresh(b), id)
    BY <1>0 DEF Decode
  <2> QED
    BY <2>2, <2>3, Zenon DEF w
<1> QED
  BY <1>0, <1>1, <1>3 DEF Carries, ReadFrom

----------------------------------------------------------------------------
(***************************************************************************)
(* Every item that has a reader is carried, or its object ID refused.      *)
(***************************************************************************)
LEMMA AppWritten ==
  ASSUME NEW it, it.method = "AppData", NEW x \in Seq(Octet),
         \A e \in Encoders : EncodeAppData(e, it.value) = WriteIfNoErr(e, x)
  PROVE  WrittenAs(it, x)
<1> SUFFICES ASSUME NEW e \in Encoders, e.err = NoErr
             PROVE  Encode(e, it) = Write(e, x)
  BY DEF WrittenAs
<1>1. Encode(e, it) = WriteIfNoErr(e, x)
  BY DEF Encode
<1> QED
  BY <1>1, WriteFacts

LEMMA AppNil ==
  ASSUME NEW it \in AppDataOf({GoNil}, "any")
  PROVE  Carries(it, AppTag(0, 0), <<>>)
<1>1. /\ it.method = "AppData" /\ it.value = GoNil /\ it.target = "any"
  BY DEF AppDataOf, ItemsOf
<1>2. 0 \in Octet /\ 0 \in Uint32 /\ <<>> \in Seq(Octet) /\ Len(<<>>) = 0
  BY OctetRange DEF Uint32
<1>3. EncodeTag(AppTag(0, 0)) \o <<>> \in Seq(Octet)
  BY <1>2, TagsBuilt, TagType, ConcatProperties
<1>4. \A e \in Encoders : EncodeAppData(e, it.value) =
                            WriteIfNoErr(e, EncodeTag(AppTag(0, 0)) \o <<>>)
  BY <1>1, <1>2 DEF EncodeAppData, GoNil, GoNum
<1>5. WrittenAs(it, EncodeTag(AppTag(0, 0)) \o <<>>)
  BY <1>1, <1>3, <1>4, AppWritten
<1>6. Holds(0, 0, <<>>, GoNil)
  BY <1>2 DEF Holds, Holding, Content, AppTag, Tag
<1>7. Storable(0, GoNil, it)
  BY <1>1 DEF Storable, Holding, Store, Fits, StoredIn, AsRead, GoNil, GoNum, Enumerations
<1> QED
  BY <1>1, <1>2, <1>5, <1>6, <1>7, TaggedCarried

LEMMA AppUnsigned ==
  ASSUME NEW it \in AppDataOf(Numbers("uint32", Uint32), "uint32")
  PROVE  Carries(it, AppTag(2, ValueLength(it.value.num)), Unsigned(it.value.num))
<1> DEFINE n == it.value.num
           x == EncodeTag(AppTag(2, ValueLength(n))) \o Unsigned(n)
<1>1. /\ it.method = "AppData" /\ it.value = GoNum("uint32", n) /\ n \in Uint32
      /\ it.target = "uint32" \/ it.target = "any"
  BY DEF AppDataOf, ItemsOf, Numbers, GoNum
<1>2. /\ 2 \in Octet /\ ValueLength(n) \in Uint32 /\ Unsigned(n) \in Seq(Octet)
      /\ Len(Unsigned(n)) = ValueLength(n)
  <2>1. 2 \in Octet
    BY OctetRange
  <2> HIDE DEF n
  <2> QED
    BY <1>1, <2>1, LengthOfValue, UnsignedType
<1>3. x \in Seq(Octet)
  BY <1>2, TagsBuilt, TagType, ConcatProperties
<1>4. \A e \in Encoders : EncodeAppData(e, it.value) = WriteIfNoErr(e, x)
  BY <1>1, <1>2 DEF EncodeAppData, GoNum
<1>5. WrittenAs(it, x)
  BY <1>1, <1>3, <1>4, AppWritten
<1>6. Holds(2, ValueLength(n), Unsigned(n), GoNum("uint32", n))
  BY <1>1, UnsignedContentAt DEF Holds, Holding
<1>7. Storable(2, GoNum("uint32", n), it)
  BY <1>1 DEF Storable, Holding, Store, Fits, StoredIn, AsRead, GoNum, Enumerations
<1> QED
  BY <1>1, <1>2, <1>5, <1>6, <1>7, TaggedCarried

LEMMA AppFloat ==
  ASSUME NEW it \in AppDataOf(Numbers("float32", Uint32), "float32")
  PROVE  Carries(it, AppTag(4, 4), BigEndian(it.value.num, 4))
<1> DEFINE n == it.value.num
           s == BigEndian(n, 4)
           x == EncodeTag(AppTag(4, 4)) \o s
<1>1. /\ it.method = "AppData" /\ it.value = GoNum("float32", n) /\ n \in Uint32
      /\ it.target = "float32" \/ it.target = "any"
  BY DEF AppDataOf, ItemsOf, Numbers, GoNum
<1>2. 4 \in Octet /\ 4 \in Uint32 /\ s \in Seq(Octet) /\ Len(s) = 4
  <2>1. 4 \in Octet /\ 4 \in 1..4
    BY OctetRange
  <2> HIDE DEF n
  <2>2. n \in Nat /\ 4 \in Uint32
    BY <1>1, LengthOfValue
  <2> QED
    BY <2>1, <2>2, BigEndianType
<1>3. x \in Seq(Octet)
  BY <1>2, TagsBuilt, TagType, ConcatProperties
<1>4. \A e \in Encoders : EncodeAppData(e, it.value) = WriteIfNoErr(e, x)
  <2>1. it.value.kind = "float32"
    BY <1>1 DEF GoNum
  <2> HIDE DEF n
  <2>2. \A e : EncodeAppData(e, it.value) = WriteIfNoErr(e, EncodeTag(AppTag(4, Len(s))) \o s)
    BY <2>1 DEF EncodeAppData, n
  <2> HIDE DEF s
  <2> QED
    BY <1>2, <2>2
<1>5. WrittenAs(it, x)
  BY <1>1, <1>3, <1>4, AppWritten
<1>6. Holds(4, 4, s, GoNum("float32", n))
  BY <1>1, <1>2, FloatContentAt DEF Holds, Holding
<1>7. Storable(4, GoNum("float32", n), it)
  BY <1>1 DEF Storable, Holding, Store, Fits, StoredIn, AsRead, GoNum, Enumerations
<1> QED
  BY <1>1, <1>2, <1>5, <1>6, <1>7, TaggedCarried

LEMMA AppSegmentation ==
  ASSUME NEW it \in AppDataOf(Numbers("SegmentationSupport", Octet), "SegmentationSupport")
  PROVE  Carries(it, AppTag(9, ValueLength(it.value.num)), Unsigned(it.value.num))
<1> DEFINE n == it.value.num
           x == EncodeTag(AppTag(9, ValueLength(n))) \o Unsigned(n)
<1>1. /\ it.method = "AppData" /\ it.value = GoNum("SegmentationSupport", n) /\ n \in Octet
      /\ it.target = "SegmentationSupport" \/ it.target = "any"
  BY DEF AppDataOf, ItemsOf, Numbers, GoNum
<1>2. n \in Uint32 /\ n % 256 = n
  <2>1. n \in Nat /\ n < 256
    BY <1>1, OctetRange
  <2> HIDE DEF n
  <2> QED
    BY <2>1 DEF Uint32
<1>3. /\ 9 \in Octet /\ ValueLength(n) \in Uint32 /\ Unsigned(n) \in Seq(Octet)
      /\ Len(Unsigned(n)) = ValueLength(n)
  <2>1. 9 \in Octet
    BY OctetRange
  <2> HIDE DEF n
  <2> QED
    BY <1>2, <2>1, LengthOfValue, UnsignedType
<1>4. x \in Seq(Octet)
  BY <1>3, TagsBuilt, TagType, ConcatProperties
<1>5. \A e \in Encoders : EncodeAppData(e, it.value) = WriteIfNoErr(e, x)
  BY <1>1, <1>3 DEF EncodeAppData, GoNum
<1>6. WrittenAs(it, x)
  BY <1>1, <1>4, <1>5, AppWritten
<1>7. Holds(9, ValueLength(n), Unsigned(n), GoNum("uint32", n))
  BY <1>2, UnsignedContentAt DEF Holds, Holding
<1>8. Storable(9, GoNum("uint32", n), it)
  <2>1. CASE it.target = "any"
    BY <1>1, <2>1 DEF Storable, Holding, Store, Fits, StoredIn, AsRead, GoNum, Enumerations
  <2>2. CASE it.target = "SegmentationSupport"
    <3>1. AsRead(it) = GoNum("SegmentationSupport", n)
      BY <1>1, <2>2 DEF AsRead
    <3>2. StoredIn(GoNum("uint32", n), "SegmentationSupport") = GoNum("SegmentationSupport", n)
      BY <1>2 DEF StoredIn, GoNum, Enumerations, Widths
    <3>3. Fits(9, GoNum("uint32", n), "SegmentationSupport")
      BY DEF Fits, Enumerations
    <3> QED
      BY <2>2, <3>1, <3>2, <3>3 DEF Storable, Holding, Store
  <2> QED
    BY <1>1, <2>1, <2>2
<1> QED
  BY <1>1, <1>3, <1>6, <1>7, <1>8, TaggedCarried

LEMMA AppText ==
  ASSUME NEW it \in AppDataOf(Texts, "string")
  PROVE  Carries(it, AppTag(7, Len(<< 0 >> \o it.value.str)), << 0 >> \o it.value.str)
<1> DEFINE u == it.value.str
           s == << 0 >> \o u
           l == Len(s)
           x == EncodeTag(AppTag(7, l)) \o s
<1>1. /\ it.method = "AppData" /\ it.value = GoString(u)
      /\ u \in Seq(Octet) /\ Len(u) + 1 \in Uint32
      /\ it.target = "string" \/ it.target = "any"
  BY DEF AppDataOf, ItemsOf, Texts, GoString, GoNum
<1>2. 7 \in Octet /\ l \in Uint32 /\ s \in Seq(Octet)
  <2>1. 7 \in Octet /\ << 0 >> \in Seq(Octet) /\ Len(<< 0 >>) = 1
    BY OctetRange
  <2>2. l = 1 + Len(u) /\ s \in Seq(Octet) /\ Len(u) \in Nat
    BY <1>1, <2>1, ConcatProperties, LenProperties
  <2>3. 1 + Len(u) = Len(u) + 1
    BY <2>2
  <2> QED
    BY <1>1, <2>1, <2>2, <2>3
<1>3. x \in Seq(Octet)
  BY <1>2, TagsBuilt, TagType, ConcatProperties
<1>4. \A e \in Encoders : EncodeAppData(e, it.value) = WriteIfNoErr(e, x)
  <2>1. it.value.kind = "string"
    BY <1>1 DEF GoString, GoNum
  <2> QED
    BY <2>1 DEF EncodeAppData
<1>5. WrittenAs(it, x)
  BY <1>1, <1>3, <1>4, AppWritten
<1>6. Holds(7, l, s, GoString(u))
  BY <1>1, TextContentAt DEF Holds, Holding
<1>7. Storable(7, GoString(u), it)
  <2>1. GoString(u).kind = "string"
    BY DEF GoString, GoNum
  <2>2. AsRead(it) = GoString(u)
    BY <1>1, <2>1 DEF AsRead, Enumerations
  <2> QED
    BY <1>1, <2>1, <2>2 DEF Storable, Holding, Store, Fits, StoredIn, Enumerations
<1> HIDE DEF s, l
<1> QED
  BY <1>1, <1>2, <1>5, <1>6, <1>7, TaggedCarried DEF s, l

LEMMA AppObjectID ==
  ASSUME NEW it \in AppDataOf(ObjectIDs, "ObjectID")
  PROVE  Carries(it, AppTag(12, ObjectIDLength), ObjectOctets(it.value.obj)) \/ Refused(it)
<1> DEFINE o == it.value.obj
           t == AppTag(12, ObjectIDLength)
           s == ObjectOctets(o)
           x == EncodeTag(t) \o s
<1>1. /\ it.method = "AppData" /\ it.value = GoObject(o)
      /\ o \in [type : Uint32 \ {MaxObjectType}, instance : Uint32]
      /\ it.target = "ObjectID" \/ it.target = "any"
  BY DEF AppDataOf, ItemsOf, ObjectIDs, GoObject, GoNum
<1>2. 12 \in Octet /\ ObjectIDLength \in Uint32 /\ EncodeTag(t) \in Seq(Octet)
  <2>1. 12 \in Octet /\ ObjectIDLength \in Uint32
    BY OctetRange, FourOctets
  <2> QED
    BY <2>1, TagsBuilt, TagType
<1>3. ASSUME NEW e PROVE Encode(e, it) = WriteObjectID(e, t, o)
  <2>1. it.value.kind = "ObjectID"
    BY <1>1 DEF GoObject, GoNum
  <2> QED
    BY <1>1, <2>1 DEF Encode, EncodeAppData
<1>4. CASE ValidForEncode(o)
  <2>1. ValidObject(o) /\ s \in Seq(Octet)
    BY <1>1, <1>4, Objects, ObjectOctetsType
  <2>2. ASSUME NEW e \in Encoders, e.err = NoErr PROVE Encode(e, it) = Write(e, x)
    <3>1. Encode(e, it) = Write(Write(e, EncodeTag(t)), s)
      BY <1>3, <1>4, <2>2 DEF WriteObjectID, ObjectOctets
    <3> QED
      BY <1>2, <2>1, <3>1, WriteTwice
  <2>3. WrittenAs(it, x)
    BY <2>2 DEF WrittenAs
  <2>4. Holds(12, ObjectIDLength, s, GoObject(o))
    BY <1>2, <2>1, ObjectContentAt DEF Holds, Holding
  <2>5. Storable(12, GoObject(o), it)
    <3>1. GoObject(o).kind = "ObjectID"
      BY DEF GoObject, GoNum
    <3>2. AsRead(it) = GoObject(o)
      BY <1>1, <3>1 DEF AsRead, Enumerations
    <3> QED
      BY <1>1, <3>1, <3>2 DEF Storable, Holding, Store, Fits, StoredIn, Enumerations
  <2> QED
    BY <1>1, <1>2, <2>1, <2>3, <2>4, <2>5, TaggedCarried
<1>5. ASSUME ~ValidForEncode(o), NEW e \in Encoders, e.err = NoErr
      PROVE  Encode(e, it) \in Encoders /\ Encode(e, it).err = Failed
  <2>1. Encode(e, it) = [Write(e, EncodeTag(t)) EXCEPT !.err = Failed]
    BY <1>3, <1>5 DEF WriteObjectID
  <2>2. Write(e, EncodeTag(t)) \in Encoders
    BY <1>2, WriteFacts
  <2> QED
    BY <2>1, <2>2 DEF Encoders
<1> QED
  BY <1>4, <1>5 DEF Refused

LEMMA PropertyWritten ==
  ASSUME NEW it, it.method = "ContextAbstractType", it.id \in Octet, NEW y \in Seq(Octet),
         \A e \in Encoders : e.err = NoErr =>
           ContextAbstractType(e, it.id, [type |-> it.type, value |-> it.value]) =
             Write(Write(Write(e, EncodeTag(OpeningTag(it.id))), y),
                   EncodeTag(ClosingTag(it.id)))
  PROVE  WrittenAs(it, EncodeTag(OpeningTag(it.id)) \o (y \o EncodeTag(ClosingTag(it.id))))
<1> DEFINE open == EncodeTag(OpeningTag(it.id))
           close == EncodeTag(ClosingTag(it.id))
<1>1. open \in Seq(Octet) /\ close \in Seq(Octet) /\ y \o close \in Seq(Octet)
  <2>1. 0 \in Uint32
    BY DEF Uint32
  <2> QED
    BY <2>1, TagsBuilt, TagType, ConcatProperties
<1>2. ASSUME NEW e \in Encoders, e.err = NoErr
      PROVE  Encode(e, it) = Write(e, open \o (y \o close))
  <2>1. Encode(e, it) = Write(Write(Write(e, open), y), close)
    BY <1>2 DEF Encode
  <2> HIDE DEF open, close
  <2>2. Write(e, open) \in Encoders
    BY <1>1, WriteFacts
  <2>3. Write(Write(Write(e, open), y), close) = Write(Write(e, open), y \o close)
    BY <1>1, <2>2, WriteTwice
  <2>4. Write(Write(e, open), y \o close) = Write(e, open \o (y \o close))
    BY <1>1, WriteTwice
  <2> QED
    BY <2>1, <2>3, <2>4, Zenon
<1> QED
  BY <1>2 DEF WrittenAs

\* An item of that method is a tag and what is behind it, between two tags.
LEMMA PropertyItem ==
  ASSUME NEW type \in {0, 1, 4, 9}, NEW values, NEW it \in PropertyOf(type, values),
         NEW v \in Uint32, NEW s \in Seq(Octet), Holds(type, v, s, it.value),
         it.value.kind \notin Enumerations,
         \A e : e.err = NoErr =>
           ContextAbstractType(e, it.id, [type |-> type, value |-> it.value]) =
             Write(Write(Write(e, EncodeTag(OpeningTag(it.id))), EncodeTag(AppTag(type, v)) \o s),
                   EncodeTag(ClosingTag(it.id)))
  PROVE  \E t, u : Carries(it, t, u)
<1>1. /\ it.method = "ContextAbstractType" /\ it.id \in Octet /\ it.type = type
      /\ it.value \in values /\ it.target = "any"
  BY DEF PropertyOf, ItemsOf
<1>2. type \in Octet /\ it.type \in Octet
  BY <1>1, OctetRange
<1>3. EncodeTag(AppTag(type, v)) \o s \in Seq(Octet)
  BY <1>2, TagsBuilt, TagType, ConcatProperties
<1>4. WrittenAs(it, EncodeTag(OpeningTag(it.id))
                      \o ((EncodeTag(AppTag(it.type, v)) \o s)
                            \o EncodeTag(ClosingTag(it.id))))
  BY <1>1, <1>3, PropertyWritten
<1>5. Holds(it.type, v, s, AsRead(it))
  BY <1>1 DEF AsRead
<1> QED
  BY <1>1, <1>2, <1>4, <1>5, PropertyCarried

LEMMA PropertyNil ==
  ASSUME NEW it \in PropertyOf(0, {GoNil})
  PROVE  \E t, u : Carries(it, t, u)
<1>1. it.value = GoNil /\ it.value.kind = "nil"
  BY DEF PropertyOf, ItemsOf, GoNil, GoNum
<1>2. 1 \in Uint32 /\ <<>> \in Seq(Octet) /\ Len(<<>>) = 0
  BY DEF Uint32
<1>3. Holds(0, 1, <<>>, GoNil)
  BY <1>2 DEF Holds, Holding, Content, AppTag, Tag
<1>4. ASSUME NEW e
      PROVE  ContextAbstractType(e, it.id, [type |-> 0, value |-> it.value]) =
               Write(Write(Write(e, EncodeTag(OpeningTag(it.id))),
                           EncodeTag(AppTag(0, 1)) \o <<>>),
                     EncodeTag(ClosingTag(it.id)))
  BY DEF ContextAbstractType
<1> QED
  BY <1>1, <1>2, <1>3, <1>4, PropertyItem DEF Enumerations

LEMMA PropertyBool ==
  ASSUME NEW it \in PropertyOf(1, Numbers("bool", {0, 1}))
  PROVE  \E t, u : Carries(it, t, u)
<1> DEFINE n == it.value.num
<1>1. it.value = GoNum("bool", n) /\ it.value.kind = "bool" /\ n \in {0, 1}
  BY DEF PropertyOf, ItemsOf, Numbers, GoNum
<1>2. n \in Uint32 /\ <<>> \in Seq(Octet) /\ Len(<<>>) = 0 /\ n = IF n # 0 THEN 1 ELSE 0
  BY <1>1 DEF Uint32
<1>3. Holds(1, n, <<>>, GoNum("bool", n))
  <2> HIDE DEF n
  <2> QED
    BY <1>2 DEF Holds, Holding, Content, AppTag, Tag
<1>4. ASSUME NEW e
      PROVE  ContextAbstractType(e, it.id, [type |-> 1, value |-> it.value]) =
               Write(Write(Write(e, EncodeTag(OpeningTag(it.id))),
                           EncodeTag(AppTag(1, n)) \o <<>>),
                     EncodeTag(ClosingTag(it.id)))
  BY DEF ContextAbstractType
<1> QED
  BY <1>1, <1>2, <1>3, <1>4, PropertyItem DEF Enumerations

LEMMA PropertyFloat ==
  ASSUME NEW it \in PropertyOf(4, Numbers("float32", Uint32))
  PROVE  \E t, u : Carries(it, t, u)
<1> DEFINE n == it.value.num
           s == BigEndian(n, 4)
<1>1. it.value = GoNum("float32", n) /\ it.value.kind = "float32" /\ n \in Uint32
  BY DEF PropertyOf, ItemsOf, Numbers, GoNum
<1>2. 4 \in Uint32 /\ s \in Seq(Octet)
  <2>1. 4 \in 1..4
    OBVIOUS
  <2> HIDE DEF n
  <2> QED
    BY <1>1, <2>1, LengthOfValue, BigEndianType
<1>3. Holds(4, 4, s, GoNum("float32", n))
  BY <1>1, <1>2, FloatContentAt DEF Holds, Holding
<1>4. ASSUME NEW e
      PROVE  ContextAbstractType(e, it.id, [type |-> 4, value |-> it.value]) =
               Write(Write(Write(e, EncodeTag(OpeningTag(it.id))),
                           EncodeTag(AppTag(4, 4)) \o s),
                     EncodeTag(ClosingTag(it.id)))
  BY DEF ContextAbstractType
<1> QED
  BY <1>1, <1>2, <1>3, <1>4, PropertyItem DEF Enumerations

LEMMA PropertyUnsigned ==
  ASSUME NEW it \in PropertyOf(9, Numbers("uint32", Uint32))
  PROVE  \E t, u : Carries(it, t, u)
<1> DEFINE n == it.value.num
           s == Unsigned(n)
<1>1. it.value = GoNum("uint32", n) /\ it.value.kind = "uint32" /\ n \in Uint32
  BY DEF PropertyOf, ItemsOf, Numbers, GoNum
<1>2. ValueLength(n) \in Uint32 /\ s \in Seq(Octet)
  BY <1>1, LengthOfValue, UnsignedType
<1>3. Holds(9, ValueLength(n), s, GoNum("uint32", n))
  BY <1>1, UnsignedContentAt DEF Holds, Holding
<1>4. ASSUME NEW e, e.err = NoErr
      PROVE  ContextAbstractType(e, it.id, [type |-> 9, value |-> it.value]) =
               Write(Write(Write(e, EncodeTag(OpeningTag(it.id))),
                           EncodeTag(AppTag(9, ValueLength(n))) \o s),
                     EncodeTag(ClosingTag(it.id)))
  BY <1>4 DEF ContextAbstractType
<1> QED
  BY <1>1, <1>2, <1>3, <1>4, PropertyItem DEF Enumerations

LEMMA ItemCarried ==
  ASSUME NEW it \in Items
  PROVE  (\E t, s : Carries(it, t, s)) \/ Refused(it)
<1>1. \/ it \in ItemsOf("ContextUnsigned", Octet, {0}, Numbers("uint32", Uint32), {"uint32"})
      \/ it \in ItemsOf("ContextObjectID", Octet, {0}, ObjectIDs, {"ObjectID"})
      \/ it \in AppDataOf({GoNil}, "any")
      \/ it \in AppDataOf(Numbers("uint32", Uint32), "uint32")
      \/ it \in AppDataOf(Numbers("float32", Uint32), "float32")
      \/ it \in AppDataOf(Numbers("SegmentationSupport", Octet), "SegmentationSupport")
      \/ it \in AppDataOf(Texts, "string")
      \/ it \in AppDataOf(ObjectIDs, "ObjectID")
      \/ it \in PropertyOf(0, {GoNil})
      \/ it \in PropertyOf(1, Numbers("bool", {0, 1}))
      \/ it \in PropertyOf(4, Numbers("float32", Uint32))
      \/ it \in PropertyOf(9, Numbers("uint32", Uint32))
  BY ItemsAssumption, Zenon
<1> QED
  BY <1>1, UnsignedCarried, ObjectIDCarried, AppNil, AppUnsigned, AppFloat, AppSegmentation,
     AppText, AppObjectID, PropertyNil, PropertyBool, PropertyFloat, PropertyUnsigned, Zenon

\* A call made while the error of an earlier one is set keeps the error.
LEMMA EncodeAfterError ==
  ASSUME NEW it \in Items, NEW e \in Encoders, e.err # NoErr
  PROVE  Encode(e, it) \in Encoders /\ Encode(e, it).err = e.err
<1>1. \A s : WriteIfNoErr(e, s) = e
  BY DEF WriteIfNoErr
<1>2. CASE it.method = "ContextUnsigned"
  BY <1>1, <1>2 DEF Encode, ContextUnsigned
<1>3. CASE it.method = "ContextObjectID"
  BY <1>3 DEF Encode, ContextObjectID, WriteObjectID
<1>4. CASE it.method = "AppData"
  <2>1. Encode(e, it) = EncodeAppData(e, it.value)
    BY <1>4 DEF Encode
  <2>2. EncodeAppData(e, it.value) = e
    BY <1>1 DEF EncodeAppData, WriteObjectID
  <2> QED
    BY <2>1, <2>2
<1>5. ASSUME NEW type \in {0, 1, 4, 9}, NEW values, it \in PropertyOf(type, values),
             it.value.num \in Uint32
      PROVE  Encode(e, it) \in Encoders /\ Encode(e, it).err = e.err
  <2> DEFINE n == it.value.num
             open == Write(e, EncodeTag(OpeningTag(it.id)))
             close == EncodeTag(ClosingTag(it.id))
             Tagged(value, s) == Write(open, EncodeTag(AppTag(type, value)) \o s)
  <2>1. it.method = "ContextAbstractType" /\ it.id \in Octet /\ it.type = type
    BY <1>5 DEF PropertyOf, ItemsOf
  <2>2. type \in Octet /\ 1 \in Uint32 /\ 4 \in Uint32 /\ <<>> \in Seq(Octet)
        /\ BigEndian(n, 4) \in Seq(Octet)
    <3>1. type \in Octet /\ 1 \in Uint32 /\ 4 \in Uint32 /\ n \in Nat
      BY <1>5, OctetRange DEF Uint32
    <3>2. 4 \in 1..4
      OBVIOUS
    <3> HIDE DEF n
    <3> QED
      BY <3>1, <3>2, BigEndianType
  <2>3. open \in Encoders /\ open.err = e.err /\ close \in Seq(Octet)
    BY <2>1, <2>2, TagsBuilt, TagType, WriteFacts
  <2>4. ASSUME NEW value \in Uint32, NEW s \in Seq(Octet)
        PROVE  Tagged(value, s) \in Encoders /\ Tagged(value, s).err = e.err
    <3>1. EncodeTag(AppTag(type, value)) \o s \in Seq(Octet)
      BY <2>2, TagsBuilt, TagType, ConcatProperties
    <3> HIDE DEF open
    <3> QED
      BY <2>3, <3>1, WriteFacts
  <2>5. Encode(e, it) =
          Write(IF type = 0 THEN Tagged(1, <<>>) ELSE IF type = 1 THEN Tagged(n, <<>>)
                ELSE IF type = 4 THEN Tagged(4, BigEndian(n, 4)) ELSE open, close)
    BY <2>1 DEF Encode, ContextAbstractType
  <2> HIDE DEF Tagged, open, close
  <2>6. ASSUME NEW w \in Encoders, w.err = e.err, Encode(e, it) = Write(w, close)
        PROVE  Encode(e, it) \in Encoders /\ Encode(e, it).err = e.err
    BY <2>3, <2>6, WriteFacts
  <2> HIDE DEF n
  <2> QED
    BY <1>5, <2>2, <2>3, <2>4, <2>5, <2>6 DEF n
<1>6. \/ it.method \in {"ContextUnsigned", "ContextObjectID", "AppData"}
      \/ it \in PropertyOf(0, {GoNil}) /\ it.value.num \in Uint32
      \/ it \in PropertyOf(1, Numbers("bool", {0, 1})) /\ it.value.num \in Uint32
      \/ it \in PropertyOf(4, Numbers("float32", Uint32)) /\ it.value.num \in Uint32
      \/ it \in PropertyOf(9, Numbers("uint32", Uint32)) /\ it.value.num \in Uint32
  <2>1. 0 \in Uint32 /\ 1 \in Uint32
    BY DEF Uint32
  <2> QED
    BY <2>1, ItemsAssumption DEF AppDataOf, PropertyOf, ItemsOf, Numbers, GoNil, GoNum
<1> QED
  BY <1>2, <1>3, <1>4, <1>5, <1>6

----------------------------------------------------------------------------
(***************************************************************************)
(* The octets of an item.                                                  *)
(***************************************************************************)
Octets(it) == Encode(NewEncoder, it).bytes

Readable(it) == \E t, s : Carries(it, t, s)

LEMMA ReadableFacts ==
  ASSUME NEW it, Readable(it)
  PROVE  /\ Octets(it) \in Seq(Octet)
         /\ WrittenAs(it, Octets(it)) /\ ReadFrom(it, Octets(it))
         /\ \E t \in Tags, s \in Seq(Octet) :
              /\ Octets(it) = EncodeTag(t) \o s
              /\ FirstTag(it).tag = t /\ FirstTag(it).len = Len(EncodeTag(t))
<1> PICK t, s : Carries(it, t, s)
  BY DEF Readable
<1> DEFINE x == EncodeTag(t) \o s
<1>1. t \in Tags /\ s \in Seq(Octet) /\ WrittenAs(it, x) /\ ReadFrom(it, x)
  BY DEF Carries
<1>2. x \in Seq(Octet)
  BY <1>1, TagType, ConcatProperties
<1>3. NewEncoder \in Encoders /\ NewEncoder.err = NoErr /\ NewEncoder.bytes = <<>>
  <2>1. <<>> \in Seq(Octet)
    OBVIOUS
  <2> QED
    BY <2>1 DEF NewEncoder, Encoders
<1>4. Octets(it) = x
  <2>1. Encode(NewEncoder, it) = Write(NewEncoder, x)
    BY <1>1, <1>3 DEF WrittenAs
  <2>2. Octets(it) = <<>> \o x
    BY <1>3, <2>1 DEF Octets, Write
  <2> HIDE DEF x
  <2> QED
    BY <1>2, <2>2, ConcatEmptySeq
<1>5. DecodeTag(NewBuffer(x)) =
        [ok |-> TRUE, len |-> Len(EncodeTag(t)), tag |-> t,
         buf |-> Behind(NewBuffer(x), Len(EncodeTag(t)))]
  <2> DEFINE b == NewBuffer(x)
  <2>1. b \in Buffers /\ b.bytes = x /\ b.off = 0
    BY <1>2 DEF NewBuffer, Buffers
  <2>2. <<>> \in Seq(Octet) /\ Len(<<>>) = 0
    OBVIOUS
  <2> HIDE DEF b
  <2>3. At(b, x)
    <3> HIDE DEF x
    <3>1. b.bytes = <<>> \o x /\ b.off = Len(<<>>)
      BY <1>2, <2>1, <2>2, ConcatEmptySeq
    <3> QED
      BY <1>2, <2>1, <2>2, <3>1, AtEnd
  <2>4. At(b, EncodeTag(t))
    BY <1>1, <2>3, TagType, AtConcat
  <2>5. DecodeTag(b) = [ok |-> TRUE, len |-> Len(EncodeTag(t)), tag |-> t,
                        buf |-> Behind(b, Len(EncodeTag(t)))]
    BY <1>1, <2>4, DecodeTagAt
  <2> QED
    BY <2>5 DEF b
<1>6. FirstTag(it) = DecodeTag(NewBuffer(x))
  BY <1>4, Zenon DEF FirstTag, Octets
<1>7. FirstTag(it).tag = t /\ FirstTag(it).len = Len(EncodeTag(t))
  BY <1>5, <1>6
<1> QED
  BY <1>1, <1>2, <1>4, <1>7

\* A tag that was not expected is given back if it is one octet.
LEMMA Missed ==
  ASSUME NEW it, Readable(it), NEW b, At(b, Octets(it)), NEW id, FirstTag(it).tag.id # id,
         NEW d, d = ContextValue(Fresh(b), id).dec \/ d = DecodeObjectID(Fresh(b), id).dec
  PROVE  /\ d = [buf |-> d.buf, err |-> d.err]
         /\ IsBuffer(d.buf) /\ d.buf.bytes = b.bytes
         /\ \/ FirstTag(it).len = 1 /\ d.err = IncorrectTag /\ d.buf.off = b.off
            \/ FirstTag(it).len > 1 /\ d.err = Failed
<1> PICK t \in Tags, s \in Seq(Octet) :
           /\ Octets(it) = EncodeTag(t) \o s
           /\ FirstTag(it).tag = t /\ FirstTag(it).len = Len(EncodeTag(t))
  BY ReadableFacts
<1> DEFINE l == Len(EncodeTag(t))
<1>1. EncodeTag(t) \in Seq(Octet) /\ l \in Nat /\ l >= 1
  BY TagType
<1>2. At(b, EncodeTag(t)) /\ IsBuffer(b) /\ b.off + l <= Len(b.bytes)
  <2>1. At(b, EncodeTag(t) \o s)
    BY Zenon
  <2>2. At(b, EncodeTag(t))
    BY <1>1, <2>1, AtConcat
  <2> QED
    BY <2>2 DEF At
<1>3. d = Missing(b, l)
  <2>1. t.id # id
    BY Zenon
  <2> QED
    BY <1>2, <2>1, NotExpected
<1> HIDE DEF l
<1>4. /\ d.buf.bytes = b.bytes /\ d.buf.off = b.off + l - 1 /\ d.buf \in Buffers
      /\ d.err = (IF l = 1 THEN IncorrectTag ELSE Failed) /\ d = [buf |-> d.buf, err |-> d.err]
  BY <1>1, <1>2, <1>3 DEF Missing, Cursor, IsBuffer, Buffers
<1>5. IsBuffer(d.buf) /\ (l = 1 => d.buf.off = b.off)
  BY <1>1, <1>2, <1>4 DEF IsBuffer, Buffers
<1>6. l = 1 \/ (l > 1 /\ l # 1)
  BY <1>1
<1> QED
  BY <1>4, <1>5, <1>6 DEF l

----------------------------------------------------------------------------
(***************************************************************************)
(* The inductive invariant.  What was written lies behind one another: a   *)
(* function pos gives the offset at which each item begins, and the cursor *)
(* of a reader without a failure is where the next item to be read begins. *)
(***************************************************************************)
Cut(off) == [bytes |-> enc.bytes, off |-> off, canUnread |-> FALSE]

Layout(pos) ==
  /\ pos \in [0..Len(written) -> Nat]
  /\ pos[0] = 0 /\ pos[Len(written)] = Len(enc.bytes)
  /\ \A i \in 1..Len(written) :
       /\ Readable(written[i])
       /\ pos[i] = pos[i - 1] + Len(Octets(written[i]))
       /\ At(Cut(pos[i - 1]), Octets(written[i]))

InPlace(pos) ==
  Layout(pos) /\ (stage = "reading" /\ dec.err # Failed => dec.buf.off = pos[Len(read)])

Values == {AsRead(it) : it \in Items}

Types ==
  /\ enc \in Encoders /\ written \in Seq(Items) /\ read \in Seq(Values)
  /\ dec = [buf |-> dec.buf, err |-> dec.err] /\ IsBuffer(dec.buf)
  /\ dec.err \in {NoErr, IncorrectTag, Failed}
  /\ stage \in {"writing", "reading"}
  /\ Len(read) <= Len(written)

Stages ==
  /\ stage = "writing" => read = <<>> /\ dec.err = NoErr
  /\ stage = "reading" => enc.err = NoErr /\ dec.buf.bytes = enc.bytes

CodecInv ==
  /\ Types /\ Stages
  /\ RoundTrip
  /\ StuckOnLongTagOnly
  /\ enc.err = NoErr => \E pos : InPlace(pos)

LEMMA CodecInit == Init => CodecInv
<1> SUFFICES ASSUME Init PROVE CodecInv
  OBVIOUS
<1> USE DEF Init
<1>1. <<>> \in Seq(Octet) /\ <<>> \in Seq(Items) /\ <<>> \in Seq(Values) /\ Len(<<>>) = 0
  OBVIOUS
<1>2. Types
  BY <1>1 DEF Types, Encoders, NewEncoder, NewDecoder, NewBuffer, IsBuffer, Buffers
<1>3. Stages
  BY DEF Stages, NewDecoder
<1>4. RoundTrip
  BY DEF RoundTrip
<1>5. StuckOnLongTagOnly
  BY DEF StuckOnLongTagOnly, NewDecoder
<1>6. InPlace([i \in 0..0 |-> 0])
  BY <1>1 DEF InPlace, Layout, NewEncoder
<1> QED
  BY <1>2, <1>3, <1>4, <1>5, <1>6 DEF CodecInv

\* A writer without an error puts the octets of the item behind the others.
LEMMA WriteLayout ==
  ASSUME CodecInv, NEW it \in Items, WriteItem(it), enc'.err = NoErr
  PROVE  \E pos : InPlace(pos)'
\* The numbers and octets of the state before the step, as constants.
<1> PICK k, n, x : k = Len(written) /\ n = Len(enc.bytes) /\ x = Octets(it)
  OBVIOUS
<1>1. /\ Types /\ Stages /\ k \in Nat /\ n \in Nat /\ enc.bytes \in Seq(Octet)
      /\ stage = "writing" /\ read = <<>>
      /\ enc' = Encode(enc, it) /\ written' = Append(written, it)
      /\ UNCHANGED <<dec, stage, read>>
  BY LenProperties DEF CodecInv, Types, Stages, WriteItem, Encoders
<1>2. enc.err = NoErr
  <2>1. enc.err # NoErr => Encode(enc, it).err = enc.err
    BY <1>1, EncodeAfterError DEF Types
  <2> QED
    BY <1>1, <2>1
<1>3. PICK pos : InPlace(pos)
  BY <1>2 DEF CodecInv
<1>4. Readable(it)
  <2>1. ~Refused(it)
    BY <1>1, <1>2 DEF Refused, Types, NoErr, Failed
  <2> QED
    BY <2>1, ItemCarried DEF Readable
<1>5. x \in Seq(Octet) /\ Len(x) \in Nat /\ enc' = Write(enc, x)
  BY <1>1, <1>2, <1>4, ReadableFacts, LenProperties DEF WrittenAs, Types
<1>6. enc'.bytes = enc.bytes \o x /\ enc'.bytes \in Seq(Octet) /\ Len(enc'.bytes) = n + Len(x)
  BY <1>1, <1>5, ConcatProperties DEF Write
<1>7. /\ written' \in Seq(Items) /\ Len(written') = k + 1 /\ written'[k + 1] = it
      /\ \A i \in 1..k : written'[i] = written[i]
  BY <1>1, AppendProperties DEF Types
<1> PICK next : next = [i \in 0..(k + 1) |-> IF i <= k THEN pos[i] ELSE n + Len(x)]
  OBVIOUS
<1>8. /\ pos \in [0..k -> Nat] /\ pos[0] = 0 /\ pos[k] = n
      /\ \A i \in 1..k : /\ Readable(written[i])
                         /\ pos[i] = pos[i - 1] + Len(Octets(written[i]))
                         /\ At(Cut(pos[i - 1]), Octets(written[i]))
  BY <1>3 DEF InPlace, Layout
<1>9. /\ next \in [0..(k + 1) -> Nat] /\ next[0] = 0 /\ next[k + 1] = n + Len(x)
      /\ \A i \in 0..k : next[i] = pos[i]
  BY <1>1, <1>5, <1>8
<1>10. ASSUME NEW off, NEW s, At(Cut(off), s)
       PROVE  At(Cut(off)', s)
  <2>1. /\ Cut(off).bytes = enc.bytes /\ Cut(off).off = off
        /\ Cut(off)'.bytes = enc'.bytes /\ Cut(off)'.off = off /\ Cut(off)'.canUnread = FALSE
        /\ Cut(off)' = [bytes |-> enc'.bytes, off |-> off, canUnread |-> FALSE]
    BY DEF Cut
  <2>2. off \in Nat /\ off <= n
    BY <1>10, <2>1 DEF At, IsBuffer, Buffers
  <2>3. IsBuffer(Cut(off)')
    BY <1>1, <1>5, <1>6, <2>1, <2>2 DEF IsBuffer, Buffers
  <2> QED
    BY <1>5, <1>6, <1>10, <2>1, <2>3, AtLonger
<1>11. At(Cut(n)', x)
  <2>1. Cut(n)' = [bytes |-> enc'.bytes, off |-> n, canUnread |-> FALSE]
    BY DEF Cut
  <2>2. Cut(n)' \in Buffers /\ Cut(n)'.bytes = enc.bytes \o x /\ Cut(n)'.off = Len(enc.bytes)
    BY <1>1, <1>6, <2>1 DEF Buffers
  <2> QED
    BY <1>1, <1>5, <2>2, AtEnd
<1>12. ASSUME NEW i \in 1..(k + 1)
       PROVE  /\ Readable(written'[i])
              /\ next[i] = next[i - 1] + Len(Octets(written'[i]))
              /\ At(Cut(next[i - 1])', Octets(written'[i]))
  <2>1. i \in Nat /\ i - 1 \in 0..k /\ (i \in 1..k \/ i = k + 1)
    BY <1>1
  <2>2. CASE i \in 1..k
    BY <1>7, <1>8, <1>9, <1>10, <2>1, <2>2
  <2>3. CASE i = k + 1
    <3>1. i - 1 = k
      BY <1>1, <2>3
    <3> QED
      BY <1>4, <1>7, <1>8, <1>9, <1>11, <2>1, <2>3, <3>1
  <2> QED
    BY <2>1, <2>2, <2>3
<1>13. Layout(next)'
  BY <1>6, <1>7, <1>9, <1>12 DEF Layout
<1> QED
  BY <1>1, <1>13 DEF InPlace

LEMMA WriteKeeps == ASSUME CodecInv, NEW it \in Items, WriteItem(it) PROVE CodecInv'
<1>1. /\ Types /\ Stages /\ stage = "writing" /\ read = <<>> /\ dec.err = NoErr
      /\ enc' = Encode(enc, it) /\ written' = Append(written, it)
      /\ dec' = dec /\ stage' = stage /\ read' = read
  BY DEF CodecInv, Stages, WriteItem
<1>2. enc' \in Encoders
  <2>1. enc \in Encoders
    BY <1>1 DEF Types
  <2>2. CASE enc.err # NoErr
    BY <1>1, <2>1, <2>2, EncodeAfterError
  <2>3. CASE enc.err = NoErr /\ Refused(it)
    BY <1>1, <2>1, <2>3 DEF Refused
  <2>4. CASE enc.err = NoErr /\ Readable(it)
    BY <1>1, <2>1, <2>4, ReadableFacts, WriteFacts DEF WrittenAs
  <2> QED
    BY <2>2, <2>3, <2>4, ItemCarried DEF Readable
<1>3. /\ written \in Seq(Items) /\ Len(written) \in Nat
      /\ written' \in Seq(Items) /\ Len(written') = Len(written) + 1
  BY <1>1, AppendProperties, LenProperties DEF Types
<1>4. Len(read) = 0
  BY <1>1
<1>5. Types'
  <2>1. Len(read') <= Len(written')
    BY <1>1, <1>3, <1>4
  <2> QED
    BY <1>1, <1>2, <1>3, <2>1 DEF Types
<1>6. Stages'
  BY <1>1 DEF Stages
<1>7. RoundTrip'
  BY <1>1 DEF RoundTrip
<1>8. StuckOnLongTagOnly'
  BY <1>1 DEF StuckOnLongTagOnly
<1>9. enc'.err = NoErr => \E pos : InPlace(pos)'
  BY WriteLayout
<1> QED
  BY <1>5, <1>6, <1>7, <1>8, <1>9 DEF CodecInv

LEMMA TransferKeeps == ASSUME CodecInv, Transfer PROVE CodecInv'
<1>1. /\ Types /\ Stages /\ stage = "writing" /\ read = <<>> /\ enc.err = NoErr
      /\ enc' = enc /\ written' = written /\ read' = read
      /\ stage' = "reading" /\ dec' = NewDecoder(enc.bytes)
  BY DEF CodecInv, Stages, Transfer
<1>2. PICK pos : InPlace(pos)
  BY <1>1 DEF CodecInv
<1>3. /\ dec'.buf = NewBuffer(enc.bytes) /\ dec'.err = NoErr /\ enc.bytes \in Seq(Octet)
      /\ dec' = [buf |-> dec'.buf, err |-> dec'.err]
  BY <1>1 DEF NewDecoder, Types, Encoders
<1>4. IsBuffer(dec'.buf) /\ dec'.buf.bytes = enc.bytes /\ dec'.buf.off = 0
  BY <1>3, LenProperties DEF IsBuffer, Buffers, NewBuffer
<1>5. Types'
  BY <1>1, <1>3, <1>4 DEF Types
<1>6. Stages'
  BY <1>1, <1>4 DEF Stages
<1>7. RoundTrip'
  BY <1>1 DEF RoundTrip
<1>8. StuckOnLongTagOnly'
  BY <1>3 DEF StuckOnLongTagOnly
<1>9. InPlace(pos)'
  <2>1. Layout(pos)' /\ pos[0] = 0
    BY <1>1, <1>2 DEF InPlace, Layout, Cut
  <2>2. Len(read') = 0
    BY <1>1
  <2> QED
    BY <1>4, <2>1, <2>2 DEF InPlace
<1> QED
  BY <1>5, <1>6, <1>7, <1>8, <1>9 DEF CodecInv

\* Where a reader without a failure stands, the next item begins.
LEMMA NextItem ==
  ASSUME Types, Stages, stage = "reading", dec.err # Failed, NEW pos, InPlace(pos),
         Len(read) < Len(written)
  PROVE  /\ written[Len(read) + 1] \in Items /\ Readable(written[Len(read) + 1])
         /\ At(dec.buf, Octets(written[Len(read) + 1]))
         /\ pos[Len(read) + 1] = dec.buf.off + Len(Octets(written[Len(read) + 1]))
<1> DEFINE n == Len(read)
           k == Len(written)
           it == written[n + 1]
<1>1. n \in Nat /\ k \in Nat /\ n + 1 \in 1..k /\ (n + 1) - 1 = n
  BY LenProperties DEF Types
<1>2. it \in Items
  BY <1>1, ElementOfSeq DEF Types
<1> HIDE DEF n, k
<1>3. /\ Readable(it) /\ pos[n + 1] = pos[n] + Len(Octets(it)) /\ At(Cut(pos[n]), Octets(it))
      /\ dec.buf.off = pos[n]
  BY <1>1 DEF InPlace, Layout, n, k
<1>4. IsBuffer(dec.buf) /\ dec.buf.off = Cut(pos[n]).off /\ dec.buf.bytes = Cut(pos[n]).bytes
  BY <1>3 DEF Types, Stages, Cut
<1>5. At(dec.buf, Octets(it))
  BY <1>3, <1>4, AtCursor
<1> QED
  BY <1>2, <1>3, <1>5 DEF n

LEMMA ReadKeeps == ASSUME CodecInv, ReadItem PROVE CodecInv' /\ dec'.err = NoErr
<1> DEFINE n == Len(read)
           it == written[n + 1]
           x == Octets(it)
           r == Decode(dec, it)
<1>1. /\ Types /\ Stages /\ stage = "reading" /\ dec.err = NoErr /\ enc.err = NoErr
      /\ n < Len(written) /\ enc' = enc /\ written' = written /\ stage' = stage
      /\ dec' = r.dec /\ read' = IF r.dec.err = NoErr THEN Append(read, r.val) ELSE read
  BY DEF CodecInv, Stages, ReadItem
<1>2. PICK pos : InPlace(pos)
  BY <1>1 DEF CodecInv
<1>3. /\ it \in Items /\ Readable(it) /\ At(dec.buf, x) /\ pos[n + 1] = dec.buf.off + Len(x)
  BY <1>1, <1>2, NextItem DEF NoErr, Failed
<1>4. dec = Fresh(dec.buf)
  BY <1>1 DEF Types, Fresh
<1>5. ReadFrom(it, x)
  BY <1>3, ReadableFacts
<1> HIDE DEF it, x
<1>6. r = Result(Behind(dec.buf, Len(x)), NoErr, AsRead(it))
  <2> DEFINE b == dec.buf
  <2>1. Decode(Fresh(b), it) = Result(Behind(b, Len(x)), NoErr, AsRead(it))
    BY <1>3, <1>5 DEF ReadFrom
  <2> QED
    BY <1>4, <2>1
<1> HIDE DEF r
<1>7. /\ dec' = [buf |-> Behind(dec.buf, Len(x)), err |-> NoErr]
      /\ read' = Append(read, AsRead(it))
  BY <1>1, <1>6 DEF Result
<1>8. /\ IsBuffer(dec.buf) /\ Len(x) \in Nat /\ dec.buf.off + Len(x) <= Len(dec.buf.bytes)
  BY <1>3, LenProperties DEF At
<1>9. /\ IsBuffer(dec'.buf) /\ dec'.buf.bytes = dec.buf.bytes /\ dec'.buf.off = pos[n + 1]
      /\ dec' = [buf |-> dec'.buf, err |-> dec'.err] /\ dec'.err = NoErr
  <2>1. IsBuffer(Behind(dec.buf, Len(x)))
    BY <1>8, BehindBuffer
  <2> QED
    BY <1>3, <1>7, <2>1 DEF Behind, Cursor
<1>10. /\ read \in Seq(Values) /\ read' \in Seq(Values) /\ n \in Nat /\ Len(read') = n + 1
       /\ read'[n + 1] = AsRead(it) /\ \A i \in 1..n : read'[i] = read[i]
  <2>1. AsRead(it) \in Values
    BY <1>3 DEF Values
  <2> QED
    BY <1>1, <1>7, <2>1, AppendProperties, LenProperties DEF Types
<1>11. Types'
  <2>1. Len(read') <= Len(written')
    BY <1>1, <1>10, LenProperties DEF Types
  <2> QED
    BY <1>1, <1>9, <1>10, <2>1 DEF Types
<1>12. Stages'
  BY <1>1, <1>9 DEF Stages
<1>13. RoundTrip'
  <2>1. DOMAIN read' = 1..(n + 1) /\ DOMAIN read = 1..n
    BY <1>10, LenProperties
  <2>2. \A i \in 1..(n + 1) : i \in 1..n \/ i = n + 1
    BY <1>10
  <2> HIDE DEF n
  <2>3. \A i \in 1..n : read[i] = AsRead(written[i])
    BY <2>1 DEF CodecInv, RoundTrip
  <2>4. \A i \in 1..(n + 1) : read'[i] = AsRead(written[i])
    BY <1>10, <2>2, <2>3 DEF it
  <2> QED
    BY <1>1, <2>1, <2>4 DEF RoundTrip, AsRead
<1>14. StuckOnLongTagOnly'
  BY <1>9 DEF StuckOnLongTagOnly
<1>15. InPlace(pos)'
  <2>1. Layout(pos)'
    BY <1>1, <1>2 DEF InPlace, Layout, Cut
  <2> QED
    BY <1>9, <1>10, <2>1 DEF InPlace
<1> QED
  BY <1>9, <1>11, <1>12, <1>13, <1>14, <1>15 DEF CodecInv

\* A reader that tries for an optional value keeps its place, unless it fails.
LEMMA TryFacts ==
  ASSUME CodecInv, NEW id \in OtherIDs, TryOptional(id)
  PROVE  /\ dec' = [buf |-> dec'.buf, err |-> dec'.err] /\ IsBuffer(dec'.buf)
         /\ dec'.buf.bytes = dec.buf.bytes
         /\ \/ dec'.err = Failed /\ StuckOnLongTagOnly'
            \/ /\ dec'.err = IncorrectTag /\ dec'.buf.off = dec.buf.off
               /\ dec.err \in {NoErr, IncorrectTag}
         /\ dec.err # NoErr => dec' = dec
<1> DEFINE it == written[Len(read) + 1]
           b == dec.buf
<1>1. /\ Types /\ Stages /\ stage = "reading" /\ Len(read) < Len(written) /\ enc.err = NoErr
      /\ FirstTag(it).tag.id # id
      /\ dec' = ContextValue(dec, id).dec \/ dec' = DecodeObjectID(dec, id).dec
      /\ read' = read /\ written' = written
  BY DEF CodecInv, Stages, TryOptional
<1>2. /\ dec = [buf |-> b, err |-> dec.err] /\ IsBuffer(b)
      /\ dec.err \in {NoErr, IncorrectTag, Failed}
  BY <1>1 DEF Types
<1>3. CASE dec.err # NoErr
  <2>1. dec' = dec
    BY <1>1, <1>2, <1>3, ErrorKept
  <2>2. StuckOnLongTagOnly'
    BY <1>1, <2>1 DEF CodecInv, StuckOnLongTagOnly
  <2> QED
    BY <1>2, <1>3, <2>1, <2>2
<1>4. CASE dec.err = NoErr
  <2>1. PICK pos : InPlace(pos)
    BY <1>1 DEF CodecInv
  <2>2. Readable(it) /\ At(b, Octets(it))
    BY <1>1, <1>4, <2>1, NextItem DEF NoErr, Failed
  <2> HIDE DEF it
  <2>3. dec = Fresh(b)
    BY <1>2, <1>4 DEF Fresh
  <2>4. dec' = ContextValue(Fresh(b), id).dec \/ dec' = DecodeObjectID(Fresh(b), id).dec
    <3> HIDE DEF b
    <3> QED
      BY <1>1, <2>3
  <2> HIDE DEF b
  <2>5. /\ dec' = [buf |-> dec'.buf, err |-> dec'.err]
        /\ IsBuffer(dec'.buf) /\ dec'.buf.bytes = b.bytes
        /\ \/ FirstTag(it).len = 1 /\ dec'.err = IncorrectTag /\ dec'.buf.off = b.off
           \/ FirstTag(it).len > 1 /\ dec'.err = Failed
    BY <1>1, <2>2, <2>4, Missed
  <2>6. FirstTag(it).len > 1 => StuckOnLongTagOnly'
    BY <1>1 DEF StuckOnLongTagOnly, it
  <2> QED
    BY <1>4, <2>5, <2>6 DEF b
<1> QED
  BY <1>3, <1>4

LEMMA TryKeeps == ASSUME CodecInv, NEW id \in OtherIDs, TryOptional(id) PROVE CodecInv'
<1>1. /\ Types /\ Stages /\ RoundTrip /\ stage = "reading" /\ enc.err = NoErr
      /\ UNCHANGED <<enc, stage, written, read>>
  BY DEF CodecInv, Stages, TryOptional
<1>2. PICK pos : InPlace(pos)
  BY <1>1 DEF CodecInv
<1>3. /\ dec' = [buf |-> dec'.buf, err |-> dec'.err] /\ IsBuffer(dec'.buf)
      /\ dec'.buf.bytes = dec.buf.bytes /\ dec'.err \in {NoErr, IncorrectTag, Failed}
      /\ dec'.err # Failed => dec'.buf.off = dec.buf.off /\ dec.err # Failed
      /\ StuckOnLongTagOnly'
  BY TryFacts DEF NoErr, IncorrectTag, Failed, StuckOnLongTagOnly
<1>4. Types'
  BY <1>1, <1>3 DEF Types
<1>5. Stages'
  BY <1>1, <1>3 DEF Stages
<1>6. RoundTrip'
  BY <1>1 DEF RoundTrip, AsRead
<1>7. InPlace(pos)'
  <2>1. Layout(pos)'
    BY <1>1, <1>2 DEF InPlace, Layout, Cut
  <2> QED
    BY <1>1, <1>2, <1>3, <2>1 DEF InPlace
<1> QED
  BY <1>3, <1>4, <1>5, <1>6, <1>7 DEF CodecInv

LEMMA RecoverKeeps == ASSUME CodecInv, Recover PROVE CodecInv' /\ dec'.buf = dec.buf
<1>1. /\ Types /\ Stages /\ RoundTrip /\ stage = "reading" /\ enc.err = NoErr
      /\ dec.err = IncorrectTag /\ dec' = ResetError(dec)
      /\ UNCHANGED <<enc, stage, written, read>>
  BY DEF CodecInv, Stages, Recover
<1>2. PICK pos : InPlace(pos)
  BY <1>1 DEF CodecInv
<1>3. /\ dec' = [buf |-> dec'.buf, err |-> dec'.err]
      /\ dec'.buf = dec.buf /\ dec'.err = NoErr
  <2>1. dec = [buf |-> dec.buf, err |-> dec.err]
    BY <1>1 DEF Types
  <2> QED
    BY <1>1, <2>1 DEF ResetError
<1>4. Types'
  BY <1>1, <1>3 DEF Types
<1>5. Stages'
  BY <1>1, <1>3 DEF Stages
<1>6. RoundTrip' /\ StuckOnLongTagOnly'
  BY <1>1, <1>3 DEF RoundTrip, AsRead, StuckOnLongTagOnly
<1>7. InPlace(pos)'
  <2>1. Layout(pos)' /\ dec.err # Failed
    BY <1>1, <1>2 DEF InPlace, Layout, Cut, IncorrectTag, Failed
  <2> QED
    BY <1>1, <1>2, <1>3, <2>1 DEF InPlace
<1> QED
  BY <1>3, <1>4, <1>5, <1>6, <1>7 DEF CodecInv

LEMMA CodecNext == CodecInv /\ [Next]_vars => CodecInv'
<1> SUFFICES ASSUME CodecInv, [Next]_vars PROVE CodecInv'
  OBVIOUS
<1>1. ASSUME NEW it \in Items, WriteItem(it) PROVE CodecInv'
  BY <1>1, WriteKeeps
<1>2. CASE Transfer
  BY <1>2, TransferKeeps
<1>3. CASE ReadItem
  BY <1>3, ReadKeeps
<1>4. ASSUME NEW id \in OtherIDs, TryOptional(id) PROVE CodecInv'
  BY <1>4, TryKeeps
<1>5. CASE Recover
  BY <1>5, RecoverKeeps
<1>6. CASE UNCHANGED vars
  <2>1. UNCHANGED <<enc, dec, stage, written, read>>
    BY <1>6 DEF vars
  <2>2. Types' /\ Stages' /\ RoundTrip' /\ StuckOnLongTagOnly'
    BY <2>1 DEF CodecInv, Types, Stages, RoundTrip, StuckOnLongTagOnly
  <2>3. enc'.err = NoErr => \E pos : InPlace(pos)'
    BY <2>1 DEF CodecInv, InPlace, Layout, Cut
  <2> QED
    BY <2>2, <2>3 DEF CodecInv
<1> QED
  BY <1>1, <1>2, <1>3, <1>4, <1>5, <1>6 DEF Next

THEOREM CodecInvariant == Spec => []CodecInv
<1> QED
  BY CodecInit, CodecNext, PTL DEF Spec

----------------------------------------------------------------------------
(***************************************************************************)
(* The properties.                                                         *)
(***************************************************************************)

\* Every variable has its type: the Encoder writes octets and nothing else,
\* the cursor of the Decoder stays in its buffer, and the Decoder does not
\* panic on what the Encoder wrote.
THEOREM CodecTypes == Spec => []CodecTypeOK
<1>1. CodecInv => CodecTypeOK
  <2> SUFFICES ASSUME CodecInv PROVE CodecTypeOK
    OBVIOUS
  <2>1. Types
    BY DEF CodecInv
  <2>2. dec.buf.off \in 0..Len(dec.buf.bytes)
    BY <2>1, LenProperties DEF Types, IsBuffer, Buffers
  <2> QED
    BY <2>1, <2>2 DEF Types, Encoders, IsBuffer, Buffers, CodecTypeOK
<1> QED
  BY <1>1, CodecInvariant, PTL

\* What the methods of the Decoder read back (decoding.go) is what those of
\* the Encoder wrote (encoding.go), value by value, whatever the values, the
\* IDs and the lengths of their tags, and however often the reader tried for
\* optional values in between.
THEOREM RoundTrips == Spec => []RoundTrip
<1>1. CodecInv => RoundTrip
  BY DEF CodecInv
<1> QED
  BY <1>1, CodecInvariant, PTL

\* A reader that tries for an optional value fails for good only where the
\* tag it met has more than one octet, which unread gives back in part
\* (decoding.go:38): never on the contents, and never on a short tag.
THEOREM StuckOnlyOnLongTags == Spec => []StuckOnLongTagOnly
<1>1. CodecInv => StuckOnLongTagOnly
  BY DEF CodecInv
<1> QED
  BY <1>1, CodecInvariant, PTL

\* A call that finds an incorrect tag, or that is made while an error is set,
\* leaves the cursor where it was, so that the value there can still be read
\* after ResetError.
THEOREM CursorStays == Spec => CursorKept
<1> DEFINE Kept == stage = "reading" /\ (dec.err # NoErr \/ dec'.err = IncorrectTag)
                     => dec'.buf.off = dec.buf.off
<1>1. ASSUME CodecInv, [Next]_vars PROVE [Kept]_vars
  <2>1. ASSUME NEW it \in Items, WriteItem(it) PROVE Kept
    BY <2>1 DEF WriteItem
  <2>2. CASE Transfer
    BY <2>2 DEF Transfer
  <2>3. CASE ReadItem
    <3>1. dec.err = NoErr /\ dec'.err = NoErr
      BY <1>1, <2>3, ReadKeeps DEF ReadItem
    <3> QED
      BY <3>1 DEF NoErr, IncorrectTag
  <2>4. ASSUME NEW id \in OtherIDs, TryOptional(id) PROVE Kept
    BY <1>1, <2>4, TryFacts DEF IncorrectTag, Failed
  <2>5. CASE Recover
    BY <1>1, <2>5, RecoverKeeps
  <2>6. CASE UNCHANGED vars
    BY <2>6
  <2> QED
    BY <1>1, <2>1, <2>2, <2>3, <2>4, <2>5, <2>6 DEF Next
<1>2. Spec => [][Kept]_vars
  BY <1>1, CodecInvariant, PTL DEF Spec
<1> QED
  BY <1>2 DEF CursorKept
=============================================================================
