--------------------------- MODULE ExchangeProofs ---------------------------
(***************************************************************************)
(* Proofs about module Exchange: every datagram of a scan and of a call is *)
(* read as it was meant, or dropped, for any machine, device, request and  *)
(* value that the assumptions on the constants allow.                      *)
(***************************************************************************)
EXTENDS Exchange, FramesProofs, FiniteSets, FiniteSetTheorems, WellFoundedInduction

----------------------------------------------------------------------------
\* A value between its opening and closing tag.
LEMMA PropertyIs ==
  ASSUME NEW id \in Octet, NEW type \in Octet, NEW v \in Uint32, NEW s \in Seq(Octet),
         NEW p, p = PropertyOctets(id, type, v, s)
  PROVE  p = Join(EncodeTag(OpeningTag(id)), Join(App(type, v, s), EncodeTag(ClosingTag(id))))
<1>1. PICK a : a = EncodeTag(OpeningTag(id))
  OBVIOUS
<1>2. PICK z : z = EncodeTag(ClosingTag(id))
  OBVIOUS
<1>3. PICK u : u = EncodeTag(AppTag(type, v)) \o s
  OBVIOUS
<1>4. u = App(type, v, s)
  BY <1>3, AppIs
<1>5. p = a \o (u \o z)
  BY <1>1, <1>2, <1>3 DEF PropertyOctets
<1>6. p = Join(a, Join(u, z))
  BY <1>5, Zenon DEF Join
<1> QED
  BY <1>1, <1>2, <1>4, <1>6

LEMMA PropertyFacts ==
  ASSUME NEW id \in Octet, NEW type \in Octet, NEW v \in Uint32, NEW s \in Seq(Octet),
         NEW p, p = PropertyOctets(id, type, v, s)
  PROVE  p \in Seq(Octet) /\ Len(p) <= 21 + Len(s) /\ Len(p) \in Nat /\ Len(s) \in Nat
<1>1. 0 \in Uint32
  BY OctetsAreUint32, SmallOctets
<1>2. OpeningTag(id) \in Tags /\ ClosingTag(id) \in Tags
  BY <1>1, TagsBuilt
<1>3. PICK a : a = EncodeTag(OpeningTag(id))
  OBVIOUS
<1>4. PICK z : z = EncodeTag(ClosingTag(id))
  OBVIOUS
<1>5. a \in Seq(Octet) /\ Len(a) <= 7 /\ Len(a) \in Nat
  BY <1>2, <1>3, TagShort
<1>6. z \in Seq(Octet) /\ Len(z) <= 7 /\ Len(z) \in Nat
  BY <1>2, <1>4, TagShort
<1>7. PICK u : u = App(type, v, s)
  OBVIOUS
<1>8. u \in Seq(Octet) /\ Len(u) <= 7 + Len(s) /\ Len(u) \in Nat /\ Len(s) \in Nat
  BY <1>7, AppFacts
<1>9. PICK uz : uz = Join(u, z)
  OBVIOUS
<1>10. uz \in Seq(Octet) /\ Len(uz) = Len(u) + Len(z)
  BY <1>6, <1>8, <1>9, JoinFacts
<1>11. p = Join(a, uz)
  BY <1>3, <1>4, <1>7, <1>9, PropertyIs
<1>12. p \in Seq(Octet) /\ Len(p) = Len(a) + Len(uz)
  BY <1>5, <1>10, <1>11, JoinFacts, ZenonT(40)
<1> QED
  BY <1>5, <1>6, <1>8, <1>10, <1>12

LEMMA WroteProperty ==
  ASSUME NEW t \in Seq(Octet), NEW id \in Octet, NEW type \in Octet, NEW v \in Uint32,
         NEW s \in Seq(Octet)
  PROVE  Write(Write(Write(Encoded(t), EncodeTag(OpeningTag(id))), EncodeTag(AppTag(type, v)) \o s),
               EncodeTag(ClosingTag(id)))
           = Encoded(Join(t, PropertyOctets(id, type, v, s)))
<1>1. PICK a : a = EncodeTag(OpeningTag(id))
  OBVIOUS
<1>2. PICK z : z = EncodeTag(ClosingTag(id))
  OBVIOUS
<1>3. PICK u : u = EncodeTag(AppTag(type, v)) \o s
  OBVIOUS
<1>4. 0 \in Uint32
  BY OctetsAreUint32, SmallOctets
<1>5. a \in Seq(Octet) /\ z \in Seq(Octet)
  BY <1>1, <1>2, <1>4, TagsBuilt, TagType
<1>6. u = App(type, v, s) /\ u \in Seq(Octet)
  BY <1>3, AppIs
<1>7. PICK ta \in Seq(Octet) : ta = Join(t, a)
  BY <1>5, JoinFacts
<1>8. PICK tau \in Seq(Octet) : tau = Join(ta, u)
  BY <1>6, JoinFacts
<1>9. Write(Encoded(t), a) = Encoded(ta)
  BY <1>5, <1>7, WroteMore
<1>10. Write(Encoded(ta), u) = Encoded(tau)
  BY <1>6, <1>8, WroteMore
<1>11. Write(Encoded(tau), z) = Encoded(Join(tau, z))
  BY <1>5, WroteMore
<1>12. Join(tau, z) = Join(t, Join(a, Join(u, z)))
  BY <1>5, <1>6, <1>7, <1>8, FourJoins
<1>13. PropertyOctets(id, type, v, s) = Join(a, Join(u, z))
  BY <1>1, <1>2, <1>6, PropertyIs
<1>14. Write(Write(Write(Encoded(t), a), u), z) = Encoded(Join(t, PropertyOctets(id, type, v, s)))
  BY <1>9, <1>10, <1>11, <1>12, <1>13
<1> QED
  BY <1>1, <1>2, <1>3, <1>14

LEMMA NumFacts ==
  ASSUME NEW k, NEW R, NEW w \in Num(k, R)
  PROVE  w = GoNum(k, w.num) /\ w.num \in R /\ w.kind = k
BY DEF Num, GoNum

LEMMA PropertyValueFacts ==
  ASSUME NEW pv \in PropertyValues
  PROVE  \/ pv.type = 1 /\ pv.value \in Num("bool", {0, 1})
         \/ pv.type = 4 /\ pv.value \in Num("float32", Uint32)
         \/ pv.type = 9 /\ pv.value \in Num("uint32", Uint32)
BY DEF PropertyValues

\* The content of a bool is in its tag, that of nothing is nothing.
LEMMA HoldsNothing ==
  /\ \A n : Holds(0, n, <<>>, GoNil)
  /\ Holds(1, 0, <<>>, GoNum("bool", 0))
  /\ Holds(1, 1, <<>>, GoNum("bool", 1))
<1>1. ASSUME NEW n, NEW c
      PROVE  Content(AppTag(0, n), c) = Holding(GoNil, c)
  <2>1. AppTag(0, n).id = 0
    BY DEF AppTag, Tag
  <2> QED
    BY <2>1 DEF Content, Holding
<1>2. ASSUME NEW n, NEW c
      PROVE  Content(AppTag(1, n), c) = Holding(GoNum("bool", IF n # 0 THEN 1 ELSE 0), c)
  <2>1. AppTag(1, n).id = 1 /\ AppTag(1, n).value = n
    BY DEF AppTag, Tag
  <2> QED
    BY <2>1 DEF Content, Holding
<1>3. PICK e : e = <<>>
  OBVIOUS
<1>4. Len(e) = 0
  BY <1>3, NoOctets
<1>5. ASSUME NEW n PROVE Holds(0, n, e, GoNil)
  BY <1>1, <1>4 DEF Holds
<1>6. Holds(1, 0, e, GoNum("bool", 0))
  BY <1>2, <1>4 DEF Holds
<1>7. Holds(1, 1, e, GoNum("bool", 1))
  BY <1>2, <1>4 DEF Holds
<1> QED
  BY <1>3, <1>5, <1>6, <1>7

LEMMA HoldsFloat ==
  ASSUME NEW v \in Uint32
  PROVE  Holds(4, 4, BigEndian(v, 4), GoNum("float32", v))
<1>1. 4 \in Uint32
  BY LengthOfValue
<1> QED
  BY <1>1, FloatContentAt DEF Holds, Holding

LEMMA AbstractTypes ==
  ASSUME NEW pv \in PropertyValues
  PROVE  AbstractTypeOK(pv) /\ pv.type \in Octet
<1>1. pv.type \in {1, 4, 9}
  BY PropertyValueFacts
<1>2. pv.type \in 0..12 /\ pv.type \in Octet
  BY <1>1, OctetRange
<1>3. pv.type = 1 => pv.value.kind = "bool"
  BY PropertyValueFacts, NumFacts
<1>4. pv.type = 4 => pv.value.kind = "float32"
  BY PropertyValueFacts, NumFacts
<1>5. pv.type = 9 => pv.value.kind = "uint32"
  BY PropertyValueFacts, NumFacts
<1> QED
  BY <1>1, <1>2, <1>3, <1>4, <1>5 DEF AbstractTypeOK, KindOfType

\* The octets v and s of a value to write, as the encoder writes it and any decoder reads it.
WrittenAs(pv, v, s) ==
  /\ v \in Uint32 /\ s \in Seq(Octet) /\ Len(s) <= 4
  /\ Holds(pv.type, v, s, pv.value)
  /\ \A t \in Seq(Octet) : ContextAbstractType(Encoded(t), 3, pv)
                             = Encoded(Join(t, PropertyOctets(3, pv.type, v, s)))

LEMMA WriteBool ==
  ASSUME NEW pv, pv.type = 1, pv.value \in Num("bool", {0, 1})
  PROVE  \E v : \E s : WrittenAs(pv, v, s)
<1>1. PICK s \in Seq(Octet) : s = <<>>
  BY NoOctets
<1>2. PICK v : v = pv.value.num
  OBVIOUS
<1>3. pv.value = GoNum("bool", v) /\ v \in {0, 1}
  BY <1>2, NumFacts
<1>4. v \in Uint32
  BY <1>3, OctetsAreUint32, SmallOctets
<1>5. Len(s) <= 4
  BY <1>1, NoOctets
<1>6. Holds(pv.type, v, s, pv.value)
  BY <1>1, <1>3, HoldsNothing
<1>7. ASSUME NEW t \in Seq(Octet)
      PROVE  ContextAbstractType(Encoded(t), 3, pv)
               = Encoded(Join(t, PropertyOctets(3, pv.type, v, s)))
  <2>1. ContextAbstractType(Encoded(t), 3, pv)
          = Write(Write(Write(Encoded(t), EncodeTag(OpeningTag(3))),
                        EncodeTag(AppTag(pv.type, v)) \o s),
                  EncodeTag(ClosingTag(3)))
    BY <1>1, <1>2 DEF ContextAbstractType
  <2>2. pv.type \in Octet
    BY SmallOctets
  <2> QED
    BY <1>4, <2>1, <2>2, SmallOctets, WroteProperty
<1> QED
  BY <1>4, <1>5, <1>6, <1>7 DEF WrittenAs

LEMMA WriteFloat ==
  ASSUME NEW pv, pv.type = 4, pv.value \in Num("float32", Uint32)
  PROVE  \E v : \E s : WrittenAs(pv, v, s)
<1>1. PICK n : n = pv.value.num
  OBVIOUS
<1>2. pv.value = GoNum("float32", n) /\ n \in Uint32
  BY <1>1, NumFacts
<1>3. PICK s : s = BigEndian(n, 4)
  OBVIOUS
<1>4. s \in Seq(Octet) /\ Len(s) = 4
  <2>1. PICK k \in 1..4 : k = 4
    OBVIOUS
  <2>2. n \in Nat
    BY <1>2 DEF Uint32
  <2> QED
    BY <1>3, <2>1, <2>2, BigEndianType
<1>5. PICK v \in Uint32 : v = 4
  BY OctetsAreUint32, SmallOctets
<1>6. Holds(pv.type, v, s, pv.value)
  BY <1>2, <1>3, <1>5, HoldsFloat
<1>7. ASSUME NEW t \in Seq(Octet)
      PROVE  ContextAbstractType(Encoded(t), 3, pv)
               = Encoded(Join(t, PropertyOctets(3, pv.type, v, s)))
  <2>1. ContextAbstractType(Encoded(t), 3, pv)
          = Write(Write(Write(Encoded(t), EncodeTag(OpeningTag(3))),
                        EncodeTag(AppTag(pv.type, v)) \o s),
                  EncodeTag(ClosingTag(3)))
    BY <1>1, <1>3, <1>5 DEF ContextAbstractType
  <2>2. pv.type \in Octet
    BY SmallOctets
  <2> QED
    BY <1>4, <2>1, <2>2, SmallOctets, WroteProperty
<1>8. s \in Seq(Octet) /\ Len(s) <= 4
  BY <1>4
<1>9. WrittenAs(pv, v, s)
  BY <1>6, <1>7, <1>8 DEF WrittenAs
<1> QED
  BY <1>9

LEMMA WriteUnsigned ==
  ASSUME NEW pv, pv.type = 9, pv.value \in Num("uint32", Uint32)
  PROVE  \E v : \E s : WrittenAs(pv, v, s)
<1>1. PICK n : n = pv.value.num
  OBVIOUS
<1>2. pv.value = GoNum("uint32", n) /\ n \in Uint32
  BY <1>1, NumFacts
<1>3. PICK s : s = Unsigned(n)
  OBVIOUS
<1>4. PICK v : v = ValueLength(n)
  OBVIOUS
<1>5. s \in Seq(Octet) /\ Len(s) = v /\ v \in 1..4 /\ v \in Uint32
  BY <1>2, <1>3, <1>4, LengthOfValue, UnsignedType
<1>6. Holds(pv.type, v, s, pv.value)
  <2>1. pv.type \in Kinds
    BY KindFacts
  <2> QED
    BY <1>2, <1>3, <1>4, <2>1, HoldsUnsigned
<1>7. ASSUME NEW t \in Seq(Octet)
      PROVE  ContextAbstractType(Encoded(t), 3, pv)
               = Encoded(Join(t, PropertyOctets(3, pv.type, v, s)))
  <2>1. Encoded(t).err = NoErr
    BY DEF Encoded
  <2>2. ContextAbstractType(Encoded(t), 3, pv)
          = Write(Write(Write(Encoded(t), EncodeTag(OpeningTag(3))),
                        EncodeTag(AppTag(pv.type, v)) \o s),
                  EncodeTag(ClosingTag(3)))
    BY <1>1, <1>3, <1>4, <2>1 DEF ContextAbstractType
  <2>3. pv.type \in Octet
    BY KindFacts
  <2> QED
    BY <1>5, <2>2, <2>3, SmallOctets, WroteProperty
<1>8. Len(s) <= 4
  BY <1>5
<1>9. v \in Uint32 /\ s \in Seq(Octet)
  BY <1>5
<1>10. WrittenAs(pv, v, s)
  BY <1>6, <1>7, <1>8, <1>9 DEF WrittenAs
<1> QED
  BY <1>10

LEMMA ValueWritten ==
  ASSUME NEW pv \in PropertyValues
  PROVE  \E v : \E s : WrittenAs(pv, v, s)
BY PropertyValueFacts, WriteBool, WriteFloat, WriteUnsigned

\* A request to write, between the request to read it is like and what the standard says.
Priority(p)         == IF p = 0 THEN <<>> ELSE Number(4, p)
ValueOctets(r, v, s) == Join(PropertyOctets(3, r.value.type, v, s), Priority(r.priority))

LEMMA PriorityFacts ==
  ASSUME NEW p \in Octet, NEW s, s = Priority(p)
  PROVE  s \in Seq(Octet) /\ Len(s) <= 11 /\ Len(s) \in Nat
<1>1. CASE p = 0
  BY <1>1, NoOctets DEF Priority
<1>2. CASE p # 0
  <2>1. s = Number(4, p)
    BY <1>2 DEF Priority
  <2> QED
    BY <2>1, OctetsAreUint32, SmallOctets, NumberFacts
<1> QED
  BY <1>1, <1>2

LEMMA ValueOctetsFacts ==
  ASSUME NEW r, r.priority \in Octet, r.value \in PropertyValues, NEW v, NEW s,
         WrittenAs(r.value, v, s), NEW u, u = ValueOctets(r, v, s)
  PROVE  u \in Seq(Octet) /\ Len(u) <= 36 /\ Len(u) \in Nat
<1>1. PICK p : p = PropertyOctets(3, r.value.type, v, s)
  OBVIOUS
<1>2. v \in Uint32 /\ s \in Seq(Octet) /\ Len(s) <= 4
  BY DEF WrittenAs
<1>3. p \in Seq(Octet) /\ Len(p) <= 21 + Len(s) /\ Len(p) \in Nat /\ Len(s) \in Nat
  BY <1>1, <1>2, AbstractTypes, SmallOctets, PropertyFacts
<1>4. PICK q : q = Priority(r.priority)
  OBVIOUS
<1>5. q \in Seq(Octet) /\ Len(q) <= 11 /\ Len(q) \in Nat
  BY <1>4, PriorityFacts
<1>6. u = Join(p, q)
  BY <1>1, <1>4 DEF ValueOctets
<1>7. u \in Seq(Octet) /\ Len(u) = Len(p) + Len(q)
  BY <1>3, <1>5, <1>6, JoinFacts
<1> QED
  BY <1>2, <1>3, <1>5, <1>7

LEMMA MarshalWriteAt ==
  ASSUME NEW r, Readable(r), r.priority \in Octet, r.value \in PropertyValues, NEW v, NEW s,
         WrittenAs(r.value, v, s)
  PROVE  MarshalWriteProperty(r) = Encoded(ReadOctets(r, ValueOctets(r, v, s)))
<1>1. PICK n \in Seq(Octet) : n = <<>>
  BY NoOctets
<1>2. PICK t \in Seq(Octet) : t = ReadOctets(r, n)
  BY ReadOctetsFacts
<1>3. PICK p : p = PropertyOctets(3, r.value.type, v, s)
  OBVIOUS
<1>4. p \in Seq(Octet)
  BY <1>3, AbstractTypes, SmallOctets, PropertyFacts DEF WrittenAs
<1>5. PICK value : value = ContextAbstractType(MarshalReadProperty(r), 3, r.value)
  OBVIOUS
<1>6. MarshalReadProperty(r) = Encoded(t)
  BY <1>1, <1>2, MarshalReadAt
<1>7. value = Encoded(Join(t, p))
  BY <1>3, <1>5, <1>6 DEF WrittenAs
<1>8. PICK tp \in Seq(Octet) : tp = Join(t, p)
  BY <1>4, JoinFacts
<1>9. PICK q \in Seq(Octet) : q = Priority(r.priority)
  BY PriorityFacts
<1>10. MarshalWriteProperty(r) = Encoded(Join(tp, q))
  <2>1. CASE r.priority = 0
    <3>1. MarshalWriteProperty(r) = value
      BY <1>5, <2>1, AbstractTypes DEF MarshalWriteProperty
    <3>2. q = <<>>
      BY <1>9, <2>1 DEF Priority
    <3>3. Join(tp, q) = tp
      BY <3>2, JoinEnd
    <3> QED
      BY <1>7, <1>8, <3>1, <3>3
  <2>2. CASE r.priority # 0
    <3>1. MarshalWriteProperty(r) = ContextUnsigned(value, 4, r.priority)
      BY <1>5, <2>2, AbstractTypes DEF MarshalWriteProperty
    <3>2. q = Number(4, r.priority)
      BY <1>9, <2>2 DEF Priority
    <3>3. r.priority \in Uint32
      BY OctetsAreUint32
    <3> QED
      BY <1>7, <1>8, <3>1, <3>2, <3>3, SmallOctets, WroteNumber
  <2> QED
    BY <2>1, <2>2
<1>11. Join(tp, q) = Join(t, Join(p, q))
  BY <1>4, <1>8, JoinTwice
<1>12. PICK u \in Seq(Octet) : u = Join(p, q)
  BY <1>4, JoinFacts
<1>13. Join(t, u) = ReadOctets(r, u)
  BY <1>1, <1>2, ReadThen
<1>14. ValueOctets(r, v, s) = u
  BY <1>3, <1>9, <1>12 DEF ValueOctets
<1> QED
  BY <1>10, <1>11, <1>12, <1>13, <1>14

LEMMA KeepsError ==
  ASSUME NEW e, NEW pv \in PropertyValues
  PROVE  ContextAbstractType(e, 3, pv).err = e.err
<1>1. pv.type \in {1, 4, 9}
  BY PropertyValueFacts
<1>2. \A x, s : Write(x, s).err = x.err
  BY DEF Write
<1>3. PICK body : ContextAbstractType(e, 3, pv) = Write(body, EncodeTag(ClosingTag(3)))
                  /\ body.err = e.err
  <2>1. PICK open : open = Write(e, EncodeTag(OpeningTag(3)))
    OBVIOUS
  <2>2. open.err = e.err
    BY <1>2, <2>1
  <2>3. PICK body : ContextAbstractType(e, 3, pv) = Write(body, EncodeTag(ClosingTag(3)))
                    /\ \/ body = open
                       \/ \E s : body = Write(open, s)
    BY <1>1, <2>1 DEF ContextAbstractType
  <2> QED
    BY <1>2, <2>2, <2>3
<1> QED
  BY <1>2, <1>3

LEMMA NotWritable ==
  ASSUME NEW r, ~ValidForEncode(r.object), r.value \in PropertyValues
  PROVE  MarshalWriteProperty(r).err # NoErr
<1>1. PICK value : value = ContextAbstractType(MarshalReadProperty(r), 3, r.value)
  OBVIOUS
<1>2. value.err # NoErr
  BY <1>1, NotReadable, KeepsError
<1>3. ContextUnsigned(value, 4, r.priority) = value
  BY <1>2, StaysWrong
<1> QED
  BY <1>1, <1>2, <1>3, AbstractTypes DEF MarshalWriteProperty

----------------------------------------------------------------------------
\* How the device reads a request, parameter by parameter.
Params(o, p, i, v, r, d) ==
  [object |-> o, property |-> p, index |-> i, value |-> v, priority |-> r, dec |-> d]

ParamFields == {"object", "property", "index", "value", "priority", "dec"}

LEMMA ParamsAre ==
  ASSUME NEW k, HasFields(k, ParamFields)
  PROVE  k = Params(k.object, k.property, k.index, k.value, k.priority, k.dec)
BY DEF Params, HasFields, ParamFields

LEMMA TakenFields ==
  ASSUME NEW o, NEW p, NEW i, NEW v, NEW r, NEW d, NEW x,
         NEW k, k = Params(o, p, i, v, r, d)
  PROVE  /\ Taken(k, "object", x) = Params(x.val, p, i, v, r, x.dec)
         /\ Taken(k, "property", x) = Params(o, x.val, i, v, r, x.dec)
         /\ Taken(k, "index", x) = Params(o, p, x.val, v, r, x.dec)
         /\ Taken(k, "value", x) = Params(o, p, i, x.val, r, x.dec)
         /\ Taken(k, "priority", x) = Params(o, p, i, v, x.val, x.dec)
<1>1. Taken(k, "object", x) = Params(x.val, p, i, v, r, x.dec)
  <2>1. PICK t : t = Taken(k, "object", x)
    OBVIOUS
  <2>2. HasFields(t, ParamFields)
    BY <2>1 DEF Taken, HasFields, ParamFields, Params
  <2>3. t.object = x.val /\ t.property = p /\ t.index = i
        /\ t.value = v /\ t.priority = r /\ t.dec = x.dec
    BY <2>1 DEF Taken, Params
  <2> QED
    BY <2>1, <2>2, <2>3, ParamsAre
<1>2. Taken(k, "property", x) = Params(o, x.val, i, v, r, x.dec)
  <2>1. PICK t : t = Taken(k, "property", x)
    OBVIOUS
  <2>2. HasFields(t, ParamFields)
    BY <2>1 DEF Taken, HasFields, ParamFields, Params
  <2>3. t.object = o /\ t.property = x.val /\ t.index = i
        /\ t.value = v /\ t.priority = r /\ t.dec = x.dec
    BY <2>1 DEF Taken, Params
  <2> QED
    BY <2>1, <2>2, <2>3, ParamsAre
<1>3. Taken(k, "index", x) = Params(o, p, x.val, v, r, x.dec)
  <2>1. PICK t : t = Taken(k, "index", x)
    OBVIOUS
  <2>2. HasFields(t, ParamFields)
    BY <2>1 DEF Taken, HasFields, ParamFields, Params
  <2>3. t.object = o /\ t.property = p /\ t.index = x.val
        /\ t.value = v /\ t.priority = r /\ t.dec = x.dec
    BY <2>1 DEF Taken, Params
  <2> QED
    BY <2>1, <2>2, <2>3, ParamsAre
<1>4. Taken(k, "value", x) = Params(o, p, i, x.val, r, x.dec)
  <2>1. PICK t : t = Taken(k, "value", x)
    OBVIOUS
  <2>2. HasFields(t, ParamFields)
    BY <2>1 DEF Taken, HasFields, ParamFields, Params
  <2>3. t.object = o /\ t.property = p /\ t.index = i
        /\ t.value = x.val /\ t.priority = r /\ t.dec = x.dec
    BY <2>1 DEF Taken, Params
  <2> QED
    BY <2>1, <2>2, <2>3, ParamsAre
<1>5. Taken(k, "priority", x) = Params(o, p, i, v, x.val, x.dec)
  <2>1. PICK t : t = Taken(k, "priority", x)
    OBVIOUS
  <2>2. HasFields(t, ParamFields)
    BY <2>1 DEF Taken, HasFields, ParamFields, Params
  <2>3. t.object = o /\ t.property = p /\ t.index = i
        /\ t.value = v /\ t.priority = x.val /\ t.dec = x.dec
    BY <2>1 DEF Taken, Params
  <2> QED
    BY <2>1, <2>2, <2>3, ParamsAre
<1> QED
  BY <1>1, <1>2, <1>3, <1>4, <1>5

LEMMA TakeProperty ==
  ASSUME NEW id \in Octet, NEW type \in Octet, NEW v \in Uint32, NEW s \in Seq(Octet), NEW w,
         Holds(type, v, s, w), NEW t \in Seq(Octet), NEW b,
         Left(b, Join(PropertyOctets(id, type, v, s), t)),
         NEW r, r = DecodeAbstractType(Fresh(b), id)
  PROVE  r.val = w /\ \E c : r.dec = Fresh(c) /\ Left(c, t)
<1>1. PICK p \in Seq(Octet) : p = PropertyOctets(id, type, v, s)
  BY PropertyFacts
<1>2. PICK c : c = Behind(b, Len(p))
  OBVIOUS
<1>3. At(b, p) /\ Left(c, t)
  BY <1>1, <1>2, LeftJoin
<1>4. r = Result(c, NoErr, w)
  BY <1>1, <1>2, <1>3, PropertyAt
<1> QED
  BY <1>3, <1>4, ResultIs

\* Which parameter comes next.
LEMMA NumberPresent ==
  ASSUME NEW id \in Octet, NEW v \in Uint32, NEW t \in Seq(Octet), NEW b,
         Left(b, Join(Number(id, v), t)), NEW j
  PROVE  Present(DecodeTag(b), j) <=> j = id
<1>1. PICK n \in Uint32 : n = ValueLength(v)
  BY LengthOfValue
<1>2. PICK s \in Seq(Octet) : s = Unsigned(v)
  BY UnsignedType
<1>3. PICK g \in Tags : g = ContextTag(id, n)
  BY TagsBuilt
<1>4. PICK n1 : n1 = Number(id, v)
  OBVIOUS
<1>40. n1 = Tagged(g, s) /\ Left(b, Join(n1, t))
  BY <1>1, <1>2, <1>3, <1>4 DEF Number
<1>41. TagNext(b, g)
  BY <1>40, TaggedNext
<1>5. DecodeTag(b).ok = TRUE /\ DecodeTag(b).tag = g
  BY <1>41 DEF TagNext
<1>6. g.context = TRUE /\ g.id = id
  BY <1>3 DEF ContextTag, Tag
<1> QED
  BY <1>5, <1>6 DEF Present

LEMMA PropertyPresent ==
  ASSUME NEW id \in Octet, NEW type \in Octet, NEW v \in Uint32, NEW s \in Seq(Octet),
         NEW t \in Seq(Octet), NEW b, Left(b, Join(PropertyOctets(id, type, v, s), t)), NEW j
  PROVE  Present(DecodeTag(b), j) <=> j = id
<1>1. 0 \in Uint32
  BY OctetsAreUint32, SmallOctets
<1>2. PICK g \in Tags : g = OpeningTag(id)
  BY <1>1, TagsBuilt
<1>3. PICK z \in Seq(Octet) : z = EncodeTag(ClosingTag(id))
  BY <1>1, TagsBuilt, TagType
<1>4. PICK u \in Seq(Octet) : u = App(type, v, s)
  BY AppFacts
<1>5. PICK x \in Seq(Octet) : x = Join(u, z)
  BY JoinFacts
<1>6. PropertyOctets(id, type, v, s) = Join(EncodeTag(g), x)
  BY <1>2, <1>3, <1>4, <1>5, PropertyIs
<1>7. PICK p : p = PropertyOctets(id, type, v, s)
  OBVIOUS
<1>70. p = Tagged(g, x) /\ Left(b, Join(p, t))
  BY <1>6, <1>7 DEF Tagged
<1>71. TagNext(b, g)
  BY <1>70, TaggedNext
<1>8. DecodeTag(b).ok = TRUE /\ DecodeTag(b).tag = g
  BY <1>71 DEF TagNext
<1>9. g.context = TRUE /\ g.id = id
  BY <1>2 DEF OpeningTag, Tag
<1> QED
  BY <1>8, <1>9 DEF Present

LEMMA NonePresent ==
  ASSUME NEW b, NEW n, n = <<>>, Left(b, n), NEW j
  PROVE  ~Present(DecodeTag(b), j)
BY NoNextTag DEF Present

\* The octets t do not begin with parameter id.
NotNext(t, id) == \A b : Left(b, t) => ~Present(DecodeTag(b), id)

LEMMA IndexParameterAt ==
  ASSUME NEW i \in IndexSet, NEW t \in Seq(Octet), NotNext(t, 2), NEW b, Left(b, IndexThen(i, t)),
         NEW o, NEW p, NEW v, NEW r, NEW k, k = Params(o, p, NoIndex, v, r, Fresh(b))
  PROVE  \E c : Left(c, t) /\ IfPresent(k, "index", 2, ContextValue)
                                = Params(o, p, i, v, r, Fresh(c))
<1>1. k.dec.buf = b /\ k.dec = Fresh(b)
  BY DEF Params, Fresh
<1>2. CASE i = NoIndex
  <2>1. Left(b, t)
    BY <1>2 DEF IndexThen
  <2>2. ~Present(DecodeTag(b), 2)
    BY <2>1 DEF NotNext
  <2>3. IfPresent(k, "index", 2, ContextValue) = k
    BY <1>1, <2>2 DEF IfPresent
  <2> QED
    BY <1>2, <2>1, <2>3
<1>3. CASE i # NoIndex
  <2>1. PICK two \in Octet : two = 2
    BY SmallOctets
  <2>2. i \in Uint32
    BY <1>3, IndexFacts
  <2>3. Left(b, Join(Number(two, i), t))
    BY <1>3, <2>1 DEF IndexThen
  <2>4. Present(DecodeTag(b), two)
    BY <2>2, <2>3, NumberPresent
  <2>5. PICK x : x = ContextValue(Fresh(b), two)
    OBVIOUS
  <2>6. x.val = i /\ \E c : x.dec = Fresh(c) /\ Left(c, t)
    BY <2>2, <2>3, <2>5, TakeNumber
  <2>7. IfPresent(k, "index", 2, ContextValue) = Taken(k, "index", x)
    BY <1>1, <2>1, <2>4, <2>5 DEF IfPresent
  <2>8. Taken(k, "index", x) = Params(o, p, x.val, v, r, x.dec)
    BY TakenFields
  <2> QED
    BY <2>6, <2>7, <2>8
<1> QED
  BY <1>2, <1>3

LEMMA ValueParameterAt ==
  ASSUME NEW type \in Octet, NEW n \in Uint32, NEW s \in Seq(Octet), NEW w,
         Holds(type, n, s, w), NEW t \in Seq(Octet), NEW b,
         Left(b, Join(PropertyOctets(3, type, n, s), t)),
         NEW o, NEW p, NEW i, NEW v, NEW r, NEW k, k = Params(o, p, i, v, r, Fresh(b))
  PROVE  \E c : Left(c, t) /\ IfPresent(k, "value", 3, DecodeAbstractType)
                                = Params(o, p, i, w, r, Fresh(c))
<1>1. k.dec.buf = b /\ k.dec = Fresh(b)
  BY DEF Params, Fresh
<1>2. PICK three \in Octet : three = 3
  BY SmallOctets
<1>3. Left(b, Join(PropertyOctets(three, type, n, s), t))
  BY <1>2
<1>4. Present(DecodeTag(b), three)
  BY <1>3, PropertyPresent
<1>5. PICK x : x = DecodeAbstractType(Fresh(b), three)
  OBVIOUS
<1>6. x.val = w /\ \E c : x.dec = Fresh(c) /\ Left(c, t)
  BY <1>3, <1>5, TakeProperty
<1>7. IfPresent(k, "value", 3, DecodeAbstractType) = Taken(k, "value", x)
  BY <1>1, <1>2, <1>4, <1>5 DEF IfPresent
<1>8. Taken(k, "value", x) = Params(o, p, i, x.val, r, x.dec)
  BY TakenFields
<1> QED
  BY <1>6, <1>7, <1>8

LEMMA PriorityParameterAt ==
  ASSUME NEW q \in Octet, NEW b, Left(b, Priority(q)),
         NEW o, NEW p, NEW i, NEW v, NEW k, k = Params(o, p, i, v, 0, Fresh(b))
  PROVE  \E c : Left(c, <<>>) /\ IfPresent(k, "priority", 4, ContextValue)
                                   = Params(o, p, i, v, q, Fresh(c))
<1>1. k.dec.buf = b /\ k.dec = Fresh(b)
  BY DEF Params, Fresh
<1>2. PICK n \in Seq(Octet) : n = <<>>
  BY NoOctets
<1>3. CASE q = 0
  <2>1. Left(b, n)
    BY <1>2, <1>3 DEF Priority
  <2>2. ~Present(DecodeTag(b), 4)
    BY <1>2, <2>1, NonePresent
  <2>3. IfPresent(k, "priority", 4, ContextValue) = k
    BY <1>1, <2>2 DEF IfPresent
  <2> QED
    BY <1>2, <1>3, <2>1, <2>3
<1>4. CASE q # 0
  <2>1. PICK four \in Octet : four = 4
    BY SmallOctets
  <2>2. q \in Uint32
    BY OctetsAreUint32
  <2>3. PICK m \in Seq(Octet) : m = Number(four, q)
    BY <2>2, NumberFacts
  <2>4. m = Join(m, n)
    BY <1>2, JoinEnd
  <2>5. Left(b, m)
    BY <1>4, <2>1, <2>3 DEF Priority
  <2>6. Left(b, Join(Number(four, q), n))
    BY <2>3, <2>4, <2>5
  <2>7. Present(DecodeTag(b), four)
    BY <2>2, <2>6, NumberPresent
  <2>8. PICK x : x = ContextValue(Fresh(b), four)
    OBVIOUS
  <2>9. x.val = q /\ \E c : x.dec = Fresh(c) /\ Left(c, n)
    BY <2>2, <2>6, <2>8, TakeNumber
  <2>10. IfPresent(k, "priority", 4, ContextValue) = Taken(k, "priority", x)
    BY <1>1, <2>1, <2>7, <2>8 DEF IfPresent
  <2>11. Taken(k, "priority", x) = Params(o, p, i, v, x.val, x.dec)
    BY TakenFields
  <2> QED
    BY <1>2, <2>9, <2>10, <2>11
<1> QED
  BY <1>3, <1>4

LEMMA IndexedAt ==
  ASSUME NEW r, Readable(r), NEW t \in Seq(Octet), NotNext(t, 2),
         NEW d, d = ReadOctets(r, t), NEW o, NEW z, NEW v,
         NEW k, k = Params(o, z, NoIndex, v, z, NewDecoder(d))
  PROVE  \E c : /\ Left(c, t)
                /\ IfPresent(ThenProperty(Taken(k, "object", DecodeObjectID(k.dec, 0))),
                             "index", 2, ContextValue)
                     = Params(r.object, r.property, r.index, v, z, Fresh(c))
<1>1. PICK zero \in Octet : zero = 0
  BY SmallOctets
<1>2. PICK one \in Octet : one = 1
  BY SmallOctets
<1>3. PICK rest \in Seq(Octet) : rest = IndexThen(r.index, t)
  BY IndexThenFacts DEF Readable
<1>4. PICK b \in Seq(Octet) : b = Number(one, r.property)
  BY NumberFacts DEF Readable
<1>5. PICK u \in Seq(Octet) : u = Join(b, rest)
  BY JoinFacts
<1>6. d = Join(Named(zero, r.object), u)
  BY <1>1, <1>2, <1>3, <1>4, <1>5 DEF ReadOctets
<1>7. d \in Seq(Octet)
  BY ReadOctetsFacts
<1>8. PICK b0 : b0 = NewBuffer(d)
  OBVIOUS
<1>9. NewDecoder(d) = Fresh(b0) /\ Left(b0, d)
  BY <1>7, <1>8, StartDecoding
<1>10. k.dec = Fresh(b0)
  BY <1>9 DEF Params
<1>11. PICK x : x = DecodeObjectID(Fresh(b0), zero)
  OBVIOUS
<1>12. x.val = r.object /\ \E c : x.dec = Fresh(c) /\ Left(c, u)
  BY <1>6, <1>9, <1>11, TakeNamed DEF Readable
<1>13. PICK b1 : x.dec = Fresh(b1) /\ Left(b1, u)
  BY <1>12
<1>14. PICK k1 : k1 = Taken(k, "object", DecodeObjectID(k.dec, 0))
  OBVIOUS
<1>15. k1 = Params(r.object, z, NoIndex, v, z, Fresh(b1))
  <2>1. k1 = Taken(k, "object", x)
    BY <1>1, <1>10, <1>11, <1>14
  <2>2. Taken(k, "object", x) = Params(x.val, z, NoIndex, v, z, x.dec)
    BY TakenFields
  <2> QED
    BY <1>12, <1>13, <2>1, <2>2
<1>16. k1.dec = Fresh(b1)
  BY <1>15 DEF Params
<1>17. PICK y : y = ContextValue(Fresh(b1), one)
  OBVIOUS
<1>18. y.val = r.property /\ \E c : y.dec = Fresh(c) /\ Left(c, rest)
  <2>1. PICK p \in Uint32 : p = r.property
    BY DEF Readable
  <2>2. Left(b1, Join(Number(one, p), rest))
    BY <1>4, <1>5, <1>13, <2>1
  <2>3. y.val = p /\ \E c : y.dec = Fresh(c) /\ Left(c, rest)
    BY <1>17, <2>2, TakeNumber
  <2> QED
    BY <2>1, <2>3
<1>19. PICK b2 : y.dec = Fresh(b2) /\ Left(b2, rest)
  BY <1>18
<1>20. PICK k2 : k2 = ThenProperty(k1)
  OBVIOUS
<1>21. k2 = Params(r.object, r.property, NoIndex, v, z, Fresh(b2))
  <2>1. k2 = Taken(k1, "property", y)
    BY <1>2, <1>16, <1>17, <1>20 DEF ThenProperty
  <2>2. Taken(k1, "property", y) = Params(r.object, y.val, NoIndex, v, z, y.dec)
    BY <1>15, TakenFields
  <2> QED
    BY <1>18, <1>19, <2>1, <2>2
<1>22. Left(b2, IndexThen(r.index, t))
  BY <1>3, <1>19
<1>23. \E c : Left(c, t) /\ IfPresent(k2, "index", 2, ContextValue)
                             = Params(r.object, r.property, r.index, v, z, Fresh(c))
  BY <1>21, <1>22, IndexParameterAt DEF Readable
<1> QED
  BY <1>14, <1>20, <1>23

\* As a request to read is read, and one to write.
LEMMA ReadParametersAt ==
  ASSUME NEW r, Readable(r), NEW n, n = <<>>, NEW d, d = ReadOctets(r, n)
  PROVE  \E c : Left(c, n) /\ Parameters(d) = Params(r.object, r.property, r.index, GoNil, 0, Fresh(c))
<1>1. n \in Seq(Octet)
  BY NoOctets
<1>2. NotNext(n, 2)
  BY NonePresent DEF NotNext
<1>3. PICK k : k = Params(NoObject, 0, NoIndex, GoNil, 0, NewDecoder(d))
  OBVIOUS
<1>4. PICK i : i = IfPresent(ThenProperty(Taken(k, "object", DecodeObjectID(k.dec, 0))),
                             "index", 2, ContextValue)
  OBVIOUS
<1>5. \E c : Left(c, n) /\ i = Params(r.object, r.property, r.index, GoNil, 0, Fresh(c))
  <2>1. PICK z : z = 0
    OBVIOUS
  <2>2. PICK v : v = GoNil
    OBVIOUS
  <2>3. PICK o : o = NoObject
    OBVIOUS
  <2>4. k = Params(o, z, NoIndex, v, z, NewDecoder(d))
    BY <1>3, <2>1, <2>2, <2>3
  <2>5. PICK t \in Seq(Octet) : t = n
    BY <1>1
  <2>6. NotNext(t, 2) /\ d = ReadOctets(r, t)
    BY <1>2, <2>5
  <2>7. \E c : Left(c, t) /\ i = Params(r.object, r.property, r.index, v, z, Fresh(c))
    BY <1>4, <2>4, <2>6, IndexedAt
  <2> QED
    BY <2>1, <2>2, <2>5, <2>7
<1>6. PICK c : Left(c, n) /\ i = Params(r.object, r.property, r.index, GoNil, 0, Fresh(c))
  BY <1>5
<1>7. i.dec.buf = c
  BY <1>6 DEF Params, Fresh
<1>8. ~Present(DecodeTag(c), 3) /\ ~Present(DecodeTag(c), 4)
  BY <1>6, NonePresent
<1>9. IfPresent(i, "value", 3, DecodeAbstractType) = i
  BY <1>7, <1>8 DEF IfPresent
<1>10. IfPresent(i, "priority", 4, ContextValue) = i
  BY <1>7, <1>8 DEF IfPresent
<1>11. Parameters(d) = IfPresent(IfPresent(i, "value", 3, DecodeAbstractType), "priority", 4, ContextValue)
  BY <1>3, <1>4 DEF Parameters, Params
<1> QED
  BY <1>6, <1>9, <1>10, <1>11

LEMMA WriteParametersAt ==
  ASSUME NEW r, Readable(r), r.priority \in Octet, r.value \in PropertyValues, NEW v, NEW s,
         WrittenAs(r.value, v, s), NEW d, d = ReadOctets(r, ValueOctets(r, v, s))
  PROVE  \E c : /\ Left(c, <<>>)
                /\ Parameters(d) = Params(r.object, r.property, r.index, r.value.value,
                                          r.priority, Fresh(c))
<1>1. PICK q \in Seq(Octet) : q = Priority(r.priority)
  BY PriorityFacts
<1>2. PICK three \in Octet : three = 3
  BY SmallOctets
<1>3. PICK type \in Octet : type = r.value.type
  BY AbstractTypes
<1>4. v \in Uint32 /\ s \in Seq(Octet) /\ Holds(type, v, s, r.value.value)
  BY <1>3 DEF WrittenAs
<1>5. PICK p \in Seq(Octet) : p = PropertyOctets(three, type, v, s)
  BY <1>4, PropertyFacts
<1>6. PICK t \in Seq(Octet) : t = Join(p, q)
  BY JoinFacts
<1>7. ValueOctets(r, v, s) = t
  BY <1>1, <1>2, <1>3, <1>5, <1>6 DEF ValueOctets
<1>8. NotNext(t, 2)
  <2>1. ASSUME NEW b, Left(b, t) PROVE ~Present(DecodeTag(b), 2)
    <3>1. Left(b, Join(PropertyOctets(three, type, v, s), q))
      BY <1>5, <1>6, <2>1
    <3>2. PICK j : j = 2
      OBVIOUS
    <3>3. Present(DecodeTag(b), j) <=> j = three
      BY <1>4, <3>1, PropertyPresent
    <3> QED
      BY <1>2, <3>2, <3>3
  <2> QED
    BY <2>1 DEF NotNext
<1>9. PICK k : k = Params(NoObject, 0, NoIndex, GoNil, 0, NewDecoder(d))
  OBVIOUS
<1>10. PICK i : i = IfPresent(ThenProperty(Taken(k, "object", DecodeObjectID(k.dec, 0))),
                              "index", 2, ContextValue)
  OBVIOUS
<1>11. \E c : Left(c, t) /\ i = Params(r.object, r.property, r.index, GoNil, 0, Fresh(c))
  BY <1>7, <1>8, <1>9, <1>10, IndexedAt
<1>12. PICK c : Left(c, t) /\ i = Params(r.object, r.property, r.index, GoNil, 0, Fresh(c))
  BY <1>11
<1>13. PICK w : w = IfPresent(i, "value", 3, DecodeAbstractType)
  OBVIOUS
<1>14. \E e : Left(e, q) /\ w = Params(r.object, r.property, r.index, r.value.value, 0, Fresh(e))
  <2>1. Left(c, Join(PropertyOctets(3, type, v, s), q))
    BY <1>2, <1>5, <1>6, <1>12
  <2> QED
    BY <1>4, <1>12, <1>13, <2>1, ValueParameterAt
<1>15. PICK e : Left(e, q) /\ w = Params(r.object, r.property, r.index, r.value.value, 0, Fresh(e))
  BY <1>14
<1>16. \E x : /\ Left(x, <<>>)
              /\ IfPresent(w, "priority", 4, ContextValue)
                   = Params(r.object, r.property, r.index, r.value.value, r.priority, Fresh(x))
  BY <1>1, <1>15, PriorityParameterAt
<1>17. Parameters(d) = IfPresent(w, "priority", 4, ContextValue)
  BY <1>9, <1>10, <1>13 DEF Parameters, Params
<1> QED
  BY <1>16, <1>17

----------------------------------------------------------------------------
\* The octets n and s of a value as the device writes it.
Standard(v, n, s) ==
  /\ v.tag \in Octet /\ n \in Uint32 /\ s \in Seq(Octet) /\ Len(s) <= 1477
  /\ StandardValue(v) = App(v.tag, n, s)

LEMMA TextFacts ==
  ASSUME NEW w \in Text
  PROVE  w = GoString(w.str) /\ w.kind = "string" /\ w.str \in Seq(Octet) /\ Len(w.str) <= 1476
BY DEF Text, GoString, GoNum, MaxText

LEMMA ObjectIDFacts ==
  ASSUME NEW w \in ObjectIDs
  PROVE  w = GoObject(w.obj) /\ w.obj \in DeviceObjects
BY DEF ObjectIDs, GoObject, GoNum

LEMMA DeviceObjectsAreValid ==
  ASSUME NEW o \in DeviceObjects
  PROVE  ValidObject(o)
<1>1. /\ o.type \in 0..(MaxObjectType - 1) /\ o.instance \in 0..MaxInstance
      /\ o = [type |-> o.type, instance |-> o.instance]
  BY DEF DeviceObjects
<1>2. MaxObjectType = 1024 /\ MaxInstance \in Nat
  BY DEF MaxObjectType, TypeBits, MaxInstance, InstanceBits
<1> QED
  BY <1>1, <1>2 DEF ValidObject

LEMMA DecodedFacts ==
  ASSUME NEW v \in Decoded
  PROVE  \/ v.tag = 0 /\ v.value = GoNil
         \/ v.tag = 1 /\ v.value \in Num("bool", {0, 1})
         \/ v.tag \in {2, 9} /\ v.value \in Num("uint32", Uint32)
         \/ v.tag = 4 /\ v.value \in Num("float32", Uint32)
         \/ v.tag = 7 /\ v.value \in Text
         \/ v.tag = 12 /\ v.value \in ObjectIDs
BY DEF Decoded

LEMMA NotDecodedFacts ==
  ASSUME NEW v \in NotDecoded
  PROVE  \/ v.tag = 3 /\ v.value \in Num("int32", Octet)
         \/ v.tag = 5 /\ v.value \in Num("float64", Uint32)
BY DEF NotDecoded

LEMMA WroteFirst ==
  ASSUME NEW id \in Octet, NEW t \in Seq(Octet), NEW n \in Uint32, n = Len(t)
  PROVE  WriteIfNoErr(NewEncoder, EncodeTag(AppTag(id, Len(t))) \o t).bytes = App(id, n, t)
<1>1. PICK u : u = EncodeTag(AppTag(id, n)) \o t
  OBVIOUS
<1>2. u = App(id, n, t) /\ u \in Seq(Octet)
  BY <1>1, AppIs
<1>3. PICK e \in Seq(Octet) : e = <<>>
  BY NoOctets
<1>4. WriteIfNoErr(Encoded(e), u) = Encoded(Join(e, u))
  BY <1>2, WroteMore
<1>5. Join(e, u) = u
  BY <1>2, <1>3, JoinNothing
<1>6. NewEncoder = Encoded(e)
  BY <1>3, StartEncoding
<1>7. WriteIfNoErr(NewEncoder, u) = Encoded(u)
  BY <1>4, <1>5, <1>6
<1>8. WriteIfNoErr(NewEncoder, u).bytes = u
  BY <1>7 DEF Encoded
<1> QED
  BY <1>1, <1>2, <1>8

LEMMA StandardNil ==
  ASSUME NEW v, v.tag = 0, v.value = GoNil
  PROVE  \E n : \E s : Standard(v, n, s) /\ Holds(v.tag, n, s, v.value)
<1>1. PICK s \in Seq(Octet) : s = <<>>
  BY NoOctets
<1>2. PICK n \in Uint32 : n = 0
  BY OctetsAreUint32, SmallOctets
<1>3. PICK k \in Octet : k = 0
  BY SmallOctets
<1>4. Len(s) = n /\ Len(s) <= 1477
  BY <1>1, <1>2, NoOctets
<1>5. WriteIfNoErr(NewEncoder, EncodeTag(AppTag(k, Len(s))) \o s).bytes = App(k, n, s)
  BY <1>4, WroteFirst
<1>6. GoNil.kind = "nil"
  BY DEF GoNil, GoNum
<1>7. StandardValue(v) = WriteIfNoErr(NewEncoder, EncodeTag(AppTag(0, Len(<<>>))) \o <<>>).bytes
  BY <1>6 DEF StandardValue, EncodeAppData
<1>8. StandardValue(v) = App(v.tag, n, s)
  BY <1>1, <1>3, <1>5, <1>7
<1>9. Holds(v.tag, n, s, v.value)
  BY <1>1, HoldsNothing
<1>10. v.tag \in Octet
  BY SmallOctets
<1> QED
  BY <1>4, <1>8, <1>9, <1>10 DEF Standard

LEMMA StandardBool ==
  ASSUME NEW v, v.tag = 1, v.value \in Num("bool", {0, 1})
  PROVE  \E n : \E s : Standard(v, n, s) /\ Holds(v.tag, n, s, v.value)
<1>1. PICK s \in Seq(Octet) : s = <<>>
  BY NoOctets
<1>2. PICK n : n = v.value.num
  OBVIOUS
<1>3. v.value = GoNum("bool", n) /\ n \in {0, 1}
  BY <1>2, NumFacts
<1>4. n \in Uint32
  BY <1>3, OctetsAreUint32, SmallOctets
<1>5. PICK k \in Octet : k = 1
  BY SmallOctets
<1>6. PICK e \in Seq(Octet) : e = EncodeTag(AppTag(k, n))
  BY <1>4, TagsBuilt, TagType
<1>7. Join(e, s) = e
  BY <1>1, JoinEnd
<1>8. App(k, n, s) = e
  BY <1>6, <1>7 DEF App, Tagged
<1>9. StandardValue(v) = EncodeTag(AppTag(1, v.value.num))
  BY DEF StandardValue
<1>10. StandardValue(v) = App(v.tag, n, s)
  BY <1>2, <1>5, <1>6, <1>8, <1>9
<1>11. Holds(v.tag, n, s, v.value)
  BY <1>1, <1>3, HoldsNothing
<1>12. v.tag \in Octet
  BY SmallOctets
<1>13. Len(s) <= 1477
  BY <1>1, NoOctets
<1> QED
  BY <1>4, <1>10, <1>11, <1>12, <1>13 DEF Standard

LEMMA StandardUnsigned ==
  ASSUME NEW v, v.tag \in {2, 9}, v.value \in Num("uint32", Uint32)
  PROVE  \E n : \E s : Standard(v, n, s) /\ Holds(v.tag, n, s, v.value)
<1>1. PICK x : x = v.value.num
  OBVIOUS
<1>2. v.value = GoNum("uint32", x) /\ x \in Uint32 /\ v.value.kind = "uint32"
  BY <1>1, NumFacts
<1>3. PICK s : s = Unsigned(x)
  OBVIOUS
<1>4. PICK n : n = ValueLength(x)
  OBVIOUS
<1>5. s \in Seq(Octet) /\ Len(s) = n /\ n \in 1..4 /\ n \in Uint32
  BY <1>2, <1>3, <1>4, LengthOfValue, UnsignedType
<1>6. Len(s) <= 1477
  BY <1>5
<1>7. v.tag \in Kinds /\ v.tag \in Octet
  BY KindFacts DEF Kinds
<1>8. Holds(v.tag, n, s, v.value)
  BY <1>2, <1>3, <1>4, <1>7, HoldsUnsigned
<1>9. StandardValue(v) = App(v.tag, n, s)
  <2>1. CASE v.tag = 2
    <3>1. PICK k \in Octet : k = 2
      BY SmallOctets
    <3>2. WriteIfNoErr(NewEncoder, EncodeTag(AppTag(k, Len(s))) \o s).bytes = App(k, n, s)
      BY <1>5, WroteFirst
    <3>3. StandardValue(v) = EncodeAppData(NewEncoder, v.value).bytes
      BY <2>1 DEF StandardValue
    <3>4. EncodeAppData(NewEncoder, v.value)
            = WriteIfNoErr(NewEncoder, EncodeTag(AppTag(2, Len(s))) \o s)
      BY <1>1, <1>2, <1>3 DEF EncodeAppData
    <3> QED
      BY <2>1, <3>1, <3>2, <3>3, <3>4
  <2>2. CASE v.tag = 9
    <3>1. PICK u : u = EncodeTag(AppTag(v.tag, n)) \o s
      OBVIOUS
    <3>2. u = App(v.tag, n, s)
      BY <1>5, <1>7, <3>1, AppIs
    <3>3. StandardValue(v) = u
      BY <1>1, <1>3, <1>4, <2>2, <3>1 DEF StandardValue
    <3> QED
      BY <3>2, <3>3
  <2> QED
    BY <2>1, <2>2
<1>10. n \in Uint32 /\ s \in Seq(Octet)
  BY <1>5
<1>11. Standard(v, n, s)
  BY <1>6, <1>7, <1>9, <1>10 DEF Standard
<1> QED
  BY <1>8, <1>11

LEMMA StandardFloat ==
  ASSUME NEW v, v.tag = 4, v.value \in Num("float32", Uint32)
  PROVE  \E n : \E s : Standard(v, n, s) /\ Holds(v.tag, n, s, v.value)
<1>1. PICK x : x = v.value.num
  OBVIOUS
<1>2. v.value = GoNum("float32", x) /\ x \in Uint32 /\ v.value.kind = "float32"
  BY <1>1, NumFacts
<1>3. PICK s : s = BigEndian(x, 4)
  OBVIOUS
<1>4. s \in Seq(Octet) /\ Len(s) = 4
  <2>1. PICK k \in 1..4 : k = 4
    OBVIOUS
  <2>2. x \in Nat
    BY <1>2 DEF Uint32
  <2> QED
    BY <1>3, <2>1, <2>2, BigEndianType
<1>5. PICK n \in Uint32 : n = 4
  BY OctetsAreUint32, SmallOctets
<1>6. PICK k \in Octet : k = 4
  BY SmallOctets
<1>7. n = Len(s) /\ Len(s) <= 1477
  BY <1>4, <1>5
<1>8. Holds(v.tag, n, s, v.value)
  BY <1>2, <1>3, <1>5, HoldsFloat
<1>9. WriteIfNoErr(NewEncoder, EncodeTag(AppTag(k, Len(s))) \o s).bytes = App(k, n, s)
  <2>1. s \in Seq(Octet)
    BY <1>4
  <2>2. n = Len(s)
    BY <1>7
  <2> QED
    BY <2>1, <2>2, WroteFirst
<1>10. StandardValue(v) = EncodeAppData(NewEncoder, v.value).bytes
  BY DEF StandardValue
<1>11. EncodeAppData(NewEncoder, v.value)
         = WriteIfNoErr(NewEncoder, EncodeTag(AppTag(4, Len(s))) \o s)
  BY <1>1, <1>2, <1>3 DEF EncodeAppData
<1>12. StandardValue(v) = App(v.tag, n, s)
  BY <1>6, <1>9, <1>10, <1>11
<1>13. v.tag \in Octet /\ s \in Seq(Octet)
  BY <1>4, SmallOctets
<1>14. Standard(v, n, s)
  BY <1>7, <1>12, <1>13 DEF Standard
<1> QED
  BY <1>8, <1>14

LEMMA HoldsText ==
  ASSUME NEW x \in Seq(Octet)
  PROVE  Holds(7, Len(<< 0 >> \o x), << 0 >> \o x, GoString(x))
BY TextContentAt DEF Holds, Holding

LEMMA TextEncoded ==
  ASSUME NEW w, w.kind = "string"
  PROVE  EncodeAppData(NewEncoder, w)
           = WriteIfNoErr(NewEncoder, EncodeTag(AppTag(7, Len(<< 0 >> \o w.str)))
                                        \o (<< 0 >> \o w.str))
BY DEF EncodeAppData

LEMMA StandardText ==
  ASSUME NEW v, v.tag = 7, v.value \in Text
  PROVE  \E n : \E s : Standard(v, n, s) /\ Holds(v.tag, n, s, v.value)
<1>1. PICK x : x = v.value.str
  OBVIOUS
<1>2. v.value = GoString(x) /\ x \in Seq(Octet) /\ Len(x) <= 1476 /\ v.value.kind = "string"
  BY <1>1, TextFacts
<1>3. PICK s : s = << 0 >> \o x
  OBVIOUS
<1>4. s \in Seq(Octet) /\ Len(s) = 1 + Len(x)
  BY <1>2, <1>3, SmallOctets, FlagThenOctets
<1>5. Len(x) \in Nat
  BY <1>2, LenProperties
<1>6. PICK n : n = Len(s)
  OBVIOUS
<1>7. n \in Uint32 /\ Len(s) <= 1477
  BY <1>2, <1>4, <1>5, <1>6 DEF Uint32
<1>8. PICK k \in Octet : k = 7
  BY OctetRange
<1>9. Holds(v.tag, n, s, v.value)
  <2>1. x \in Seq(Octet) /\ v.value = GoString(x)
    BY <1>2
  <2>2. Holds(7, Len(<< 0 >> \o x), << 0 >> \o x, GoString(x))
    BY <2>1, HoldsText
  <2> QED
    BY <1>3, <1>6, <2>1, <2>2
<1>10. WriteIfNoErr(NewEncoder, EncodeTag(AppTag(k, Len(s))) \o s).bytes = App(k, n, s)
  <2>1. s \in Seq(Octet)
    BY <1>4
  <2>2. n \in Uint32
    BY <1>7
  <2> QED
    BY <1>6, <2>1, <2>2, WroteFirst
<1>11. StandardValue(v) = EncodeAppData(NewEncoder, v.value).bytes
  BY DEF StandardValue
<1>12. EncodeAppData(NewEncoder, v.value)
         = WriteIfNoErr(NewEncoder, EncodeTag(AppTag(7, Len(s))) \o s)
  <2>1. v.value.kind = "string"
    BY <1>2
  <2>2. EncodeAppData(NewEncoder, v.value)
          = WriteIfNoErr(NewEncoder, EncodeTag(AppTag(7, Len(<< 0 >> \o x))) \o (<< 0 >> \o x))
    BY <1>1, <2>1, TextEncoded
  <2> QED
    BY <1>3, <2>2
<1>13. StandardValue(v) = App(v.tag, n, s)
  BY <1>8, <1>10, <1>11, <1>12
<1>14. v.tag \in Octet /\ s \in Seq(Octet)
  BY <1>4, <1>8
<1>15. Standard(v, n, s)
  BY <1>7, <1>13, <1>14 DEF Standard
<1> QED
  BY <1>9, <1>15

LEMMA StandardObject ==
  ASSUME NEW v, v.tag = 12, v.value \in ObjectIDs
  PROVE  \E n : \E s : Standard(v, n, s) /\ Holds(v.tag, n, s, v.value)
<1>1. PICK o : o = v.value.obj
  OBVIOUS
<1>2. v.value = GoObject(o) /\ ValidObject(o)
  BY <1>1, ObjectIDFacts, DeviceObjectsAreValid
<1>3. PICK s : s = ObjectOctets(o)
  OBVIOUS
<1>4. s \in Seq(Octet) /\ Len(s) = 4
  BY <1>2, <1>3, ObjectOctetsType
<1>5. PICK n \in Uint32 : n = ObjectIDLength
  BY FourOctets
<1>6. PICK k \in Octet : k = 12
  BY OctetRange
<1>7. Holds(v.tag, n, s, v.value)
  BY <1>2, <1>3, <1>5, HoldsObject
<1>8. PICK e \in Seq(Octet) : e = <<>>
  BY NoOctets
<1>9. EncodeAppData(Encoded(e), GoObject(o)) = Encoded(Join(e, App(k, n, s)))
  BY <1>2, <1>3, <1>5, <1>6, WroteAppObject
<1>10. App(k, n, s) \in Seq(Octet)
  <2>1. s \in Seq(Octet)
    BY <1>4
  <2> QED
    BY <2>1, AppFacts
<1>11. Join(e, App(k, n, s)) = App(k, n, s)
  BY <1>8, <1>10, JoinNothing
<1>12. StandardValue(v) = EncodeAppData(NewEncoder, v.value).bytes
  BY DEF StandardValue
<1>13. NewEncoder = Encoded(e)
  BY <1>8, StartEncoding
<1>14. StandardValue(v) = App(v.tag, n, s)
  BY <1>2, <1>6, <1>9, <1>11, <1>12, <1>13 DEF Encoded
<1>15. v.tag \in Octet /\ s \in Seq(Octet) /\ Len(s) <= 1477
  BY <1>4, <1>6
<1>16. Standard(v, n, s)
  BY <1>14, <1>15 DEF Standard
<1> QED
  BY <1>7, <1>16

\* The decoder understands these; of the others it is known that they are octets.
LEMMA StandardAt ==
  ASSUME NEW v \in Decoded
  PROVE  \E n : \E s : Standard(v, n, s) /\ Holds(v.tag, n, s, v.value)
BY DecodedFacts, StandardNil, StandardBool, StandardUnsigned, StandardFloat, StandardText,
   StandardObject

LEMMA StandardSigned ==
  ASSUME NEW v, v.tag = 3, v.value \in Num("int32", Octet)
  PROVE  \E n : \E s : Standard(v, n, s)
<1>1. PICK x : x = v.value.num
  OBVIOUS
<1>2. x \in Octet /\ x \in Nat
  BY <1>1, NumFacts, OctetRange
<1>3. PICK s : s = BigEndian(x, 1)
  OBVIOUS
<1>4. s \in Seq(Octet) /\ Len(s) = 1
  <2>1. PICK k \in 1..4 : k = 1
    OBVIOUS
  <2> QED
    BY <1>2, <1>3, <2>1, BigEndianType
<1>5. PICK n \in Uint32 : n = 1
  BY OctetsAreUint32, SmallOctets
<1>6. PICK k \in Octet : k = 3
  BY SmallOctets
<1>7. PICK u : u = EncodeTag(AppTag(k, n)) \o s
  OBVIOUS
<1>8. u = App(k, n, s)
  <2>1. s \in Seq(Octet)
    BY <1>4
  <2> QED
    BY <1>7, <2>1, AppIs
<1>9. StandardValue(v) = EncodeTag(AppTag(3, 1)) \o BigEndian(v.value.num, 1)
  BY DEF StandardValue
<1>10. StandardValue(v) = App(v.tag, n, s)
  BY <1>1, <1>3, <1>5, <1>6, <1>7, <1>8, <1>9
<1>11. v.tag \in Octet /\ s \in Seq(Octet) /\ Len(s) <= 1477
  BY <1>4, <1>6
<1>12. Standard(v, n, s)
  BY <1>10, <1>11 DEF Standard
<1> QED
  BY <1>12

LEMMA FourZeros == <<0, 0, 0, 0>> \in Seq(Octet) /\ Len(<<0, 0, 0, 0>>) = 4
BY SmallOctets

LEMMA StandardDouble ==
  ASSUME NEW v, v.tag = 5, v.value \in Num("float64", Uint32)
  PROVE  \E n : \E s : Standard(v, n, s)
<1>1. PICK x : x = v.value.num
  OBVIOUS
<1>2. x \in Nat
  <2>1. x \in Uint32
    BY <1>1, NumFacts
  <2> QED
    BY <2>1 DEF Uint32
<1>3. PICK w : w = BigEndian(x, 4)
  OBVIOUS
<1>4. w \in Seq(Octet) /\ Len(w) = 4
  <2>1. PICK k \in 1..4 : k = 4
    OBVIOUS
  <2> QED
    BY <1>2, <1>3, <2>1, BigEndianType
<1>5. PICK z : z = <<0, 0, 0, 0>>
  OBVIOUS
<1>6. z \in Seq(Octet) /\ Len(z) = 4
  BY <1>5, FourZeros
<1>7. PICK s : s = Join(z, w)
  OBVIOUS
<1>8. s \in Seq(Octet) /\ Len(s) = Len(z) + Len(w)
  BY <1>4, <1>6, <1>7, JoinFacts
<1>9. PICK n \in Uint32 : n = 8
  BY OctetsAreUint32, OctetRange
<1>10. PICK k \in Octet : k = 5
  BY OctetRange
<1>11. PICK e \in Seq(Octet) : e = EncodeTag(AppTag(k, n))
  BY TagsBuilt, TagType
<1>12. StandardValue(v) = EncodeTag(AppTag(5, 8)) \o <<0, 0, 0, 0>> \o BigEndian(v.value.num, 4)
  BY DEF StandardValue
<1>13. StandardValue(v) = e \o z \o w
  BY <1>1, <1>3, <1>5, <1>9, <1>10, <1>11, <1>12
<1>14. StandardValue(v) = Join(Join(e, z), w)
  BY <1>13, Zenon DEF Join
<1>15. Join(Join(e, z), w) = Join(e, s)
  <2>1. z \in Seq(Octet) /\ w \in Seq(Octet)
    BY <1>4, <1>6
  <2> QED
    BY <1>7, <2>1, JoinTwice
<1>16. StandardValue(v) = App(v.tag, n, s)
  BY <1>10, <1>11, <1>14, <1>15 DEF App, Tagged
<1>17. v.tag \in Octet /\ s \in Seq(Octet) /\ Len(s) <= 1477
  BY <1>4, <1>6, <1>8, <1>10
<1>18. Standard(v, n, s)
  BY <1>16, <1>17 DEF Standard
<1> QED
  BY <1>18

LEMMA AnyStandard ==
  ASSUME NEW v \in Decoded \union NotDecoded
  PROVE  \E n : \E s : Standard(v, n, s)
BY StandardAt, NotDecodedFacts, StandardSigned, StandardDouble

----------------------------------------------------------------------------
\* The payload of an acknowledgement, and how the client reads it.
LEMMA AckPayloadAt ==
  ASSUME NEW r, Readable(r), NEW v, NEW n, NEW s, Standard(v, n, s)
  PROVE  AckPayload(r, v) = Encoded(ReadOctets(r, PropertyOctets(3, v.tag, n, s)))
<1>1. 0 \in Uint32
  BY OctetsAreUint32, SmallOctets
<1>2. PICK a \in Seq(Octet) : a = EncodeTag(OpeningTag(3))
  BY <1>1, SmallOctets, TagsBuilt, TagType
<1>3. PICK z \in Seq(Octet) : z = EncodeTag(ClosingTag(3))
  BY <1>1, SmallOctets, TagsBuilt, TagType
<1>4. v.tag \in Octet /\ n \in Uint32 /\ s \in Seq(Octet)
  BY DEF Standard
<1>5. PICK u \in Seq(Octet) : u = App(v.tag, n, s)
  BY <1>4, AppFacts
<1>6. StandardValue(v) = u
  BY <1>5 DEF Standard
<1>7. PICK w : w = a \o u \o z
  OBVIOUS
<1>8. w = Join(Join(a, u), z)
  BY <1>7, Zenon DEF Join
<1>9. w = Join(a, Join(u, z))
  BY <1>8, JoinTwice
<1>10. PICK p : p = PropertyOctets(3, v.tag, n, s)
  OBVIOUS
<1>11. p = w /\ p \in Seq(Octet)
  <2>1. PICK three \in Octet : three = 3
    BY SmallOctets
  <2>2. PICK type \in Octet : type = v.tag
    BY <1>4
  <2>3. n \in Uint32 /\ s \in Seq(Octet)
    BY <1>4
  <2>4. p = PropertyOctets(three, type, n, s)
    BY <1>10, <2>1, <2>2
  <2>5. p \in Seq(Octet)
    BY <2>3, <2>4, PropertyFacts
  <2>6. p = Join(EncodeTag(OpeningTag(three)), Join(App(type, n, s), EncodeTag(ClosingTag(three))))
    BY <2>3, <2>4, PropertyIs
  <2>7. p = Join(a, Join(u, z))
    BY <1>2, <1>3, <1>5, <2>1, <2>2, <2>6
  <2> QED
    BY <1>9, <2>5, <2>7
<1>12. PICK m \in Seq(Octet) : m = ReadOctets(r, <<>>)
  BY NoOctets, ReadOctetsFacts
<1>13. MarshalReadProperty(r) = Encoded(m)
  BY <1>12, MarshalReadAt
<1>14. AckPayload(r, v) = Write(MarshalReadProperty(r), w)
  BY <1>2, <1>3, <1>6, <1>7 DEF AckPayload
<1>15. AckPayload(r, v) = Encoded(Join(m, p))
  BY <1>11, <1>13, <1>14, WroteMore
<1>16. Join(m, p) = ReadOctets(r, p)
  BY <1>11, <1>12, ReadThen
<1> QED
  BY <1>10, <1>15, <1>16

LEMMA AckPayloadFacts ==
  ASSUME NEW r, Readable(r), NEW v \in Decoded \union NotDecoded
  PROVE  /\ AckPayload(r, v).err = NoErr /\ AckPayload(r, v).bytes \in Seq(Octet)
         /\ Len(AckPayload(r, v).bytes) <= 1531 /\ Len(AckPayload(r, v).bytes) \in Nat
<1>1. PICK n : \E s : Standard(v, n, s)
  BY AnyStandard
<1>2. PICK s : Standard(v, n, s)
  BY <1>1
<1>3. v.tag \in Octet /\ n \in Uint32 /\ s \in Seq(Octet) /\ Len(s) <= 1477
  BY <1>2 DEF Standard
<1>4. PICK p : p = PropertyOctets(3, v.tag, n, s)
  OBVIOUS
<1>5. p \in Seq(Octet) /\ Len(p) <= 21 + Len(s) /\ Len(s) \in Nat /\ Len(p) \in Nat
  BY <1>3, <1>4, SmallOctets, PropertyFacts
<1>6. PICK d : d = ReadOctets(r, p)
  OBVIOUS
<1>7. d \in Seq(Octet) /\ Len(d) <= 33 + Len(p) /\ Len(d) \in Nat
  BY <1>5, <1>6, ReadOctetsFacts
<1>8. AckPayload(r, v) = Encoded(d)
  BY <1>2, <1>4, <1>6, AckPayloadAt
<1>9. AckPayload(r, v).err = NoErr /\ AckPayload(r, v).bytes = d
  BY <1>8 DEF Encoded
<1> QED
  BY <1>3, <1>5, <1>7, <1>9

\* A tag with another ID is given back: one octet can be.
LEMMA OpeningOctet == Len(EncodeTag(OpeningTag(3))) = 1
<1>1. PICK g : g = OpeningTag(3)
  OBVIOUS
<1>2. g.id = 3 /\ g.value = 0
  BY <1>1 DEF OpeningTag, Tag
<1>3. 0 \in Uint32
  BY OctetsAreUint32, SmallOctets
<1>4. g \in Tags
  BY <1>1, <1>3, SmallOctets, TagsBuilt
<1>5. Len(EncodeTag(g)) = Len(IDOctets(g)) + Len(LengthOctets(g.value))
  BY <1>4, TagType
<1>6. LengthOctets(g.value) = <<>>
  BY <1>2 DEF LengthOctets
<1>7. Len(IDOctets(g)) = 1
  BY <1>2 DEF IDOctets
<1>8. Len(LengthOctets(g.value)) = 0
  BY <1>6, NoOctets
<1> QED
  BY <1>1, <1>5, <1>7, <1>8

LEMMA GivenBack ==
  ASSUME NEW b, NEW p, Left(b, p), NEW c, c = Cursor(b, b.off, FALSE)
  PROVE  Left(c, p)
<1>1. At(b, p) /\ b.off + Len(p) = Len(b.bytes) /\ IsBuffer(b)
  BY DEF Left, At
<1>2. c.off = b.off /\ c.bytes = b.bytes /\ IsBuffer(c)
  BY <1>1 DEF Cursor, IsBuffer, Buffers
<1>3. At(c, p)
  BY <1>1, <1>2, AtCursor
<1> QED
  BY <1>1, <1>2, <1>3 DEF Left

LEMMA ErrorReset ==
  ASSUME NEW c, NEW e, NEW d, d = [buf |-> c, err |-> e]
  PROVE  ResetError(d) = Fresh(c) /\ d.err = e
BY DEF ResetError, Fresh

LEMMA IndexMissing ==
  ASSUME NEW type \in Octet, NEW n \in Uint32, NEW s \in Seq(Octet), NEW b, NEW p,
         p = PropertyOctets(3, type, n, s), Left(b, p),
         NEW r, r = ContextValue(Fresh(b), 2)
  PROVE  r.dec.err = IncorrectTag /\ \E c : ResetError(r.dec) = Fresh(c) /\ Left(c, p)
<1>1. 0 \in Uint32
  BY OctetsAreUint32, SmallOctets
<1>2. PICK g \in Tags : g = OpeningTag(3)
  BY <1>1, SmallOctets, TagsBuilt
<1>3. PICK z \in Seq(Octet) : z = EncodeTag(ClosingTag(3))
  BY <1>1, SmallOctets, TagsBuilt, TagType
<1>4. PICK u \in Seq(Octet) : u = App(type, n, s)
  BY AppFacts
<1>5. PICK x \in Seq(Octet) : x = Join(u, z)
  BY JoinFacts
<1>6. PICK e \in Seq(Octet) : e = EncodeTag(g)
  BY TagType
<1>7. p = Join(e, x)
  BY <1>2, <1>3, <1>4, <1>5, <1>6, SmallOctets, PropertyIs
<1>8. At(b, e)
  BY <1>7, LeftJoin
<1>9. g.id = 3
  BY <1>2 DEF OpeningTag, Tag
<1>10. PICK two : two = 2
  OBVIOUS
<1>11. g.id # two
  BY <1>9, <1>10
<1>12. r.dec = Missing(b, Len(e))
  BY <1>6, <1>8, <1>10, <1>11, NotExpected
<1>13. Len(e) = 1
  BY <1>2, <1>6, OpeningOctet
<1>14. b.off \in Nat
  BY DEF Left, At, IsBuffer, Buffers
<1>15. r.dec = [buf |-> Cursor(b, b.off, FALSE), err |-> IncorrectTag]
  <2>1. b.off + 1 - 1 = b.off
    BY <1>14
  <2> QED
    BY <1>12, <1>13, <2>1 DEF Missing
<1>16. PICK c : c = Cursor(b, b.off, FALSE)
  OBVIOUS
<1>17. r.dec.err = IncorrectTag /\ ResetError(r.dec) = Fresh(c)
  <2>1. PICK d : d = r.dec
    OBVIOUS
  <2>2. d = [buf |-> c, err |-> IncorrectTag]
    BY <1>15, <1>16, <2>1
  <2> QED
    BY <2>1, <2>2, ErrorReset
<1>18. Left(c, p)
  BY <1>16, GivenBack
<1> QED
  BY <1>17, <1>18

LEMMA JoinedNothing ==
  ASSUME NEW t \in Seq(Octet)
  PROVE  Join(t, <<>>) = t
BY EmptySeq, ConcatEmptySeq DEF Join

LEMMA TakeOnlyProperty ==
  ASSUME NEW id \in Octet, NEW type \in Octet, NEW v \in Uint32, NEW s \in Seq(Octet), NEW w,
         Holds(type, v, s, w), NEW p, p = PropertyOctets(id, type, v, s),
         NEW b, Left(b, p), NEW r, r = DecodeAbstractType(Fresh(b), id)
  PROVE  r.val = w /\ r.dec.err = NoErr
<1>1. p \in Seq(Octet)
  BY PropertyFacts
<1>2. PICK e \in Seq(Octet) : e = <<>>
  BY NoOctets
<1>3. Join(p, e) = p
  BY <1>1, <1>2, JoinedNothing
<1>4. Left(b, Join(PropertyOctets(id, type, v, s), e))
  BY <1>3
<1>5. r.val = w /\ \E c : r.dec = Fresh(c) /\ Left(c, e)
  BY <1>4, TakeProperty
<1> QED
  BY <1>5 DEF Fresh

\* Behind the property there is the index, or not, and then the value.
LEMMA DataBehindIndex ==
  ASSUME NEW i \in IndexSet, NEW type \in Octet, NEW v \in Uint32, NEW s \in Seq(Octet), NEW w,
         Holds(type, v, s, w), NEW p, p = PropertyOctets(3, type, v, s),
         NEW b, Left(b, IndexThen(i, p)), NEW o, NEW z,
         NEW x, x = ContextValue(Fresh(b), 2), NEW d, d = BehindIndex(o, z, x)
  PROVE  d.err = NoErr /\ d.data = w
<1>1. PICK three \in Octet : three = 3
  BY SmallOctets
<1>2. PICK two \in Octet : two = 2
  BY SmallOctets
<1>3. p \in Seq(Octet) /\ p = PropertyOctets(three, type, v, s)
  BY <1>1, PropertyFacts
<1>4. CASE i = NoIndex
  <2>1. Left(b, p)
    BY <1>4 DEF IndexThen
  <2>2. x.dec.err = IncorrectTag /\ \E c : ResetError(x.dec) = Fresh(c) /\ Left(c, p)
    BY <2>1, IndexMissing
  <2>3. PICK c : ResetError(x.dec) = Fresh(c) /\ Left(c, p)
    BY <2>2
  <2>4. PICK r : r = DecodeAbstractType(Fresh(c), three)
    OBVIOUS
  <2>5. r.val = w /\ r.dec.err = NoErr
    BY <1>3, <2>3, <2>4, TakeOnlyProperty
  <2>6. d = PropertyData(o, z, NoIndex, r)
    BY <1>1, <2>2, <2>3, <2>4 DEF BehindIndex
  <2> QED
    BY <2>5, <2>6 DEF PropertyData
<1>5. CASE i # NoIndex
  <2>1. PICK n \in Uint32 : n = i
    BY <1>5 DEF IndexSet
  <2>2. Left(b, Join(Number(two, n), p))
    BY <1>2, <1>5, <2>1 DEF IndexThen
  <2>3. x = ContextValue(Fresh(b), two)
    BY <1>2
  <2>4. x.val = n /\ \E c : x.dec = Fresh(c) /\ Left(c, p)
    BY <1>3, <2>2, <2>3, TakeNumber
  <2>5. PICK c : x.dec = Fresh(c) /\ Left(c, p)
    BY <2>4
  <2>6. x.dec.err # IncorrectTag
    <3>1. x.dec.err = NoErr
      BY <2>5 DEF Fresh
    <3>2. NoErr # IncorrectTag
      BY DEF NoErr, IncorrectTag
    <3> QED
      BY <3>1, <3>2
  <2>7. PICK r : r = DecodeAbstractType(Fresh(c), three)
    OBVIOUS
  <2>8. r.val = w /\ r.dec.err = NoErr
    BY <1>3, <2>5, <2>7, TakeOnlyProperty
  <2>9. d = PropertyData(o, z, x.val, r)
    BY <1>1, <2>5, <2>6, <2>7 DEF BehindIndex
  <2> QED
    BY <2>8, <2>9 DEF PropertyData
<1> QED
  BY <1>4, <1>5

LEMMA ReadPropertyAt ==
  ASSUME NEW r, Readable(r), NEW type \in Octet, NEW v \in Uint32, NEW s \in Seq(Octet), NEW w,
         Holds(type, v, s, w), NEW p, p = PropertyOctets(3, type, v, s),
         NEW d, d = ReadOctets(r, p)
  PROVE  UnmarshalReadProperty(d).err = NoErr /\ UnmarshalReadProperty(d).data = w
<1>1. PICK zero \in Octet : zero = 0
  BY SmallOctets
<1>2. PICK one \in Octet : one = 1
  BY SmallOctets
<1>3. PICK three \in Octet : three = 3
  BY SmallOctets
<1>4. p \in Seq(Octet)
  BY <1>3, PropertyFacts
<1>5. PICK rest \in Seq(Octet) : rest = IndexThen(r.index, p)
  BY <1>4, IndexThenFacts DEF Readable
<1>6. PICK u : u = Join(Number(one, r.property), rest)
  OBVIOUS
<1>7. u \in Seq(Octet)
  <2>1. PICK b \in Seq(Octet) : b = Number(one, r.property)
    BY NumberFacts DEF Readable
  <2> QED
    BY <1>6, <2>1, JoinFacts
<1>8. d = Join(Named(zero, r.object), u)
  BY <1>1, <1>2, <1>5, <1>6 DEF ReadOctets
<1>9. d \in Seq(Octet)
  BY <1>4, ReadOctetsFacts
<1>10. PICK b0 : b0 = NewBuffer(d)
  OBVIOUS
<1>11. NewDecoder(d) = Fresh(b0) /\ Left(b0, d)
  BY <1>9, <1>10, StartDecoding
<1>12. PICK x : x = DecodeObjectID(Fresh(b0), zero)
  OBVIOUS
<1>13. x.val = r.object /\ \E c : x.dec = Fresh(c) /\ Left(c, u)
  BY <1>7, <1>8, <1>11, <1>12, TakeNamed DEF Readable
<1>14. PICK b1 : x.dec = Fresh(b1) /\ Left(b1, u)
  BY <1>13
<1>15. PICK y : y = ContextValue(Fresh(b1), one)
  OBVIOUS
<1>16. y.val = r.property /\ \E c : y.dec = Fresh(c) /\ Left(c, rest)
  <2>1. PICK k \in Uint32 : k = r.property
    BY DEF Readable
  <2>2. Left(b1, Join(Number(one, k), rest))
    BY <1>6, <1>14, <2>1
  <2>3. y.val = k /\ \E c : y.dec = Fresh(c) /\ Left(c, rest)
    BY <1>15, <2>2, TakeNumber
  <2> QED
    BY <2>1, <2>3
<1>17. PICK b2 : y.dec = Fresh(b2) /\ Left(b2, rest)
  BY <1>16
<1>18. PICK j : j = ContextValue(Fresh(b2), 2)
  OBVIOUS
<1>19. PICK z : z = BehindIndex(x.val, y.val, j)
  OBVIOUS
<1>20. Left(b2, IndexThen(r.index, p))
  BY <1>5, <1>17
<1>21. z.err = NoErr /\ z.data = w
  BY <1>18, <1>19, <1>20, DataBehindIndex DEF Readable
<1>22. UnmarshalReadProperty(d) = BehindObject(x)
  BY <1>1, <1>11, <1>12 DEF UnmarshalReadProperty
<1>23. BehindObject(x) = BehindProperty(x.val, y)
  BY <1>2, <1>14, <1>15 DEF BehindObject
<1>24. BehindProperty(x.val, y) = z
  BY <1>17, <1>18, <1>19 DEF BehindProperty
<1> QED
  BY <1>21, <1>22, <1>23, <1>24

\* The payload of an error.
LEMMA OneOctetUnsigned ==
  ASSUME NEW x \in Octet
  PROVE  ValueLength(x) = 1 /\ Unsigned(x) = <<x>> /\ x \in Uint32
<1>1. x \in Nat /\ x < 256
  BY OctetRange
<1>2. ValueLength(x) = 1
  BY <1>1 DEF ValueLength
<1>3. BigEndian(x, 1) = <<OctetOf(x, 0)>>
  BY <1>1, BigEndianOctets
<1>4. OctetOf(x, 0) = x
  BY <1>1 DEF OctetOf
<1> QED
  BY <1>2, <1>3, <1>4, OctetsAreUint32 DEF Unsigned

LEMMA ErrorOctets ==
  \E d \in Seq(Octet) : /\ d = Join(AppUnsigned(9, 2), AppUnsigned(9, 32))
                        /\ ErrorPayload = Encoded(d) /\ Len(d) <= 1500 /\ Len(d) \in Nat
<1>1. PICK a \in Octet : a = 2
  BY SmallOctets
<1>2. PICK b \in Octet : b = 32
  BY OctetRange
<1>3. PICK nine \in Octet : nine = 9
  BY OctetRange
<1>4. PICK one \in Uint32 : one = 1
  BY OctetsAreUint32, SmallOctets
<1>5. PICK s \in Seq(Octet) : s = <<a>>
  BY SingleOctet
<1>6. PICK t \in Seq(Octet) : t = <<b>>
  BY SingleOctet
<1>7. PICK g \in Seq(Octet) : g = EncodeTag(AppTag(nine, one))
  BY TagsBuilt, TagType
<1>8. PICK u : u = AppUnsigned(nine, a)
  OBVIOUS
<1>9. PICK v : v = AppUnsigned(nine, b)
  OBVIOUS
<1>10. ValueLength(a) = one /\ Unsigned(a) = s
  BY <1>4, <1>5, OneOctetUnsigned
<1>11. ValueLength(b) = one /\ Unsigned(b) = t
  BY <1>4, <1>6, OneOctetUnsigned
<1>12. u = Join(g, s)
  BY <1>7, <1>8, <1>10 DEF AppUnsigned, App, Tagged
<1>13. v = Join(g, t)
  BY <1>7, <1>9, <1>11 DEF AppUnsigned, App, Tagged
<1>14. u \in Seq(Octet) /\ Len(u) = Len(g) + Len(s)
  BY <1>12, JoinFacts
<1>15. v \in Seq(Octet) /\ Len(v) = Len(g) + Len(t)
  BY <1>13, JoinFacts
<1>16. PICK d : d = Join(u, v)
  OBVIOUS
<1>17. d \in Seq(Octet) /\ Len(d) = Len(u) + Len(v)
  BY <1>14, <1>15, <1>16, JoinFacts
<1>18. PICK f : f = g \o s \o g \o t
  OBVIOUS
<1>19. f = Join(Join(Join(g, s), g), t)
  BY <1>18, Zenon DEF Join
<1>20. f = d
  <2>1. Join(Join(u, g), t) = Join(u, Join(g, t))
    BY <1>14, JoinTwice
  <2> QED
    BY <1>12, <1>13, <1>16, <1>19, <2>1
<1>21. ErrorPayload = Encoded(f)
  BY <1>1, <1>2, <1>3, <1>4, <1>5, <1>6, <1>7, <1>18 DEF ErrorPayload
<1>22. Len(g) <= 7 /\ Len(g) \in Nat
  BY <1>3, <1>7, TagsBuilt, TagShort
<1>23. Len(s) = 1 /\ Len(t) = 1
  BY <1>5, <1>6, SingleOctet
<1>24. Len(d) <= 1500 /\ Len(d) \in Nat
  BY <1>14, <1>15, <1>17, <1>22, <1>23
<1>25. d = Join(AppUnsigned(9, 2), AppUnsigned(9, 32))
  BY <1>1, <1>2, <1>3, <1>8, <1>9, <1>16
<1> QED
  BY <1>17, <1>20, <1>21, <1>24, <1>25

LEMMA ApduErrorAt ==
  ASSUME NEW d, d = ErrorPayload.bytes
  PROVE  UnmarshalApduError(d).err = NoErr
<1>1. PICK k \in Seq(Octet) : /\ k = Join(AppUnsigned(9, 2), AppUnsigned(9, 32))
                              /\ ErrorPayload = Encoded(k)
  BY ErrorOctets
<1>2. d = k
  BY <1>1 DEF Encoded
<1>3. PICK a \in Uint32 : a = 2
  BY OctetsAreUint32, SmallOctets
<1>4. PICK b \in Uint32 : b = 32
  BY OctetsAreUint32, OctetRange
<1>5. PICK u : u = AppUnsigned(9, b)
  OBVIOUS
<1>6. u \in Seq(Octet)
  <2>1. 9 \in Octet
    BY OctetRange
  <2>2. ValueLength(b) \in Uint32
    BY LengthOfValue
  <2>3. Unsigned(b) \in Seq(Octet)
    BY UnsignedType
  <2>4. PICK n \in Uint32 : n = ValueLength(b)
    BY <2>2
  <2>5. PICK s \in Seq(Octet) : s = Unsigned(b)
    BY <2>3
  <2>6. PICK nine \in Octet : nine = 9
    BY <2>1
  <2>7. u = App(nine, n, s)
    BY <1>5, <2>4, <2>5, <2>6 DEF AppUnsigned
  <2> QED
    BY <2>7, AppFacts
<1>7. PICK e \in Seq(Octet) : e = <<>>
  BY NoOctets
<1>8. Join(u, e) = u
  BY <1>6, <1>7, JoinedNothing
<1>9. k = Join(AppUnsigned(9, a), u)
  BY <1>1, <1>3, <1>4, <1>5
<1>10. PICK c0 : c0 = NewBuffer(k)
  OBVIOUS
<1>11. NewDecoder(k) = Fresh(c0) /\ Left(c0, k)
  BY <1>10, StartDecoding
<1>12. "ErrorClass" \in Enumerations /\ "ErrorCode" \in Enumerations
  BY DEF Enumerations
<1>13. PICK x : x = DecodeAppData(Fresh(c0), "ErrorClass")
  OBVIOUS
<1>14. \E c : x.dec = Fresh(c) /\ Left(c, u)
  BY <1>6, <1>9, <1>11, <1>12, <1>13, TakeEnumeration
<1>15. PICK c1 : x.dec = Fresh(c1) /\ Left(c1, u)
  BY <1>14
<1>16. PICK y : y = DecodeAppData(Fresh(c1), "ErrorCode")
  OBVIOUS
<1>17. Left(c1, Join(AppUnsigned(9, b), e))
  BY <1>5, <1>8, <1>15
<1>18. \E c : y.dec = Fresh(c) /\ Left(c, e)
  BY <1>12, <1>16, <1>17, TakeEnumeration
<1>19. y.dec.err = NoErr
  BY <1>18 DEF Fresh
<1> QED
  BY <1>2, <1>11, <1>13, <1>15, <1>16, <1>19 DEF UnmarshalApduError

----------------------------------------------------------------------------
(***************************************************************************)
(* Frames, whole and cut short, and what they carry.                       *)
(***************************************************************************)
IsFrame(d) == \E f \in Octet : \E t \in Bodies : d = Frame(f, t)
Broken(d)  == d \in Seq(Octet) /\ UnmarshalBVLC(d).npdu = NoNPDU

LEMMA FramesSayTheirLength ==
  ASSUME NEW d, IsFrame(d)
  PROVE  d \in Seq(Octet) /\ Len(d) = FromBigEndian(SubSeq(d, 3, 4)) /\ Len(d) \in Nat
<1>1. PICK f \in Octet : \E t \in Bodies : d = Frame(f, t)
  BY DEF IsFrame
<1>2. PICK t \in Bodies : d = Frame(f, t)
  BY <1>1
<1>3. d \in Seq(Octet) /\ FromBigEndian(SubSeq(d, 3, 4)) = Len(d)
  BY <1>2, FrameFacts
<1> QED
  BY <1>3, LenProperties

LEMMA FramesBreak ==
  ASSUME NEW d, IsFrame(d), NEW k \in 0..(Len(d) - 1), NEW c, c = SubSeq(d, 1, k)
  PROVE  Broken(c)
<1>1. PICK f \in Octet : \E t \in Bodies : d = Frame(f, t)
  BY DEF IsFrame
<1>2. PICK t \in Bodies : d = Frame(f, t)
  BY <1>1
<1>3. Len(d) \in Nat
  BY FramesSayTheirLength
<1>4. k \in Nat /\ k < Len(d)
  BY <1>3
<1>5. k < Len(Frame(f, t)) /\ c = SubSeq(Frame(f, t), 1, k)
  BY <1>2, <1>4
<1>6. c \in Seq(Octet) /\ UnmarshalBVLC(c).npdu = NoNPDU
  BY <1>4, <1>5, CutFrame
<1> QED
  BY <1>6 DEF Broken

\* Nothing is made of what is left of a frame.
LEMMA BrokenIsDropped ==
  ASSUME NEW c, Broken(c)
  PROVE  Dropped(UnmarshalBVLC(c))
<1>1. NoNPDU.hasAPDU = FALSE
  BY DEF NoNPDU, NPDUWith
<1> QED
  BY <1>1 DEF Broken, Dropped

LEMMA SmallBodies ==
  ASSUME NEW t \in Seq(Octet), Len(t) <= 3000
  PROVE  t \in Bodies
<1>1. Len(t) \in Nat
  BY LenProperties
<1> QED
  BY <1>1 DEF Bodies

LEMMA PlainFrame ==
  ASSUME NEW dest \in Reachable, NEW source \in Reachable, NEW reply \in BOOLEAN,
         NEW f \in Octet, NEW apdu, apdu.err = NoErr, apdu.bytes \in Seq(Octet),
         Len(apdu.bytes) <= 2000,
         NEW m, m = MarshalBVLC(f, MarshalNPDU(Plain(dest, source, reply), apdu)),
         NEW b, b = UnmarshalBVLC(m.bytes)
  PROVE  /\ m.err = NoErr /\ IsFrame(m.bytes)
         /\ Carries(b.npdu, dest, source, reply, UnmarshalAPDU(apdu.bytes))
         /\ b.err = UnmarshalAPDU(apdu.bytes).err
<1>1. PICK t \in Seq(Octet) : t = apdu.bytes
  OBVIOUS
<1>2. PICK n : n = MarshalNPDU(Plainly(dest, source, reply), apdu)
  OBVIOUS
<1>3. m = MarshalBVLC(f, n)
  BY <1>2 DEF Plain, Plainly
<1>4. PICK d : d = NPDUOctets(dest, source, reply, t)
  OBVIOUS
<1>5. n.err = NoErr /\ n.bytes = d
  BY <1>1, <1>2, <1>4, MarshalPlain
<1>6. d \in Seq(Octet) /\ Len(d) <= 600 + Len(t) /\ Len(d) \in Nat /\ Len(t) \in Nat
  BY <1>4, NPDULength, LenProperties
<1>7. d \in Bodies
  <2>1. Len(d) <= 3000
    BY <1>1, <1>6
  <2> QED
    BY <1>6, <2>1, SmallBodies
<1>8. m.err = NoErr /\ m.bytes = Frame(f, d)
  BY <1>3, <1>5, <1>7, MarshalFrame
<1>9. IsFrame(m.bytes)
  BY <1>7, <1>8 DEF IsFrame
<1>10. b.npdu = UnmarshalNPDU(d) /\ b.err = UnmarshalNPDU(d).err
  BY <1>7, <1>8, FrameFacts
<1>11. Carries(UnmarshalNPDU(d), dest, source, reply, UnmarshalAPDU(t))
  BY <1>4, NPDUAt
<1>12. UnmarshalNPDU(d).err = UnmarshalAPDU(t).err
  BY <1>11 DEF Carries
<1> QED
  BY <1>1, <1>8, <1>9, <1>10, <1>11, <1>12

----------------------------------------------------------------------------
(***************************************************************************)
(* The frames of a scan.                                                   *)
(***************************************************************************)
LEMMA OnlyEncodedIsSent ==
  ASSUME NEW f, NEW p, NEW a, NEW payload,
         MarshalBVLC(f, MarshalNPDU(p, MarshalAPDU(a, payload))).err = NoErr
  PROVE  payload.err = NoErr
<1>1. NotEncoded.err = Failed /\ Failed # NoErr
  BY DEF NotEncoded, Failed, NoErr
<1>2. PICK n : n = MarshalAPDU(a, payload)
  OBVIOUS
<1>3. PICK m : m = MarshalNPDU(p, n)
  OBVIOUS
<1>4. m.err # NoErr => MarshalBVLC(f, m) = NotEncoded
  BY DEF MarshalBVLC
<1>5. n.err # NoErr => m = NotEncoded
  BY <1>3 DEF MarshalNPDU
<1>6. payload.err # NoErr => n = NotEncoded
  BY <1>2 DEF MarshalAPDU
<1> QED
  BY <1>1, <1>2, <1>3, <1>4, <1>5, <1>6

LEMMA EveryoneFacts == Everyone \in Reachable /\ Local \in Reachable
<1>1. PICK e \in Seq(Octet) : e = <<>>
  BY NoOctets
<1>2. Len(e) < 256
  BY <1>1, NoOctets
<1>3. e \in Adrs
  BY <1>2 DEF Adrs
<1>4. 65535 \in Networks
  BY DEF Networks
<1>5. Everyone \in Remotes
  BY <1>1, <1>3, <1>4 DEF Everyone, Remotes
<1> QED
  BY <1>5 DEF Reachable

\* The range a device takes a WhoIs for.
HeardAs(range) ==
  IF NoLimit \in {range.low, range.high} THEN [low |-> NoLimit, high |-> NoLimit] ELSE range

AnyRange == [low : Uint32 \union {NoLimit}, high : Uint32 \union {NoLimit}]

LEMMA RangeFacts ==
  ASSUME NEW range \in AnyRange
  PROVE  /\ range.low \in LimitSet /\ range.high \in LimitSet
         /\ range = [low |-> range.low, high |-> range.high]
         /\ Whole(range) <=> NoLimit \notin {range.low, range.high}
BY DEF AnyRange, LimitSet, Whole

LEMMA ServiceOctets ==
  /\ ServiceUnconfirmedWhoIs \in Octet /\ ServiceUnconfirmedIAm \in Octet
  /\ ServiceConfirmedReadProperty \in Octet /\ ServiceConfirmedWriteProperty \in Octet
  /\ BacFuncBroadcast \in Octet /\ BacFuncUnicast \in Octet
BY OctetRange DEF ServiceUnconfirmedWhoIs, ServiceUnconfirmedIAm, ServiceConfirmedReadProperty,
                  ServiceConfirmedWriteProperty, BacFuncBroadcast, BacFuncUnicast

LEMMA ScanKinds ==
  /\ PayloadKind(UnconfirmedServiceRequest, ServiceUnconfirmedWhoIs) = "WhoIs"
  /\ PayloadKind(UnconfirmedServiceRequest, ServiceUnconfirmedIAm) = "Iam"
BY DEF PayloadKind, UnconfirmedServiceRequest, ServiceUnconfirmedWhoIs, ServiceUnconfirmedIAm,
       ComplexAck, ErrorPDU

LEMMA PayloadOf ==
  ASSUME NEW t
  PROVE  /\ UnmarshalPayload("WhoIs", t) = UnmarshalWhoIs(t)
         /\ UnmarshalPayload("Iam", t) = UnmarshalIam(t)
         /\ UnmarshalPayload("ReadProperty", t) = UnmarshalReadProperty(t)
         /\ UnmarshalPayload("ApduError", t) = UnmarshalApduError(t)
BY DEF UnmarshalPayload

\* A message to everyone, from a source, with the payload t of a service s.
MessageFrame(f, x, source, s, payload) ==
  MarshalBVLC(f, MarshalNPDU(Plain(x, source, FALSE),
    MarshalAPDU([type |-> UnconfirmedServiceRequest, service |-> s], payload)))

LEMMA AnnouncementFrame ==
  ASSUME NEW x \in Reachable, NEW source \in Reachable, NEW f \in Octet,
         NEW s \in Octet, NEW payload, payload.err = NoErr,
         NEW t \in Seq(Octet), payload.bytes = t, Len(t) <= 1000,
         NEW m, m = MessageFrame(f, x, source, s, payload),
         NEW b, b = UnmarshalBVLC(m.bytes)
  PROVE  /\ IsFrame(m.bytes) /\ m.err = NoErr
         /\ b.npdu.source = source /\ b.npdu.hasAPDU /\ b.err = b.npdu.apdu.err
         /\ APDUIs(b.npdu.apdu, UnconfirmedServiceRequest, 0, s, t)
<1>1. PICK n : n = MarshalAPDU([type |-> UnconfirmedServiceRequest, service |-> s], payload)
  OBVIOUS
<1>2. /\ n.err = NoErr /\ n.bytes \in Seq(Octet) /\ Len(n.bytes) = 2 + Len(t) /\ Len(t) \in Nat
      /\ APDUIs(UnmarshalAPDU(n.bytes), UnconfirmedServiceRequest, 0, s, t)
  BY <1>1, UnconfirmedAPDU
<1>3. n.err = NoErr /\ n.bytes \in Seq(Octet) /\ Len(n.bytes) <= 2000
  BY <1>2
<1>6. PICK r \in BOOLEAN : r = FALSE
  OBVIOUS
<1>7. m = MarshalBVLC(f, MarshalNPDU(Plain(x, source, r), n))
  BY <1>1, <1>6 DEF MessageFrame
<1>8. /\ m.err = NoErr /\ IsFrame(m.bytes)
      /\ Carries(b.npdu, x, source, r, UnmarshalAPDU(n.bytes))
      /\ b.err = UnmarshalAPDU(n.bytes).err
  BY <1>3, <1>7, PlainFrame
<1>9. /\ b.npdu.source = source /\ b.npdu.hasAPDU
      /\ b.npdu.apdu = UnmarshalAPDU(n.bytes)
  BY <1>8 DEF Carries
<1> QED
  BY <1>2, <1>8, <1>9

LEMMA WhoIsIsHeard ==
  ASSUME NEW range \in AnyRange, WhoIsFrame(range).err = NoErr,
         NEW apdu, apdu = UnmarshalBVLC(WhoIsFrame(range).bytes).npdu.apdu
  PROVE  /\ IsFrame(WhoIsFrame(range).bytes) /\ apdu.kind = "WhoIs"
         /\ [low |-> apdu.payload.low, high |-> apdu.payload.high] = HeardAs(range)
<1>1. MarshalWhoIs(range).err = NoErr
  <2>1. PICK payload : payload = MarshalWhoIs(range)
    OBVIOUS
  <2>2. PICK a : a = [type |-> UnconfirmedServiceRequest, service |-> ServiceUnconfirmedWhoIs]
    OBVIOUS
  <2>3. PICK p : p = Plain(Everyone, Local, FALSE)
    OBVIOUS
  <2>4. WhoIsFrame(range) = MarshalBVLC(BacFuncBroadcast, MarshalNPDU(p, MarshalAPDU(a, payload)))
    BY <2>1, <2>2, <2>3 DEF WhoIsFrame
  <2>5. payload.err = NoErr
    BY <2>4, OnlyEncodedIsSent
  <2> QED
    BY <2>1, <2>5
<1>2. PICK t \in Seq(Octet) : t = Limited(range)
  BY RangeFacts, LimitedFacts
<1>3. MarshalWhoIs(range).bytes = t
  BY <1>1, <1>2, RangeFacts, MarshalLimits
<1>4. Len(t) <= 1000
  BY <1>2, RangeFacts, LimitedFacts
<1>5. PICK s \in Octet : s = ServiceUnconfirmedWhoIs
  BY ServiceOctets
<1>6. PICK m : m = WhoIsFrame(range)
  OBVIOUS
<1>7. PICK payload : payload = MarshalWhoIs(range)
  OBVIOUS
<1>8. PICK source \in Reachable : source = Local
  BY EveryoneFacts
<1>80. PICK f \in Octet : f = BacFuncBroadcast
  BY ServiceOctets
<1>81. PICK x \in Reachable : x = Everyone
  BY EveryoneFacts
<1>9. m = MessageFrame(f, x, source, s, payload)
  BY <1>5, <1>6, <1>7, <1>8, <1>80, <1>81 DEF WhoIsFrame, MessageFrame
<1>10. payload.err = NoErr /\ payload.bytes = t
  BY <1>1, <1>3, <1>7
<1>11. /\ IsFrame(m.bytes)
       /\ APDUIs(UnmarshalBVLC(m.bytes).npdu.apdu, UnconfirmedServiceRequest, 0, s, t)
  <2>1. PICK b : b = UnmarshalBVLC(m.bytes)
    OBVIOUS
  <2>2. IsFrame(m.bytes) /\ APDUIs(b.npdu.apdu, UnconfirmedServiceRequest, 0, s, t)
    BY <1>4, <1>9, <1>10, <2>1, AnnouncementFrame
  <2> QED
    BY <2>1, <2>2
<1>12. PICK w : w = UnmarshalWhoIs(t)
  OBVIOUS
<1>13. apdu.kind = "WhoIs" /\ apdu.payload = w
  BY <1>5, <1>6, <1>11, <1>12, ScanKinds, PayloadOf DEF APDUIs
<1>14. /\ Whole(range) => w.low = range.low /\ w.high = range.high
       /\ ~Whole(range) => w.low = NoLimit /\ w.high = NoLimit
  BY <1>2, <1>12, RangeFacts, LimitsAt
<1>15. [low |-> w.low, high |-> w.high] = HeardAs(range)
  BY <1>14, RangeFacts DEF HeardAs
<1> QED
  BY <1>6, <1>11, <1>13, <1>15

\* What the scan makes of the announcement of device d.
AnnouncementOf(d) ==
  MarshalBVLC(BacFuncBroadcast,
    MarshalNPDU(Plain(Everyone, d.route, FALSE),
      MarshalAPDU([type |-> UnconfirmedServiceRequest, service |-> ServiceUnconfirmedIAm],
                  MarshalIam(d.iam))))

IsDevice(d) ==
  d.iam \in Announced /\ d.udp \in UDPAddresses /\ d.route \in Reachable

Announces(b, d) ==
  /\ ~Dropped(b) /\ b.npdu.source = d.route /\ b.npdu.apdu.kind = "Iam"
  /\ b.npdu.apdu.payload.object = d.iam.object
  /\ b.npdu.apdu.payload.maxApdu = d.iam.maxApdu
  /\ b.npdu.apdu.payload.segmentation = d.iam.segmentation
  /\ b.npdu.apdu.payload.vendor = d.iam.vendor

LEMMA AnnouncedIsAnnounceable ==
  ASSUME NEW iam \in Announced
  PROVE  Announceable(iam)
<1>1. /\ iam.object \in DeviceObjects /\ iam.maxApdu \in Uint32
      /\ iam.segmentation \in Octet /\ iam.vendor \in Uint32
  BY DEF Announced
<1> QED
  BY <1>1, DeviceObjectsAreValid DEF Announceable

LEMMA AnnouncementIsFound ==
  ASSUME NEW d, IsDevice(d), NEW b, b = UnmarshalBVLC(AnnouncementOf(d).bytes)
  PROVE  IsFrame(AnnouncementOf(d).bytes) /\ Announces(b, d)
<1>1. PICK iam : iam = d.iam
  OBVIOUS
<1>2. Announceable(iam) /\ d.route \in Reachable
  <2>1. iam \in Announced /\ d.route \in Reachable
    BY <1>1 DEF IsDevice
  <2> QED
    BY <2>1, AnnouncedIsAnnounceable
<1>3. PICK t \in Seq(Octet) : t = IamOctets(iam)
  BY <1>2, IamOctetsFacts
<1>4. Len(t) <= 1000
  BY <1>2, <1>3, IamOctetsFacts
<1>5. PICK payload : payload = MarshalIam(iam)
  OBVIOUS
<1>6. payload.err = NoErr /\ payload.bytes = t
  BY <1>2, <1>3, <1>5, MarshalIamAt DEF Encoded
<1>7. PICK s \in Octet : s = ServiceUnconfirmedIAm
  BY ServiceOctets
<1>8. PICK source \in Reachable : source = d.route
  BY <1>2
<1>9. PICK m : m = AnnouncementOf(d)
  OBVIOUS
<1>90. PICK f \in Octet : f = BacFuncBroadcast
  BY ServiceOctets
<1>91. PICK x \in Reachable : x = Everyone
  BY EveryoneFacts
<1>10. m = MessageFrame(f, x, source, s, payload)
  BY <1>1, <1>5, <1>7, <1>8, <1>9, <1>90, <1>91 DEF AnnouncementOf, MessageFrame
<1>11. b = UnmarshalBVLC(m.bytes)
  BY <1>9
<1>12. /\ IsFrame(m.bytes) /\ m.err = NoErr
       /\ b.npdu.source = source /\ b.npdu.hasAPDU /\ b.err = b.npdu.apdu.err
       /\ APDUIs(b.npdu.apdu, UnconfirmedServiceRequest, 0, s, t)
  BY <1>4, <1>6, <1>10, <1>11, AnnouncementFrame
<1>13. PICK r : r = UnmarshalIam(t)
  OBVIOUS
<1>14. b.npdu.apdu.kind = "Iam" /\ b.npdu.apdu.payload = r /\ b.npdu.apdu.err = r.err
  BY <1>7, <1>12, <1>13, ScanKinds, PayloadOf DEF APDUIs
<1>15. /\ r.err = NoErr /\ r.object = iam.object /\ r.maxApdu = iam.maxApdu
       /\ r.segmentation = iam.segmentation /\ r.vendor = iam.vendor
  BY <1>2, <1>3, <1>13, IamAt
<1>16. ~Dropped(b)
  <2>1. NoErr \notin {NotBacnetIP, Panics}
    BY DEF NoErr, NotBacnetIP, Panics
  <2> QED
    BY <1>12, <1>14, <1>15, <2>1 DEF Dropped
<1> QED
  BY <1>1, <1>8, <1>9, <1>12, <1>14, <1>15, <1>16 DEF Announces

----------------------------------------------------------------------------
(***************************************************************************)
(* The frames of a call.                                                   *)
(***************************************************************************)
AnyObjects == [type : Uint32 \ {MaxObjectType}, instance : Uint32]
IsRequest(r) ==
  /\ r.service \in {ServiceConfirmedReadProperty, ServiceConfirmedWriteProperty}
  /\ r.object \in AnyObjects /\ r.property \in Uint32 /\ r.index \in IndexSet
  /\ r.value \in PropertyValues /\ r.priority \in Octet

Parameterised(r) ==
  IF r.service = ServiceConfirmedReadProperty THEN MarshalReadProperty(r)
                                              ELSE MarshalWriteProperty(r)

\* The octets t say what r asks for, and no more.
Says(t, r, v, q, c) ==
  /\ Left(c, <<>>) /\ Parameters(t) = Params(r.object, r.property, r.index, v, q, Fresh(c))
  /\ r.service = ServiceConfirmedWriteProperty => v = r.value.value /\ q = r.priority

LEMMA TwoServices == ServiceConfirmedReadProperty # ServiceConfirmedWriteProperty
BY DEF ServiceConfirmedReadProperty, ServiceConfirmedWriteProperty

LEMMA RequestIsReadable ==
  ASSUME NEW r, IsRequest(r), Parameterised(r).err = NoErr
  PROVE  Readable(r)
<1>1. /\ ~ValidForEncode(r.object) => MarshalReadProperty(r).err # NoErr
      /\ ~ValidForEncode(r.object) => MarshalWriteProperty(r).err # NoErr
  BY NotReadable, NotWritable DEF IsRequest
<1>2. ValidForEncode(r.object)
  BY <1>1 DEF Parameterised
<1>3. ValidObject(r.object)
  BY <1>2, Objects DEF IsRequest, AnyObjects
<1> QED
  BY <1>3 DEF IsRequest, Readable

LEMMA ReadRequestSays ==
  ASSUME NEW r, Readable(r), r.service = ServiceConfirmedReadProperty
  PROVE  \E t \in Seq(Octet) : /\ Parameterised(r) = Encoded(t) /\ Len(t) <= 100
                               /\ \E v : \E q : \E c : Says(t, r, v, q, c)
<1>1. PICK n \in Seq(Octet) : n = <<>> /\ Len(n) = 0
  BY NoOctets
<1>2. PICK t : t = ReadOctets(r, n)
  OBVIOUS
<1>3. t \in Seq(Octet) /\ Len(t) <= 33 + Len(n) /\ Len(t) \in Nat
  BY <1>2, ReadOctetsFacts
<1>4. Parameterised(r) = Encoded(t)
  BY <1>1, <1>2, MarshalReadAt DEF Parameterised
<1>5. \E c : Left(c, n) /\ Parameters(t) = Params(r.object, r.property, r.index, GoNil, 0, Fresh(c))
  BY <1>1, <1>2, ReadParametersAt
<1>6. PICK c : Left(c, n) /\ Parameters(t) = Params(r.object, r.property, r.index, GoNil, 0, Fresh(c))
  BY <1>5
<1>7. Says(t, r, GoNil, 0, c)
  BY <1>1, <1>6, TwoServices DEF Says
<1>8. \E v : \E q : \E k : Says(t, r, v, q, k)
  BY <1>7
<1>9. Len(t) <= 100
  BY <1>1, <1>3
<1> QED
  BY <1>3, <1>4, <1>8, <1>9

LEMMA WriteRequestSays ==
  ASSUME NEW r, Readable(r), IsRequest(r), r.service = ServiceConfirmedWriteProperty
  PROVE  \E t \in Seq(Octet) : /\ Parameterised(r) = Encoded(t) /\ Len(t) <= 100
                               /\ \E v : \E q : \E c : Says(t, r, v, q, c)
<1>1. r.priority \in Octet /\ r.value \in PropertyValues
  BY DEF IsRequest
<1>2. PICK v : \E s : WrittenAs(r.value, v, s)
  BY <1>1, ValueWritten
<1>3. PICK s : WrittenAs(r.value, v, s)
  BY <1>2
<1>4. PICK u : u = ValueOctets(r, v, s)
  OBVIOUS
<1>5. u \in Seq(Octet) /\ Len(u) <= 36 /\ Len(u) \in Nat
  BY <1>1, <1>3, <1>4, ValueOctetsFacts
<1>6. PICK t : t = ReadOctets(r, u)
  OBVIOUS
<1>7. t \in Seq(Octet) /\ Len(t) <= 33 + Len(u) /\ Len(t) \in Nat
  BY <1>5, <1>6, ReadOctetsFacts
<1>8. Parameterised(r) = Encoded(t)
  <2>1. MarshalWriteProperty(r) = Encoded(t)
    BY <1>1, <1>3, <1>4, <1>6, MarshalWriteAt
  <2> QED
    BY <2>1, TwoServices DEF Parameterised
<1>9. \E c : /\ Left(c, <<>>)
             /\ Parameters(t) = Params(r.object, r.property, r.index, r.value.value,
                                       r.priority, Fresh(c))
  BY <1>1, <1>3, <1>4, <1>6, WriteParametersAt
<1>10. PICK c : /\ Left(c, <<>>)
                /\ Parameters(t) = Params(r.object, r.property, r.index, r.value.value,
                                          r.priority, Fresh(c))
  BY <1>9
<1>11. Says(t, r, r.value.value, r.priority, c)
  BY <1>10 DEF Says
<1>12. \E x : \E q : \E k : Says(t, r, x, q, k)
  BY <1>11
<1>13. Len(t) <= 100
  BY <1>5, <1>7
<1> QED
  BY <1>7, <1>8, <1>12, <1>13

LEMMA RequestSays ==
  ASSUME NEW r, IsRequest(r), Parameterised(r).err = NoErr
  PROVE  \E t \in Seq(Octet) : /\ Parameterised(r) = Encoded(t) /\ Len(t) <= 100
                               /\ \E v : \E q : \E c : Says(t, r, v, q, c)
<1>1. Readable(r)
  BY RequestIsReadable
<1>2. r.service = ServiceConfirmedReadProperty \/ r.service = ServiceConfirmedWriteProperty
  BY DEF IsRequest
<1>3. CASE r.service = ServiceConfirmedReadProperty
  BY <1>1, <1>3, ReadRequestSays
<1>4. CASE r.service = ServiceConfirmedWriteProperty
  BY <1>1, <1>4, WriteRequestSays
<1> QED
  BY <1>2, <1>3, <1>4

\* Behind two octets.
BehindTwo(o) == SubSeq(o, 3, Len(o))

LEMMA BehindTwoOctets ==
  ASSUME NEW i \in Octet, NEW s \in Octet, NEW t \in Seq(Octet), NEW o, o = Cons(i, Cons(s, t))
  PROVE  o[1] = i /\ o[2] = s /\ BehindTwo(o) = t
<1>1. PICK p : p = <<i, s>>
  OBVIOUS
<1>2. p \in Seq(Octet) /\ Len(p) = 2 /\ p[1] = i /\ p[2] = s
  BY <1>1
<1>3. o = Join(p, t)
  BY <1>1, PairCons
<1>4. o \in Seq(Octet)
  BY <1>2, <1>3, JoinFacts
<1>5. PICK b : b = NewBuffer(o)
  OBVIOUS
<1>6. Left(b, Join(p, t))
  BY <1>3, <1>4, <1>5, LeftAll
<1>7. PICK c : c = Behind(b, Len(p))
  OBVIOUS
<1>8. At(b, p) /\ Left(c, t)
  BY <1>2, <1>6, <1>7, LeftJoin
<1>9. b.bytes = o /\ b.off = 0 /\ c.bytes = o /\ c.off = 2
  BY <1>2, <1>5, <1>7 DEF NewBuffer, Behind, Cursor
<1>10. o[1] = i /\ o[2] = s
  <2>1. \A k \in 1..Len(p) : b.bytes[b.off + k] = p[k]
    BY <1>8 DEF At
  <2>2. \A k \in 1..2 : o[0 + k] = p[k]
    BY <1>2, <1>9, <2>1
  <2>3. o[0 + 1] = p[1] /\ o[0 + 2] = p[2]
    BY <2>2
  <2> QED
    BY <1>2, <2>3
<1>11. SubSeq(o, c.off + 1, Len(o)) = t
  <2>1. Rest(c) = t
    BY <1>8, LeftRest
  <2> QED
    BY <1>9, <2>1 DEF Rest
<1> QED
  BY <1>9, <1>10, <1>11 DEF BehindTwo

\* The request r is understood as it was meant.
Meant(u, r, id, dest) ==
  /\ u.dest = dest /\ u.reply /\ u.err = NoErr /\ u.rest = <<>>
  /\ u.invokeID = id /\ u.service = r.service
  /\ u.object = r.object /\ u.property = r.property /\ u.index = r.index
  /\ u.service = ServiceConfirmedWriteProperty =>
       u.value = r.value.value /\ u.priority = r.priority

LEMMA UnderstoodAsMeant ==
  ASSUME NEW r, NEW i \in Octet, NEW s \in Octet, s = r.service, NEW t \in Seq(Octet),
         NEW n, n.apdu.payload.bytes = Cons(i, Cons(s, t)), n.reply,
         NEW v, NEW q, NEW c, Says(t, r, v, q, c), NEW u, u = Understand(n)
  PROVE  Meant(u, r, i, n.dest)
<1>1. PICK o : o = n.apdu.payload.bytes
  OBVIOUS
<1>2. o[1] = i /\ o[2] = s /\ BehindTwo(o) = t
  BY <1>1, BehindTwoOctets
<1>3. PICK p : p = Parameters(t)
  OBVIOUS
<1>4. u = UnderstoodAs(n, o, p)
  BY <1>1, <1>2, <1>3 DEF Understand, BehindTwo
<1>5. p = Params(r.object, r.property, r.index, v, q, Fresh(c)) /\ Left(c, <<>>)
  BY <1>3 DEF Says
<1>6. /\ p.object = r.object /\ p.property = r.property /\ p.index = r.index
      /\ p.value = v /\ p.priority = q /\ p.dec = Fresh(c)
  BY <1>5 DEF Params
<1>7. p.dec.err = NoErr /\ p.dec.buf = c
  BY <1>6 DEF Fresh
<1>8. Rest(c) = <<>>
  BY <1>5, LeftRest
<1>9. /\ u.invokeID = o[1] /\ u.service = o[2] /\ u.err = p.dec.err /\ u.object = p.object
      /\ u.property = p.property /\ u.index = p.index /\ u.value = p.value
      /\ u.priority = p.priority /\ u.rest = Rest(p.dec.buf) /\ u.dest = n.dest
  BY <1>4 DEF UnderstoodAs
<1>10. u.reply
  BY <1>4 DEF UnderstoodAs
<1>11. u.invokeID = i /\ u.service = r.service /\ u.err = NoErr /\ u.rest = <<>>
  BY <1>2, <1>7, <1>8, <1>9
<1>12. u.object = r.object /\ u.property = r.property /\ u.index = r.index
  BY <1>6, <1>9
<1>13. r.service = ServiceConfirmedWriteProperty => v = r.value.value /\ q = r.priority
  BY DEF Says
<1>14. u.service = ServiceConfirmedWriteProperty =>
         u.value = r.value.value /\ u.priority = r.priority
  BY <1>6, <1>9, <1>11, <1>13
<1>15. u.dest = n.dest
  BY <1>9
<1> QED
  BY <1>10, <1>11, <1>12, <1>14, <1>15 DEF Meant

LEMMA RequestIsUnderstood ==
  ASSUME NEW r, IsRequest(r), NEW id \in Octet, NEW dest \in Reachable,
         RequestFrame(r, id, dest).err = NoErr,
         NEW m, m = RequestFrame(r, id, dest), NEW n, n = UnmarshalBVLC(m.bytes).npdu
  PROVE  IsFrame(m.bytes) /\ Readable(r) /\ Meant(Understand(n), r, id, dest)
<1>1. PICK payload : payload = Parameterised(r)
  OBVIOUS
<1>2. PICK a : a = MarshalAPDU([type |-> ConfirmedServiceRequest, service |-> r.service,
                                invokeID |-> id], payload)
  OBVIOUS
<1>3. PICK reply \in BOOLEAN : reply = TRUE
  OBVIOUS
<1>4. PICK f \in Octet : f = BacFuncUnicast
  BY ServiceOctets
<1>5. PICK source \in Reachable : source = Local
  BY EveryoneFacts
<1>6. m = MarshalBVLC(f, MarshalNPDU(Plain(dest, source, reply), a))
  BY <1>1, <1>2, <1>3, <1>4, <1>5 DEF RequestFrame, Parameterised
<1>7. payload.err = NoErr
  <2>1. PICK x : x = [type |-> ConfirmedServiceRequest, service |-> r.service, invokeID |-> id]
    OBVIOUS
  <2>2. PICK p : p = Plain(dest, source, reply)
    OBVIOUS
  <2>3. MarshalBVLC(f, MarshalNPDU(p, MarshalAPDU(x, payload))).err = NoErr
    BY <1>2, <1>6, <2>1, <2>2
  <2> QED
    BY <2>3, OnlyEncodedIsSent
<1>8. Readable(r)
  BY <1>1, <1>7, RequestIsReadable
<1>9. \E t \in Seq(Octet) : /\ payload = Encoded(t) /\ Len(t) <= 100
                            /\ \E v : \E q : \E c : Says(t, r, v, q, c)
  BY <1>1, <1>7, RequestSays
<1>10. PICK t \in Seq(Octet) : /\ payload = Encoded(t) /\ Len(t) <= 100
                               /\ \E v : \E q : \E c : Says(t, r, v, q, c)
  BY <1>9
<1>11. PICK v : \E q : \E c : Says(t, r, v, q, c)
  BY <1>10
<1>12. PICK q : \E c : Says(t, r, v, q, c)
  BY <1>11
<1>13. PICK c : Says(t, r, v, q, c)
  BY <1>12
<1>14. payload.err = NoErr /\ payload.bytes = t
  BY <1>10 DEF Encoded
<1>15. PICK s \in Octet : s = r.service
  BY ServiceOctets DEF IsRequest
<1>16. a = MarshalAPDU([type |-> ConfirmedServiceRequest, service |-> s, invokeID |-> id], payload)
  BY <1>2, <1>15
<1>17. /\ a.err = NoErr /\ a.bytes \in Seq(Octet) /\ Len(a.bytes) = 4 + Len(t) /\ Len(t) \in Nat
       /\ UnmarshalAPDU(a.bytes).payload.bytes = Cons(id, Cons(s, t))
  BY <1>14, <1>16, ConfirmedAPDU
<1>18. a.err = NoErr /\ a.bytes \in Seq(Octet) /\ Len(a.bytes) <= 2000
  BY <1>10, <1>17
<1>19. PICK b : b = UnmarshalBVLC(m.bytes)
  OBVIOUS
<1>20. IsFrame(m.bytes) /\ Carries(b.npdu, dest, source, reply, UnmarshalAPDU(a.bytes))
  BY <1>6, <1>18, <1>19, PlainFrame
<1>21. n = b.npdu
  BY <1>19
<1>22. n.apdu = UnmarshalAPDU(a.bytes) /\ n.dest = dest
  BY <1>20, <1>21 DEF Carries
<1>23. n.reply = reply
  BY <1>20, <1>21 DEF Carries
<1>24. n.reply
  BY <1>3, <1>23
<1>25. n.apdu.payload.bytes = Cons(id, Cons(s, t))
  BY <1>17, <1>22
<1>26. PICK u : u = Understand(n)
  OBVIOUS
<1>27. Meant(u, r, id, n.dest)
  BY <1>13, <1>15, <1>24, <1>25, <1>26, UnderstoodAsMeant
<1> QED
  BY <1>8, <1>20, <1>22, <1>26, <1>27

----------------------------------------------------------------------------
(***************************************************************************)
(* The frames of an answer, and what a call makes of them.                 *)
(***************************************************************************)
AnswerWith(route, d) ==
  MarshalBVLC(BacFuncUnicast, MarshalNPDU(Plain(Local, route, FALSE), Encoded(d)))

OutcomeOf(b, id, service) ==
  IF Dropped(b) \/ ~IsAnswer(b.npdu.apdu.header) \/ b.npdu.apdu.header.invokeID # id
  THEN Nothing
  ELSE IF service = ServiceConfirmedReadProperty
       THEN ReadAnswer(b.npdu.apdu) ELSE WriteAnswer(b.npdu.apdu)

\* A datagram holds an APDU that the octets d are read as.
Brings(b, d) ==
  b.npdu.hasAPDU /\ b.npdu.apdu = UnmarshalAPDU(d) /\ b.err = UnmarshalAPDU(d).err

LEMMA AnswerWithIs ==
  ASSUME NEW route, NEW d
  PROVE  \E f \in Octet : \E x \in Reachable : \E r \in BOOLEAN :
           AnswerWith(route, d) = MarshalBVLC(f, MarshalNPDU(Plain(x, route, r), Encoded(d)))
<1>1. AnswerWith(route, d) =
        MarshalBVLC(BacFuncUnicast, MarshalNPDU(Plain(Local, route, FALSE), Encoded(d)))
  BY DEF AnswerWith
<1>2. BacFuncUnicast \in Octet /\ Local \in Reachable /\ FALSE \in BOOLEAN
  BY ServiceOctets, EveryoneFacts
<1> QED
  BY <1>1, <1>2, Zenon

LEMMA AnswerIsCarried ==
  ASSUME NEW route \in Reachable, NEW d \in Seq(Octet), Len(d) <= 2000,
         NEW m, m = AnswerWith(route, d), NEW b, b = UnmarshalBVLC(m.bytes)
  PROVE  IsFrame(m.bytes) /\ Brings(b, d)
<1>1. PICK f \in Octet, dest \in Reachable, r \in BOOLEAN :
        AnswerWith(route, d) = MarshalBVLC(f, MarshalNPDU(Plain(dest, route, r), Encoded(d)))
  BY AnswerWithIs
<1>4. PICK apdu : apdu = Encoded(d)
  OBVIOUS
<1>5. apdu.err = NoErr /\ apdu.bytes = d
  BY <1>4 DEF Encoded
<1>6. m = MarshalBVLC(f, MarshalNPDU(Plain(dest, route, r), apdu))
  BY <1>1, <1>4
<1>7. /\ IsFrame(m.bytes) /\ Carries(b.npdu, dest, route, r, UnmarshalAPDU(d))
      /\ b.err = UnmarshalAPDU(d).err
  <2>1. apdu.err = NoErr /\ apdu.bytes \in Seq(Octet) /\ Len(apdu.bytes) <= 2000
    BY <1>5
  <2>2. /\ IsFrame(m.bytes) /\ Carries(b.npdu, dest, route, r, UnmarshalAPDU(apdu.bytes))
        /\ b.err = UnmarshalAPDU(apdu.bytes).err
    BY <1>6, <2>1, PlainFrame
  <2> QED
    BY <1>5, <2>2
<1>8. b.npdu.hasAPDU /\ b.npdu.apdu = UnmarshalAPDU(d)
  BY <1>7 DEF Carries
<1> QED
  BY <1>7, <1>8 DEF Brings

LEMMA KnownAnswer ==
  ASSUME NEW b, NEW d, Brings(b, d), NEW x \in Answers, NEW i, NEW y, NEW t,
         APDUIs(UnmarshalAPDU(d), x, i, y, t), UnmarshalAPDU(d).err = NoErr,
         NEW service, NEW apdu, apdu = UnmarshalAPDU(d)
  PROVE  /\ OutcomeOf(b, i, service) = IF service = ServiceConfirmedReadProperty
                                       THEN ReadAnswer(apdu) ELSE WriteAnswer(apdu)
         /\ apdu.header.type = x /\ apdu.header.service = y
<1>1. ~Dropped(b)
  <2>1. NoErr \notin {NotBacnetIP, Panics}
    BY DEF NoErr, NotBacnetIP, Panics
  <2> QED
    BY <2>1 DEF Dropped, Brings
<1>2. /\ apdu.header.type = x /\ apdu.header.service = y /\ apdu.header.invokeID = i
      /\ b.npdu.apdu = apdu
  BY DEF APDUIs, Brings
<1>3. IsAnswer(b.npdu.apdu.header) /\ b.npdu.apdu.header.invokeID = i
  BY <1>2 DEF IsAnswer
<1> QED
  BY <1>1, <1>2, <1>3 DEF OutcomeOf

LEMMA AnswerTypes ==
  /\ SimpleAck \in Answers /\ ComplexAck \in Answers /\ ErrorPDU \in Answers
  /\ SimpleAck # ErrorPDU /\ ComplexAck # ErrorPDU /\ ComplexAck # SimpleAck
BY DEF Answers, SimpleAck, ComplexAck, ErrorPDU

LEMMA AnswerKinds ==
  /\ PayloadKind(ComplexAck, ServiceConfirmedReadProperty) = "ReadProperty"
  /\ PayloadKind(ComplexAck, ServiceConfirmedWriteProperty) = "DataPayload"
  /\ \A y : /\ PayloadKind(SimpleAck, y) = "DataPayload"
            /\ PayloadKind(ErrorPDU, y) = "ApduError"
BY DEF PayloadKind, SimpleAck, ComplexAck, ErrorPDU, UnconfirmedServiceRequest,
       ServiceConfirmedReadProperty, ServiceConfirmedWriteProperty

\* The answers in the order they are in the model.
AnswerOctets(x, i, y, t) == Join(<<x, i, y>>, t)

LEMMA ReadIsAnswered ==
  ASSUME NEW i \in Octet, NEW r, Readable(r), NEW v \in Decoded,
         NEW t, t = AckPayload(r, v).bytes,
         NEW d, d = AnswerOctets(ComplexAck, i, ServiceConfirmedReadProperty, t),
         NEW b, Brings(b, d)
  PROVE  OutcomeOf(b, i, ServiceConfirmedReadProperty) = [err |-> NoErr, value |-> v.value]
<1>1. PICK n : \E s : Standard(v, n, s) /\ Holds(v.tag, n, s, v.value)
  BY StandardAt
<1>2. PICK s : Standard(v, n, s) /\ Holds(v.tag, n, s, v.value)
  BY <1>1
<1>3. PICK p : p = PropertyOctets(3, v.tag, n, s)
  OBVIOUS
<1>4. AckPayload(r, v) = Encoded(ReadOctets(r, p))
  BY <1>2, <1>3, AckPayloadAt
<1>5. t = ReadOctets(r, p)
  BY <1>4 DEF Encoded
<1>6. PICK w : w = UnmarshalReadProperty(t)
  OBVIOUS
<1>7. w.err = NoErr /\ w.data = v.value
  <2>1. PICK tag \in Octet : tag = v.tag
    BY <1>2 DEF Standard
  <2>2. n \in Uint32 /\ s \in Seq(Octet)
    BY <1>2 DEF Standard
  <2>3. Holds(tag, n, s, v.value) /\ p = PropertyOctets(3, tag, n, s)
    BY <1>2, <1>3, <2>1
  <2>4. UnmarshalReadProperty(t).err = NoErr /\ UnmarshalReadProperty(t).data = v.value
    BY <1>5, <2>2, <2>3, ReadPropertyAt
  <2> QED
    BY <1>6, <2>4
<1>8. t \in Seq(Octet)
  <2>1. v \in Decoded \union NotDecoded
    OBVIOUS
  <2> QED
    BY <2>1, AckPayloadFacts
<1>9. PICK x \in Answers : x = ComplexAck
  BY AnswerTypes
<1>10. PICK y \in Octet : y = ServiceConfirmedReadProperty
  BY ServiceOctets
<1>11. PICK apdu : apdu = UnmarshalAPDU(d)
  OBVIOUS
<1>12. APDUIs(apdu, x, i, y, t)
  <2>1. PICK q : q = <<x, i, y>>
    OBVIOUS
  <2>2. d = Join(q, t)
    BY <1>9, <1>10, <2>1 DEF AnswerOctets
  <2> QED
    BY <1>8, <1>11, <2>1, <2>2, AnswerAPDU
<1>13. apdu.kind = "ReadProperty" /\ apdu.payload = w /\ apdu.err = NoErr
  BY <1>6, <1>7, <1>9, <1>10, <1>12, AnswerKinds, PayloadOf DEF APDUIs
<1>14. OutcomeOf(b, i, ServiceConfirmedReadProperty) = ReadAnswer(apdu) /\ apdu.header.type = x
  BY <1>11, <1>12, <1>13, KnownAnswer
<1> QED
  BY <1>7, <1>9, <1>13, <1>14, AnswerTypes DEF ReadAnswer

LEMMA ErrorIsAnswered ==
  ASSUME NEW i \in Octet, NEW y \in Octet, NEW t, t = ErrorPayload.bytes,
         NEW d, d = AnswerOctets(ErrorPDU, i, y, t), NEW b, Brings(b, d)
  PROVE  OutcomeOf(b, i, y) = [err |-> "ApduError", value |-> GoNil]
<1>1. t \in Seq(Octet)
  BY ErrorOctets DEF Encoded
<1>2. PICK x \in Answers : x = ErrorPDU
  BY AnswerTypes
<1>3. PICK apdu : apdu = UnmarshalAPDU(d)
  OBVIOUS
<1>4. APDUIs(apdu, x, i, y, t)
  <2>1. PICK q : q = <<x, i, y>>
    OBVIOUS
  <2>2. d = Join(q, t)
    BY <1>2, <2>1 DEF AnswerOctets
  <2> QED
    BY <1>1, <1>3, <2>1, <2>2, AnswerAPDU
<1>5. UnmarshalApduError(t).err = NoErr
  BY ApduErrorAt
<1>6. apdu.kind = "ApduError" /\ apdu.err = NoErr
  BY <1>2, <1>4, <1>5, AnswerKinds, PayloadOf DEF APDUIs
<1>7. /\ OutcomeOf(b, i, y) = IF y = ServiceConfirmedReadProperty
                              THEN ReadAnswer(apdu) ELSE WriteAnswer(apdu)
      /\ apdu.header.type = ErrorPDU
  BY <1>2, <1>3, <1>4, <1>6, KnownAnswer
<1>8. ErrorAnswer(apdu) = [err |-> "ApduError", value |-> GoNil]
  BY <1>6 DEF ErrorAnswer
<1> QED
  BY <1>7, <1>8 DEF ReadAnswer, WriteAnswer

\* An answer without a payload: of a write, or of another kind of request.
LEMMA BareAnswer ==
  ASSUME NEW i \in Octet, NEW x \in Answers, NEW y \in Octet, PayloadKind(x, y) = "DataPayload",
         NEW d, d = <<x, i, y>>, NEW b, Brings(b, d), NEW service
  PROVE  \E apdu : /\ OutcomeOf(b, i, service) = IF service = ServiceConfirmedReadProperty
                                                 THEN ReadAnswer(apdu) ELSE WriteAnswer(apdu)
                   /\ apdu.header.type = x /\ apdu.header.service = y
                   /\ apdu.kind = "DataPayload"
<1>1. PICK e \in Seq(Octet) : e = <<>>
  BY NoOctets
<1>2. PICK p : p = <<x, i, y>>
  OBVIOUS
<1>3. p \in Seq(Octet)
  BY <1>2, AnswersAreOctets
<1>4. d = Join(p, e)
  BY <1>1, <1>2, <1>3, JoinedNothing
<1>5. PICK apdu : apdu = UnmarshalAPDU(d)
  OBVIOUS
<1>6. APDUIs(apdu, x, i, y, e)
  BY <1>2, <1>4, <1>5, AnswerAPDU
<1>7. apdu.kind = "DataPayload" /\ apdu.err = NoErr
  BY <1>6, DataPayload
<1>8. /\ OutcomeOf(b, i, service) = IF service = ServiceConfirmedReadProperty
                                    THEN ReadAnswer(apdu) ELSE WriteAnswer(apdu)
      /\ apdu.header.type = x /\ apdu.header.service = y
  BY <1>5, <1>6, <1>7, KnownAnswer
<1> QED
  BY <1>7, <1>8

\* Octets, from the first two.
LEMMA StartsWithTwo ==
  ASSUME NEW d \in Seq(Octet), Len(d) >= 2
  PROVE  \E t \in Seq(Octet) : d = Cons(d[1], Cons(d[2], t))
<1>1. PICK n : n = Len(d)
  OBVIOUS
<1>2. n \in Nat /\ n >= 2
  BY <1>1, LenProperties
<1>3. \A k \in 1..n : d[k] \in Octet
  BY <1>1
<1>4. PICK t : t = [k \in 1..(n - 2) |-> d[k + 2]]
  OBVIOUS
<1>5. t \in Seq(Octet) /\ Len(t) = n - 2
  <2>1. \A k \in 1..(n - 2) : k + 2 \in 1..n
    BY <1>2
  <2>2. t \in [1..(n - 2) -> Octet]
    BY <1>3, <1>4, <2>1
  <2>3. n - 2 \in Nat
    BY <1>2
  <2> QED
    BY <2>2, <2>3, LenProperties
<1>6. PICK x : x = d[1]
  OBVIOUS
<1>7. PICK y : y = d[2]
  OBVIOUS
<1>8. x \in Octet /\ y \in Octet
  BY <1>2, <1>3, <1>6, <1>7
<1>9. PICK p : p = <<x, y>>
  OBVIOUS
<1>10. p \in Seq(Octet) /\ Len(p) = 2 /\ p[1] = x /\ p[2] = y
  BY <1>8, <1>9
<1>11. PICK w : w = Join(p, t)
  OBVIOUS
<1>12. /\ w \in Seq(Octet) /\ Len(w) = n
       /\ \A k \in 1..n : w[k] = IF k <= 2 THEN p[k] ELSE t[k - 2]
  <2>1. w = p \o t
    BY <1>11 DEF Join
  <2>2. /\ w \in Seq(Octet) /\ Len(w) = Len(p) + Len(t)
        /\ \A k \in 1..(Len(p) + Len(t)) :
             w[k] = IF k <= Len(p) THEN p[k] ELSE t[k - Len(p)]
    BY <1>5, <1>10, <2>1, ConcatProperties
  <2>3. Len(p) + Len(t) = n
    BY <1>2, <1>5, <1>10
  <2> QED
    BY <1>10, <2>2, <2>3
<1>13. \A k \in 1..n : w[k] = d[k]
  <2>1. SUFFICES ASSUME NEW k \in 1..n
                 PROVE  w[k] = d[k]
    OBVIOUS
  <2>2. CASE k = 1
    BY <1>2, <1>6, <1>10, <1>12, <2>2
  <2>3. CASE k = 2
    BY <1>2, <1>7, <1>10, <1>12, <2>3
  <2>4. CASE k > 2
    <3>1. k - 2 \in 1..(n - 2) /\ (k - 2) + 2 = k
      BY <1>2, <2>4
    <3>2. t[k - 2] = d[(k - 2) + 2]
      BY <1>4, <3>1
    <3>3. w[k] = t[k - 2]
      BY <1>12, <2>4
    <3> QED
      BY <3>1, <3>2, <3>3
  <2> QED
    BY <2>2, <2>3, <2>4
<1>14. w = d
  BY <1>1, <1>12, <1>13, SeqEqual
<1>15. w = Cons(x, Cons(y, t))
  BY <1>5, <1>8, <1>9, <1>11, PairCons
<1> QED
  BY <1>5, <1>6, <1>7, <1>14, <1>15

LEMMA UnknownIsNone ==
  ASSUME NEW d \in Seq(Octet), Len(d) >= 2, d[1] \in Octet, d[2] \in Octet, d[1] \notin Answers,
         NEW b, Brings(b, d), NEW i, NEW service
  PROVE  OutcomeOf(b, i, service) = Nothing
<1>1. PICK x \in Octet : x = d[1]
  OBVIOUS
<1>2. PICK y \in Octet : y = d[2]
  OBVIOUS
<1>3. PICK t \in Seq(Octet) : d = Cons(x, Cons(y, t))
  BY <1>1, <1>2, StartsWithTwo
<1>4. x \notin Answers
  BY <1>1
<1>5. PICK z : z = 0
  OBVIOUS
<1>6. \E c : Left(c, t) /\ APDUHeader(d) = APDUHead(x, z, y, c)
  BY <1>3, <1>4, <1>5, RequestHeaderAt
<1>7. PICK c : Left(c, t) /\ APDUHeader(d) = APDUHead(x, z, y, c)
  BY <1>6
<1>8. APDUIs(UnmarshalAPDU(d), x, z, y, t)
  BY <1>7, APDUAt
<1>9. b.npdu.apdu.header.type = x
  BY <1>8 DEF APDUIs, Brings
<1>10. ~IsAnswer(b.npdu.apdu.header)
  BY <1>4, <1>9 DEF IsAnswer
<1> QED
  BY <1>10 DEF OutcomeOf

Unknown(i, s) == {<<96, i, 9>>, <<113, i, 4>>, <<64, i, 0, 1>>, <<60, i, 0, 4, s, 9>>}

LEMMA UnknownOctets ==
  ASSUME NEW i \in Octet, NEW s \in Octet, NEW d \in Unknown(i, s)
  PROVE  /\ d \in Seq(Octet) /\ Len(d) >= 2 /\ Len(d) <= 2000
         /\ d[1] \in Octet /\ d[2] \in Octet /\ d[1] \notin Answers
<1>1. \A x \in {96, 9, 113, 4, 64, 0, 1, 60} : x \in Octet
  BY OctetRange
<1>2. \A x \in {96, 113, 64, 60} : x \notin Answers
  BY DEF Answers, SimpleAck, ComplexAck, ErrorPDU
<1>3. CASE d = <<96, i, 9>>
  BY <1>1, <1>2, <1>3
<1>4. CASE d = <<113, i, 4>>
  BY <1>1, <1>2, <1>4
<1>5. CASE d = <<64, i, 0, 1>>
  BY <1>1, <1>2, <1>5
<1>6. CASE d = <<60, i, 0, 4, s, 9>>
  BY <1>1, <1>2, <1>6
<1> QED
  BY <1>3, <1>4, <1>5, <1>6 DEF Unknown

\* An acknowledgement of another kind of request than the service's.
Misplaced(i, s) ==
  IF s = ServiceConfirmedReadProperty
  THEN {<<SimpleAck, i, s>>, <<ComplexAck, i, ServiceConfirmedWriteProperty>>}
  ELSE {<<SimpleAck, i, ServiceConfirmedReadProperty>>, <<ComplexAck, i, s>>}

LEMMA MisplacedIsInvalid ==
  ASSUME NEW i \in Octet,
         NEW s \in {ServiceConfirmedReadProperty, ServiceConfirmedWriteProperty},
         NEW d \in Misplaced(i, s), NEW b, Brings(b, d)
  PROVE  OutcomeOf(b, i, s) = [err |-> "invalid answer", value |-> GoNil]
<1>1. PICK r \in Octet : r = ServiceConfirmedReadProperty
  BY ServiceOctets
<1>2. PICK w \in Octet : w = ServiceConfirmedWriteProperty
  BY ServiceOctets
<1>3. PICK p \in Answers : p = SimpleAck
  BY AnswerTypes
<1>4. PICK q \in Answers : q = ComplexAck
  BY AnswerTypes
<1>5. r # w /\ p # q /\ p # ErrorPDU /\ q # ErrorPDU
  BY <1>1, <1>2, <1>3, <1>4, TwoServices, AnswerTypes
<1>6. \E x \in {p, q} : \E y \in {r, w} :
        /\ d = <<x, i, y>> /\ (s = r => y = w \/ x = p) /\ (s = w => y = r \/ x = q)
        /\ (x = q => y = w)
  BY <1>1, <1>2, <1>3, <1>4, <1>5 DEF Misplaced
<1>7. PICK x \in {p, q}, y \in {r, w} :
        /\ d = <<x, i, y>> /\ (s = r => y = w \/ x = p) /\ (s = w => y = r \/ x = q)
        /\ (x = q => y = w)
  BY <1>6
<1>8. x \in Answers /\ y \in Octet
  OBVIOUS
<1>9. PayloadKind(x, y) = "DataPayload"
  BY <1>1, <1>2, <1>3, <1>4, <1>7, AnswerKinds
<1>10. PICK apdu : /\ OutcomeOf(b, i, s) = IF s = ServiceConfirmedReadProperty
                                           THEN ReadAnswer(apdu) ELSE WriteAnswer(apdu)
                   /\ apdu.header.type = x /\ apdu.header.service = y
                   /\ apdu.kind = "DataPayload"
  BY <1>7, <1>8, <1>9, BareAnswer
<1>11. apdu.header.type # ErrorPDU
  BY <1>5, <1>10
<1>12. ReadAnswer(apdu) = [err |-> "invalid answer", value |-> GoNil]
  BY <1>10, <1>11 DEF ReadAnswer
<1>13. CASE s = r
  BY <1>1, <1>10, <1>12, <1>13
<1>14. CASE s = w
  <2>1. ~(apdu.header.type = SimpleAck /\ apdu.header.service = ServiceConfirmedWriteProperty)
    BY <1>2, <1>3, <1>4, <1>5, <1>7, <1>10, <1>14
  <2>2. WriteAnswer(apdu) = [err |-> "invalid answer", value |-> GoNil]
    BY <1>11, <2>1 DEF WriteAnswer
  <2> QED
    BY <1>1, <1>5, <1>10, <1>14, <2>2
<1> QED
  BY <1>1, <1>2, <1>13, <1>14

LEMMA MisplacedOctets ==
  ASSUME NEW i \in Octet,
         NEW s \in {ServiceConfirmedReadProperty, ServiceConfirmedWriteProperty},
         NEW d \in Misplaced(i, s)
  PROVE  d \in Seq(Octet) /\ Len(d) <= 2000
<1>1. /\ SimpleAck \in Octet /\ ComplexAck \in Octet /\ s \in Octet
      /\ ServiceConfirmedReadProperty \in Octet /\ ServiceConfirmedWriteProperty \in Octet
  BY ServiceOctets, AnswerTypes, AnswersAreOctets
<1>2. PICK x \in Octet, y \in Octet : d = <<x, i, y>>
  BY <1>1 DEF Misplaced
<1> QED
  BY <1>2

LEMMA WriteIsAnswered ==
  ASSUME NEW i \in Octet, NEW d, d = <<SimpleAck, i, ServiceConfirmedWriteProperty>>,
         NEW b, Brings(b, d)
  PROVE  OutcomeOf(b, i, ServiceConfirmedWriteProperty) = [err |-> NoErr, value |-> GoNil]
<1>1. PICK y \in Octet : y = ServiceConfirmedWriteProperty
  BY ServiceOctets
<1>2. PICK x \in Answers : x = SimpleAck
  BY AnswerTypes
<1>3. PayloadKind(x, y) = "DataPayload"
  BY <1>2, AnswerKinds
<1>4. d = <<x, i, y>>
  BY <1>1, <1>2
<1>5. PICK apdu : /\ OutcomeOf(b, i, y) = IF y = ServiceConfirmedReadProperty
                                          THEN ReadAnswer(apdu) ELSE WriteAnswer(apdu)
                  /\ apdu.header.type = x /\ apdu.header.service = y
                  /\ apdu.kind = "DataPayload"
  BY <1>3, <1>4, BareAnswer
<1>6. WriteAnswer(apdu) = [err |-> NoErr, value |-> GoNil]
  BY <1>1, <1>2, <1>5, AnswerTypes DEF WriteAnswer
<1> QED
  BY <1>1, <1>5, <1>6, TwoServices

\* A network layer message holds no APDU.
LEMMA MessageIsDropped ==
  ASSUME NEW p, p.network, p.reply \in BOOLEAN, p.priority = 0, p.dest = Local,
         p.source \in Reachable, p.message \in Octet, p.vendor \in Nat,
         NEW d \in Seq(Octet), Len(d) <= 2000,
         NEW m, m = MarshalBVLC(BacFuncUnicast, MarshalNPDU(p, Encoded(d))),
         NEW b, b = UnmarshalBVLC(m.bytes)
  PROVE  IsFrame(m.bytes) /\ Dropped(b)
<1>1. PICK apdu : apdu = Encoded(d)
  OBVIOUS
<1>2. apdu.err = NoErr /\ apdu.bytes = d
  BY <1>1 DEF Encoded
<1>3. PICK n : n = MarshalNPDU(p, apdu)
  OBVIOUS
<1>4. /\ n.err = NoErr /\ n.bytes \in Seq(Octet) /\ Len(n.bytes) <= 600 + Len(d)
      /\ Len(n.bytes) \in Nat /\ Len(d) \in Nat
  BY <1>2, <1>3, MarshalMessage
<1>5. ~UnmarshalNPDU(n.bytes).hasAPDU
  BY <1>2, <1>3, MarshalMessage
<1>6. PICK t : t = n.bytes
  OBVIOUS
<1>7. t \in Bodies
  <2>1. t \in Seq(Octet) /\ Len(t) <= 3000
    BY <1>4, <1>6
  <2> QED
    BY <2>1, SmallBodies
<1>8. PICK f \in Octet : f = BacFuncUnicast
  BY ServiceOctets
<1>9. m = MarshalBVLC(f, n)
  BY <1>1, <1>3, <1>8
<1>10. m.bytes = Frame(f, t)
  BY <1>4, <1>6, <1>7, <1>9, MarshalFrame
<1>11. IsFrame(m.bytes)
  BY <1>7, <1>10 DEF IsFrame
<1>12. b.npdu = UnmarshalNPDU(t)
  BY <1>7, <1>10, FrameFacts
<1>13. Dropped(b)
  BY <1>5, <1>6, <1>12 DEF Dropped
<1> QED
  BY <1>11, <1>13

----------------------------------------------------------------------------
(***************************************************************************)
(* Addresses.                                                              *)
(***************************************************************************)
\* What is joined can be taken apart, knowing the length of the first part.
Parts(j, m, s, t) == SubSeq(j, 1, m) = s /\ SubSeq(j, m + 1, Len(j)) = t

LEMMA JoinedParts ==
  ASSUME NEW s \in Seq(Octet), NEW t \in Seq(Octet)
  PROVE  Parts(Join(s, t), Len(s), s, t)
<1> PICK m \in Nat : m = Len(s)
  BY LenProperties
<1>1. PICK j \in Seq(Octet) : j = Join(s, t)
  BY JoinFacts
<1>2. PICK b : b = NewBuffer(j)
  OBVIOUS
<1>3. Left(b, Join(s, t))
  BY <1>1, <1>2, LeftAll
<1>4. PICK c : c = Behind(b, Len(s))
  OBVIOUS
<1>5. At(b, s) /\ Left(c, t)
  BY <1>3, <1>4, LeftJoin
<1>6. b.bytes = j /\ b.off = 0
  BY <1>2 DEF NewBuffer
<1>7. c.bytes = j /\ c.off = m
  BY <1>4, <1>6 DEF Behind, Cursor
<1>8. SubSeq(b.bytes, b.off + 1, b.off + Len(s)) = s
  BY <1>5, AtSubSeq
<1>9. SubSeq(j, 1, m) = s
  BY <1>6, <1>8
<1>10. SubSeq(j, m + 1, Len(j)) = t
  BY <1>5, <1>7, LeftRest DEF Rest
<1>11. Parts(j, m, s, t)
  BY <1>9, <1>10 DEF Parts
<1> QED
  BY <1>1, <1>11

LEMMA PortRange ==
  ASSUME NEW p, p \in Uint16
  PROVE  p \in Nat /\ p < 65536
BY DEF Uint16

LEMMA AddressReadBack ==
  ASSUME NEW udp \in UDPAddresses
  PROVE  UDPFromAddress(AddressFromUDP(udp)) = udp
<1>1. PICK u \in [ip : IPv4, port : Uint16] : u = udp
  BY DEF UDPAddresses
<1>2. u.ip \in IPv4 /\ u.port \in Uint16 /\ u = [ip |-> u.ip, port |-> u.port]
  OBVIOUS
<1>3. u.ip \in Seq(Octet) /\ Len(u.ip) = 4
  BY <1>2 DEF IPv4, IPAddresses, IsIPv4
<1>4. PICK ip \in Seq(Octet) : ip = u.ip
  BY <1>3
<1>5. u.port \in Nat /\ u.port < 65536
  BY <1>2, PortRange
<1>6. PICK port \in Nat : port = u.port
  BY <1>5
<1>7. PICK two \in 1..4 : two = 2
  OBVIOUS
<1>8. PICK t \in Seq(Octet) : t = BigEndian(port, two) /\ Len(t) = two
  BY BigEndianType
<1>9. FitsIn(port, two)
  BY <1>5, <1>6, <1>7 DEF FitsIn
<1>10. FromBigEndian(t) = port
  BY <1>8, <1>9, BigEndianRoundTrip
<1>11. PICK mac : mac = Join(ip, t)
  OBVIOUS
<1>12. AddressFromUDP(u) = mac
  <2>1. AddressFromUDP(u) = ip \o BigEndian(port, two)
    BY <1>4, <1>6, <1>7 DEF AddressFromUDP
  <2> QED
    BY <2>1, <1>8, <1>11 DEF Join
<1>13. Parts(mac, Len(ip), ip, t) /\ mac \in Seq(Octet) /\ Len(mac) = Len(ip) + Len(t)
  BY <1>11, JoinedParts, JoinFacts
<1>14. Len(ip) = 4 /\ Len(mac) = 6
  BY <1>3, <1>4, <1>7, <1>8, <1>13
<1>15. SubSeq(mac, 1, 4) = ip /\ SubSeq(mac, 5, 6) = t
  <2>1. SubSeq(mac, 1, Len(ip)) = ip /\ SubSeq(mac, Len(ip) + 1, Len(mac)) = t
    BY <1>13 DEF Parts
  <2>2. Len(ip) + 1 = 5
    BY <1>14
  <2>3. SubSeq(mac, 1, 4) = ip
    BY <2>1, <1>14
  <2>4. SubSeq(mac, 5, Len(mac)) = t
    BY <2>1, <2>2
  <2> QED
    BY <2>3, <2>4, <1>14
<1>16. UDPFromAddress(mac) = [ip |-> ip, port |-> port]
  BY <1>10, <1>15 DEF UDPFromAddress
<1> QED
  BY <1>1, <1>2, <1>4, <1>6, <1>12, <1>16

\* The nets of a machine.
LEMMA PrefixRange ==
  ASSUME NEW net, net.ones \in Nat, NEW k \in Nat
  PROVE  PrefixBits(net, k) \in 0..8
<1>1. PICK n \in Int : n = net.ones - 8 * (k - 1)
  OBVIOUS
<1>2. PICK m : m = Min({8, n})
  OBVIOUS
<1>3. m \in {8, n} /\ m <= 8 /\ m <= n
  <2>1. CASE n <= 8
    <3>1. n \in {8, n} /\ \A y \in {8, n} : n <= y
      BY <2>1
    <3> QED
      BY <1>2, <3>1 DEF Min
  <2>2. CASE 8 <= n
    <3>1. 8 \in {8, n} /\ \A y \in {8, n} : 8 <= y
      BY <2>2
    <3> QED
      BY <1>2, <3>1 DEF Min
  <2> QED
    BY <2>1, <2>2
<1>4. PICK x : x = Max({0, m})
  OBVIOUS
<1>5. x \in {0, m} /\ x >= 0
  <2>1. m \in Int
    BY <1>3
  <2>2. CASE m <= 0
    <3>1. 0 \in {0, m} /\ \A y \in {0, m} : 0 >= y
      BY <2>1, <2>2
    <3> QED
      BY <1>4, <3>1 DEF Max
  <2>3. CASE 0 <= m
    <3>1. m \in {0, m} /\ \A y \in {0, m} : m >= y
      BY <2>1, <2>3
    <3> QED
      BY <1>4, <3>1 DEF Max
  <2> QED
    BY <2>1, <2>2, <2>3
<1>6. x \in 0..8
  BY <1>3, <1>5
<1> QED
  BY <1>1, <1>2, <1>4, <1>6 DEF PrefixBits

HostCounts == {1, 2, 4, 8, 16, 32, 64, 128, 256}

LEMMA HostsRange ==
  ASSUME NEW net, net.ones \in Nat, NEW k \in Nat
  PROVE  Hosts(net, k) \in HostCounts
<1>1. PICK p \in 0..8 : p = PrefixBits(net, k)
  BY PrefixRange
<1>2. PICK e \in 0..8 : e = 8 - p
  OBVIOUS
<1>3. Hosts(net, k) = 2^e
  BY <1>1, <1>2 DEF Hosts
<1>4. CASE e = 0
  BY <1>3, <1>4 DEF HostCounts
<1>5. CASE e = 1
  BY <1>3, <1>5 DEF HostCounts
<1>6. CASE e = 2
  BY <1>3, <1>6 DEF HostCounts
<1>7. CASE e = 3
  BY <1>3, <1>7 DEF HostCounts
<1>8. CASE e = 4
  BY <1>3, <1>8 DEF HostCounts
<1>9. CASE e = 5
  BY <1>3, <1>9 DEF HostCounts
<1>10. CASE e = 6
  BY <1>3, <1>10 DEF HostCounts
<1>11. CASE e = 7
  BY <1>3, <1>11 DEF HostCounts
<1>12. CASE e = 8
  BY <1>3, <1>12 DEF HostCounts
<1> QED
  BY <1>4, <1>5, <1>6, <1>7, <1>8, <1>9, <1>10, <1>11, <1>12

\* The last address among h that x is one of.
LastHost(x, h) == x - (x % h) + h - 1

LEMMA LastOfHosts ==
  ASSUME NEW x \in Nat, NEW h \in HostCounts
  PROVE  LastHost(x, h) \div h = x \div h /\ (LastHost(x, h) + 1) % h = 0
<1>1. CASE h = 1
  BY <1>1 DEF LastHost
<1>2. CASE h = 2
  BY <1>2 DEF LastHost
<1>3. CASE h = 4
  BY <1>3 DEF LastHost
<1>4. CASE h = 8
  BY <1>4 DEF LastHost
<1>5. CASE h = 16
  BY <1>5 DEF LastHost
<1>6. CASE h = 32
  BY <1>6 DEF LastHost
<1>7. CASE h = 64
  BY <1>7 DEF LastHost
<1>8. CASE h = 128
  BY <1>8 DEF LastHost
<1>9. CASE h = 256
  BY <1>9 DEF LastHost
<1> QED
  BY <1>1, <1>2, <1>3, <1>4, <1>5, <1>6, <1>7, <1>8, <1>9 DEF HostCounts

\* The net whose broadcast address a new client has.
OnItsNet(nets, new) ==
  /\ new.ip \in IPAddresses
  /\ \E i \in DOMAIN nets : /\ InNet(nets[i], new.ip) /\ IsIPv4(nets[i].ip)
                            /\ new.broadcast = BroadcastAddr(nets[i])

\* The least of a set of numbers, without induction.
LEMMA LeastElement ==
  ASSUME NEW T \in SUBSET Nat, T # {}
  PROVE  \E x \in T : \A y \in T : x <= y
<1>1. PICK t \in T : TRUE
  OBVIOUS
<1> DEFINE Below == {x \in T : x <= t}
           Segments == {0..x : x \in Below}
           Finite == FiniteSubsetsOf(0..t)
<1>2. IsWellFoundedOn(StrictSubsetOrdering(0..t), Finite)
  BY FS_StrictSubsetOrderingWellFounded
<1>3. Segments \subseteq Finite /\ Segments # {}
  <2>1. ASSUME NEW x \in Below PROVE 0..x \in Finite
    <3>1. x \in Int /\ 0 \in Int
      OBVIOUS
    <3>2. IsFiniteSet(0..x)
      BY <3>1, FS_Interval
    <3> QED
      BY <3>2 DEF FiniteSubsetsOf
  <2>2. t \in Below
    OBVIOUS
  <2> QED
    BY <2>1, <2>2
<1>4. PICK s \in Segments : \A r \in Segments : ~ (<<r, s>> \in StrictSubsetOrdering(0..t))
  <2> HIDE DEF Segments, Finite
  <2> QED
    BY <1>2, <1>3, WFMin
<1>5. PICK x \in Below : s = 0..x
  OBVIOUS
<1>6. ASSUME NEW y \in T, y < x PROVE FALSE
  <2>1. y \in Below /\ 0..y \in Segments
    BY <1>6
  <2>2. 0..y \subseteq 0..x /\ 0..y # 0..x /\ 0..x \subseteq 0..t
    <3>1. x \in 0..x /\ x \notin 0..y
      BY <1>6
    <3> QED
      BY <1>6, <3>1
  <2> QED
    BY <1>4, <1>5, <2>1, <2>2 DEF StrictSubsetOrdering
<1> QED
  BY <1>6

LEMMA LeastIsIn ==
  ASSUME NEW I \in SUBSET Nat, I # {}
  PROVE  Min(I) \in I
<1>1. \E x \in I : \A y \in I : x <= y
  BY LeastElement
<1> QED
  BY <1>1 DEF Min

LEMMA OnlyIPv4Broadcasts ==
  ASSUME NEW net, BroadcastAddr(net) # NoAddress
  PROVE  IsIPv4(net.ip)
BY Zenon DEF BroadcastAddr

LEMMA NewClientByIpOnItsNet ==
  ASSUME NEW nets \in Seq(Nets), NEW ip \in IPAddresses,
         NewClientByIp(nets, ip).broadcast # NoAddress
  PROVE  OnItsNet(nets, NewClientByIp(nets, ip))
<1> DEFINE I == {i \in 1..Len(nets) : InNet(nets[i], ip)}
           i == IF I # {} THEN Min(I) ELSE 0
<1>1. NewClientByIp(nets, ip)
        = [ip |-> ip, broadcast |-> IF i = 0 THEN NoAddress ELSE BroadcastAddr(nets[i])]
  BY DEF NewClientByIp, SelectInSeq
<1>2. I \in SUBSET Nat /\ 0 \notin I
  OBVIOUS
<1>3. i # 0
  BY <1>1
<1>4. i \in I
  BY <1>2, <1>3, LeastIsIn
<1>5. i \in DOMAIN nets /\ InNet(nets[i], ip)
  BY <1>4
<1> HIDE DEF i
<1>6. /\ NewClientByIp(nets, ip).ip = ip
      /\ NewClientByIp(nets, ip).broadcast = BroadcastAddr(nets[i])
  BY <1>1, <1>3
<1>7. IsIPv4(nets[i].ip)
  BY <1>6, OnlyIPv4Broadcasts
<1> QED
  BY <1>5, <1>6, <1>7 DEF OnItsNet

LEMMA NewClientOnItsNet ==
  ASSUME NEW nets \in Seq(Nets), NewClient(nets).broadcast # NoAddress
  PROVE  OnItsNet(nets, NewClient(nets))
<1> DEFINE I == {i \in 1..Len(nets) : IsIPv4(nets[i].ip)}
           i == IF I # {} THEN Min(I) ELSE 0
<1>1. NewClient(nets)
        = IF i = 0 THEN [ip |-> NoAddress, broadcast |-> NoAddress]
          ELSE [ip |-> nets[i].ip, broadcast |-> BroadcastAddr(nets[i])]
  BY DEF NewClient, SelectInSeq
<1>2. I \in SUBSET Nat /\ 0 \notin I
  OBVIOUS
<1>3. i # 0
  BY <1>1
<1>4. i \in I
  BY <1>2, <1>3, LeastIsIn
<1>5. i \in DOMAIN nets /\ IsIPv4(nets[i].ip)
  BY <1>4
<1>8. nets[i].ip \in IPAddresses
  <2>1. nets[i] \in Nets
    BY <1>5, ElementOfSeq
  <2> QED
    BY <2>1 DEF Nets
<1> HIDE DEF i
<1>6. /\ NewClient(nets).ip = nets[i].ip
      /\ NewClient(nets).broadcast = BroadcastAddr(nets[i])
  BY <1>1, <1>3
<1>7. InNet(nets[i], NewClient(nets).ip)
  BY <1>6 DEF InNet
<1> QED
  BY <1>5, <1>6, <1>7, <1>8 DEF OnItsNet

\* The broadcast address of a net is one of it, and its last, for all who
\* have the same prefix.
LEMMA BroadcastOctets ==
  ASSUME NEW net \in Nets, IsIPv4(net.ip), NEW b, b = BroadcastAddr(net)
  PROVE  /\ DOMAIN b = 1..4 /\ Len(b) = 4
         /\ \A k \in 1..4 : b[k] = LastHost(net.ip[k], Hosts(net, k))
<1>1. b = [k \in 1..4 |-> net.ip[k] - (net.ip[k] % Hosts(net, k)) + Hosts(net, k) - 1]
  BY Zenon DEF BroadcastAddr
<1>2. b = [k \in 1..4 |-> LastHost(net.ip[k], Hosts(net, k))]
  BY <1>1 DEF LastHost
<1> DEFINE L(k) == LastHost(net.ip[k], Hosts(net, k))
<1> HIDE DEF L
<1>3. b = [k \in 1..4 |-> L(k)]
  BY <1>2 DEF L
<1>4. DOMAIN b = 1..4 /\ \A k \in 1..4 : b[k] = L(k)
  BY <1>3
<1>5. Len(b) = 4
  BY <1>3
<1> QED
  BY <1>4, <1>5 DEF L

LEMMA SameHosts ==
  ASSUME NEW m, NEW n, m.ones = n.ones, NEW k
  PROVE  Hosts(m, k) = Hosts(n, k)
BY Zenon DEF Hosts, PrefixBits

LEMMA BroadcastReachesNet ==
  ASSUME NEW net \in Nets, IsIPv4(net.ip), NEW ip \in IPAddresses, InNet(net, ip),
         NEW sub, sub.ones = net.ones, InNet(sub, ip), NEW b, b = BroadcastAddr(net)
  PROVE  InNet(sub, b) /\ \A k \in DOMAIN b : (b[k] + 1) % Hosts(sub, k) = 0
<1>1. net.ip \in Seq(Octet) /\ net.ones \in Nat /\ Len(net.ip) = 4
  BY DEF Nets, IPAddresses, IsIPv4
<1>2. Len(ip) = 4 /\ Len(sub.ip) = 4
  BY <1>1 DEF InNet
<1>3. DOMAIN b = 1..4 /\ Len(b) = 4 /\ \A k \in 1..4 : b[k] = LastHost(net.ip[k], Hosts(net, k))
  BY BroadcastOctets
<1>4. ASSUME NEW k \in 1..4
      PROVE  b[k] \div Hosts(sub, k) = sub.ip[k] \div Hosts(sub, k)
             /\ (b[k] + 1) % Hosts(sub, k) = 0
  <2>1. PICK x \in Nat : x = net.ip[k]
    <3>1. PICK a \in Seq(Octet) : a = net.ip
      BY <1>1
    <3>2. a[k] \in Octet
      BY <1>1, <3>1, ElementOfSeq
    <3>3. \A o \in Octet : o \in Nat
      BY DEF Octet
    <3>4. a[k] \in Nat
      BY <3>2, <3>3
    <3> QED
      BY <3>1, <3>4
  <2>2. k \in Nat
    OBVIOUS
  <2>3. PICK h \in HostCounts : h = Hosts(net, k)
    BY <1>1, <2>2, HostsRange
  <2>4. h = Hosts(sub, k)
    BY <2>3, SameHosts
  <2>5. k \in DOMAIN ip
    BY <1>2 DEF IPAddresses
  <2>6. ip[k] \div h = x \div h
    BY <2>1, <2>3, <2>5 DEF InNet
  <2>7. ip[k] \div h = sub.ip[k] \div h
    BY <2>4, <2>5 DEF InNet
  <2>8. PICK y : y = LastHost(x, h)
    OBVIOUS
  <2>9. y \div h = x \div h /\ (y + 1) % h = 0
    BY <2>1, <2>3, <2>8, LastOfHosts
  <2>10. b[k] = y
    BY <1>3, <2>1, <2>3, <2>8
  <2> QED
    BY <2>4, <2>6, <2>7, <2>9, <2>10
<1>5. InNet(sub, b)
  BY <1>2, <1>3, <1>4 DEF InNet
<1> QED
  BY <1>3, <1>4, <1>5

-----------------------------------------------------------------------------
(***************************************************************************)
(* What the assumptions say of one device, range, request or machine.      *)
(***************************************************************************)
LEMMA RemoteIsRemotes == Remote = Remotes
<1>1. Uint16 \ {0} = Networks
  BY DEF Uint16, Networks
<1> QED
  BY <1>1 DEF Remote, Remotes, Adrs

LEMMA DeviceFacts ==
  ASSUME NEW d \in Devices
  PROVE  IsDevice(d) /\ d.udp \in UDPAddresses /\ d.route \in Reachable
<1>1. d \in [iam : Announced, udp : UDPAddresses, ones : Nat, route : {Local} \union Remote]
  BY DevicesAssumption
<1>2. d.iam \in Announced /\ d.udp \in UDPAddresses /\ d.route \in {Local} \union Remote
  BY <1>1
<1> QED
  BY <1>2, RemoteIsRemotes DEF IsDevice, Reachable

LEMMA RangesAreRanges == Ranges \subseteq AnyRange
BY RangesAssumption DEF AnyRange

LEMMA RequestsAreRequests ==
  ASSUME NEW r \in Requests
  PROVE  IsRequest(r)
<1> DEFINE Services == {ServiceConfirmedReadProperty, ServiceConfirmedWriteProperty}
<1>1. r \in [service : Services, object : AnyObjects, property : Uint32,
             index : IndexSet, value : PropertyValues, priority : Octet]
  BY RequestsAssumption DEF AnyObjects, IndexSet
<1> HIDE DEF Services
<1>2. /\ r.service \in Services /\ r.object \in AnyObjects /\ r.property \in Uint32
      /\ r.index \in IndexSet /\ r.value \in PropertyValues /\ r.priority \in Octet
  BY <1>1
<1> QED
  BY <1>2 DEF IsRequest, Services

LEMMA MachineFacts ==
  ASSUME NEW m \in Machines
  PROVE  m.nets \in Seq(Nets) /\ m.ip \in IPAddresses
<1>1. m \in [nets : Seq(Nets), ip : IPAddresses]
  BY MachinesAssumption
<1> QED
  BY <1>1

-----------------------------------------------------------------------------
(***************************************************************************)
(* The inductive invariant: what the datagram on its way is, and what is   *)
(* known of it, at every step of the exchange.                             *)
(***************************************************************************)
Unsent  == {"closed", "idle"}
Cuttable == {"announced", "nobody found", "answered", "returned"}

WireOK ==
  /\ device \in Devices /\ cut \in BOOLEAN
  /\ wire = [udp |-> wire.udp, bytes |-> wire.bytes]
  /\ pc \in Unsent => wire.bytes = <<>>
  /\ pc \notin Unsent /\ ~cut => IsFrame(wire.bytes)
  /\ cut => pc \in Cuttable /\ Broken(wire.bytes)

Asks(apdu, range) ==
  apdu.kind = "WhoIs" /\ [low |-> apdu.payload.low, high |-> apdu.payload.high] = HeardAs(range)

ClientOK ==
  /\ pc \in {"idle", "scanning"} => client.nets \in Seq(Nets) /\ OnItsNet(client.nets, client)
  /\ pc = "scanning" => wire.udp = Broadcast

ScanOK ==
  /\ pc \in {"scanning", "scanned", "announced"} => asked \in Ranges
  /\ pc = "scanning" => Asks(UnmarshalBVLC(wire.bytes).npdu.apdu, asked)
  /\ pc = "scanned" => heard = HeardAs(asked)
  /\ pc = "announced" => /\ InRange(asked, device.iam.object.instance) /\ wire.udp = device.udp
                         /\ ~cut => Announces(UnmarshalBVLC(wire.bytes), device)
  /\ pc = "nobody found" => cut

\* The peer is the device as it announces itself, at its address.
PeerIs(p, d) ==
  /\ p.iam.object = d.iam.object /\ p.iam.maxApdu = d.iam.maxApdu
  /\ p.iam.segmentation = d.iam.segmentation /\ p.iam.vendor = d.iam.vendor
  /\ p.mac = AddressFromUDP(d.udp) /\ p.route = d.route

CallOK ==
  /\ pc = "found" => ~cut /\ PeerIs(peer, device)
  /\ pc \in {"called", "heard"} => /\ asked \in Requests /\ Readable(asked)
                                   /\ answer.invokeID \in InvokeIDs
                                   /\ wire.udp = device.udp
  /\ pc = "called" => Meant(Understand(UnmarshalBVLC(wire.bytes).npdu), asked,
                            answer.invokeID, device.route)
  /\ pc = "heard" => Meant(heard, asked, answer.invokeID, device.route)

ExchangeInv == WireOK /\ ClientOK /\ ScanOK /\ CallOK

\* An answer that arrives whole is what the device answered.
AnswerOK ==
  /\ pc = "answered" /\ ~cut =>
       OutcomeOf(UnmarshalBVLC(wire.bytes), heard.invokeID, asked.service) = answer
  /\ pc = "returned" => outcome = IF cut THEN Nothing ELSE answer

-----------------------------------------------------------------------------
(* The scan, step by step. *)

LEMMA InitInv == Init => ExchangeInv
<1> SUFFICES ASSUME Init PROVE ExchangeInv
  OBVIOUS
<1>1. /\ pc = "closed" /\ device \in Devices /\ cut = FALSE
      /\ wire = [bytes |-> <<>>, udp |-> device.udp]
  BY DEF Init
<1>2. WireOK
  BY <1>1 DEF WireOK, Unsent, Cuttable
<1>3. ClientOK /\ ScanOK /\ CallOK
  BY <1>1 DEF ClientOK, ScanOK, CallOK
<1> QED
  BY <1>2, <1>3 DEF ExchangeInv

LEMMA OpenInv ==
  ASSUME ExchangeInv, NEW nets \in Seq(Nets), NEW new, Open(nets, new),
         new.broadcast # NoAddress => OnItsNet(nets, new)
  PROVE  ExchangeInv'
<1>1. /\ pc = "closed" /\ pc' = "idle" /\ UNCHANGED <<device, wire, cut>>
      /\ client' = [nets |-> nets, ip |-> new.ip, broadcast |-> new.broadcast]
      /\ new.broadcast # NoAddress
  BY DEF Open, Goto
<1>2. WireOK'
  <2>1. WireOK /\ pc \in Unsent /\ pc' \in Unsent
    BY <1>1 DEF ExchangeInv, Unsent
  <2> QED
    BY <1>1, <2>1 DEF WireOK, Cuttable, Unsent
<1>3. ClientOK'
  <2>1. client'.nets = nets /\ client'.ip = new.ip /\ client'.broadcast = new.broadcast
    BY <1>1
  <2>2. OnItsNet(client'.nets, client')
    BY <1>1, <2>1 DEF OnItsNet
  <2> QED
    BY <1>1, <2>1, <2>2 DEF ClientOK
<1>4. ScanOK' /\ CallOK'
  BY <1>1 DEF ScanOK, CallOK
<1> QED
  BY <1>2, <1>3, <1>4 DEF ExchangeInv

LEMMA SendWhoIsInv ==
  ASSUME ExchangeInv, NEW range \in Ranges, SendWhoIs(range)
  PROVE  ExchangeInv'
<1>1. /\ pc = "idle" /\ pc' = "scanning" /\ WhoIsFrame(range).err = NoErr
      /\ wire' = [udp |-> Broadcast, bytes |-> WhoIsFrame(range).bytes]
      /\ asked' = range /\ UNCHANGED <<client, device, cut>>
  BY DEF SendWhoIs, Goto
<1>2. PICK bytes : bytes = WhoIsFrame(range).bytes
  OBVIOUS
<1>3. PICK apdu : apdu = UnmarshalBVLC(bytes).npdu.apdu
  OBVIOUS
<1>4. IsFrame(bytes) /\ Asks(apdu, range)
  BY <1>1, <1>2, <1>3, RangesAreRanges, WhoIsIsHeard DEF Asks
<1>5. wire'.udp = Broadcast /\ wire'.bytes = bytes
  BY <1>1, <1>2
<1>6. WireOK'
  <2>1. device \in Devices /\ cut \in BOOLEAN /\ ~cut
    BY <1>1 DEF ExchangeInv, WireOK, Cuttable
  <2>2. pc' \notin Unsent
    BY <1>1 DEF Unsent
  <2>3. wire' = [udp |-> wire'.udp, bytes |-> wire'.bytes]
    BY <1>1
  <2> QED
    BY <1>1, <1>4, <1>5, <2>1, <2>2, <2>3 DEF WireOK
<1>7. ClientOK'
  <2>1. client.nets \in Seq(Nets) /\ OnItsNet(client.nets, client)
    BY <1>1 DEF ExchangeInv, ClientOK
  <2>2. Broadcast' = Broadcast
    BY <1>1 DEF Broadcast
  <2> QED
    BY <1>1, <1>5, <2>1, <2>2 DEF ClientOK
<1>8. ScanOK'
  BY <1>1, <1>3, <1>4, <1>5 DEF ScanOK
<1>9. CallOK'
  BY <1>1 DEF CallOK
<1> QED
  BY <1>6, <1>7, <1>8, <1>9 DEF ExchangeInv

LEMMA HearWhoIsInv ==
  ASSUME ExchangeInv, HearWhoIs
  PROVE  ExchangeInv'
<1>1. pc = "scanning" /\ pc' = "scanned" /\ UNCHANGED <<device, wire, cut, asked>>
  BY DEF HearWhoIs, Goto
<1>2. PICK apdu : apdu = UnmarshalBVLC(wire.bytes).npdu.apdu
  OBVIOUS
<1>3. heard' = [low |-> apdu.payload.low, high |-> apdu.payload.high]
  BY <1>2 DEF HearWhoIs, HearRange
<1>4. WireOK'
  BY <1>1 DEF ExchangeInv, WireOK, Unsent, Cuttable
<1>5. ClientOK' /\ CallOK'
  BY <1>1 DEF ClientOK, CallOK
<1>6. ScanOK'
  <2>1. asked \in Ranges /\ Asks(apdu, asked)
    BY <1>1, <1>2 DEF ExchangeInv, ScanOK
  <2>2. heard' = HeardAs(asked)
    BY <1>3, <2>1 DEF Asks
  <2> QED
    BY <1>1, <2>1, <2>2 DEF ScanOK
<1> QED
  BY <1>4, <1>5, <1>6 DEF ExchangeInv

\* A device that is in the range it hears is in the one that was asked for.
LEMMA HeardInRange ==
  ASSUME NEW range, NEW n, InRange(HeardAs(range), n)
  PROVE  InRange(range, n)
<1>1. CASE NoLimit \in {range.low, range.high}
  BY <1>1 DEF InRange
<1>2. CASE NoLimit \notin {range.low, range.high}
  BY <1>2 DEF HeardAs
<1> QED
  BY <1>1, <1>2

LEMMA AnnounceInv ==
  ASSUME ExchangeInv, Announce
  PROVE  ExchangeInv'
<1>1. /\ pc = "scanned" /\ pc' = "announced" /\ UNCHANGED <<device, cut, asked>>
      /\ InRange(heard, device.iam.object.instance)
  BY DEF Announce, Goto
<1>2. PICK bytes : bytes = AnnouncementOf(device).bytes
  OBVIOUS
<1>3. wire' = [udp |-> device.udp, bytes |-> bytes]
  BY <1>2 DEF Announce, AnnouncementOf
<1>4. device \in Devices /\ cut \in BOOLEAN /\ ~cut
  BY <1>1 DEF ExchangeInv, WireOK, Cuttable
<1>5. PICK b : b = UnmarshalBVLC(bytes)
  OBVIOUS
<1>6. IsFrame(bytes) /\ Announces(b, device)
  BY <1>2, <1>4, <1>5, DeviceFacts, AnnouncementIsFound
<1>7. wire'.udp = device.udp /\ wire'.bytes = bytes
  BY <1>3
<1>8. WireOK'
  <2>1. pc' \notin Unsent
    BY <1>1 DEF Unsent
  <2>2. wire' = [udp |-> wire'.udp, bytes |-> wire'.bytes]
    BY <1>3
  <2> QED
    BY <1>1, <1>4, <1>6, <1>7, <2>1, <2>2 DEF WireOK
<1>9. ClientOK' /\ CallOK'
  BY <1>1 DEF ClientOK, CallOK
<1>10. ScanOK'
  <2>1. asked \in Ranges /\ heard = HeardAs(asked)
    BY <1>1 DEF ExchangeInv, ScanOK
  <2>2. InRange(asked, device.iam.object.instance)
    BY <1>1, <2>1, HeardInRange
  <2> QED
    BY <1>1, <1>5, <1>6, <1>7, <2>1, <2>2 DEF ScanOK
<1> QED
  BY <1>8, <1>9, <1>10 DEF ExchangeInv

LEMMA CollectInv ==
  ASSUME ExchangeInv, Collect
  PROVE  ExchangeInv'
<1>1. PICK b : b = UnmarshalBVLC(wire.bytes)
  OBVIOUS
<1>2. pc = "announced" /\ Return(Found(asked, b, wire.udp)) /\ UNCHANGED <<device, wire, cut>>
  BY <1>1 DEF Collect
<1>3. WireOK /\ InRange(asked, device.iam.object.instance) /\ wire.udp = device.udp
  BY <1>2 DEF ExchangeInv, ScanOK
<1>4. CASE cut
  <2>1. Dropped(b)
    BY <1>1, <1>3, <1>4, BrokenIsDropped DEF WireOK
  <2>2. pc' = "nobody found"
    BY <1>2, <2>1 DEF Return, Found
  <2>3. WireOK'
    BY <1>2, <1>3, <1>4, <2>2 DEF WireOK, Unsent, Cuttable
  <2>4. ClientOK' /\ ScanOK' /\ CallOK'
    BY <1>2, <1>4, <2>2 DEF ClientOK, ScanOK, CallOK
  <2> QED
    BY <2>3, <2>4 DEF ExchangeInv
<1>5. CASE ~cut
  <2>1. Announces(b, device)
    BY <1>1, <1>2, <1>5 DEF ExchangeInv, ScanOK
  <2>2. PICK p : p = [iam |-> b.npdu.apdu.payload, mac |-> AddressFromUDP(wire.udp),
                      route |-> b.npdu.source]
    OBVIOUS
  <2>3. Found(asked, b, wire.udp) = {p}
    BY <1>3, <2>1, <2>2 DEF Found, Announces
  <2>4. pc' = "found" /\ peer' = p
    BY <1>2, <2>3 DEF Return
  <2>5. p.iam = b.npdu.apdu.payload /\ p.mac = AddressFromUDP(wire.udp) /\ p.route = b.npdu.source
    BY <2>2
  <2>6. PeerIs(p, device)
    BY <1>3, <2>1, <2>5 DEF Announces, PeerIs
  <2>7. WireOK'
    BY <1>2, <1>3, <1>5, <2>4 DEF WireOK, Unsent, Cuttable
  <2>8. ClientOK' /\ ScanOK' /\ CallOK'
    BY <1>2, <1>5, <2>4, <2>6 DEF ClientOK, ScanOK, CallOK
  <2> QED
    BY <2>7, <2>8 DEF ExchangeInv
<1> QED
  BY <1>3, <1>4, <1>5 DEF WireOK

-----------------------------------------------------------------------------
(* The call, step by step. *)

LEMMA CallInv ==
  ASSUME ExchangeInv, NEW r \in Requests, NEW id \in InvokeIDs,
         Goto("found", "called"), Call(r, id)
  PROVE  ExchangeInv'
<1>1. /\ pc = "found" /\ pc' = "called" /\ UNCHANGED <<device, cut>>
      /\ RequestFrame(r, id, peer.route).err = NoErr
      /\ wire' = [udp |-> UDPFromAddress(peer.mac),
                  bytes |-> RequestFrame(r, id, peer.route).bytes]
      /\ asked' = r /\ answer' = [invokeID |-> id]
  BY DEF Call, Goto
<1>2. device \in Devices /\ ~cut /\ PeerIs(peer, device)
  BY <1>1 DEF ExchangeInv, WireOK, CallOK
<1>3. device.udp \in UDPAddresses /\ device.route \in Reachable
  BY <1>2, DeviceFacts
<1>4. UDPFromAddress(peer.mac) = device.udp /\ peer.route = device.route
  BY <1>2, <1>3, AddressReadBack DEF PeerIs
<1>5. IsRequest(r) /\ id \in Octet
  BY RequestsAreRequests, InvokeIDsAssumption
<1>6. PICK m : m = RequestFrame(r, id, device.route)
  OBVIOUS
<1>7. PICK n : n = UnmarshalBVLC(m.bytes).npdu
  OBVIOUS
<1>8. IsFrame(m.bytes) /\ Readable(r) /\ Meant(Understand(n), r, id, device.route)
  BY <1>1, <1>3, <1>4, <1>5, <1>6, <1>7, RequestIsUnderstood
<1>9. wire'.udp = device.udp /\ wire'.bytes = m.bytes /\ answer'.invokeID = id
  BY <1>1, <1>4, <1>6
<1>10. WireOK'
  <2>1. pc' \notin Unsent
    BY <1>1 DEF Unsent
  <2>2. wire' = [udp |-> wire'.udp, bytes |-> wire'.bytes]
    BY <1>1
  <2>3. cut \in BOOLEAN
    BY DEF ExchangeInv, WireOK
  <2> QED
    BY <1>1, <1>2, <1>8, <1>9, <2>1, <2>2, <2>3 DEF WireOK
<1>11. ClientOK' /\ ScanOK'
  BY <1>1 DEF ClientOK, ScanOK
<1>12. CallOK'
  BY <1>1, <1>7, <1>8, <1>9 DEF CallOK
<1> QED
  BY <1>10, <1>11, <1>12 DEF ExchangeInv

LEMMA HearCallInv ==
  ASSUME ExchangeInv, HearCall
  PROVE  ExchangeInv'
<1>1. PICK u : u = Understand(UnmarshalBVLC(wire.bytes).npdu)
  OBVIOUS
<1>2. /\ pc = "called" /\ pc' = "heard" /\ heard' = u
      /\ UNCHANGED <<device, wire, cut, asked, answer>>
  BY <1>1 DEF HearCall, Goto
<1>3. WireOK'
  BY <1>2 DEF ExchangeInv, WireOK, Unsent, Cuttable
<1>4. ClientOK' /\ ScanOK'
  BY <1>2 DEF ClientOK, ScanOK
<1>5. CallOK'
  <2>1. /\ asked \in Requests /\ Readable(asked) /\ answer.invokeID \in InvokeIDs
        /\ wire.udp = device.udp /\ Meant(u, asked, answer.invokeID, device.route)
    BY <1>1, <1>2 DEF ExchangeInv, CallOK
  <2> QED
    BY <1>2, <2>1 DEF CallOK
<1> QED
  BY <1>3, <1>4, <1>5 DEF ExchangeInv

Services == {ServiceConfirmedReadProperty, ServiceConfirmedWriteProperty}

LEMMA HeardFacts ==
  ASSUME ExchangeInv, pc = "heard"
  PROVE  /\ device.route \in Reachable
         /\ heard.invokeID \in Octet /\ heard.service \in Octet
         /\ heard.service = asked.service /\ heard.service \in Services
         /\ Readable(heard)
<1>1. /\ device \in Devices /\ asked \in Requests /\ Readable(asked)
      /\ answer.invokeID \in InvokeIDs /\ Meant(heard, asked, answer.invokeID, device.route)
  BY DEF ExchangeInv, WireOK, CallOK
<1>2. IsRequest(asked) /\ device.route \in Reachable
  BY <1>1, RequestsAreRequests, DeviceFacts
<1>3. heard.service = asked.service /\ heard.service \in Services
  BY <1>1, <1>2 DEF Meant, IsRequest, Services
<1>4. heard.service \in Octet
  BY <1>3, ServiceOctets DEF Services
<1>5. heard.invokeID \in Octet
  BY <1>1, InvokeIDsAssumption DEF Meant
<1>6. Readable(heard)
  BY <1>1 DEF Meant, Readable
<1> QED
  BY <1>2, <1>3, <1>4, <1>5, <1>6

\* The device answers with a datagram, and what the client takes it for is
\* what it answered.
AnsweredWith(bytes) ==
  /\ pc = "heard" /\ pc' = "answered" /\ UNCHANGED <<device, cut, heard, asked>>
  /\ wire' = [udp |-> device.udp, bytes |-> bytes] /\ IsFrame(bytes)
Truly(bytes) ==
  OutcomeOf(UnmarshalBVLC(bytes), heard.invokeID, asked.service) = answer'

LEMMA AnsweredInv ==
  ASSUME ExchangeInv, NEW bytes, AnsweredWith(bytes)
  PROVE  ExchangeInv' /\ (Truly(bytes) => AnswerOK')
<1>1. /\ pc = "heard" /\ pc' = "answered" /\ UNCHANGED <<device, cut, heard, asked>>
      /\ wire' = [udp |-> device.udp, bytes |-> bytes] /\ IsFrame(bytes)
  BY DEF AnsweredWith
<1>2. wire'.bytes = bytes /\ wire' = [udp |-> wire'.udp, bytes |-> wire'.bytes]
  BY <1>1
<1>3. device \in Devices /\ cut \in BOOLEAN /\ ~cut
  BY <1>1 DEF ExchangeInv, WireOK, Cuttable
<1>4. WireOK'
  <2>1. pc' \notin Unsent
    BY <1>1 DEF Unsent
  <2> QED
    BY <1>1, <1>2, <1>3, <2>1 DEF WireOK
<1>5. ClientOK' /\ ScanOK' /\ CallOK'
  BY <1>1 DEF ClientOK, ScanOK, CallOK
<1>6. ASSUME Truly(bytes) PROVE AnswerOK'
  BY <1>1, <1>2, <1>6 DEF AnswerOK, Truly
<1> QED
  BY <1>4, <1>5, <1>6 DEF ExchangeInv

LEMMA CutShortInv ==
  ASSUME ExchangeInv, CutShort
  PROVE  ExchangeInv' /\ AnswerOK'
<1>1. PICK n \in 0..(Len(wire.bytes) - 1) : wire' = [wire EXCEPT !.bytes = SubSeq(@, 1, n)]
  BY DEF CutShort
<1>2. /\ pc \in {"announced", "answered"} /\ ~cut /\ cut' = TRUE
      /\ UNCHANGED <<pc, client, device, asked, heard, answer, peer, outcome>>
  BY DEF CutShort
<1>3. device \in Devices /\ wire = [udp |-> wire.udp, bytes |-> wire.bytes] /\ IsFrame(wire.bytes)
  BY <1>2 DEF ExchangeInv, WireOK, Unsent
<1>4. PICK c : c = SubSeq(wire.bytes, 1, n)
  OBVIOUS
<1>5. Broken(c)
  BY <1>1, <1>3, <1>4, FramesBreak
<1>6. wire' = [udp |-> wire.udp, bytes |-> c]
  BY <1>1, <1>3, <1>4
<1>7. wire'.udp = wire.udp /\ wire'.bytes = c /\ wire' = [udp |-> wire'.udp, bytes |-> wire'.bytes]
  BY <1>6
<1>8. WireOK'
  BY <1>2, <1>3, <1>5, <1>7 DEF WireOK, Unsent, Cuttable
<1>9. ClientOK' /\ CallOK' /\ AnswerOK'
  BY <1>2 DEF ClientOK, CallOK, AnswerOK
<1>10. ScanOK'
  <2>1. pc = "announced" => /\ asked \in Ranges /\ InRange(asked, device.iam.object.instance)
                            /\ wire.udp = device.udp
    BY DEF ExchangeInv, ScanOK
  <2> QED
    BY <1>2, <1>7, <2>1 DEF ScanOK
<1> QED
  BY <1>8, <1>9, <1>10 DEF ExchangeInv

LEMMA ReceiveInv ==
  ASSUME ExchangeInv, Receive
  PROVE  ExchangeInv' /\ (AnswerOK => AnswerOK')
<1>1. PICK b : b = UnmarshalBVLC(wire.bytes)
  OBVIOUS
<1>2. /\ pc = "answered" /\ pc' = "returned" /\ outcome' = Outcome(b)
      /\ UNCHANGED <<device, wire, cut, answer>>
  BY <1>1 DEF Receive, Goto
<1>3. WireOK'
  BY <1>2 DEF ExchangeInv, WireOK, Unsent, Cuttable
<1>4. ClientOK' /\ ScanOK' /\ CallOK'
  BY <1>2 DEF ClientOK, ScanOK, CallOK
<1>5. ASSUME AnswerOK PROVE AnswerOK'
  <2>1. CASE cut
    <3>1. Dropped(b)
      BY <1>1, <2>1, BrokenIsDropped DEF ExchangeInv, WireOK
    <3>2. outcome' = Nothing
      BY <1>2, <3>1 DEF Outcome
    <3> QED
      BY <1>2, <2>1, <3>2 DEF AnswerOK
  <2>2. CASE ~cut
    <3>1. outcome' = OutcomeOf(b, heard.invokeID, asked.service)
      BY <1>2 DEF Outcome, OutcomeOf
    <3>2. outcome' = answer
      BY <1>1, <1>2, <1>5, <2>2, <3>1 DEF AnswerOK
    <3> QED
      BY <1>2, <2>2, <3>2 DEF AnswerOK
  <2> QED
    BY <2>1, <2>2
<1> QED
  BY <1>3, <1>4, <1>5 DEF ExchangeInv

LEMMA AnswerHeader ==
  ASSUME NEW x \in Answers, NEW i \in Octet, NEW y \in Octet
  PROVE  \E q \in Seq(Octet) : q = <<x, i, y>> /\ Len(q) = 3
<1>1. PICK q : q = <<x, i, y>>
  OBVIOUS
<1>2. q \in Seq(Octet) /\ Len(q) = 3
  BY <1>1, AnswersAreOctets
<1> QED
  BY <1>1, <1>2

FewOctets(q, t) == Len(q) = 3 /\ Len(t) <= 1600

LEMMA JoinFew ==
  ASSUME NEW q \in Seq(Octet), NEW t \in Seq(Octet), FewOctets(q, t)
  PROVE  Join(q, t) \in Seq(Octet) /\ Len(Join(q, t)) <= 2000
<1>1. PICK j : j = Join(q, t)
  OBVIOUS
<1>2. j \in Seq(Octet) /\ Len(j) = Len(q) + Len(t) /\ Len(t) \in Nat
  BY <1>1, JoinFacts
<1>3. PICK n \in Nat : n = Len(t) /\ n <= 1600 /\ Len(j) = 3 + n
  BY <1>2 DEF FewOctets
<1>4. Len(j) <= 2000
  BY <1>3
<1> QED
  BY <1>1, <1>2, <1>4

LEMMA AnswerOctetsFacts ==
  ASSUME NEW x \in Answers, NEW i \in Octet, NEW y \in Octet,
         NEW t \in Seq(Octet), Len(t) <= 1600, NEW d, d = AnswerOctets(x, i, y, t)
  PROVE  d \in Seq(Octet) /\ Len(d) <= 2000
<1>1. PICK q \in Seq(Octet) : q = <<x, i, y>> /\ Len(q) = 3
  BY AnswerHeader
<1>2. FewOctets(q, t)
  BY <1>1 DEF FewOctets
<1>3. PICK s \in Seq(Octet) : s = t /\ FewOctets(q, s)
  BY <1>2
<1>4. Join(q, s) \in Seq(Octet) /\ Len(Join(q, s)) <= 2000
  BY <1>3, JoinFew
<1> QED
  BY <1>1, <1>3, <1>4 DEF AnswerOctets

LEMMA AnswerFrameIs ==
  ASSUME NEW x, NEW i, NEW y, NEW payload
  PROVE  AnswerFrame(x, i, y, payload)
           = AnswerWith(device.route, AnswerOctets(x, i, y, payload.bytes))
BY Zenon DEF AnswerFrame, AnswerWith, AnswerOctets, Join

LEMMA AnswerFrameIsCarried ==
  ASSUME device.route \in Reachable, NEW x \in Answers, NEW i \in Octet, NEW y \in Octet,
         NEW payload, payload.bytes \in Seq(Octet), Len(payload.bytes) <= 1600,
         NEW bytes, bytes = AnswerFrame(x, i, y, payload).bytes,
         NEW b, b = UnmarshalBVLC(bytes)
  PROVE  IsFrame(bytes) /\ Brings(b, AnswerOctets(x, i, y, payload.bytes))
<1>1. PICK t \in Seq(Octet) : t = payload.bytes
  OBVIOUS
<1>2. PICK d : d = AnswerOctets(x, i, y, t)
  OBVIOUS
<1>3. d \in Seq(Octet) /\ Len(d) <= 2000
  <2>1. Len(t) <= 1600
    BY <1>1
  <2> QED
    BY <1>2, <2>1, AnswerOctetsFacts
<1>4. PICK route \in Reachable : route = device.route
  OBVIOUS
<1>5. PICK m : m = AnswerWith(route, d)
  OBVIOUS
<1>6. AnswerFrame(x, i, y, payload) = m
  BY <1>1, <1>2, <1>4, <1>5, AnswerFrameIs
<1>7. b = UnmarshalBVLC(m.bytes)
  BY <1>6
<1>8. IsFrame(m.bytes) /\ Brings(b, d)
  BY <1>3, <1>5, <1>7, AnswerIsCarried
<1> QED
  BY <1>1, <1>2, <1>6, <1>8

\* What a reply sends, and that it is a frame.
LEMMA ReplySends ==
  ASSUME ExchangeInv, NEW a, NEW x \in Answers, NEW payload, payload.bytes \in Seq(Octet),
         Len(payload.bytes) <= 1600, Reply(a, x, payload),
         NEW bytes, bytes = AnswerFrame(x, heard.invokeID, heard.service, payload).bytes,
         NEW b, b = UnmarshalBVLC(bytes)
  PROVE  /\ AnsweredWith(bytes) /\ answer' = a
         /\ Brings(b, AnswerOctets(x, heard.invokeID, heard.service, payload.bytes))
<1>1. /\ pc = "heard" /\ pc' = "answered" /\ UNCHANGED <<device, cut, heard, asked>>
      /\ wire' = [udp |-> device.udp, bytes |-> bytes] /\ answer' = a
  BY DEF Reply, Goto
<1>2. device.route \in Reachable /\ heard.invokeID \in Octet /\ heard.service \in Octet
  BY <1>1, HeardFacts
<1>3. PICK i \in Octet : i = heard.invokeID
  BY <1>2
<1>4. PICK y \in Octet : y = heard.service
  BY <1>2
<1>5. bytes = AnswerFrame(x, i, y, payload).bytes
  BY <1>3, <1>4
<1>6. IsFrame(bytes) /\ Brings(b, AnswerOctets(x, i, y, payload.bytes))
  BY <1>2, <1>5, AnswerFrameIsCarried
<1> QED
  BY <1>1, <1>3, <1>4, <1>6 DEF AnsweredWith

LEMMA AcknowledgeReadInv ==
  ASSUME ExchangeInv, NEW v \in Values, AcknowledgeRead(v)
  PROVE  ExchangeInv' /\ (v \in Decoded => AnswerOK')
<1>1. PICK payload : payload = AckPayload(heard, v)
  OBVIOUS
<1>2. PICK a : a = [err |-> NoErr, value |-> v.value]
  OBVIOUS
<1>3. pc = "heard" /\ heard.service = ServiceConfirmedReadProperty /\ Reply(a, ComplexAck, payload)
  BY <1>1, <1>2 DEF AcknowledgeRead
<1>4. /\ Readable(heard) /\ heard.invokeID \in Octet /\ heard.service = asked.service
  BY <1>3, HeardFacts
<1>5. v \in Decoded \union NotDecoded
  BY ValuesAssumption
<1>6. payload.bytes \in Seq(Octet) /\ Len(payload.bytes) <= 1600
  <2>1. /\ payload.bytes \in Seq(Octet) /\ Len(payload.bytes) <= 1531
        /\ Len(payload.bytes) \in Nat
    BY <1>1, <1>4, <1>5, AckPayloadFacts
  <2> QED
    BY <2>1
<1>7. PICK x \in Answers : x = ComplexAck
  BY AnswerTypes
<1>8. PICK bytes : bytes = AnswerFrame(x, heard.invokeID, heard.service, payload).bytes
  OBVIOUS
<1>9. PICK b : b = UnmarshalBVLC(bytes)
  OBVIOUS
<1>10. /\ AnsweredWith(bytes) /\ answer' = a
       /\ Brings(b, AnswerOctets(x, heard.invokeID, heard.service, payload.bytes))
  BY <1>3, <1>6, <1>7, <1>8, <1>9, ReplySends
<1>11. ASSUME v \in Decoded PROVE Truly(bytes)
  <2>1. PICK i \in Octet : i = heard.invokeID
    BY <1>4
  <2>2. PICK t : t = payload.bytes
    OBVIOUS
  <2>3. PICK d : d = AnswerOctets(ComplexAck, i, ServiceConfirmedReadProperty, t)
    OBVIOUS
  <2>4. Brings(b, d)
    BY <1>3, <1>7, <1>10, <2>1, <2>2, <2>3
  <2>5. t = AckPayload(heard, v).bytes
    BY <1>1, <2>2
  <2>6. OutcomeOf(b, i, ServiceConfirmedReadProperty) = a
    BY <1>2, <1>4, <1>11, <2>3, <2>4, <2>5, ReadIsAnswered
  <2> QED
    BY <1>3, <1>4, <1>9, <1>10, <2>1, <2>6 DEF Truly
<1> QED
  BY <1>10, <1>11, AnsweredInv

LEMMA NothingEncoded == Encoded(<<>>).bytes = <<>>
BY DEF Encoded

LEMMA AcknowledgeWriteInv ==
  ASSUME ExchangeInv, AcknowledgeWrite
  PROVE  ExchangeInv' /\ AnswerOK'
<1>1. PICK payload : payload = Encoded(<<>>)
  OBVIOUS
<1>2. PICK a : a = [err |-> NoErr, value |-> GoNil]
  OBVIOUS
<1>3. pc = "heard" /\ heard.service = ServiceConfirmedWriteProperty /\ Reply(a, SimpleAck, payload)
  BY <1>1, <1>2 DEF AcknowledgeWrite
<1>4. heard.invokeID \in Octet /\ heard.service = asked.service
  BY <1>3, HeardFacts
<1>5. PICK t \in Seq(Octet) : t = payload.bytes /\ t = <<>> /\ Len(t) = 0
  BY <1>1, NothingEncoded, NoOctets
<1>6. payload.bytes \in Seq(Octet) /\ Len(payload.bytes) <= 1600
  BY <1>5
<1>7. PICK x \in Answers : x = SimpleAck
  BY AnswerTypes
<1>8. PICK bytes : bytes = AnswerFrame(x, heard.invokeID, heard.service, payload).bytes
  OBVIOUS
<1>9. PICK b : b = UnmarshalBVLC(bytes)
  OBVIOUS
<1>10. /\ AnsweredWith(bytes) /\ answer' = a
       /\ Brings(b, AnswerOctets(x, heard.invokeID, heard.service, payload.bytes))
  BY <1>3, <1>6, <1>7, <1>8, <1>9, ReplySends
<1>11. PICK i \in Octet : i = heard.invokeID
  BY <1>4
<1>12. PICK y \in Octet : y = ServiceConfirmedWriteProperty
  BY ServiceOctets
<1>13. PICK d : d = <<x, i, y>>
  OBVIOUS
<1>14. d \in Seq(Octet)
  BY <1>13, AnswersAreOctets
<1>15. AnswerOctets(x, i, y, t) = d
  BY <1>5, <1>13, <1>14, JoinedNothing DEF AnswerOctets
<1>16. Brings(b, d)
  BY <1>3, <1>5, <1>10, <1>11, <1>12, <1>15
<1>17. OutcomeOf(b, i, ServiceConfirmedWriteProperty) = a
  BY <1>2, <1>7, <1>12, <1>13, <1>16, WriteIsAnswered
<1>18. Truly(bytes)
  BY <1>3, <1>4, <1>9, <1>10, <1>11, <1>17 DEF Truly
<1> QED
  BY <1>10, <1>18, AnsweredInv

\* Something else than an answer, in an NPDU that holds it or in one that
\* does not.
TakenFor(d, a) ==
  \A b : Brings(b, d) => OutcomeOf(b, heard.invokeID, asked.service) = a

StrayWith(a, d) == Stray(a, Plain(Local, device.route, FALSE), d)

LEMMA StrayWithIs ==
  ASSUME NEW a, NEW d, StrayWith(a, d)
  PROVE  /\ pc = "heard" /\ pc' = "answered" /\ UNCHANGED <<device, cut, heard, asked>>
         /\ wire' = [udp |-> device.udp, bytes |-> AnswerWith(device.route, d).bytes]
         /\ answer' = a
BY DEF StrayWith, Stray, Goto, AnswerWith

LEMMA StrayIs ==
  ASSUME NEW a, NEW npdu, NEW d, Stray(a, npdu, d)
  PROVE  /\ pc = "heard" /\ pc' = "answered" /\ UNCHANGED <<device, cut, heard, asked>>
         /\ answer' = a
         /\ wire' = [udp |-> device.udp, bytes |->
              MarshalBVLC(BacFuncUnicast, MarshalNPDU(npdu, Encoded(d))).bytes]
BY DEF Stray, Goto

LEMMA StraySends ==
  ASSUME ExchangeInv, NEW a, NEW d \in Seq(Octet), Len(d) <= 2000,
         StrayWith(a, d)
  PROVE  ExchangeInv' /\ (TakenFor(d, a) => AnswerOK')
<1>1. PICK m : m = AnswerWith(device.route, d)
  OBVIOUS
<1>2. PICK bytes : bytes = m.bytes
  OBVIOUS
<1>3. /\ pc = "heard" /\ pc' = "answered" /\ UNCHANGED <<device, cut, heard, asked>>
      /\ wire' = [udp |-> device.udp, bytes |-> bytes] /\ answer' = a
  BY <1>1, <1>2, StrayWithIs
<1>4. PICK b : b = UnmarshalBVLC(bytes)
  OBVIOUS
<1>5. device.route \in Reachable
  BY <1>3, HeardFacts
<1>6. IsFrame(m.bytes) /\ Brings(b, d)
  BY <1>1, <1>2, <1>4, <1>5, AnswerIsCarried
<1>7. AnsweredWith(bytes)
  BY <1>2, <1>3, <1>6 DEF AnsweredWith
<1>8. TakenFor(d, a) => Truly(bytes)
  BY <1>2, <1>3, <1>4, <1>6 DEF Truly, TakenFor
<1> QED
  BY <1>7, <1>8, AnsweredInv

LEMMA RefuseInv ==
  ASSUME ExchangeInv, NEW e \in Errors, Refuse(e)
  PROVE  ExchangeInv' /\ (e = "whole" => AnswerOK')
<1>1. PICK a : a = [err |-> "ApduError", value |-> GoNil]
  OBVIOUS
<1>2. PICK d : d = ErrorAPDU(e)
  OBVIOUS
<1>3. StrayWith(a, d)
  BY <1>1, <1>2 DEF Refuse, StrayWith
<1>4. pc = "heard"
  BY <1>3, StrayWithIs
<1>5. heard.invokeID \in Octet /\ heard.service \in Octet /\ heard.service = asked.service
  BY <1>4, HeardFacts
<1>6. PICK i \in Octet : i = heard.invokeID
  BY <1>5
<1>7. PICK y \in Octet : y = heard.service /\ y = asked.service
  BY <1>5
<1>8. PICK x \in Answers : x = ErrorPDU
  BY AnswerTypes
<1>9. CASE e = "whole"
  <2>1. PICK t \in Seq(Octet) : t = ErrorPayload.bytes /\ Len(t) <= 1500 /\ Len(t) \in Nat
    <3>1. PICK s \in Seq(Octet) : ErrorPayload = Encoded(s) /\ Len(s) <= 1500 /\ Len(s) \in Nat
      BY ErrorOctets
    <3> QED
      BY <3>1 DEF Encoded
  <2>2. d = AnswerOctets(ErrorPDU, i, y, t)
    BY <1>2, <1>6, <1>7, <1>9, <2>1 DEF ErrorAPDU, AnswerOctets, Join
  <2>3. d \in Seq(Octet) /\ Len(d) <= 2000
    <3>1. Len(t) <= 1600
      BY <2>1
    <3> QED
      BY <1>8, <2>1, <2>2, <3>1, AnswerOctetsFacts
  <2>4. ASSUME NEW b, Brings(b, d)
        PROVE  OutcomeOf(b, heard.invokeID, asked.service) = a
    <3>1. OutcomeOf(b, i, y) = [err |-> "ApduError", value |-> GoNil]
      BY <2>1, <2>2, <2>4, ErrorIsAnswered
    <3> QED
      BY <1>1, <1>6, <1>7, <3>1
  <2>5. TakenFor(d, a)
    BY <2>4 DEF TakenFor
  <2> QED
    BY <1>3, <2>3, <2>5, StraySends
<1>10. CASE e # "whole"
  <2>1. d = <<x, i>>
    BY <1>2, <1>6, <1>8, <1>10 DEF ErrorAPDU
  <2>2. x \in Octet
    BY AnswersAreOctets
  <2>3. d \in Seq(Octet) /\ Len(d) = 2
    BY <2>1, <2>2
  <2>4. Len(d) <= 2000
    BY <2>3
  <2> QED
    BY <1>3, <1>10, <2>3, <2>4, StraySends
<1> QED
  BY <1>9, <1>10

LEMMA NetworkMessageFields ==
  ASSUME NEW type \in NetworkMessages, NEW p, p = NetworkMessage(type)
  PROVE  /\ p.network /\ p.reply \in BOOLEAN /\ p.priority = 0 /\ p.dest = Local
         /\ p.source = device.route /\ p.message \in Octet /\ p.vendor \in Nat
<1>1. type \in Octet
  BY OctetRange DEF NetworkMessages
<1>2. p = [Plain(Local, device.route, FALSE) EXCEPT
             !.network = TRUE, !.message = type, !.vendor = 364]
  BY DEF NetworkMessage
<1> QED
  BY <1>1, <1>2 DEF Plain

LEMMA MessageSends ==
  ASSUME ExchangeInv, NEW type \in NetworkMessages, NEW d \in Seq(Octet), Len(d) <= 2000,
         Stray(Nothing, NetworkMessage(type), d)
  PROVE  ExchangeInv' /\ AnswerOK'
<1>1. PICK p : p = NetworkMessage(type)
  OBVIOUS
<1>2. PICK m : m = MarshalBVLC(BacFuncUnicast, MarshalNPDU(p, Encoded(d)))
  OBVIOUS
<1>3. PICK bytes : bytes = m.bytes
  OBVIOUS
<1>4. /\ pc = "heard" /\ pc' = "answered" /\ UNCHANGED <<device, cut, heard, asked>>
      /\ wire' = [udp |-> device.udp, bytes |-> bytes] /\ answer' = Nothing
  BY <1>1, <1>2, <1>3, StrayIs
<1>5. PICK b : b = UnmarshalBVLC(bytes)
  OBVIOUS
<1>6. device.route \in Reachable
  BY <1>4, HeardFacts
<1>7. /\ p.network /\ p.reply \in BOOLEAN /\ p.priority = 0 /\ p.dest = Local
      /\ p.source \in Reachable /\ p.message \in Octet /\ p.vendor \in Nat
  BY <1>1, <1>6, NetworkMessageFields
<1>8. IsFrame(m.bytes) /\ Dropped(b)
  BY <1>2, <1>3, <1>5, <1>7, MessageIsDropped
<1>9. AnsweredWith(bytes)
  BY <1>3, <1>4, <1>8 DEF AnsweredWith
<1>10. Truly(bytes)
  BY <1>4, <1>5, <1>8 DEF Truly, OutcomeOf
<1> QED
  BY <1>9, <1>10, AnsweredInv

LEMMA AnswerStrangelyInv ==
  ASSUME ExchangeInv, AnswerStrangely
  PROVE  ExchangeInv' /\ AnswerOK'
<1>1. pc = "heard"
  BY DEF AnswerStrangely
<1>2. /\ heard.invokeID \in Octet /\ heard.service \in Octet /\ heard.service \in Services
      /\ heard.service = asked.service
  BY <1>1, HeardFacts
<1>3. PICK i \in Octet : i = heard.invokeID
  BY <1>2
<1>4. PICK s \in Services : s = heard.service /\ s = asked.service /\ s \in Octet
  BY <1>2
<1>6. UnknownAnswers(heard.invokeID) = Unknown(i, s)
      /\ MisplacedAnswers(heard.invokeID) = Misplaced(i, s)
  BY <1>3, <1>4 DEF UnknownAnswers, Unknown, MisplacedAnswers, Misplaced
<1>7. \/ \E d \in Unknown(i, s) : StrayWith(Nothing, d)
      \/ \E d \in Misplaced(i, s) : StrayWith([err |-> "invalid answer", value |-> GoNil], d)
      \/ \E type \in NetworkMessages :
           Stray(Nothing, NetworkMessage(type), <<ComplexAck, heard.invokeID, heard.service>>)
  BY <1>6, Zenon DEF AnswerStrangely, StrayWith
<1>8. CASE \E d \in Unknown(i, s) : StrayWith(Nothing, d)
  <2>1. PICK d \in Unknown(i, s) : StrayWith(Nothing, d)
    BY <1>8
  <2>2. /\ d \in Seq(Octet) /\ Len(d) >= 2 /\ Len(d) <= 2000
        /\ d[1] \in Octet /\ d[2] \in Octet /\ d[1] \notin Answers
    BY <1>4, UnknownOctets
  <2>3. ASSUME NEW b, Brings(b, d)
        PROVE  OutcomeOf(b, heard.invokeID, asked.service) = Nothing
    BY <2>2, <2>3, UnknownIsNone
  <2>4. TakenFor(d, Nothing)
    BY <2>3 DEF TakenFor
  <2>5. d \in Seq(Octet) /\ Len(d) <= 2000
    BY <2>2
  <2> QED
    BY <2>1, <2>4, <2>5, StraySends
<1>9. CASE \E d \in Misplaced(i, s) :
             StrayWith([err |-> "invalid answer", value |-> GoNil], d)
  <2>1. PICK a : a = [err |-> "invalid answer", value |-> GoNil]
    OBVIOUS
  <2>2. PICK d \in Misplaced(i, s) : StrayWith(a, d)
    BY <1>9, <2>1
  <2>3. d \in Seq(Octet) /\ Len(d) <= 2000
    BY <1>4, MisplacedOctets DEF Services
  <2>4. ASSUME NEW b, Brings(b, d)
        PROVE  OutcomeOf(b, heard.invokeID, asked.service) = a
    <3>1. OutcomeOf(b, i, s) = a
      BY <1>4, <2>1, <2>4, MisplacedIsInvalid DEF Services
    <3> QED
      BY <1>3, <1>4, <3>1
  <2>5. TakenFor(d, a)
    BY <2>4 DEF TakenFor
  <2> QED
    BY <2>2, <2>3, <2>5, StraySends
<1>10. CASE \E type \in NetworkMessages :
              Stray(Nothing, NetworkMessage(type), <<ComplexAck, heard.invokeID, heard.service>>)
  <2>1. PICK d : d = <<ComplexAck, heard.invokeID, heard.service>>
    OBVIOUS
  <2>2. PICK type \in NetworkMessages : Stray(Nothing, NetworkMessage(type), d)
    BY <1>10, <2>1
  <2>3. PICK x \in Octet : x = ComplexAck
    BY AnswerTypes, AnswersAreOctets
  <2>4. d \in Seq(Octet) /\ Len(d) = 3
    BY <1>2, <2>1, <2>3
  <2>5. Len(d) <= 2000
    BY <2>4
  <2> QED
    BY <2>2, <2>4, <2>5, MessageSends
<1> QED
  BY <1>7, <1>8, <1>9, <1>10

-----------------------------------------------------------------------------
(* The theorems. *)

LEMMA NextInv == ExchangeInv /\ [Next]_vars => ExchangeInv'
<1> SUFFICES ASSUME ExchangeInv, [Next]_vars PROVE ExchangeInv'
  OBVIOUS
<1>1. ASSUME NEW m \in Machines, Open(m.nets, NewClientByIp(m.nets, m.ip)) PROVE ExchangeInv'
  <2>1. m.nets \in Seq(Nets) /\ m.ip \in IPAddresses
    BY MachineFacts
  <2>2. PICK new : new = NewClientByIp(m.nets, m.ip)
    OBVIOUS
  <2>3. new.broadcast # NoAddress => OnItsNet(m.nets, new)
    BY <2>1, <2>2, NewClientByIpOnItsNet
  <2> QED
    BY <1>1, <2>1, <2>2, <2>3, OpenInv
<1>2. ASSUME NEW m \in Machines, Open(m.nets, NewClient(m.nets)) PROVE ExchangeInv'
  <2>1. m.nets \in Seq(Nets)
    BY MachineFacts
  <2>2. PICK new : new = NewClient(m.nets)
    OBVIOUS
  <2>3. new.broadcast # NoAddress => OnItsNet(m.nets, new)
    BY <2>1, <2>2, NewClientOnItsNet
  <2> QED
    BY <1>2, <2>1, <2>2, <2>3, OpenInv
<1>3. ASSUME NEW range \in Ranges, SendWhoIs(range) PROVE ExchangeInv'
  BY <1>3, SendWhoIsInv
<1>4. CASE HearWhoIs
  BY <1>4, HearWhoIsInv
<1>5. CASE Announce
  BY <1>5, AnnounceInv
<1>6. CASE Collect
  BY <1>6, CollectInv
<1>7. ASSUME NEW r \in Requests, NEW id \in InvokeIDs, Goto("found", "called"), Call(r, id)
      PROVE  ExchangeInv'
  BY <1>7, CallInv
<1>8. CASE HearCall
  BY <1>8, HearCallInv
<1>9. ASSUME NEW v \in Values, AcknowledgeRead(v) PROVE ExchangeInv'
  BY <1>9, AcknowledgeReadInv
<1>10. CASE AcknowledgeWrite
  BY <1>10, AcknowledgeWriteInv
<1>11. ASSUME NEW e \in Errors, Refuse(e) PROVE ExchangeInv'
  BY <1>11, RefuseInv
<1>12. CASE AnswerStrangely
  BY <1>12, AnswerStrangelyInv
<1>13. CASE CutShort
  BY <1>13, CutShortInv
<1>14. CASE Receive
  BY <1>14, ReceiveInv
<1>15. CASE UNCHANGED vars
  BY <1>15 DEF vars, ExchangeInv, WireOK, ClientOK, ScanOK, CallOK, Broadcast
<1> QED
  BY <1>1, <1>2, <1>3, <1>4, <1>5, <1>6, <1>7, <1>8, <1>9, <1>10, <1>11, <1>12, <1>13,
     <1>14, <1>15 DEF Next

(* What is on its way, and what is known of it, at every step, whatever    *)
(* the machines, the devices, the requests and the values are.             *)
THEOREM ExchangeInvariant == Spec => []ExchangeInv
<1>1. Init => ExchangeInv
  BY InitInv
<1>2. ExchangeInv /\ [Next]_vars => ExchangeInv'
  BY NextInv
<1> QED
  BY <1>1, <1>2, PTL DEF Spec

(* Everything on the wire is octets in a frame that says its own length    *)
(* (network_types.go:411), whoever wrote it.                               *)
THEOREM FramesAreWellFormed == Spec => []ExchangeTypeOK
<1>1. ExchangeInv => ExchangeTypeOK
  <2> SUFFICES ASSUME ExchangeInv PROVE ExchangeTypeOK
    OBVIOUS
  <2>1. CASE pc \in Unsent
    <3>1. wire.bytes \in Seq(Octet)
      BY <2>1, NoOctets DEF ExchangeInv, WireOK
    <3> QED
      BY <2>1, <3>1 DEF ExchangeTypeOK, Unsent
  <2>2. CASE pc \notin Unsent /\ ~cut
    <3>1. /\ wire.bytes \in Seq(Octet)
          /\ Len(wire.bytes) = FromBigEndian(SubSeq(wire.bytes, 3, 4))
      BY <2>2, FramesSayTheirLength DEF ExchangeInv, WireOK
    <3> QED
      BY <3>1 DEF ExchangeTypeOK
  <2>3. CASE cut
    <3>1. wire.bytes \in Seq(Octet)
      BY <2>3 DEF ExchangeInv, WireOK, Broken
    <3> QED
      BY <2>3, <3>1 DEF ExchangeTypeOK
  <2> QED
    BY <2>1, <2>2, <2>3
<1> QED
  BY <1>1, ExchangeInvariant, PTL

(* The WhoIs of a new client reaches every device in the net of its        *)
(* address, whatever the prefix and the other nets of the machine are      *)
(* (client.go:49, 117 and 419).                                            *)
THEOREM NeighboursAreReached == Spec => []WhoIsReachesNeighbours
<1>1. ExchangeInv => WhoIsReachesNeighbours
  <2> SUFFICES ASSUME ExchangeInv, pc = "scanning",
                      \A i \in DOMAIN client.nets : InNet(client.nets[i], client.ip) =>
                        client.nets[i].ones = device.ones /\ InNet(Subnet, client.ip)
               PROVE  Hears(wire.udp)
    BY DEF WhoIsReachesNeighbours
  <2>1. /\ client.nets \in Seq(Nets) /\ OnItsNet(client.nets, client)
        /\ wire.udp = Broadcast
    BY DEF ExchangeInv, ClientOK
  <2>2. PICK i \in DOMAIN client.nets :
          /\ InNet(client.nets[i], client.ip) /\ IsIPv4(client.nets[i].ip)
          /\ client.broadcast = BroadcastAddr(client.nets[i])
    BY <2>1 DEF OnItsNet
  <2>3. PICK net \in Nets : net = client.nets[i]
    BY <2>1, ElementOfSeq
  <2>4. client.ip \in IPAddresses
    BY <2>1 DEF OnItsNet
  <2>5. net.ones = device.ones /\ InNet(Subnet, client.ip)
    BY <2>2, <2>3
  <2>6. Subnet.ones = net.ones
    BY <2>5 DEF Subnet
  <2>7. PICK b : b = BroadcastAddr(net)
    OBVIOUS
  <2>8. InNet(Subnet, b) /\ \A k \in DOMAIN b : (b[k] + 1) % Hosts(Subnet, k) = 0
    BY <2>2, <2>3, <2>4, <2>5, <2>6, <2>7, BroadcastReachesNet
  <2>9. wire.udp.ip = b /\ wire.udp.port = 47808
    BY <2>1, <2>2, <2>3, <2>7 DEF Broadcast, DefaultUDPPort
  <2> QED
    BY <2>8, <2>9 DEF Hears
<1> QED
  BY <1>1, ExchangeInvariant, PTL

(* The devices see the range that was asked for, and half a range is none  *)
(* (services.go:15), whatever its limits are.                              *)
THEOREM RangesAreHeard == Spec => []RangeHeard
<1>1. ExchangeInv => RangeHeard
  BY DEF ExchangeInv, ScanOK, RangeHeard, HeardAs
<1> QED
  BY <1>1, ExchangeInvariant, PTL

(* A scan finds every device as it announces itself, behind a router or    *)
(* not, and nobody only if the announcement was cut short (client.go:260,  *)
(* network_types.go:411).                                                  *)
THEOREM ScansAreExact == Spec => []ScanExact
<1>1. ExchangeInv => ScanExact
  BY DEF ExchangeInv, ScanOK, CallOK, PeerIs, ScanExact
<1> QED
  BY <1>1, ExchangeInvariant, PTL

(* Every request that the client encodes is read by the device as it was   *)
(* meant, with any object, property, index, value and priority, and comes  *)
(* to the address and the network that the scan found (network_types.go:43, *)
(* services.go:76 and 113, types.go:133).                                  *)
THEOREM RequestsReachDevices == Spec => []RequestReachesDevice
<1>1. ExchangeInv => RequestReachesDevice
  BY DEF ExchangeInv, CallOK, Meant, RequestReachesDevice
<1> QED
  BY <1>1, ExchangeInvariant, PTL

LEMMA NextAnswer ==
  Values \subseteq Decoded /\ Errors \subseteq {"whole"}
    => (ExchangeInv /\ AnswerOK /\ [Next]_vars => AnswerOK')
<1> SUFFICES ASSUME Values \subseteq Decoded, Errors \subseteq {"whole"}, ExchangeInv, AnswerOK, [Next]_vars
             PROVE  AnswerOK'
  OBVIOUS
<1>1. ASSUME pc' \notin {"answered", "returned"} PROVE AnswerOK'
  BY <1>1 DEF AnswerOK
<1>2. ASSUME NEW m \in Machines, \/ Open(m.nets, NewClientByIp(m.nets, m.ip))
                                 \/ Open(m.nets, NewClient(m.nets))
      PROVE  AnswerOK'
  BY <1>1, <1>2 DEF Open, Goto
<1>3. ASSUME NEW range \in Ranges, SendWhoIs(range) PROVE AnswerOK'
  BY <1>1, <1>3 DEF SendWhoIs, Goto
<1>4. CASE HearWhoIs
  BY <1>1, <1>4 DEF HearWhoIs, Goto
<1>5. CASE Announce
  BY <1>1, <1>5 DEF Announce, Goto
<1>6. CASE Collect
  BY <1>1, <1>6 DEF Collect, Return
<1>7. ASSUME NEW r \in Requests, NEW id \in InvokeIDs, Goto("found", "called"), Call(r, id)
      PROVE  AnswerOK'
  BY <1>1, <1>7 DEF Goto
<1>8. CASE HearCall
  BY <1>1, <1>8 DEF HearCall, Goto
<1>9. ASSUME NEW v \in Values, AcknowledgeRead(v) PROVE AnswerOK'
  BY <1>9, AcknowledgeReadInv
<1>10. CASE AcknowledgeWrite
  BY <1>10, AcknowledgeWriteInv
<1>11. ASSUME NEW e \in Errors, Refuse(e) PROVE AnswerOK'
  <2>1. e = "whole"
    OBVIOUS
  <2> QED
    BY <1>11, <2>1, RefuseInv
<1>12. CASE AnswerStrangely
  BY <1>12, AnswerStrangelyInv
<1>13. CASE CutShort
  BY <1>13, CutShortInv
<1>14. CASE Receive
  BY <1>14, ReceiveInv
<1>15. CASE UNCHANGED vars
  BY <1>15 DEF vars, AnswerOK
<1> QED
  BY <1>2, <1>3, <1>4, <1>5, <1>6, <1>7, <1>8, <1>9, <1>10, <1>11, <1>12, <1>13,
     <1>14, <1>15 DEF Next

(* A call returns what the device answered, and nothing if the answer was  *)
(* cut short or is one that the client does not know (client.go:171, 185   *)
(* and 331, network_types.go:301 and 411), whatever values of the decoded  *)
(* types the devices have, if their Error APDUs are whole.  Other values   *)
(* are lost, and other errors make the call panic: ValidAnswers and        *)
(* AnswersDoNotPanic, runs undecoded and short_error.                      *)
THEOREM AnswersAreReturned ==
  ASSUME Values \subseteq Decoded, Errors \subseteq {"whole"}
  PROVE  Spec => []AnswerReturned
<1>1. Init => AnswerOK
  BY DEF Init, AnswerOK
<1>2. ExchangeInv /\ AnswerOK /\ [Next]_vars => AnswerOK'
  BY NextAnswer
<1>3. AnswerOK => AnswerReturned
  BY DEF AnswerOK, AnswerReturned
<1> QED
  BY <1>1, <1>2, <1>3, ExchangeInvariant, PTL DEF Spec
=============================================================================
