---------------------------- MODULE FramesProofs ----------------------------
(***************************************************************************)
(* Lemmas about module Frames: what the Marshal functions write of headers *)
(* and services, the Unmarshal functions read back, wherever in a datagram *)
(* it stands; and a frame that is cut short says that it is.               *)
(***************************************************************************)
EXTENDS Frames, EncodingProofs

----------------------------------------------------------------------------
(***************************************************************************)
(* Sequences of octets, and what is left of them to read.                  *)
(***************************************************************************)
LEMMA TwoOctets ==
  ASSUME NEW a \in Octet, NEW b \in Octet
  PROVE  <<a>> \o <<b>> = <<a, b>>
<1>1. PICK s : s = <<a>> \o <<b>>
  OBVIOUS
<1>2. PICK t : t = <<a, b>>
  OBVIOUS
<1>3. <<a>> \in Seq(Octet) /\ <<b>> \in Seq(Octet) /\ Len(<<a>>) = 1 /\ Len(<<b>>) = 1
  OBVIOUS
<1>4. s \in Seq(Octet) /\ Len(s) = 2 /\ s[1] = a /\ s[2] = b
  BY <1>1, <1>3, ConcatProperties
<1>5. t \in Seq(Octet) /\ Len(t) = 2 /\ t[1] = a /\ t[2] = b
  BY <1>2
<1>6. s = t
  BY <1>4, <1>5, SeqEqual
<1> QED
  BY <1>1, <1>2, <1>6, Zenon

\* Octet x, a number of two octets, and the octets s, in front of t.
Word(v, t) == BigEndian(v, 2) \o t
Join(s, t) == s \o t

LEMMA ConsFacts ==
  ASSUME NEW x \in Octet, NEW t \in Seq(Octet)
  PROVE  /\ Cons(x, t) \in Seq(Octet) /\ Len(Cons(x, t)) = 1 + Len(t) /\ Len(t) \in Nat
         /\ Cons(x, t) # <<>>
<1>1. <<x>> \in Seq(Octet) /\ Len(<<x>>) = 1
  OBVIOUS
<1>2. Cons(x, t) \in Seq(Octet) /\ Len(Cons(x, t)) = 1 + Len(t) /\ Len(t) \in Nat
  BY <1>1, ConcatProperties, LenProperties DEF Cons
<1> QED
  BY <1>2

LEMMA JoinFacts ==
  ASSUME NEW s \in Seq(Octet), NEW t \in Seq(Octet)
  PROVE  Join(s, t) \in Seq(Octet) /\ Len(Join(s, t)) = Len(s) + Len(t)
         /\ Len(s) \in Nat /\ Len(t) \in Nat
BY ConcatProperties, LenProperties DEF Join

LEMMA WordOctets ==
  ASSUME NEW v \in Nat, NEW s, s = BigEndian(v, 2)
  PROVE  s \in Seq(Octet) /\ Len(s) = 2
<1>1. 2 \in 1..4
  OBVIOUS
<1> QED
  BY <1>1, BigEndianType

LEMMA WordFacts ==
  ASSUME NEW v \in Nat, NEW t \in Seq(Octet)
  PROVE  Word(v, t) \in Seq(Octet) /\ Len(Word(v, t)) = 2 + Len(t) /\ Len(t) \in Nat
<1>1. PICK s : s = BigEndian(v, 2)
  OBVIOUS
<1>2. s \in Seq(Octet) /\ Len(s) = 2
  BY <1>1, WordOctets
<1>3. Word(v, t) = Join(s, t)
  BY <1>1 DEF Word, Join
<1> QED
  BY <1>2, <1>3, JoinFacts

LEMMA JoinTwice ==
  ASSUME NEW s \in Seq(Octet), NEW t \in Seq(Octet), NEW u \in Seq(Octet)
  PROVE  Join(Join(s, t), u) = Join(s, Join(t, u))
BY ConcatAssociative DEF Join

LEMMA ConsJoin ==
  ASSUME NEW x \in Octet, NEW s \in Seq(Octet), NEW t \in Seq(Octet)
  PROVE  Join(Cons(x, s), t) = Cons(x, Join(s, t))
<1>1. PICK a : a = <<x>>
  OBVIOUS
<1>2. a \in Seq(Octet)
  BY <1>1
<1>3. (a \o s) \o t = a \o (s \o t)
  BY <1>2, ConcatAssociative
<1> QED
  BY <1>1, <1>3, Zenon DEF Join, Cons

LEMMA OneCons ==
  ASSUME NEW x \in Octet, NEW t \in Seq(Octet)
  PROVE  Join(<<x>>, t) = Cons(x, t)
BY DEF Join, Cons

LEMMA PairCons ==
  ASSUME NEW x \in Octet, NEW y \in Octet, NEW t \in Seq(Octet)
  PROVE  <<x, y>> \in Seq(Octet) /\ Join(<<x, y>>, t) = Cons(x, Cons(y, t))
<1>1. <<x>> \in Seq(Octet) /\ <<y>> \in Seq(Octet) /\ <<x, y>> \in Seq(Octet)
  OBVIOUS
<1>2. Join(<<x>>, <<y>>) = <<x, y>>
  BY TwoOctets DEF Join
<1>3. Join(Join(<<x>>, <<y>>), t) = Join(<<x>>, Join(<<y>>, t))
  BY <1>1, JoinTwice, ZenonT(40)
<1> QED
  BY <1>1, <1>2, <1>3, Zenon DEF Join, Cons

LEMMA PairThenWord ==
  ASSUME NEW x \in Octet, NEW y \in Octet, NEW s \in Seq(Octet), NEW t \in Seq(Octet)
  PROVE  <<x, y>> \o s \o t = Cons(x, Cons(y, Join(s, t)))
<1>1. <<x, y>> \in Seq(Octet) /\ Join(s, t) \in Seq(Octet)
  BY PairCons, JoinFacts
<1>2. Join(Join(<<x, y>>, s), t) = Join(<<x, y>>, Join(s, t))
  BY <1>1, JoinTwice, ZenonT(40)
<1>3. Join(<<x, y>>, Join(s, t)) = Cons(x, Cons(y, Join(s, t)))
  BY <1>1, PairCons
<1> QED
  BY <1>2, <1>3, Zenon DEF Join

\* The octets s are all that is left in b.
Left(b, s) == At(b, s) /\ b.off + Len(s) = Len(b.bytes)

LEMMA LeftAll ==
  ASSUME NEW s \in Seq(Octet)
  PROVE  Left(NewBuffer(s), s) /\ IsBuffer(NewBuffer(s))
<1>1. Len(s) \in Nat
  BY LenProperties
<1> QED
  BY <1>1 DEF Left, At, NewBuffer, IsBuffer, Buffers

LEMMA LeftConcat ==
  ASSUME NEW b, NEW s \in Seq(Octet), NEW t \in Seq(Octet), Left(b, s \o t)
  PROVE  At(b, s) /\ Left(Behind(b, Len(s)), t)
<1>1. At(b, s) /\ At(Behind(b, Len(s)), t)
  BY AtConcat DEF Left
<1>2. Len(s \o t) = Len(s) + Len(t) /\ Len(s) \in Nat /\ Len(t) \in Nat
  BY ConcatProperties, LenProperties
<1>3. Behind(b, Len(s)).bytes = b.bytes /\ Behind(b, Len(s)).off = b.off + Len(s)
  BY DEF Behind, Cursor
<1>4. b.off \in Nat
  BY <1>1 DEF At, IsBuffer, Buffers
<1> QED
  BY <1>1, <1>2, <1>3, <1>4 DEF Left

LEMMA LeftRest ==
  ASSUME NEW b, NEW s, Left(b, s)
  PROVE  Rest(b) = s
<1>1. SubSeq(b.bytes, b.off + 1, b.off + Len(s)) = s
  BY AtSubSeq DEF Left
<1> QED
  BY <1>1 DEF Left, Rest

\* A read that went well.
Took(v, b) == [ok |-> TRUE, val |-> v, buf |-> b]

\* One octet, and the octets behind it.
LEMMA LeftOctet ==
  ASSUME NEW b, NEW x \in Octet, NEW t \in Seq(Octet), Left(b, Cons(x, t)),
         NEW c, c = Behind(b, 1)
  PROVE  ReadOctet(b) = Took(x, c) /\ Left(c, t)
<1>1. <<x>> \in Seq(Octet) /\ Len(<<x>>) = 1
  OBVIOUS
<1>2. Left(b, <<x>> \o t)
  BY Zenon DEF Cons
<1>3. At(b, <<x>>) /\ Left(Behind(b, Len(<<x>>)), t)
  BY <1>1, <1>2, LeftConcat, Zenon
<1> QED
  BY <1>1, <1>3, ReadOctetAt, Zenon DEF ReadOctet, Took

LEMMA LeftUint16 ==
  ASSUME NEW b, NEW v \in Nat, v < 65536, NEW t \in Seq(Octet), Left(b, Word(v, t)),
         NEW c, c = Behind(b, 2)
  PROVE  ReadUint16(b) = Took(v, c) /\ Left(c, t)
<1>1. PICK n \in 1..4 : n = 2
  OBVIOUS
<1>2. FitsIn(v, n)
  BY <1>1 DEF FitsIn
<1>3. PICK s : s = BigEndian(v, n)
  OBVIOUS
<1>4. s \in Seq(Octet) /\ Len(s) = n
  BY <1>1, <1>3, WordOctets
<1>5. At(b, s) /\ Left(Behind(b, n), t)
  <2>1. Left(b, s \o t)
    BY <1>1, <1>3 DEF Word
  <2>2. At(b, s) /\ Left(Behind(b, Len(s)), t)
    BY <1>4, <2>1, LeftConcat
  <2> QED
    BY <1>4, <2>2
<1>6. ReadUint(b, n) = Took(v, Behind(b, n))
  BY <1>2, <1>3, <1>5, ReadUintAt DEF Took
<1>7. ReadUint16(b) = ReadUint(b, n)
  BY <1>1 DEF ReadUint16
<1>8. c = Behind(b, n)
  BY <1>1
<1> QED
  BY <1>5, <1>6, <1>7, <1>8

----------------------------------------------------------------------------
(***************************************************************************)
(* The fields of a header.                                                 *)
(***************************************************************************)
\* h is a record with the fields of D.
HasFields(h, D) == h = [x \in D |-> h[x]]

APDUFields == {"type", "invokeID", "service", "ok", "buf"}
APDUHead(t, i, s, b) ==
  [type |-> t, invokeID |-> i, service |-> s, ok |-> TRUE, buf |-> b]

LEMMA APDUHeadFields ==
  ASSUME NEW k, HasFields(k, APDUFields), k.ok = TRUE
  PROVE  k = APDUHead(k.type, k.invokeID, k.service, k.buf)
BY DEF APDUHead, HasFields, APDUFields

LEMMA SetAPDUField ==
  ASSUME NEW t, NEW i, NEW s, NEW b, NEW v, NEW c
  PROVE  /\ SetField(APDUHead(t, i, s, b), "type", Took(v, c))
              = APDUHead(v, i, s, c)
         /\ SetField(APDUHead(t, i, s, b), "invokeID", Took(v, c))
              = APDUHead(t, v, s, c)
         /\ SetField(APDUHead(t, i, s, b), "service", Took(v, c))
              = APDUHead(t, i, v, c)
<1>1. SetField(APDUHead(t, i, s, b), "type", Took(v, c))
       = APDUHead(v, i, s, c)
  <2>1. PICK k : k = SetField(APDUHead(t, i, s, b), "type", Took(v, c))
    OBVIOUS
  <2>2. HasFields(k, APDUFields)
    BY <2>1 DEF SetField, HasFields, APDUFields, APDUHead
  <2>3. k.type = v /\ k.invokeID = i /\ k.service = s
        /\ k.ok = TRUE /\ k.buf = c
    BY <2>1 DEF SetField, APDUHead, Took
  <2> QED
    BY <2>1, <2>2, <2>3, APDUHeadFields
<1>2. SetField(APDUHead(t, i, s, b), "invokeID", Took(v, c))
       = APDUHead(t, v, s, c)
  <2>1. PICK k : k = SetField(APDUHead(t, i, s, b), "invokeID", Took(v, c))
    OBVIOUS
  <2>2. HasFields(k, APDUFields)
    BY <2>1 DEF SetField, HasFields, APDUFields, APDUHead
  <2>3. k.type = t /\ k.invokeID = v /\ k.service = s
        /\ k.ok = TRUE /\ k.buf = c
    BY <2>1 DEF SetField, APDUHead, Took
  <2> QED
    BY <2>1, <2>2, <2>3, APDUHeadFields
<1>3. SetField(APDUHead(t, i, s, b), "service", Took(v, c))
       = APDUHead(t, i, v, c)
  <2>1. PICK k : k = SetField(APDUHead(t, i, s, b), "service", Took(v, c))
    OBVIOUS
  <2>2. HasFields(k, APDUFields)
    BY <2>1 DEF SetField, HasFields, APDUFields, APDUHead
  <2>3. k.type = t /\ k.invokeID = i /\ k.service = v
        /\ k.ok = TRUE /\ k.buf = c
    BY <2>1 DEF SetField, APDUHead, Took
  <2> QED
    BY <2>1, <2>2, <2>3, APDUHeadFields
<1> QED
  BY <1>1, <1>2, <1>3

NPDUFields == {"version", "control", "dest", "source", "hopCount",
               "message", "vendor", "ok", "buf"}
NPDUHead(x, o, d, s, h, m, n, b) ==
  [version |-> x, control |-> o, dest |-> d, source |-> s, hopCount |-> h,
   message |-> m, vendor |-> n, ok |-> TRUE, buf |-> b]

LEMMA NPDUHeadFields ==
  ASSUME NEW k, HasFields(k, NPDUFields), k.ok = TRUE
  PROVE  k = NPDUHead(k.version, k.control, k.dest, k.source, k.hopCount, k.message, k.vendor, k.buf)
BY DEF NPDUHead, HasFields, NPDUFields

LEMMA SetNPDUField ==
  ASSUME NEW x, NEW o, NEW d, NEW s, NEW h, NEW m, NEW n, NEW b, NEW v, NEW c
  PROVE  /\ SetField(NPDUHead(x, o, d, s, h, m, n, b), "version", Took(v, c))
              = NPDUHead(v, o, d, s, h, m, n, c)
         /\ SetField(NPDUHead(x, o, d, s, h, m, n, b), "control", Took(v, c))
              = NPDUHead(x, v, d, s, h, m, n, c)
         /\ SetField(NPDUHead(x, o, d, s, h, m, n, b), "dest", Took(v, c))
              = NPDUHead(x, o, v, s, h, m, n, c)
         /\ SetField(NPDUHead(x, o, d, s, h, m, n, b), "source", Took(v, c))
              = NPDUHead(x, o, d, v, h, m, n, c)
         /\ SetField(NPDUHead(x, o, d, s, h, m, n, b), "hopCount", Took(v, c))
              = NPDUHead(x, o, d, s, v, m, n, c)
<1>1. SetField(NPDUHead(x, o, d, s, h, m, n, b), "version", Took(v, c))
       = NPDUHead(v, o, d, s, h, m, n, c)
  <2>1. PICK k : k = SetField(NPDUHead(x, o, d, s, h, m, n, b), "version", Took(v, c))
    OBVIOUS
  <2>2. HasFields(k, NPDUFields)
    BY <2>1 DEF SetField, HasFields, NPDUFields, NPDUHead
  <2>3. k.version = v /\ k.control = o /\ k.dest = d
        /\ k.source = s /\ k.hopCount = h /\ k.message = m /\ k.vendor = n
        /\ k.ok = TRUE /\ k.buf = c
    BY <2>1 DEF SetField, NPDUHead, Took
  <2> QED
    BY <2>1, <2>2, <2>3, NPDUHeadFields
<1>2. SetField(NPDUHead(x, o, d, s, h, m, n, b), "control", Took(v, c))
       = NPDUHead(x, v, d, s, h, m, n, c)
  <2>1. PICK k : k = SetField(NPDUHead(x, o, d, s, h, m, n, b), "control", Took(v, c))
    OBVIOUS
  <2>2. HasFields(k, NPDUFields)
    BY <2>1 DEF SetField, HasFields, NPDUFields, NPDUHead
  <2>3. k.version = x /\ k.control = v /\ k.dest = d
        /\ k.source = s /\ k.hopCount = h /\ k.message = m /\ k.vendor = n
        /\ k.ok = TRUE /\ k.buf = c
    BY <2>1 DEF SetField, NPDUHead, Took
  <2> QED
    BY <2>1, <2>2, <2>3, NPDUHeadFields
<1>3. SetField(NPDUHead(x, o, d, s, h, m, n, b), "dest", Took(v, c))
       = NPDUHead(x, o, v, s, h, m, n, c)
  <2>1. PICK k : k = SetField(NPDUHead(x, o, d, s, h, m, n, b), "dest", Took(v, c))
    OBVIOUS
  <2>2. HasFields(k, NPDUFields)
    BY <2>1 DEF SetField, HasFields, NPDUFields, NPDUHead
  <2>3. k.version = x /\ k.control = o /\ k.dest = v
        /\ k.source = s /\ k.hopCount = h /\ k.message = m /\ k.vendor = n
        /\ k.ok = TRUE /\ k.buf = c
    BY <2>1 DEF SetField, NPDUHead, Took
  <2> QED
    BY <2>1, <2>2, <2>3, NPDUHeadFields
<1>4. SetField(NPDUHead(x, o, d, s, h, m, n, b), "source", Took(v, c))
       = NPDUHead(x, o, d, v, h, m, n, c)
  <2>1. PICK k : k = SetField(NPDUHead(x, o, d, s, h, m, n, b), "source", Took(v, c))
    OBVIOUS
  <2>2. HasFields(k, NPDUFields)
    BY <2>1 DEF SetField, HasFields, NPDUFields, NPDUHead
  <2>3. k.version = x /\ k.control = o /\ k.dest = d
        /\ k.source = v /\ k.hopCount = h /\ k.message = m /\ k.vendor = n
        /\ k.ok = TRUE /\ k.buf = c
    BY <2>1 DEF SetField, NPDUHead, Took
  <2> QED
    BY <2>1, <2>2, <2>3, NPDUHeadFields
<1>5. SetField(NPDUHead(x, o, d, s, h, m, n, b), "hopCount", Took(v, c))
       = NPDUHead(x, o, d, s, v, m, n, c)
  <2>1. PICK k : k = SetField(NPDUHead(x, o, d, s, h, m, n, b), "hopCount", Took(v, c))
    OBVIOUS
  <2>2. HasFields(k, NPDUFields)
    BY <2>1 DEF SetField, HasFields, NPDUFields, NPDUHead
  <2>3. k.version = x /\ k.control = o /\ k.dest = d
        /\ k.source = s /\ k.hopCount = v /\ k.message = m /\ k.vendor = n
        /\ k.ok = TRUE /\ k.buf = c
    BY <2>1 DEF SetField, NPDUHead, Took
  <2> QED
    BY <2>1, <2>2, <2>3, NPDUHeadFields
<1> QED
  BY <1>1, <1>2, <1>3, <1>4, <1>5

BVLCFields == {"type", "function", "length", "ok", "buf"}
BVLCHead(t, f, l, b) ==
  [type |-> t, function |-> f, length |-> l, ok |-> TRUE, buf |-> b]

LEMMA BVLCHeadFields ==
  ASSUME NEW k, HasFields(k, BVLCFields), k.ok = TRUE
  PROVE  k = BVLCHead(k.type, k.function, k.length, k.buf)
BY DEF BVLCHead, HasFields, BVLCFields

LEMMA SetBVLCField ==
  ASSUME NEW t, NEW f, NEW l, NEW b, NEW v, NEW c
  PROVE  /\ SetField(BVLCHead(t, f, l, b), "type", Took(v, c))
              = BVLCHead(v, f, l, c)
         /\ SetField(BVLCHead(t, f, l, b), "function", Took(v, c))
              = BVLCHead(t, v, l, c)
         /\ SetField(BVLCHead(t, f, l, b), "length", Took(v, c))
              = BVLCHead(t, f, v, c)
<1>1. SetField(BVLCHead(t, f, l, b), "type", Took(v, c))
       = BVLCHead(v, f, l, c)
  <2>1. PICK k : k = SetField(BVLCHead(t, f, l, b), "type", Took(v, c))
    OBVIOUS
  <2>2. HasFields(k, BVLCFields)
    BY <2>1 DEF SetField, HasFields, BVLCFields, BVLCHead
  <2>3. k.type = v /\ k.function = f /\ k.length = l
        /\ k.ok = TRUE /\ k.buf = c
    BY <2>1 DEF SetField, BVLCHead, Took
  <2> QED
    BY <2>1, <2>2, <2>3, BVLCHeadFields
<1>2. SetField(BVLCHead(t, f, l, b), "function", Took(v, c))
       = BVLCHead(t, v, l, c)
  <2>1. PICK k : k = SetField(BVLCHead(t, f, l, b), "function", Took(v, c))
    OBVIOUS
  <2>2. HasFields(k, BVLCFields)
    BY <2>1 DEF SetField, HasFields, BVLCFields, BVLCHead
  <2>3. k.type = t /\ k.function = v /\ k.length = l
        /\ k.ok = TRUE /\ k.buf = c
    BY <2>1 DEF SetField, BVLCHead, Took
  <2> QED
    BY <2>1, <2>2, <2>3, BVLCHeadFields
<1>3. SetField(BVLCHead(t, f, l, b), "length", Took(v, c))
       = BVLCHead(t, f, v, c)
  <2>1. PICK k : k = SetField(BVLCHead(t, f, l, b), "length", Took(v, c))
    OBVIOUS
  <2>2. HasFields(k, BVLCFields)
    BY <2>1 DEF SetField, HasFields, BVLCFields, BVLCHead
  <2>3. k.type = t /\ k.function = f /\ k.length = v
        /\ k.ok = TRUE /\ k.buf = c
    BY <2>1 DEF SetField, BVLCHead, Took
  <2> QED
    BY <2>1, <2>2, <2>3, BVLCHeadFields
<1> QED
  BY <1>1, <1>2, <1>3

----------------------------------------------------------------------------
(***************************************************************************)
(* APDU.                                                                   *)
(***************************************************************************)
LEMMA RequestHeaderAt ==
  ASSUME NEW x \in Octet, x \notin Answers, NEW y \in Octet, NEW t \in Seq(Octet),
         NEW d, d = Cons(x, Cons(y, t))
  PROVE  \E b : Left(b, t) /\ APDUHeader(d) = APDUHead(x, 0, y, b)
<1>1. PICK u : u = Cons(y, t)
  OBVIOUS
<1>2. PICK z : z = 0
  OBVIOUS
<1>3. PICK a : a = NewBuffer(d)
  OBVIOUS
<1>4. PICK b : b = Behind(a, 1)
  OBVIOUS
<1>5. PICK c : c = Behind(b, 1)
  OBVIOUS
<1>6. u \in Seq(Octet) /\ d = Cons(x, u) /\ d \in Seq(Octet)
  BY <1>1, ConsFacts
<1>a. Left(a, d)
  BY <1>3, <1>6, LeftAll
<1>7. ReadOctet(a) = Took(x, b) /\ Left(b, u)
  BY <1>4, <1>6, <1>a, LeftOctet
<1>8. ReadOctet(b) = Took(y, c) /\ Left(c, t)
  BY <1>1, <1>5, <1>7, LeftOctet
<1>9. PICK f : f = APDUHead(z, z, z, a)
  OBVIOUS
<1>10. PICK g : g = APDUHead(x, z, z, b)
  OBVIOUS
<1>11. f.ok = TRUE /\ f.buf = a
  BY <1>9 DEF APDUHead
<1>12. g.type = x /\ g.ok = TRUE /\ g.buf = b
  BY <1>10 DEF APDUHead
<1>13. Field(f, "type", Always, ReadOctet) = SetField(f, "type", Took(x, b))
  BY <1>7, <1>11 DEF Field, Always
<1>14. Field(g, "invokeID", IsAnswer, ReadOctet) = g
  BY <1>12 DEF Field, IsAnswer
<1>15. Field(g, "service", Always, ReadOctet) = SetField(g, "service", Took(y, c))
  BY <1>8, <1>12 DEF Field, Always
<1>16. SetField(f, "type", Took(x, b)) = g
  BY <1>9, <1>10, SetAPDUField
<1>17. SetField(g, "service", Took(y, c)) = APDUHead(x, z, y, c)
  BY <1>10, SetAPDUField
<1>18. f = [type |-> 0, invokeID |-> 0, service |-> 0, ok |-> TRUE, buf |-> NewBuffer(d)]
  BY <1>2, <1>3, <1>9 DEF APDUHead
<1>19. APDUHeader(d) = APDUHead(x, z, y, c)
  BY <1>13, <1>14, <1>15, <1>16, <1>17, <1>18 DEF APDUHeader
<1> QED
  BY <1>2, <1>8, <1>19

LEMMA AnswerHeaderAt ==
  ASSUME NEW x \in Answers, NEW i \in Octet, NEW y \in Octet, NEW t \in Seq(Octet),
         NEW d, d = Cons(x, Cons(i, Cons(y, t)))
  PROVE  \E b : Left(b, t) /\ APDUHeader(d) = APDUHead(x, i, y, b)
<1>1. PICK u : u = Cons(y, t)
  OBVIOUS
<1>2. PICK v : v = Cons(i, u)
  OBVIOUS
<1>3. PICK z : z = 0
  OBVIOUS
<1>4. PICK a : a = NewBuffer(d)
  OBVIOUS
<1>5. PICK b : b = Behind(a, 1)
  OBVIOUS
<1>6. PICK c : c = Behind(b, 1)
  OBVIOUS
<1>7. PICK e : e = Behind(c, 1)
  OBVIOUS
<1>8. x \in Octet
  BY OctetRange DEF Answers, SimpleAck, ComplexAck, ErrorPDU
<1>9. u \in Seq(Octet) /\ v \in Seq(Octet) /\ d = Cons(x, v) /\ d \in Seq(Octet)
  BY <1>1, <1>2, <1>8, ConsFacts
<1>a. Left(a, d)
  BY <1>4, <1>9, LeftAll
<1>10. ReadOctet(a) = Took(x, b) /\ Left(b, v)
  BY <1>5, <1>8, <1>9, <1>a, LeftOctet
<1>11. ReadOctet(b) = Took(i, c) /\ Left(c, u)
  BY <1>2, <1>6, <1>9, <1>10, LeftOctet
<1>12. ReadOctet(c) = Took(y, e) /\ Left(e, t)
  BY <1>1, <1>7, <1>11, LeftOctet
<1>13. PICK f : f = APDUHead(z, z, z, a)
  OBVIOUS
<1>14. PICK g : g = APDUHead(x, z, z, b)
  OBVIOUS
<1>15. PICK h : h = APDUHead(x, i, z, c)
  OBVIOUS
<1>16. f.ok = TRUE /\ f.buf = a
  BY <1>13 DEF APDUHead
<1>17. g.type = x /\ g.ok = TRUE /\ g.buf = b
  BY <1>14 DEF APDUHead
<1>18. h.ok = TRUE /\ h.buf = c
  BY <1>15 DEF APDUHead
<1>19. Field(f, "type", Always, ReadOctet) = SetField(f, "type", Took(x, b))
  BY <1>10, <1>16 DEF Field, Always
<1>20. Field(g, "invokeID", IsAnswer, ReadOctet) = SetField(g, "invokeID", Took(i, c))
  BY <1>11, <1>17 DEF Field, IsAnswer
<1>21. Field(h, "service", Always, ReadOctet) = SetField(h, "service", Took(y, e))
  BY <1>12, <1>18 DEF Field, Always
<1>22. SetField(f, "type", Took(x, b)) = g
  BY <1>13, <1>14, SetAPDUField
<1>23. SetField(g, "invokeID", Took(i, c)) = h
  BY <1>14, <1>15, SetAPDUField
<1>24. SetField(h, "service", Took(y, e)) = APDUHead(x, i, y, e)
  BY <1>15, SetAPDUField
<1>25. f = [type |-> 0, invokeID |-> 0, service |-> 0, ok |-> TRUE, buf |-> NewBuffer(d)]
  BY <1>3, <1>4, <1>13 DEF APDUHead
<1>26. APDUHeader(d) = APDUHead(x, i, y, e)
  BY <1>19, <1>20, <1>21, <1>22, <1>23, <1>24, <1>25 DEF APDUHeader
<1> QED
  BY <1>12, <1>26

\* What the client takes an APDU for, with the payload t.
APDUIs(apdu, x, i, y, t) ==
  /\ apdu.header = [type |-> x, invokeID |-> i, service |-> y]
  /\ apdu.kind = PayloadKind(x, y)
  /\ apdu.payload = UnmarshalPayload(PayloadKind(x, y), t)
  /\ apdu.err = apdu.payload.err

LEMMA APDUAt ==
  ASSUME NEW d, NEW x, NEW i, NEW y, NEW b, NEW t, Left(b, t),
         APDUHeader(d) = APDUHead(x, i, y, b)
  PROVE  APDUIs(UnmarshalAPDU(d), x, i, y, t)
<1>1. PICK h : h = APDUHead(x, i, y, b)
  OBVIOUS
<1>2. h.type = x /\ h.invokeID = i /\ h.service = y /\ h.ok = TRUE /\ h.buf = b
  BY <1>1 DEF APDUHead
<1>3. PICK kind : kind = PayloadKind(x, y)
  OBVIOUS
<1>4. PICK payload : payload = UnmarshalPayload(kind, t)
  OBVIOUS
<1>5. Rest(b) = t
  BY LeftRest
<1>6. UnmarshalAPDU(d) = APDUOf(h)
  BY <1>1 DEF UnmarshalAPDU
<1>7. APDUOf(h) = APDUBehind(h, kind)
  BY <1>2, <1>3 DEF APDUOf
<1>8. APDUBehind(h, kind) = APDUWith(h, kind, payload)
  BY <1>2, <1>4, <1>5 DEF APDUBehind
<1>9. PICK apdu : apdu = APDUWith(h, kind, payload)
  OBVIOUS
<1>10. /\ apdu.header = [type |-> x, invokeID |-> i, service |-> y]
       /\ apdu.kind = kind /\ apdu.payload = payload /\ apdu.err = payload.err
  BY <1>2, <1>9 DEF APDUWith
<1>11. UnmarshalAPDU(d) = apdu
  BY <1>6, <1>7, <1>8, <1>9, Zenon
<1> QED
  BY <1>3, <1>4, <1>10, <1>11, Zenon DEF APDUIs

----------------------------------------------------------------------------
(***************************************************************************)
(* BVLC.                                                                   *)
(***************************************************************************)
\* What a datagram may hold, and the datagram.
Bodies == {t \in Seq(Octet) : 4 + Len(t) < 65536}
Frame(f, t) == Cons(TypeBacnetIP, Cons(f, Word(4 + Len(t), t)))

LEMMA BVLCHeaderAt ==
  ASSUME NEW f \in Octet, NEW t \in Seq(Octet), NEW l \in Nat, l < 65536,
         NEW d, d = Cons(TypeBacnetIP, Cons(f, Word(l, t)))
  PROVE  \E b : Left(b, t) /\ b.bytes = d /\ FromBigEndian(SubSeq(d, 3, 4)) = l
                /\ BVLCHeader(d) = BVLCHead(TypeBacnetIP, f, l, b)
<1>1. PICK u : u = Word(l, t)
  OBVIOUS
<1>2. PICK v : v = Cons(f, u)
  OBVIOUS
<1>4. PICK x : x = TypeBacnetIP
  OBVIOUS
<1>5. PICK z : z = 0
  OBVIOUS
<1>6. PICK a : a = NewBuffer(d)
  OBVIOUS
<1>7. PICK b : b = Behind(a, 1)
  OBVIOUS
<1>8. PICK c : c = Behind(b, 1)
  OBVIOUS
<1>9. PICK e : e = Behind(c, 2)
  OBVIOUS
<1>3. d = Cons(x, v)
  BY <1>1, <1>2, <1>4
<1>b. x \in Octet
  BY <1>4, OctetRange DEF TypeBacnetIP
<1>10. u \in Seq(Octet)
  BY <1>1, WordFacts
<1>a. v \in Seq(Octet)
  BY <1>2, <1>10, ConsFacts
<1>c. d \in Seq(Octet)
  BY <1>3, <1>a, <1>b, ConsFacts
<1>11. u \in Seq(Octet) /\ v \in Seq(Octet) /\ d \in Seq(Octet) /\ x \in Octet
  BY <1>10, <1>a, <1>b, <1>c
<1>12. Left(a, d)
  BY <1>6, <1>11, LeftAll
<1>d. Left(a, Cons(x, v))
  BY <1>3, <1>12
<1>13. ReadOctet(a) = Took(x, b) /\ Left(b, v)
  BY <1>7, <1>a, <1>b, <1>d, LeftOctet
<1>e. Left(b, Cons(f, u))
  BY <1>2, <1>13
<1>14. ReadOctet(b) = Took(f, c) /\ Left(c, u)
  BY <1>8, <1>10, <1>e, LeftOctet
<1>15. ReadUint16(c) = Took(l, e) /\ Left(e, t)
  BY <1>1, <1>9, <1>14, LeftUint16
<1>16. e.bytes = d
  BY <1>6, <1>7, <1>8, <1>9 DEF Behind, Cursor, NewBuffer
<1>17. PICK g : g = BVLCHead(z, z, z, a)
  OBVIOUS
<1>18. PICK h : h = BVLCHead(x, z, z, b)
  OBVIOUS
<1>19. PICK i : i = BVLCHead(x, f, z, c)
  OBVIOUS
<1>20. g.ok = TRUE /\ g.buf = a
  BY <1>17 DEF BVLCHead
<1>21. h.type = TypeBacnetIP /\ h.ok = TRUE /\ h.buf = b
  BY <1>4, <1>18 DEF BVLCHead
<1>22. i.type = TypeBacnetIP /\ i.ok = TRUE /\ i.buf = c
  BY <1>4, <1>19 DEF BVLCHead
<1>23. Field(g, "type", Always, ReadOctet) = SetField(g, "type", Took(x, b))
  BY <1>13, <1>20 DEF Field, Always
<1>24. Field(h, "function", IsBacnetIP, ReadOctet) = SetField(h, "function", Took(f, c))
  BY <1>14, <1>21, SMTT(40) DEF Field, IsBacnetIP
<1>25. Field(i, "length", IsBacnetIP, ReadUint16) = SetField(i, "length", Took(l, e))
  BY <1>15, <1>22, SMTT(40) DEF Field, IsBacnetIP
<1>26. SetField(g, "type", Took(x, b)) = h
  BY <1>17, <1>18, SetBVLCField
<1>27. SetField(h, "function", Took(f, c)) = i
  BY <1>18, <1>19, SetBVLCField
<1>28. SetField(i, "length", Took(l, e)) = BVLCHead(x, f, l, e)
  BY <1>19, SetBVLCField
<1>29. g = [type |-> 0, function |-> 0, length |-> 0, ok |-> TRUE, buf |-> NewBuffer(d)]
  BY <1>5, <1>6, <1>17 DEF BVLCHead
<1>30. BVLCHeader(d) = BVLCHead(x, f, l, e)
  BY <1>23, <1>24, <1>25, <1>26, <1>27, <1>28, <1>29 DEF BVLCHeader
<1>31. FromBigEndian(SubSeq(d, 3, 4)) = l
  <2>1. c.bytes = d /\ c.off = 2
    BY <1>6, <1>7, <1>8 DEF Behind, Cursor, NewBuffer
  <2>2. ReadUint(c, 2).ok = TRUE /\ ReadUint(c, 2).val = l
    BY <1>15 DEF ReadUint16, Took
  <2> QED
    BY <2>1, <2>2 DEF ReadUint
<1> QED
  BY <1>4, <1>15, <1>16, <1>30, <1>31

\* The length of a datagram.
LEMMA BVLCOctets ==
  ASSUME NEW f \in Octet, NEW t \in Seq(Octet), NEW l \in Nat,
         NEW d, d = Cons(TypeBacnetIP, Cons(f, Word(l, t)))
  PROVE  d \in Seq(Octet) /\ Len(d) = 4 + Len(t) /\ Len(t) \in Nat
<1>1. PICK u : u = Word(l, t)
  OBVIOUS
<1>2. PICK v : v = Cons(f, u)
  OBVIOUS
<1>3. PICK x : x = TypeBacnetIP
  OBVIOUS
<1>4. d = Cons(x, v)
  BY <1>1, <1>2, <1>3
<1>5. x \in Octet
  BY <1>3, OctetRange DEF TypeBacnetIP
<1>6. u \in Seq(Octet) /\ Len(u) = 2 + Len(t) /\ Len(t) \in Nat
  BY <1>1, WordFacts
<1>7. v \in Seq(Octet) /\ Len(v) = 1 + Len(u)
  BY <1>2, <1>6, ConsFacts
<1>8. d \in Seq(Octet) /\ Len(d) = 1 + Len(v)
  BY <1>4, <1>5, <1>7, ConsFacts
<1> QED
  BY <1>6, <1>7, <1>8

\* A datagram that says its own length is looked into.
LEMMA FrameFacts ==
  ASSUME NEW f \in Octet, NEW t \in Bodies, NEW d, d = Frame(f, t)
  PROVE  /\ d \in Seq(Octet) /\ Len(d) = 4 + Len(t) /\ Len(t) \in Nat
         /\ FromBigEndian(SubSeq(d, 3, 4)) = Len(d)
         /\ UnmarshalBVLC(d).npdu = UnmarshalNPDU(t)
         /\ UnmarshalBVLC(d).err = UnmarshalNPDU(t).err
<1>1. t \in Seq(Octet) /\ Len(t) \in Nat /\ 4 + Len(t) < 65536
  BY LenProperties DEF Bodies
<1>2. PICK l : l = 4 + Len(t)
  OBVIOUS
<1>3. l \in Nat /\ l < 65536 /\ d = Cons(TypeBacnetIP, Cons(f, Word(l, t)))
  BY <1>1, <1>2 DEF Frame
<1>4. d \in Seq(Octet) /\ Len(d) = 4 + Len(t)
  BY <1>1, <1>3, BVLCOctets
<1>a. \E b : Left(b, t) /\ b.bytes = d /\ FromBigEndian(SubSeq(d, 3, 4)) = l
           /\ BVLCHeader(d) = BVLCHead(TypeBacnetIP, f, l, b)
  BY <1>1, <1>3, BVLCHeaderAt
<1>5. PICK b : /\ Left(b, t) /\ b.bytes = d /\ FromBigEndian(SubSeq(d, 3, 4)) = l
               /\ BVLCHeader(d) = BVLCHead(TypeBacnetIP, f, l, b)
  BY <1>a
<1>6. PICK h : h = BVLCHead(TypeBacnetIP, f, l, b)
  OBVIOUS
<1>7. h.type = TypeBacnetIP /\ h.function = f /\ h.length = l /\ h.ok = TRUE /\ h.buf = b
  BY <1>6 DEF BVLCHead
<1>8. Framed(h)
  BY <1>2, <1>4, <1>5, <1>7 DEF Framed, IsBacnetIP
<1>9. Rest(b) = t
  BY <1>5, LeftRest
<1>10. UnmarshalBVLC(d) = BVLCOf(h)
  BY <1>5, <1>6, Zenon DEF UnmarshalBVLC
<1>11. BVLCOf(h) = BVLCWith(h, UnmarshalNPDU(t))
  BY <1>7, <1>8, <1>9 DEF BVLCOf, IsBacnetIP
<1>12. PICK n : n = UnmarshalNPDU(t)
  OBVIOUS
<1>13. BVLCWith(h, n).npdu = n /\ BVLCWith(h, n).err = n.err
  BY DEF BVLCWith
<1> QED
  BY <1>1, <1>2, <1>4, <1>5, <1>10, <1>11, <1>12, <1>13

LEMMA SmallModulo ==
  ASSUME NEW l \in Nat, l < 65536
  PROVE  l % 65536 = l
OBVIOUS

LEMMA MarshalFrame ==
  ASSUME NEW f \in Octet, NEW n, n.err = NoErr, n.bytes \in Bodies
  PROVE  MarshalBVLC(f, n).err = NoErr /\ MarshalBVLC(f, n).bytes = Frame(f, n.bytes)
<1>1. PICK t \in Seq(Octet) : t = n.bytes /\ Len(t) \in Nat /\ 4 + Len(t) < 65536
  BY LenProperties DEF Bodies
<1>g. t \in Seq(Octet)
  BY <1>1
<1>h. n.bytes = t
  BY <1>1
<1>2. PICK l : l = 4 + Len(t)
  OBVIOUS
<1>3. PICK w : w = BigEndian(l, 2)
  OBVIOUS
<1>4. PICK x : x = TypeBacnetIP
  OBVIOUS
<1>5. l \in Nat /\ l < 65536
  BY <1>1, <1>2
<1>f. l % 65536 = l
  BY <1>5, SmallModulo
<1>a. w \in Seq(Octet)
  BY <1>3, <1>5, WordOctets
<1>b. x \in Octet
  BY <1>4, OctetRange DEF TypeBacnetIP
<1>6. w \in Seq(Octet) /\ x \in Octet
  BY <1>a, <1>b
<1>7. MarshalBVLC(f, n) = Encoded(<<x, f>> \o w \o t)
  <2>1. MarshalBVLC(f, n) = Encoded(<<TypeBacnetIP, f>>
                              \o BigEndian((4 + Len(n.bytes)) % 65536, 2) \o n.bytes)
    BY DEF MarshalBVLC
  <2> QED
    BY <1>h, <1>2, <1>3, <1>4, <1>f, <2>1
<1>8. <<x, f>> \o w \o t = Cons(x, Cons(f, Join(w, t)))
  BY <1>g, <1>6, PairThenWord, Zenon
<1>9. Join(w, t) = Word(l, t)
  BY <1>3 DEF Join, Word
<1>10. Frame(f, t) = Cons(x, Cons(f, Word(l, t)))
  BY <1>2, <1>4 DEF Frame
<1>c. PICK s : s = Frame(f, t)
  OBVIOUS
<1>d. <<x, f>> \o w \o t = s
  BY <1>8, <1>9, <1>10, <1>c, Zenon
<1>e. MarshalBVLC(f, n) = Encoded(s)
  BY <1>7, <1>d, Zenon
<1> QED
  BY <1>1, <1>c, <1>e DEF Encoded

----------------------------------------------------------------------------
(***************************************************************************)
(* A datagram cut short.                                                   *)
(***************************************************************************)
\* A field that cannot be read ends the header.
LEMMA BVLCBreaksOff ==
  ASSUME NEW x, NEW f, NEW l, NEW b, NEW r, r.ok = FALSE
  PROVE  /\ SetField(BVLCHead(x, f, l, b), "type", r).ok = FALSE
         /\ SetField(BVLCHead(x, f, l, b), "function", r).ok = FALSE
         /\ SetField(BVLCHead(x, f, l, b), "length", r).ok = FALSE
BY DEF SetField, BVLCHead

\* Only the length says how long the datagram is, and it has been read.
LEMMA BVLCLength ==
  ASSUME NEW d \in Seq(Octet), NEW h, h = BVLCHeader(d), h.ok, IsBacnetIP(h)
  PROVE  Len(d) >= 4 /\ h.length = FromBigEndian(SubSeq(d, 3, 4)) /\ h.buf.bytes = d
<1>1. PICK z : z = 0
  OBVIOUS
<1>2. PICK a : a = NewBuffer(d)
  OBVIOUS
<1>3. PICK g : g = BVLCHead(z, z, z, a)
  OBVIOUS
<1>4. a.bytes = d /\ a.off = 0 /\ Len(d) \in Nat
  BY <1>2, LenProperties DEF NewBuffer
<1>5. g.ok = TRUE /\ g.buf = a
  BY <1>3 DEF BVLCHead
<1>6. PICK i : i = Field(g, "type", Always, ReadOctet)
  OBVIOUS
<1>7. PICK j : j = Field(i, "function", IsBacnetIP, ReadOctet)
  OBVIOUS
<1>8. g = [type |-> 0, function |-> 0, length |-> 0, ok |-> TRUE, buf |-> NewBuffer(d)]
  BY <1>1, <1>2, <1>3 DEF BVLCHead
<1>9. h = Field(j, "length", IsBacnetIP, ReadUint16)
  BY <1>6, <1>7, <1>8 DEF BVLCHeader
<1>10. i = SetField(g, "type", ReadUint(a, 1))
  BY <1>5, <1>6 DEF Field, Always, ReadOctet
<1>11. CASE 1 > Len(d)
  <2>1. ReadUint(a, 1).ok = FALSE
    BY <1>4, <1>11 DEF ReadUint
  <2>2. i.ok = FALSE
    BY <1>3, <1>10, <2>1, BVLCBreaksOff
  <2>3. j = i
    BY <1>7, <2>2 DEF Field
  <2>4. h = j
    BY <1>9, <2>2, <2>3 DEF Field
  <2> QED
    BY <2>2, <2>3, <2>4
<1>12. CASE 1 <= Len(d)
  <2>1. PICK v : v = FromBigEndian(SubSeq(a.bytes, 1, 1))
    OBVIOUS
  <2>2. PICK b : b = Cursor(a, 1, TRUE)
    OBVIOUS
  <2>3. ReadUint(a, 1) = Took(v, b)
    BY <1>4, <1>12, <2>1, <2>2 DEF ReadUint, Took
  <2>4. i = BVLCHead(v, z, z, b)
    BY <1>3, <1>10, <2>3, SetBVLCField
  <2>5. i.ok = TRUE /\ i.buf = b /\ i.type = v
    BY <2>4 DEF BVLCHead
  <2>6. b.bytes = d /\ b.off = 1
    BY <1>4, <2>2 DEF Cursor
  <2>7. CASE ~IsBacnetIP(i)
    <3>1. j = i
      BY <1>7, <2>7 DEF Field
    <3>2. h = i
      BY <1>9, <2>7, <3>1 DEF Field
    <3> QED
      BY <2>7, <3>2
  <2>8. CASE IsBacnetIP(i)
    <3>1. j = SetField(i, "function", ReadUint(b, 1))
      BY <1>7, <2>5, <2>8, SMTT(40) DEF Field, ReadOctet
    <3>2. CASE 2 > Len(d)
      <4>1. ReadUint(b, 1).ok = FALSE
        BY <1>4, <2>6, <3>2 DEF ReadUint
      <4>2. j.ok = FALSE
        BY <2>4, <3>1, <4>1, BVLCBreaksOff
      <4>3. h = j
        BY <1>9, <4>2, SMTT(40) DEF Field
      <4> QED
        BY <4>2, <4>3
    <3>3. CASE 2 <= Len(d)
      <4>1. PICK w : w = FromBigEndian(SubSeq(b.bytes, 2, 2))
        OBVIOUS
      <4>2. PICK c : c = Cursor(b, 2, TRUE)
        OBVIOUS
      <4>3. ReadUint(b, 1) = Took(w, c)
        BY <1>4, <2>6, <3>3, <4>1, <4>2 DEF ReadUint, Took
      <4>4. j = BVLCHead(v, w, z, c)
        BY <2>4, <3>1, <4>3, SetBVLCField, Z3
      <4>5. j.ok = TRUE /\ j.buf = c /\ j.type = v
        BY <4>4 DEF BVLCHead
      <4>6. c.bytes = d /\ c.off = 2
        BY <2>6, <4>2 DEF Cursor
      <4>7. IsBacnetIP(j)
        BY <2>5, <2>8, <4>5 DEF IsBacnetIP
      <4>8. h = SetField(j, "length", ReadUint(c, 2))
        BY <1>9, <4>5, <4>7 DEF Field, ReadUint16
      <4>9. CASE 4 > Len(d)
        <5>1. ReadUint(c, 2).ok = FALSE
          BY <1>4, <4>6, <4>9 DEF ReadUint
        <5>2. h.ok = FALSE
          BY <4>4, <4>8, <5>1, BVLCBreaksOff
        <5> QED
          BY <5>2
      <4>10. CASE 4 <= Len(d)
        <5>1. PICK l : l = FromBigEndian(SubSeq(c.bytes, 3, 4))
          OBVIOUS
        <5>2. PICK e : e = Cursor(c, 4, TRUE)
          OBVIOUS
        <5>3. ReadUint(c, 2) = Took(l, e)
          BY <1>4, <4>6, <4>10, <5>1, <5>2 DEF ReadUint, Took
        <5>4. h = BVLCHead(v, w, l, e)
          BY <4>4, <4>8, <5>3, SetBVLCField
        <5>5. h.length = l /\ h.buf = e
          BY <5>4 DEF BVLCHead
        <5>6. e.bytes = d
          BY <4>6, <5>2 DEF Cursor
        <5>7. l = FromBigEndian(SubSeq(d, 3, 4))
          BY <4>6, <5>1
        <5> QED
          BY <4>10, <5>5, <5>6, <5>7
      <4> QED
        BY <1>4, <4>9, <4>10
    <3> QED
      BY <1>4, <3>2, <3>3
  <2> QED
    BY <2>7, <2>8
<1> QED
  BY <1>4, <1>11, <1>12

\* A datagram that is not as long as it says is not looked into.
LEMMA NotFramed ==
  ASSUME NEW d \in Seq(Octet), Len(d) < 4 \/ FromBigEndian(SubSeq(d, 3, 4)) # Len(d)
  PROVE  UnmarshalBVLC(d).npdu = NoNPDU /\ UnmarshalBVLC(d).err \in {NotBacnetIP, Failed}
<1>1. PICK h : h = BVLCHeader(d)
  OBVIOUS
<1>2. ~Framed(h)
  <2>1. SUFFICES ASSUME Framed(h)
                 PROVE  FALSE
    OBVIOUS
  <2>2. h.ok /\ IsBacnetIP(h) /\ Len(h.buf.bytes) = h.length
    BY <2>1 DEF Framed
  <2>3. Len(d) >= 4 /\ h.length = FromBigEndian(SubSeq(d, 3, 4)) /\ h.buf.bytes = d
    BY <1>1, <2>2, BVLCLength
  <2> QED
    BY <2>2, <2>3, LenProperties
<1>3. UnmarshalBVLC(d) = BVLCOf(h)
  BY <1>1, Zenon DEF UnmarshalBVLC
<1>4. PICK n : n = NoNPDU
  OBVIOUS
<1>5. BVLCOf(h).npdu = n /\ BVLCOf(h).err \in {NotBacnetIP, Failed}
  BY <1>2, <1>4 DEF BVLCOf
<1> QED
  BY <1>3, <1>4, <1>5

LEMMA CutFrame ==
  ASSUME NEW f \in Octet, NEW t \in Bodies, NEW k \in Nat, k < Len(Frame(f, t)),
         NEW d, d = SubSeq(Frame(f, t), 1, k)
  PROVE  /\ d \in Seq(Octet)
         /\ UnmarshalBVLC(d).npdu = NoNPDU /\ UnmarshalBVLC(d).err \in {NotBacnetIP, Failed}
<1>1. PICK whole : whole = Frame(f, t)
  OBVIOUS
<1>2. /\ whole \in Seq(Octet) /\ Len(whole) = 4 + Len(t) /\ Len(t) \in Nat
      /\ FromBigEndian(SubSeq(whole, 3, 4)) = Len(whole)
  BY <1>1, FrameFacts
<1>3. PICK s : s = SubSeq(whole, 3, 4)
  OBVIOUS
<1>4. d = SubSeq(whole, 1, k) /\ k < Len(whole)
  BY <1>1
<1>5. d \in Seq(Octet) /\ Len(d) = k
  BY <1>2, <1>4
<1>6. k >= 4 => SubSeq(d, 3, 4) = s
  BY <1>2, <1>3, <1>4, <1>5
<1>7. Len(d) < 4 \/ FromBigEndian(SubSeq(d, 3, 4)) # Len(d)
  <2>1. FromBigEndian(s) = Len(whole)
    BY <1>2, <1>3
  <2>2. CASE k < 4
    BY <1>5, <2>2
  <2>3. CASE k >= 4
    <3>1. FromBigEndian(SubSeq(d, 3, 4)) = Len(whole)
      BY <1>6, <2>1, <2>3
    <3> QED
      BY <1>2, <1>4, <1>5, <3>1
  <2> QED
    BY <2>2, <2>3
<1> QED
  BY <1>5, <1>7, NotFramed

----------------------------------------------------------------------------
(***************************************************************************)
(* NPDU.                                                                   *)
(***************************************************************************)
\* Addresses of devices: the octets of the MAC are counted by one octet.
Adrs      == {adr \in Seq(Octet) : Len(adr) < 256}
Networks  == {n \in Nat : 0 < n /\ n < 65536}
Remotes   == [net : Networks, adr : Adrs]
Reachable == {Local} \union Remotes

LEMMA NetworkFacts ==
  ASSUME NEW n \in Networks
  PROVE  n \in Nat /\ n < 65536 /\ n # 0
BY DEF Networks

LEMMA RemoteFields ==
  ASSUME NEW a \in Remotes
  PROVE  a.net \in Networks /\ a.adr \in Adrs /\ a = [net |-> a.net, adr |-> a.adr]
BY DEF Remotes

LEMMA AdrFacts ==
  ASSUME NEW s \in Adrs
  PROVE  s \in Seq(Octet) /\ Len(s) < 256 /\ Len(s) \in Nat
BY LenProperties DEF Adrs

LEMMA ReachableFacts ==
  ASSUME NEW a \in Reachable
  PROVE  \/ a = Local /\ a.net = 0
         \/ /\ a.net \in Nat /\ a.net < 65536 /\ a.net # 0 /\ a.adr \in Seq(Octet)
            /\ Len(a.adr) \in Nat /\ Len(a.adr) < 256
            /\ a = [net |-> a.net, adr |-> a.adr]
<1>1. CASE a = Local
  BY <1>1 DEF Local
<1>2. CASE a \in Remotes
  <2>1. a.net \in Networks /\ a.adr \in Adrs /\ a = [net |-> a.net, adr |-> a.adr]
    BY <1>2, RemoteFields
  <2>2. a.net \in Nat /\ a.net < 65536 /\ a.net # 0
    BY <2>1, NetworkFacts
  <2>3. a.adr \in Seq(Octet) /\ Len(a.adr) < 256 /\ Len(a.adr) \in Nat
    BY <2>1, AdrFacts
  <2> QED
    BY <2>1, <2>2, <2>3
<1> QED
  BY <1>1, <1>2 DEF Reachable

LEMMA OctetModulo ==
  ASSUME NEW n \in Octet
  PROVE  n % 256 = n
BY OctetRange

\* Address a in front of t, and the hop count that goes with a destination.
Via(a, t)  == IF a.net = 0 THEN t ELSE Word(a.net, Cons(Len(a.adr), Join(a.adr, t)))
Hops(a, t) == IF a.net = 0 THEN t ELSE Cons(255, t)

LEMMA ViaFacts ==
  ASSUME NEW a \in Reachable, NEW t \in Seq(Octet)
  PROVE  Via(a, t) \in Seq(Octet) /\ Len(Via(a, t)) <= 258 + Len(t)
         /\ Len(Via(a, t)) \in Nat /\ Len(t) \in Nat
<1>1. CASE a.net = 0
  BY <1>1, LenProperties DEF Via
<1>2. CASE a.net # 0
  <2>1. /\ a.net \in Nat /\ a.adr \in Seq(Octet)
        /\ Len(a.adr) \in Nat /\ Len(a.adr) < 256
    BY <1>2, ReachableFacts
  <2>2. Len(a.adr) \in Octet
    BY <2>1, OctetRange
  <2>3. PICK s : s = Join(a.adr, t)
    OBVIOUS
  <2>4. PICK u : u = Cons(Len(a.adr), s)
    OBVIOUS
  <2>5. s \in Seq(Octet) /\ Len(s) = Len(a.adr) + Len(t) /\ Len(t) \in Nat
    BY <2>1, <2>3, JoinFacts
  <2>6. u \in Seq(Octet) /\ Len(u) = 1 + Len(s)
    BY <2>2, <2>4, <2>5, ConsFacts
  <2>7. Word(a.net, u) \in Seq(Octet) /\ Len(Word(a.net, u)) = 2 + Len(u)
    BY <2>1, <2>6, WordFacts
  <2>8. Via(a, t) = Word(a.net, u)
    BY <1>2, <2>3, <2>4 DEF Via
  <2> QED
    BY <2>1, <2>5, <2>6, <2>7, <2>8
<1> QED
  BY <1>1, <1>2

LEMMA HopsFacts ==
  ASSUME NEW a, NEW t \in Seq(Octet)
  PROVE  Hops(a, t) \in Seq(Octet) /\ Len(Hops(a, t)) <= 1 + Len(t)
         /\ Len(Hops(a, t)) \in Nat /\ Len(t) \in Nat
<1>1. CASE a.net = 0
  BY <1>1, LenProperties DEF Hops
<1>2. CASE a.net # 0
  <2>1. 255 \in Octet
    BY OctetRange
  <2>2. Cons(255, t) \in Seq(Octet) /\ Len(Cons(255, t)) = 1 + Len(t) /\ Len(t) \in Nat
    BY <2>1, ConsFacts
  <2> QED
    BY <1>2, <2>2 DEF Hops
<1> QED
  BY <1>1, <1>2

LEMMA JoinNothing ==
  ASSUME NEW t \in Seq(Octet)
  PROVE  Join(<<>>, t) = t
BY EmptySeq, ConcatEmptySeq DEF Join

\* An address as it is written.
LEMMA MarshalVia ==
  ASSUME NEW a \in Reachable, NEW t \in Seq(Octet)
  PROVE  MarshalAddress(a) \in Seq(Octet) /\ Join(MarshalAddress(a), t) = Via(a, t)
<1>1. CASE a.net = 0
  <2>1. MarshalAddress(a) = <<>>
    BY <1>1 DEF MarshalAddress
  <2>2. Via(a, t) = t
    BY <1>1 DEF Via
  <2>3. <<>> \in Seq(Octet)
    OBVIOUS
  <2> QED
    BY <2>1, <2>2, <2>3, JoinNothing
<1>2. CASE a.net # 0
  <2>1. /\ a.net \in Nat /\ a.adr \in Seq(Octet)
        /\ Len(a.adr) \in Nat /\ Len(a.adr) < 256
    BY <1>2, ReachableFacts
  <2>2. PICK n \in Octet : n = Len(a.adr)
    BY <2>1, OctetRange
  <2>3. Len(a.adr) % 256 = n
    BY <2>2, OctetModulo
  <2>4. PICK w : w = BigEndian(a.net, 2)
    OBVIOUS
  <2>5. w \in Seq(Octet)
    BY <2>1, <2>4, WordOctets
  <2>6. PICK o : o = <<n>>
    OBVIOUS
  <2>7. o \in Seq(Octet)
    BY <2>2, <2>6
  <2>8. PICK s \in Seq(Octet) : s = a.adr
    BY <2>1
  <2>9. MarshalAddress(a) = Join(Join(w, o), s)
    BY <1>2, <2>3, <2>4, <2>6, <2>8 DEF MarshalAddress, Join
  <2>10. Join(w, o) \in Seq(Octet) /\ Join(s, t) \in Seq(Octet)
    BY <2>5, <2>7, JoinFacts
  <2>11. Join(Join(w, o), s) \in Seq(Octet)
    BY <2>10, JoinFacts
  <2>12. Join(Join(Join(w, o), s), t) = Join(Join(w, o), Join(s, t))
    BY <2>10, JoinTwice
  <2>13. Join(Join(w, o), Join(s, t)) = Join(w, Join(o, Join(s, t)))
    BY <2>5, <2>7, <2>10, JoinTwice
  <2>14. Join(o, Join(s, t)) = Cons(n, Join(s, t))
    BY <2>2, <2>6, <2>10, OneCons
  <2>15. Join(w, Cons(n, Join(s, t))) = Word(a.net, Cons(n, Join(s, t)))
    BY <2>4 DEF Join, Word
  <2>16. Via(a, t) = Word(a.net, Cons(n, Join(s, t)))
    BY <1>2, <2>2, <2>8 DEF Via
  <2> QED
    BY <2>9, <2>11, <2>12, <2>13, <2>14, <2>15, <2>16
<1> QED
  BY <1>1, <1>2

LEMMA OffSet ==
  ASSUME NEW e, NEW y, NEW o, NEW m, e = [bytes |-> y, off |-> o, canUnread |-> TRUE]
  PROVE  [e EXCEPT !.off = m] = [bytes |-> y, off |-> m, canUnread |-> TRUE]
<1>1. PICK k : k = [e EXCEPT !.off = m]
  OBVIOUS
<1>2. HasFields(k, {"bytes", "off", "canUnread"})
  BY <1>1 DEF HasFields
<1>3. k.bytes = y /\ k.off = m /\ k.canUnread = TRUE
  BY <1>1
<1>4. k = [bytes |-> k.bytes, off |-> k.off, canUnread |-> k.canUnread]
  BY <1>2 DEF HasFields
<1> QED
  BY <1>1, <1>3, <1>4

\* An address as it is read.
LEMMA AddressAt ==
  ASSUME NEW a \in Reachable, a.net # 0, NEW t \in Seq(Octet), NEW b, Left(b, Via(a, t))
  PROVE  \E c : UnmarshalAddress(b) = Took(a, c) /\ Left(c, t)
<1>1. /\ a.net \in Nat /\ a.net < 65536 /\ a.adr \in Seq(Octet)
      /\ Len(a.adr) \in Nat /\ Len(a.adr) < 256
      /\ a = [net |-> a.net, adr |-> a.adr]
  BY ReachableFacts
<1>m. PICK count : count = Len(a.adr)
  OBVIOUS
<1>o. count \in Octet
  <2>1. count \in Nat /\ count < 256
    BY <1>1, <1>m
  <2> QED
    BY <2>1, OctetRange
<1>2. PICK n \in Octet : n = Len(a.adr)
  BY <1>m, <1>o
<1>3. PICK s : s = Join(a.adr, t)
  OBVIOUS
<1>4. PICK u : u = Cons(n, s)
  OBVIOUS
<1>5. s \in Seq(Octet)
  BY <1>1, <1>3, JoinFacts
<1>6. u \in Seq(Octet)
  BY <1>4, <1>5, ConsFacts
<1>7. PICK c : c = Behind(b, 2)
  OBVIOUS
<1>8. PICK e : e = Behind(c, 1)
  OBVIOUS
<1>9. Via(a, t) = Word(a.net, u)
  BY <1>2, <1>3, <1>4 DEF Via
<1>10. Left(b, Word(a.net, u))
  BY <1>9
<1>11. ReadUint16(b) = Took(a.net, c) /\ Left(c, u)
  BY <1>1, <1>6, <1>7, <1>10, LeftUint16
<1>12. ReadOctet(c) = Took(n, e) /\ Left(e, s)
  BY <1>4, <1>5, <1>8, <1>11, LeftOctet
<1>13. PICK adr \in Seq(Octet) : adr = a.adr
  BY <1>1
<1>14. Left(e, adr \o t)
  BY <1>3, <1>12, <1>13 DEF Join
<1>15. At(e, adr) /\ Left(Behind(e, Len(adr)), t)
  BY <1>14, LeftConcat
<1>16. SubSeq(e.bytes, e.off + 1, e.off + n) = adr
  BY <1>2, <1>13, <1>15, AtSubSeq
<1>17. e.off + n <= Len(e.bytes) /\ e.bytes = b.bytes /\ e.off \in Nat
  <2>1. e.bytes = b.bytes
    BY <1>7, <1>8 DEF Behind, Cursor
  <2>2. e.off + Len(adr) <= Len(e.bytes) /\ e.off \in Nat
    BY <1>15 DEF At, IsBuffer, Buffers
  <2> QED
    BY <1>2, <1>13, <2>1, <2>2
<1>18. PICK read : read = AddressEnds(b, a.net, Took(n, e))
  OBVIOUS
<1>19. read.buf = [e EXCEPT !.off = e.off + n]
  BY <1>17, <1>18 DEF AddressEnds, Took
<1>20. e = [bytes |-> e.bytes, off |-> e.off, canUnread |-> TRUE]
  BY <1>8 DEF Behind, Cursor
<1>21. read.buf = Behind(e, n)
  <2>1. PICK y, o, m : y = e.bytes /\ o = e.off /\ m = e.off + n
    OBVIOUS
  <2>2. e = [bytes |-> y, off |-> o, canUnread |-> TRUE]
    BY <1>20, <2>1
  <2>3. [e EXCEPT !.off = m] = [bytes |-> y, off |-> m, canUnread |-> TRUE]
    BY <2>2, OffSet
  <2>4. Behind(e, n) = [bytes |-> y, off |-> m, canUnread |-> TRUE]
    BY <2>1 DEF Behind, Cursor
  <2> QED
    BY <1>19, <2>1, <2>3, <2>4
<1>22. read.val = [net |-> a.net, adr |-> a.adr]
  BY <1>13, <1>16, <1>17, <1>18 DEF AddressEnds, Took
<1>23. read.ok = TRUE
  BY <1>17, <1>18 DEF AddressEnds, Took
<1>24. read = [ok |-> read.ok, val |-> read.val, buf |-> read.buf]
  BY <1>18 DEF AddressEnds
<1>25. UnmarshalAddress(b) = read
  <2>1. ReadUint16(b).val = a.net /\ ReadUint16(b).buf = c
    BY <1>11 DEF Took
  <2> QED
    BY <1>12, <1>18, <2>1, Zenon DEF UnmarshalAddress
<1>26. read = Took(a, Behind(e, n))
  BY <1>1, <1>21, <1>22, <1>23, <1>24 DEF Took
<1> QED
  BY <1>2, <1>13, <1>15, <1>25, <1>26

----------------------------------------------------------------------------
\* The control octet.
LEMMA SetBits ==
  ASSUME NEW S \in BOOLEAN
  PROVE  /\ SetBit(S, 7) = IF S THEN 128 ELSE 0
         /\ SetBit(S, 5) = IF S THEN 32 ELSE 0
         /\ SetBit(S, 3) = IF S THEN 8 ELSE 0
         /\ SetBit(S, 2) = IF S THEN 4 ELSE 0
BY DEF SetBit

LEMMA BitDivides ==
  ASSUME NEW c \in Nat
  PROVE  /\ Bit(c, 7) <=> (c \div 128) % 2 = 1
         /\ Bit(c, 5) <=> (c \div 32) % 2 = 1
         /\ Bit(c, 3) <=> (c \div 8) % 2 = 1
         /\ Bit(c, 2) <=> (c \div 4) % 2 = 1
BY DEF Bit

Control(network, dest, source, reply) ==
  SetBit(network, 7) + SetBit(dest, 5) + SetBit(source, 3) + SetBit(reply, 2) + 0

LEMMA ControlBits ==
  ASSUME NEW M \in BOOLEAN, NEW D \in BOOLEAN, NEW S \in BOOLEAN, NEW R \in BOOLEAN,
         NEW c, c = Control(M, D, S, R)
  PROVE  /\ c \in Octet
         /\ Bit(c, 7) = M /\ Bit(c, 5) = D /\ Bit(c, 3) = S /\ Bit(c, 2) = R
<1>1. c = (IF M THEN 128 ELSE 0) + (IF D THEN 32 ELSE 0) + (IF S THEN 8 ELSE 0)
            + (IF R THEN 4 ELSE 0)
  BY SetBits DEF Control
<1>2. c \in Nat /\ c < 256
  BY <1>1
<1>3. c \in Octet
  BY <1>2, OctetRange
<1>4. Bit(c, 7) <=> M
  BY <1>1, <1>2, BitDivides
<1>5. Bit(c, 5) <=> D
  BY <1>1, <1>2, BitDivides
<1>6. Bit(c, 3) <=> S
  BY <1>1, <1>2, BitDivides
<1>7. Bit(c, 2) <=> R
  BY <1>1, <1>2, BitDivides
<1>8. Bit(c, 7) \in BOOLEAN /\ Bit(c, 5) \in BOOLEAN /\ Bit(c, 3) \in BOOLEAN
      /\ Bit(c, 2) \in BOOLEAN
  BY DEF Bit
<1> QED
  BY <1>3, <1>4, <1>5, <1>6, <1>7, <1>8

Chain(p, a, b, c, d, e, t) == p \o a \o b \o c \o d \o e \o t

LEMMA SixJoins ==
  ASSUME NEW p, NEW a, NEW b, NEW c, NEW d, NEW e, NEW t,
         p \in Seq(Octet) /\ a \in Seq(Octet) /\ b \in Seq(Octet) /\ c \in Seq(Octet)
         /\ d \in Seq(Octet) /\ e \in Seq(Octet) /\ t \in Seq(Octet)
  PROVE  Chain(p, a, b, c, d, e, t)
           = Join(p, Join(a, Join(b, Join(c, Join(d, Join(e, t))))))
<1>1. PICK sa \in Seq(Octet) : sa = Join(p, a)
  BY JoinFacts
<1>2. PICK sb \in Seq(Octet) : sb = Join(sa, b)
  BY JoinFacts
<1>3. PICK sc \in Seq(Octet) : sc = Join(sb, c)
  BY JoinFacts
<1>4. PICK sd \in Seq(Octet) : sd = Join(sc, d)
  BY JoinFacts
<1>5. PICK et \in Seq(Octet) : et = Join(e, t)
  BY JoinFacts
<1>6. PICK dt \in Seq(Octet) : dt = Join(d, et)
  BY JoinFacts
<1>7. PICK ct \in Seq(Octet) : ct = Join(c, dt)
  BY JoinFacts
<1>8. PICK bt \in Seq(Octet) : bt = Join(b, ct)
  BY JoinFacts
<1>9. Join(Join(sd, e), t) = Join(sd, et)
  BY <1>5, JoinTwice
<1>10. Join(sd, et) = Join(sc, dt)
  BY <1>4, <1>6, JoinTwice
<1>11. Join(sc, dt) = Join(sb, ct)
  BY <1>3, <1>7, JoinTwice
<1>12. Join(sb, ct) = Join(sa, bt)
  BY <1>2, <1>8, JoinTwice
<1>13. Join(sa, bt) = Join(p, Join(a, bt))
  BY <1>1, JoinTwice
<1>14. Chain(p, a, b, c, d, e, t) = Join(Join(sd, e), t)
  BY <1>1, <1>2, <1>3, <1>4, Zenon DEF Join, Chain
<1> QED
  BY <1>5, <1>6, <1>7, <1>8, <1>9, <1>10, <1>11, <1>12, <1>13, <1>14, Zenon

\* The NPDUs of Exchange, in front of t.
Plainly(dest, source, reply) ==
  [network |-> FALSE, reply |-> reply, priority |-> 0, dest |-> dest,
   source |-> source, hopCount |-> 255, message |-> 0, vendor |-> 0]
NPDUOctets(dest, source, reply, t) ==
  Cons(1, Cons(Control(FALSE, dest.net # 0, source.net # 0, reply),
               Via(dest, Via(source, Hops(dest, t)))))

LEMMA MarshalHops ==
  ASSUME NEW a, NEW t \in Seq(Octet)
  PROVE  /\ (IF a.net # 0 THEN << 255 >> ELSE <<>>) \in Seq(Octet)
         /\ Join(IF a.net # 0 THEN << 255 >> ELSE <<>>, t) = Hops(a, t)
<1>1. CASE a.net = 0
  <2>1. <<>> \in Seq(Octet)
    OBVIOUS
  <2> QED
    BY <1>1, <2>1, JoinNothing DEF Hops
<1>2. CASE a.net # 0
  <2>1. PICK x \in Octet : x = 255
    BY OctetRange
  <2>2. <<x>> \in Seq(Octet)
    OBVIOUS
  <2>3. Join(<<x>>, t) = Cons(x, t)
    BY OneCons
  <2> QED
    BY <1>2, <2>1, <2>2, <2>3 DEF Hops
<1> QED
  BY <1>1, <1>2

\* An NPDU that is written.
ControlOctet(p) == SetBit(p.network, 7) + SetBit(p.dest.net # 0, 5)
                     + SetBit(p.source.net # 0, 3) + SetBit(p.reply, 2) + p.priority
Vendor(p) == IF p.network /\ p.message >= 128 THEN BigEndian(p.vendor, 2) ELSE <<>>

LEMMA NPDUWritten ==
  ASSUME NEW p, p.priority = 0, NEW apdu, apdu.err = NoErr
  PROVE  MarshalNPDU(p, apdu)
           = Encoded(Chain(<<1, ControlOctet(p)>>,
                           MarshalAddress(p.dest), MarshalAddress(p.source),
                           IF p.dest.net # 0 THEN <<p.hopCount>> ELSE <<>>,
                           IF p.network THEN <<p.message>> ELSE <<>>,
                           Vendor(p), apdu.bytes))
<1>1. ~(p.priority > 3 \/ apdu.err # NoErr)
  OBVIOUS
<1> QED
  BY <1>1 DEF MarshalNPDU, Chain, ControlOctet, Vendor

LEMMA MarshalPlain ==
  ASSUME NEW dest \in Reachable, NEW source \in Reachable, NEW reply \in BOOLEAN,
         NEW t \in Seq(Octet), NEW apdu, apdu.err = NoErr, apdu.bytes = t,
         NEW n, n = MarshalNPDU(Plainly(dest, source, reply), apdu)
  PROVE  n.err = NoErr /\ n.bytes = NPDUOctets(dest, source, reply, t)
<1>1. PICK p : p = Plainly(dest, source, reply)
  OBVIOUS
<1>2. /\ p.network = FALSE /\ p.reply = reply /\ p.priority = 0 /\ p.dest = dest
      /\ p.source = source /\ p.hopCount = 255
  BY <1>1 DEF Plainly
<1>3. PICK c : c = Control(FALSE, dest.net # 0, source.net # 0, reply)
  OBVIOUS
<1>4. c \in Octet
  BY <1>3, ControlBits
<1>5. PICK a : a = MarshalAddress(dest)
  OBVIOUS
<1>6. PICK b : b = MarshalAddress(source)
  OBVIOUS
<1>7. PICK h : h = IF dest.net # 0 THEN << 255 >> ELSE <<>>
  OBVIOUS
<1>8. PICK e : e = <<>>
  OBVIOUS
<1>9. PICK one : one = 1
  OBVIOUS
<1>10. PICK q : q = <<one, c>>
  OBVIOUS
<1>11. e \in Seq(Octet)
  BY <1>8
<1>12. h \in Seq(Octet) /\ Join(h, t) = Hops(dest, t)
  BY <1>7, MarshalHops
<1>13. PICK ht \in Seq(Octet) : ht = Hops(dest, t)
  BY HopsFacts
<1>14. b \in Seq(Octet) /\ Join(b, ht) = Via(source, ht)
  BY <1>6, MarshalVia
<1>15. PICK bt \in Seq(Octet) : bt = Via(source, ht)
  BY ViaFacts
<1>16. a \in Seq(Octet) /\ Join(a, bt) = Via(dest, bt)
  BY <1>5, MarshalVia
<1>17. PICK at \in Seq(Octet) : at = Via(dest, bt)
  BY ViaFacts
<1>18. one \in Octet
  BY <1>9, OctetRange
<1>19. q \in Seq(Octet) /\ Join(q, at) = Cons(one, Cons(c, at))
  BY <1>4, <1>10, <1>18, PairCons
<1>20. n = Encoded(Chain(q, a, b, h, e, e, t))
  <2>1. p.priority = 0 /\ n = MarshalNPDU(p, apdu)
    BY <1>1, <1>2
  <2>2. n = Encoded(Chain(<<1, ControlOctet(p)>>,
                          MarshalAddress(p.dest), MarshalAddress(p.source),
                          IF p.dest.net # 0 THEN <<p.hopCount>> ELSE <<>>,
                          IF p.network THEN <<p.message>> ELSE <<>>,
                          Vendor(p), apdu.bytes))
    BY <2>1, NPDUWritten
  <2>3. ControlOctet(p) = c
    BY <1>2, <1>3 DEF Control, ControlOctet
  <2>4. (IF p.dest.net # 0 THEN <<p.hopCount>> ELSE <<>>) = h
    BY <1>2, <1>7
  <2>5. (IF p.network THEN <<p.message>> ELSE <<>>) = e
    BY <1>2, <1>8
  <2>6. Vendor(p) = e
    BY <1>2, <1>8 DEF Vendor
  <2>7. <<1, ControlOctet(p)>> = q
    BY <1>9, <1>10, <2>3
  <2>8. MarshalAddress(p.dest) = a /\ MarshalAddress(p.source) = b /\ apdu.bytes = t
    BY <1>2, <1>5, <1>6
  <2> QED
    BY <2>2, <2>4, <2>5, <2>6, <2>7, <2>8, Zenon
<1>21. Join(e, t) = t
  BY <1>8, JoinNothing
<1>f. t \in Seq(Octet) /\ q \in Seq(Octet) /\ a \in Seq(Octet) /\ b \in Seq(Octet)
      /\ h \in Seq(Octet) /\ e \in Seq(Octet)
  BY <1>11, <1>12, <1>14, <1>16, <1>19
<1>22. Chain(q, a, b, h, e, e, t)
         = Join(q, Join(a, Join(b, Join(h, Join(e, Join(e, t))))))
  BY <1>f, SixJoins
<1>23. Chain(q, a, b, h, e, e, t) = Cons(one, Cons(c, at))
  BY <1>12, <1>13, <1>14, <1>15, <1>16, <1>17, <1>19, <1>21, <1>22, Zenon
<1>24. NPDUOctets(dest, source, reply, t) = Cons(one, Cons(c, at))
  BY <1>3, <1>9, <1>13, <1>15, <1>17 DEF NPDUOctets
<1>25. PICK s : s = NPDUOctets(dest, source, reply, t)
  OBVIOUS
<1>26. n = Encoded(s)
  BY <1>20, <1>23, <1>24, <1>25, Zenon
<1> QED
  BY <1>25, <1>26 DEF Encoded

LEMMA NPDULength ==
  ASSUME NEW dest \in Reachable, NEW source \in Reachable, NEW reply \in BOOLEAN,
         NEW t \in Seq(Octet), NEW s, s = NPDUOctets(dest, source, reply, t)
  PROVE  s \in Seq(Octet) /\ Len(s) <= 600 + Len(t) /\ Len(s) \in Nat /\ Len(t) \in Nat
<1>1. PICK c : c = Control(FALSE, dest.net # 0, source.net # 0, reply)
  OBVIOUS
<1>2. c \in Octet
  BY <1>1, ControlBits
<1>3. PICK ht : ht = Hops(dest, t)
  OBVIOUS
<1>4. PICK bt : bt = Via(source, ht)
  OBVIOUS
<1>5. PICK at : at = Via(dest, bt)
  OBVIOUS
<1>6. PICK one : one = 1
  OBVIOUS
<1>7. PICK u : u = Cons(c, at)
  OBVIOUS
<1>8. one \in Octet
  BY <1>6, OctetRange
<1>9. ht \in Seq(Octet) /\ Len(ht) <= 1 + Len(t) /\ Len(ht) \in Nat /\ Len(t) \in Nat
  BY <1>3, HopsFacts
<1>10. bt \in Seq(Octet) /\ Len(bt) <= 258 + Len(ht) /\ Len(bt) \in Nat
  BY <1>4, <1>9, ViaFacts
<1>11. at \in Seq(Octet) /\ Len(at) <= 258 + Len(bt) /\ Len(at) \in Nat
  BY <1>5, <1>10, ViaFacts
<1>12. u \in Seq(Octet) /\ Len(u) = 1 + Len(at)
  BY <1>2, <1>7, <1>11, ConsFacts
<1>13. s = Cons(one, u)
  BY <1>1, <1>3, <1>4, <1>5, <1>6, <1>7 DEF NPDUOctets
<1>14. s \in Seq(Octet) /\ Len(s) = 1 + Len(u)
  BY <1>8, <1>12, <1>13, ConsFacts
<1> QED
  BY <1>9, <1>10, <1>11, <1>12, <1>14

----------------------------------------------------------------------------
\* The header of an NPDU, field by field: o is the version, z is zero.
LEMMA SetVersion ==
  ASSUME NEW x, NEW o, NEW d, NEW s, NEW h, NEW m, NEW n, NEW b, NEW v, NEW c,
         NEW k, k = NPDUHead(x, o, d, s, h, m, n, b)
  PROVE  SetField(k, "version", Took(v, c)) = NPDUHead(v, o, d, s, h, m, n, c)
BY SetNPDUField

LEMMA SetControl ==
  ASSUME NEW x, NEW o, NEW d, NEW s, NEW h, NEW m, NEW n, NEW b, NEW v, NEW c,
         NEW k, k = NPDUHead(x, o, d, s, h, m, n, b)
  PROVE  SetField(k, "control", Took(v, c)) = NPDUHead(x, v, d, s, h, m, n, c)
BY SetNPDUField

LEMMA SetDest ==
  ASSUME NEW x, NEW o, NEW d, NEW s, NEW h, NEW m, NEW n, NEW b, NEW v, NEW c,
         NEW k, k = NPDUHead(x, o, d, s, h, m, n, b)
  PROVE  SetField(k, "dest", Took(v, c)) = NPDUHead(x, o, v, s, h, m, n, c)
BY SetNPDUField

LEMMA SetSource ==
  ASSUME NEW x, NEW o, NEW d, NEW s, NEW h, NEW m, NEW n, NEW b, NEW v, NEW c,
         NEW k, k = NPDUHead(x, o, d, s, h, m, n, b)
  PROVE  SetField(k, "source", Took(v, c)) = NPDUHead(x, o, d, v, h, m, n, c)
BY SetNPDUField

LEMMA SetHopCount ==
  ASSUME NEW x, NEW o, NEW d, NEW s, NEW h, NEW m, NEW n, NEW b, NEW v, NEW c,
         NEW k, k = NPDUHead(x, o, d, s, h, m, n, b)
  PROVE  SetField(k, "hopCount", Took(v, c)) = NPDUHead(x, o, d, s, v, m, n, c)
BY SetNPDUField

LEMMA VersionAndControl ==
  ASSUME NEW o \in Octet, o = 1, NEW c \in Octet, NEW z, z = 0, NEW l, l = Local,
         NEW t \in Seq(Octet), NEW d, d = Cons(o, Cons(c, t))
  PROVE  \E b : /\ Left(b, t)
                /\ Field(Field(NPDUZero(d), "version", Always, ReadOctet),
                         "control", Understood, ReadOctet)
                     = NPDUHead(o, c, l, l, z, z, z, b)
<1>1. PICK u \in Seq(Octet) : u = Cons(c, t)
  BY ConsFacts
<1>2. d = Cons(o, u)
  BY <1>1
<1>3. d \in Seq(Octet)
  BY <1>2, ConsFacts
<1>4. PICK b0 : b0 = NewBuffer(d)
  OBVIOUS
<1>5. PICK b1 : b1 = Behind(b0, 1)
  OBVIOUS
<1>6. PICK b2 : b2 = Behind(b1, 1)
  OBVIOUS
<1>7. Left(b0, d)
  BY <1>3, <1>4, LeftAll
<1>8. ReadOctet(b0) = Took(o, b1) /\ Left(b1, u)
  BY <1>2, <1>5, <1>7, LeftOctet
<1>9. ReadOctet(b1) = Took(c, b2) /\ Left(b2, t)
  BY <1>1, <1>6, <1>8, LeftOctet
<1>10. PICK h0 : h0 = NPDUHead(z, z, l, l, z, z, z, b0)
  OBVIOUS
<1>11. PICK h1 : h1 = NPDUHead(o, z, l, l, z, z, z, b1)
  OBVIOUS
<1>12. h0 = NPDUZero(d)
  BY <1>4, <1>10 DEF NPDUHead, NPDUZero
<1>13. Field(h0, "version", Always, ReadOctet) = h1
  <2>1. h0.ok = TRUE /\ h0.buf = b0
    BY <1>10 DEF NPDUHead
  <2>2. Field(h0, "version", Always, ReadOctet) = SetField(h0, "version", Took(o, b1))
    BY <1>8, <2>1 DEF Field, Always
  <2>3. SetField(h0, "version", Took(o, b1)) = h1
    BY <1>10, <1>11, SetVersion
  <2> QED
    BY <2>2, <2>3, Zenon
<1>14. Field(h1, "control", Understood, ReadOctet) = NPDUHead(o, c, l, l, z, z, z, b2)
  <2>1. h1.ok = TRUE /\ h1.buf = b1 /\ h1.version = o
    BY <1>11 DEF NPDUHead
  <2>2. Understood(h1)
    BY <2>1 DEF Understood
  <2>3. Field(h1, "control", Understood, ReadOctet) = SetField(h1, "control", Took(c, b2))
    BY <1>9, <2>1, <2>2 DEF Field
  <2>4. SetField(h1, "control", Took(c, b2)) = NPDUHead(o, c, l, l, z, z, z, b2)
    BY <1>11, SetControl
  <2> QED
    BY <2>3, <2>4, Zenon
<1> QED
  BY <1>9, <1>12, <1>13, <1>14

LEMMA DestAt ==
  ASSUME NEW dest \in Reachable, NEW l, l = Local, NEW t \in Seq(Octet),
         NEW o, NEW z, NEW c, Bit(c, 5) <=> dest.net # 0,
         NEW b, Left(b, Via(dest, t)), NEW h, h = NPDUHead(o, c, l, l, z, z, z, b)
  PROVE  \E e : /\ Left(e, t)
                /\ Field(h, "dest", HasDest, UnmarshalAddress)
                     = NPDUHead(o, c, dest, l, z, z, z, e)
<1>1. h.ok = TRUE /\ h.buf = b /\ h.control = c
  BY DEF NPDUHead
<1>2. HasDest(h) <=> dest.net # 0
  BY <1>1 DEF HasDest
<1>3. CASE dest.net = 0
  <2>1. dest = l
    BY <1>3, ReachableFacts
  <2>2. Via(dest, t) = t
    BY <1>3 DEF Via
  <2>3. Field(h, "dest", HasDest, UnmarshalAddress) = h
    BY <1>2, <1>3 DEF Field
  <2> QED
    BY <2>1, <2>2, <2>3
<1>4. CASE dest.net # 0
  <2>1. \E e : UnmarshalAddress(b) = Took(dest, e) /\ Left(e, t)
    BY <1>4, AddressAt
  <2>2. PICK e : UnmarshalAddress(b) = Took(dest, e) /\ Left(e, t)
    BY <2>1
  <2>3. Field(h, "dest", HasDest, UnmarshalAddress) = SetField(h, "dest", Took(dest, e))
    BY <1>1, <1>2, <1>4, <2>2 DEF Field
  <2>4. SetField(h, "dest", Took(dest, e)) = NPDUHead(o, c, dest, l, z, z, z, e)
    BY SetDest
  <2> QED
    BY <2>2, <2>3, <2>4
<1> QED
  BY <1>3, <1>4

LEMMA SourceAt ==
  ASSUME NEW source \in Reachable, NEW l, l = Local, NEW t \in Seq(Octet), NEW dest,
         NEW o, NEW z, NEW c, Bit(c, 3) <=> source.net # 0,
         NEW b, Left(b, Via(source, t)), NEW h, h = NPDUHead(o, c, dest, l, z, z, z, b)
  PROVE  \E e : /\ Left(e, t)
                /\ Field(h, "source", HasSource, UnmarshalAddress)
                     = NPDUHead(o, c, dest, source, z, z, z, e)
<1>1. h.ok = TRUE /\ h.buf = b /\ h.control = c
  BY DEF NPDUHead
<1>2. HasSource(h) <=> source.net # 0
  BY <1>1 DEF HasSource
<1>3. CASE source.net = 0
  <2>1. source = l
    BY <1>3, ReachableFacts
  <2>2. Via(source, t) = t
    BY <1>3 DEF Via
  <2>3. Field(h, "source", HasSource, UnmarshalAddress) = h
    BY <1>2, <1>3 DEF Field
  <2> QED
    BY <2>1, <2>2, <2>3
<1>4. CASE source.net # 0
  <2>1. \E e : UnmarshalAddress(b) = Took(source, e) /\ Left(e, t)
    BY <1>4, AddressAt
  <2>2. PICK e : UnmarshalAddress(b) = Took(source, e) /\ Left(e, t)
    BY <2>1
  <2>3. Field(h, "source", HasSource, UnmarshalAddress)
          = SetField(h, "source", Took(source, e))
    BY <1>1, <1>2, <1>4, <2>2 DEF Field
  <2>4. SetField(h, "source", Took(source, e)) = NPDUHead(o, c, dest, source, z, z, z, e)
    BY SetSource
  <2> QED
    BY <2>2, <2>3, <2>4
<1> QED
  BY <1>3, <1>4

LEMMA HopsAt ==
  ASSUME NEW dest, NEW t \in Seq(Octet), NEW source,
         NEW o, NEW z, NEW c, Bit(c, 5) <=> dest.net # 0,
         NEW b, Left(b, Hops(dest, t)), NEW h, h = NPDUHead(o, c, dest, source, z, z, z, b)
  PROVE  \E e : \E n : /\ Left(e, t)
                       /\ Field(h, "hopCount", HasDest, ReadOctet)
                            = NPDUHead(o, c, dest, source, n, z, z, e)
<1>1. h.ok = TRUE /\ h.buf = b /\ h.control = c
  BY DEF NPDUHead
<1>2. HasDest(h) <=> dest.net # 0
  BY <1>1 DEF HasDest
<1>3. CASE dest.net = 0
  <2>1. Hops(dest, t) = t
    BY <1>3 DEF Hops
  <2>2. Field(h, "hopCount", HasDest, ReadOctet) = h
    BY <1>2, <1>3 DEF Field
  <2> QED
    BY <2>1, <2>2
<1>4. CASE dest.net # 0
  <2>1. PICK n : n = 255
    OBVIOUS
  <2>2. n \in Octet
    BY <2>1, OctetRange
  <2>3. PICK e : e = Behind(b, 1)
    OBVIOUS
  <2>4. Hops(dest, t) = Cons(n, t)
    BY <1>4, <2>1 DEF Hops
  <2>5. ReadOctet(b) = Took(n, e) /\ Left(e, t)
    BY <2>2, <2>3, <2>4, LeftOctet
  <2>6. Field(h, "hopCount", HasDest, ReadOctet) = SetField(h, "hopCount", Took(n, e))
    BY <1>1, <1>2, <1>4, <2>5 DEF Field
  <2>7. SetField(h, "hopCount", Took(n, e)) = NPDUHead(o, c, dest, source, n, z, z, e)
    BY SetHopCount
  <2> QED
    BY <2>5, <2>6, <2>7
<1> QED
  BY <1>3, <1>4

LEMMA NPDUHeaderAt ==
  ASSUME NEW dest \in Reachable, NEW source \in Reachable, NEW t \in Seq(Octet),
         NEW c \in Octet, ~Bit(c, 7), Bit(c, 5) <=> dest.net # 0, Bit(c, 3) <=> source.net # 0,
         NEW d, NEW o \in Octet, o = 1,
         d = Cons(o, Cons(c, Via(dest, Via(source, Hops(dest, t)))))
  PROVE  \E z : \E n : \E b : /\ Left(b, t)
                              /\ NPDUHeader(d) = NPDUHead(o, c, dest, source, n, z, z, b)
<1>1. PICK z : z = 0
  OBVIOUS
<1>2. PICK l : l = Local
  OBVIOUS
<1>3. PICK ht \in Seq(Octet) : ht = Hops(dest, t)
  BY HopsFacts
<1>4. PICK bt \in Seq(Octet) : bt = Via(source, ht)
  BY ViaFacts
<1>5. PICK at \in Seq(Octet) : at = Via(dest, bt)
  BY ViaFacts
<1>6. d = Cons(o, Cons(c, at))
  BY <1>3, <1>4, <1>5
<1>7. PICK k : k = Field(Field(NPDUZero(d), "version", Always, ReadOctet),
                         "control", Understood, ReadOctet)
  OBVIOUS
<1>8. \E b : Left(b, at) /\ k = NPDUHead(o, c, l, l, z, z, z, b)
  BY <1>1, <1>2, <1>6, <1>7, VersionAndControl
<1>9. PICK b2 : Left(b2, at) /\ k = NPDUHead(o, c, l, l, z, z, z, b2)
  BY <1>8
<1>10. PICK h3 : h3 = Field(k, "dest", HasDest, UnmarshalAddress)
  OBVIOUS
<1>11. \E b : Left(b, bt) /\ h3 = NPDUHead(o, c, dest, l, z, z, z, b)
  BY <1>2, <1>5, <1>9, <1>10, DestAt
<1>12. PICK b3 : Left(b3, bt) /\ h3 = NPDUHead(o, c, dest, l, z, z, z, b3)
  BY <1>11
<1>13. PICK h4 : h4 = Field(h3, "source", HasSource, UnmarshalAddress)
  OBVIOUS
<1>14. \E b : Left(b, ht) /\ h4 = NPDUHead(o, c, dest, source, z, z, z, b)
  BY <1>2, <1>4, <1>12, <1>13, SourceAt
<1>15. PICK b4 : Left(b4, ht) /\ h4 = NPDUHead(o, c, dest, source, z, z, z, b4)
  BY <1>14
<1>16. PICK h5 : h5 = Field(h4, "hopCount", HasDest, ReadOctet)
  OBVIOUS
<1>17. \E b : \E n : Left(b, t) /\ h5 = NPDUHead(o, c, dest, source, n, z, z, b)
  BY <1>3, <1>15, <1>16, HopsAt
<1>18. PICK b5, n : Left(b5, t) /\ h5 = NPDUHead(o, c, dest, source, n, z, z, b5)
  BY <1>17
<1>19. h5.control = c
  BY <1>18 DEF NPDUHead
<1>20. ~IsNetwork(h5)
  BY <1>19 DEF IsNetwork
<1>21. Field(h5, "message", IsNetwork, ReadOctet) = h5
  BY <1>20 DEF Field
<1>22. Field(h5, "vendor", HasVendor, ReadUint16) = h5
  BY <1>20 DEF Field, HasVendor
<1>23. NPDUHeader(d) = h5
  BY <1>7, <1>10, <1>13, <1>16, <1>21, <1>22 DEF NPDUHeader
<1> QED
  BY <1>18, <1>23

\* What is read of an NPDU with an APDU.
Carries(n, dest, source, reply, apdu) ==
  /\ n.hasAPDU = TRUE /\ n.apdu = apdu /\ n.err = apdu.err
  /\ n.dest = dest /\ n.source = source /\ n.reply = reply

LEMMA NPDUAt ==
  ASSUME NEW dest \in Reachable, NEW source \in Reachable, NEW reply \in BOOLEAN,
         NEW t \in Seq(Octet), NEW d, d = NPDUOctets(dest, source, reply, t)
  PROVE  Carries(UnmarshalNPDU(d), dest, source, reply, UnmarshalAPDU(t))
<1>1. PICK c : c = Control(FALSE, dest.net # 0, source.net # 0, reply)
  OBVIOUS
<1>2. c \in Octet /\ ~Bit(c, 7) /\ Bit(c, 2) = reply /\ (Bit(c, 5) <=> dest.net # 0)
      /\ (Bit(c, 3) <=> source.net # 0)
  BY <1>1, ControlBits, ZenonT(60)
<1>3. PICK o : o = 1
  OBVIOUS
<1>4. o \in Octet
  BY <1>3, OctetRange
<1>5. d = Cons(o, Cons(c, Via(dest, Via(source, Hops(dest, t)))))
  BY <1>1, <1>3, Zenon DEF NPDUOctets
<1>6. \E z : \E n : \E b : /\ Left(b, t)
                           /\ NPDUHeader(d) = NPDUHead(o, c, dest, source, n, z, z, b)
  BY <1>2, <1>3, <1>4, <1>5, NPDUHeaderAt
<1>7. PICK z, n, b : Left(b, t) /\ NPDUHeader(d) = NPDUHead(o, c, dest, source, n, z, z, b)
  BY <1>6
<1>8. PICK h : h = NPDUHead(o, c, dest, source, n, z, z, b)
  OBVIOUS
<1>9. /\ h.version = o /\ h.control = c /\ h.dest = dest /\ h.source = source
      /\ h.ok = TRUE /\ h.buf = b
  BY <1>8 DEF NPDUHead
<1>10. ~IsNetwork(h)
  BY <1>2, <1>9 DEF IsNetwork
<1>11. Understood(h)
  BY <1>3, <1>9 DEF Understood
<1>12. Rest(b) = t
  BY <1>7, LeftRest
<1>13. PICK apdu : apdu = UnmarshalAPDU(t)
  OBVIOUS
<1>14. NPDUOf(h) = NPDUHolding(h, apdu)
  BY <1>9, <1>10, <1>11, <1>12, <1>13 DEF NPDUOf
<1>15. PICK m : m = NPDUHolding(h, apdu)
  OBVIOUS
<1>16. m.hasAPDU = TRUE /\ m.apdu = apdu /\ m.err = apdu.err
  BY <1>15 DEF NPDUHolding, NPDUWith
<1>17. m.dest = dest /\ m.source = source
  BY <1>9, <1>15 DEF NPDUHolding, NPDUWith
<1>18. m.reply = reply
  <2>1. m.reply = Bit(h.control, 2)
    BY <1>15 DEF NPDUHolding, NPDUWith
  <2> QED
    BY <1>2, <1>9, <2>1
<1>19. UnmarshalNPDU(d) = m
  BY <1>7, <1>8, <1>14, <1>15, Zenon DEF UnmarshalNPDU
<1> QED
  BY <1>13, <1>16, <1>17, <1>18, <1>19 DEF Carries

----------------------------------------------------------------------------
\* Network layer messages: whatever is read behind the control octet, there
\* is no APDU.
LEMMA SetKeepsControl ==
  ASSUME NEW h, HasFields(h, NPDUFields), NEW r
  PROVE  /\ HasFields(SetField(h, "dest", r), NPDUFields)
         /\ SetField(h, "dest", r).control = h.control
         /\ HasFields(SetField(h, "source", r), NPDUFields)
         /\ SetField(h, "source", r).control = h.control
         /\ HasFields(SetField(h, "hopCount", r), NPDUFields)
         /\ SetField(h, "hopCount", r).control = h.control
         /\ HasFields(SetField(h, "message", r), NPDUFields)
         /\ SetField(h, "message", r).control = h.control
         /\ HasFields(SetField(h, "vendor", r), NPDUFields)
         /\ SetField(h, "vendor", r).control = h.control
<1>1. /\ HasFields(SetField(h, "dest", r), NPDUFields)
      /\ SetField(h, "dest", r).control = h.control
  BY DEF SetField, HasFields, NPDUFields
<1>2. /\ HasFields(SetField(h, "source", r), NPDUFields)
      /\ SetField(h, "source", r).control = h.control
  BY DEF SetField, HasFields, NPDUFields
<1>3. /\ HasFields(SetField(h, "hopCount", r), NPDUFields)
      /\ SetField(h, "hopCount", r).control = h.control
  BY DEF SetField, HasFields, NPDUFields
<1>4. /\ HasFields(SetField(h, "message", r), NPDUFields)
      /\ SetField(h, "message", r).control = h.control
  BY DEF SetField, HasFields, NPDUFields
<1>5. /\ HasFields(SetField(h, "vendor", r), NPDUFields)
      /\ SetField(h, "vendor", r).control = h.control
  BY DEF SetField, HasFields, NPDUFields
<1> QED
  BY <1>1, <1>2, <1>3, <1>4, <1>5

LEMMA MessageAt ==
  ASSUME NEW o \in Octet, o = 1, NEW c \in Octet, Bit(c, 7), NEW t \in Seq(Octet),
         NEW d, d = Cons(o, Cons(c, t))
  PROVE  ~UnmarshalNPDU(d).hasAPDU
<1>1. PICK z : z = 0
  OBVIOUS
<1>2. PICK l : l = Local
  OBVIOUS
<1>3. PICK k : k = Field(Field(NPDUZero(d), "version", Always, ReadOctet),
                         "control", Understood, ReadOctet)
  OBVIOUS
<1>4. \E b : Left(b, t) /\ k = NPDUHead(o, c, l, l, z, z, z, b)
  BY <1>1, <1>2, <1>3, VersionAndControl
<1>5. PICK b : Left(b, t) /\ k = NPDUHead(o, c, l, l, z, z, z, b)
  BY <1>4
<1>6. HasFields(k, NPDUFields) /\ k.control = c
  BY <1>5 DEF HasFields, NPDUFields, NPDUHead
<1>7. PICK h1 : h1 = Field(k, "dest", HasDest, UnmarshalAddress)
  OBVIOUS
<1>8. PICK h2 : h2 = Field(h1, "source", HasSource, UnmarshalAddress)
  OBVIOUS
<1>9. PICK h3 : h3 = Field(h2, "hopCount", HasDest, ReadOctet)
  OBVIOUS
<1>10. PICK h4 : h4 = Field(h3, "message", IsNetwork, ReadOctet)
  OBVIOUS
<1>11. PICK h5 : h5 = Field(h4, "vendor", HasVendor, ReadUint16)
  OBVIOUS
<1>12. h1 = k \/ h1 = SetField(k, "dest", UnmarshalAddress(k.buf))
  BY <1>7 DEF Field
<1>13. HasFields(h1, NPDUFields) /\ h1.control = c
  BY <1>6, <1>12, SetKeepsControl
<1>14. h2 = h1 \/ h2 = SetField(h1, "source", UnmarshalAddress(h1.buf))
  BY <1>8 DEF Field
<1>15. HasFields(h2, NPDUFields) /\ h2.control = c
  BY <1>13, <1>14, SetKeepsControl
<1>16. h3 = h2 \/ h3 = SetField(h2, "hopCount", ReadOctet(h2.buf))
  BY <1>9 DEF Field
<1>17. HasFields(h3, NPDUFields) /\ h3.control = c
  BY <1>15, <1>16, SetKeepsControl
<1>18. h4 = h3 \/ h4 = SetField(h3, "message", ReadOctet(h3.buf))
  BY <1>10 DEF Field
<1>19. HasFields(h4, NPDUFields) /\ h4.control = c
  BY <1>17, <1>18, SetKeepsControl
<1>20. h5 = h4 \/ h5 = SetField(h4, "vendor", ReadUint16(h4.buf))
  BY <1>11 DEF Field
<1>21. h5.control = c
  BY <1>19, <1>20, SetKeepsControl
<1>22. IsNetwork(h5)
  BY <1>21 DEF IsNetwork
<1>23. NPDUHeader(d) = h5
  BY <1>3, <1>7, <1>8, <1>9, <1>10, <1>11 DEF NPDUHeader
<1>24. NPDUOf(h5) = NPDUWith(h5, Failed, FALSE, NoAPDU)
       \/ NPDUOf(h5) = NPDUWith(h5, NoErr, FALSE, NoAPDU)
  BY <1>22 DEF NPDUOf
<1>25. ~NPDUOf(h5).hasAPDU
  BY <1>24 DEF NPDUWith
<1> QED
  BY <1>23, <1>25 DEF UnmarshalNPDU

LEMMA MarshalMessage ==
  ASSUME NEW p, p.network, p.reply \in BOOLEAN, p.priority = 0, p.dest = Local,
         p.source \in Reachable, p.message \in Octet, p.vendor \in Nat,
         NEW t \in Seq(Octet), NEW apdu, apdu.err = NoErr, apdu.bytes = t,
         NEW n, n = MarshalNPDU(p, apdu)
  PROVE  /\ n.err = NoErr /\ n.bytes \in Seq(Octet) /\ Len(n.bytes) <= 600 + Len(t)
         /\ Len(n.bytes) \in Nat /\ Len(t) \in Nat
         /\ ~UnmarshalNPDU(n.bytes).hasAPDU
<1>1. PICK o : o = 1
  OBVIOUS
<1>2. o \in Octet
  BY <1>1, OctetRange
<1>3. PICK S \in BOOLEAN : S <=> p.source.net # 0
  OBVIOUS
<1>4. PICK c : c = Control(TRUE, FALSE, S, p.reply)
  OBVIOUS
<1>5. c \in Octet /\ Bit(c, 7)
  <2>1. Bit(c, 7) = TRUE /\ c \in Octet
    BY <1>4, ControlBits, ZenonT(40)
  <2> QED
    BY <2>1
<1>6. p.dest.net = 0
  BY DEF Local
<1>7. ControlOctet(p) = c
  <2>1. (p.source.net # 0) = S
    BY <1>3
  <2>2. (p.dest.net # 0) = FALSE
    BY <1>6
  <2> QED
    BY <1>4, <2>1, <2>2 DEF ControlOctet, Control
<1>8. PICK q : q = <<o, c>>
  OBVIOUS
<1>9. PICK e : e = <<>>
  OBVIOUS
<1>10. PICK a : a = MarshalAddress(p.source)
  OBVIOUS
<1>11. PICK m : m = <<p.message>>
  OBVIOUS
<1>12. PICK v : v = Vendor(p)
  OBVIOUS
<1>13. e \in Seq(Octet) /\ Len(e) = 0
  BY <1>9
<1>14. m \in Seq(Octet) /\ Len(m) = 1
  BY <1>11
<1>15. v \in Seq(Octet) /\ Len(v) <= 2 /\ Len(v) \in Nat
  <2>1. v = e \/ v = BigEndian(p.vendor, 2)
    BY <1>9, <1>12 DEF Vendor
  <2>2. CASE v = e
    BY <1>13, <2>2
  <2>3. CASE v = BigEndian(p.vendor, 2)
    <3>1. PICK w \in Nat : w = p.vendor
      OBVIOUS
    <3>2. v = BigEndian(w, 2)
      BY <2>3, <3>1
    <3>3. v \in Seq(Octet) /\ Len(v) = 2
      BY <3>2, WordOctets
    <3> QED
      BY <3>3
  <2> QED
    BY <2>1, <2>2, <2>3
<1>16. PICK vt : vt = Join(v, t)
  OBVIOUS
<1>17. vt \in Seq(Octet) /\ Len(vt) = Len(v) + Len(t) /\ Len(t) \in Nat
  BY <1>15, <1>16, JoinFacts
<1>18. PICK mt : mt = Join(m, vt)
  OBVIOUS
<1>19. mt \in Seq(Octet) /\ Len(mt) = Len(m) + Len(vt)
  BY <1>14, <1>17, <1>18, JoinFacts
<1>20. Join(e, mt) = mt
  BY <1>9, <1>19, JoinNothing
<1>21. PICK at : at = Via(p.source, mt)
  OBVIOUS
<1>22. at \in Seq(Octet) /\ Len(at) <= 258 + Len(mt) /\ Len(at) \in Nat
  BY <1>19, <1>21, ViaFacts
<1>23. a \in Seq(Octet) /\ Join(a, mt) = at
  BY <1>10, <1>19, <1>21, MarshalVia
<1>24. Join(e, at) = at
  BY <1>9, <1>22, JoinNothing
<1>25. q \in Seq(Octet) /\ Join(q, at) = Cons(o, Cons(c, at))
  BY <1>2, <1>5, <1>8, <1>22, PairCons
<1>26. n = Encoded(Chain(q, e, a, e, m, v, t))
  <2>1. MarshalNPDU(p, apdu)
          = Encoded(Chain(<<1, ControlOctet(p)>>,
                           MarshalAddress(p.dest), MarshalAddress(p.source),
                           IF p.dest.net # 0 THEN <<p.hopCount>> ELSE <<>>,
                           IF p.network THEN <<p.message>> ELSE <<>>,
                           Vendor(p), apdu.bytes))
    BY NPDUWritten
  <2>2. MarshalAddress(p.dest) = e
    BY <1>6, <1>9 DEF MarshalAddress
  <2>3. (IF p.dest.net # 0 THEN <<p.hopCount>> ELSE <<>>) = e
    BY <1>6, <1>9
  <2>4. (IF p.network THEN <<p.message>> ELSE <<>>) = m
    BY <1>11
  <2>5. <<1, ControlOctet(p)>> = q
    BY <1>1, <1>7, <1>8
  <2> QED
    BY <1>10, <1>12, <2>1, <2>2, <2>3, <2>4, <2>5, Zenon
<1>27. t \in Seq(Octet) /\ q \in Seq(Octet) /\ e \in Seq(Octet) /\ a \in Seq(Octet)
       /\ m \in Seq(Octet) /\ v \in Seq(Octet)
  BY <1>13, <1>14, <1>15, <1>23, <1>25
<1>28. Chain(q, e, a, e, m, v, t)
         = Join(q, Join(e, Join(a, Join(e, Join(m, Join(v, t))))))
  BY <1>27, SixJoins
<1>29. PICK s : s = Cons(o, Cons(c, at))
  OBVIOUS
<1>30. Chain(q, e, a, e, m, v, t) = s
  BY <1>16, <1>18, <1>20, <1>23, <1>24, <1>25, <1>28, <1>29, Zenon
<1>31. n = Encoded(s)
  BY <1>26, <1>30, Zenon
<1>32. n.err = NoErr /\ n.bytes = s
  BY <1>31 DEF Encoded
<1>33. ~UnmarshalNPDU(s).hasAPDU
  BY <1>1, <1>2, <1>5, <1>22, <1>29, MessageAt
<1>34. PICK u : u = Cons(c, at)
  OBVIOUS
<1>35. u \in Seq(Octet) /\ Len(u) = 1 + Len(at)
  BY <1>5, <1>22, <1>34, ConsFacts
<1>36. s = Cons(o, u)
  BY <1>29, <1>34
<1>37. s \in Seq(Octet) /\ Len(s) = 1 + Len(u)
  BY <1>2, <1>35, <1>36, ConsFacts
<1>38. Len(s) <= 600 + Len(t) /\ Len(s) \in Nat /\ Len(t) \in Nat
  BY <1>14, <1>15, <1>17, <1>19, <1>22, <1>35, <1>37
<1> QED
  BY <1>32, <1>33, <1>37, <1>38

----------------------------------------------------------------------------
\* APDUs as they are written, and what is read of them.
LEMMA SingleOctet ==
  ASSUME NEW x \in Octet
  PROVE  <<x>> \in Seq(Octet) /\ Len(<<x>>) = 1
OBVIOUS

LEMMA UnconfirmedAPDU ==
  ASSUME NEW s \in Octet, NEW payload, payload.err = NoErr,
         NEW t \in Seq(Octet), payload.bytes = t,
         NEW n, n = MarshalAPDU([type |-> UnconfirmedServiceRequest, service |-> s], payload)
  PROVE  /\ n.err = NoErr /\ n.bytes \in Seq(Octet) /\ Len(n.bytes) = 2 + Len(t)
         /\ Len(t) \in Nat
         /\ APDUIs(UnmarshalAPDU(n.bytes), UnconfirmedServiceRequest, 0, s, t)
<1>1. PICK x : x = UnconfirmedServiceRequest
  OBVIOUS
<1>2. x \in Octet
  BY <1>1, OctetRange DEF UnconfirmedServiceRequest
<1>3. x \notin Answers /\ x # ConfirmedServiceRequest
  BY <1>1 DEF UnconfirmedServiceRequest, Answers, SimpleAck, ComplexAck, ErrorPDU,
              ConfirmedServiceRequest
<1>4. PICK e : e = <<>>
  OBVIOUS
<1>5. PICK a : a = <<x>>
  OBVIOUS
<1>6. PICK b : b = <<s>>
  OBVIOUS
<1>7. e \in Seq(Octet) /\ a \in Seq(Octet) /\ b \in Seq(Octet)
  BY <1>2, <1>4, <1>5, <1>6, SingleOctet
<1>8. PICK k : k = [type |-> x, service |-> s]
  OBVIOUS
<1>9. k.type = x /\ k.service = s
  BY <1>8
<1>10. n = MarshalAPDU(k, payload)
  BY <1>1, <1>8
<1>11. MarshalAPDU(k, payload)
         = Encoded(<<k.type>> \o (IF k.type = ConfirmedServiceRequest
                                  THEN <<5, k.invokeID>> ELSE <<>>)
                   \o <<k.service>> \o payload.bytes)
  BY DEF MarshalAPDU
<1>12. (IF k.type = ConfirmedServiceRequest THEN <<5, k.invokeID>> ELSE <<>>) = e
  BY <1>3, <1>4, <1>9
<1>13. n = Encoded(Join(Join(Join(a, e), b), t))
  BY <1>5, <1>6, <1>9, <1>10, <1>11, <1>12, Zenon DEF Join
<1>14. PICK u : u = Cons(s, t)
  OBVIOUS
<1>15. u \in Seq(Octet) /\ Len(u) = 1 + Len(t) /\ Len(t) \in Nat
  BY <1>14, ConsFacts
<1>16. PICK d : d = Cons(x, u)
  OBVIOUS
<1>17. d \in Seq(Octet) /\ Len(d) = 1 + Len(u)
  BY <1>2, <1>15, <1>16, ConsFacts
<1>18. Join(a, e) = a
  BY <1>4, <1>7, ConcatEmptySeq DEF Join
<1>19. Join(Join(a, b), t) = Join(a, Join(b, t))
  BY <1>7, JoinTwice
<1>20. Join(b, t) = u
  BY <1>6, <1>14, OneCons
<1>21. Join(a, u) = d
  BY <1>2, <1>5, <1>15, <1>16, OneCons
<1>22. n = Encoded(d)
  BY <1>13, <1>18, <1>19, <1>20, <1>21
<1>23. n.err = NoErr /\ n.bytes = d
  BY <1>22 DEF Encoded
<1>24. \E c : Left(c, t) /\ APDUHeader(d) = APDUHead(x, 0, s, c)
  BY <1>2, <1>3, <1>14, <1>16, RequestHeaderAt
<1>25. APDUIs(UnmarshalAPDU(d), x, 0, s, t)
  BY <1>24, APDUAt
<1> QED
  BY <1>1, <1>15, <1>17, <1>23, <1>25

\* The octets of a confirmed request behind its type and flags are taken for
\* data, whatever they are.
LEMMA DataPayload ==
  ASSUME NEW apdu, NEW x, NEW i, NEW y, NEW t, APDUIs(apdu, x, i, y, t),
         PayloadKind(x, y) = "DataPayload"
  PROVE  apdu.kind = "DataPayload" /\ apdu.payload.bytes = t /\ apdu.err = NoErr
<1>1. PICK data : data = UnmarshalPayload("DataPayload", t)
  OBVIOUS
<1>2. data.bytes = t /\ data.err = NoErr
  BY <1>1 DEF UnmarshalPayload
<1> QED
  BY <1>1, <1>2 DEF APDUIs

LEMMA ConfirmedAPDU ==
  ASSUME NEW s \in Octet, NEW i \in Octet, NEW payload, payload.err = NoErr,
         NEW t \in Seq(Octet), payload.bytes = t,
         NEW n, n = MarshalAPDU([type |-> ConfirmedServiceRequest, service |-> s,
                                 invokeID |-> i], payload)
  PROVE  /\ n.err = NoErr /\ n.bytes \in Seq(Octet) /\ Len(n.bytes) = 4 + Len(t)
         /\ Len(t) \in Nat
         /\ UnmarshalAPDU(n.bytes).payload.bytes = Cons(i, Cons(s, t))
<1>1. PICK x : x = ConfirmedServiceRequest
  OBVIOUS
<1>2. x \in Octet
  BY <1>1, OctetRange DEF ConfirmedServiceRequest
<1>3. x \notin Answers
  BY <1>1 DEF ConfirmedServiceRequest, Answers, SimpleAck, ComplexAck, ErrorPDU
<1>4. PICK f : f = 5
  OBVIOUS
<1>a. f \in Octet
  BY <1>4, OctetRange
<1>5. PICK a : a = <<x>>
  OBVIOUS
<1>6. PICK b : b = <<s>>
  OBVIOUS
<1>7. PICK e : e = <<f, i>>
  OBVIOUS
<1>b. e \in Seq(Octet)
  BY <1>7, <1>a, PairCons, EmptySeq
<1>8. a \in Seq(Octet) /\ b \in Seq(Octet)
  BY <1>2, <1>5, <1>6, SingleOctet
<1>9. PICK k : k = [type |-> x, service |-> s, invokeID |-> i]
  OBVIOUS
<1>10. k.type = x /\ k.service = s /\ k.invokeID = i
  BY <1>9
<1>11. n = MarshalAPDU(k, payload)
  BY <1>1, <1>9
<1>12. MarshalAPDU(k, payload)
         = Encoded(<<k.type>> \o (IF k.type = ConfirmedServiceRequest
                                  THEN <<5, k.invokeID>> ELSE <<>>)
                   \o <<k.service>> \o payload.bytes)
  BY DEF MarshalAPDU
<1>13. (IF k.type = ConfirmedServiceRequest THEN <<5, k.invokeID>> ELSE <<>>) = e
  BY <1>1, <1>4, <1>7, <1>10
<1>14. n = Encoded(Join(Join(Join(a, e), b), t))
  BY <1>5, <1>6, <1>10, <1>11, <1>12, <1>13, Zenon DEF Join
<1>15. PICK u \in Seq(Octet) : u = Cons(s, t)
  BY ConsFacts
<1>16. PICK v \in Seq(Octet) : v = Cons(i, u)
  BY ConsFacts
<1>17. PICK w \in Seq(Octet) : w = Cons(f, v)
  BY <1>a, ConsFacts
<1>18. PICK d : d = Cons(x, w)
  OBVIOUS
<1>19. Len(u) = 1 + Len(t) /\ Len(t) \in Nat
  BY <1>15, ConsFacts
<1>20. Len(v) = 1 + Len(u)
  BY <1>16, ConsFacts
<1>21. Len(w) = 1 + Len(v)
  BY <1>a, <1>17, ConsFacts
<1>22. d \in Seq(Octet) /\ Len(d) = 1 + Len(w)
  BY <1>2, <1>18, ConsFacts
<1>23. PICK ae \in Seq(Octet) : ae = Join(a, e)
  BY <1>b, <1>8, JoinFacts
<1>24. Join(Join(ae, b), t) = Join(ae, Join(b, t))
  BY <1>8, JoinTwice
<1>25. Join(b, t) = u
  BY <1>6, <1>15, OneCons
<1>26. Join(Join(a, e), u) = Join(a, Join(e, u))
  BY <1>8, <1>b, JoinTwice
<1>27. Join(e, u) = w
  BY <1>7, <1>a, <1>16, <1>17, PairCons
<1>28. Join(a, w) = d
  BY <1>2, <1>5, <1>18, OneCons
<1>29. n = Encoded(d)
  BY <1>14, <1>23, <1>24, <1>25, <1>26, <1>27, <1>28
<1>30. n.err = NoErr /\ n.bytes = d
  BY <1>29 DEF Encoded
<1>31. \E c : Left(c, v) /\ APDUHeader(d) = APDUHead(x, 0, f, c)
  BY <1>2, <1>3, <1>a, <1>17, <1>18, RequestHeaderAt
<1>32. APDUIs(UnmarshalAPDU(d), x, 0, f, v)
  BY <1>31, APDUAt
<1>33. PayloadKind(x, f) = "DataPayload"
  BY <1>1 DEF PayloadKind, ConfirmedServiceRequest, UnconfirmedServiceRequest,
              ComplexAck, ErrorPDU
<1>34. UnmarshalAPDU(d).payload.bytes = v
  BY <1>32, <1>33, DataPayload
<1> QED
  BY <1>15, <1>16, <1>19, <1>20, <1>21, <1>22, <1>30, <1>34

LEMMA AnswersAreOctets ==
  ASSUME NEW x \in Answers
  PROVE  x \in Octet
BY OctetRange DEF Answers, SimpleAck, ComplexAck, ErrorPDU

LEMMA ThreeOctets ==
  ASSUME NEW x \in Octet, NEW i \in Octet, NEW y \in Octet
  PROVE  Join(<<x>>, <<i, y>>) = <<x, i, y>> /\ <<i, y>> \in Seq(Octet)
<1>1. PICK s : s = Join(<<x>>, <<i, y>>)
  OBVIOUS
<1>2. PICK t : t = <<x, i, y>>
  OBVIOUS
<1>3. /\ <<x>> \in Seq(Octet) /\ Len(<<x>>) = 1
      /\ <<i, y>> \in Seq(Octet) /\ Len(<<i, y>>) = 2
  OBVIOUS
<1>4. s \in Seq(Octet) /\ Len(s) = 3 /\ s[1] = x /\ s[2] = i /\ s[3] = y
  BY <1>1, <1>3, ConcatProperties DEF Join
<1>5. t \in Seq(Octet) /\ Len(t) = 3 /\ t[1] = x /\ t[2] = i /\ t[3] = y
  BY <1>2
<1>6. s = t
  BY <1>4, <1>5, SeqEqual
<1> QED
  BY <1>1, <1>2, <1>3, <1>6, Zenon

LEMMA AnswerAPDU ==
  ASSUME NEW x \in Answers, NEW i \in Octet, NEW y \in Octet, NEW t \in Seq(Octet),
         NEW p, p = <<x, i, y>>, NEW d, d = Join(p, t)
  PROVE  /\ d \in Seq(Octet) /\ Len(d) = 3 + Len(t) /\ Len(t) \in Nat
         /\ APDUIs(UnmarshalAPDU(d), x, i, y, t)
<1>1. x \in Octet
  BY AnswersAreOctets
<1>2. PICK u \in Seq(Octet) : u = Cons(y, t)
  BY ConsFacts
<1>3. PICK v \in Seq(Octet) : v = Cons(i, u)
  BY ConsFacts
<1>4. PICK w \in Seq(Octet) : w = Cons(x, v)
  BY <1>1, ConsFacts
<1>5. Len(u) = 1 + Len(t) /\ Len(t) \in Nat
  BY <1>2, ConsFacts
<1>6. Len(v) = 1 + Len(u)
  BY <1>3, ConsFacts
<1>7. Len(w) = 1 + Len(v)
  BY <1>1, <1>4, ConsFacts
<1>8. PICK a : a = <<x>>
  OBVIOUS
<1>9. PICK b : b = <<i, y>>
  OBVIOUS
<1>10. a \in Seq(Octet) /\ b \in Seq(Octet)
  BY <1>1, <1>8, <1>9, SingleOctet, PairCons, EmptySeq
<1>11. Join(a, b) = p
  BY <1>1, <1>8, <1>9, ThreeOctets
<1>12. Join(Join(a, b), t) = Join(a, Join(b, t))
  BY <1>10, JoinTwice
<1>13. Join(b, t) = v
  BY <1>2, <1>3, <1>9, PairCons
<1>14. Join(a, v) = w
  BY <1>1, <1>4, <1>8, OneCons
<1>15. d = w
  BY <1>11, <1>12, <1>13, <1>14, Zenon
<1>16. w = Cons(x, Cons(i, Cons(y, t)))
  BY <1>2, <1>3, <1>4
<1>17. \E c : Left(c, t) /\ APDUHeader(d) = APDUHead(x, i, y, c)
  BY <1>15, <1>16, AnswerHeaderAt
<1>18. APDUIs(UnmarshalAPDU(d), x, i, y, t)
  BY <1>17, APDUAt
<1> QED
  BY <1>5, <1>6, <1>7, <1>15, <1>18

----------------------------------------------------------------------------
(***************************************************************************)
(* Tagged values in a row.                                                 *)
(***************************************************************************)
LEMMA FlagThenOctets ==
  ASSUME NEW x \in Octet, NEW w \in Seq(Octet), NEW s, s = <<x>> \o w
  PROVE  s \in Seq(Octet) /\ Len(s) = 1 + Len(w)
<1>1. s = Cons(x, w)
  BY Zenon DEF Cons
<1> QED
  BY <1>1, ConsFacts

LEMMA LengthOctetsShort ==
  ASSUME NEW v \in Nat
  PROVE  LengthOctets(v) \in Seq(Octet) /\ Len(LengthOctets(v)) <= 5
         /\ Len(LengthOctets(v)) \in Nat
<1>1. PICK w : w = BigEndian(v, 2)
  OBVIOUS
<1>2. PICK q : q = BigEndian(v, 4)
  OBVIOUS
<1>3. w \in Seq(Octet) /\ Len(w) = 2 /\ q \in Seq(Octet) /\ Len(q) = 4
  BY <1>1, <1>2, BigEndianType
<1>4. PICK l : l = LengthOctets(v)
  OBVIOUS
<1>5. l \in Seq(Octet) /\ Len(l) \in Nat
  BY <1>4, LengthOctetsType
<1>6. CASE v <= 4
  <2>1. l = <<>>
    BY <1>4, <1>6 DEF LengthOctets
  <2>2. Len(l) = 0
    BY <2>1, EmptySeq
  <2> QED
    BY <1>4, <1>5, <2>2
<1>7. CASE ~(v <= 4) /\ v < 254
  <2>1. v \in Octet
    BY <1>7, OctetRange
  <2>2. l = <<v>>
    BY <1>4, <1>7 DEF LengthOctets, Flag16
  <2>3. Len(l) = 1
    BY <2>1, <2>2, SingleOctet
  <2> QED
    BY <1>4, <1>5, <2>3
<1>8. CASE ~(v < 254)
  <2>1. PICK x : x = 254
    OBVIOUS
  <2>2. PICK y : y = 255
    OBVIOUS
  <2>3. x \in Octet /\ y \in Octet
    BY <2>1, <2>2, OctetRange
  <2>4. l = <<x>> \o w \/ l = <<y>> \o q
    BY <1>1, <1>2, <1>4, <1>8, <2>1, <2>2 DEF LengthOctets, Flag16, Flag32
  <2>5. CASE l = <<x>> \o w
    <3>1. Len(l) = 1 + Len(w)
      BY <1>3, <2>3, <2>5, FlagThenOctets
    <3> QED
      BY <1>3, <1>4, <1>5, <3>1
  <2>6. CASE l = <<y>> \o q
    <3>1. Len(l) = 1 + Len(q)
      BY <1>3, <2>3, <2>6, FlagThenOctets
    <3> QED
      BY <1>3, <1>4, <1>5, <3>1
  <2> QED
    BY <2>4, <2>5, <2>6
<1> QED
  BY <1>6, <1>7, <1>8

LEMMA SumOfLengths ==
  ASSUME NEW n, NEW k, NEW m \in Nat, n = k + m, k = 1 \/ k = 2, m <= 5
  PROVE  n <= 7 /\ n \in Nat /\ n >= 1
OBVIOUS

LEMMA TagShort ==
  ASSUME NEW t \in Tags, NEW e, e = EncodeTag(t)
  PROVE  e \in Seq(Octet) /\ Len(e) <= 7 /\ Len(e) \in Nat /\ Len(e) >= 1
<1>1. t.value \in Nat
  BY TagFacts
<1>2. PICK l : l = LengthOctets(t.value)
  OBVIOUS
<1>3. PICK i : i = IDOctets(t)
  OBVIOUS
<1>4. Len(i) = 1 \/ Len(i) = 2
  BY <1>3, IDOctetsType
<1>5. Len(l) <= 5 /\ Len(l) \in Nat
  BY <1>1, <1>2, LengthOctetsShort
<1>6. e \in Seq(Octet)
  BY TagType
<1>7. Len(e) = Len(i) + Len(l)
  BY <1>2, <1>3, TagType
<1>8. PICK n : n = Len(e)
  OBVIOUS
<1>9. n <= 7 /\ n \in Nat /\ n >= 1
  <2>1. n = Len(i) + Len(l)
    BY <1>7, <1>8
  <2> QED
    BY <1>4, <1>5, <2>1, SumOfLengths
<1> QED
  BY <1>6, <1>8, <1>9

\* The octets s behind a tag; numbers and object IDs, contextual and not.
Tagged(t, s)  == Join(EncodeTag(t), s)
Number(id, v) == Tagged(ContextTag(id, ValueLength(v)), Unsigned(v))
Named(id, o)  == Tagged(ContextTag(id, ObjectIDLength), ObjectOctets(o))
App(id, v, s) == Tagged(AppTag(id, v), s)

LEMMA TaggedFacts ==
  ASSUME NEW t \in Tags, NEW s \in Seq(Octet)
  PROVE  /\ Tagged(t, s) \in Seq(Octet) /\ Len(Tagged(t, s)) <= 7 + Len(s)
         /\ Len(Tagged(t, s)) \in Nat /\ Len(Tagged(t, s)) >= 1 /\ Len(s) \in Nat
<1>1. PICK e : e = EncodeTag(t)
  OBVIOUS
<1>2. e \in Seq(Octet) /\ Len(e) <= 7 /\ Len(e) \in Nat /\ Len(e) >= 1
  BY <1>1, TagShort
<1>3. Join(e, s) \in Seq(Octet) /\ Len(Join(e, s)) = Len(e) + Len(s) /\ Len(s) \in Nat
  BY <1>2, JoinFacts
<1>4. Tagged(t, s) = Join(e, s)
  BY <1>1 DEF Tagged
<1> QED
  BY <1>2, <1>3, <1>4

LEMMA NumberFacts ==
  ASSUME NEW id \in Octet, NEW v \in Uint32
  PROVE  /\ Number(id, v) \in Seq(Octet) /\ Len(Number(id, v)) <= 11
         /\ Len(Number(id, v)) \in Nat /\ Len(Number(id, v)) >= 1
<1>1. Unsigned(v) \in Seq(Octet) /\ Len(Unsigned(v)) = ValueLength(v)
  BY UnsignedType
<1>2. ValueLength(v) \in 1..4 /\ ValueLength(v) \in Uint32
  BY LengthOfValue
<1>3. ContextTag(id, ValueLength(v)) \in Tags
  BY <1>2, TagsBuilt
<1>4. PICK n : n = Number(id, v)
  OBVIOUS
<1>5. n \in Seq(Octet) /\ Len(n) <= 7 + Len(Unsigned(v)) /\ Len(n) \in Nat /\ Len(n) >= 1
  BY <1>1, <1>3, <1>4, TaggedFacts DEF Number
<1> QED
  BY <1>1, <1>2, <1>4, <1>5

LEMMA NamedFacts ==
  ASSUME NEW id \in Octet, NEW o, ValidObject(o)
  PROVE  /\ Named(id, o) \in Seq(Octet) /\ Len(Named(id, o)) <= 11
         /\ Len(Named(id, o)) \in Nat
<1>1. ObjectOctets(o) \in Seq(Octet) /\ Len(ObjectOctets(o)) = 4
  BY ObjectOctetsType
<1>2. ContextTag(id, ObjectIDLength) \in Tags
  BY FourOctets, TagsBuilt
<1>3. PICK n : n = Named(id, o)
  OBVIOUS
<1>4. n \in Seq(Octet) /\ Len(n) <= 7 + Len(ObjectOctets(o)) /\ Len(n) \in Nat
  BY <1>1, <1>2, <1>3, TaggedFacts DEF Named
<1> QED
  BY <1>1, <1>3, <1>4

LEMMA AppFacts ==
  ASSUME NEW id \in Octet, NEW v \in Uint32, NEW s \in Seq(Octet)
  PROVE  /\ App(id, v, s) \in Seq(Octet) /\ Len(App(id, v, s)) <= 7 + Len(s)
         /\ Len(App(id, v, s)) \in Nat /\ Len(s) \in Nat
<1>1. AppTag(id, v) \in Tags
  BY TagsBuilt
<1> QED
  BY <1>1, TaggedFacts DEF App

LEMMA LeftJoin ==
  ASSUME NEW b, NEW s \in Seq(Octet), NEW t \in Seq(Octet), Left(b, Join(s, t)),
         NEW c, c = Behind(b, Len(s))
  PROVE  At(b, s) /\ Left(c, t)
<1>1. Left(b, s \o t)
  BY Zenon DEF Join
<1> QED
  BY <1>1, LeftConcat

\* The next tag.
TagNext(b, t) == At(b, EncodeTag(t)) /\ DecodeTag(b).ok = TRUE /\ DecodeTag(b).tag = t

LEMMA TaggedNext ==
  ASSUME NEW b, NEW t \in Tags, NEW s \in Seq(Octet), NEW u \in Seq(Octet),
         NEW n, n = Tagged(t, s), Left(b, Join(n, u))
  PROVE  TagNext(b, t)
<1>1. PICK e \in Seq(Octet) : e = EncodeTag(t)
  BY TagShort
<1>2. Join(s, u) \in Seq(Octet)
  BY JoinFacts
<1>3. n = Join(e, s)
  BY <1>1 DEF Tagged
<1>4. Join(Join(e, s), u) = Join(e, Join(s, u))
  BY JoinTwice
<1>5. Left(b, Join(e, Join(s, u)))
  BY <1>3, <1>4
<1>6. At(b, e)
  BY <1>2, <1>5, LeftJoin
<1>7. PICK r : r = DecodeTag(b)
  OBVIOUS
<1>8. r = [ok |-> TRUE, len |-> Len(e), tag |-> t, buf |-> Behind(b, Len(e))]
  BY <1>1, <1>6, <1>7, DecodeTagAt
<1>9. r.ok = TRUE /\ r.tag = t
  BY <1>8
<1> QED
  BY <1>1, <1>6, <1>7, <1>9 DEF TagNext

LEMMA NothingToRead ==
  ASSUME NEW b, Left(b, <<>>)
  PROVE  ReadUint(b, 1) = [ok |-> FALSE, val |-> 0, buf |-> Cursor(b, Len(b.bytes), FALSE)]
<1>1. PICK e : e = <<>>
  OBVIOUS
<1>2. Len(e) = 0
  BY <1>1, EmptySeq
<1>3. Left(b, e)
  BY <1>1
<1>4. b.off \in Nat /\ b.off + Len(e) = Len(b.bytes)
  BY <1>3 DEF Left, At, IsBuffer, Buffers
<1>5. ~(1 <= Len(b.bytes) - b.off)
  BY <1>2, <1>4
<1> QED
  BY <1>5 DEF ReadUint

LEMMA NoNextTag ==
  ASSUME NEW b, Left(b, <<>>)
  PROVE  DecodeTag(b).ok = FALSE
<1>2. PICK first : first = ReadUint(b, 1)
  OBVIOUS
<1>3. first.ok = FALSE /\ first.val = 0
  <2>1. PICK c : c = Cursor(b, Len(b.bytes), FALSE)
    OBVIOUS
  <2>2. first = [ok |-> FALSE, val |-> 0, buf |-> c]
    BY <1>2, <2>1, NothingToRead
  <2> QED
    BY <2>2
<1>4. first.val % 8 = 0 /\ first.val \div 16 = 0
  BY <1>3
<1>5. PICK id : id = TagID(first)
  OBVIOUS
<1>6. id.ok = FALSE
  BY <1>2, <1>3, <1>4, <1>5 DEF TagID, ReadUint
<1>7. PICK value : value = TagValue(0, id)
  OBVIOUS
<1>8. value.ok = FALSE
  BY <1>6, <1>7 DEF TagValue
<1>9. DecodeTag(b) = TagFrom(first, b.off)
  BY <1>2 DEF DecodeTag
<1>10. TagFrom(first, b.off) = TagBehind(0, id, b.off)
  BY <1>3, <1>5 DEF TagFrom
<1>11. TagBehind(0, id, b.off).ok = value.ok
  <2>1. 0 % 8 = 0
    OBVIOUS
  <2> QED
    BY <1>7, <2>1 DEF TagBehind, TagWith
<1> QED
  BY <1>8, <1>9, <1>10, <1>11

\* A number and an object ID as they are read.
LEMMA ReadNumber ==
  ASSUME NEW id \in Octet, NEW v \in Uint32, NEW t \in Seq(Octet), NEW b,
         Left(b, Join(Number(id, v), t)), NEW c, c = Behind(b, Len(Number(id, v)))
  PROVE  ContextValue(Fresh(b), id) = Result(c, NoErr, v) /\ Left(c, t)
<1>1. PICK n \in Seq(Octet) : n = Number(id, v)
  BY NumberFacts
<1>2. At(b, n) /\ Left(c, t)
  BY <1>1, LeftJoin
<1>3. n = EncodeTag(ContextTag(id, ValueLength(v))) \o Unsigned(v)
  BY <1>1 DEF Number, Tagged, Join
<1>4. ContextValue(Fresh(b), id) = Result(Behind(b, Len(n)), NoErr, v)
  BY <1>2, <1>3, ContextValueAt
<1> QED
  BY <1>1, <1>2, <1>4

LEMMA ReadNamed ==
  ASSUME NEW id \in Octet, NEW o, ValidObject(o), NEW t \in Seq(Octet), NEW b,
         Left(b, Join(Named(id, o), t)), NEW c, c = Behind(b, Len(Named(id, o)))
  PROVE  DecodeObjectID(Fresh(b), id) = Result(c, NoErr, o) /\ Left(c, t)
<1>1. PICK n \in Seq(Octet) : n = Named(id, o)
  BY NamedFacts
<1>2. At(b, n) /\ Left(c, t)
  BY <1>1, LeftJoin
<1>3. n = EncodeTag(ContextTag(id, ObjectIDLength)) \o ObjectOctets(o)
  BY <1>1 DEF Named, Tagged, Join
<1>4. DecodeObjectID(Fresh(b), id) = Result(Behind(b, Len(n)), NoErr, o)
  BY <1>2, <1>3, ObjectIDAt
<1> QED
  BY <1>1, <1>2, <1>4

LEMMA ReadApp ==
  ASSUME NEW id \in Octet, NEW v \in Uint32, NEW s \in Seq(Octet), NEW w,
         Holds(id, v, s, w), NEW target, NEW t \in Seq(Octet), NEW b,
         Left(b, Join(App(id, v, s), t)), NEW c, c = Behind(b, Len(App(id, v, s)))
  PROVE  DecodeAppData(Fresh(b), target) = Store(id, Holding(w, c), target) /\ Left(c, t)
<1>1. PICK n \in Seq(Octet) : n = App(id, v, s)
  BY AppFacts
<1>2. At(b, n) /\ Left(c, t)
  BY <1>1, LeftJoin
<1>3. n = EncodeTag(AppTag(id, v)) \o s
  BY <1>1 DEF App, Tagged, Join
<1>4. DecodeAppData(Fresh(b), target) = Store(id, Holding(w, Behind(b, Len(n))), target)
  BY <1>2, <1>3, ValueAt
<1> QED
  BY <1>1, <1>2, <1>4

----------------------------------------------------------------------------
(***************************************************************************)
(* The payloads.                                                           *)
(***************************************************************************)
LEMMA JoinEnd ==
  ASSUME NEW s \in Seq(Octet)
  PROVE  Join(s, <<>>) = s
BY EmptySeq, ConcatEmptySeq DEF Join

LEMMA NoOctets == <<>> \in Seq(Octet) /\ Len(<<>>) = 0
BY EmptySeq

\* What the methods of the Encoder add to the octets s.
LEMMA WroteMore ==
  ASSUME NEW s \in Seq(Octet), NEW t \in Seq(Octet)
  PROVE  /\ Write(Encoded(s), t) = Encoded(Join(s, t))
         /\ WriteIfNoErr(Encoded(s), t) = Encoded(Join(s, t))
<1>1. PICK u : u = Join(s, t)
  OBVIOUS
<1>2. u = s \o t
  BY <1>1, Zenon DEF Join
<1> QED
  BY <1>1, <1>2 DEF Encoded, Write, WriteIfNoErr

LEMMA StartEncoding == NewEncoder = Encoded(<<>>) /\ NotEncoded.err # NoErr
BY DEF NewEncoder, Encoded, NotEncoded, Failed, NoErr

LEMMA TaggedIs ==
  ASSUME NEW t \in Tags, NEW s \in Seq(Octet), NEW u, u = EncodeTag(t) \o s
  PROVE  u = Tagged(t, s) /\ u \in Seq(Octet)
<1>1. u = Tagged(t, s)
  BY Zenon DEF Tagged, Join
<1> QED
  BY <1>1, TaggedFacts

LEMMA WroteNumber ==
  ASSUME NEW s \in Seq(Octet), NEW id \in Octet, NEW v \in Uint32
  PROVE  ContextUnsigned(Encoded(s), id, v) = Encoded(Join(s, Number(id, v)))
<1>1. Unsigned(v) \in Seq(Octet) /\ ValueLength(v) \in Uint32
  BY UnsignedType, LengthOfValue
<1>2. ContextTag(id, ValueLength(v)) \in Tags
  BY <1>1, TagsBuilt
<1>3. PICK u : u = EncodeTag(ContextTag(id, ValueLength(v))) \o Unsigned(v)
  OBVIOUS
<1>4. u = Number(id, v) /\ u \in Seq(Octet)
  BY <1>1, <1>2, <1>3, TaggedIs DEF Number
<1>5. ContextUnsigned(Encoded(s), id, v) = WriteIfNoErr(Encoded(s), u)
  BY <1>3, Zenon DEF ContextUnsigned
<1> QED
  BY <1>4, <1>5, WroteMore

LEMMA AppIs ==
  ASSUME NEW id \in Octet, NEW n \in Uint32, NEW t \in Seq(Octet),
         NEW u, u = EncodeTag(AppTag(id, n)) \o t
  PROVE  u = App(id, n, t) /\ u \in Seq(Octet)
<1>1. AppTag(id, n) \in Tags
  BY TagsBuilt
<1> QED
  BY <1>1, TaggedIs DEF App

LEMMA WroteUnsigned ==
  ASSUME NEW s \in Seq(Octet), NEW v \in Uint32
  PROVE  /\ EncodeAppData(Encoded(s), GoNum("uint32", v))
              = Encoded(Join(s, App(2, ValueLength(v), Unsigned(v))))
         /\ EncodeAppData(Encoded(s), GoNum("SegmentationSupport", v))
              = Encoded(Join(s, App(9, ValueLength(v), Unsigned(v))))
<1>1. PICK t : t = Unsigned(v)
  OBVIOUS
<1>2. PICK n : n = ValueLength(v)
  OBVIOUS
<1>3. t \in Seq(Octet) /\ n = Len(t) /\ n \in Uint32
  BY <1>1, <1>2, UnsignedType, LengthOfValue
<1>4. PICK two : two = 2
  OBVIOUS
<1>5. PICK nine : nine = 9
  OBVIOUS
<1>6. two \in Octet /\ nine \in Octet
  BY <1>4, <1>5, OctetRange
<1>7. PICK p : p = EncodeTag(AppTag(two, n)) \o t
  OBVIOUS
<1>8. PICK q : q = EncodeTag(AppTag(nine, n)) \o t
  OBVIOUS
<1>9. WriteIfNoErr(Encoded(s), p) = Encoded(Join(s, App(two, n, t)))
  <2>1. p = App(two, n, t) /\ p \in Seq(Octet)
    BY <1>3, <1>6, <1>7, AppIs
  <2> QED
    BY <2>1, WroteMore
<1>10. WriteIfNoErr(Encoded(s), q) = Encoded(Join(s, App(nine, n, t)))
  <2>1. q = App(nine, n, t) /\ q \in Seq(Octet)
    BY <1>3, <1>6, <1>8, AppIs
  <2> QED
    BY <2>1, WroteMore
<1>11. EncodeAppData(Encoded(s), GoNum("uint32", v)) = WriteIfNoErr(Encoded(s), p)
  <2>1. GoNum("uint32", v).kind = "uint32" /\ GoNum("uint32", v).num = v
    BY DEF GoNum
  <2> QED
    BY <1>1, <1>3, <1>4, <1>7, <2>1 DEF EncodeAppData
<1>12. EncodeAppData(Encoded(s), GoNum("SegmentationSupport", v)) = WriteIfNoErr(Encoded(s), q)
  <2>1. GoNum("SegmentationSupport", v).kind = "SegmentationSupport"
        /\ GoNum("SegmentationSupport", v).num = v
    BY DEF GoNum
  <2> QED
    BY <1>1, <1>3, <1>5, <1>8, <2>1 DEF EncodeAppData
<1>13. EncodeAppData(Encoded(s), GoNum("uint32", v)) = Encoded(Join(s, App(2, n, t)))
  BY <1>4, <1>9, <1>11
<1>14. EncodeAppData(Encoded(s), GoNum("SegmentationSupport", v)) = Encoded(Join(s, App(9, n, t)))
  BY <1>5, <1>10, <1>12
<1> QED
  BY <1>1, <1>2, <1>13, <1>14

LEMMA WroteObject ==
  ASSUME NEW s \in Seq(Octet), NEW t \in Tags, NEW o, ValidObject(o)
  PROVE  WriteObjectID(Encoded(s), t, o) = Encoded(Join(s, Tagged(t, ObjectOctets(o))))
<1>1. PICK u : u = ObjectOctets(o)
  OBVIOUS
<1>2. u \in Seq(Octet)
  BY <1>1, ObjectOctetsType
<1>3. PICK e \in Seq(Octet) : e = EncodeTag(t)
  BY TagType
<1>4. PICK w : w = Write(Encoded(s), e)
  OBVIOUS
<1>5. PICK j \in Seq(Octet) : j = Join(s, e)
  BY JoinFacts
<1>6. w = Encoded(j)
  BY <1>4, <1>5, WroteMore
<1>7. ValidForEncode(o)
  BY DEF ValidForEncode, ValidObject, MaxObjectType, MaxInstance, TypeBits, InstanceBits
<1>8. WriteObjectID(Encoded(s), t, o) = Write(w, u)
  <2>1. Encoded(s).err = NoErr
    BY DEF Encoded
  <2> QED
    BY <1>1, <1>3, <1>4, <1>7, <2>1 DEF WriteObjectID, ObjectOctets
<1>9. Write(w, u) = Encoded(Join(j, u))
  BY <1>2, <1>6, WroteMore
<1>10. Join(j, u) = Join(s, Join(e, u))
  BY <1>2, <1>5, JoinTwice
<1>11. Join(e, u) = Tagged(t, u)
  BY <1>3 DEF Tagged
<1> QED
  BY <1>1, <1>8, <1>9, <1>10, <1>11

LEMMA NotWrote ==
  ASSUME NEW s \in Seq(Octet), NEW t, NEW o, ~ValidForEncode(o)
  PROVE  WriteObjectID(Encoded(s), t, o).err # NoErr
BY DEF WriteObjectID, Encoded, Write, NoErr, Failed

LEMMA StaysWrong ==
  ASSUME NEW e, e.err # NoErr, NEW id, NEW v
  PROVE  ContextUnsigned(e, id, v) = e
BY DEF ContextUnsigned, WriteIfNoErr

LEMMA WroteNamed ==
  ASSUME NEW s \in Seq(Octet), NEW id \in Octet, NEW o, ValidObject(o)
  PROVE  ContextObjectID(Encoded(s), id, o) = Encoded(Join(s, Named(id, o)))
<1>1. ContextTag(id, ObjectIDLength) \in Tags
  BY FourOctets, TagsBuilt
<1> QED
  BY <1>1, WroteObject DEF ContextObjectID, Named

LEMMA WroteAppObject ==
  ASSUME NEW s \in Seq(Octet), NEW o, ValidObject(o)
  PROVE  EncodeAppData(Encoded(s), GoObject(o))
           = Encoded(Join(s, App(12, ObjectIDLength, ObjectOctets(o))))
<1>1. 12 \in Octet
  BY OctetRange
<1>2. AppTag(12, ObjectIDLength) \in Tags
  BY <1>1, FourOctets, TagsBuilt
<1>3. EncodeAppData(Encoded(s), GoObject(o)) = WriteObjectID(Encoded(s), AppTag(12, ObjectIDLength), o)
  <2>1. GoObject(o).kind = "ObjectID" /\ GoObject(o).obj = o
    BY DEF GoObject, GoNum
  <2> QED
    BY <2>1 DEF EncodeAppData
<1> QED
  BY <1>2, <1>3, WroteObject DEF App

----------------------------------------------------------------------------
\* What the methods of the Decoder take from the octets that are left.
LEMMA StartDecoding ==
  ASSUME NEW s \in Seq(Octet)
  PROVE  NewDecoder(s) = Fresh(NewBuffer(s)) /\ Left(NewBuffer(s), s)
<1>1. NewDecoder(s) = Fresh(NewBuffer(s))
  BY DEF NewDecoder, Fresh
<1> QED
  BY <1>1, LeftAll

LEMMA ResultIs ==
  ASSUME NEW c, NEW v, NEW r, r = Result(c, NoErr, v)
  PROVE  r.dec = Fresh(c) /\ r.val = v
BY DEF Result, Fresh

LEMMA TakeNumber ==
  ASSUME NEW id \in Octet, NEW v \in Uint32, NEW t \in Seq(Octet), NEW b,
         Left(b, Join(Number(id, v), t)), NEW r, r = ContextValue(Fresh(b), id)
  PROVE  r.val = v /\ \E c : r.dec = Fresh(c) /\ Left(c, t)
<1>1. PICK c : c = Behind(b, Len(Number(id, v)))
  OBVIOUS
<1>2. r = Result(c, NoErr, v) /\ Left(c, t)
  BY <1>1, ReadNumber
<1> QED
  BY <1>2, ResultIs

LEMMA TakeNamed ==
  ASSUME NEW id \in Octet, NEW o, ValidObject(o), NEW t \in Seq(Octet), NEW b,
         Left(b, Join(Named(id, o), t)), NEW r, r = DecodeObjectID(Fresh(b), id)
  PROVE  r.val = o /\ \E c : r.dec = Fresh(c) /\ Left(c, t)
<1>1. PICK c : c = Behind(b, Len(Named(id, o)))
  OBVIOUS
<1>2. r = Result(c, NoErr, o) /\ Left(c, t)
  BY <1>1, ReadNamed
<1> QED
  BY <1>2, ResultIs

LEMMA TakeApp ==
  ASSUME NEW id \in Octet, NEW v \in Uint32, NEW s \in Seq(Octet), NEW w,
         Holds(id, v, s, w), NEW target, Fits(id, w, target), NEW t \in Seq(Octet), NEW b,
         Left(b, Join(App(id, v, s), t)), NEW r, r = DecodeAppData(Fresh(b), target)
  PROVE  r.val = StoredIn(w, target) /\ \E c : r.dec = Fresh(c) /\ Left(c, t)
<1>1. PICK c : c = Behind(b, Len(App(id, v, s)))
  OBVIOUS
<1>2. r = Store(id, Holding(w, c), target) /\ Left(c, t)
  BY <1>1, ReadApp
<1>3. r = Result(c, NoErr, StoredIn(w, target))
  BY <1>2 DEF Store, Holding
<1> QED
  BY <1>2, <1>3, ResultIs

----------------------------------------------------------------------------
\* The limits as the client sends them: half a range is none.
Whole(w)  == w.low # NoLimit /\ w.high # NoLimit
Limited(w) == IF Whole(w) THEN Join(Number(0, w.low), Number(1, w.high)) ELSE <<>>
LimitSet  == Uint32 \union {NoLimit}

LEMMA LimitFacts ==
  ASSUME NEW v \in LimitSet, v # NoLimit
  PROVE  v \in Uint32
BY DEF LimitSet

LEMMA LimitedFacts ==
  ASSUME NEW w, w.low \in LimitSet, w.high \in LimitSet
  PROVE  Limited(w) \in Seq(Octet) /\ Len(Limited(w)) <= 22 /\ Len(Limited(w)) \in Nat
<1>1. CASE ~Whole(w)
  BY <1>1, NoOctets DEF Limited
<1>2. CASE Whole(w)
  <2>1. w.low \in Uint32 /\ w.high \in Uint32
    BY <1>2, LimitFacts DEF Whole
  <2>2. 0 \in Octet /\ 1 \in Octet
    BY OctetRange
  <2>3. PICK a : a = Number(0, w.low)
    OBVIOUS
  <2>4. PICK z : z = Number(1, w.high)
    OBVIOUS
  <2>5. a \in Seq(Octet) /\ Len(a) <= 11 /\ Len(a) \in Nat
    BY <2>1, <2>2, <2>3, NumberFacts
  <2>6. z \in Seq(Octet) /\ Len(z) <= 11 /\ Len(z) \in Nat
    BY <2>1, <2>2, <2>4, NumberFacts
  <2>7. PICK j : j = Join(a, z)
    OBVIOUS
  <2>8. j \in Seq(Octet) /\ Len(j) = Len(a) + Len(z)
    BY <2>5, <2>6, <2>7, JoinFacts
  <2>9. Limited(w) = j
    BY <1>2, <2>3, <2>4, <2>7 DEF Limited
  <2> QED
    BY <2>5, <2>6, <2>8, <2>9
<1> QED
  BY <1>1, <1>2

LEMMA MarshalLimits ==
  ASSUME NEW w, w.low \in LimitSet, w.high \in LimitSet, MarshalWhoIs(w).err = NoErr
  PROVE  MarshalWhoIs(w).bytes = Limited(w)
<1>1. CASE ~Whole(w)
  BY <1>1 DEF MarshalWhoIs, Whole, Limited, NewEncoder
<1>2. CASE Whole(w)
  <2>1. w.low \in Uint32 /\ w.high \in Uint32
    BY <1>2, LimitFacts DEF Whole
  <2>2. 0 \in Octet /\ 1 \in Octet
    BY OctetRange
  <2>3. MarshalWhoIs(w) = ContextUnsigned(ContextUnsigned(NewEncoder, 0, w.low), 1, w.high)
    BY <1>2, StartEncoding DEF MarshalWhoIs, Whole
  <2>4. PICK a \in Seq(Octet) : a = Number(0, w.low)
    BY <2>1, <2>2, NumberFacts
  <2>5. PICK e : e = ContextUnsigned(NewEncoder, 0, w.low)
    OBVIOUS
  <2>6. PICK n \in Seq(Octet) : n = <<>>
    BY NoOctets
  <2>7. e = Encoded(a)
    <3>1. ContextUnsigned(Encoded(n), 0, w.low) = Encoded(Join(n, Number(0, w.low)))
      BY <2>1, <2>2, WroteNumber
    <3>2. NewEncoder = Encoded(n)
      BY <2>6, StartEncoding
    <3>3. Join(n, a) = a
      BY <2>6, JoinNothing
    <3> QED
      BY <2>4, <2>5, <3>1, <3>2, <3>3
  <2>8. ContextUnsigned(e, 1, w.high) = Encoded(Join(a, Number(1, w.high)))
    BY <2>1, <2>2, <2>7, WroteNumber
  <2>9. MarshalWhoIs(w).bytes = Join(a, Number(1, w.high))
    BY <2>3, <2>5, <2>8 DEF Encoded
  <2> QED
    BY <1>2, <2>4, <2>9 DEF Limited
<1> QED
  BY <1>1, <1>2

LEMMA LimitsAt ==
  ASSUME NEW w, w.low \in LimitSet, w.high \in LimitSet,
         NEW r, r = UnmarshalWhoIs(Limited(w))
  PROVE  /\ Whole(w) => r.low = w.low /\ r.high = w.high
         /\ ~Whole(w) => r.low = NoLimit /\ r.high = NoLimit
         /\ r.err = NoErr
<1>1. CASE ~Whole(w)
  BY <1>1 DEF UnmarshalWhoIs, Limited
<1>2. CASE Whole(w)
  <2>1. w.low \in Uint32 /\ w.high \in Uint32
    BY <1>2, LimitFacts DEF Whole
  <2>2. PICK o : o = 0
    OBVIOUS
  <2>3. PICK i : i = 1
    OBVIOUS
  <2>4. o \in Octet /\ i \in Octet
    BY <2>2, <2>3, OctetRange
  <2>5. PICK a : a = Number(o, w.low)
    OBVIOUS
  <2>6. PICK z : z = Number(i, w.high)
    OBVIOUS
  <2>7. a \in Seq(Octet) /\ Len(a) >= 1 /\ z \in Seq(Octet) /\ Len(z) \in Nat /\ Len(a) \in Nat
    BY <2>1, <2>4, <2>5, <2>6, NumberFacts
  <2>8. PICK d : d = Join(a, z)
    OBVIOUS
  <2>9. d \in Seq(Octet) /\ Len(d) = Len(a) + Len(z)
    BY <2>7, <2>8, JoinFacts
  <2>10. d # <<>>
    BY <2>7, <2>9, NoOctets
  <2>11. Limited(w) = d
    BY <1>2, <2>2, <2>3, <2>5, <2>6, <2>8 DEF Limited
  <2>12. PICK b : b = NewBuffer(d)
    OBVIOUS
  <2>13. NewDecoder(d) = Fresh(b) /\ Left(b, d)
    BY <2>9, <2>12, StartDecoding
  <2>14. PICK low : low = ContextValue(Fresh(b), o)
    OBVIOUS
  <2>15. low.val = w.low /\ \E c : low.dec = Fresh(c) /\ Left(c, z)
    BY <2>1, <2>4, <2>5, <2>7, <2>8, <2>13, <2>14, TakeNumber
  <2>16. PICK c : low.dec = Fresh(c) /\ Left(c, z)
    BY <2>15
  <2>170. PICK n \in Seq(Octet) : n = <<>>
    BY NoOctets
  <2>17. z = Join(z, n)
    BY <2>7, <2>170, JoinEnd
  <2>18. Left(c, Join(Number(i, w.high), n))
    BY <2>6, <2>16, <2>17
  <2>19. PICK high : high = ContextValue(Fresh(c), i)
    OBVIOUS
  <2>20. high.val = w.high /\ \E x : high.dec = Fresh(x) /\ Left(x, n)
    BY <2>1, <2>4, <2>18, <2>19, TakeNumber
  <2>21. high.dec.err = NoErr
    BY <2>20 DEF Fresh
  <2>22. r = [err |-> high.dec.err, low |-> low.val, high |-> high.val]
    BY <2>2, <2>3, <2>10, <2>11, <2>13, <2>14, <2>16, <2>19 DEF UnmarshalWhoIs
  <2> QED
    BY <1>2, <2>15, <2>20, <2>21, <2>22
<1> QED
  BY <1>1, <1>2

----------------------------------------------------------------------------
\* An announcement.
AppUnsigned(id, v) == App(id, ValueLength(v), Unsigned(v))
AppObject(o)       == App(12, ObjectIDLength, ObjectOctets(o))
Kinds == {2, 9}

LEMMA KindFacts == 2 \in Kinds /\ 9 \in Kinds /\ \A k \in Kinds : k \in Octet
BY OctetRange DEF Kinds

LEMMA HoldsUnsigned ==
  ASSUME NEW id \in Kinds, NEW v \in Uint32
  PROVE  Holds(id, ValueLength(v), Unsigned(v), GoNum("uint32", v))
BY UnsignedContentAt DEF Holds, Holding, Kinds

LEMMA HoldsObject ==
  ASSUME NEW o, ValidObject(o)
  PROVE  Holds(12, ObjectIDLength, ObjectOctets(o), GoObject(o))
BY ObjectContentAt, FourOctets DEF Holds, Holding

LEMMA AppUnsignedFacts ==
  ASSUME NEW id \in Kinds, NEW v \in Uint32
  PROVE  /\ AppUnsigned(id, v) \in Seq(Octet) /\ Len(AppUnsigned(id, v)) <= 11
         /\ Len(AppUnsigned(id, v)) \in Nat
<1>1. PICK t : t = Unsigned(v)
  OBVIOUS
<1>2. PICK n : n = ValueLength(v)
  OBVIOUS
<1>3. t \in Seq(Octet) /\ Len(t) = n /\ n \in 1..4 /\ n \in Uint32
  BY <1>1, <1>2, UnsignedType, LengthOfValue
<1>4. PICK a : a = App(id, n, t)
  OBVIOUS
<1>5. a \in Seq(Octet) /\ Len(a) <= 7 + Len(t) /\ Len(a) \in Nat
  BY <1>3, <1>4, KindFacts, AppFacts
<1>6. AppUnsigned(id, v) = a
  BY <1>1, <1>2, <1>4 DEF AppUnsigned
<1> QED
  BY <1>3, <1>5, <1>6

LEMMA AppObjectFacts ==
  ASSUME NEW o, ValidObject(o)
  PROVE  /\ AppObject(o) \in Seq(Octet) /\ Len(AppObject(o)) <= 11
         /\ Len(AppObject(o)) \in Nat
<1>1. PICK t : t = ObjectOctets(o)
  OBVIOUS
<1>2. t \in Seq(Octet) /\ Len(t) = 4
  BY <1>1, ObjectOctetsType
<1>3. PICK n : n = 12
  OBVIOUS
<1>4. n \in Octet
  BY <1>3, OctetRange
<1>5. PICK a : a = App(n, ObjectIDLength, t)
  OBVIOUS
<1>6. a \in Seq(Octet) /\ Len(a) <= 7 + Len(t) /\ Len(a) \in Nat
  BY <1>2, <1>4, <1>5, FourOctets, AppFacts
<1>7. AppObject(o) = a
  BY <1>1, <1>3, <1>5 DEF AppObject
<1> QED
  BY <1>2, <1>6, <1>7

LEMMA TakeUnsigned ==
  ASSUME NEW id \in Kinds, NEW v \in Uint32, NEW target, Fits(id, GoNum("uint32", v), target),
         NEW t \in Seq(Octet), NEW b, Left(b, Join(AppUnsigned(id, v), t)),
         NEW r, r = DecodeAppData(Fresh(b), target)
  PROVE  r.val = StoredIn(GoNum("uint32", v), target) /\ \E c : r.dec = Fresh(c) /\ Left(c, t)
<1>1. PICK n \in Uint32 : n = ValueLength(v)
  BY LengthOfValue
<1>2. PICK s \in Seq(Octet) : s = Unsigned(v)
  BY UnsignedType
<1>3. PICK w : w = GoNum("uint32", v)
  OBVIOUS
<1>4. Holds(id, n, s, w)
  BY <1>1, <1>2, <1>3, HoldsUnsigned
<1>5. Left(b, Join(App(id, n, s), t))
  BY <1>1, <1>2 DEF AppUnsigned
<1>6. id \in Octet
  BY KindFacts
<1>7. Fits(id, w, target)
  BY <1>3
<1>8. r.val = StoredIn(w, target) /\ \E c : r.dec = Fresh(c) /\ Left(c, t)
  BY <1>4, <1>5, <1>6, <1>7, TakeApp
<1> QED
  BY <1>3, <1>8

\* As a number, and as an enumeration.
LEMMA TakePlainUnsigned ==
  ASSUME NEW v \in Uint32, NEW t \in Seq(Octet), NEW b, Left(b, Join(AppUnsigned(2, v), t)),
         NEW r, r = DecodeAppData(Fresh(b), "uint32")
  PROVE  r.val.num = v /\ \E c : r.dec = Fresh(c) /\ Left(c, t)
<1>1. PICK k \in Kinds : k = 2
  BY KindFacts
<1>2. Fits(k, GoNum("uint32", v), "uint32")
  BY <1>1 DEF Fits, GoNum
<1>3. StoredIn(GoNum("uint32", v), "uint32") = GoNum("uint32", v)
  BY DEF StoredIn, Enumerations
<1>4. Left(b, Join(AppUnsigned(k, v), t))
  BY <1>1
<1>5. r.val = StoredIn(GoNum("uint32", v), "uint32") /\ \E c : r.dec = Fresh(c) /\ Left(c, t)
  BY <1>2, <1>4, TakeUnsigned
<1>6. GoNum("uint32", v).num = v
  BY DEF GoNum
<1> QED
  BY <1>3, <1>5, <1>6

LEMMA StoredEnumeration ==
  ASSUME NEW v
  PROVE  /\ StoredIn(GoNum("uint32", v), "SegmentationSupport").num = v % 256
         /\ StoredIn(GoNum("uint32", v), "ErrorClass").num = v % 65536
         /\ StoredIn(GoNum("uint32", v), "ErrorCode").num = v
BY DEF StoredIn, Enumerations, GoNum, Widths

LEMMA TakeEnumeration ==
  ASSUME NEW v \in Uint32, NEW t \in Seq(Octet), NEW b, Left(b, Join(AppUnsigned(9, v), t)),
         NEW target \in Enumerations, NEW r, r = DecodeAppData(Fresh(b), target)
  PROVE  r.val = StoredIn(GoNum("uint32", v), target) /\ \E c : r.dec = Fresh(c) /\ Left(c, t)
<1>1. PICK k \in Kinds : k = 9
  BY KindFacts
<1>2. Fits(k, GoNum("uint32", v), target)
  BY <1>1 DEF Fits, GoNum
<1>3. Left(b, Join(AppUnsigned(k, v), t))
  BY <1>1
<1> QED
  BY <1>2, <1>3, TakeUnsigned

LEMMA TakeObject ==
  ASSUME NEW o, ValidObject(o), NEW t \in Seq(Octet), NEW b, Left(b, Join(AppObject(o), t)),
         NEW r, r = DecodeAppData(Fresh(b), "ObjectID")
  PROVE  r.val.obj = o /\ \E c : r.dec = Fresh(c) /\ Left(c, t)
<1>1. PICK n : n = 12
  OBVIOUS
<1>2. n \in Octet
  BY <1>1, OctetRange
<1>3. PICK l \in Uint32 : l = ObjectIDLength
  BY FourOctets
<1>4. PICK s \in Seq(Octet) : s = ObjectOctets(o)
  BY ObjectOctetsType
<1>5. PICK w : w = GoObject(o)
  OBVIOUS
<1>6. Holds(n, l, s, w)
  BY <1>1, <1>3, <1>4, <1>5, HoldsObject
<1>7. Left(b, Join(App(n, l, s), t))
  BY <1>1, <1>3, <1>4 DEF AppObject
<1>8. w.kind = "ObjectID" /\ w.obj = o
  BY <1>5 DEF GoObject, GoNum
<1>9. Fits(n, w, "ObjectID")
  BY <1>1, <1>8 DEF Fits
<1>10. r.val = StoredIn(w, "ObjectID") /\ \E c : r.dec = Fresh(c) /\ Left(c, t)
  BY <1>2, <1>6, <1>7, <1>9, TakeApp
<1>11. StoredIn(w, "ObjectID") = w
  BY DEF StoredIn, Enumerations
<1> QED
  BY <1>8, <1>10, <1>11

Announceable(iam) ==
  ValidObject(iam.object) /\ iam.maxApdu \in Uint32 /\ iam.segmentation \in Octet
  /\ iam.vendor \in Uint32
IamOctets(iam) ==
  Join(AppObject(iam.object),
       Join(AppUnsigned(2, iam.maxApdu),
            Join(AppUnsigned(9, iam.segmentation), AppUnsigned(2, iam.vendor))))

LEMMA OctetsAreUint32 ==
  ASSUME NEW v \in Octet
  PROVE  v \in Uint32
BY OctetRange DEF Uint32

LEMMA FourJoins ==
  ASSUME NEW a \in Seq(Octet), NEW b \in Seq(Octet), NEW c \in Seq(Octet), NEW d \in Seq(Octet)
  PROVE  Join(Join(Join(a, b), c), d) = Join(a, Join(b, Join(c, d)))
<1>1. Join(a, b) \in Seq(Octet) /\ Join(c, d) \in Seq(Octet)
  BY JoinFacts
<1>2. Join(Join(Join(a, b), c), d) = Join(Join(a, b), Join(c, d))
  BY <1>1, JoinTwice
<1> QED
  BY <1>1, <1>2, JoinTwice

LEMMA FourLengths ==
  ASSUME NEW a \in Seq(Octet), NEW b \in Seq(Octet), NEW c \in Seq(Octet), NEW d \in Seq(Octet),
         NEW n \in Nat, Len(a) <= n, Len(b) <= n, Len(c) <= n, Len(d) <= n,
         NEW s, s = Join(a, Join(b, Join(c, d)))
  PROVE  s \in Seq(Octet) /\ Len(s) <= n + n + n + n /\ Len(s) \in Nat
<1>1. PICK u : u = Join(c, d)
  OBVIOUS
<1>2. u \in Seq(Octet) /\ Len(u) = Len(c) + Len(d) /\ Len(c) \in Nat /\ Len(d) \in Nat
  BY <1>1, JoinFacts
<1>3. PICK v : v = Join(b, u)
  OBVIOUS
<1>4. v \in Seq(Octet) /\ Len(v) = Len(b) + Len(u) /\ Len(b) \in Nat
  BY <1>2, <1>3, JoinFacts
<1>5. s = Join(a, v)
  BY <1>1, <1>3
<1>6. s \in Seq(Octet) /\ Len(s) = Len(a) + Len(v) /\ Len(a) \in Nat
  BY <1>4, <1>5, JoinFacts, ZenonT(40)
<1> QED
  BY <1>2, <1>4, <1>6

LEMMA IamOctetsFacts ==
  ASSUME NEW iam, Announceable(iam), NEW s, s = IamOctets(iam)
  PROVE  s \in Seq(Octet) /\ Len(s) <= 44 /\ Len(s) \in Nat
<1>1. PICK a : a = AppObject(iam.object)
  OBVIOUS
<1>2. PICK b : b = AppUnsigned(2, iam.maxApdu)
  OBVIOUS
<1>3. PICK c : c = AppUnsigned(9, iam.segmentation)
  OBVIOUS
<1>4. PICK d : d = AppUnsigned(2, iam.vendor)
  OBVIOUS
<1>5. iam.segmentation \in Uint32
  BY OctetsAreUint32 DEF Announceable
<1>6. PICK n \in Nat : n = 11
  OBVIOUS
<1>7. a \in Seq(Octet) /\ Len(a) <= n
  BY <1>1, <1>6, AppObjectFacts DEF Announceable
<1>8. b \in Seq(Octet) /\ Len(b) <= n
  BY <1>2, <1>6, KindFacts, AppUnsignedFacts DEF Announceable
<1>9. c \in Seq(Octet) /\ Len(c) <= n
  BY <1>3, <1>5, <1>6, KindFacts, AppUnsignedFacts
<1>10. d \in Seq(Octet) /\ Len(d) <= n
  BY <1>4, <1>6, KindFacts, AppUnsignedFacts DEF Announceable
<1>11. s = Join(a, Join(b, Join(c, d)))
  BY <1>1, <1>2, <1>3, <1>4 DEF IamOctets
<1>12. s \in Seq(Octet) /\ Len(s) <= n + n + n + n /\ Len(s) \in Nat
  BY <1>7, <1>8, <1>9, <1>10, <1>11, FourLengths
<1> QED
  BY <1>6, <1>12

LEMMA WroteAppUnsigned ==
  ASSUME NEW s \in Seq(Octet), NEW v \in Uint32
  PROVE  /\ EncodeAppData(Encoded(s), GoNum("uint32", v)) = Encoded(Join(s, AppUnsigned(2, v)))
         /\ EncodeAppData(Encoded(s), GoNum("SegmentationSupport", v))
              = Encoded(Join(s, AppUnsigned(9, v)))
BY WroteUnsigned DEF AppUnsigned

LEMMA MarshalIamAt ==
  ASSUME NEW iam, Announceable(iam)
  PROVE  MarshalIam(iam) = Encoded(IamOctets(iam))
<1>1. PICK a : a = AppObject(iam.object)
  OBVIOUS
<1>2. PICK b : b = AppUnsigned(2, iam.maxApdu)
  OBVIOUS
<1>3. PICK c : c = AppUnsigned(9, iam.segmentation)
  OBVIOUS
<1>4. PICK d : d = AppUnsigned(2, iam.vendor)
  OBVIOUS
<1>5. iam.segmentation \in Uint32
  BY OctetsAreUint32 DEF Announceable
<1>6. a \in Seq(Octet)
  BY <1>1, AppObjectFacts DEF Announceable
<1>7. b \in Seq(Octet)
  BY <1>2, KindFacts, AppUnsignedFacts DEF Announceable
<1>8. c \in Seq(Octet)
  BY <1>3, <1>5, KindFacts, AppUnsignedFacts
<1>9. d \in Seq(Octet)
  BY <1>4, KindFacts, AppUnsignedFacts DEF Announceable
<1>10. PICK n \in Seq(Octet) : n = <<>>
  BY NoOctets
<1>11. PICK p : p = EncodeAppData(NewEncoder, GoObject(iam.object))
  OBVIOUS
<1>12. p = Encoded(a)
  <2>1. NewEncoder = Encoded(n)
    BY <1>10, StartEncoding
  <2>2. EncodeAppData(Encoded(n), GoObject(iam.object)) = Encoded(Join(n, a))
    BY <1>1, WroteAppObject DEF Announceable, AppObject
  <2>3. Join(n, a) = a
    BY <1>6, <1>10, JoinNothing
  <2> QED
    BY <1>11, <2>1, <2>2, <2>3
<1>13. PICK q : q = EncodeAppData(p, GoNum("uint32", iam.maxApdu))
  OBVIOUS
<1>14. PICK ab \in Seq(Octet) : ab = Join(a, b)
  BY <1>6, <1>7, JoinFacts
<1>15. q = Encoded(ab)
  BY <1>2, <1>6, <1>12, <1>13, <1>14, WroteAppUnsigned DEF Announceable
<1>16. PICK r : r = EncodeAppData(q, GoNum("SegmentationSupport", iam.segmentation))
  OBVIOUS
<1>17. PICK abc \in Seq(Octet) : abc = Join(ab, c)
  BY <1>8, JoinFacts
<1>18. r = Encoded(abc)
  BY <1>3, <1>5, <1>15, <1>16, <1>17, WroteAppUnsigned
<1>19. EncodeAppData(r, GoNum("uint32", iam.vendor)) = Encoded(Join(abc, d))
  BY <1>4, <1>18, WroteAppUnsigned DEF Announceable
<1>20. MarshalIam(iam) = EncodeAppData(r, GoNum("uint32", iam.vendor))
  BY <1>11, <1>13, <1>16 DEF MarshalIam
<1>21. Join(abc, d) = Join(a, Join(b, Join(c, d)))
  BY <1>6, <1>7, <1>8, <1>9, <1>14, <1>17, FourJoins
<1>22. IamOctets(iam) = Join(a, Join(b, Join(c, d)))
  BY <1>1, <1>2, <1>3, <1>4 DEF IamOctets
<1> QED
  BY <1>19, <1>20, <1>21, <1>22

LEMMA IamAt ==
  ASSUME NEW iam, Announceable(iam), NEW r, r = UnmarshalIam(IamOctets(iam))
  PROVE  /\ r.err = NoErr /\ r.object = iam.object /\ r.maxApdu = iam.maxApdu
         /\ r.segmentation = iam.segmentation /\ r.vendor = iam.vendor
<1>1. PICK a : a = AppObject(iam.object)
  OBVIOUS
<1>2. PICK b : b = AppUnsigned(2, iam.maxApdu)
  OBVIOUS
<1>3. PICK c : c = AppUnsigned(9, iam.segmentation)
  OBVIOUS
<1>4. PICK d : d = AppUnsigned(2, iam.vendor)
  OBVIOUS
<1>5. iam.segmentation \in Uint32
  BY OctetsAreUint32 DEF Announceable
<1>6. a \in Seq(Octet)
  BY <1>1, AppObjectFacts DEF Announceable
<1>7. b \in Seq(Octet)
  BY <1>2, KindFacts, AppUnsignedFacts DEF Announceable
<1>8. c \in Seq(Octet)
  BY <1>3, <1>5, KindFacts, AppUnsignedFacts
<1>9. d \in Seq(Octet)
  BY <1>4, KindFacts, AppUnsignedFacts DEF Announceable
<1>10. PICK n \in Seq(Octet) : n = <<>>
  BY NoOctets
<1>11. PICK cd \in Seq(Octet) : cd = Join(c, d)
  BY <1>8, <1>9, JoinFacts
<1>12. PICK bcd \in Seq(Octet) : bcd = Join(b, cd)
  BY <1>7, JoinFacts
<1>13. PICK s \in Seq(Octet) : s = Join(a, bcd)
  BY <1>6, JoinFacts
<1>14. IamOctets(iam) = s
  BY <1>1, <1>2, <1>3, <1>4, <1>11, <1>12, <1>13 DEF IamOctets
<1>15. PICK b0 : b0 = NewBuffer(s)
  OBVIOUS
<1>16. NewDecoder(s) = Fresh(b0) /\ Left(b0, s)
  BY <1>15, StartDecoding
<1>17. PICK object : object = DecodeAppData(Fresh(b0), "ObjectID")
  OBVIOUS
<1>18. object.val.obj = iam.object /\ \E x : object.dec = Fresh(x) /\ Left(x, bcd)
  BY <1>1, <1>13, <1>16, <1>17, TakeObject DEF Announceable
<1>19. PICK b1 : object.dec = Fresh(b1) /\ Left(b1, bcd)
  BY <1>18
<1>20. PICK maxApdu : maxApdu = DecodeAppData(Fresh(b1), "uint32")
  OBVIOUS
<1>21. maxApdu.val.num = iam.maxApdu /\ \E x : maxApdu.dec = Fresh(x) /\ Left(x, cd)
  BY <1>2, <1>12, <1>19, <1>20, TakePlainUnsigned DEF Announceable
<1>22. PICK b2 : maxApdu.dec = Fresh(b2) /\ Left(b2, cd)
  BY <1>21
<1>23. PICK seg : seg = DecodeAppData(Fresh(b2), "SegmentationSupport")
  OBVIOUS
<1>24. "SegmentationSupport" \in Enumerations
  BY DEF Enumerations
<1>25. /\ seg.val = StoredIn(GoNum("uint32", iam.segmentation), "SegmentationSupport")
       /\ \E x : seg.dec = Fresh(x) /\ Left(x, d)
  BY <1>3, <1>5, <1>9, <1>11, <1>22, <1>23, <1>24, TakeEnumeration, Z3
<1>26. PICK b3 : seg.dec = Fresh(b3) /\ Left(b3, d)
  BY <1>25
<1>27. seg.val.num = iam.segmentation
  <2>1. iam.segmentation % 256 = iam.segmentation
    BY OctetModulo DEF Announceable
  <2> QED
    BY <1>25, <2>1, StoredEnumeration
<1>28. PICK vendor : vendor = DecodeAppData(Fresh(b3), "uint32")
  OBVIOUS
<1>29. d = Join(d, n)
  BY <1>9, <1>10, JoinEnd
<1>30. vendor.val.num = iam.vendor /\ \E x : vendor.dec = Fresh(x) /\ Left(x, n)
  BY <1>4, <1>26, <1>28, <1>29, TakePlainUnsigned, Z3 DEF Announceable
<1>31. vendor.dec.err = NoErr
  BY <1>30 DEF Fresh
<1>32. r = [err |-> vendor.dec.err, object |-> object.val.obj, maxApdu |-> maxApdu.val.num,
            segmentation |-> seg.val.num, vendor |-> vendor.val.num]
  BY <1>14, <1>16, <1>17, <1>19, <1>20, <1>22, <1>23, <1>26, <1>28 DEF UnmarshalIam
<1> QED
  BY <1>18, <1>21, <1>27, <1>30, <1>31, <1>32

----------------------------------------------------------------------------
\* A request: the object, the property and perhaps an index, before the octets t.
IndexThen(i, t)  == IF i = NoIndex THEN t ELSE Join(Number(2, i), t)
ReadOctets(r, t) == Join(Named(0, r.object), Join(Number(1, r.property), IndexThen(r.index, t)))
IndexSet == Uint32 \union {NoIndex}
Readable(r) == ValidObject(r.object) /\ r.property \in Uint32 /\ r.index \in IndexSet

LEMMA IndexFacts ==
  ASSUME NEW i \in IndexSet, i # NoIndex
  PROVE  i \in Uint32
BY DEF IndexSet

LEMMA SmallOctets == 0 \in Octet /\ 1 \in Octet /\ 2 \in Octet /\ 3 \in Octet /\ 4 \in Octet
BY OctetRange

LEMMA IndexThenFacts ==
  ASSUME NEW i \in IndexSet, NEW t \in Seq(Octet), NEW s, s = IndexThen(i, t)
  PROVE  s \in Seq(Octet) /\ Len(s) <= 11 + Len(t) /\ Len(s) \in Nat /\ Len(t) \in Nat
<1>1. CASE i = NoIndex
  BY <1>1, LenProperties DEF IndexThen
<1>2. CASE i # NoIndex
  <2>1. PICK n : n = Number(2, i)
    OBVIOUS
  <2>2. n \in Seq(Octet) /\ Len(n) <= 11 /\ Len(n) \in Nat
    BY <1>2, <2>1, IndexFacts, SmallOctets, NumberFacts
  <2>3. s = Join(n, t)
    BY <1>2, <2>1 DEF IndexThen
  <2>4. s \in Seq(Octet) /\ Len(s) = Len(n) + Len(t) /\ Len(t) \in Nat
    BY <2>2, <2>3, JoinFacts
  <2> QED
    BY <2>2, <2>4
<1> QED
  BY <1>1, <1>2

LEMMA ReadOctetsFacts ==
  ASSUME NEW r, Readable(r), NEW t \in Seq(Octet), NEW s, s = ReadOctets(r, t)
  PROVE  s \in Seq(Octet) /\ Len(s) <= 33 + Len(t) /\ Len(s) \in Nat /\ Len(t) \in Nat
<1>1. PICK a : a = Named(0, r.object)
  OBVIOUS
<1>2. a \in Seq(Octet) /\ Len(a) <= 11 /\ Len(a) \in Nat
  BY <1>1, SmallOctets, NamedFacts DEF Readable
<1>3. PICK b : b = Number(1, r.property)
  OBVIOUS
<1>4. b \in Seq(Octet) /\ Len(b) <= 11 /\ Len(b) \in Nat
  BY <1>3, SmallOctets, NumberFacts DEF Readable
<1>5. PICK c : c = IndexThen(r.index, t)
  OBVIOUS
<1>6. c \in Seq(Octet) /\ Len(c) <= 11 + Len(t) /\ Len(c) \in Nat /\ Len(t) \in Nat
  BY <1>5, IndexThenFacts DEF Readable
<1>7. PICK d : d = Join(b, c)
  OBVIOUS
<1>8. d \in Seq(Octet) /\ Len(d) = Len(b) + Len(c)
  BY <1>4, <1>6, <1>7, JoinFacts
<1>9. s = Join(a, d)
  BY <1>1, <1>3, <1>5, <1>7 DEF ReadOctets
<1>10. s \in Seq(Octet) /\ Len(s) = Len(a) + Len(d)
  BY <1>2, <1>8, <1>9, JoinFacts, ZenonT(40)
<1> QED
  BY <1>2, <1>4, <1>6, <1>8, <1>10

LEMMA ReadThen ==
  ASSUME NEW r, Readable(r), NEW t \in Seq(Octet)
  PROVE  Join(ReadOctets(r, <<>>), t) = ReadOctets(r, t)
<1>1. PICK a \in Seq(Octet) : a = Named(0, r.object)
  BY SmallOctets, NamedFacts DEF Readable
<1>2. PICK b \in Seq(Octet) : b = Number(1, r.property)
  BY SmallOctets, NumberFacts DEF Readable
<1>3. PICK n \in Seq(Octet) : n = <<>>
  BY NoOctets
<1>4. PICK c \in Seq(Octet) : c = IndexThen(r.index, n)
  BY IndexThenFacts DEF Readable
<1>5. Join(c, t) = IndexThen(r.index, t)
  <2>1. CASE r.index = NoIndex
    <3>1. c = n /\ IndexThen(r.index, t) = t
      BY <1>4, <2>1 DEF IndexThen
    <3> QED
      BY <1>3, <3>1, JoinNothing
  <2>2. CASE r.index # NoIndex
    <3>1. PICK i \in Seq(Octet) : i = Number(2, r.index)
      BY <2>2, IndexFacts, SmallOctets, NumberFacts DEF Readable
    <3>2. c = Join(i, n) /\ IndexThen(r.index, t) = Join(i, t)
      BY <1>4, <2>2, <3>1 DEF IndexThen
    <3>3. Join(i, n) = i
      BY <1>3, JoinEnd
    <3> QED
      BY <3>2, <3>3
  <2> QED
    BY <2>1, <2>2
<1>6. ReadOctets(r, <<>>) = Join(a, Join(b, c))
  BY <1>1, <1>2, <1>3, <1>4 DEF ReadOctets
<1>7. ReadOctets(r, t) = Join(a, Join(b, Join(c, t)))
  BY <1>1, <1>2, <1>5 DEF ReadOctets
<1>8. PICK bc \in Seq(Octet) : bc = Join(b, c)
  BY JoinFacts
<1>9. Join(Join(a, bc), t) = Join(a, Join(bc, t))
  BY JoinTwice
<1>10. Join(bc, t) = Join(b, Join(c, t))
  BY <1>8, JoinTwice
<1> QED
  BY <1>6, <1>7, <1>8, <1>9, <1>10

LEMMA MarshalReadAt ==
  ASSUME NEW r, Readable(r)
  PROVE  MarshalReadProperty(r) = Encoded(ReadOctets(r, <<>>))
<1>1. PICK a \in Seq(Octet) : a = Named(0, r.object)
  BY SmallOctets, NamedFacts DEF Readable
<1>2. PICK b \in Seq(Octet) : b = Number(1, r.property)
  BY SmallOctets, NumberFacts DEF Readable
<1>3. PICK n \in Seq(Octet) : n = <<>>
  BY NoOctets
<1>4. PICK o : o = ContextObjectID(NewEncoder, 0, r.object)
  OBVIOUS
<1>5. o = Encoded(a)
  <2>1. NewEncoder = Encoded(n)
    BY <1>3, StartEncoding
  <2>2. ContextObjectID(Encoded(n), 0, r.object) = Encoded(Join(n, a))
    BY <1>1, SmallOctets, WroteNamed DEF Readable
  <2>3. Join(n, a) = a
    BY <1>3, JoinNothing
  <2> QED
    BY <1>4, <2>1, <2>2, <2>3
<1>6. PICK p : p = ContextUnsigned(o, 1, r.property)
  OBVIOUS
<1>7. PICK ab \in Seq(Octet) : ab = Join(a, b)
  BY JoinFacts
<1>8. p = Encoded(ab)
  BY <1>2, <1>5, <1>6, <1>7, SmallOctets, WroteNumber DEF Readable
<1>9. CASE r.index = NoIndex
  <2>1. MarshalReadProperty(r) = Encoded(ab)
    BY <1>4, <1>6, <1>8, <1>9 DEF MarshalReadProperty
  <2>2. ReadOctets(r, <<>>) = Join(a, Join(b, n))
    BY <1>1, <1>2, <1>3, <1>9 DEF ReadOctets, IndexThen
  <2>3. Join(b, n) = b
    BY <1>3, JoinEnd
  <2> QED
    BY <1>7, <2>1, <2>2, <2>3
<1>10. CASE r.index # NoIndex
  <2>1. r.index \in Uint32
    BY <1>10, IndexFacts DEF Readable
  <2>2. PICK i \in Seq(Octet) : i = Number(2, r.index)
    BY <2>1, SmallOctets, NumberFacts
  <2>3. MarshalReadProperty(r) = ContextUnsigned(p, 2, r.index)
    BY <1>4, <1>6, <1>10 DEF MarshalReadProperty
  <2>4. ContextUnsigned(p, 2, r.index) = Encoded(Join(ab, i))
    BY <1>8, <2>1, <2>2, SmallOctets, WroteNumber
  <2>5. ReadOctets(r, <<>>) = Join(a, Join(b, Join(i, n)))
    BY <1>1, <1>2, <1>3, <1>10, <2>2 DEF ReadOctets, IndexThen
  <2>6. Join(i, n) = i
    BY <1>3, JoinEnd
  <2>7. Join(ab, i) = Join(a, Join(b, i))
    BY <1>7, JoinTwice
  <2> QED
    BY <2>3, <2>4, <2>5, <2>6, <2>7
<1> QED
  BY <1>9, <1>10

LEMMA NotReadable ==
  ASSUME NEW r, ~ValidForEncode(r.object)
  PROVE  MarshalReadProperty(r).err # NoErr
<1>1. PICK o : o = ContextObjectID(NewEncoder, 0, r.object)
  OBVIOUS
<1>2. o.err # NoErr
  <2>1. <<>> \in Seq(Octet)
    BY NoOctets
  <2> QED
    BY <1>1, <2>1, StartEncoding, NotWrote DEF ContextObjectID
<1>3. PICK p : p = ContextUnsigned(o, 1, r.property)
  OBVIOUS
<1>4. p = o
  BY <1>2, <1>3, StaysWrong
<1>5. ContextUnsigned(p, 2, r.index) = p
  BY <1>2, <1>4, StaysWrong
<1>6. MarshalReadProperty(r) = p
  BY <1>1, <1>3, <1>5 DEF MarshalReadProperty
<1> QED
  BY <1>2, <1>4, <1>6
=============================================================================
