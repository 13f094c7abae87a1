--------------------------- MODULE EncodingProofs ----------------------------
(***************************************************************************)
(* Lemmas about module Encoding: what the methods of the Encoder write,    *)
(* those of the Decoder read back, for every number, tag and object ID.    *)
(***************************************************************************)
EXTENDS Encoding, SequenceTheorems, TLAPS

----------------------------------------------------------------------------
(***************************************************************************)
(* Octets.                                                                 *)
(***************************************************************************)

\* The octet of v with weight 256^k.
OctetOf(v, k) == (v \div 256^k) % 256

LEMMA OctetRange == \A x : x \in Octet <=> x \in Nat /\ x < 256
BY DEF Octet

LEMMA OctetOfType ==
  ASSUME NEW v \in Nat
  PROVE  /\ OctetOf(v, 0) \in Octet /\ OctetOf(v, 1) \in Octet
         /\ OctetOf(v, 2) \in Octet /\ OctetOf(v, 3) \in Octet
<1>1. /\ OctetOf(v, 0) \in Nat /\ OctetOf(v, 0) < 256
      /\ OctetOf(v, 1) \in Nat /\ OctetOf(v, 1) < 256
      /\ OctetOf(v, 2) \in Nat /\ OctetOf(v, 2) < 256
      /\ OctetOf(v, 3) \in Nat /\ OctetOf(v, 3) < 256
  BY SMT DEF OctetOf
<1> QED
  BY <1>1, OctetRange

LEMMA BigEndianOctets ==
  ASSUME NEW v \in Nat
  PROVE  /\ BigEndian(v, 1) = <<OctetOf(v, 0)>>
         /\ BigEndian(v, 2) = <<OctetOf(v, 1), OctetOf(v, 0)>>
         /\ BigEndian(v, 3) = <<OctetOf(v, 2), OctetOf(v, 1), OctetOf(v, 0)>>
         /\ BigEndian(v, 4) = <<OctetOf(v, 3), OctetOf(v, 2), OctetOf(v, 1), OctetOf(v, 0)>>
<1>1. BigEndian(v, 1) = <<OctetOf(v, 0)>>
  BY SMT DEF BigEndian, OctetOf
<1>2. BigEndian(v, 2) = <<OctetOf(v, 1), OctetOf(v, 0)>>
  BY SMT DEF BigEndian, OctetOf
<1>3. BigEndian(v, 3) = <<OctetOf(v, 2), OctetOf(v, 1), OctetOf(v, 0)>>
  BY SMT DEF BigEndian, OctetOf
<1>4. BigEndian(v, 4) = <<OctetOf(v, 3), OctetOf(v, 2), OctetOf(v, 1), OctetOf(v, 0)>>
  BY SMT DEF BigEndian, OctetOf
<1> QED
  BY <1>1, <1>2, <1>3, <1>4

LEMMA BigEndianType ==
  ASSUME NEW v \in Nat, NEW n \in 1..4
  PROVE  BigEndian(v, n) \in Seq(Octet) /\ Len(BigEndian(v, n)) = n
<1> DEFINE a == OctetOf(v, 3)
           b == OctetOf(v, 2)
           c == OctetOf(v, 1)
           d == OctetOf(v, 0)
<1>0. a \in Octet /\ b \in Octet /\ c \in Octet /\ d \in Octet
  BY OctetOfType
<1> HIDE DEF a, b, c, d
<1>1. BigEndian(v, 1) \in Seq(Octet) /\ Len(BigEndian(v, 1)) = 1
  <2>1. BigEndian(v, 1) = <<d>>
    BY BigEndianOctets DEF a, b, c, d
  <2>2. <<d>> \in Seq(Octet) /\ Len(<<d>>) = 1
    BY <1>0
  <2> QED
    BY <2>1, <2>2, Zenon
<1>2. BigEndian(v, 2) \in Seq(Octet) /\ Len(BigEndian(v, 2)) = 2
  <2>1. BigEndian(v, 2) = <<c, d>>
    BY BigEndianOctets DEF a, b, c, d
  <2>2. <<c, d>> \in Seq(Octet) /\ Len(<<c, d>>) = 2
    BY <1>0
  <2> QED
    BY <2>1, <2>2, Zenon
<1>3. BigEndian(v, 3) \in Seq(Octet) /\ Len(BigEndian(v, 3)) = 3
  <2>1. BigEndian(v, 3) = <<b, c, d>>
    BY BigEndianOctets DEF a, b, c, d
  <2>2. <<b, c, d>> \in Seq(Octet) /\ Len(<<b, c, d>>) = 3
    BY <1>0
  <2> QED
    BY <2>1, <2>2, Zenon
<1>4. BigEndian(v, 4) \in Seq(Octet) /\ Len(BigEndian(v, 4)) = 4
  <2>1. BigEndian(v, 4) = <<a, b, c, d>>
    BY BigEndianOctets DEF a, b, c, d
  <2>2. <<a, b, c, d>> \in Seq(Octet) /\ Len(<<a, b, c, d>>) = 4
    BY <1>0
  <2> QED
    BY <2>1, <2>2, Zenon
<1>5. n = 1 \/ n = 2 \/ n = 3 \/ n = 4
  OBVIOUS
<1> QED
  BY <1>1, <1>2, <1>3, <1>4, <1>5, Zenon

LEMMA FromBigEndianOctets ==
  ASSUME NEW s \in Seq(Octet)
  PROVE  /\ Len(s) = 1 => FromBigEndian(s) = s[1]
         /\ Len(s) = 2 => FromBigEndian(s) = 256 * s[1] + s[2]
         /\ Len(s) = 3 => FromBigEndian(s) = 256 * (256 * s[1] + s[2]) + s[3]
         /\ Len(s) = 4 =>
              FromBigEndian(s) = 256 * (256 * (256 * s[1] + s[2]) + s[3]) + s[4]
<1> DEFINE IsValue(f) ==
             f = [k \in 0..Len(s) |-> IF k = 0 THEN 0 ELSE 256 * f[k - 1] + s[k]]
           value == CHOOSE f : IsValue(f)
<1>1. FromBigEndian(s) = value[Len(s)]
  BY DEF FromBigEndian
<1>2. \A k \in 1..Len(s) : s[k] \in Nat
  <2>1. \A k \in 1..Len(s) : s[k] \in Octet
    OBVIOUS
  <2> QED
    BY <2>1, OctetRange
<1>3. ASSUME NEW n \in 1..4, Len(s) = n PROVE IsValue(value)
  <2> DEFINE g == [k \in 0..Len(s) |->
                     IF k = 0 THEN 0
                     ELSE IF k = 1 THEN s[1]
                     ELSE IF k = 2 THEN 256 * s[1] + s[2]
                     ELSE IF k = 3 THEN 256 * (256 * s[1] + s[2]) + s[3]
                     ELSE 256 * (256 * (256 * s[1] + s[2]) + s[3]) + s[4]]
  <2>1. ASSUME NEW k \in 0..Len(s)
        PROVE  g[k] = IF k = 0 THEN 0 ELSE 256 * g[k - 1] + s[k]
    <3>1. k = 0 \/ k = 1 \/ k = 2 \/ k = 3 \/ k = 4
      BY <1>3
    <3>2. /\ n >= 1 => s[1] \in Nat
          /\ n >= 2 => s[2] \in Nat
          /\ n >= 3 => s[3] \in Nat
      BY <1>2, <1>3
    <3>3. CASE k = 0
      BY <3>3
    <3>4. CASE k = 1
      BY <1>3, <3>2, <3>4
    <3>5. CASE k = 2
      BY <1>3, <3>2, <3>5
    <3>6. CASE k = 3
      BY <1>3, <3>2, <3>6
    <3>7. CASE k = 4
      BY <1>3, <3>2, <3>7
    <3> QED
      BY <3>1, <3>3, <3>4, <3>5, <3>6, <3>7
  <2>2. IsValue(g)
    BY <2>1
  <2> QED
    BY <2>2
<1>4. ASSUME NEW n \in 1..4, Len(s) = n
      PROVE  \A k \in 0..Len(s) : value[k] = IF k = 0 THEN 0 ELSE 256 * value[k - 1] + s[k]
  <2>1. value = [k \in 0..Len(s) |-> IF k = 0 THEN 0 ELSE 256 * value[k - 1] + s[k]]
    BY <1>3, <1>4
  <2> HIDE DEF value
  <2> QED
    BY <2>1
<1> HIDE DEF value
<1>5. CASE Len(s) = 1
  BY <1>1, <1>2, <1>4, <1>5
<1>6. CASE Len(s) = 2
  BY <1>1, <1>2, <1>4, <1>6
<1>7. CASE Len(s) = 3
  BY <1>1, <1>2, <1>4, <1>7
<1>8. CASE Len(s) = 4
  BY <1>1, <1>2, <1>4, <1>8
<1> QED
  BY <1>5, <1>6, <1>7, <1>8

\* v has no more than n octets.
FitsIn(v, n) ==
  /\ n = 1 => v < 256
  /\ n = 2 => v < 65536
  /\ n = 3 => v < 16777216
  /\ n = 4 => v \div 16777216 < 256

\* Reading a number from its octets gives the number.
LEMMA BigEndianRoundTrip ==
  ASSUME NEW n \in 1..4, NEW v \in Nat, FitsIn(v, n)
  PROVE  FromBigEndian(BigEndian(v, n)) = v
<1> DEFINE s == BigEndian(v, n)
<1>1. s \in Seq(Octet) /\ Len(s) = n
  BY BigEndianType
<1>2. CASE n = 1
  <2>1. s[1] = OctetOf(v, 0)
    BY <1>2, BigEndianOctets
  <2> HIDE DEF s
  <2>2. FromBigEndian(s) = OctetOf(v, 0)
    BY <1>1, <1>2, <2>1, FromBigEndianOctets
  <2>3. OctetOf(v, 0) = v
    BY <1>2 DEF FitsIn, OctetOf
  <2> QED
    BY <2>2, <2>3 DEF s
<1>3. CASE n = 2
  <2>1. s[1] = OctetOf(v, 1) /\ s[2] = OctetOf(v, 0)
    BY <1>3, BigEndianOctets
  <2> HIDE DEF s
  <2>2. FromBigEndian(s) = 256 * OctetOf(v, 1) + OctetOf(v, 0)
    BY <1>1, <1>3, <2>1, FromBigEndianOctets
  <2>3. 256 * OctetOf(v, 1) + OctetOf(v, 0) = v
    BY SMT, <1>3 DEF FitsIn, OctetOf
  <2> QED
    BY <2>2, <2>3 DEF s
<1>4. CASE n = 3
  <2>1. s[1] = OctetOf(v, 2) /\ s[2] = OctetOf(v, 1) /\ s[3] = OctetOf(v, 0)
    BY <1>4, BigEndianOctets
  <2> HIDE DEF s
  <2>2. FromBigEndian(s) = 256 * (256 * OctetOf(v, 2) + OctetOf(v, 1)) + OctetOf(v, 0)
    BY <1>1, <1>4, <2>1, FromBigEndianOctets
  <2>3. 256 * (256 * OctetOf(v, 2) + OctetOf(v, 1)) + OctetOf(v, 0) = v
    BY SMT, <1>4 DEF FitsIn, OctetOf
  <2> QED
    BY <2>2, <2>3 DEF s
<1>5. CASE n = 4
  <2>1. /\ s[1] = OctetOf(v, 3) /\ s[2] = OctetOf(v, 2)
        /\ s[3] = OctetOf(v, 1) /\ s[4] = OctetOf(v, 0)
    BY <1>5, BigEndianOctets
  <2> HIDE DEF s
  <2>2. FromBigEndian(s) = 256 * (256 * (256 * OctetOf(v, 3) + OctetOf(v, 2)) + OctetOf(v, 1))
                             + OctetOf(v, 0)
    BY <1>1, <1>5, <2>1, FromBigEndianOctets
  <2>3. 256 * (256 * (256 * OctetOf(v, 3) + OctetOf(v, 2)) + OctetOf(v, 1)) + OctetOf(v, 0) = v
    BY SMT, <1>5 DEF FitsIn, OctetOf
  <2> QED
    BY <2>2, <2>3 DEF s
<1> QED
  BY <1>2, <1>3, <1>4, <1>5

----------------------------------------------------------------------------
(***************************************************************************)
(* The cursor of a reader.                                                 *)
(***************************************************************************)
Buffers == [bytes : Seq(Octet), off : Nat, canUnread : BOOLEAN]

IsBuffer(b) == b \in Buffers /\ b.off <= Len(b.bytes)

\* The next octets of b are those of s.
At(b, s) ==
  /\ IsBuffer(b) /\ s \in Seq(Octet)
  /\ b.off + Len(s) <= Len(b.bytes)
  /\ \A i \in 1..Len(s) : b.bytes[b.off + i] = s[i]

\* b after a read of n octets.
Behind(b, n) == Cursor(b, b.off + n, TRUE)

LEMMA AtConcat ==
  ASSUME NEW b, NEW s \in Seq(Octet), NEW t \in Seq(Octet), At(b, s \o t)
  PROVE  At(b, s) /\ At(Behind(b, Len(s)), t)
<1>1. /\ Len(s) \in Nat /\ Len(t) \in Nat /\ Len(s \o t) = Len(s) + Len(t)
      /\ \A i \in 1..(Len(s) + Len(t)) :
           (s \o t)[i] = IF i <= Len(s) THEN s[i] ELSE t[i - Len(s)]
  BY ConcatProperties, LenProperties
<1>2. /\ b.bytes \in Seq(Octet) /\ b.off \in Nat /\ Len(b.bytes) \in Nat
      /\ b.off + Len(s) + Len(t) <= Len(b.bytes)
      /\ \A i \in 1..(Len(s) + Len(t)) : b.bytes[b.off + i] = (s \o t)[i]
  BY <1>1, LenProperties DEF At, IsBuffer, Buffers
<1> DEFINE m == Len(s)
           n == Len(t)
<1> HIDE DEF m, n
<1>3. ASSUME NEW i \in 1..m PROVE b.bytes[b.off + i] = s[i]
  <2>1. i \in 1..(m + n) /\ i <= m
    BY <1>1, <1>3 DEF m, n
  <2> QED
    BY <1>1, <1>2, <2>1 DEF m, n
<1>4. ASSUME NEW i \in 1..n PROVE b.bytes[(b.off + m) + i] = t[i]
  <2>1. m + i \in 1..(m + n) /\ ~(m + i <= m) /\ (m + i) - m = i
    BY <1>1, <1>4 DEF m, n
  <2>2. b.bytes[b.off + (m + i)] = t[i]
    BY <1>1, <1>2, <2>1 DEF m, n
  <2>3. b.off + (m + i) = (b.off + m) + i
    BY <1>1, <1>2 DEF m, n
  <2> QED
    BY <2>2, <2>3
<1>5. At(b, s)
  BY <1>1, <1>2, <1>3 DEF At, m
<1>6. At(Behind(b, m), t)
  <2> DEFINE c == Behind(b, m)
  <2>1. c.bytes = b.bytes /\ c.off = b.off + m /\ c \in Buffers
    BY <1>1, <1>2 DEF Behind, Cursor, Buffers, m
  <2> HIDE DEF c
  <2>2. c.off + n <= Len(c.bytes) /\ c.off <= Len(c.bytes)
    BY <1>1, <1>2, <2>1 DEF m, n
  <2>3. \A i \in 1..n : c.bytes[c.off + i] = t[i]
    BY <1>4, <2>1
  <2>4. At(c, t)
    BY <2>1, <2>2, <2>3 DEF At, IsBuffer, n
  <2> QED
    BY <2>4 DEF c
<1> QED
  BY <1>5, <1>6 DEF m

\* What comes next depends on the octets and the offset alone, and not on
\* what is written behind.
LEMMA AtCursor ==
  ASSUME NEW b, NEW s, At(b, s), NEW c, IsBuffer(c), c.off = b.off, c.bytes = b.bytes
  PROVE  At(c, s)
BY DEF At

LEMMA AtLonger ==
  ASSUME NEW b, NEW s, At(b, s), NEW c, IsBuffer(c), c.off = b.off, NEW x \in Seq(Octet),
         c.bytes = b.bytes \o x
  PROVE  At(c, s)
<1> DEFINE m == Len(s)
           n == Len(b.bytes)
<1>1. /\ b.bytes \in Seq(Octet) /\ n \in Nat /\ Len(x) \in Nat /\ m \in Nat
      /\ b.off \in Nat /\ b.off + m <= n /\ s \in Seq(Octet)
  BY LenProperties DEF At, IsBuffer, Buffers
<1>2. /\ Len(c.bytes) = n + Len(x)
      /\ \A i \in 1..(n + Len(x)) :
           c.bytes[i] = IF i <= n THEN b.bytes[i] ELSE x[i - n]
  BY <1>1, ConcatProperties
<1> HIDE DEF m, n
<1>3. ASSUME NEW i \in 1..m PROVE c.bytes[c.off + i] = s[i]
  <2>1. b.off + i \in 1..(n + Len(x)) /\ b.off + i <= n
    BY <1>1
  <2>2. b.bytes[b.off + i] = s[i]
    BY DEF At, m
  <2> QED
    BY <1>2, <2>1, <2>2
<1> QED
  BY <1>1, <1>2, <1>3 DEF At, m

LEMMA AtEnd ==
  ASSUME NEW x \in Seq(Octet), NEW s \in Seq(Octet), NEW b \in Buffers,
         b.bytes = x \o s, b.off = Len(x)
  PROVE  At(b, s)
<1> DEFINE m == Len(s)
           n == Len(x)
<1>1. /\ n \in Nat /\ m \in Nat /\ Len(b.bytes) = n + m
      /\ \A i \in 1..(n + m) : b.bytes[i] = IF i <= n THEN x[i] ELSE s[i - n]
  BY ConcatProperties, LenProperties
<1>2. b.off = n
  OBVIOUS
<1> HIDE DEF m, n
<1>3. ASSUME NEW i \in 1..m PROVE b.bytes[b.off + i] = s[i]
  <2>1. n + i \in 1..(n + m) /\ ~(n + i <= n) /\ (n + i) - n = i
    BY <1>1
  <2> QED
    BY <1>1, <1>2, <2>1
<1> QED
  BY <1>1, <1>2, <1>3 DEF At, IsBuffer, m

LEMMA AtSubSeq ==
  ASSUME NEW b, NEW s, At(b, s)
  PROVE  SubSeq(b.bytes, b.off + 1, b.off + Len(s)) = s
<1> DEFINE u == SubSeq(b.bytes, b.off + 1, b.off + Len(s))
           n == Len(s)
<1>1. /\ b.bytes \in Seq(Octet) /\ s \in Seq(Octet) /\ b.off \in Nat /\ n \in Nat
      /\ Len(b.bytes) \in Nat /\ b.off + n <= Len(b.bytes)
      /\ \A i \in 1..n : b.bytes[b.off + i] = s[i]
  BY LenProperties DEF At, IsBuffer, Buffers
<1> HIDE DEF n
<1>2. \A i \in (b.off + 1)..(b.off + n) : b.bytes[i] \in Octet
  <2>1. \A i \in 1..Len(b.bytes) : b.bytes[i] \in Octet
    BY <1>1, ElementOfSeq
  <2> QED
    BY <1>1, <2>1
<1>3. b.off + 1 \in Int /\ b.off + n \in Int
  BY <1>1
<1>4. /\ u \in Seq(Octet)
      /\ Len(u) = IF b.off + 1 <= b.off + n THEN (b.off + n) - (b.off + 1) + 1 ELSE 0
      /\ \A i \in 1..((b.off + n) - (b.off + 1) + 1) : u[i] = b.bytes[(b.off + 1) + i - 1]
  BY <1>2, <1>3, SubSeqProperties DEF n
<1> HIDE DEF u
<1>5. Len(u) = n
  BY <1>1, <1>4
<1>6. ASSUME NEW i \in 1..n PROVE u[i] = s[i]
  <2>1. i \in 1..((b.off + n) - (b.off + 1) + 1) /\ (b.off + 1) + i - 1 = b.off + i
    BY <1>1
  <2> QED
    BY <1>1, <1>4, <2>1
<1>7. u = s
  BY <1>1, <1>4, <1>5, <1>6, SeqEqual DEF n
<1> QED
  BY <1>7 DEF u

LEMMA BehindBuffer ==
  ASSUME NEW b, IsBuffer(b), NEW n \in Nat, b.off + n <= Len(b.bytes)
  PROVE  IsBuffer(Behind(b, n))
BY DEF IsBuffer, Buffers, Behind, Cursor

LEMMA BehindTwice ==
  ASSUME NEW b, IsBuffer(b), NEW m \in Nat, NEW n \in Nat
  PROVE  Behind(Behind(b, m), n) = Behind(b, m + n)
<1>1. (b.off + m) + n = b.off + (m + n)
  BY DEF IsBuffer, Buffers
<1> QED
  BY <1>1 DEF Behind, Cursor

LEMMA ReadUintAt ==
  ASSUME NEW b, NEW n \in 1..4, NEW v \in Nat, FitsIn(v, n), At(b, BigEndian(v, n))
  PROVE  ReadUint(b, n) = [ok |-> TRUE, val |-> v, buf |-> Behind(b, n)]
<1>1. Len(BigEndian(v, n)) = n
  BY BigEndianType
<1>2. FromBigEndian(SubSeq(b.bytes, b.off + 1, b.off + n)) = v
  BY <1>1, AtSubSeq, BigEndianRoundTrip
<1>3. /\ b \in Buffers /\ b.off \in Nat /\ Len(b.bytes) \in Nat /\ b.off + n <= Len(b.bytes)
  BY <1>1, LenProperties DEF At, IsBuffer, Buffers
<1>4. n <= Len(b.bytes) - b.off
  BY <1>3
<1> QED
  BY <1>2, <1>4 DEF ReadUint, Behind

LEMMA ReadOctetAt ==
  ASSUME NEW b, NEW x \in Octet, At(b, <<x>>)
  PROVE  ReadUint(b, 1) = [ok |-> TRUE, val |-> x, buf |-> Behind(b, 1)]
<1>1. x \in Nat /\ x < 256
  BY OctetRange
<1>2. OctetOf(x, 0) = x
  BY <1>1 DEF OctetOf
<1>3. BigEndian(x, 1) = <<x>>
  BY <1>1, <1>2, BigEndianOctets
<1>4. FitsIn(x, 1)
  BY <1>1 DEF FitsIn
<1>5. 1 \in 1..4
  OBVIOUS
<1> QED
  BY <1>1, <1>3, <1>4, <1>5, ReadUintAt

----------------------------------------------------------------------------
(***************************************************************************)
(* Tags.                                                                   *)
(***************************************************************************)
Tags ==
  {t \in [id : Octet, context : BOOLEAN, value : Uint32, opening : BOOLEAN, closing : BOOLEAN] :
     /\ t.opening => t.value = 0 /\ ~t.closing
     /\ t.closing => t.value = 0}


LEMMA TagFacts ==
  ASSUME NEW t \in Tags
  PROVE  /\ t.id \in Nat /\ t.id < 256 /\ t.context \in BOOLEAN
         /\ t.value \in Nat /\ t.value \div 16777216 < 256
         /\ t.opening \in BOOLEAN /\ t.closing \in BOOLEAN
         /\ t.opening => t.value = 0 /\ ~t.closing
         /\ t.closing => t.value = 0
         /\ t = [id |-> t.id, context |-> t.context, value |-> t.value,
                 opening |-> t.opening, closing |-> t.closing]
BY SMT, OctetRange DEF Tags, Uint32

LEMMA MetaFacts ==
  ASSUME NEW t \in Tags
  PROVE  /\ LowBits(t) \in Nat /\ LowBits(t) < 8
         /\ Meta(t) = LowBits(t) + 8 \/ Meta(t) = LowBits(t)
         /\ t.context <=> Meta(t) = LowBits(t) + 8
<1>1. LowBits(t) \in Nat /\ LowBits(t) < 8
  BY TagFacts DEF LowBits
<1>2. CASE t.context
  BY <1>1, <1>2 DEF Meta
<1>3. CASE ~t.context
  BY <1>1, <1>3 DEF Meta
<1> QED
  BY <1>1, <1>2, <1>3

LEMMA IDOctetsType ==
  ASSUME NEW t \in Tags
  PROVE  /\ IDOctets(t) \in Seq(Octet)
         /\ Len(IDOctets(t)) = 1 \/ Len(IDOctets(t)) = 2
<1> DEFINE m == Meta(t)
<1>1. m \in Nat /\ m < 16 /\ t.id \in Nat /\ t.id < 256
  BY MetaFacts, TagFacts
<1> HIDE DEF m
<1>2. CASE t.id <= 14
  <2>1. 16 * t.id + m \in Octet
    BY <1>1, <1>2, OctetRange
  <2>2. <<16 * t.id + m>> \in Seq(Octet) /\ Len(<<16 * t.id + m>>) = 1
    BY <2>1
  <2>3. IDOctets(t) = <<16 * t.id + m>>
    BY <1>2 DEF IDOctets, m
  <2> QED
    BY <2>2, <2>3
<1>3. CASE ~(t.id <= 14)
  <2>1. 240 + m \in Octet /\ t.id \in Octet
    BY <1>1, OctetRange
  <2>2. <<240 + m, t.id>> \in Seq(Octet) /\ Len(<<240 + m, t.id>>) = 2
    BY <2>1
  <2>3. IDOctets(t) = <<240 + m, t.id>>
    BY <1>3 DEF IDOctets, m
  <2> QED
    BY <2>2, <2>3
<1> QED
  BY <1>2, <1>3

LEMMA LengthOctetsType ==
  ASSUME NEW v \in Nat
  PROVE  LengthOctets(v) \in Seq(Octet) /\ Len(LengthOctets(v)) \in Nat
<1>1. 254 \in Octet /\ 255 \in Octet
  BY OctetRange
<1>2. /\ BigEndian(v, 2) \in Seq(Octet) /\ BigEndian(v, 4) \in Seq(Octet)
  BY BigEndianType
<1>3. <<254>> \in Seq(Octet) /\ <<255>> \in Seq(Octet)
  BY <1>1
<1>4. <<254>> \o BigEndian(v, 2) \in Seq(Octet) /\ <<255>> \o BigEndian(v, 4) \in Seq(Octet)
  BY <1>2, <1>3, ConcatProperties
<1>5. CASE v <= 4
  BY <1>5 DEF LengthOctets
<1>6. CASE ~(v <= 4) /\ v < 254
  <2>1. v \in Octet
    BY <1>6, OctetRange
  <2>2. LengthOctets(v) = <<v>>
    BY <1>6 DEF LengthOctets, Flag16
  <2> QED
    BY <2>1, <2>2
<1>7. CASE ~(v < 254)
  <2>1. \/ LengthOctets(v) = <<254>> \o BigEndian(v, 2)
        \/ LengthOctets(v) = <<255>> \o BigEndian(v, 4)
    BY <1>7 DEF LengthOctets, Flag16, Flag32
  <2>2. LengthOctets(v) \in Seq(Octet)
    BY <1>4, <2>1, Zenon
  <2> QED
    BY <2>2, LenProperties
<1> QED
  BY <1>5, <1>6, <1>7

LEMMA TagType ==
  ASSUME NEW t \in Tags
  PROVE  /\ EncodeTag(t) \in Seq(Octet)
         /\ Len(EncodeTag(t)) = Len(IDOctets(t)) + Len(LengthOctets(t.value))
         /\ Len(EncodeTag(t)) \in Nat /\ Len(EncodeTag(t)) >= 1
<1>1. t.value \in Nat
  BY TagFacts
<1>2. LengthOctets(t.value) \in Seq(Octet) /\ Len(LengthOctets(t.value)) \in Nat
  BY <1>1, LengthOctetsType
<1>3. IDOctets(t) \in Seq(Octet) /\ (Len(IDOctets(t)) = 1 \/ Len(IDOctets(t)) = 2)
  BY IDOctetsType
<1>4. /\ EncodeTag(t) \in Seq(Octet)
      /\ Len(EncodeTag(t)) = Len(IDOctets(t)) + Len(LengthOctets(t.value))
  BY <1>2, <1>3, ConcatProperties DEF EncodeTag
<1>5. ASSUME NEW m, NEW n, NEW l, m = 1 \/ m = 2, n \in Nat, l = m + n
      PROVE  l \in Nat /\ l >= 1
  BY <1>5
<1> QED
  BY <1>2, <1>3, <1>4, <1>5

\* What the first octet of a tag says.
LEMMA FirstOctet ==
  ASSUME NEW t \in Tags, NEW x,
         x = IDOctets(t)[1]
  PROVE  /\ x \in Octet
         /\ x % 8 = LowBits(t)
         /\ ((x \div 8) % 2 = 1) = t.context
         /\ t.id <= 14 => x \div 16 = t.id
         /\ ~(t.id <= 14) => x \div 16 = 15
<1> DEFINE m == Meta(t)
           l == LowBits(t)
           i == t.id
           c == t.context
<1>1. /\ l \in Nat /\ l < 8 /\ (m = l + 8 \/ m = l) /\ (c <=> m = l + 8)
      /\ i \in Nat /\ i < 256 /\ c \in BOOLEAN
  BY MetaFacts, TagFacts
<1>2. x = IF i <= 14 THEN 16 * i + m ELSE 240 + m
  BY DEF IDOctets
<1> HIDE DEF m, l, i, c
<1>3. x = 16 * (IF i <= 14 THEN i ELSE 15) + m
  BY <1>1, <1>2
<1> DEFINE k == IF i <= 14 THEN i ELSE 15
<1>4. k \in Nat /\ k <= 15 /\ x = 16 * k + m
  BY <1>1, <1>3
<1> HIDE DEF k
<1>5. /\ x \in Nat /\ x < 256 /\ x % 8 = l /\ x \div 16 = k
      /\ m = l + 8 => (x \div 8) % 2 = 1
      /\ m = l => (x \div 8) % 2 = 0
  BY <1>1, <1>4
<1>6. ((x \div 8) % 2 = 1) = c
  BY <1>1, <1>5
<1>7. x \in Octet
  BY <1>5, OctetRange
<1> QED
  BY <1>5, <1>6, <1>7 DEF k, l, i, c

LEMMA TagIDAt ==
  ASSUME NEW t \in Tags, NEW b, At(b, IDOctets(t))
  PROVE  /\ ReadUint(b, 1) = [ok |-> TRUE, val |-> IDOctets(t)[1], buf |-> Behind(b, 1)]
         /\ TagID(ReadUint(b, 1)) =
              [ok |-> TRUE, val |-> t.id, buf |-> Behind(b, Len(IDOctets(t)))]
<1> DEFINE x == IDOctets(t)[1]
<1>1. /\ x \in Octet
      /\ t.id <= 14 => x \div 16 = t.id
      /\ ~(t.id <= 14) => x \div 16 = 15
  BY FirstOctet
<1>2. /\ t.id <= 14 => IDOctets(t) = <<x>>
      /\ ~(t.id <= 14) => IDOctets(t) = <<x>> \o <<t.id>>
  BY DEF IDOctets
<1>3. IsBuffer(b) /\ t.id \in Octet /\ t.id \in Nat
  BY TagFacts, OctetRange DEF At
<1> HIDE DEF x
<1>4. ASSUME At(b, <<x>>)
      PROVE  ReadUint(b, 1) = [ok |-> TRUE, val |-> x, buf |-> Behind(b, 1)]
  BY <1>1, <1>4, ReadOctetAt
<1>5. CASE t.id <= 14
  <2>1. IDOctets(t) = <<x>> /\ x \div 16 # 15 /\ x \div 16 = t.id
    BY <1>1, <1>2, <1>3, <1>5
  <2>2. Len(<<x>>) = 1
    OBVIOUS
  <2>3. ReadUint(b, 1) = [ok |-> TRUE, val |-> x, buf |-> Behind(b, 1)]
    BY <1>4, <2>1, Zenon
  <2>4. ASSUME NEW c
        PROVE  TagID([ok |-> TRUE, val |-> x, buf |-> c]) =
                 [ok |-> TRUE, val |-> x \div 16, buf |-> c]
    BY <2>1 DEF TagID
  <2>5. TagID(ReadUint(b, 1)) = [ok |-> TRUE, val |-> t.id, buf |-> Behind(b, 1)]
    BY <2>1, <2>3, <2>4, Zenon
  <2> QED
    BY <2>1, <2>2, <2>3, <2>5, Zenon DEF x
<1>6. CASE ~(t.id <= 14)
  <2>1. IDOctets(t) = <<x>> \o <<t.id>> /\ x \div 16 = 15
    BY <1>1, <1>2, <1>6, Zenon
  <2>2. <<x>> \in Seq(Octet) /\ <<t.id>> \in Seq(Octet)
    BY <1>1, <1>3
  <2>3. At(b, <<x>> \o <<t.id>>)
    BY <2>1, Zenon
  <2>4. Len(<<x>>) = 1 /\ Len(<<x>> \o <<t.id>>) = 2
    OBVIOUS
  <2>5. At(b, <<x>>) /\ At(Behind(b, 1), <<t.id>>)
    BY <2>2, <2>3, <2>4, AtConcat, Zenon
  <2>6. ReadUint(b, 1) = [ok |-> TRUE, val |-> x, buf |-> Behind(b, 1)]
    BY <1>4, <2>5
  <2>7. ReadUint(Behind(b, 1), 1) =
          [ok |-> TRUE, val |-> t.id, buf |-> Behind(Behind(b, 1), 1)]
    BY <1>3, <2>5, ReadOctetAt
  <2>8. Behind(Behind(b, 1), 1) = Behind(b, 2)
    BY <1>3, BehindTwice
  <2>9. TagID(ReadUint(b, 1)) = ReadUint(Behind(b, 1), 1)
    BY <2>1, <2>6 DEF TagID
  <2>10. Len(IDOctets(t)) = 2
    BY <2>1, <2>4, Zenon
  <2> QED
    BY <2>6, <2>7, <2>8, <2>9, <2>10, Zenon DEF x
<1> QED
  BY <1>5, <1>6

LEMMA LengthAt ==
  ASSUME NEW v \in Uint32, v > 4, NEW b, At(b, LengthOctets(v))
  PROVE  ExtendedValue(ReadUint(b, 1)) =
           [ok |-> TRUE, val |-> v, buf |-> Behind(b, Len(LengthOctets(v)))]
<1>1. IsBuffer(b) /\ v \in Nat /\ FitsIn(v, 4)
  BY DEF At, Uint32, FitsIn
<1>2. 254 \in Octet /\ 255 \in Octet
  BY OctetRange
<1>3. ASSUME NEW x \in Octet, NEW n \in 1..4,
             At(b, <<x>> \o BigEndian(v, n)), FitsIn(v, n)
      PROVE  /\ ReadUint(b, 1) = [ok |-> TRUE, val |-> x, buf |-> Behind(b, 1)]
             /\ ReadUint(Behind(b, 1), n) =
                  [ok |-> TRUE, val |-> v, buf |-> Behind(b, 1 + n)]
             /\ Len(<<x>> \o BigEndian(v, n)) = 1 + n
  <2>1. <<x>> \in Seq(Octet) /\ BigEndian(v, n) \in Seq(Octet) /\ Len(<<x>>) = 1
    BY <1>1, BigEndianType
  <2>2. Len(BigEndian(v, n)) = n
    BY <1>1, BigEndianType
  <2>3. At(b, <<x>>) /\ At(Behind(b, 1), BigEndian(v, n))
    BY <1>3, <2>1, AtConcat, Zenon
  <2>4. ReadUint(b, 1) = [ok |-> TRUE, val |-> x, buf |-> Behind(b, 1)]
    BY <2>3, ReadOctetAt
  <2>5. ReadUint(Behind(b, 1), n) =
          [ok |-> TRUE, val |-> v, buf |-> Behind(Behind(b, 1), n)]
    BY <1>1, <1>3, <2>3, ReadUintAt
  <2>6. Behind(Behind(b, 1), n) = Behind(b, 1 + n)
    BY <1>1, BehindTwice
  <2>7. Len(<<x>> \o BigEndian(v, n)) = Len(<<x>>) + Len(BigEndian(v, n))
    BY <2>1, ConcatProperties
  <2> QED
    BY <2>1, <2>2, <2>4, <2>5, <2>6, <2>7, Zenon
<1> DEFINE Short == v <= 65535
<1> HIDE DEF Short
<1>4. CASE v < 254
  <2>1. LengthOctets(v) = <<v>> /\ v \in Octet
    BY <1>1, <1>4, OctetRange DEF LengthOctets, Flag16
  <2>2. At(b, <<v>>)
    BY <2>1, Zenon
  <2>3. ReadUint(b, 1) = [ok |-> TRUE, val |-> v, buf |-> Behind(b, 1)]
    BY <2>1, <2>2, ReadOctetAt
  <2>4. ASSUME NEW c
        PROVE  ExtendedValue([ok |-> TRUE, val |-> v, buf |-> c]) =
                 [ok |-> TRUE, val |-> v, buf |-> c]
    BY <1>1, <1>4 DEF ExtendedValue, Flag16, Flag32
  <2>5. Len(<<v>>) = 1
    OBVIOUS
  <2> QED
    BY <2>1, <2>3, <2>4, <2>5, Zenon
<1>5. CASE ~(v < 254) /\ Short
  <2>1. LengthOctets(v) = <<254>> \o BigEndian(v, 2) /\ FitsIn(v, 2) /\ 2 \in 1..4
    BY <1>1, <1>5 DEF LengthOctets, Flag16, FitsIn, Short
  <2>2. At(b, <<254>> \o BigEndian(v, 2))
    BY <2>1, Zenon
  <2>3. /\ ReadUint(b, 1) = [ok |-> TRUE, val |-> 254, buf |-> Behind(b, 1)]
        /\ ReadUint(Behind(b, 1), 2) = [ok |-> TRUE, val |-> v, buf |-> Behind(b, 1 + 2)]
        /\ Len(LengthOctets(v)) = 1 + 2
    BY <1>2, <1>3, <2>1, <2>2, Zenon
  <2>4. ExtendedValue(ReadUint(b, 1)) = ReadUint(Behind(b, 1), 2)
    BY <2>3 DEF ExtendedValue, Flag16
  <2> QED
    BY <2>3, <2>4, Zenon
<1>6. CASE ~(v < 254) /\ ~Short
  <2>1. LengthOctets(v) = <<255>> \o BigEndian(v, 4) /\ 4 \in 1..4
    BY <1>1, <1>6 DEF LengthOctets, Flag16, Flag32, Short
  <2>2. At(b, <<255>> \o BigEndian(v, 4))
    BY <2>1, Zenon
  <2>3. /\ ReadUint(b, 1) = [ok |-> TRUE, val |-> 255, buf |-> Behind(b, 1)]
        /\ ReadUint(Behind(b, 1), 4) = [ok |-> TRUE, val |-> v, buf |-> Behind(b, 1 + 4)]
        /\ Len(LengthOctets(v)) = 1 + 4
    BY <1>1, <1>2, <1>3, <2>1, <2>2, Zenon
  <2>4. ExtendedValue(ReadUint(b, 1)) = ReadUint(Behind(b, 1), 4)
    BY <2>3 DEF ExtendedValue, Flag16, Flag32
  <2> QED
    BY <2>3, <2>4, Zenon
<1> QED
  BY <1>4, <1>5, <1>6, Zenon

LEMMA TagValueAt ==
  ASSUME NEW t \in Tags, NEW b, IsBuffer(b), NEW m \in Nat,
         At(Behind(b, m), LengthOctets(t.value))
  PROVE  TagValue(LowBits(t), [ok |-> TRUE, val |-> t.id, buf |-> Behind(b, m)]) =
           [ok |-> TRUE, val |-> t.value, buf |-> Behind(b, m + Len(LengthOctets(t.value)))]
<1> DEFINE c == Behind(b, m)
           n == Len(LengthOctets(t.value))
<1>1. t.value \in Uint32 /\ t.value \in Nat /\ n \in Nat
  BY TagFacts, LengthOctetsType DEF Uint32
<1>2. CASE t.value > 4
  <2>1. LowBits(t) = 5
    BY <1>1, <1>2, TagFacts DEF LowBits
  <2>2. TagValue(LowBits(t), [ok |-> TRUE, val |-> t.id, buf |-> c]) =
          ExtendedValue(ReadUint(c, 1))
    BY <2>1 DEF TagValue
  <2>3. ExtendedValue(ReadUint(c, 1)) = [ok |-> TRUE, val |-> t.value, buf |-> Behind(c, n)]
    BY <1>1, <1>2, LengthAt
  <2>4. Behind(c, n) = Behind(b, m + n)
    BY <1>1, BehindTwice
  <2> QED
    BY <2>2, <2>3, <2>4, Zenon
<1>3. CASE ~(t.value > 4)
  <2>1. LengthOctets(t.value) = <<>> /\ n = 0
    BY <1>1, <1>3 DEF LengthOctets
  <2>2. LowBits(t) # 5 /\ t.value = IF LowBits(t) < 5 THEN LowBits(t) ELSE 0
    BY <1>1, <1>3, TagFacts DEF LowBits
  <2>3. TagValue(LowBits(t), [ok |-> TRUE, val |-> t.id, buf |-> c]) =
          [ok |-> TRUE, val |-> t.value, buf |-> c]
    BY <2>2 DEF TagValue
  <2>4. m + n = m
    BY <2>1
  <2> QED
    BY <2>3, <2>4, Zenon
<1> QED
  BY <1>2, <1>3

\* Reading a tag from its octets gives the tag.
LEMMA DecodeTagAt ==
  ASSUME NEW t \in Tags, NEW b, At(b, EncodeTag(t))
  PROVE  DecodeTag(b) = [ok  |-> TRUE,
                         len |-> Len(EncodeTag(t)),
                         tag |-> t,
                         buf |-> Behind(b, Len(EncodeTag(t)))]
<1> DEFINE x == IDOctets(t)[1]
           m == Len(IDOctets(t))
           n == Len(LengthOctets(t.value))
           l == Len(EncodeTag(t))
           id == [ok |-> TRUE, val |-> t.id, buf |-> Behind(b, m)]
           value == [ok |-> TRUE, val |-> t.value, buf |-> Behind(b, l)]
<1>1. /\ IDOctets(t) \in Seq(Octet) /\ LengthOctets(t.value) \in Seq(Octet)
      /\ IsBuffer(b) /\ m \in Nat /\ n \in Nat /\ l = m + n /\ l \in Nat
  BY TagFacts, IDOctetsType, LengthOctetsType, TagType DEF At
<1>2. At(b, IDOctets(t)) /\ At(Behind(b, m), LengthOctets(t.value))
  BY <1>1, AtConcat DEF EncodeTag
<1>3. TagID(ReadUint(b, 1)) = id /\ ReadUint(b, 1).val = x
  BY <1>2, TagIDAt
<1>4. TagValue(LowBits(t), id) = value
  BY <1>1, <1>2, TagValueAt, Zenon
<1>5. x % 8 = LowBits(t) /\ ((x \div 8) % 2 = 1) = t.context
  BY FirstOctet
<1>6. DecodeTag(b) = TagWith(LowBits(t), t.context, t.id, value, b.off)
  <2>1. DecodeTag(b) = TagBehind(x, id, b.off)
    BY <1>3, Zenon DEF DecodeTag, TagFrom
  <2>2. id.val = t.id
    OBVIOUS
  <2> HIDE DEF id
  <2>3. TagBehind(x, id, b.off) = TagWith(LowBits(t), t.context, t.id, value, b.off)
    BY <1>4, <1>5, <2>2, Zenon DEF TagBehind
  <2> QED
    BY <2>1, <2>3
<1>7. (LowBits(t) = 6) = t.opening /\ (LowBits(t) = 7) = t.closing
  BY TagFacts DEF LowBits
<1>8. value.buf.off - b.off = l
  BY <1>1 DEF Behind, Cursor, IsBuffer, Buffers
<1>9. Tag(t.id, t.context, t.value, LowBits(t) = 6, LowBits(t) = 7) = t
  <2>1. t = [id |-> t.id, context |-> t.context, value |-> t.value,
             opening |-> t.opening, closing |-> t.closing]
    BY TagFacts
  <2> QED
    BY <1>7, <2>1, Zenon DEF Tag
<1>10. value.ok = TRUE /\ value.val = t.value /\ value.buf = Behind(b, l)
  OBVIOUS
<1> HIDE DEF value, l
<1> QED
  BY <1>6, <1>8, <1>9, <1>10, Zenon DEF TagWith, l

LEMMA TagsBuilt ==
  ASSUME NEW id \in Octet, NEW v \in Uint32
  PROVE  /\ AppTag(id, v) \in Tags /\ ContextTag(id, v) \in Tags
         /\ OpeningTag(id) \in Tags /\ ClosingTag(id) \in Tags
<1>1. 0 \in Uint32
  BY DEF Uint32
<1> QED
  BY <1>1 DEF Tags, Tag, AppTag, ContextTag, OpeningTag, ClosingTag

LEMMA UnreadTag ==
  ASSUME NEW b, IsBuffer(b), NEW n \in Nat, n >= 1
  PROVE  /\ Unread(Behind(b, n), n).ok = (n = 1)
         /\ Unread(Behind(b, n), n).buf = Cursor(b, b.off + n - 1, FALSE)
         /\ n = 1 => b.off + n - 1 = b.off
<1>1. b.off \in Nat
  BY DEF IsBuffer, Buffers
<1>2. /\ Behind(b, n).off = b.off + n /\ Behind(b, n).canUnread = TRUE
      /\ Behind(b, n).bytes = b.bytes
  BY DEF Behind, Cursor
<1>3. b.off + n - 1 = (b.off + n) - 1 /\ (n = 1 => b.off + n - 1 = b.off)
  BY <1>1
<1>4. (n = 0 \/ (n = 1 /\ TRUE)) = (n = 1) /\ n > 0
  OBVIOUS
<1>5. Unread(Behind(b, n), n).ok = (n = 1)
  BY <1>2, <1>4 DEF Unread
<1>6. Unread(Behind(b, n), n).buf = Cursor(Behind(b, n), Behind(b, n).off - 1, FALSE)
  BY <1>2, <1>4 DEF Unread
<1>7. Cursor(Behind(b, n), Behind(b, n).off - 1, FALSE) = Cursor(b, b.off + n - 1, FALSE)
  BY <1>2, <1>3, Zenon DEF Cursor
<1> QED
  BY <1>3, <1>5, <1>6, <1>7, Zenon

----------------------------------------------------------------------------
(***************************************************************************)
(* Values.                                                                 *)
(***************************************************************************)

LEMMA LengthOfValue ==
  ASSUME NEW v \in Uint32
  PROVE  /\ v \in Nat /\ ValueLength(v) \in 1..4 /\ FitsIn(v, ValueLength(v))
         /\ ValueLength(v) \in Uint32 /\ 4 \in Uint32
         /\ FitsIn(v, 4)
BY DEF Uint32, ValueLength, FitsIn

LEMMA UnsignedType ==
  ASSUME NEW v \in Uint32
  PROVE  Unsigned(v) \in Seq(Octet) /\ Len(Unsigned(v)) = ValueLength(v)
BY LengthOfValue, BigEndianType DEF Unsigned

LEMMA UnsignedAt ==
  ASSUME NEW v \in Uint32, NEW b, At(b, Unsigned(v))
  PROVE  DecodeUnsigned(b, ValueLength(v)) =
           [ok |-> TRUE, val |-> v, buf |-> Behind(b, ValueLength(v))]
BY LengthOfValue, ReadUintAt DEF Unsigned, DecodeUnsigned

\* The object IDs the encoder takes, the maximum of a type aside.
ValidObject(o) ==
  /\ o.type \in Nat /\ o.instance \in Nat
  /\ o.type < MaxObjectType /\ o.instance <= MaxInstance
  /\ o = [type |-> o.type, instance |-> o.instance]

LEMMA Objects ==
  ASSUME NEW o \in [type : Uint32 \ {MaxObjectType}, instance : Uint32]
  PROVE  ValidForEncode(o) <=> ValidObject(o)
<1>1. /\ o.type \in Nat /\ o.type # MaxObjectType /\ o.instance \in Nat
      /\ o = [type |-> o.type, instance |-> o.instance]
  BY DEF Uint32
<1>2. MaxObjectType \in Nat
  BY DEF MaxObjectType, TypeBits
<1>3. o.type <= MaxObjectType <=> o.type < MaxObjectType
  BY <1>1, <1>2
<1> QED
  BY <1>1, <1>3, Zenon DEF ValidObject, ValidForEncode

LEMMA ObjectRoundTrip ==
  ASSUME NEW o, ValidObject(o)
  PROVE  /\ EncodeObjectID(o) \in Uint32
         /\ ObjectIDFromUint32(EncodeObjectID(o)) = o
<1> DEFINE t == o.type
           i == o.instance
<1>1. t \in Nat /\ i \in Nat /\ t < 1024 /\ i < 4194304
  BY DEF ValidObject, MaxObjectType, MaxInstance, InstanceBits, TypeBits
<1> HIDE DEF t, i
<1>2. EncodeObjectID(o) = t * 4194304 + i
  BY <1>1 DEF EncodeObjectID, InstanceBits, TypeBits, t, i
<1>3. t * 4194304 + i \in Uint32
  BY <1>1 DEF Uint32
<1>4. (t * 4194304 + i) \div 4194304 = t /\ (t * 4194304 + i) % 4194304 = i
  BY <1>1
<1>5. ObjectIDFromUint32(t * 4194304 + i) = [type |-> t, instance |-> i]
  BY <1>4 DEF ObjectIDFromUint32, InstanceBits
<1>6. o = [type |-> t, instance |-> i]
  BY DEF ValidObject, t, i
<1> QED
  BY <1>2, <1>3, <1>5, <1>6

----------------------------------------------------------------------------
(***************************************************************************)
(* The methods of the Decoder, at the octets that those of the Encoder     *)
(* wrote.                                                                  *)
(***************************************************************************)
Fresh(b) == [buf |-> b, err |-> NoErr]

LEMMA TaggedAt ==
  ASSUME NEW t \in Tags, NEW s \in Seq(Octet), NEW b, At(b, EncodeTag(t) \o s),
         NEW c, c = Behind(b, Len(EncodeTag(t)))
  PROVE  /\ DecodeTag(b) = [ok |-> TRUE, len |-> Len(EncodeTag(t)), tag |-> t, buf |-> c]
         /\ EncodeTag(t) \o s \in Seq(Octet)
         /\ At(b, EncodeTag(t)) /\ At(c, s)
         /\ Behind(c, Len(s)) = Behind(b, Len(EncodeTag(t) \o s))
<1> DEFINE l == Len(EncodeTag(t))
<1>1. EncodeTag(t) \in Seq(Octet) /\ l \in Nat /\ Len(s) \in Nat /\ IsBuffer(b)
  BY TagType, LenProperties DEF At
<1>2. At(b, EncodeTag(t)) /\ At(Behind(b, l), s)
  BY <1>1, AtConcat
<1>3. Len(EncodeTag(t) \o s) = l + Len(s) /\ EncodeTag(t) \o s \in Seq(Octet)
  BY <1>1, ConcatProperties
<1>4. Behind(Behind(b, l), Len(s)) = Behind(b, l + Len(s))
  BY <1>1, BehindTwice
<1> QED
  BY <1>1, <1>2, <1>3, <1>4, DecodeTagAt, Zenon

LEMMA ContextValueAt ==
  ASSUME NEW id \in Octet, NEW v \in Uint32, NEW b,
         At(b, EncodeTag(ContextTag(id, ValueLength(v))) \o Unsigned(v))
  PROVE  ContextValue(Fresh(b), id) =
           Result(Behind(b, Len(EncodeTag(ContextTag(id, ValueLength(v))) \o Unsigned(v))),
                  NoErr, v)
<1> DEFINE t == ContextTag(id, ValueLength(v))
           s == EncodeTag(t) \o Unsigned(v)
           c == Behind(b, Len(EncodeTag(t)))
<1>1. /\ t \in Tags /\ Unsigned(v) \in Seq(Octet) /\ Len(Unsigned(v)) = ValueLength(v)
      /\ t.id = id /\ t.context = TRUE /\ t.value = ValueLength(v)
      /\ At(b, EncodeTag(t) \o Unsigned(v))
  BY TagsBuilt, LengthOfValue, UnsignedType DEF ContextTag, Tag
<1> HIDE DEF t
<1>2. /\ DecodeTag(b) = [ok |-> TRUE, len |-> Len(EncodeTag(t)), tag |-> t, buf |-> c]
      /\ At(c, Unsigned(v)) /\ Behind(c, ValueLength(v)) = Behind(b, Len(s))
  BY <1>1, TaggedAt
<1> HIDE DEF c
<1>3. DecodeUnsigned(c, ValueLength(v)) =
        [ok |-> TRUE, val |-> v, buf |-> Behind(b, Len(s))]
  BY <1>2, UnsignedAt
<1> DEFINE r == DecodeTag(b)
<1>4. r.ok = TRUE /\ r.tag.id = id /\ r.tag.context = TRUE /\ r.buf = c
      /\ r.tag.value = ValueLength(v)
  BY <1>1, <1>2
<1> HIDE DEF r
<1> HIDE DEF s
<1>5. ContextValue(Fresh(b), id) =
        Result(DecodeUnsigned(c, ValueLength(v)).buf,
               IF DecodeUnsigned(c, ValueLength(v)).ok /\ TRUE THEN NoErr ELSE Failed,
               DecodeUnsigned(c, ValueLength(v)).val)
  BY <1>4 DEF ContextValue, ExpectTag, IfTag, Fresh, NoErr, r
<1> QED
  BY <1>3, <1>5 DEF s, t

ObjectOctets(o) == BigEndian(EncodeObjectID(o), ObjectIDLength)

LEMMA FourOctets == ObjectIDLength = 4 /\ ObjectIDLength \in Uint32
BY DEF ObjectIDLength, InstanceBits, TypeBits, Uint32

LEMMA ObjectOctetsType ==
  ASSUME NEW o, ValidObject(o)
  PROVE  ObjectOctets(o) \in Seq(Octet) /\ Len(ObjectOctets(o)) = 4
<1>1. ObjectIDLength = 4
  BY FourOctets
<1>2. EncodeObjectID(o) \in Nat
  BY ObjectRoundTrip DEF Uint32
<1> QED
  BY <1>1, <1>2, BigEndianType DEF ObjectOctets

LEMMA ReadObjectAt ==
  ASSUME NEW o, ValidObject(o), NEW b, At(b, ObjectOctets(o))
  PROVE  /\ ReadUint(b, ObjectIDLength) =
              [ok |-> TRUE, val |-> EncodeObjectID(o), buf |-> Behind(b, 4)]
         /\ ObjectIDFromUint32(EncodeObjectID(o)) = o
<1>1. EncodeObjectID(o) \in Uint32 /\ ObjectIDFromUint32(EncodeObjectID(o)) = o
  BY ObjectRoundTrip
<1>2. EncodeObjectID(o) \in Nat /\ FitsIn(EncodeObjectID(o), 4)
  BY <1>1, LengthOfValue
<1>3. ObjectIDLength = 4 /\ 4 \in 1..4
  BY FourOctets
<1> QED
  BY <1>1, <1>2, <1>3, ReadUintAt DEF ObjectOctets

LEMMA ObjectIDAt ==
  ASSUME NEW id \in Octet, NEW o, ValidObject(o), NEW b,
         At(b, EncodeTag(ContextTag(id, ObjectIDLength)) \o ObjectOctets(o))
  PROVE  DecodeObjectID(Fresh(b), id) =
           Result(Behind(b, Len(EncodeTag(ContextTag(id, ObjectIDLength)) \o ObjectOctets(o))),
                  NoErr, o)
<1> DEFINE t == ContextTag(id, ObjectIDLength)
           s == EncodeTag(t) \o ObjectOctets(o)
           c == Behind(b, Len(EncodeTag(t)))
<1>1. ObjectIDLength \in Uint32
  BY FourOctets
<1>2. /\ t \in Tags /\ ObjectOctets(o) \in Seq(Octet) /\ Len(ObjectOctets(o)) = 4
      /\ t.id = id /\ t.context = TRUE /\ At(b, EncodeTag(t) \o ObjectOctets(o))
  BY <1>1, TagsBuilt, ObjectOctetsType DEF ContextTag, Tag
<1> HIDE DEF t
<1>3. /\ DecodeTag(b) = [ok |-> TRUE, len |-> Len(EncodeTag(t)), tag |-> t, buf |-> c]
      /\ At(c, ObjectOctets(o)) /\ Behind(c, 4) = Behind(b, Len(s))
  <2> DEFINE u == ObjectOctets(o)
  <2>1. At(b, EncodeTag(t) \o u) /\ u \in Seq(Octet)
    BY <1>2, Zenon
  <2> HIDE DEF u
  <2>2. /\ DecodeTag(b) = [ok |-> TRUE, len |-> Len(EncodeTag(t)), tag |-> t, buf |-> c]
        /\ At(c, u) /\ Behind(c, Len(u)) = Behind(b, Len(EncodeTag(t) \o u))
    BY <1>2, <2>1, TaggedAt
  <2> HIDE DEF c
  <2> QED
    BY <1>2, <2>2, Zenon DEF u
<1> HIDE DEF c
<1> DEFINE w == ReadUint(c, ObjectIDLength)
           r == DecodeTag(b)
<1>4. w.val = EncodeObjectID(o) /\ w.buf = Behind(b, Len(s))
      /\ ObjectIDFromUint32(EncodeObjectID(o)) = o
  BY <1>3, ReadObjectAt
<1>5. r.ok = TRUE /\ r.tag.id = id /\ r.tag.context = TRUE /\ r.buf = c
  BY <1>2, <1>3
<1> HIDE DEF r
<1>6. DecodeObjectID(Fresh(b), id) = Result(w.buf, NoErr, ObjectIDFromUint32(w.val))
  BY <1>5 DEF DecodeObjectID, ExpectTag, IfTag, Fresh, NoErr, r
<1> HIDE DEF w
<1> QED
  BY <1>4, <1>6 DEF t

\* A decoder with an error does nothing.
LEMMA ErrorKept ==
  ASSUME NEW d, d = [buf |-> d.buf, err |-> d.err], d.err # NoErr, NEW id
  PROVE  ContextValue(d, id).dec = d /\ DecodeObjectID(d, id).dec = d
BY DEF ContextValue, DecodeObjectID, ExpectTag, Result

\* A tag of l octets with another ID is given back if it is one octet.
Missing(b, l) ==
  [buf |-> Cursor(b, b.off + l - 1, FALSE), err |-> IF l = 1 THEN IncorrectTag ELSE Failed]

LEMMA NotExpected ==
  ASSUME NEW b, NEW id, NEW t \in Tags, At(b, EncodeTag(t)), t.id # id
  PROVE  /\ ContextValue(Fresh(b), id).dec = Missing(b, Len(EncodeTag(t)))
         /\ DecodeObjectID(Fresh(b), id).dec = Missing(b, Len(EncodeTag(t)))
<1> DEFINE d == Fresh(b)
           l == Len(EncodeTag(t))
           r == DecodeTag(b)
           back == Unread(r.buf, r.len)
           u == Unread(Behind(b, l), l)
           e == IF back.ok THEN IncorrectTag ELSE Failed
<1>1. /\ r.ok = TRUE /\ r.len = l /\ r.tag.id # id /\ r.buf = Behind(b, l)
      /\ d.err = NoErr /\ d.buf = b
  BY DecodeTagAt DEF Fresh
<1>2. l \in Nat /\ l >= 1 /\ IsBuffer(b)
  BY TagType DEF At
<1>3. back = u
  BY <1>1, Zenon
<1>4. u.ok = (l = 1) /\ u.buf = Cursor(b, b.off + l - 1, FALSE)
  BY <1>2, UnreadTag
<1> HIDE DEF r
<1>5. /\ ContextValue(d, id) = Result(back.buf, e, 0)
      /\ DecodeObjectID(d, id) = Result(back.buf, e, NoObject)
  BY <1>1 DEF ContextValue, DecodeObjectID, ExpectTag, IfTag, r
<1> HIDE DEF back, u, l
<1>6. \A c, f, v : Result(c, f, v).dec = [buf |-> c, err |-> f]
  BY DEF Result
<1>7. Missing(b, l) = [buf |-> back.buf, err |-> e]
  BY <1>3, <1>4, Zenon DEF Missing
<1> HIDE DEF e
<1>8. Result(back.buf, e, 0).dec = Missing(b, l) /\ Result(back.buf, e, NoObject).dec = Missing(b, l)
  BY <1>6, <1>7, Zenon
<1> QED
  BY <1>5, <1>8 DEF l

LEMMA AppDataAt ==
  ASSUME NEW id \in Octet, NEW v \in Uint32, NEW s \in Seq(Octet), NEW b, NEW c, NEW target,
         At(b, EncodeTag(AppTag(id, v)) \o s), c = Behind(b, Len(EncodeTag(AppTag(id, v))))
  PROVE  /\ DecodeAppData(Fresh(b), target) = Store(id, Content(AppTag(id, v), c), target)
         /\ At(c, s) /\ Behind(c, Len(s)) = Behind(b, Len(EncodeTag(AppTag(id, v)) \o s))
         /\ Behind(c, 0) = c
<1> DEFINE t == AppTag(id, v)
           r == DecodeTag(b)
<1>1. t \in Tags /\ t.id = id /\ t.context = FALSE
  BY TagsBuilt DEF AppTag, Tag
<1> HIDE DEF t
<1>2. /\ DecodeTag(b) = [ok |-> TRUE, len |-> Len(EncodeTag(t)), tag |-> t, buf |-> c]
      /\ At(c, s) /\ Behind(c, Len(s)) = Behind(b, Len(EncodeTag(t) \o s))
  BY <1>1, TaggedAt DEF t
<1>3. r.ok = TRUE /\ r.tag.context = FALSE /\ r.tag.id = id /\ r.tag = t /\ r.buf = c
  BY <1>1, <1>2
<1> HIDE DEF r
<1>4. DecodeAppData(Fresh(b), target) = Store(id, Content(t, c), target)
  BY <1>3 DEF DecodeAppData, AppDataBehind, Fresh, r
<1>5. Behind(c, 0) = c
  <2> DEFINE l == Len(EncodeTag(t))
  <2>1. IsBuffer(b) /\ l \in Nat /\ c = Behind(b, l) /\ 0 \in Nat
    BY <1>1, <1>2, TagType DEF At, t
  <2> HIDE DEF l
  <2>2. Behind(c, 0) = Behind(b, l + 0) /\ l + 0 = l
    BY <2>1, BehindTwice
  <2> QED
    BY <2>1, <2>2, Zenon
<1> QED
  BY <1>2, <1>4, <1>5 DEF t

LEMMA UnsignedContentAt ==
  ASSUME NEW id \in {2, 9}, NEW v \in Uint32, NEW c, At(c, Unsigned(v))
  PROVE  Content(AppTag(id, ValueLength(v)), c) =
           [err |-> NoErr, val |-> GoNum("uint32", v), buf |-> Behind(c, Len(Unsigned(v)))]
<1> DEFINE t == AppTag(id, ValueLength(v))
           n == DecodeUnsigned(c, t.value)
<1>1. t.value = ValueLength(v) /\ t.id = id
  BY DEF AppTag, Tag
<1>2. n = [ok |-> TRUE, val |-> v, buf |-> Behind(c, ValueLength(v))]
  BY <1>1, UnsignedAt
<1>3. n.ok = TRUE /\ n.val = v /\ n.buf = Behind(c, Len(Unsigned(v)))
  BY <1>2, UnsignedType
<1> HIDE DEF t
<1>4. Content(t, c) = [err |-> IF n.ok THEN NoErr ELSE Failed,
                       val |-> GoNum("uint32", n.val), buf |-> n.buf]
  BY <1>1 DEF Content
<1> HIDE DEF n
<1> QED
  BY <1>3, <1>4, Zenon DEF t

LEMMA FloatContentAt ==
  ASSUME NEW v \in Uint32, NEW c, At(c, BigEndian(v, 4)), NEW n \in Uint32
  PROVE  Content(AppTag(4, n), c) =
           [err |-> NoErr, val |-> GoNum("float32", v), buf |-> Behind(c, Len(BigEndian(v, 4)))]
<1> DEFINE t == AppTag(4, n)
           f == ReadUint(c, 4)
           l == Len(BigEndian(v, 4))
<1>1. t.id = 4
  BY DEF AppTag, Tag
<1>2. v \in Nat /\ FitsIn(v, 4) /\ 4 \in 1..4
  BY LengthOfValue
<1>3. f = [ok |-> TRUE, val |-> v, buf |-> Behind(c, 4)] /\ l = 4
  BY <1>2, ReadUintAt, BigEndianType
<1> HIDE DEF t, l
<1>4. f.ok = TRUE /\ f.val = v /\ f.buf = Behind(c, l)
  BY <1>3
<1>5. Content(t, c) = [err |-> IF f.ok THEN NoErr ELSE Failed,
                       val |-> GoNum("float32", f.val), buf |-> f.buf]
  BY <1>1 DEF Content
<1> HIDE DEF f
<1> QED
  BY <1>4, <1>5, Zenon DEF t, l

LEMMA ObjectContentAt ==
  ASSUME NEW o, ValidObject(o), NEW c, At(c, ObjectOctets(o)), NEW n \in Uint32
  PROVE  Content(AppTag(12, n), c) =
           [err |-> NoErr, val |-> GoObject(o), buf |-> Behind(c, Len(ObjectOctets(o)))]
<1> DEFINE t == AppTag(12, n)
           w == ReadUint(c, ObjectIDLength)
<1>1. t.id = 12
  BY DEF AppTag, Tag
<1>2. /\ w.ok = TRUE /\ w.buf = Behind(c, Len(ObjectOctets(o)))
      /\ ObjectIDFromUint32(w.val) = o
  <2>1. w = [ok |-> TRUE, val |-> EncodeObjectID(o), buf |-> Behind(c, 4)]
    BY ReadObjectAt
  <2>2. ObjectIDFromUint32(EncodeObjectID(o)) = o
    BY ObjectRoundTrip
  <2>3. Len(ObjectOctets(o)) = 4
    BY ObjectOctetsType
  <2> HIDE DEF w
  <2> QED
    BY <2>1, <2>2, <2>3, Zenon
<1> HIDE DEF t
<1>3. Content(t, c) = [err |-> IF w.ok THEN NoErr ELSE Failed,
                       val |-> GoObject(ObjectIDFromUint32(w.val)), buf |-> w.buf]
  BY <1>1 DEF Content
<1> HIDE DEF w
<1> QED
  BY <1>2, <1>3, Zenon DEF t

LEMMA TextContentAt ==
  ASSUME NEW s \in Seq(Octet), NEW c, At(c, << 0 >> \o s)
  PROVE  Content(AppTag(7, Len(<< 0 >> \o s)), c) =
           [err |-> NoErr, val |-> GoString(s), buf |-> Behind(c, Len(<< 0 >> \o s))]
<1> DEFINE l == Len(<< 0 >> \o s)
           t == AppTag(7, l)
           enc == ReadUint(c, 1)
           end == enc.buf.off + (t.value - 1)
<1>1. t.id = 7 /\ t.value = l
  BY DEF AppTag, Tag
<1>2. 0 \in Octet /\ << 0 >> \in Seq(Octet) /\ Len(<< 0 >>) = 1 /\ Len(s) \in Nat
  BY OctetRange
<1>3. At(c, << 0 >>) /\ At(Behind(c, 1), s)
  BY <1>2, AtConcat, Zenon
<1>4. l = 1 + Len(s) /\ IsBuffer(c) /\ c.off + l <= Len(c.bytes)
  <2>1. l = Len(<< 0 >>) + Len(s)
    BY <1>2, ConcatProperties
  <2> QED
    BY <1>2, <2>1 DEF At
<1>5. enc = [ok |-> TRUE, val |-> 0, buf |-> Behind(c, 1)]
  BY <1>2, <1>3, ReadOctetAt
<1>6. /\ enc.ok = TRUE /\ enc.val = 0 /\ enc.buf = Behind(c, 1)
      /\ Behind(c, 1).bytes = c.bytes /\ Behind(c, 1).off = c.off + 1
  <2>1. Behind(c, 1).bytes = c.bytes /\ Behind(c, 1).off = c.off + 1
    BY DEF Behind, Cursor
  <2> HIDE DEF enc
  <2>2. enc.ok = TRUE /\ enc.val = 0 /\ enc.buf = Behind(c, 1)
    BY <1>5
  <2> QED
    BY <2>1, <2>2
<1> HIDE DEF t, l, enc
<1>7. /\ t.value - 1 = Len(s) /\ end = (c.off + 1) + Len(s) /\ ~(end > Len(c.bytes))
      /\ ~(t.value - 1 < 0) /\ end = c.off + l /\ enc.buf.off + 1 = (c.off + 1) + 1
  BY <1>1, <1>2, <1>4, <1>6 DEF IsBuffer, Buffers
<1>8. SubSeq(c.bytes, enc.buf.off + 1, end) = s
  <2>1. SubSeq(Behind(c, 1).bytes, Behind(c, 1).off + 1, Behind(c, 1).off + Len(s)) = s
    BY <1>3, AtSubSeq
  <2> QED
    BY <1>6, <1>7, <2>1
<1>9. Content(t, c) = DecodeString(c, t.value)
  BY <1>1 DEF Content
<1>10. DecodeString(c, t.value) = [err |-> NoErr,
                                   val |-> GoString(SubSeq(c.bytes, enc.buf.off + 1, end)),
                                   buf |-> Cursor(c, end, TRUE)]
  BY <1>6, <1>7, Zenon DEF DecodeString, enc
<1> QED
  BY <1>7, <1>8, <1>9, <1>10, Zenon DEF t, l, Behind

LEMMA AbstractAt ==
  ASSUME NEW id \in Octet, NEW body \in Seq(Octet), NEW v, NEW b,
         \A c : At(c, body)
           => DecodeAppData(Fresh(c), "any") = Result(Behind(c, Len(body)), NoErr, v),
         At(b, EncodeTag(OpeningTag(id)) \o (body \o EncodeTag(ClosingTag(id))))
  PROVE  DecodeAbstractType(Fresh(b), id) =
           Result(Behind(b, Len(EncodeTag(OpeningTag(id))
                                  \o (body \o EncodeTag(ClosingTag(id))))),
                  NoErr, v)
<1> DEFINE o == OpeningTag(id)
           t == ClosingTag(id)
           close == EncodeTag(t)
           s == EncodeTag(o) \o (body \o close)
           c == Behind(b, Len(EncodeTag(o)))
           d == Behind(c, Len(body))
           end == Behind(d, Len(close))
<1>0. 0 \in Uint32
  BY DEF Uint32
<1>1. /\ o \in Tags /\ o.opening = TRUE /\ o.id = id
      /\ t \in Tags /\ t.closing = TRUE /\ t.id = id
  BY <1>0, TagsBuilt DEF OpeningTag, ClosingTag, Tag
<1> HIDE DEF o, t
<1>2. close \in Seq(Octet) /\ body \o close \in Seq(Octet)
  BY <1>1, TagType, ConcatProperties
<1>3. s = EncodeTag(o) \o (body \o close) /\ At(b, EncodeTag(o) \o (body \o close))
  BY DEF o, t
<1>4. /\ DecodeTag(b) = [ok |-> TRUE, len |-> Len(EncodeTag(o)), tag |-> o, buf |-> c]
      /\ At(c, body \o close)
      /\ Behind(c, Len(body \o close)) = Behind(b, Len(s))
  <2> DEFINE u == body \o close
  <2> HIDE DEF u, close
  <2>1. u \in Seq(Octet) /\ At(b, EncodeTag(o) \o u) /\ s = EncodeTag(o) \o u
    BY <1>2, <1>3 DEF u
  <2>2. /\ DecodeTag(b) = [ok |-> TRUE, len |-> Len(EncodeTag(o)), tag |-> o, buf |-> c]
        /\ At(c, u) /\ Behind(c, Len(u)) = Behind(b, Len(EncodeTag(o) \o u))
    BY <1>1, <2>1, TaggedAt
  <2> HIDE DEF c
  <2> QED
    BY <2>1, <2>2, Zenon DEF u
<1> HIDE DEF close, c
<1>5. At(c, body) /\ At(d, close)
  BY <1>2, <1>4, AtConcat
<1>6. end = Behind(b, Len(s))
  <2>1. IsBuffer(c) /\ Len(body) \in Nat /\ Len(close) \in Nat
        /\ Len(body \o close) = Len(body) + Len(close)
    BY <1>2, <1>5, ConcatProperties, LenProperties DEF At
  <2>2. end = Behind(c, Len(body) + Len(close))
    BY <2>1, BehindTwice
  <2> QED
    BY <1>4, <2>1, <2>2, Zenon
<1>7. DecodeAppData(Fresh(c), "any") = Result(d, NoErr, v)
  BY <1>5
<1>8. DecodeTag(d) = [ok |-> TRUE, len |-> Len(close), tag |-> t, buf |-> end]
  BY <1>1, <1>5, DecodeTagAt DEF close
<1> HIDE DEF d, end
<1> DEFINE open == DecodeTag(b)
           last == DecodeTag(d)
<1>9. open.ok = TRUE /\ open.tag.opening = TRUE /\ open.tag.id = id /\ open.buf = c
  BY <1>1, <1>4
<1>10. last.ok = TRUE /\ last.tag.closing = TRUE /\ last.tag.id = id /\ last.buf = end
  BY <1>1, <1>8
<1> HIDE DEF open, last
<1>11. CloseAbstract(last, id, v) = Result(end, NoErr, v)
  BY <1>10 DEF CloseAbstract
<1>12. AbstractValue(Result(d, NoErr, v), id) = Result(end, NoErr, v)
  BY <1>11 DEF AbstractValue, Result, last
<1>13. DecodeAbstractType(Fresh(b), id) = AbstractValue(DecodeAppData(Fresh(c), "any"), id)
  BY <1>9 DEF DecodeAbstractType, OpenAbstract, Fresh, open
<1> QED
  BY <1>6, <1>7, <1>12, <1>13, Zenon DEF o, t, close

\* What AppData has found behind a tag.
Holding(w, b) == [err |-> NoErr, val |-> w, buf |-> b]

\* Behind an application tag the octets s mean the value w.
Holds(id, v, s, w) ==
  \A c : At(c, s) /\ Behind(c, 0) = c =>
    Content(AppTag(id, v), c) = Holding(w, Behind(c, Len(s)))

LEMMA ValueAt ==
  ASSUME NEW id \in Octet, NEW v \in Uint32, NEW s \in Seq(Octet), NEW w,
         Holds(id, v, s, w), NEW target, NEW b, At(b, EncodeTag(AppTag(id, v)) \o s)
  PROVE  DecodeAppData(Fresh(b), target) =
           Store(id, Holding(w, Behind(b, Len(EncodeTag(AppTag(id, v)) \o s))), target)
<1> DEFINE x == EncodeTag(AppTag(id, v)) \o s
<1>1. PICK c : c = Behind(b, Len(EncodeTag(AppTag(id, v))))
  OBVIOUS
<1> DEFINE n == Content(AppTag(id, v), c)
<1>2. /\ DecodeAppData(Fresh(b), target) = Store(id, n, target)
      /\ At(c, s) /\ Behind(c, Len(s)) = Behind(b, Len(x)) /\ Behind(c, 0) = c
  BY <1>1, AppDataAt
<1>3. n = Holding(w, Behind(b, Len(x)))
  BY <1>2 DEF Holds
<1> HIDE DEF n
<1> QED
  BY <1>2, <1>3, Zenon

\* A value between an opening and a closing tag, as it is written for a
\* property.
PropertyOctets(id, type, v, s) ==
  EncodeTag(OpeningTag(id)) \o ((EncodeTag(AppTag(type, v)) \o s) \o EncodeTag(ClosingTag(id)))

LEMMA PropertyAt ==
  ASSUME NEW id \in Octet, NEW type \in Octet, NEW v \in Uint32, NEW s \in Seq(Octet), NEW w,
         Holds(type, v, s, w), NEW b, At(b, PropertyOctets(id, type, v, s))
  PROVE  /\ PropertyOctets(id, type, v, s) \in Seq(Octet)
         /\ DecodeAbstractType(Fresh(b), id) =
              Result(Behind(b, Len(PropertyOctets(id, type, v, s))), NoErr, w)
<1> DEFINE open == EncodeTag(OpeningTag(id))
           body == EncodeTag(AppTag(type, v)) \o s
           close == EncodeTag(ClosingTag(id))
           x == open \o (body \o close)
<1>1. /\ open \in Seq(Octet) /\ body \in Seq(Octet) /\ close \in Seq(Octet)
      /\ body \o close \in Seq(Octet)
  BY TagsBuilt, TagType, ConcatProperties
<1>2. x = PropertyOctets(id, type, v, s)
  BY DEF PropertyOctets
<1> HIDE DEF body, open, close
<1>3. x \in Seq(Octet)
  BY <1>1, ConcatProperties
<1>4. ASSUME NEW c, At(c, body)
      PROVE  DecodeAppData(Fresh(c), "any") = Result(Behind(c, Len(body)), NoErr, w)
  <2>1. \A d, u : Store(type, Holding(u, d), "any") = Result(d, NoErr, u)
    BY DEF Holding, Store, Fits, StoredIn, Enumerations
  <2>2. At(c, EncodeTag(AppTag(type, v)) \o s)
    BY <1>4 DEF body
  <2>3. DecodeAppData(Fresh(c), "any") =
          Store(type, Holding(w, Behind(c, Len(body))), "any")
    BY <2>2, ValueAt DEF body
  <2> QED
    BY <2>1, <2>3, Zenon
<1>5. DecodeAbstractType(Fresh(b), id) = Result(Behind(b, Len(x)), NoErr, w)
  <2>1. At(b, EncodeTag(OpeningTag(id)) \o (body \o EncodeTag(ClosingTag(id))))
    BY <1>2 DEF open, close
  <2> QED
    BY <1>1, <1>4, <2>1, AbstractAt DEF open, close
<1> QED
  BY <1>2, <1>3, <1>5, Zenon

----------------------------------------------------------------------------
(***************************************************************************)
(* What is appended to what an Encoder wrote.                              *)
(***************************************************************************)
Encoders == [bytes : Seq(Octet), err : {NoErr, Failed}]

LEMMA WriteFacts ==
  ASSUME NEW e \in Encoders, NEW s \in Seq(Octet)
  PROVE  /\ Write(e, s) \in Encoders /\ Write(e, s).err = e.err
         /\ Write(e, s).bytes = e.bytes \o s
         /\ e.err = NoErr => WriteIfNoErr(e, s) = Write(e, s)
         /\ e.err # NoErr => WriteIfNoErr(e, s) = e
<1>1. e.bytes \o s \in Seq(Octet)
  BY ConcatProperties DEF Encoders
<1> QED
  BY <1>1 DEF Encoders, Write, WriteIfNoErr

LEMMA WriteTwice ==
  ASSUME NEW e \in Encoders, NEW s \in Seq(Octet), NEW t \in Seq(Octet)
  PROVE  Write(Write(e, s), t) = Write(e, s \o t)
<1>1. (e.bytes \o s) \o t = e.bytes \o (s \o t)
  BY ConcatAssociative DEF Encoders
<1> QED
  BY <1>1 DEF Write
=============================================================================
