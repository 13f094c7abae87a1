---------------------------- MODULE DriverProofs ----------------------------
(***************************************************************************)
(* Proofs about module Driver, for any template, any deltas, and any       *)
(* number of workers and callbacks.                                        *)
(***************************************************************************)
EXTENDS Driver, FiniteSetTheorems, SequenceTheorems, WellFoundedInduction, TLAPS

----------------------------------------------------------------------------
(***************************************************************************)
(* Least and greatest elements, without induction: what the lookups and    *)
(* conversions need of the numbers.                                        *)
(***************************************************************************)
LEMMA LeastElement ==
  ASSUME NEW T \in SUBSET Nat, T # {}
  PROVE  \E x \in T : \A y \in T : x <= y
<1>1. PICK t \in T : TRUE
  OBVIOUS
<1> DEFINE Below == {x \in T : x <= t}
           Segments == {0..x : x \in Below}
           Finite == FiniteSubsetsOf(0..t)
<1>2. IsWellFoundedOn(StrictSubsetOrdering(0..t), Finite)
  BY FS_StrictSubsetOrderingWellFounded
<1>3. Segments \subseteq Finite /\ Segments # {}
  <2>1. ASSUME NEW x \in Below PROVE 0..x \in Finite
    <3>1. x \in Int /\ 0 \in Int
      OBVIOUS
    <3>2. IsFiniteSet(0..x)
      BY <3>1, FS_Interval
    <3> QED
      BY <3>2 DEF FiniteSubsetsOf
  <2>2. t \in Below
    OBVIOUS
  <2> QED
    BY <2>1, <2>2
<1>4. PICK s \in Segments : \A r \in Segments : ~ (<<r, s>> \in StrictSubsetOrdering(0..t))
  <2> HIDE DEF Segments, Finite
  <2> QED
    BY <1>2, <1>3, WFMin
<1>5. PICK x \in Below : s = 0..x
  OBVIOUS
<1>6. ASSUME NEW y \in T, y < x PROVE FALSE
  <2>1. y \in Below /\ 0..y \in Segments
    BY <1>6
  <2>2. 0..y \subseteq 0..x /\ 0..y # 0..x /\ 0..x \subseteq 0..t
    <3>1. x \in 0..x /\ x \notin 0..y
      BY <1>6
    <3> QED
      BY <1>6, <3>1
  <2> QED
    BY <1>4, <1>5, <2>1, <2>2 DEF StrictSubsetOrdering
<1> QED
  BY <1>6

\* The greatest is the least of the distances from the bound.
LEMMA GreatestElement ==
  ASSUME NEW n \in Nat, NEW T \in SUBSET (0..n), T # {}
  PROVE  \E x \in T : \A y \in T : x >= y
<1> DEFINE U == {n - x : x \in T}
<1>1. U \in SUBSET Nat /\ U # {}
  <2>1. \A x \in T : n - x \in Nat
    OBVIOUS
  <2> QED
    BY <2>1
<1>2. PICK u \in U : \A y \in U : u <= y
  BY <1>1, LeastElement
<1>3. PICK x \in T : u = n - x
  OBVIOUS
<1>4. ASSUME NEW y \in T PROVE x >= y
  <2>1. n - y \in U
    OBVIOUS
  <2> QED
    BY <1>2, <1>3, <2>1
<1> QED
  BY <1>4

----------------------------------------------------------------------------
(***************************************************************************)
(* What the lookups return.                                                *)
(***************************************************************************)
LEMMA Templates ==
  /\ Len(Properties) \in Nat /\ DOMAIN Properties = 1..Len(Properties)
  /\ Len(Mappings) \in Nat /\ DOMAIN Mappings = 1..Len(Mappings)
  /\ \A i \in DOMAIN Properties :
       /\ Properties[i].id \in STRING /\ Properties[i].name \in STRING \ {NoName}
       /\ Properties[i].type \in Nat /\ Properties[i].address \in Nat
       /\ Properties[i].tag \in Nat
  /\ \A i \in DOMAIN Mappings :
       /\ Mappings[i].scale \in Nat \ {0} /\ Mappings[i].params \in Seq(STRING)
<1> DEFINE P == [id : STRING, name : STRING \ {NoName}, visitor : BOOLEAN,
                 type : Nat, address : Nat, tag : Nat]
           M == [attribute : STRING, type : {"value", "calculate"},
                 scale : Nat \ {0}, params : Seq(STRING)]
<1>1. Properties \in Seq(P) /\ Mappings \in Seq(M)
  BY DriverAssumption
<1>2. /\ Len(Properties) \in Nat /\ DOMAIN Properties = 1..Len(Properties)
      /\ Len(Mappings) \in Nat /\ DOMAIN Mappings = 1..Len(Mappings)
      /\ \A i \in DOMAIN Properties : Properties[i] \in P
      /\ \A i \in DOMAIN Mappings : Mappings[i] \in M
  <2> HIDE DEF P, M
  <2> QED
    BY <1>1, LenProperties, ElementOfSeq
<1> QED
  BY <1>2

\* The first and the last index of a template's list exist.
LEMMA FirstAndLast ==
  ASSUME NEW n \in Nat, NEW S \in SUBSET (1..n), S # {}
  PROVE  Min(S) \in S /\ Max(S) \in S
<1>1. \E x \in S : \A y \in S : x <= y
  BY LeastElement
<1>2. \E x \in S : \A y \in S : x >= y
  <2>1. S \in SUBSET (0..n)
    OBVIOUS
  <2> QED
    BY <2>1, GreatestElement
<1> QED
  BY <1>1, <1>2 DEF Min, Max

LEMMA JobProperty ==
  ASSUME NEW k \in Points
  PROVE  \E i \in Visited : Job[k] = Properties[i] /\ Point(Properties[i]) = k
<1> DEFINE at == {i \in Visited : Point(Properties[i]) = k}
<1>1. at \in SUBSET (1..Len(Properties)) /\ at # {}
  BY Templates DEF Points, Visited
<1>2. Max(at) \in at
  BY <1>1, Templates, FirstAndLast
<1> QED
  BY <1>2 DEF Job

LEMMA JobFacts ==
  ASSUME NEW k \in Points
  PROVE  Job[k].name \in Names \ {NoName} /\ Job[k].tag \in Nat /\ Object(k) \in Objects
BY JobProperty, Templates DEF Names, Visited, Objects

LEMMA NameLookup ==
  ASSUME NEW id
  PROVE  GetMappingName(id) \in Names \/ GetMappingName(id) = NoName
<1> DEFINE is == {i \in DOMAIN Properties : Properties[i].id = id}
<1>1. CASE is = {}
  BY <1>1 DEF GetMappingName
<1>2. CASE is # {}
  <2>1. is \in SUBSET (1..Len(Properties))
    BY Templates
  <2>2. Min(is) \in is
    BY <1>2, <2>1, Templates, FirstAndLast
  <2> QED
    BY <1>2, <2>2 DEF GetMappingName, Names
<1> QED
  BY <1>1, <1>2

\* A key with a property has a mapping.
LEMMA KeyLookup ==
  ASSUME NEW key, PropertyOf(key) # NoName
  PROVE  /\ PropertyOf(key) \in Names
         /\ MappingOf(key) \in DOMAIN Mappings
<1> DEFINE is == {i \in DOMAIN Mappings :
                    Mappings[i].attribute = key /\ Mappings[i].params # <<>>}
           all == {i \in DOMAIN Mappings : Mappings[i].attribute = key}
<1>1. is # {}
  BY DEF PropertyOf
<1>2. all # {} /\ all \in SUBSET (1..Len(Mappings))
  BY <1>1, Templates
<1>3. Min(all) \in all
  BY <1>2, Templates, FirstAndLast
<1> QED
  BY <1>1, <1>3, NameLookup DEF PropertyOf, MappingOf

----------------------------------------------------------------------------
(***************************************************************************)
(* The conversions.                                                        *)
(***************************************************************************)
LEMMA UlpType ==
  ASSUME NEW n \in Int, Fitting(n) # {}
  PROVE  Ulp(n) \in Fitting(n) /\ Ulp(n) \in Nat \ {0}
<1>1. Fitting(n) \in SUBSET Nat
  BY DriverAssumption DEF Fitting
<1>2. \E x \in Fitting(n) : \A y \in Fitting(n) : x <= y
  BY <1>1, LeastElement
<1> QED
  BY <1>1, <1>2, DriverAssumption DEF Ulp, Min, Fitting

LEMMA InfinityType == Infinity \in Int
<1>1. \E x \in Ulps : \A y \in Ulps : x >= y
  BY DriverAssumption
<1>2. Max(Ulps) \in Nat /\ Significands \in Nat
  BY <1>1, DriverAssumption DEF Max
<1> QED
  BY <1>2 DEF Infinity

\* Rounding yields a multiple of the unit, half a unit away at most.
LEMMA NearestIsNear ==
  ASSUME NEW n \in Int, NEW u \in Nat \ {0}
  PROVE  /\ Nearest(n, u) \in Int
         /\ 2 * (Nearest(n, u) - n) <= u /\ 2 * (n - Nearest(n, u)) <= u
         /\ n % u = 0 => Nearest(n, u) = n
<1>1. n % u \in 0..(u - 1)
  OBVIOUS
<1> DEFINE rest == n % u
<1> HIDE DEF rest
<1>2. rest \in 0..(u - 1)
  BY <1>1 DEF rest
<1>3. \/ Nearest(n, u) = n - rest /\ 2 * rest <= u
      \/ Nearest(n, u) = n - rest + u /\ 2 * rest >= u /\ rest # 0
  BY <1>2 DEF Nearest, rest
<1> QED
  BY <1>2, <1>3 DEF rest

LEMMA TruncType == \A n \in Int : Trunc(n) \in Int
BY DEF Trunc, One

\* One case of a conversion at a time.
LEMMA ConversionCases ==
  ASSUME NEW v, NEW n
  PROVE  /\ Converted(Boolean, v) = {v.num}
         /\ Converted(Real, v) = {ParseValueToFloat32(v)}
         /\ Converted(Enumerated, v) = ParseValueToUint32(v)
         /\ Representable(Real, n) = (Fitting(n) # {} /\ n % Ulp(n) = 0)
         /\ Representable(Enumerated, n) = (n \in Uint32s)
<1> USE DEF Boolean, Real, Enumerated
<1>1. 1 # 4 /\ 1 # 9 /\ 4 # 9
  OBVIOUS
<1>2. /\ Converted(Boolean, v) = {v.num}
      /\ Converted(Real, v) = {ParseValueToFloat32(v)}
      /\ Converted(Enumerated, v) = ParseValueToUint32(v)
  BY DEF Converted
<1>3. Representable(Real, n) = (Fitting(n) # {} /\ n % Ulp(n) = 0)
  BY <1>1, Zenon DEF Representable
<1>4. Representable(Enumerated, n) = (n \in Uint32s)
  BY <1>1, Zenon DEF Representable
<1> QED
  BY <1>2, <1>3, <1>4

LEMMA Float32Type ==
  ASSUME NEW v, v.num \in Int
  PROVE  ParseValueToFloat32(v) \in Int
<1>1. CASE Fitting(v.num) # {}
  <2>1. ParseValueToFloat32(v) = Nearest(v.num, Ulp(v.num))
    BY <1>1 DEF ParseValueToFloat32
  <2> QED
    BY <1>1, <2>1, UlpType, NearestIsNear
<1>2. CASE Fitting(v.num) = {}
  BY <1>2, InfinityType DEF ParseValueToFloat32
<1> QED
  BY <1>1, <1>2

LEMMA Uint32Type ==
  ASSUME NEW v, v.num \in Int, v.kind \in Integral \union Floating
  PROVE  ParseValueToUint32(v) \subseteq Int
<1>1. One * Words \in Nat \ {0}
  BY DriverAssumption DEF One
<1>2. Uint32s \subseteq Int
  BY DriverAssumption DEF Uint32s, One
<1>3. v.num % (One * Words) \in Int
  BY <1>1
<1> QED
  BY <1>2, <1>3, TruncType DEF ParseValueToUint32

\* What can be converted becomes numbers.
LEMMA ConvertedType ==
  ASSUME NEW tag, NEW v \in [kind : Kinds, num : Int], Converts(tag, v)
  PROVE  Converted(tag, v) \subseteq Int
BY ConversionCases, Float32Type, Uint32Type DEF Converts

\* A number that the type of a point can have stays what it is.
LEMMA ConvertedExactly ==
  ASSUME NEW tag, NEW v \in [kind : Kinds, num : Int],
         Converts(tag, v), Representable(tag, v.num)
  PROVE  Converted(tag, v) = {v.num}
<1>1. CASE tag = Boolean
  BY <1>1, ConversionCases
<1>2. CASE tag = Real
  <2>1. Fitting(v.num) # {} /\ v.num % Ulp(v.num) = 0
    BY <1>2, ConversionCases, Zenon
  <2>2. Nearest(v.num, Ulp(v.num)) = v.num
    BY <2>1, UlpType, NearestIsNear
  <2> QED
    BY <1>2, <2>1, <2>2, ConversionCases DEF ParseValueToFloat32
<1>3. CASE tag = Enumerated
  <2>1. v.num \in Uint32s
    BY <1>3, ConversionCases, Zenon
  <2>2. PICK m \in 0..(Words - 1) : v.num = 2 * m
    BY <2>1 DEF Uint32s, One
  <2>3. Words \in Nat /\ Words > 0
    BY DriverAssumption
  <2>4. v.num % (One * Words) = v.num
    BY <2>2, <2>3 DEF One
  <2>5. Trunc(v.num) = v.num
    BY <2>2, <2>3 DEF Trunc, One
  <2>6. v.kind \in Integral \/ v.kind \in Floating
    BY <1>3 DEF Converts, Boolean, Enumerated
  <2> QED
    BY <1>3, <2>1, <2>4, <2>5, <2>6, ConversionCases DEF ParseValueToUint32
<1> QED
  BY <1>1, <1>2, <1>3 DEF Converts

\* What a known key is written with has a number.
LEMMA PropValueType ==
  ASSUME NEW d \in Values, NEW key \in DOMAIN d, PropertyOf(key) # NoName
  PROVE  PropValue(key, d[key]) \in [kind : Kinds, num : Int]
<1> DEFINE m == Mappings[MappingOf(key)]
<1>1. d[key] \in [kind : Kinds, num : Int]
  <2>1. d # <<>>
    OBVIOUS
  <2> QED
    BY <2>1, DriverAssumption DEF Values, Callbacks
<1>2. m.scale \in Nat \ {0}
  BY KeyLookup, Templates
<1>3. d[key].num \div m.scale \in Int
  BY <1>1, <1>2
<1>4. "float64" \in Kinds
  BY DEF Kinds, Floating
<1> QED
  BY <1>1, <1>3, <1>4 DEF PropValue

----------------------------------------------------------------------------
(***************************************************************************)
(* Types.                                                                  *)
(***************************************************************************)

\* A callback that writes points has taken a key that has a property and a
\* value, and writes only the points of that property.
CurrentKeyKnown ==
  \A c \in Callbacks : delta[c].pc = "points" =>
    /\ delta[c].key \in DOMAIN delta[c].vals \ delta[c].keys
    /\ Known(delta[c].key, delta[c].vals[delta[c].key])
    /\ delta[c].todo \subseteq PointsNamed(PropertyOf(delta[c].key))

TypeInv == DriverTypeOK /\ CurrentKeyKnown

\* What may be read; what an execution keeps.
Readings == Int \union {Nil}
ExecRecords == [pc : {"idle", "reading"}, todo : SUBSET Points,
                temp : [Names -> Int \union {Nil, NoValue}]]
DeltaRecords ==
  [pc : {"not called", "keys", "points", "error", "nil"}, vals : Values,
   keys : SUBSET Keys, key : Keys \union {"none"}, todo : SUBSET Points]

LEMMA Typed ==
  ASSUME TypeInv
  PROVE  /\ points \in [Objects -> Int]
         /\ late \subseteq Objects \X Int
         /\ exec \in [Executors -> ExecRecords]
         /\ delta \in [Callbacks -> DeltaRecords]
         /\ since \in [Executors -> [Objects -> SUBSET Readings]]
         /\ acked \in [Callbacks -> SUBSET (Keys \X Points \X Int)]
         /\ faults \in 0..MaxFaults /\ changes \in 0..MaxChanges
         /\ MaxFaults \in Nat /\ MaxChanges \in Nat
BY DriverAssumption DEF TypeInv, DriverTypeOK, ExecRecords, DeltaRecords, Readings

LEMMA NoDelta == <<>> \in Values /\ DOMAIN <<>> = {}
BY DEF Values

LEMMA TypeInit == Init => TypeInv
<1> SUFFICES ASSUME Init PROVE TypeInv
  OBVIOUS
<1>1. exec \in [Executors -> ExecRecords]
  BY DEF Init, Idle, NothingRead, ExecRecords
<1>2. delta \in [Callbacks -> DeltaRecords]
  BY NoDelta DEF Init, DeltaRecords
<1>3. since \in [Executors -> [Objects -> SUBSET Readings]]
  BY DEF Init, NothingSince
<1>4. points \in [Objects -> Int] /\ late \subseteq Objects \X Int
  <2>1. points = [o \in Objects |-> 0] /\ late = {}
    BY DEF Init
  <2> QED
    BY <2>1
<1>5. /\ \A c \in Callbacks : delta[c].keys \subseteq DOMAIN delta[c].vals
      /\ acked = [c \in Callbacks |-> {}]
      /\ DOMAIN cloud = Attributes /\ \A a \in Attributes : cloud[a] = NoReport
  BY DEF Init
<1>6. faults \in 0..MaxFaults /\ changes \in 0..MaxChanges
  <2>1. faults = 0 /\ changes = 0 /\ MaxFaults \in Nat /\ MaxChanges \in Nat
    BY DriverAssumption DEF Init
  <2> QED
    BY <2>1
<1>7. CurrentKeyKnown
  BY DEF Init, CurrentKeyKnown
<1> QED
  BY <1>1, <1>2, <1>3, <1>4, <1>5, <1>6, <1>7
     DEF TypeInv, DriverTypeOK, ExecRecords, DeltaRecords, Readings

LEMMA TypeBegin ==
  ASSUME TypeInv, NEW e \in Executors, Begin(e)
  PROVE  TypeInv'
<1>1. [o \in Objects |-> {points[o]}] \in [Objects -> SUBSET Readings]
  BY Typed DEF Readings
<1>2. since' \in [Executors -> [Objects -> SUBSET Readings]]
  BY <1>1, Typed DEF Begin
<1>3. exec' \in [Executors -> ExecRecords]
  BY Typed DEF Begin, ExecRecords
<1> QED
  BY <1>2, <1>3 DEF Begin, TypeInv, DriverTypeOK, CurrentKeyKnown, ExecRecords, Readings

LEMMA TypeReadPoint ==
  ASSUME TypeInv, NEW e \in Executors, NEW k \in Points, ReadPoint(e, k)
  PROVE  TypeInv'
<1>1. /\ exec \in [Executors -> ExecRecords]
      /\ exec[e].temp \in [Names -> Int \union {Nil, NoValue}]
      /\ Job[k].name \in Names /\ points[Object(k)] \in Int
  BY JobFacts, Typed DEF ExecRecords
<1>2. PICK n \in Int \union {Nil, NoValue} : Store(e, k, n)
  BY <1>1 DEF ReadPoint, ReadFails, ReadNil, Readings
<1>3. [exec[e].temp EXCEPT ![Job[k].name] = n] \in [Names -> Int \union {Nil, NoValue}]
  BY <1>1
<1>4. exec' \in [Executors -> ExecRecords]
  <2>1. PICK temp \in [Names -> Int \union {Nil, NoValue}] :
          exec' = [exec EXCEPT ![e] = [pc |-> "reading", todo |-> exec[e].todo \ {k},
                                       temp |-> temp]]
    BY <1>1, <1>2, <1>3 DEF Store
  <2> QED
    BY <1>1, <2>1 DEF ExecRecords
<1>5. faults' \in 0..MaxFaults
  BY Typed DEF ReadPoint
<1>6. since' \in [Executors -> [Objects -> SUBSET Readings]]
  <2>1. CASE UNCHANGED since
    BY <2>1, Typed
  <2>2. CASE since' = [since EXCEPT ![e][Object(k)] = @ \union {Nil}]
    BY <2>2, JobFacts, Typed DEF Readings
  <2> QED
    BY <2>1, <2>2 DEF ReadPoint, ReadFails, ReadNil
<1> QED
  BY <1>4, <1>5, <1>6 DEF ReadPoint, TypeInv, DriverTypeOK, CurrentKeyKnown, ExecRecords, Readings

\* A report has the values of all parameters of one mapping.
LEMMA ReportFacts ==
  ASSUME NEW temp, NEW ms \in ExecExpression(temp), NEW a \in Attributes,
         Reports(ms, temp)[a] # NoReport
  PROVE  \E m \in DOMAIN Mappings :
           /\ Mappings[m].attribute = a /\ Complete(m, temp)
           /\ Reports(ms, temp)[a] = [by |-> m, args |-> ArgsOf(m, temp)]
<1> DEFINE is == {i \in ms : Mappings[i].attribute = a}
<1>1. Reports(ms, temp)[a] = IF is = {} THEN NoReport
                             ELSE [by |-> Max(is), args |-> ArgsOf(Max(is), temp)]
  BY DEF Reports
<1>2. \A m \in ms : m \in DOMAIN Mappings /\ Complete(m, temp)
  BY DEF ExecExpression
<1>3. is # {} /\ is \in SUBSET (1..Len(Mappings))
  BY <1>1, <1>2, Templates
<1>4. Max(is) \in is
  <2> HIDE DEF is
  <2> QED
    BY <1>3, Templates, FirstAndLast
<1> QED
  BY <1>1, <1>2, <1>3, <1>4

\* The parameters of a complete mapping have names, and were read.
LEMMA CompleteFacts ==
  ASSUME NEW temp, NEW m \in DOMAIN Mappings, Complete(m, temp)
  PROVE  \A i \in DOMAIN ParamNames[m] :
           ParamNames[m][i] \in Names /\ temp[ParamNames[m][i]] # NoValue
<1> TAKE i \in DOMAIN ParamNames[m]
<1>1. ParamNames[m][i] # NoName /\ temp[ParamNames[m][i]] # NoValue
  BY DEF Complete, WasRead
<1>2. ParamNames[m][i] = GetMappingName(Mappings[m].params[i])
  BY DEF ParamNames
<1> QED
  BY <1>1, <1>2, NameLookup

LEMMA TypeReport ==
  ASSUME TypeInv, NEW e \in Executors, Report(e)
  PROVE  TypeInv'
<1> DEFINE temp == exec[e].temp
<1>1. exec' \in [Executors -> ExecRecords] /\ since' \in [Executors -> [Objects -> SUBSET Readings]]
  BY Typed DEF Report, EndExecute, Idle, NothingRead, NothingSince, ExecRecords
<1>2. temp \in [Names -> Int \union {Nil, NoValue}]
  BY Typed DEF ExecRecords
<1>3. faults' \in 0..MaxFaults
  BY Typed DEF Report
<1>4. cloud' = cloud \/ \E ms \in ExecExpression(temp) : Shows(Reports(ms, temp))
  BY DEF Report
<1>5. ASSUME NEW ms \in ExecExpression(temp), NEW a \in Attributes,
             Reports(ms, temp)[a] # NoReport
      PROVE  /\ Reports(ms, temp)[a].by \in DOMAIN Mappings
             /\ Reports(ms, temp)[a].args
                  \in [DOMAIN ParamNames[Reports(ms, temp)[a].by] -> Readings]
  <2>1. PICK m \in DOMAIN Mappings :
           Complete(m, temp) /\ Reports(ms, temp)[a] = [by |-> m, args |-> ArgsOf(m, temp)]
    BY <1>5, ReportFacts
  <2>2. \A i \in DOMAIN ParamNames[m] : temp[ParamNames[m][i]] \in Readings
    BY <1>2, <2>1, CompleteFacts DEF Readings
  <2> QED
    BY <2>1, <2>2 DEF ArgsOf
<1>6. DOMAIN cloud' = Attributes
  BY <1>4 DEF TypeInv, DriverTypeOK, Shows
<1>7. ASSUME NEW a \in Attributes, cloud'[a] # NoReport
      PROVE  /\ cloud'[a].by \in DOMAIN Mappings
             /\ cloud'[a].args \in [DOMAIN ParamNames[cloud'[a].by] -> Readings]
  <2>1. CASE cloud'[a] = cloud[a]
    BY <1>7, <2>1 DEF TypeInv, DriverTypeOK, Readings
  <2>2. CASE \E ms \in ExecExpression(temp) :
               cloud'[a] = Reports(ms, temp)[a] /\ Reports(ms, temp)[a] # NoReport
    BY <1>5, <2>2
  <2> QED
    BY <1>4, <2>1, <2>2 DEF Shows
<1> QED
  BY <1>1, <1>3, <1>6, <1>7
     DEF Report, TypeInv, DriverTypeOK, CurrentKeyKnown, ExecRecords, Readings

----------------------------------------------------------------------------

LEMMA SetPointType ==
  ASSUME TypeInv, NEW o \in Objects, NEW n \in Int, SetPoint(o, n)
  PROVE  points' \in [Objects -> Int] /\ since' \in [Executors -> [Objects -> SUBSET Readings]]
<1>1. points \in [Objects -> Int] /\ since \in [Executors -> [Objects -> SUBSET Readings]]
  BY Typed
<1>2. points' \in [Objects -> Int]
  BY <1>1 DEF SetPoint
<1>3. \A e \in Executors :
        [since[e] EXCEPT ![o] = @ \union {n}] \in [Objects -> SUBSET Readings]
  BY <1>1 DEF Readings
<1> QED
  BY <1>1, <1>2, <1>3 DEF SetPoint

LEMMA TypeLateWrite ==
  ASSUME TypeInv, NEW x \in late, LateWrite(x)
  PROVE  TypeInv'
<1>1. x[1] \in Objects /\ x[2] \in Int /\ late' \subseteq Objects \X Int
  BY Typed DEF LateWrite
<1>2. points' \in [Objects -> Int] /\ since' \in [Executors -> [Objects -> SUBSET Readings]]
  BY <1>1, SetPointType DEF LateWrite
<1> QED
  BY <1>1, <1>2 DEF LateWrite, TypeInv, DriverTypeOK, CurrentKeyKnown, Readings

LEMMA TypeChange ==
  ASSUME TypeInv, NEW o \in Objects, NEW n \in Numbers, Change(o, n)
  PROVE  TypeInv'
<1>1. n \in Int /\ changes' \in 0..MaxChanges
  BY Typed, DriverAssumption DEF Change
<1>2. points' \in [Objects -> Int] /\ since' \in [Executors -> [Objects -> SUBSET Readings]]
  BY <1>1, SetPointType DEF Change
<1> QED
  BY <1>1, <1>2 DEF Change, TypeInv, DriverTypeOK, CurrentKeyKnown, Readings

\* The conjuncts of the type invariant that are about callbacks.
DeltaTypes ==
  /\ delta \in [Callbacks -> DeltaRecords]
  /\ \A c \in Callbacks : delta[c].keys \subseteq DOMAIN delta[c].vals
  /\ CurrentKeyKnown

LEMMA DeltaTyped == TypeInv => DeltaTypes
BY DEF TypeInv, DriverTypeOK, DeltaTypes, DeltaRecords

LEMMA ReturnType ==
  ASSUME DeltaTypes, NEW c \in Callbacks, NEW r \in {"error", "nil"}, Return(c, r)
  PROVE  DeltaTypes'
<1>1. delta' = [delta EXCEPT ![c].pc = r] /\ delta \in [Callbacks -> DeltaRecords]
  BY DEF Return, DeltaTypes
<1>2. delta' \in [Callbacks -> DeltaRecords]
  BY <1>1 DEF DeltaTypes, DeltaRecords
<1>3. ASSUME NEW b \in Callbacks
      PROVE  /\ delta'[b].keys = delta[b].keys /\ delta'[b].vals = delta[b].vals
             /\ delta'[b].key = delta[b].key /\ delta'[b].todo = delta[b].todo
             /\ delta'[b].pc = "points" => delta[b].pc = "points"
  BY <1>1 DEF DeltaRecords
<1>4. CurrentKeyKnown'
  BY <1>3 DEF DeltaTypes, CurrentKeyKnown
<1> QED
  BY <1>2, <1>3, <1>4 DEF DeltaTypes

LEMMA TypeBeginDelta ==
  ASSUME TypeInv, NEW c \in Callbacks, BeginDelta(c)
  PROVE  TypeInv'
<1>1. \/ (\E d \in Deltas[c] :
             delta' = [delta EXCEPT ![c] = [pc |-> "keys", vals |-> d, keys |-> DOMAIN d,
                                            key |-> "none", todo |-> {}]]) /\ faults' = faults
      \/ faults < MaxFaults /\ faults' = faults + 1 /\ Return(c, "error")
  BY DEF BeginDelta
<1>2. faults' \in 0..MaxFaults
  BY <1>1, Typed
<1>3. ASSUME NEW d \in Deltas[c],
             delta' = [delta EXCEPT ![c] = [pc |-> "keys", vals |-> d, keys |-> DOMAIN d,
                                            key |-> "none", todo |-> {}]]
      PROVE  DeltaTypes'
  <2>1. d \in Values /\ DOMAIN d \subseteq Keys
    BY DEF Values, Keys
  <2>2. delta' \in [Callbacks -> DeltaRecords]
    BY <1>3, <2>1, DeltaTyped DEF DeltaTypes, DeltaRecords
  <2> QED
    BY <1>3, <2>2, DeltaTyped DEF DeltaTypes, DeltaRecords, CurrentKeyKnown
<1>4. DeltaTypes'
  BY <1>1, <1>3, ReturnType, DeltaTyped
<1> QED
  BY <1>2, <1>4 DEF BeginDelta, TypeInv, DriverTypeOK, DeltaTypes, DeltaRecords

LEMMA TypeTakeKey ==
  ASSUME TypeInv, NEW c \in Callbacks, NEW key \in delta[c].keys, TakeKey(c, key)
  PROVE  TypeInv'
<1>1. key \in DOMAIN delta[c].vals /\ key \in Keys
  BY Typed DEF TypeInv, DriverTypeOK, DeltaRecords
<1>2. PointsNamed(PropertyOf(key)) \subseteq Points
  BY DEF PointsNamed
<1>3. delta' \in [Callbacks -> DeltaRecords]
  BY <1>1, <1>2, Typed DEF TakeKey, DeltaRecords
<1>4. \A b \in Callbacks : delta'[b].keys \subseteq DOMAIN delta'[b].vals
  BY Typed DEF TakeKey, DeltaRecords, TypeInv, DriverTypeOK
<1>5. CurrentKeyKnown'
  BY <1>1, Typed DEF TakeKey, DeltaRecords, TypeInv, CurrentKeyKnown
<1> QED
  BY <1>3, <1>4, <1>5 DEF TakeKey, TypeInv, DriverTypeOK, DeltaRecords

LEMMA TypeWritePoint ==
  ASSUME TypeInv, NEW c \in Callbacks, NEW k \in Points, WritePoint(c, k)
  PROVE  TypeInv'
<1> DEFINE tag == Job[k].tag
<1>1. /\ delta[c].pc = "points" /\ k \in delta[c].todo
      /\ UNCHANGED <<exec, cloud, changes>>
      /\ \/ /\ Converts(tag, Asked(c)) /\ Encodable(k)
            /\ \E n \in Converted(tag, Asked(c)) : Acknowledged(c, k, n) \/ Failed(c, k, n)
         \/ Refused(c)
  BY DEF WritePoint
<1>2. /\ delta[c].key \in DOMAIN delta[c].vals /\ delta[c].key \in Keys
      /\ delta[c].vals \in Values /\ PropertyOf(delta[c].key) # NoName
  BY <1>1, DeltaTyped DEF DeltaTypes, DeltaRecords, CurrentKeyKnown, Known, Keys
<1>3. Asked(c) \in [kind : Kinds, num : Int]
  BY <1>2, PropValueType DEF Asked
<1>4. CASE Refused(c)
  <2>1. DeltaTypes'
    BY <1>4, DeltaTyped, ReturnType DEF Refused
  <2> QED
    BY <1>1, <1>4, <2>1 DEF Refused, TypeInv, DriverTypeOK, DeltaTypes, DeltaRecords
<1>5. ASSUME NEW n \in Converted(tag, Asked(c)), Converts(tag, Asked(c)), Failed(c, k, n)
      PROVE  TypeInv'
  <2>1. DeltaTypes'
    BY <1>5, DeltaTyped, ReturnType DEF Failed
  <2>2. n \in Int /\ Object(k) \in Objects
    BY <1>3, <1>5, ConvertedType, JobFacts
  <2>3. late' \subseteq Objects \X Int /\ faults' \in 0..MaxFaults
    BY <1>5, <2>2, Typed DEF Failed
  <2> QED
    BY <1>1, <1>5, <2>1, <2>3 DEF Failed, TypeInv, DriverTypeOK, DeltaTypes, DeltaRecords
<1>6. ASSUME NEW n \in Converted(tag, Asked(c)), Converts(tag, Asked(c)), Acknowledged(c, k, n)
      PROVE  TypeInv'
  <2>1. n \in Int /\ Object(k) \in Objects
    BY <1>3, <1>6, ConvertedType, JobFacts
  <2>2. points' \in [Objects -> Int] /\ since' \in [Executors -> [Objects -> SUBSET Readings]]
    BY <1>6, <2>1, SetPointType DEF Acknowledged
  <2>3. DeltaTypes'
    BY <1>6, DeltaTyped DEF Acknowledged, DeltaTypes, DeltaRecords, CurrentKeyKnown
  <2>4. acked' \in [Callbacks -> SUBSET (Keys \X Points \X Int)]
    <3>1. acked' = [acked EXCEPT ![c] = @ \union {<<delta[c].key, k, n>>}]
      BY <1>6 DEF Acknowledged
    <3> QED
      BY <1>2, <2>1, <3>1, Typed
  <2> QED
    BY <1>1, <1>6, <2>2, <2>3, <2>4
       DEF Acknowledged, TypeInv, DriverTypeOK, DeltaTypes, DeltaRecords, Readings
<1> QED
  BY <1>1, <1>4, <1>5, <1>6

LEMMA TypeNext == TypeInv /\ [Next]_vars => TypeInv'
<1> SUFFICES ASSUME TypeInv, [Next]_vars PROVE TypeInv'
  OBVIOUS
<1>1. ASSUME NEW e \in Executors, Begin(e) \/ Execute(e)
      PROVE  TypeInv'
  BY <1>1, TypeBegin, TypeReadPoint, TypeReport DEF Execute
<1>2. ASSUME NEW c \in Callbacks, BeginDelta(c)
      PROVE  TypeInv'
  BY <1>2, TypeBeginDelta
<1>3. ASSUME NEW c \in Callbacks, NEW key \in delta[c].keys, TakeKey(c, key)
      PROVE  TypeInv'
  BY <1>3, TypeTakeKey
<1>4. ASSUME NEW c \in Callbacks, NEW k \in Points, WritePoint(c, k)
      PROVE  TypeInv'
  BY <1>4, TypeWritePoint
<1>5. ASSUME NEW c \in Callbacks, NextKey(c)
      PROVE  TypeInv'
  <2>1. DeltaTypes'
    BY <1>5, DeltaTyped DEF NextKey, DeltaTypes, DeltaRecords, CurrentKeyKnown
  <2> QED
    BY <1>5, <2>1 DEF NextKey, TypeInv, DriverTypeOK, DeltaTypes, DeltaRecords
<1>6. ASSUME NEW c \in Callbacks, EndDelta(c)
      PROVE  TypeInv'
  <2>1. DeltaTypes'
    BY <1>6, DeltaTyped, ReturnType DEF EndDelta
  <2> QED
    BY <1>6, <2>1 DEF EndDelta, TypeInv, DriverTypeOK, DeltaTypes, DeltaRecords
<1>7. ASSUME NEW x \in late, LateWrite(x)
      PROVE  TypeInv'
  BY <1>7, TypeLateWrite
<1>8. ASSUME NEW o \in Objects, NEW n \in Numbers, Change(o, n)
      PROVE  TypeInv'
  BY <1>8, TypeChange
<1>9. CASE UNCHANGED vars
  BY <1>9 DEF vars, TypeInv, DriverTypeOK, CurrentKeyKnown
<1> QED
  BY <1>1, <1>2, <1>3, <1>4, <1>5, <1>6, <1>7, <1>8, <1>9 DEF Next, DeltaCallback

\* DriverTypeOK for any template, deltas, workers and callbacks: an execution
\* stores numbers and nils under names of the template, a callback takes its
\* keys from its delta, and what it writes is a number whatever it converts.
THEOREM DriverTypes == Spec => []DriverTypeOK
<1>1. TypeInv => DriverTypeOK
  BY DEF TypeInv
<1> QED
  BY <1>1, TypeInit, TypeNext, PTL DEF Spec

----------------------------------------------------------------------------
(***************************************************************************)
(* What a callback has written.                                            *)
(***************************************************************************)
Written(c) == {<<w[1], w[2]>> : w \in acked[c]}

\* What is left to write: all points of the keys that are still to be taken,
\* and the rest of the points of the current one.
Left(c) ==
  {a \in AskedFor(c) :
     a[1] \in delta[c].keys \/ (a[1] = delta[c].key /\ a[2] \in delta[c].todo)}

\* A callback has written what the delta asks for, but for what is left.
WrittenSoFar(c) ==
  /\ delta[c].pc = "not called" => acked[c] = {}
  /\ delta[c].pc = "keys" => delta[c].todo = {}
  /\ delta[c].pc \in {"keys", "points"} => Written(c) = AskedFor(c) \ Left(c)
  /\ delta[c].pc = "nil" => Written(c) = AskedFor(c)
  /\ delta[c].pc = "error" => Written(c) \subseteq AskedFor(c)

\* Each write is of a known key, to a point, with a number that comes of
\* converting the value of the key.
WrittenConverted(c) ==
  \A w \in acked[c] :
    LET v == PropValue(w[1], delta[c].vals[w[1]]) IN
    /\ w[1] \in KnownKeys(c) /\ w[2] \in Points
    /\ Converts(Job[w[2]].tag, v) /\ w[3] \in Converted(Job[w[2]].tag, v)

WriteInv == \A c \in Callbacks : WrittenSoFar(c) /\ WrittenConverted(c)

LEMMA AskedElements ==
  ASSUME NEW c \in Callbacks
  PROVE  /\ \A a \in AskedFor(c) : a = <<a[1], a[2]>>
         /\ \A key, k : <<key, k>> \in AskedFor(c) <=>
                       key \in KnownKeys(c) /\ k \in PointsNamed(PropertyOf(key))
BY DEF AskedFor

LEMMA WriteInit == Init => WriteInv
<1> SUFFICES ASSUME Init, NEW c \in Callbacks PROVE WrittenSoFar(c) /\ WrittenConverted(c)
  BY DEF WriteInv
<1>1. delta[c].pc = "not called" /\ acked[c] = {}
  BY DEF Init
<1> QED
  BY <1>1 DEF WrittenSoFar, WrittenConverted

\* A step of one callback leaves the others as they are.
LEMMA OthersKeep ==
  ASSUME NEW b \in Callbacks, WrittenSoFar(b), WrittenConverted(b),
         UNCHANGED <<delta[b], acked[b]>>
  PROVE  WrittenSoFar(b)' /\ WrittenConverted(b)'
<1>1. Written(b)' = Written(b) /\ KnownKeys(b)' = KnownKeys(b)
  BY DEF Written, KnownKeys
<1>2. AskedFor(b)' = AskedFor(b)
  BY <1>1 DEF AskedFor
<1>3. Left(b)' = Left(b)
  BY <1>2 DEF Left
<1> QED
  BY <1>1, <1>2, <1>3 DEF WrittenSoFar, WrittenConverted

LEMMA WriteBeginDelta ==
  ASSUME TypeInv, WriteInv, NEW c \in Callbacks, BeginDelta(c)
  PROVE  WrittenSoFar(c)' /\ WrittenConverted(c)'
<1>1. acked'[c] = {}
  BY DEF BeginDelta, WriteInv, WrittenSoFar
<1>2. Written(c)' = {}
  BY <1>1 DEF Written
<1>3. CASE \E d \in Deltas[c] :
             delta' = [delta EXCEPT ![c] = [pc |-> "keys", vals |-> d, keys |-> DOMAIN d,
                                            key |-> "none", todo |-> {}]]
  <2>1. PICK d \in Deltas[c] :
             delta'[c] = [pc |-> "keys", vals |-> d, keys |-> DOMAIN d,
                          key |-> "none", todo |-> {}]
    BY <1>3, Typed
  <2>2. Left(c)' = AskedFor(c)'
    BY <2>1 DEF Left, AskedFor, KnownKeys
  <2> QED
    BY <1>1, <1>2, <2>1, <2>2 DEF WrittenSoFar, WrittenConverted
<1>4. CASE Return(c, "error")
  <2>1. delta'[c].pc = "error"
    BY <1>4, Typed DEF Return, DeltaRecords
  <2> QED
    BY <1>1, <1>2, <2>1 DEF WrittenSoFar, WrittenConverted
<1> QED
  BY <1>3, <1>4 DEF BeginDelta

\* From its first key on, what a callback is asked for does not change.
LEMMA AskedKept ==
  ASSUME NEW c \in Callbacks, delta'[c].vals = delta[c].vals
  PROVE  KnownKeys(c)' = KnownKeys(c) /\ AskedFor(c)' = AskedFor(c)
<1>1. KnownKeys(c)' = KnownKeys(c)
  BY DEF KnownKeys
<1> QED
  BY <1>1 DEF AskedFor

LEMMA ConvertedKept ==
  ASSUME NEW c \in Callbacks, WrittenConverted(c),
         delta'[c].vals = delta[c].vals, acked'[c] = acked[c]
  PROVE  WrittenConverted(c)'
BY AskedKept DEF WrittenConverted

LEMMA WriteTakeKey ==
  ASSUME TypeInv, WriteInv, NEW c \in Callbacks, NEW key \in delta[c].keys, TakeKey(c, key)
  PROVE  WrittenSoFar(c)' /\ WrittenConverted(c)'
<1> DEFINE known == Known(key, delta[c].vals[key])
<1>1. /\ delta[c].pc = "keys" /\ acked' = acked
      /\ delta'[c] = [pc   |-> IF known THEN "points" ELSE "keys",
                      vals |-> delta[c].vals,
                      keys |-> delta[c].keys \ {key},
                      key  |-> key,
                      todo |-> IF known THEN PointsNamed(PropertyOf(key)) ELSE {}]
  BY Typed DEF TakeKey
<1>2. delta[c].todo = {} /\ Written(c) = AskedFor(c) \ Left(c) /\ WrittenConverted(c)
  BY <1>1 DEF WriteInv, WrittenSoFar
<1>3. key \in DOMAIN delta[c].vals
  BY DeltaTyped DEF DeltaTypes
<1>4. AskedFor(c)' = AskedFor(c) /\ Written(c)' = Written(c) /\ delta'[c].vals = delta[c].vals
  BY <1>1, AskedKept DEF Written
<1>5. Left(c)' = Left(c)
  <2>1. ASSUME NEW a \in AskedFor(c), a[1] = key
        PROVE  known /\ a[2] \in PointsNamed(PropertyOf(key))
    BY <2>1, AskedElements DEF KnownKeys
  <2>2. Left(c) = {a \in AskedFor(c) : a[1] \in delta[c].keys}
    BY <1>2 DEF Left
  <2>3. Left(c)' = {a \in AskedFor(c) :
                    a[1] \in delta[c].keys \ {key} \/ (a[1] = key /\ a[2] \in delta'[c].todo)}
    BY <1>1, <1>4 DEF Left
  <2>4. \A a \in AskedFor(c) : a[1] = key => a[2] \in delta'[c].todo
    BY <1>1, <2>1
  <2> QED
    BY <2>2, <2>3, <2>4
<1>6. WrittenConverted(c)'
  BY <1>1, <1>2, <1>4, ConvertedKept
<1> QED
  BY <1>1, <1>2, <1>4, <1>5, <1>6 DEF WrittenSoFar

LEMMA WriteReturn ==
  ASSUME TypeInv, WriteInv, NEW c \in Callbacks, NEW r, Return(c, r), acked'[c] = acked[c],
         \/ r = "error" /\ delta[c].pc = "points"
         \/ r = "nil" /\ delta[c].pc = "keys" /\ delta[c].keys = {}
  PROVE  WrittenSoFar(c)' /\ WrittenConverted(c)'
<1>1. delta'[c].pc = r /\ delta'[c].vals = delta[c].vals
  BY Typed DEF Return, DeltaRecords
<1>2. AskedFor(c)' = AskedFor(c) /\ Written(c)' = Written(c)
  BY <1>1, AskedKept DEF Written
<1>3. WrittenConverted(c)'
  BY <1>1, ConvertedKept DEF WriteInv
<1>4. Written(c) = AskedFor(c) \ Left(c)
  BY DEF WriteInv, WrittenSoFar
<1>5. r = "nil" => Left(c) = {}
  BY DEF WriteInv, WrittenSoFar, Left
<1> QED
  BY <1>1, <1>2, <1>3, <1>4, <1>5 DEF WrittenSoFar

LEMMA WriteWritePoint ==
  ASSUME TypeInv, WriteInv, NEW c \in Callbacks, NEW k \in Points, WritePoint(c, k)
  PROVE  WrittenSoFar(c)' /\ WrittenConverted(c)'
<1> DEFINE key == delta[c].key
<1>1. delta[c].pc = "points" /\ k \in delta[c].todo
  BY DEF WritePoint
<1>2. CASE Return(c, "error") /\ acked' = acked
  BY <1>1, <1>2, WriteReturn
<1>3. ASSUME NEW n \in Converted(Job[k].tag, Asked(c)),
             Converts(Job[k].tag, Asked(c)), Acknowledged(c, k, n)
      PROVE  WrittenSoFar(c)' /\ WrittenConverted(c)'
  <2>1. delta' = [delta EXCEPT ![c].todo = @ \ {k}]
    BY <1>3 DEF Acknowledged
  <2>2. /\ delta'[c].pc = "points" /\ delta'[c].keys = delta[c].keys
        /\ delta'[c].key = key /\ delta'[c].todo = delta[c].todo \ {k}
        /\ delta'[c].vals = delta[c].vals
    BY <1>1, <2>1, Typed DEF DeltaRecords
  <2>3. acked'[c] = acked[c] \union {<<key, k, n>>}
    BY <1>3, Typed DEF Acknowledged
  <2>4. /\ key \in KnownKeys(c) /\ key \notin delta[c].keys
        /\ k \in PointsNamed(PropertyOf(key))
    BY <1>1, DeltaTyped DEF DeltaTypes, CurrentKeyKnown, KnownKeys
  <2>5. AskedFor(c)' = AskedFor(c) /\ KnownKeys(c)' = KnownKeys(c)
    BY <2>2, AskedKept
  <2>6. Written(c)' = Written(c) \union {<<key, k>>}
    <3>1. <<key, k, n>>[1] = key /\ <<key, k, n>>[2] = k
      OBVIOUS
    <3> HIDE DEF key
    <3> QED
      BY <2>3, <3>1, Zenon DEF Written
  <2>7. <<key, k>> \in AskedFor(c)
    BY <2>4, AskedElements
  <2>8. Left(c)' = Left(c) \ {<<key, k>>}
    <3>1. Left(c)' = {a \in AskedFor(c) :
                    a[1] \in delta[c].keys \/ (a[1] = key /\ a[2] \in delta[c].todo \ {k})}
      BY <2>2, <2>5 DEF Left
    <3>2. \A a \in AskedFor(c) : a = <<key, k>> <=> a[1] = key /\ a[2] = k
      BY AskedElements
    <3> QED
      BY <2>4, <3>1, <3>2 DEF Left
  <2>9. WrittenSoFar(c)'
    <3>1. Written(c) = AskedFor(c) \ Left(c)
      BY <1>1 DEF WriteInv, WrittenSoFar
    <3> QED
      BY <2>2, <2>5, <2>6, <2>7, <2>8, <3>1 DEF WrittenSoFar
  <2>10. WrittenConverted(c)'
    BY <1>3, <2>2, <2>3, <2>4, <2>5 DEF WriteInv, WrittenConverted, Asked
  <2> QED
    BY <2>9, <2>10
<1> QED
  BY <1>2, <1>3 DEF WritePoint, Failed, Refused

LEMMA WriteNextKey ==
  ASSUME TypeInv, WriteInv, NEW c \in Callbacks, NextKey(c)
  PROVE  WrittenSoFar(c)' /\ WrittenConverted(c)'
<1>1. /\ delta[c].pc = "points" /\ delta[c].todo = {} /\ acked' = acked
      /\ delta' = [delta EXCEPT ![c].pc = "keys"]
  BY DEF NextKey
<1>2. /\ delta'[c].pc = "keys" /\ delta'[c].keys = delta[c].keys /\ delta'[c].key = delta[c].key
      /\ delta'[c].todo = delta[c].todo /\ delta'[c].vals = delta[c].vals
  BY <1>1, Typed DEF DeltaRecords
<1>3. AskedFor(c)' = AskedFor(c) /\ Written(c)' = Written(c) /\ WrittenConverted(c)'
  BY <1>1, <1>2, AskedKept, ConvertedKept DEF Written, WriteInv
<1>4. Left(c)' = Left(c)
  BY <1>2, <1>3 DEF Left
<1> QED
  BY <1>1, <1>2, <1>3, <1>4 DEF WriteInv, WrittenSoFar

\* The callback that a step is of, and all others, if there is any.
LEMMA OneCallback ==
  ASSUME TypeInv, WriteInv, NEW c \in Callbacks,
         BeginDelta(c) \/ DeltaCallback(c)
  PROVE  \A b \in Callbacks \ {c} : UNCHANGED <<delta[b], acked[b]>>
<1>1. delta \in [Callbacks -> DeltaRecords]
      /\ acked \in [Callbacks -> SUBSET (Keys \X Points \X Int)]
  BY Typed
<1> TAKE b \in Callbacks \ {c}
<1>2. CASE BeginDelta(c)
  BY <1>1, <1>2 DEF BeginDelta, Return
<1>3. CASE NextKey(c) \/ EndDelta(c)
  BY <1>1, <1>3 DEF NextKey, EndDelta, Return
<1>4. ASSUME NEW key \in delta[c].keys, TakeKey(c, key) PROVE UNCHANGED <<delta[b], acked[b]>>
  BY <1>1, <1>4 DEF TakeKey
<1>5. ASSUME NEW k \in Points, WritePoint(c, k) PROVE UNCHANGED <<delta[b], acked[b]>>
  BY <1>1, <1>5 DEF WritePoint, Acknowledged, Failed, Refused, Return
<1> QED
  BY <1>2, <1>3, <1>4, <1>5 DEF DeltaCallback

LEMMA WriteNext == TypeInv /\ WriteInv /\ [Next]_vars => WriteInv'
<1> SUFFICES ASSUME TypeInv, WriteInv, [Next]_vars,
                    NEW b \in Callbacks
             PROVE  WrittenSoFar(b)' /\ WrittenConverted(b)'
  BY DEF WriteInv
<1>1. CASE UNCHANGED <<delta[b], acked[b]>>
  BY <1>1, OthersKeep DEF WriteInv
<1>2. ASSUME NEW c \in Callbacks, BeginDelta(c) \/ DeltaCallback(c)
      PROVE  WrittenSoFar(b)' /\ WrittenConverted(b)'
  <2>1. CASE b # c
    BY <1>1, <1>2, <2>1, OneCallback
  <2>2. CASE b = c
    <3>1. CASE EndDelta(c)
      BY <2>2, <3>1, WriteReturn DEF EndDelta
    <3>2. CASE NextKey(c)
      BY <2>2, <3>2, WriteNextKey
    <3>3. CASE BeginDelta(c)
      BY <2>2, <3>3, WriteBeginDelta
    <3> QED
      BY <1>2, <2>2, <3>1, <3>2, <3>3, WriteTakeKey, WriteWritePoint DEF DeltaCallback
  <2> QED
    BY <2>1, <2>2
<1>3. ASSUME NEW e \in Executors, Begin(e) \/ Execute(e)
      PROVE  UNCHANGED <<delta[b], acked[b]>>
  BY <1>3 DEF Begin, Execute, ReadPoint, Report
<1>4. ASSUME NEW x \in late, LateWrite(x) PROVE UNCHANGED <<delta[b], acked[b]>>
  BY <1>4 DEF LateWrite
<1>5. ASSUME NEW o \in Objects, NEW n \in Numbers, Change(o, n)
      PROVE  UNCHANGED <<delta[b], acked[b]>>
  BY <1>5 DEF Change
<1>6. CASE UNCHANGED vars
  BY <1>1, <1>6 DEF vars
<1> QED
  BY <1>1, <1>2, <1>3, <1>4, <1>5, <1>6 DEF Next

LEMMA WriteInvHolds == Spec => [](TypeInv /\ WriteInv)
BY TypeInit, TypeNext, WriteInit, WriteNext, PTL DEF Spec

\* NilMeansWritten for any deltas and templates: whatever order the maps give
\* the keys and points, and whatever else runs, a callback that returns nil
\* has left nothing out, and one that fails has written nothing else.
THEOREM NilIsWritten == Spec => []NilMeansWritten
<1>1. TypeInv /\ WriteInv => NilMeansWritten
  <2> SUFFICES ASSUME TypeInv, WriteInv, NEW c \in Callbacks
               PROVE  /\ Written(c) \subseteq AskedFor(c)
                      /\ delta[c].pc = "nil" => Written(c) = AskedFor(c)
    BY DEF NilMeansWritten, Written
  <2>1. delta[c].pc \in {"not called", "keys", "points", "error", "nil"}
    BY Typed DEF DeltaRecords
  <2>2. acked[c] = {} => Written(c) = {}
    BY DEF Written
  <2> QED
    BY <2>1, <2>2 DEF WriteInv, WrittenSoFar
<1> QED
  BY <1>1, WriteInvHolds, PTL

\* WrittenAsAsked for every number, width and precision: each acknowledged
\* write has a number that converting the value gives, and converting leaves
\* a number alone that the type of the point can have.
THEOREM NumbersArriveAsAsked == Spec => []WrittenAsAsked
<1>1. TypeInv /\ WriteInv => WrittenAsAsked
  <2> SUFFICES ASSUME TypeInv, WriteInv, NEW c \in Callbacks, NEW w \in acked[c],
                      Representable(Job[w[2]].tag, PropValue(w[1], delta[c].vals[w[1]]).num)
               PROVE  w[3] = PropValue(w[1], delta[c].vals[w[1]]).num
    BY DEF WrittenAsAsked
  <2> DEFINE v == PropValue(w[1], delta[c].vals[w[1]])
             tag == Job[w[2]].tag
  <2>1. w[1] \in KnownKeys(c) /\ Converts(tag, v) /\ w[3] \in Converted(tag, v)
    BY DEF WriteInv, WrittenConverted
  <2>2. delta[c].vals \in Values
    BY Typed DEF DeltaRecords
  <2>3. v \in [kind : Kinds, num : Int]
    BY <2>1, <2>2, PropValueType DEF KnownKeys, Known
  <2>4. Converted(tag, v) = {v.num}
    <3> HIDE DEF v, tag
    <3>1. Representable(tag, v.num)
      BY DEF v, tag
    <3> QED
      BY <2>1, <2>3, <3>1, ConvertedExactly
  <2> QED
    BY <2>1, <2>4
<1> QED
  BY <1>1, WriteInvHolds, PTL

----------------------------------------------------------------------------
(***************************************************************************)
(* What an execution has read.                                             *)
(***************************************************************************)

\* While an execution reads, the ghost has the number each object has now.
SinceHolds ==
  \A e \in Executors : exec[e].pc = "reading" =>
    \A o \in Objects : points[o] \in since[e][o]

\* What is stored under a name is what an object of that name has had since
\* the execution began, or the nil of an answer that this execution got;
\* between two executions nothing is stored.
ReadSince ==
  \A e \in Executors : \A name \in Names : exec[e].temp[name] # NoValue =>
    /\ exec[e].pc = "reading"
    /\ \E k \in PointsNamed(name) : exec[e].temp[name] \in since[e][Object(k)]

FreshInv == SinceHolds /\ ReadSince

LEMMA FreshInit == Init => FreshInv
<1> SUFFICES ASSUME Init PROVE FreshInv
  OBVIOUS
<1>1. \A e \in Executors : exec[e] = Idle
  BY DEF Init
<1> QED
  BY <1>1 DEF Idle, NothingRead, FreshInv, SinceHolds, ReadSince

LEMMA FreshBegin ==
  ASSUME TypeInv, FreshInv, NEW e \in Executors, Begin(e)
  PROVE  FreshInv'
<1>1. /\ exec[e].pc = "idle" /\ UNCHANGED points
      /\ exec' = [exec EXCEPT ![e].pc = "reading", ![e].todo = Points]
      /\ since' = [since EXCEPT ![e] = [o \in Objects |-> {points[o]}]]
  BY DEF Begin
<1>2. \A d \in Executors : d # e => exec'[d] = exec[d] /\ since'[d] = since[d]
  BY <1>1, Typed
<1>3. /\ exec'[e].pc = "reading" /\ exec'[e].temp = exec[e].temp
      /\ since'[e] = [o \in Objects |-> {points[o]}]
  BY <1>1, Typed DEF ExecRecords
<1>4. \A name \in Names : exec[e].temp[name] = NoValue
  BY <1>1 DEF FreshInv, ReadSince
<1>5. SinceHolds'
  BY <1>1, <1>2, <1>3 DEF FreshInv, SinceHolds
<1>6. ReadSince'
  BY <1>2, <1>3, <1>4 DEF FreshInv, ReadSince
<1> QED
  BY <1>5, <1>6 DEF FreshInv

LEMMA FreshReadPoint ==
  ASSUME TypeInv, FreshInv, NEW e \in Executors, NEW k \in Points, ReadPoint(e, k)
  PROVE  FreshInv'
<1> DEFINE name == Job[k].name
<1>1. exec[e].pc = "reading" /\ UNCHANGED points
  BY DEF ReadPoint
<1>2. PICK n \in {points[Object(k)], exec[e].temp[name], Nil} :
        /\ Store(e, k, n)
        /\ \/ n # Nil /\ UNCHANGED since
           \/ n = exec[e].temp[name] /\ UNCHANGED since
           \/ n = Nil /\ since' = [since EXCEPT ![e][Object(k)] = @ \union {Nil}]
  <2>1. points[Object(k)] # Nil
    BY JobFacts, Typed, DriverAssumption
  <2> QED
    BY <2>1 DEF ReadPoint, ReadFails, ReadNil
<1>3. /\ exec \in [Executors -> ExecRecords]
      /\ name \in Names /\ Object(k) \in Objects
      /\ exec[e].temp \in [Names -> Int \union {Nil, NoValue}]
  BY JobFacts, Typed DEF ExecRecords
<1>4. /\ exec'[e].pc = "reading"
      /\ exec'[e].temp = [exec[e].temp EXCEPT ![name] = n]
      /\ \A d \in Executors : d # e => exec'[d] = exec[d]
  BY <1>2, <1>3 DEF Store
<1>5. points[Object(k)] \in since[e][Object(k)] /\ k \in PointsNamed(name)
  BY <1>1, <1>3 DEF FreshInv, SinceHolds, PointsNamed
<1>6. /\ \A d \in Executors, o \in Objects : since[d][o] \subseteq since'[d][o]
      /\ n = Nil => n = exec[e].temp[name] \/ Nil \in since'[e][Object(k)]
  BY <1>2, <1>3, Typed
<1>7. SinceHolds'
  BY <1>1, <1>4, <1>6 DEF FreshInv, SinceHolds
<1>8. \A other \in Names : \A j \in PointsNamed(other) : Object(j) \in Objects
  BY JobFacts DEF PointsNamed
<1>9. ReadSince'
  <2> SUFFICES ASSUME NEW d \in Executors, NEW other \in Names,
                      exec'[d].temp[other] # NoValue
               PROVE  /\ exec'[d].pc = "reading"
                      /\ \E j \in PointsNamed(other) :
                           exec'[d].temp[other] \in since'[d][Object(j)]
    BY DEF ReadSince
  <2>1. CASE d # e
    BY <1>4, <1>6, <1>8, <2>1 DEF FreshInv, ReadSince
  <2>2. CASE d = e /\ other # name
    <3>1. exec'[e].temp[other] = exec[e].temp[other]
      BY <1>3, <1>4, <2>2
    <3> QED
      BY <1>4, <1>6, <1>8, <2>2, <3>1 DEF FreshInv, ReadSince
  <2>3. CASE d = e /\ other = name
    <3>1. exec'[e].temp[other] = n
      BY <1>3, <1>4, <2>3
    <3>2. CASE n = points[Object(k)]
      BY <1>3, <1>4, <1>5, <1>6, <2>3, <3>1, <3>2
    <3>3. CASE n = exec[e].temp[name]
      <4>1. PICK j \in PointsNamed(name) : n \in since[e][Object(j)]
        BY <1>3, <2>3, <3>1, <3>3 DEF FreshInv, ReadSince
      <4>2. n \in since'[e][Object(j)]
        BY <1>3, <1>6, <1>8, <4>1
      <4> QED
        BY <1>4, <2>3, <3>1, <4>1, <4>2
    <3>4. CASE n = Nil /\ Nil \in since'[e][Object(k)]
      BY <1>4, <1>5, <2>3, <3>1, <3>4
    <3> QED
      BY <1>6, <3>2, <3>3, <3>4
  <2> QED
    BY <2>1, <2>2, <2>3
<1> QED
  BY <1>7, <1>9 DEF FreshInv

LEMMA FreshReport ==
  ASSUME TypeInv, FreshInv, NEW e \in Executors, Report(e)
  PROVE  FreshInv'
<1>1. UNCHANGED points /\ exec' = [exec EXCEPT ![e] = Idle]
      /\ since' = [since EXCEPT ![e] = NothingSince]
  BY DEF Report, EndExecute
<1>2. exec'[e] = Idle
  BY <1>1, Typed
<1>3. \A d \in Executors : d # e => exec'[d] = exec[d] /\ since'[d] = since[d]
  BY <1>1, Typed
<1>4. Idle.pc = "idle" /\ \A name \in Names : Idle.temp[name] = NoValue
  BY DEF Idle, NothingRead
<1> QED
  BY <1>1, <1>2, <1>3, <1>4 DEF FreshInv, SinceHolds, ReadSince

\* A write or a change shows in the ghost of every execution that reads.
LEMMA FreshSetPoint ==
  ASSUME TypeInv, FreshInv, NEW x \in Objects, NEW n, SetPoint(x, n), UNCHANGED exec
  PROVE  FreshInv'
<1>1. /\ points' = [points EXCEPT ![x] = n]
      /\ \A e \in Executors : since'[e] = IF exec[e].pc = "idle" THEN since[e]
                             ELSE [since[e] EXCEPT ![x] = @ \union {n}]
  BY DEF SetPoint
<1>2. \A e \in Executors, o \in Objects : exec[e].pc = "reading" =>
        since'[e][o] = IF o = x THEN since[e][o] \union {n} ELSE since[e][o]
  BY <1>1, Typed
<1>3. SinceHolds'
  BY <1>1, <1>2, Typed DEF FreshInv, SinceHolds
<1>4. ReadSince'
  <2> SUFFICES ASSUME NEW e \in Executors, NEW name \in Names, exec[e].temp[name] # NoValue
               PROVE  /\ exec[e].pc = "reading"
                      /\ \E k \in PointsNamed(name) :
                           exec[e].temp[name] \in since'[e][Object(k)]
    BY DEF ReadSince
  <2>1. PICK k \in PointsNamed(name) : exec[e].temp[name] \in since[e][Object(k)]
    BY DEF FreshInv, ReadSince
  <2>2. exec[e].pc = "reading"
    BY DEF FreshInv, ReadSince
  <2>3. Object(k) \in Objects
    BY JobFacts DEF PointsNamed
  <2> QED
    BY <1>2, <2>1, <2>2, <2>3
<1> QED
  BY <1>3, <1>4 DEF FreshInv

LEMMA FreshNext == TypeInv /\ FreshInv /\ [Next]_vars => FreshInv'
<1> SUFFICES ASSUME TypeInv, FreshInv, [Next]_vars PROVE FreshInv'
  OBVIOUS
<1>1. ASSUME UNCHANGED <<points, exec, since>> PROVE FreshInv'
  BY <1>1 DEF FreshInv, SinceHolds, ReadSince
<1>2. ASSUME NEW e \in Executors, Begin(e) \/ Execute(e) PROVE FreshInv'
  BY <1>2, FreshBegin, FreshReadPoint, FreshReport DEF Execute
<1>3. ASSUME NEW c \in Callbacks, BeginDelta(c) PROVE FreshInv'
  BY <1>1, <1>3 DEF BeginDelta
<1>4. ASSUME NEW c \in Callbacks, NextKey(c) \/ EndDelta(c) PROVE FreshInv'
  BY <1>1, <1>4 DEF NextKey, EndDelta
<1>5. ASSUME NEW c \in Callbacks, NEW key \in delta[c].keys, TakeKey(c, key) PROVE FreshInv'
  BY <1>1, <1>5 DEF TakeKey
<1>6. ASSUME NEW c \in Callbacks, NEW k \in Points, WritePoint(c, k) PROVE FreshInv'
  <2>1. UNCHANGED exec
    BY <1>6 DEF WritePoint
  <2>2. UNCHANGED <<points, since>> \/ \E n : SetPoint(Object(k), n)
    BY <1>6 DEF WritePoint, Acknowledged, Failed, Refused
  <2> QED
    BY <1>1, <2>1, <2>2, FreshSetPoint, JobFacts
<1>7. ASSUME NEW x \in late, LateWrite(x) PROVE FreshInv'
  <2>1. x[1] \in Objects
    BY Typed
  <2> QED
    BY <1>7, <2>1, FreshSetPoint DEF LateWrite
<1>8. ASSUME NEW o \in Objects, NEW n \in Numbers, Change(o, n) PROVE FreshInv'
  BY <1>8, FreshSetPoint DEF Change
<1>9. CASE UNCHANGED vars
  BY <1>1, <1>9 DEF vars
<1> QED
  BY <1>2, <1>3, <1>4, <1>5, <1>6, <1>7, <1>8, <1>9 DEF Next, DeltaCallback

\* ReportsAreFresh for any number of executions side by side: whatever reads,
\* writes, failures and late writes come between its steps, what an execution
\* reports for a parameter is what an object of that name had after it began,
\* or the nil of an answer that it could not decode.
THEOREM ReportsFresh == Spec => ReportsAreFresh
<1> DEFINE Fresh ==
      \A e \in Executors : \A a \in Attributes :
        Report(e) /\ cloud'[a] # cloud[a] =>
          \A i \in DOMAIN cloud'[a].args :
            \E o \in Sources(cloud'[a].by, i) : cloud'[a].args[i] \in since[e][o]
<1>1. TypeInv /\ FreshInv => Fresh
  <2> SUFFICES ASSUME TypeInv, FreshInv, NEW e \in Executors, NEW a \in Attributes,
                      Report(e), cloud'[a] # cloud[a]
               PROVE  \A i \in DOMAIN cloud'[a].args :
                        \E o \in Sources(cloud'[a].by, i) : cloud'[a].args[i] \in since[e][o]
    OBVIOUS
  <2> DEFINE temp == exec[e].temp
  <2>1. PICK ms \in ExecExpression(temp) :
           cloud'[a] = Reports(ms, temp)[a] /\ Reports(ms, temp)[a] # NoReport
    BY DEF Report, Shows
  <2>2. PICK m \in DOMAIN Mappings :
           Complete(m, temp) /\ Reports(ms, temp)[a] = [by |-> m, args |-> ArgsOf(m, temp)]
    BY <2>1, ReportFacts
  <2>3. cloud'[a].by = m /\ cloud'[a].args = [i \in DOMAIN ParamNames[m] |-> temp[ParamNames[m][i]]]
    BY <2>1, <2>2 DEF ArgsOf
  <2>4. ASSUME NEW i \in DOMAIN ParamNames[m]
        PROVE  \E o \in Sources(m, i) : temp[ParamNames[m][i]] \in since[e][o]
    <3>1. ParamNames[m][i] \in Names /\ temp[ParamNames[m][i]] # NoValue
      BY <2>2, CompleteFacts
    <3>2. PICK k \in PointsNamed(ParamNames[m][i]) :
             temp[ParamNames[m][i]] \in since[e][Object(k)]
      BY <3>1 DEF FreshInv, ReadSince
    <3> QED
      BY <3>2 DEF Sources
  <2> QED
    BY <2>3, <2>4
<1>2. Spec => [](TypeInv /\ FreshInv)
  BY TypeInit, TypeNext, FreshInit, FreshNext, PTL DEF Spec
<1>3. Spec => [][Fresh]_vars
  BY <1>1, <1>2, PTL
<1> QED
  BY <1>3 DEF ReportsAreFresh
=============================================================================
