------------------------------- MODULE Driver -------------------------------
(***************************************************************************)
(* One device of the driver once it serves: worker.Execute, run by the     *)
(* ticker of the device's worker and by PropertyGetCallback, beside        *)
(* DeltaCallback, which writes what the cloud asks for; with the job that  *)
(* genConfig made for the device and the lookups and conversions of dmp.   *)
(*                                                                         *)
(* A call of the client is one step here, with the outcomes that module    *)
(* Client leaves: an answer to this call, an error, or an error although   *)
(* the device will get the request later.  Expressions belong to package   *)
(* dmcontext, which is not in this repository: what an attribute is        *)
(* computed from, the values of its parameters, stands for its value; an   *)
(* expression that can be solved multiplies its parameter by "scale".      *)
(***************************************************************************)
EXTENDS Integers, Sequences, FiniteSetsExt

CONSTANTS
  Properties, \* template.Properties, a sequence of records [id, name,
              \* visitor, type, address, tag]; visitor: is there one?
  Mappings,   \* template.Mappings, a sequence of [attribute, type, scale, params]
  Offset,     \* job.AddressOffset
  Words,      \* how many numbers a uint32 has, an ObjectInstance too: 2^32
  ObjectTypes,\* how many numbers an ObjectType has: 2^16
  Significands,\* how many a float32 tells apart before it rounds: 2^24
  Ulps,       \* the distances between neighbouring float32, the powers of two
              \* from 1; the largest one ends before infinity
  MaxInstance,\* the largest instance that can be encoded: 2^22 - 1
  MaxObjectType,\* the largest type that can be encoded: 2^10
  Workers,    \* goroutines that run Execute on a ticker
  Getters,    \* goroutines that run PropertyGetCallback
  Deltas,     \* function from the calls of DeltaCallback to the deltas it may
              \* be called with: functions from attributes to values [kind, num]
  Numbers,    \* the numbers that a point of the device may change to
  Nil,        \* a nil that was read, without an error, in place of a number
  NoValue,    \* no entry in what an execution has read
  MaxFaults,  \* bound on failing calls and on answers that are nil
  MaxChanges  \* bound on changes of a point by the device itself

NoName == "no name"

(* The Go types that a value of a delta may come with. *)
Integral == {"int16", "int32", "int64"}
Floating == {"float32", "float64"}
Kinds == Integral \union Floating \union {"int", "bool", "string"}

ASSUME DriverAssumption ==
  /\ Properties \in Seq([id : STRING, name : STRING \ {NoName}, visitor : BOOLEAN,
                         type : Nat, address : Nat, tag : Nat])
  /\ Mappings \in Seq([attribute : STRING, type : {"value", "calculate"},
                       scale : Nat \ {0}, params : Seq(STRING)])
  /\ \A c \in DOMAIN Deltas : \A d \in Deltas[c] : \A a \in DOMAIN d :
       d[a] \in [kind : Kinds, num : Int]
  /\ Offset \in Nat /\ Numbers \subseteq Int
  /\ Nil \notin Int /\ NoValue \notin Int \union {Nil}
  /\ Words \in Nat \ {0} /\ MaxInstance \in 0..(Words - 1)
  /\ ObjectTypes \in Nat \ {0} /\ MaxObjectType \in 0..(ObjectTypes - 1)
  /\ Significands \in Nat \ {0} /\ Ulps \subseteq Nat \ {0}
  /\ \A u \in Ulps : u = 1 \/ \E half \in Ulps : u = 2 * half
  /\ \E top \in Ulps : \A u \in Ulps : u <= top
  /\ MaxFaults \in Nat /\ MaxChanges \in Nat

VARIABLES points,  \* the device: the number of each object of the job
          late,    \* writes that timed out and may still reach the device
          exec,    \* the executions of Execute
          delta,   \* the calls of DeltaCallback
          cloud,   \* the attributes as last reported
          faults, changes,
          since,   \* ghost: the numbers each point had since an Execute began,
                   \* and Nil if an answer of it could not be decoded
          acked    \* ghost: the writes acknowledged to a DeltaCallback

vars == <<points, late, exec, delta, cloud, faults, changes, since, acked>>

Executors == Workers \union Getters
Callbacks == DOMAIN Deltas

-----------------------------------------------------------------------------
(* genConfig: the job has a property for each type and address, the last   *)
(* one of the template that has a visitor there.                           *)

Point(p) == <<p.type, p.address + Offset>>
Visited  == {i \in DOMAIN Properties : Properties[i].visitor}
Points   == {Point(Properties[i]) : i \in Visited}
Job == [k \in Points |->
  LET at == {i \in Visited : Point(Properties[i]) = k}
  IN Properties[Max(at)]]

(* The object at a point: type and address are cut to the widths they have *)
(* in an object ID.  One that cannot be encoded fails each call made for it.*)
Object(k) == <<k[1] % ObjectTypes, k[2] % Words>>
Objects == {Object(k) : k \in Points}
Encodable(k) == Object(k)[1] <= MaxObjectType /\ Object(k)[2] <= MaxInstance

PointsNamed(name) == {k \in Points : Job[k].name = name}
Names == {Properties[i].name : i \in DOMAIN Properties}
Attributes == {Mappings[i].attribute : i \in DOMAIN Mappings}

-----------------------------------------------------------------------------
(* dmp: lookups take the first match. *)

GetMappingName(id) ==
  LET is == {i \in DOMAIN Properties : Properties[i].id = id}
  IN IF is = {} THEN NoName ELSE Properties[Min(is)].name

MappingOf(attribute) == Min({i \in DOMAIN Mappings : Mappings[i].attribute = attribute})

(* The property a delta's key is written to, that of the first parameter. *)
PropertyOf(key) ==
  LET is == {i \in DOMAIN Mappings :
               Mappings[i].attribute = key /\ Mappings[i].params # <<>>}
  IN IF is = {} THEN NoName ELSE GetMappingName(Mappings[Min(is)].params[1])

(* Numbers are counted in halves, so that some are no integers; true is 1. *)
One == 2
Trunc(n) == IF n >= 0 THEN n - (n % One) ELSE n + (-n % One)

(* GetPropValueByModelName: a "value" mapping takes the value as it is, a  *)
(* calculated one is solved for its parameter, as a float64, if the value  *)
(* is a number.  (A float32 goes through its decimal, exactly if it is a   *)
(* number of halves below the precision.)                                  *)
Solvable(key, v) ==
  LET m == Mappings[MappingOf(key)]
  IN m.type = "value" \/ (v.kind \in Integral \union Floating \union {"int"}
                           /\ Len(m.params) = 1)
PropValue(key, v) ==
  LET m == Mappings[MappingOf(key)]
  IN IF m.type = "value" THEN v
     ELSE [kind |-> "float64", num |-> v.num \div m.scale]

(* float32: the nearest number with a significand; of two, the even one.   *)
(* Infinity is in the place of the first number that is too large.         *)
Fitting(n) == {u \in Ulps : n < Significands * u /\ -n < Significands * u}
Ulp(n) == Min(Fitting(n))
Nearest(n, u) ==
  LET down == n - (n % u)
      even == (down \div u) % 2 = 0
  IN IF 2 * (n % u) < u \/ (2 * (n % u) = u /\ even) THEN down ELSE down + u
Infinity == Significands * Max(Ulps)
ParseValueToFloat32(v) ==
  IF Fitting(v.num) # {} THEN Nearest(v.num, Ulp(v.num))
  ELSE IF v.num > 0 THEN Infinity ELSE -Infinity

(* uint32: an integer is cut to its last bits, a float loses its fraction; *)
(* a float that is out of range becomes whatever the machine makes of it.  *)
Uint32s == {One * n : n \in 0..(Words - 1)}

(* Mutant: by way of a float32, as the values of Real points go. *)
ParseValueToUint32Float(v) == {Trunc(ParseValueToFloat32(v)) % (One * Words)}

ParseValueToUint32(v) ==
  CASE v.kind \in Integral -> {v.num % (One * Words)}
    [] v.kind \in Floating -> IF Trunc(v.num) \in Uint32s THEN {Trunc(v.num)} ELSE Uint32s

(* The conversions that DeltaCallback makes for application tags Boolean,  *)
(* Real and Enumerated; others it refuses.                                 *)
Boolean    == 1
Real       == 4
Enumerated == 9
Converts(tag, v) ==
  \/ tag = Boolean /\ v.kind = "bool"
  \/ tag \in {Real, Enumerated} /\ v.kind \in Integral \union Floating
Converted(tag, v) ==
  CASE tag = Boolean    -> {v.num}
    [] tag = Real       -> {ParseValueToFloat32(v)}
    [] tag = Enumerated -> ParseValueToUint32(v)

Known(key, v) == PropertyOf(key) # NoName /\ Solvable(key, v)

-----------------------------------------------------------------------------
(* Execute *)

NothingSince == [o \in Objects |-> {}]
NothingRead == [n \in Names |-> NoValue]
Idle == [pc |-> "idle", todo |-> {}, temp |-> NothingRead]

(* The names that the parameters of each mapping stand for, and their      *)
(* values, if there are any: a nil is one.                                 *)
ParamNames == [m \in DOMAIN Mappings |->
  [i \in DOMAIN Mappings[m].params |-> GetMappingName(Mappings[m].params[i])]]
ArgsOf(m, temp) == [i \in DOMAIN ParamNames[m] |-> temp[ParamNames[m][i]]]
WasRead(m, i, temp) == ParamNames[m][i] # NoName /\ temp[ParamNames[m][i]] # NoValue
CompleteInPart(m, temp) == \E i \in DOMAIN ParamNames[m] : WasRead(m, i, temp)
Complete(m, temp) == \A i \in DOMAIN ParamNames[m] : WasRead(m, i, temp)

(* The sets of mappings that ExecExpression, of dmcontext, may have a      *)
(* result for: it cannot do without a parameter, finds the result if each  *)
(* is a number, also if there are none, and may do either with a nil.      *)
AreNumbers(m, temp) == \A i \in DOMAIN ParamNames[m] : ArgsOf(m, temp)[i] # Nil
ExecExpression(temp) ==
  LET complete == {m \in DOMAIN Mappings : Complete(m, temp)}
  IN {ms \in SUBSET complete : \A m \in complete : AreNumbers(m, temp) => m \in ms}

(* What is reported: of the mappings for an attribute that have a result   *)
(* the last one.                                                           *)
NoReport == [by |-> 0, args |-> <<>>]
Reports(ms, temp) == [a \in Attributes |->
  LET is == {i \in ms : Mappings[i].attribute = a}
  IN IF is = {} THEN NoReport ELSE [by |-> Max(is), args |-> ArgsOf(Max(is), temp)]]

Begin(e) ==
  /\ exec[e].pc = "idle"
  /\ exec' = [exec EXCEPT ![e].pc = "reading", ![e].todo = Points]
  /\ since' = [since EXCEPT ![e] = [o \in Objects |-> {points[o]}]]
  /\ UNCHANGED <<points, late, delta, cloud, faults, changes, acked>>

Store(e, k, n) ==
  exec' = [exec EXCEPT ![e] = [pc |-> "reading", todo |-> @.todo \ {k},
                               temp |-> [@.temp EXCEPT ![Job[k].name] = n]]]

(* A property that cannot be read is left out; an answer that cannot be    *)
(* decoded is nil without an error, and takes the place of a value.        *)
ReadFails(e, k) == Store(e, k, exec[e].temp[Job[k].name]) /\ UNCHANGED since
ReadNil(e, k) ==
  /\ Store(e, k, Nil)
  /\ since' = [since EXCEPT ![e][Object(k)] = @ \union {Nil}]

ReadPoint(e, k) ==
  /\ exec[e].pc = "reading" /\ k \in exec[e].todo
  /\ \/ Encodable(k) /\ Store(e, k, points[Object(k)]) /\ UNCHANGED <<faults, since>>
     \/ ~Encodable(k) /\ ReadFails(e, k) /\ UNCHANGED faults
     \/ /\ Encodable(k) /\ faults < MaxFaults /\ faults' = faults + 1
        /\ ReadFails(e, k) \/ ReadNil(e, k)
  /\ UNCHANGED <<points, late, delta, cloud, changes, acked>>

(* temp is local: the next execution begins without it. *)
EndKeepsTemp(e) == exec' = [exec EXCEPT ![e].pc = "idle"]
EndStopsTicker(e) ==
  exec' = [exec EXCEPT ![e] = [Idle EXCEPT !.pc = IF e \in Workers THEN "stopped" ELSE @]]
EndExecute(e) == exec' = [exec EXCEPT ![e] = Idle]

(* The report has the attributes that could be computed; there may be none *)
(* (the template cannot be had, or the report cannot be sent).             *)
Shows(r) == cloud' = [a \in Attributes |-> IF r[a] = NoReport THEN cloud[a] ELSE r[a]]

Report(e) ==
  /\ exec[e].pc = "reading" /\ exec[e].todo = {}
  /\ EndExecute(e)
  /\ since' = [since EXCEPT ![e] = NothingSince]
  /\ \/ /\ \E ms \in ExecExpression(exec[e].temp) : Shows(Reports(ms, exec[e].temp))
        /\ UNCHANGED faults
     \/ /\ faults < MaxFaults /\ faults' = faults + 1
        /\ UNCHANGED cloud
  /\ UNCHANGED <<points, late, delta, changes, acked>>

Execute(e) == Report(e) \/ \E k \in Points : ReadPoint(e, k)

-----------------------------------------------------------------------------
(* DeltaCallback.  Both loops are over maps, in no order. *)

SetPoint(o, n) ==
  /\ points' = [points EXCEPT ![o] = n]
  /\ since' = [e \in Executors |->
                 IF exec[e].pc = "idle" THEN since[e]
                 ELSE [since[e] EXCEPT ![o] = @ \union {n}]]

ReturnNil(c, result) == delta' = [delta EXCEPT ![c].pc = "nil"]
Return(c, result) == delta' = [delta EXCEPT ![c].pc = result]

BeginDelta(c) ==
  /\ delta[c].pc = "not called"
  /\ \/ /\ \E d \in Deltas[c] :
             delta' = [delta EXCEPT ![c] = [pc |-> "keys", vals |-> d, keys |-> DOMAIN d,
                                            key |-> "none", todo |-> {}]]
        /\ UNCHANGED faults
     \/ faults < MaxFaults /\ faults' = faults + 1 /\ Return(c, "error")
  /\ UNCHANGED <<points, late, exec, cloud, changes, since, acked>>

(* A key without a property, or without a value for it, is passed over. *)
TakeKey(c, key) ==
  LET known == Known(key, delta[c].vals[key]) IN
  /\ delta[c].pc = "keys" /\ key \in delta[c].keys
  /\ delta' = [delta EXCEPT ![c] =
       [pc   |-> IF known THEN "points" ELSE "keys", vals |-> @.vals,
        keys |-> @.keys \ {key},                    key  |-> key,
        todo |-> IF known THEN PointsNamed(PropertyOf(key)) ELSE {}]]
  /\ UNCHANGED <<points, late, exec, cloud, faults, changes, since, acked>>

(* A value that cannot be converted, a point that cannot be encoded or a   *)
(* failing call ends the whole callback.                                   *)
Asked(c) == PropValue(delta[c].key, delta[c].vals[delta[c].key])

Acknowledged(c, k, n) ==
  /\ SetPoint(Object(k), n)
  /\ acked' = [acked EXCEPT ![c] = @ \union {<<delta[c].key, k, n>>}]
  /\ delta' = [delta EXCEPT ![c].todo = @ \ {k}]
  /\ UNCHANGED <<late, faults>>
Failed(c, k, n) ==
  /\ faults < MaxFaults /\ faults' = faults + 1
  /\ late' \in {late, late \union {<<Object(k), n>>}}
  /\ Return(c, "error")
  /\ UNCHANGED <<points, since, acked>>
Refused(c) == Return(c, "error") /\ UNCHANGED <<points, since, acked, late, faults>>

WritePoint(c, k) ==
  /\ delta[c].pc = "points" /\ k \in delta[c].todo
  /\ IF Converts(Job[k].tag, Asked(c)) /\ Encodable(k)
     THEN \E n \in Converted(Job[k].tag, Asked(c)) :
            Acknowledged(c, k, n) \/ Failed(c, k, n)
     ELSE Refused(c)
  /\ UNCHANGED <<exec, cloud, changes>>

NextKey(c) ==
  /\ delta[c].pc = "points" /\ delta[c].todo = {}
  /\ delta' = [delta EXCEPT ![c].pc = "keys"]
  /\ UNCHANGED <<points, late, exec, cloud, faults, changes, since, acked>>

EndDelta(c) ==
  /\ delta[c].pc = "keys" /\ delta[c].keys = {}
  /\ Return(c, "nil")
  /\ UNCHANGED <<points, late, exec, cloud, faults, changes, since, acked>>

DeltaCallback(c) ==
  \/ NextKey(c) \/ EndDelta(c)
  \/ \E key \in delta[c].keys : TakeKey(c, key)
  \/ \E k \in Points : WritePoint(c, k)

-----------------------------------------------------------------------------
(* The device *)

LateWrite(x) ==
  /\ late' = late \ {x}
  /\ SetPoint(x[1], x[2])
  /\ UNCHANGED <<exec, delta, cloud, faults, changes, acked>>

Change(o, n) ==
  /\ changes < MaxChanges /\ changes' = changes + 1
  /\ n # points[o]
  /\ SetPoint(o, n)
  /\ UNCHANGED <<late, exec, delta, cloud, faults, acked>>

-----------------------------------------------------------------------------

Init ==
  /\ points = [o \in Objects |-> 0]
  /\ late = {}
  /\ exec = [e \in Executors |-> Idle]
  /\ delta = [c \in Callbacks |-> [pc |-> "not called", vals |-> <<>>, keys |-> {},
                                   key |-> "none", todo |-> {}]]
  /\ cloud = [a \in Attributes |-> NoReport]
  /\ faults = 0 /\ changes = 0
  /\ since = [e \in Executors |-> NothingSince]
  /\ acked = [c \in Callbacks |-> {}]

Next ==
  \/ \E e \in Executors : Begin(e) \/ Execute(e)
  \/ \E c \in Callbacks : BeginDelta(c) \/ DeltaCallback(c)
  \/ \E x \in late : LateWrite(x)
  \/ \E o \in Objects, n \in Numbers : Change(o, n)

Spec == Init /\ [][Next]_vars

(* The ticker of a worker fires for ever, and what has begun goes on.      *)
FairSpec ==
  /\ Spec
  /\ \A e \in Workers : WF_vars(Begin(e))
  /\ \A e \in Executors : WF_vars(Execute(e))
  /\ \A c \in Callbacks : WF_vars(DeltaCallback(c))

-----------------------------------------------------------------------------
(* Properties *)

(* What a callback is called with. *)
Values == (UNION {Deltas[c] : c \in Callbacks}) \union {<<>>}
Keys == UNION {DOMAIN d : d \in Values}

(* Every variable has its type. *)
DriverTypeOK ==
  /\ points \in [Objects -> Int]
  /\ late \subseteq Objects \X Int
  /\ exec \in [Executors -> [pc : {"idle", "reading"}, todo : SUBSET Points,
                            temp : [Names -> Int \union {Nil, NoValue}]]]
  /\ delta \in [Callbacks -> [pc : {"not called", "keys", "points", "error", "nil"},
                             vals : Values, keys : SUBSET Keys, key : Keys \union {"none"},
                             todo : SUBSET Points]]
  /\ \A c \in Callbacks : delta[c].keys \subseteq DOMAIN delta[c].vals
  /\ DOMAIN cloud = Attributes
  /\ \A a \in Attributes : cloud[a] = NoReport \/
       /\ cloud[a].by \in DOMAIN Mappings
       /\ cloud[a].args \in [DOMAIN ParamNames[cloud[a].by] -> Int \union {Nil}]
  /\ since \in [Executors -> [Objects -> SUBSET (Int \union {Nil})]]
  /\ acked \in [Callbacks -> SUBSET (Keys \X Points \X Int)]
  /\ faults \in 0..MaxFaults /\ changes \in 0..MaxChanges

(* What is read for the i-th parameter of the mapping m. *)
Sources(m, i) == {Object(k) : k \in PointsNamed(ParamNames[m][i])}

(* An attribute is reported with values that its objects had since the     *)
(* execution began that reports them, whatever other executions and writes *)
(* run beside it; or with nil, but only for an object of which this same   *)
(* execution got an answer that it could not decode (worker.go:33, 44, 66).*)
ReportsAreFresh ==
  [][\A e \in Executors : \A a \in Attributes :
       Report(e) /\ cloud'[a] # cloud[a] =>
         \A i \in DOMAIN cloud'[a].args :
           \E o \in Sources(cloud'[a].by, i) : cloud'[a].args[i] \in since[e][o]]_vars

(* The writes a delta asks for: each key that has a property and a value,  *)
(* at all points that have the name of the property.                       *)
KnownKeys(c) == {key \in DOMAIN delta[c].vals : Known(key, delta[c].vals[key])}
AskedFor(c) == UNION {{key} \X PointsNamed(PropertyOf(key)) : key \in KnownKeys(c)}

(* DeltaCallback writes only what the delta asks for; and if it returns    *)
(* nil the device has acknowledged all of it, but for the keys it passed   *)
(* over (bacnet.go:154 and 160).                                           *)
NilMeansWritten ==
  \A c \in Callbacks :
    LET written == {<<w[1], w[2]>> : w \in acked[c]} IN
    /\ written \subseteq AskedFor(c)
    /\ delta[c].pc = "nil" => written = AskedFor(c)

(* Can a point of this type have the number?                               *)
Representable(tag, n) ==
  CASE tag = Boolean    -> TRUE
    [] tag = Real       -> Fitting(n) # {} /\ n % Ulp(n) = 0
    [] tag = Enumerated -> n \in Uint32s

(* A value that a point's type can have reaches the point as it is, with   *)
(* whatever kind of number it comes and whether or not it was solved for   *)
(* (dmp_adapter.go:54, 94 and 119).                                        *)
WrittenAsAsked ==
  \A c \in Callbacks : \A w \in acked[c] :
    LET n == PropValue(w[1], delta[c].vals[w[1]]).num IN
    Representable(Job[w[2]].tag, n) => w[3] = n

(* Once the device has come to rest and calls no longer fail, the cloud    *)
(* shows it for good: an execution that read early and reports late is     *)
(* made up for by the next tick (worker.go:82, bacnet.go:75).  This is of  *)
(* attributes whose names each belong to one point that can be read.       *)
Legible(m) ==
  \A i \in DOMAIN ParamNames[m] :
    LET ks == PointsNamed(ParamNames[m][i])
    IN Cardinality(ks) = 1 /\ \A k \in ks : Encodable(k)
Shown(a) ==
  /\ cloud[a] # NoReport
  /\ \A i \in DOMAIN cloud[a].args :
       \A o \in Sources(cloud[a].by, i) : cloud[a].args[i] = points[o]

CloudConverges ==
  <>[](\A m \in DOMAIN Mappings :
         Legible(m) /\ MappingOf(Mappings[m].attribute) = m
           => Shown(Mappings[m].attribute))
=============================================================================
