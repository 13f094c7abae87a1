----------------------------- MODULE FleetProofs -----------------------------
(***************************************************************************)
(* Proofs about module Fleet: the driver's goroutines use the client as    *)
(* module Client allows, so that what ClientProofs says of it holds for    *)
(* them; and, as each is in one call at a time, an invoke ID is long in    *)
(* coming back.                                                            *)
(***************************************************************************)
EXTENDS Fleet, ClientProofs

----------------------------------------------------------------------------
(***************************************************************************)
(* Every step of the driver is a step of the client, or none of it.        *)
(***************************************************************************)
LEMMA OwnCalls == \A e \in Callers : Own(e) \subseteq Calls
<1> SUFFICES ASSUME NEW e \in Callers PROVE Own(e) \subseteq Calls
  OBVIOUS
<1>1. CASE e \in Workers
  <2>1. \A i \in DOMAIN Executions[e] : Executions[e][i] \subseteq Reads
    BY <1>1, CallersAssumption
  <2> QED
    BY <1>1, <2>1 DEF Own, Calls
<1>2. CASE e \notin Workers
  <2>1. e \in Callbacks
    BY <1>2 DEF Callers
  <2>2. Asked[e] \subseteq Reads \cup Writes
    BY <2>1, CallersAssumption
  <2> QED
    BY <1>2, <2>2 DEF Own, Calls
<1> QED
  BY <1>1, <1>2

LEMMA FleetStepOfClient == [FleetNext]_allVars => [Next]_vars
<1> SUFFICES ASSUME [FleetNext]_allVars PROVE [Next]_vars
  OBVIOUS
<1>1. ASSUME NEW w \in Workers, Tick(w) \/ StopWorker(w) PROVE UNCHANGED vars
  BY <1>1 DEF Tick, StopWorker
<1>2. CASE Stop
  BY <1>2 DEF Stop
<1>3. ASSUME NEW b \in Callbacks, CallBack(b) PROVE UNCHANGED vars
  BY <1>3 DEF CallBack
<1>4. ASSUME NEW e \in Callers, NEW c \in Own(e), NextCall(e, c) \/ InCall(c) PROVE Next
  BY <1>4, OwnCalls DEF NextCall, InCall, Next
<1>5. ASSUME NEW e \in Callers, Ends(e) PROVE UNCHANGED vars
  BY <1>5 DEF Ends
<1>6. CASE Environment
  BY <1>6 DEF Environment, Next
<1>7. CASE UNCHANGED allVars
  BY <1>7 DEF allVars
<1> QED
  BY <1>1, <1>2, <1>3, <1>4, <1>5, <1>6, <1>7 DEF FleetNext, Execute

\* The workers and callbacks keep to module Client: each theorem about the
\* client is one about the driver that serves.
THEOREM FleetImplementsClient == FleetSpec => Spec
<1>1. FleetInit => Init
  BY DEF FleetInit
<1> QED
  BY <1>1, FleetStepOfClient, PTL DEF FleetSpec, Spec

\* CurrentsExact for any callers, executions and number of IDs: the table has
\* the transactions of the calls that the driver is in.
THEOREM FleetCurrentsExact == FleetSpec => []CurrentsExact
BY FleetImplementsClient, CurrentsAreExact, PTL

\* ImplementsRequestReply for any callers, executions and number of IDs.
THEOREM FleetImplementsRequestReply == FleetSpec => ImplementsRequestReply
BY FleetImplementsClient, ClientImplementsRequestReply, PTL

----------------------------------------------------------------------------
(***************************************************************************)
(* A caller is in one call at a time, so that no more IDs are taken than   *)
(* there are callers.                                                      *)
(***************************************************************************)
Active(c) == cpc[c] \notin {"idle", "done"}

TicksAndTodo ==
    /\ tick \in [Workers -> Nat]
    /\ todo \in [Callers -> SUBSET Calls]
    /\ \A e \in Callers : todo[e] \subseteq Own(e)

ActiveIsOwned == \A c \in Calls : Active(c) => \E e \in Callers : c \in Own(e)

OneAtATime ==
    \A e \in Callers : \A c, d \in Own(e) : Active(c) /\ Active(d) => c = d

CallerInv == TicksAndTodo /\ ActiveIsOwned /\ OneAtATime

\* A step of a call moves that call only, and never one that is done.
LEMMA CallMoves ==
    ASSUME TypeInv, NEW c \in Calls, CallSteps(c)
    PROVE  /\ cpc[c] # "done"
           /\ \A d \in Calls \ {c} : cpc'[d] = cpc[d]
           /\ cpc[c] = "idle" => cid' = cid
BY DEF CallSteps, CallAt, Invoke, TakeID, Register, Send, SendFails, WaitEnds, Deferred,
       Cancel, TypeInv, TypeOK

\* No step of the receiver begins or ends a call.
LEMMA EnvironmentKeeps ==
    ASSUME TypeInv, Environment
    PROVE  cid' = cid /\ \A c \in Calls : Active(c)' <=> Active(c)
<1> USE DEF Active
<1>1. ASSUME NEW c \in Calls, Timeout(c) PROVE cid' = cid /\ cpc' = cpc
  BY <1>1 DEF Timeout
<1>2. ASSUME NEW h \in Handlers, HandleMessage(h), ~Deliver(h) PROVE cid' = cid /\ cpc' = cpc
  BY <1>2 DEF HandleMessage, Drop, TakeRLock, CheckF, CallF, ReleaseRLock, Lookup, GiveUp,
              NotTheHandlers, callVars
<1>3. ASSUME NEW h \in Handlers, Deliver(h)
      PROVE  cid' = cid /\ \A c \in Calls : Active(c)' <=> Active(c)
  BY <1>3 DEF Deliver, CallAt, HandlerEnds, HandlerAt, TypeInv, TypeOK, DeliverHasTx
<1>4. ASSUME NEW h \in Handlers, NEW m \in Datagrams, Listen(h, m)
      PROVE  cid' = cid /\ cpc' = cpc
  BY <1>4 DEF Listen, NotTheHandlers, callVars
<1> QED
  BY <1>1, <1>2, <1>3, <1>4 DEF Environment

LEMMA CallerInit == FleetInit => CallerInv
<1> SUFFICES ASSUME FleetInit PROVE CallerInv
  OBVIOUS
<1>1. \A c \in Calls : ~Active(c)
  BY DEF FleetInit, Init, NewClient, Active
<1>2. TicksAndTodo
  BY DEF FleetInit, TicksAndTodo
<1> QED
  BY <1>1, <1>2, OwnCalls DEF CallerInv, ActiveIsOwned, OneAtATime

\* A caller starts a call only when it is in none.
LEMMA CallerNext == TypeInv /\ CallerInv /\ [FleetNext]_allVars => CallerInv'
<1> SUFFICES ASSUME TypeInv, CallerInv, [FleetNext]_allVars PROVE CallerInv'
  OBVIOUS
<1> USE DEF CallerInv
\* Steps that leave the calls alone.
<1>1. ASSUME TicksAndTodo', \A c \in Calls : Active(c)' <=> Active(c)
      PROVE  CallerInv'
  BY <1>1, OwnCalls DEF ActiveIsOwned, OneAtATime
<1>2. ASSUME NEW w \in Workers, Tick(w) PROVE CallerInv'
  <2>1. w \in Callers /\ tick[w] \in Nat /\ tick[w] < Len(Executions[w])
    BY <1>2 DEF Tick, TicksAndTodo, Callers
  <2>2. tick[w] + 1 \in DOMAIN Executions[w]
    BY <2>1, CallersAssumption
  <2>3. Executions[w][tick[w] + 1] \subseteq Own(w)
    BY <2>2 DEF Own
  <2>4. TicksAndTodo'
    BY <1>2, <2>1, <2>3, OwnCalls DEF Tick, TicksAndTodo
  <2>5. cpc' = cpc
    BY <1>2 DEF Tick, vars, callVars
  <2> QED
    BY <1>1, <2>4, <2>5 DEF Active
<1>3. ASSUME NEW w \in Workers, StopWorker(w) PROVE CallerInv'
  <2>1. UNCHANGED << tick, todo, cpc >>
    BY <1>3 DEF StopWorker, vars, callVars
  <2> QED
    BY <1>1, <2>1 DEF TicksAndTodo, Active
<1>4. CASE Stop
  <2>1. UNCHANGED << tick, todo, cpc >>
    BY <1>4 DEF Stop, vars, callVars
  <2> QED
    BY <1>1, <2>1 DEF TicksAndTodo, Active
<1>5. ASSUME NEW b \in Callbacks, CallBack(b) PROVE CallerInv'
  <2>1. b \in Callers /\ Asked[b] = Own(b)
    BY CallersAssumption DEF Callers, Own
  <2>2. TicksAndTodo'
    BY <1>5, <2>1, OwnCalls DEF CallBack, TicksAndTodo
  <2>3. cpc' = cpc
    BY <1>5 DEF CallBack, vars, callVars
  <2> QED
    BY <1>1, <2>2, <2>3 DEF Active
<1>6. ASSUME NEW e \in Callers, NEW c \in Own(e), NextCall(e, c) PROVE CallerInv'
  <2>1. c \in Calls /\ CallSteps(c) /\ \A d \in Own(e) : ~Active(d)
    BY <1>6, OwnCalls DEF NextCall, ReadProperty, WriteProperty, Busy, Active
  <2>2. \A d \in Calls \ {c} : Active(d)' <=> Active(d)
    BY <2>1, CallMoves DEF Active
  <2>3. TicksAndTodo'
    BY <1>6 DEF NextCall, TicksAndTodo
  <2>4. ActiveIsOwned'
    BY <2>1, <2>2 DEF ActiveIsOwned
  <2>5. OneAtATime'
    <3> SUFFICES ASSUME NEW o \in Callers, NEW d1 \in Own(o), NEW d2 \in Own(o),
                        Active(d1)', Active(d2)'
                 PROVE  d1 = d2
      BY DEF OneAtATime
    <3>1. CASE o = e
      BY <2>1, <2>2, <3>1, OwnCalls
    <3>2. CASE o # e
      <4>1. c \notin Own(o)
        BY <3>2, CallersAssumption
      <4> QED
        BY <2>2, <4>1, OwnCalls DEF OneAtATime
    <3> QED
      BY <3>1, <3>2
  <2> QED
    BY <2>3, <2>4, <2>5
<1>7. ASSUME NEW e \in Callers, NEW c \in Own(e), InCall(c) PROVE CallerInv'
  <2>1. c \in Calls /\ CallSteps(c) /\ cpc[c] # "idle"
    BY <1>7, OwnCalls DEF InCall, ReadProperty, WriteProperty
  <2>2. Active(c) /\ \A d \in Calls \ {c} : Active(d)' <=> Active(d)
    BY <2>1, CallMoves DEF Active
  <2>3. TicksAndTodo'
    BY <1>7 DEF InCall, TicksAndTodo
  <2> QED
    BY <2>2, <2>3, OwnCalls DEF ActiveIsOwned, OneAtATime
<1>8. ASSUME NEW e \in Callers, Ends(e) PROVE CallerInv'
  <2>1. UNCHANGED << tick, todo, cpc >>
    BY <1>8 DEF Ends, vars, callVars
  <2> QED
    BY <1>1, <2>1 DEF TicksAndTodo, Active
<1>9. CASE Environment
  <2>1. TicksAndTodo'
    BY <1>9 DEF Environment, fleetVars, TicksAndTodo
  <2> QED
    BY <1>1, <1>9, <2>1, EnvironmentKeeps
<1>10. CASE UNCHANGED allVars
  <2>1. UNCHANGED << tick, todo, cpc >>
    BY <1>10 DEF allVars, fleetVars, vars, callVars
  <2> QED
    BY <1>1, <2>1 DEF TicksAndTodo, Active
<1> QED
  BY <1>2, <1>3, <1>4, <1>5, <1>6, <1>7, <1>8, <1>9, <1>10 DEF FleetNext, Execute

LEMMA HoldersBounded ==
    ASSUME CallerInv
    PROVE  Cardinality(Holders) <= Cardinality(Callers) /\ Cardinality(Callers) \in Nat
<1> DEFINE owner == [c \in Holders |-> CHOOSE e \in Callers : c \in Own(e)]
<1>1. \A c \in Holders : owner[c] \in Callers /\ c \in Own(owner[c]) /\ Active(c)
  BY DEF CallerInv, ActiveIsOwned, Active, Holders, Holds
<1>2. \A c, d \in Holders : owner[c] = owner[d] => c = d
  BY <1>1 DEF CallerInv, OneAtATime
<1>3. owner \in Injection(Holders, Callers)
  BY <1>1, <1>2 DEF Injection, IsInjective
<1> QED
  BY <1>3, FS_Injection, FS_CardinalityType, CallersAssumption

----------------------------------------------------------------------------
(***************************************************************************)
(* An ID goes to the back of the pool, and all IDs that no caller holds    *)
(* are in front of it.                                                     *)
(***************************************************************************)
GivenInv ==
    /\ given \in Seq(Calls)
    /\ \A i \in 1 .. Len(given) : cid[given[i]] # NoID

\* However far an ID of the pool is from its front, and however long ago a call
\* had it, the two add up.
FarInPool ==
    \A k \in 1 .. Len(freeInvokeID), i \in 1 .. Len(given) :
        cid[given[i]] = freeInvokeID[k]
            => Len(given) + k - i > NumIDs - Cardinality(Callers)

ReuseInv == GivenInv /\ FarInPool /\ ReuseIsFarOff

\* given grows exactly when a call gets its ID.
LEMMA GivenGrows ==
    ASSUME TypeInv, CallerInv, [FleetNext]_allVars
    PROVE  \/ \E c \in Calls : cid'[c] # cid[c] /\ CallSteps(c) /\ given' = Append(given, c)
           \/ cid' = cid /\ given' = given
<1>1. ASSUME NEW w \in Workers, Tick(w) \/ StopWorker(w) PROVE cid' = cid /\ given' = given
  BY <1>1 DEF Tick, StopWorker, vars, callVars
<1>2. CASE Stop
  BY <1>2 DEF Stop, vars, callVars
<1>3. ASSUME NEW b \in Callbacks, CallBack(b) PROVE cid' = cid /\ given' = given
  BY <1>3 DEF CallBack, vars, callVars
<1>4. ASSUME NEW e \in Callers, NEW c \in Own(e), NextCall(e, c)
      PROVE  cid' = cid /\ given' = given
  <2>1. c \in Calls /\ CallSteps(c) /\ cpc[c] \in {"idle", "done"}
    BY <1>4, OwnCalls DEF NextCall, ReadProperty, WriteProperty, Busy
  <2> QED
    BY <1>4, <2>1, CallMoves DEF NextCall
<1>5. ASSUME NEW e \in Callers, NEW c \in Own(e), InCall(c)
      PROVE  \/ cid'[c] # cid[c] /\ CallSteps(c) /\ given' = Append(given, c)
             \/ cid' = cid /\ given' = given
  <2>1. c \in Calls /\ CallSteps(c)
    BY <1>5, OwnCalls DEF InCall, ReadProperty, WriteProperty
  <2>2. cid'[c] # cid[c] \/ cid' = cid
    BY <2>1, ConstantFacts DEF CallSteps, CallAt, Invoke, TakeID, GetID, Register, Send, SendFails,
       WaitEnds, Deferred, Cancel, TypeInv, TypeOK, GivenByPC
  <2> QED
    BY <1>5, <2>1, <2>2 DEF InCall
<1>6. ASSUME NEW e \in Callers, Ends(e) PROVE cid' = cid /\ given' = given
  BY <1>6 DEF Ends, vars, callVars
<1>7. CASE Environment
  BY <1>7, EnvironmentKeeps DEF Environment, fleetVars
<1>8. CASE UNCHANGED allVars
  BY <1>8 DEF allVars, fleetVars, vars, callVars
<1> QED
  BY <1>1, <1>2, <1>3, <1>4, <1>5, <1>6, <1>7, <1>8, OwnCalls DEF FleetNext, Execute

LEMMA ReuseInit == FleetInit => ReuseInv
BY DEF FleetInit, ReuseInv, GivenInv, FarInPool, ReuseIsFarOff

LEMMA ReuseNext ==
    TypeInv /\ IDInv /\ CallerInv /\ ReuseInv /\ [FleetNext]_allVars => ReuseInv'
<1> SUFFICES ASSUME TypeInv, IDInv, CallerInv, ReuseInv, [FleetNext]_allVars
             PROVE  ReuseInv'
  OBVIOUS
<1> DEFINE n    == Len(given)
           free == Len(freeInvokeID)
           far  == NumIDs - Cardinality(Callers)
<1>0. /\ n \in Nat /\ free \in Nat /\ far \in Int
      /\ \A i \in 1 .. n : given[i] \in Calls
  BY HoldersBounded, ConstantFacts DEF ReuseInv, GivenInv, TypeInv, TypeOK
<1>1. ASSUME NEW c \in Calls, TakeID(c) PROVE ReuseInv'
  <2>1. /\ freeInvokeID # << >>
        /\ freeInvokeID' = Tail(freeInvokeID)
        /\ cid' = [cid EXCEPT ![c] = Head(freeInvokeID)]
        /\ cid[c] = NoID
        /\ Head(freeInvokeID) # NoID
    BY <1>1, ConstantFacts DEF TakeID, GetID, CallAt, TypeInv, TypeOK, GivenByPC
  <2>2. /\ free >= 1 /\ Len(freeInvokeID') = free - 1
        /\ \A k \in 1 .. free - 1 : freeInvokeID'[k] = freeInvokeID[k + 1]
        /\ Head(freeInvokeID) = freeInvokeID[1]
    BY <2>1 DEF TypeInv, TypeOK
  <2>3. given' = Append(given, c)
    <3>1. cid'[c] # cid[c] /\ \A d \in Calls \ {c} : cid'[d] = cid[d]
      BY <2>1 DEF TypeInv, TypeOK
    <3> QED
      BY <3>1, GivenGrows
  <2>4. /\ given' \in Seq(Calls)
        /\ Len(given') = n + 1
        /\ given'[n + 1] = c
        /\ \A i \in 1 .. n : given'[i] = given[i]
    BY <2>3 DEF ReuseInv, GivenInv
  <2>5. cid'[given'[n + 1]] = freeInvokeID[1] /\ freeInvokeID[1] # NoID
    BY <2>1, <2>2, <2>4 DEF TypeInv, TypeOK
  <2>6. ASSUME NEW i \in 1 .. n
        PROVE  cid'[given'[i]] = cid[given[i]] /\ cid[given[i]] # NoID
    BY <1>0, <2>1, <2>4 DEF ReuseInv, GivenInv, TypeInv, TypeOK
  <2>7. GivenInv'
    BY <1>0, <2>4, <2>5, <2>6 DEF GivenInv
  <2>8. FarInPool'
    <3> SUFFICES ASSUME NEW k \in 1 .. free - 1, NEW i \in 1 .. n + 1,
                        cid'[given'[i]] = freeInvokeID[k + 1]
                 PROVE  n + 1 + k - i > far
      BY <1>0, <2>2, <2>4 DEF FarInPool
    <3>1. k + 1 \in 1 .. free /\ 1 \in 1 .. free /\ k + 1 # 1
      BY <1>0, <2>2
    <3>2. freeInvokeID[k + 1] # freeInvokeID[1]
      BY <3>1 DEF IDInv, IDsConserved
    <3>3. i \in 1 .. n
      BY <1>0, <2>5, <3>2
    <3>4. n + (k + 1) - i > far
      BY <2>6, <3>1, <3>3 DEF ReuseInv, FarInPool
    <3> QED
      BY <1>0, <3>3, <3>4
  <2>9. ReuseIsFarOff'
    <3> SUFFICES ASSUME NEW i \in 1 .. n + 1, NEW j \in 1 .. n + 1, i < j,
                        cid'[given'[i]] = cid'[given'[j]]
                 PROVE  j - i > far
      BY <1>0, <2>4 DEF ReuseIsFarOff
    <3>1. i \in 1 .. n
      BY <1>0
    <3>2. CASE j \in 1 .. n
      BY <2>6, <3>1, <3>2 DEF ReuseInv, ReuseIsFarOff
    <3>3. CASE j = n + 1
      <4>1. cid[given[i]] = freeInvokeID[1] /\ 1 \in 1 .. free
        BY <1>0, <2>2, <2>5, <2>6, <3>1, <3>3
      <4>2. n + 1 - i > far
        BY <3>1, <4>1 DEF ReuseInv, FarInPool
      <4> QED
        BY <3>3, <4>2
    <3> QED
      BY <1>0, <3>2, <3>3
  <2> QED
    BY <2>7, <2>8, <2>9 DEF ReuseInv
<1>2. ASSUME NEW c \in Calls, GiveBack(c) PROVE ReuseInv'
  <2>1. /\ freeInvokeID' = Append(freeInvokeID, cid[c])
        /\ cid' = cid
        /\ given' = given
    BY <1>2, GivenGrows DEF GiveBack, FreeID
  <2>2. cid[c] \in InvokeIDs
    BY <1>2 DEF GiveBack, CallAt, IDInv, IDsConserved, Holds
  <2>3. /\ Len(freeInvokeID') = free + 1
        /\ \A k \in 1 .. free : freeInvokeID'[k] = freeInvokeID[k]
    BY <2>1, <2>2 DEF TypeInv, TypeOK
  <2>4. free >= far
    BY <1>0, HoldersBounded, HoldersFinite, FS_CardinalityType, ConstantFacts DEF IDInv, PoolCount
  <2>5. FarInPool'
    <3> SUFFICES ASSUME NEW k \in 1 .. free + 1, NEW i \in 1 .. n,
                        cid[given[i]] = freeInvokeID'[k]
                 PROVE  n + k - i > far
      BY <2>1, <2>3 DEF FarInPool
    <3>1. CASE k \in 1 .. free
      BY <2>3, <3>1 DEF ReuseInv, FarInPool
    <3>2. CASE k = free + 1
      BY <1>0, <2>4, <3>2
    <3> QED
      BY <1>0, <3>1, <3>2
  <2> QED
    BY <2>1, <2>5 DEF ReuseInv, GivenInv, ReuseIsFarOff
<1>3. CASE IDsUntouched
  <2>1. UNCHANGED << cid, freeInvokeID, given >>
    BY <1>3, GivenGrows DEF IDsUntouched
  <2> QED
    BY <2>1 DEF ReuseInv, GivenInv, FarInPool, ReuseIsFarOff
<1> QED
  BY <1>1, <1>2, <1>3, StepKinds, FleetStepOfClient

\* ReuseIsFarOff for any callers, executions, network and number of IDs: with 256
\* of them and n workers and callbacks, at least 256 - n other calls get an ID between
\* two that get the same.
THEOREM ReuseFarOff == FleetSpec => []ReuseIsFarOff
<1>1. FleetInit => Init
  BY DEF FleetInit
<1>2. ReuseInv => ReuseIsFarOff
  BY DEF ReuseInv
<1> QED
  BY <1>1, <1>2, TypeInit, TypeNext, IDInit, IDNext, CallerInit, CallerNext, ReuseInit, ReuseNext,
     FleetStepOfClient, PTL DEF FleetSpec

\* What a call is handed is the answer to its own request, or to one that many
\* calls lie between: "ensure response validity" (client.go:331) fails no sooner.
AnswerIsOwnOrFarOff ==
    \A i, j \in 1 .. Len(given) :
        res[given[j]].of = given[i] /\ given[i] # given[j]
            => \/ j - i > NumIDs - Cardinality(Callers)
               \/ i - j > NumIDs - Cardinality(Callers)

\* The theorem about a late or repeated reply, for any callers and any network.
THEOREM AnswersOwnOrFarOff == FleetSpec => []AnswerIsOwnOrFarOff
<1>1. FleetInit => Init
  BY DEF FleetInit
<1>2. AnswerInv /\ ReuseInv => AnswerIsOwnOrFarOff
  <2> SUFFICES ASSUME AnswerInv, ReuseInv,
                      NEW i \in 1 .. Len(given), NEW j \in 1 .. Len(given),
                      res[given[j]].of = given[i], given[i] # given[j]
               PROVE  \/ j - i > NumIDs - Cardinality(Callers)
                      \/ i - j > NumIDs - Cardinality(Callers)
    BY DEF AnswerIsOwnOrFarOff
  <2>1. given[i] \in Calls /\ given[j] \in Calls
    BY DEF ReuseInv, GivenInv
  <2>2. cid[given[i]] = cid[given[j]]
    BY <2>1, ConstantFacts DEF AnswerInv, AnswerUnderID
  <2>3. i < j \/ j < i
    BY <2>1
  <2> QED
    BY <2>2, <2>3 DEF ReuseInv, ReuseIsFarOff
<1> QED
  BY <1>1, <1>2, TypeInit, TypeNext, IDInit, IDNext, CurrentsInit, CurrentsNext, AnswerInit,
     AnswerNext, CallerInit, CallerNext, ReuseInit, ReuseNext, FleetStepOfClient,
     PTL DEF FleetSpec

----------------------------------------------------------------------------
(***************************************************************************)
(* Where the callers are.                                                  *)
(***************************************************************************)
CallerPCs(e) ==
    IF e \in Workers THEN {"waiting", "running", "stopped"}
                     ELSE {"waiting", "running", "error", "nil"}

AtInv ==
    /\ at \in [Callers -> {"waiting", "running", "stopped", "error", "nil"}]
    /\ \A e \in Callers : at[e] \in CallerPCs(e)
    /\ \A w \in Workers : tick[w] <= Len(Executions[w])

LEMMA AtInit == FleetInit => AtInv
<1> SUFFICES ASSUME FleetInit PROVE AtInv
  OBVIOUS
<1>1. at = [e \in Callers |-> "waiting"] /\ tick = [w \in Workers |-> 0]
  BY DEF FleetInit
<1>2. \A w \in Workers : Len(Executions[w]) \in Nat
  BY CallersAssumption
<1> QED
  BY <1>1, <1>2 DEF AtInv, CallerPCs

\* A worker stops, a callback returns, and no worker executes more often than
\* it is told to.
LEMMA AtNext == TicksAndTodo /\ AtInv /\ [FleetNext]_allVars => AtInv'
<1> SUFFICES ASSUME TicksAndTodo, AtInv, [FleetNext]_allVars PROVE AtInv'
  OBVIOUS
<1> USE DEF AtInv, CallerPCs
<1>0. \A w \in Workers : w \in Callers /\ w \notin Callbacks /\ Len(Executions[w]) \in Nat
  BY CallersAssumption DEF Callers
<1>1. ASSUME NEW w \in Workers, Tick(w) PROVE AtInv'
  BY <1>0, <1>1 DEF Tick, CallerAt, TicksAndTodo
<1>2. ASSUME NEW w \in Workers, StopWorker(w) PROVE AtInv'
  BY <1>0, <1>2 DEF StopWorker, CallerAt
<1>3. CASE Stop
  BY <1>3 DEF Stop
<1>4. ASSUME NEW b \in Callbacks, CallBack(b) PROVE AtInv'
  BY <1>0, <1>4 DEF CallBack, CallerAt, Callers
<1>5. ASSUME NEW e \in Callers, NEW c \in Own(e), NextCall(e, c) \/ InCall(c) PROVE AtInv'
  BY <1>5 DEF NextCall, InCall
<1>6. ASSUME NEW e \in Callers, Ends(e) PROVE AtInv'
  BY <1>0, <1>6 DEF Ends, Reports, Returns, CallerAt
<1>7. CASE Environment
  BY <1>7 DEF Environment, fleetVars
<1>8. CASE UNCHANGED allVars
  BY <1>8 DEF allVars, fleetVars
<1> QED
  BY <1>1, <1>2, <1>3, <1>4, <1>5, <1>6, <1>7, <1>8 DEF FleetNext, Execute

\* FleetTypeOK for any callers, executions and number of IDs: above all, no
\* caller is ever in two calls, however its calls and its ticks fall.
THEOREM FleetTypes == FleetSpec => []FleetTypeOK
<1>1. FleetInit => Init
  BY DEF FleetInit
<1>2. TypeInv /\ CallerInv /\ AtInv /\ ReuseInv => FleetTypeOK
  <2> SUFFICES ASSUME TypeInv, CallerInv, AtInv, ReuseInv PROVE FleetTypeOK
    OBVIOUS
  <2>1. \A e \in Callers : \A c, d \in Own(e) :
          {cpc[c], cpc[d]} \cap {"idle", "done"} = {} => c = d
    BY DEF CallerInv, OneAtATime, Active
  <2>2. ASSUME NEW w \in Workers PROVE tick[w] \in 0 .. Len(Executions[w])
    BY CallersAssumption DEF CallerInv, TicksAndTodo, AtInv
  <2>3. \A e \in Callers : todo[e] \subseteq Own(e) /\ at[e] \in CallerPCs(e)
    BY DEF CallerInv, TicksAndTodo, AtInv
  <2> QED
    BY <2>1, <2>2, <2>3 DEF FleetTypeOK, CallerPCs, TypeInv, ReuseInv, GivenInv
<1>3. CallerInv => TicksAndTodo
  BY DEF CallerInv
<1> QED
  BY <1>1, <1>2, <1>3, TypeInit, TypeNext, IDInit, IDNext, CallerInit, CallerNext, AtInit, AtNext,
     ReuseInit, ReuseNext, FleetStepOfClient, PTL DEF FleetSpec

=============================================================================
