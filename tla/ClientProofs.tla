---------------------------- MODULE ClientProofs ----------------------------
(***************************************************************************)
(* Proofs about module Client, in layers: each invariant is proved with    *)
(* the ones before it as hypotheses of the step.                           *)
(***************************************************************************)
EXTENDS Client, FiniteSetTheorems, TLAPS

----------------------------------------------------------------------------
(***************************************************************************)
(* First layer: types, and what the program counters say about the data.   *)
(***************************************************************************)

\* A call has an invoke ID from the receive in GetID on.
GivenByPC == \A c \in Calls : cid[c] = NoID <=> cpc[c] \in {"idle", "getid"}

\* A request leaves after its call has taken an ID.
SentAfterID == \A c \in sent : cpc[c] \notin {"idle", "getid"}

\* A reply carries the ID of the request it answers.
ReplyCarriesID ==
    \A h \in Handlers : hmsg[h].type \in ReplyTypes =>
        hmsg[h].of \in sent /\ hmsg[h].id = cid[hmsg[h].of]

\* Only replies are looked up.
OnlyRepliesLookedUp ==
    \A h \in Handlers : hpc[h] \in {"lookup", "deliver"} => hmsg[h].type \in ReplyTypes

\* A handler that offers an answer has a transaction to offer it to.
DeliverHasTx == \A h \in Handlers : hpc[h] = "deliver" => htx[h] \in Calls

\* An I-Am names a device.
AnnouncesDevice == \A h \in Handlers : hmsg[h].type = "IAm" => hmsg[h].of \in Devices

TypeInv ==
    /\ TypeOK
    /\ GivenByPC
    /\ SentAfterID
    /\ ReplyCarriesID
    /\ OnlyRepliesLookedUp
    /\ DeliverHasTx
    /\ AnnouncesDevice

LEMMA ConstantFacts ==
    /\ NumIDs \in Nat /\ NumIDs > 0
    /\ NoID \notin InvokeIDs
    /\ NoTx \notin Calls
    /\ Reads \subseteq Calls
    /\ Writes \subseteq Calls
    /\ "none" \notin ReplyTypes
    /\ "IAm" \notin ReplyTypes
    /\ 0 \in 0 .. MaxScans
    /\ NoF = 0
    /\ MaxScans \in Nat
BY NumIDsAssumption, CallsAssumption, ScanAssumption
   DEF NoID, InvokeIDs, Calls, ReplyTypes, NoF

\* NewTransactions and NewClient set up a state that the first layer accepts.
LEMMA TypeInit == Init => TypeInv
<1> SUFFICES ASSUME Init PROVE TypeInv
  OBVIOUS
<1> USE ConstantFacts DEF Init, NewClient, NewTransactions, NewSubscriptions
<1>1. freeInvokeID \in Seq(InvokeIDs)
  BY DEF InvokeIDs
<1>2. NoMsg \in Messages /\ Nothing \in Results
  BY DEF NoMsg, Messages, MsgTypes, Nothing, Results
<1>3. TypeOK
  <2>1. currents \in [InvokeIDs -> Calls \cup {NoTx}]
    OBVIOUS
  <2>2. /\ cpc \in [Calls -> CallPCs]
        /\ cid \in [Calls -> InvokeIDs \cup {NoID}]
        /\ res \in [Calls -> Results]
    BY <1>2 DEF CallPCs
  <2>3. /\ hpc \in [Handlers -> HandlerPCs]
        /\ hmsg \in [Handlers -> Messages]
        /\ htx \in [Handlers -> Calls \cup {NoTx}]
        /\ hf \in [Handlers -> 0 .. MaxScans]
    BY <1>2 DEF HandlerPCs
  <2>4. wpc \in ScanPCs /\ scan \in 0 .. MaxScans /\ f \in 0 .. MaxScans
    BY DEF ScanPCs
  <2> QED
    BY <1>1, <2>1, <2>2, <2>3, <2>4 DEF TypeOK
<1>4. GivenByPC /\ SentAfterID /\ OnlyRepliesLookedUp /\ DeliverHasTx
  BY DEF GivenByPC, SentAfterID, OnlyRepliesLookedUp, DeliverHasTx
<1>5. ReplyCarriesID /\ AnnouncesDevice
  BY DEF ReplyCarriesID, AnnouncesDevice, NoMsg
<1> QED
  BY <1>3, <1>4, <1>5 DEF TypeInv

\* Every step of a call, a handler or a scan preserves the first layer.
LEMMA TypeNext == TypeInv /\ [Next]_vars => TypeInv'
<1> SUFFICES ASSUME TypeInv, [Next]_vars PROVE TypeInv'
  OBVIOUS
<1> USE ConstantFacts
<1> USE DEF TypeInv, TypeOK, GivenByPC, SentAfterID, ReplyCarriesID, OnlyRepliesLookedUp, DeliverHasTx,
            AnnouncesDevice
<1>1. ASSUME NEW c \in Calls, CallSteps(c), NotTheCalls
      PROVE  TypeInv'
  <2> USE <1>1 DEF NotTheCalls, CallAt, transactionsVars, subscriptionsVars, handlerVars, scanVars, CallPCs
  <2>1. CASE Invoke(c)
    BY <2>1 DEF Invoke
  <2>2. CASE TakeID(c)
    BY <2>2 DEF TakeID, GetID
  <2>3. CASE Register(c)
    BY <2>3 DEF Register, SetTransaction
  <2>4. CASE Send(c)
    BY <2>4 DEF Send
  <2>5. CASE SendFails(c)
    BY <2>5 DEF SendFails, Results
  <2>6. CASE WaitEnds(c)
    BY <2>6 DEF WaitEnds, Results
  <2>7. CASE Deferred(c)
    <3>1. CASE CallAt(c, "stop", "free") /\ StopTransaction(cid[c]) /\ UNCHANGED freeInvokeID
      BY <2>7, <3>1 DEF Deferred, StopTransaction
    <3>2. CASE CallAt(c, "free", "cancel") /\ FreeID(cid[c]) /\ UNCHANGED currents
      <4>1. cid[c] \in InvokeIDs
        BY <3>2
      <4>2. freeInvokeID' \in Seq(InvokeIDs)
        BY <3>2, <4>1 DEF FreeID
      <4> QED
        BY <2>7, <3>2, <4>2 DEF Deferred
    <3> QED
      BY <2>7, <3>1, <3>2 DEF Deferred
  <2>8. CASE Cancel(c)
    BY <2>8 DEF Cancel
  <2> QED
    BY <2>1, <2>2, <2>3, <2>4, <2>5, <2>6, <2>7, <2>8 DEF CallSteps
<1>2. ASSUME NEW c \in Calls, Timeout(c)
      PROVE  TypeInv'
  BY <1>2 DEF Timeout, NotTheCalls, transactionsVars, subscriptionsVars, handlerVars, scanVars
<1>3. ASSUME NEW h \in Handlers, HandleMessage(h)
      PROVE  TypeInv'
  <2>0. NoMsg \in Messages /\ NoMsg.type \notin ReplyTypes /\ NoMsg.type # "IAm"
    BY DEF NoMsg, Messages, MsgTypes
  <2> USE <1>3, <2>0 DEF NotTheHandlers, HandlerAt, HandlerEnds, transactionsVars, subscriptionsVars, callVars, scanVars, HandlerPCs
  <2>1. CASE Drop(h)
    BY <2>1 DEF Drop
  <2>2. CASE TakeRLock(h)
    BY <2>2 DEF TakeRLock, RLock
  <2>3. CASE CheckF(h)
    BY <2>3 DEF CheckF
  <2>4. CASE CallF(h)
    BY <2>4 DEF CallF
  <2>5. CASE ReleaseRLock(h)
    <3>1. CASE HandlerAt(h, "runlock", "lookup")
      BY <2>5, <3>1 DEF ReleaseRLock, RUnlock
    <3>2. CASE HandlerEnds(h, "runlock")
      BY <2>5, <3>2 DEF ReleaseRLock, RUnlock
    <3> QED
      BY <2>5, <3>1, <3>2 DEF ReleaseRLock
  <2>6. CASE Lookup(h)
    <3>1. GetTransaction(hmsg[h].id) \in Calls \cup {NoTx}
      <4>1. hmsg[h].of \in Calls /\ hmsg[h].id = cid[hmsg[h].of] /\ hmsg[h].of \in sent
        BY <2>6 DEF Lookup
      <4>2. hmsg[h].id \in InvokeIDs
        BY <4>1
      <4> QED
        BY <4>2 DEF GetTransaction
    <3>2. CASE HandlerEnds(h, "lookup")
      BY <2>6, <3>2 DEF Lookup
    <3>3. CASE /\ GetTransaction(hmsg[h].id) # NoTx
               /\ HandlerAt(h, "lookup", "deliver")
               /\ htx' = [htx EXCEPT ![h] = GetTransaction(hmsg[h].id)]
               /\ UNCHANGED << hmsg, hf >>
      BY <2>6, <3>1, <3>3 DEF Lookup
    <3> QED
      BY <2>6, <3>2, <3>3 DEF Lookup
  <2>7. CASE Deliver(h)
    <3>1. Answer(htx[h], hmsg[h]) \in Results
      <4>1. hmsg[h].of \in Calls
        BY <2>7 DEF Deliver
      <4> QED
        BY <4>1 DEF Answer, ReadAnswer, WriteAnswer, Results
    <3>2. htx[h] \in Calls
      BY <2>7 DEF Deliver
    <3> QED
      BY <2>7, <3>1, <3>2 DEF Deliver, CallAt, CallPCs
  <2>8. CASE GiveUp(h)
    BY <2>8 DEF GiveUp
  <2> QED
    BY <2>1, <2>2, <2>3, <2>4, <2>5, <2>6, <2>7, <2>8 DEF HandleMessage
<1>4. ASSUME NEW h \in Handlers, NEW m \in Datagrams, Listen(h, m)
      PROVE  TypeInv'
  <2>1. /\ m \in Messages
        /\ m.type \in ReplyTypes => m.of \in sent /\ m.id = cid[m.of]
        /\ m.type = "IAm" => m.of \in Devices
    <3>1. CASE m \in Replies
      BY <3>1 DEF Replies, Reply, ReplyTypesTo, ReplyTypes, Messages, MsgTypes
    <3>2. CASE m \in Announcements
      BY <3>2 DEF Announcements, Messages, MsgTypes
    <3>3. CASE m \in Noise
      BY <3>3 DEF Noise, ReplyTypes, Messages, MsgTypes
    <3> QED
      BY <3>1, <3>2, <3>3 DEF Datagrams
  <2> QED
    BY <1>4, <2>1 DEF Listen, NotTheHandlers, HandlerAt, transactionsVars, subscriptionsVars, callVars, scanVars, HandlerPCs
<1>5. CASE WhoIsStart
  BY <1>5 DEF WhoIsStart, LockRequest, ScanAt, NotTheScan, transactionsVars, subscriptionsVars, callVars, handlerVars, ScanPCs
<1>6. CASE WhoIsSteps
  <2> USE <1>6 DEF ScanAt, NotTheScan, transactionsVars, subscriptionsVars, callVars, handlerVars, ScanPCs
  <2>1. CASE WhoIsSubscribe
    BY <2>1 DEF WhoIsSubscribe, Subscribe
  <2>2. CASE WhoIsBroadcast
    BY <2>2 DEF WhoIsBroadcast
  <2>3. CASE \E h \in Handlers : WhoIsReceive(h)
    <3>1. PICK h \in Handlers : WhoIsReceive(h)
      BY <2>3
    <3>2. found' \subseteq Devices
      BY <3>1 DEF WhoIsReceive
    <3> QED
      BY <3>1, <3>2 DEF WhoIsReceive, HandlerAt, HandlerPCs
  <2>4. CASE WhoIsTimer
    BY <2>4 DEF WhoIsTimer
  <2>5. CASE WhoIsReturn
    BY <2>5 DEF WhoIsReturn, Unsubscribe
  <2> QED
    BY <2>1, <2>2, <2>3, <2>4, <2>5 DEF WhoIsSteps
<1>7. CASE UNCHANGED vars
  BY <1>7 DEF vars, transactionsVars, subscriptionsVars, callVars, handlerVars, scanVars
<1> QED
  BY <1>1, <1>2, <1>3, <1>4, <1>5, <1>6, <1>7 DEF Next, ReadProperty, WriteProperty

\* Every variable of the client keeps its type, in every state.
THEOREM TypeCorrect == Spec => [](TypeInv /\ TypeOK)
<1>1. TypeInv => TypeOK
  BY DEF TypeInv
<1> QED
  BY TypeInit, TypeNext, <1>1, PTL DEF Spec

----------------------------------------------------------------------------
(***************************************************************************)
(* Second layer: the pool.                                                 *)
(***************************************************************************)
Holders == { c \in Calls : Holds(c) }

\* The IDs in the pool and the calls that hold one add up.
PoolCount == Len(freeInvokeID) + Cardinality(Holders) = NumIDs

IDInv == IDsConserved /\ PoolCount

\* FreeID as call c runs it.
GiveBack(c) ==
    /\ CallAt(c, "free", "cancel")
    /\ FreeID(cid[c])
    /\ UNCHANGED << currents, cid, ctxDone, sent, res >>
    /\ NotTheCalls

\* A step leaves the pool and the calls that hold an ID as they are.
IDsUntouched ==
    /\ UNCHANGED << freeInvokeID, cid >>
    /\ \A d \in Calls : Holds(d)' <=> Holds(d)

\* Only GetID and FreeID touch the pool.
LEMMA StepKinds ==
    ASSUME TypeInv, [Next]_vars
    PROVE  \/ \E c \in Calls : TakeID(c) /\ NotTheCalls
           \/ \E c \in Calls : GiveBack(c)
           \/ IDsUntouched
<1> USE DEF IDsUntouched, Holds, TypeInv, TypeOK
<1>1. ASSUME NEW c \in Calls, CallSteps(c), NotTheCalls, ~TakeID(c), ~GiveBack(c)
      PROVE  IDsUntouched
  <2> USE <1>1 DEF CallAt, transactionsVars
  <2>1. CASE Invoke(c)
    BY <2>1 DEF Invoke
  <2>2. CASE Register(c)
    BY <2>2 DEF Register
  <2>3. CASE Send(c)
    BY <2>3 DEF Send
  <2>4. CASE SendFails(c)
    BY <2>4 DEF SendFails
  <2>5. CASE WaitEnds(c)
    BY <2>5 DEF WaitEnds
  <2>6. CASE Deferred(c)
    BY <2>6 DEF Deferred, GiveBack
  <2>7. CASE Cancel(c)
    BY <2>7 DEF Cancel
  <2> QED
    BY <2>1, <2>2, <2>3, <2>4, <2>5, <2>6, <2>7 DEF CallSteps
<1>2. ASSUME NEW c \in Calls, Timeout(c)
      PROVE  IDsUntouched
  BY <1>2 DEF Timeout, transactionsVars
<1>3. ASSUME NEW h \in Handlers, HandleMessage(h), ~Deliver(h)
      PROVE  IDsUntouched
  BY <1>3 DEF HandleMessage, Drop, TakeRLock, CheckF, CallF, ReleaseRLock, Lookup, GiveUp,
              NotTheHandlers, transactionsVars, callVars
<1>4. ASSUME NEW h \in Handlers, Deliver(h)
      PROVE  IDsUntouched
  BY <1>4 DEF Deliver, CallAt, transactionsVars, DeliverHasTx, HandlerEnds, HandlerAt
<1>5. ASSUME NEW h \in Handlers, NEW m \in Datagrams, Listen(h, m)
      PROVE  IDsUntouched
  BY <1>5 DEF Listen, NotTheHandlers, transactionsVars, callVars
<1>6. CASE WhoIsStart \/ WhoIsSteps
  BY <1>6 DEF WhoIsStart, WhoIsSteps, WhoIsSubscribe, WhoIsBroadcast, WhoIsReceive, WhoIsTimer,
              WhoIsReturn, NotTheScan, transactionsVars, callVars
<1>7. CASE UNCHANGED vars
  BY <1>7 DEF vars, transactionsVars, callVars
<1> QED
  BY <1>1, <1>2, <1>3, <1>4, <1>5, <1>6, <1>7 DEF Next, ReadProperty, WriteProperty

\* NewTransactions fills the pool with all the IDs, and no call holds one.
LEMMA IDInit == Init => IDInv
<1> SUFFICES ASSUME Init PROVE IDInv
  OBVIOUS
<1> USE ConstantFacts DEF Init, NewClient, NewTransactions
<1>1. \A c \in Calls : ~Holds(c)
  BY DEF Holds
<1>2. Len(freeInvokeID) = NumIDs /\ \A i \in 1 .. NumIDs : freeInvokeID[i] = i - 1
  OBVIOUS
<1>3. PoolIDs = InvokeIDs
  <2>1. ASSUME NEW id \in InvokeIDs PROVE id \in PoolIDs
    <3>1. id + 1 \in 1 .. NumIDs /\ freeInvokeID[id + 1] = id
      BY <1>2 DEF InvokeIDs
    <3> QED
      BY <1>2, <3>1 DEF PoolIDs
  <2>2. ASSUME NEW id \in PoolIDs PROVE id \in InvokeIDs
    BY <1>2 DEF PoolIDs, InvokeIDs
  <2> QED
    BY <2>1, <2>2
<1>4. IDsConserved
  BY <1>1, <1>2, <1>3 DEF IDsConserved
<1>5. PoolCount
  <2>1. Holders = {}
    BY <1>1 DEF Holders
  <2> QED
    BY <1>2, <2>1, FS_EmptySet DEF PoolCount
<1> QED
  BY <1>4, <1>5 DEF IDInv

LEMMA HoldersFinite == IsFiniteSet(Holders) /\ IsFiniteSet(Holders)'
<1>1. Holders \subseteq Calls /\ Holders' \subseteq Calls
  BY DEF Holders
<1> QED
  BY <1>1, CallsAssumption, FS_Subset DEF Holders

\* A call that takes the head of the pool becomes its only holder.
LEMMA TakeIDKeeps ==
    ASSUME TypeInv, IDInv, NEW c \in Calls, TakeID(c)
    PROVE  IDInv'
<1> DEFINE id == Head(freeInvokeID)
<1> USE DEF TypeInv, TypeOK
<1>1. /\ freeInvokeID # << >>
      /\ freeInvokeID' = Tail(freeInvokeID)
      /\ cid' = [cid EXCEPT ![c] = id]
      /\ cpc[c] = "getid"
      /\ cpc' = [cpc EXCEPT ![c] = "set"]
  BY DEF TakeID, GetID, CallAt
<1>2. /\ Len(freeInvokeID) \in Nat /\ Len(freeInvokeID) >= 1
      /\ Len(freeInvokeID') = Len(freeInvokeID) - 1
      /\ \A i \in 1 .. Len(freeInvokeID) - 1 : freeInvokeID'[i] = freeInvokeID[i + 1]
      /\ id = freeInvokeID[1]
      /\ id \in InvokeIDs
  BY <1>1
<1>3. /\ id \in PoolIDs
      /\ id \notin PoolIDs'
      /\ PoolIDs = PoolIDs' \cup {id}
  <2>1. id \in PoolIDs
    BY <1>2 DEF PoolIDs
  <2>2. id \notin PoolIDs'
    BY <1>2 DEF PoolIDs, IDInv, IDsConserved
  <2>3. ASSUME NEW x \in PoolIDs, x # id PROVE x \in PoolIDs'
    <3>1. PICK i \in 1 .. Len(freeInvokeID) : x = freeInvokeID[i]
      BY DEF PoolIDs
    <3>2. i - 1 \in 1 .. Len(freeInvokeID') /\ x = freeInvokeID'[i - 1]
      BY <1>2, <2>3, <3>1
    <3> QED
      BY <3>2 DEF PoolIDs
  <2>4. ASSUME NEW x \in PoolIDs' PROVE x \in PoolIDs
    <3>1. PICK i \in 1 .. Len(freeInvokeID') : x = freeInvokeID'[i]
      BY DEF PoolIDs
    <3>2. i + 1 \in 1 .. Len(freeInvokeID) /\ x = freeInvokeID[i + 1]
      BY <1>2, <3>1
    <3> QED
      BY <3>2 DEF PoolIDs
  <2> QED
    BY <2>1, <2>2, <2>3, <2>4
<1>4. /\ ~Holds(c) /\ Holds(c)'
      /\ \A d \in Calls \ {c} : (Holds(d)' <=> Holds(d)) /\ cid'[d] = cid[d]
      /\ cid'[c] = id
  BY <1>1 DEF Holds
<1>5. IDsConserved'
  <2>1. \A i, j \in 1 .. Len(freeInvokeID') : freeInvokeID'[i] = freeInvokeID'[j] => i = j
    BY <1>2 DEF IDInv, IDsConserved
  <2>2. \A d, e \in Calls : Holds(d)' /\ Holds(e)' /\ cid'[d] = cid'[e] => d = e
    BY <1>3, <1>4 DEF IDInv, IDsConserved
  <2>3. \A d \in Calls : Holds(d)' => cid'[d] \in InvokeIDs \ PoolIDs'
    BY <1>2, <1>3, <1>4 DEF IDInv, IDsConserved
  <2>4. ASSUME NEW x \in InvokeIDs \ PoolIDs'
        PROVE  \E d \in Calls : Holds(d)' /\ cid'[d] = x
    <3>1. CASE x = id
      BY <1>4, <3>1
    <3>2. CASE x # id
      <4>1. PICK d \in Calls : Holds(d) /\ cid[d] = x
        BY <1>3, <3>2 DEF IDInv, IDsConserved
      <4> QED
        BY <1>4, <4>1
    <3> QED
      BY <3>1, <3>2
  <2> QED
    BY <2>1, <2>2, <2>3, <2>4 DEF IDsConserved, InvokeIDs
<1>6. PoolCount'
  <2>1. Holders' = Holders \cup {c} /\ c \notin Holders
    BY <1>4 DEF Holders
  <2>2. Cardinality(Holders') = Cardinality(Holders) + 1 /\ Cardinality(Holders) \in Nat
    BY <2>1, HoldersFinite, FS_AddElement, FS_CardinalityType
  <2> QED
    BY <1>2, <2>2, ConstantFacts DEF IDInv, PoolCount
<1> QED
  BY <1>5, <1>6 DEF IDInv

\* A call that puts its ID back leaves it in the pool only.
LEMMA GiveBackKeeps ==
    ASSUME TypeInv, IDInv, NEW c \in Calls, GiveBack(c)
    PROVE  IDInv'
<1> DEFINE n == Len(freeInvokeID)
<1> USE DEF TypeInv, TypeOK
<1>1. /\ freeInvokeID' = Append(freeInvokeID, cid[c])
      /\ cid' = cid
      /\ cpc[c] = "free"
      /\ cpc' = [cpc EXCEPT ![c] = "cancel"]
  BY DEF GiveBack, FreeID, CallAt
<1>2. cid[c] \in InvokeIDs /\ cid[c] \notin PoolIDs
  BY <1>1 DEF IDInv, IDsConserved, Holds
<1>3. /\ n \in Nat /\ Len(freeInvokeID') = n + 1
      /\ \A i \in 1 .. n : freeInvokeID'[i] = freeInvokeID[i]
      /\ freeInvokeID'[n + 1] = cid[c]
  BY <1>1, <1>2
<1>4. PoolIDs' = PoolIDs \cup {cid[c]}
  <2>1. ASSUME NEW x \in PoolIDs PROVE x \in PoolIDs'
    BY <1>3 DEF PoolIDs
  <2>2. cid[c] \in PoolIDs'
    BY <1>3 DEF PoolIDs
  <2>3. ASSUME NEW x \in PoolIDs', x # cid[c] PROVE x \in PoolIDs
    <3>1. PICK i \in 1 .. n + 1 : x = freeInvokeID'[i]
      BY <1>3 DEF PoolIDs
    <3>2. i \in 1 .. n
      BY <1>3, <2>3, <3>1
    <3> QED
      BY <1>3, <3>1, <3>2 DEF PoolIDs
  <2> QED
    BY <2>1, <2>2, <2>3
<1>5. /\ Holds(c) /\ ~Holds(c)'
      /\ \A d \in Calls \ {c} : Holds(d)' <=> Holds(d)
  BY <1>1 DEF Holds
<1>6. IDsConserved'
  <2>1. ASSUME NEW i \in 1 .. n + 1, NEW j \in 1 .. n + 1, freeInvokeID'[i] = freeInvokeID'[j]
        PROVE  i = j
    <3>1. \A k \in 1 .. n : freeInvokeID[k] # cid[c]
      BY <1>2 DEF PoolIDs
    <3> QED
      BY <1>3, <2>1, <3>1 DEF IDInv, IDsConserved
  <2>2. \A d, e \in Calls : Holds(d)' /\ Holds(e)' /\ cid'[d] = cid'[e] => d = e
    BY <1>1, <1>5 DEF IDInv, IDsConserved
  <2>3. \A d \in Calls : Holds(d)' => cid'[d] \in InvokeIDs \ PoolIDs'
    BY <1>1, <1>4, <1>5 DEF IDInv, IDsConserved
  <2>4. ASSUME NEW x \in InvokeIDs \ PoolIDs'
        PROVE  \E d \in Calls : Holds(d)' /\ cid'[d] = x
    BY <1>1, <1>4, <1>5 DEF IDInv, IDsConserved
  <2> QED
    BY <1>3, <2>1, <2>2, <2>3, <2>4 DEF IDsConserved, InvokeIDs
<1>7. PoolCount'
  <2>1. Holders' = Holders \ {c} /\ c \in Holders
    BY <1>5 DEF Holders
  <2>2. Cardinality(Holders') = Cardinality(Holders) - 1 /\ Cardinality(Holders) \in Nat
    BY <2>1, HoldersFinite, FS_RemoveElement, FS_CardinalityType
  <2> QED
    BY <1>3, <2>2, ConstantFacts DEF IDInv, PoolCount
<1> QED
  BY <1>6, <1>7 DEF IDInv

LEMMA IDNext == TypeInv /\ IDInv /\ [Next]_vars => IDInv'
<1> SUFFICES ASSUME TypeInv, IDInv, [Next]_vars PROVE IDInv'
  OBVIOUS
<1>1. CASE IDsUntouched
  <2>1. PoolIDs' = PoolIDs /\ Holders' = Holders
    BY <1>1 DEF IDsUntouched, PoolIDs, Holders
  <2>2. IDsConserved'
    BY <1>1, <2>1 DEF IDsUntouched, IDInv, IDsConserved
  <2> QED
    BY <1>1, <2>1, <2>2 DEF IDsUntouched, IDInv, PoolCount
<1> QED
  BY <1>1, StepKinds, TakeIDKeeps, GiveBackKeeps

\* IDsConserved for any number of IDs, calls and handlers: an invoke ID is
\* neither lost nor given to two calls at once.
THEOREM IDsAreConserved == Spec => []IDsConserved
<1>1. IDInv => IDsConserved
  BY DEF IDInv
<1> QED
  BY TypeInit, TypeNext, IDInit, IDNext, <1>1, PTL DEF Spec

\* FreeIDNeverBlocks for any number of IDs, calls and handlers: the deferred
\* FreeID of a returning call finds room in the channel.
THEOREM FreeIDIsNonBlocking == Spec => []FreeIDNeverBlocks
<1>1. TypeInv /\ IDInv => FreeIDNeverBlocks
  <2> SUFFICES ASSUME TypeInv, IDInv, NEW c \in Calls, cpc[c] = "free"
               PROVE  Len(freeInvokeID) < NumIDs
    BY DEF FreeIDNeverBlocks
  <2>1. c \in Holders
    BY DEF Holders, Holds
  <2>2. Cardinality(Holders) \in Nat /\ Cardinality(Holders) # 0
    BY <2>1, HoldersFinite, FS_CardinalityType, FS_EmptySet
  <2>3. Len(freeInvokeID) \in Nat
    BY DEF TypeInv, TypeOK
  <2> QED
    BY <2>2, <2>3, ConstantFacts DEF IDInv, PoolCount
<1> QED
  BY TypeInit, TypeNext, IDInit, IDNext, <1>1, PTL DEF Spec

----------------------------------------------------------------------------
(***************************************************************************)
(* Third layer: the table of transactions.                                 *)
(***************************************************************************)

\* SetTransaction and StopTransaction act on an ID that no other call holds.
LEMMA CurrentsNext == TypeInv /\ IDInv /\ CurrentsExact /\ [Next]_vars => CurrentsExact'
<1> SUFFICES ASSUME TypeInv, IDInv, CurrentsExact, [Next]_vars PROVE CurrentsExact'
  OBVIOUS
<1> USE ConstantFacts DEF TypeInv, TypeOK, CurrentsExact
<1>0. \A c, d \in Calls : Holds(c) /\ Holds(d) /\ cid[c] = cid[d] => c = d
  BY DEF IDInv, IDsConserved
<1>1. ASSUME NEW c \in Calls, CallSteps(c), NotTheCalls
      PROVE  CurrentsExact'
  <2> USE <1>1 DEF CallAt, transactionsVars, InvokeIDs
  <2>1. CASE Invoke(c)
    BY <2>1 DEF Invoke
  <2>2. CASE TakeID(c)
    BY <2>2 DEF TakeID
  <2>3. CASE Register(c)
    BY <1>0, <2>3 DEF Register, SetTransaction, Holds, GivenByPC
  <2>4. CASE Send(c)
    BY <2>4 DEF Send
  <2>5. CASE SendFails(c)
    BY <2>5 DEF SendFails
  <2>6. CASE WaitEnds(c)
    BY <2>6 DEF WaitEnds
  <2>7. CASE Deferred(c)
    BY <1>0, <2>7 DEF Deferred, StopTransaction, Holds, GivenByPC
  <2>8. CASE Cancel(c)
    BY <2>8 DEF Cancel
  <2> QED
    BY <2>1, <2>2, <2>3, <2>4, <2>5, <2>6, <2>7, <2>8 DEF CallSteps
<1>2. ASSUME NEW c \in Calls, Timeout(c)
      PROVE  CurrentsExact'
  BY <1>2 DEF Timeout, transactionsVars
<1>3. ASSUME NEW h \in Handlers, HandleMessage(h), ~Deliver(h)
      PROVE  CurrentsExact'
  BY <1>3 DEF HandleMessage, Drop, TakeRLock, CheckF, CallF, ReleaseRLock, Lookup, GiveUp,
              NotTheHandlers, transactionsVars, callVars
<1>4. ASSUME NEW h \in Handlers, Deliver(h)
      PROVE  CurrentsExact'
  BY <1>4 DEF Deliver, CallAt, transactionsVars, DeliverHasTx, HandlerEnds, HandlerAt
<1>5. ASSUME NEW h \in Handlers, NEW m \in Datagrams, Listen(h, m)
      PROVE  CurrentsExact'
  BY <1>5 DEF Listen, NotTheHandlers, transactionsVars, callVars
<1>6. CASE WhoIsStart \/ WhoIsSteps
  BY <1>6 DEF WhoIsStart, WhoIsSteps, WhoIsSubscribe, WhoIsBroadcast, WhoIsReceive, WhoIsTimer,
              WhoIsReturn, NotTheScan, transactionsVars, callVars
<1>7. CASE UNCHANGED vars
  BY <1>7 DEF vars, transactionsVars, callVars
<1> QED
  BY <1>1, <1>2, <1>3, <1>4, <1>5, <1>6, <1>7 DEF Next, ReadProperty, WriteProperty

LEMMA CurrentsInit == Init => CurrentsExact
BY ConstantFacts DEF Init, NewClient, NewTransactions, CurrentsExact

\* CurrentsExact for any number of IDs, calls and handlers: every entry of the
\* table is that of a running call, under its own ID, and no running call has
\* lost its entry.
THEOREM CurrentsAreExact == Spec => []CurrentsExact
BY TypeInit, TypeNext, IDInit, IDNext, CurrentsInit, CurrentsNext, PTL DEF Spec

----------------------------------------------------------------------------
(***************************************************************************)
(* Fourth layer: where the answers come from.                              *)
(***************************************************************************)

\* A handler offers a reply to the call that was given the ID in it.
OfferedUnderID == \A h \in Handlers : hpc[h] = "deliver" => cid[htx[h]] = hmsg[h].id

\* A call has no result before the end of its select.
NoResultYet ==
    \A c \in Calls : cpc[c] \in {"idle", "getid", "set", "send", "wait"} => res[c] = Nothing

\* The answer of a call was sent for a request that went out under its ID.
AnswerUnderID ==
    \A c \in Calls : res[c].of # NoTx => res[c].of \in sent /\ cid[res[c].of] = cid[c]

AnswerInv == OfferedUnderID /\ NoResultYet /\ AnswerUnderID

LEMMA AnswerInit == Init => AnswerInv
BY DEF Init, NewClient, AnswerInv, OfferedUnderID, NoResultYet, AnswerUnderID, Nothing

LEMMA AnswerOf == \A c, m : Answer(c, m).of = m.of
BY DEF Answer, ReadAnswer, WriteAnswer

\* A reply finds its call by its ID, and the call keeps its ID.
LEMMA AnswerNext == TypeInv /\ CurrentsExact /\ AnswerInv /\ [Next]_vars => AnswerInv'
<1> SUFFICES ASSUME TypeInv, CurrentsExact, AnswerInv, [Next]_vars PROVE AnswerInv'
  OBVIOUS
<1> USE ConstantFacts
<1> USE DEF TypeInv, TypeOK, AnswerInv, OfferedUnderID, NoResultYet, AnswerUnderID
<1>1. ASSUME NEW c \in Calls, CallSteps(c), NotTheCalls
      PROVE  AnswerInv'
  <2> USE <1>1 DEF NotTheCalls, CallAt, transactionsVars, handlerVars
  <2>1. CASE Invoke(c)
    BY <2>1 DEF Invoke
  <2>2. CASE TakeID(c)
    <3>1. cid[c] = NoID /\ c \notin sent /\ res[c] = Nothing
      BY <2>2 DEF TakeID, GivenByPC, SentAfterID
    <3>2. \A d \in Calls \ {c} : cid'[d] = cid[d]
      BY <2>2 DEF TakeID
    <3>3. OfferedUnderID'
      <4> SUFFICES ASSUME NEW h \in Handlers, hpc[h] = "deliver"
                   PROVE  cid'[htx[h]] = hmsg[h].id
        BY <2>2 DEF TakeID
      <4>1. hmsg[h].of \in sent /\ hmsg[h].id = cid[hmsg[h].of]
        BY DEF OnlyRepliesLookedUp, ReplyCarriesID
      <4>2. cid[hmsg[h].of] # NoID
        BY <4>1 DEF GivenByPC, SentAfterID
      <4>3. htx[h] \in Calls /\ htx[h] # c
        BY <3>1, <4>1, <4>2 DEF DeliverHasTx
      <4> QED
        BY <3>2, <4>3
    <3>4. NoResultYet'
      BY <2>2 DEF TakeID
    <3>5. AnswerUnderID'
      BY <2>2, <3>1, <3>2 DEF TakeID, Nothing
    <3> QED
      BY <3>3, <3>4, <3>5
  <2>3. CASE Register(c)
    BY <2>3 DEF Register
  <2>4. CASE Send(c)
    BY <2>4 DEF Send
  <2>5. CASE SendFails(c)
    BY <2>5 DEF SendFails
  <2>6. CASE WaitEnds(c)
    BY <2>6 DEF WaitEnds
  <2>7. CASE Deferred(c)
    BY <2>7 DEF Deferred
  <2>8. CASE Cancel(c)
    BY <2>8 DEF Cancel
  <2> QED
    BY <2>1, <2>2, <2>3, <2>4, <2>5, <2>6, <2>7, <2>8 DEF CallSteps
<1>2. ASSUME NEW c \in Calls, Timeout(c)
      PROVE  AnswerInv'
  BY <1>2 DEF Timeout, NotTheCalls, handlerVars
<1>3. ASSUME NEW h \in Handlers, HandleMessage(h)
      PROVE  AnswerInv'
  <2> USE <1>3 DEF NotTheHandlers, HandlerAt, HandlerEnds, callVars
  <2>1. CASE Drop(h) \/ TakeRLock(h) \/ CheckF(h) \/ CallF(h) \/ ReleaseRLock(h) \/ GiveUp(h)
    BY <2>1 DEF Drop, TakeRLock, CheckF, CallF, ReleaseRLock, GiveUp
  <2>2. CASE Lookup(h)
    <3>1. hmsg[h].id \in InvokeIDs
      <4>1. hmsg[h].of \in sent /\ hmsg[h].id = cid[hmsg[h].of]
        BY <2>2 DEF Lookup, OnlyRepliesLookedUp, ReplyCarriesID
      <4>2. cid[hmsg[h].of] # NoID
        BY <4>1 DEF GivenByPC, SentAfterID
      <4> QED
        BY <4>1, <4>2
    <3>2. GetTransaction(hmsg[h].id) # NoTx => cid[GetTransaction(hmsg[h].id)] = hmsg[h].id
      BY <3>1 DEF GetTransaction, CurrentsExact
    <3>3. OfferedUnderID'
      <4>1. CASE HandlerEnds(h, "lookup")
        BY <2>2, <4>1 DEF Lookup
      <4>2. CASE /\ HandlerAt(h, "lookup", "deliver")
                 /\ GetTransaction(hmsg[h].id) # NoTx
                 /\ htx' = [htx EXCEPT ![h] = GetTransaction(hmsg[h].id)]
                 /\ UNCHANGED << hmsg, hf >>
        BY <2>2, <3>2, <4>2 DEF Lookup
      <4> QED
        BY <2>2, <4>1, <4>2 DEF Lookup
    <3> QED
      BY <2>2, <3>3 DEF Lookup
  <2>3. CASE Deliver(h)
    <3>1. htx[h] \in Calls /\ hpc[h] = "deliver"
      BY <2>3 DEF Deliver, DeliverHasTx
    <3>2. hmsg[h].of \in sent /\ cid[hmsg[h].of] = cid[htx[h]]
      BY <3>1 DEF OnlyRepliesLookedUp, ReplyCarriesID
    <3>3. Answer(htx[h], hmsg[h]).of = hmsg[h].of
      BY AnswerOf
    <3> QED
      BY <2>3, <3>1, <3>2, <3>3 DEF Deliver, CallAt
  <2> QED
    BY <2>1, <2>2, <2>3 DEF HandleMessage
<1>4. ASSUME NEW h \in Handlers, NEW m \in Datagrams, Listen(h, m)
      PROVE  AnswerInv'
  BY <1>4 DEF Listen, HandlerAt, NotTheHandlers, callVars
<1>5. CASE WhoIsStart
  BY <1>5 DEF WhoIsStart, NotTheScan, handlerVars, callVars
<1>6. CASE WhoIsSteps
  BY <1>6 DEF WhoIsSteps, WhoIsSubscribe, WhoIsBroadcast, WhoIsReceive, WhoIsTimer, WhoIsReturn,
              HandlerAt, NotTheScan, handlerVars, callVars
<1>7. CASE UNCHANGED vars
  BY <1>7 DEF vars, callVars, handlerVars
<1> QED
  BY <1>1, <1>2, <1>3, <1>4, <1>5, <1>6, <1>7 DEF Next, ReadProperty, WriteProperty

----------------------------------------------------------------------------
(***************************************************************************)
(* Fifth layer: the first round of IDs.  As long as no more calls than     *)
(* there are IDs have been given one, what is left of the first round is   *)
(* at the front of the pool, in order, so every call gets a new ID.        *)
(***************************************************************************)
GivenCalls == { c \in Calls : cid[c] # NoID }

FirstRound ==
    LET g == Cardinality(GivenCalls) IN
    g <= NumIDs =>
        /\ Len(freeInvokeID) >= NumIDs - g
        /\ \A i \in 1 .. NumIDs - g : freeInvokeID[i] = g + i - 1
        /\ \A c \in GivenCalls : cid[c] < g
        /\ \A c, d \in GivenCalls : cid[c] = cid[d] => c = d

LEMMA GivenFinite ==
    /\ IsFiniteSet(GivenCalls) /\ Cardinality(GivenCalls) \in Nat
    /\ IsFiniteSet(GivenCalls)' /\ Cardinality(GivenCalls)' \in Nat
<1>1. GivenCalls \subseteq Calls /\ GivenCalls' \subseteq Calls
  BY DEF GivenCalls
<1>2. IsFiniteSet(GivenCalls) /\ IsFiniteSet(GivenCalls')
  BY <1>1, CallsAssumption, FS_Subset
<1> QED
  BY <1>2, FS_CardinalityType

LEMMA FirstRoundInit == Init => FirstRound
<1> SUFFICES ASSUME Init PROVE FirstRound
  OBVIOUS
<1>1. GivenCalls = {}
  BY DEF Init, NewClient, GivenCalls
<1>2. Cardinality(GivenCalls) = 0
  BY <1>1, FS_EmptySet
<1>3. freeInvokeID = [i \in 1 .. NumIDs |-> i - 1]
  BY DEF Init, NewClient, NewTransactions
<1>4. Len(freeInvokeID) = NumIDs /\ \A i \in 1 .. NumIDs : freeInvokeID[i] = 0 + i - 1
  BY <1>3, ConstantFacts
<1>5. NumIDs - 0 = NumIDs
  BY ConstantFacts
<1> QED
  BY <1>1, <1>2, <1>4, <1>5, ConstantFacts DEF FirstRound

\* GetID takes from the front, FreeID puts at the back.
LEMMA FirstRoundNext == TypeInv /\ FirstRound /\ [Next]_vars => FirstRound'
<1> SUFFICES ASSUME TypeInv, FirstRound, [Next]_vars PROVE FirstRound'
  OBVIOUS
<1> DEFINE g == Cardinality(GivenCalls)
<1> USE ConstantFacts, GivenFinite DEF TypeInv, TypeOK
<1>1. ASSUME NEW c \in Calls, TakeID(c) PROVE FirstRound'
  <2>1. /\ freeInvokeID # << >>
        /\ freeInvokeID' = Tail(freeInvokeID)
        /\ cid' = [cid EXCEPT ![c] = Head(freeInvokeID)]
        /\ cid[c] = NoID
    BY <1>1 DEF TakeID, GetID, CallAt, GivenByPC
  <2>2. /\ Len(freeInvokeID) \in Nat /\ Len(freeInvokeID) >= 1
        /\ Len(freeInvokeID') = Len(freeInvokeID) - 1
        /\ \A i \in 1 .. Len(freeInvokeID) - 1 : freeInvokeID'[i] = freeInvokeID[i + 1]
        /\ Head(freeInvokeID) = freeInvokeID[1]
        /\ Head(freeInvokeID) \in InvokeIDs
    BY <2>1
  <2>3. GivenCalls' = GivenCalls \cup {c} /\ c \notin GivenCalls
    BY <2>1, <2>2 DEF GivenCalls
  <2>4. Cardinality(GivenCalls') = g + 1
    BY <2>3, FS_AddElement
  <2> SUFFICES ASSUME g + 1 <= NumIDs
               PROVE  /\ Len(freeInvokeID') >= NumIDs - (g + 1)
                      /\ \A i \in 1 .. NumIDs - (g + 1) : freeInvokeID'[i] = (g + 1) + i - 1
                      /\ \A d \in GivenCalls' : cid'[d] < g + 1
                      /\ \A d, e \in GivenCalls' : cid'[d] = cid'[e] => d = e
    BY <2>4 DEF FirstRound
  <2>5. /\ Len(freeInvokeID) >= NumIDs - g
        /\ \A i \in 1 .. NumIDs - g : freeInvokeID[i] = g + i - 1
        /\ \A d \in GivenCalls : cid[d] < g
        /\ \A d, e \in GivenCalls : cid[d] = cid[e] => d = e
    BY DEF FirstRound
  <2>6. Len(freeInvokeID') >= NumIDs - (g + 1)
    BY <2>2, <2>5
  <2>7. \A i \in 1 .. NumIDs - (g + 1) : freeInvokeID'[i] = (g + 1) + i - 1
    <3> SUFFICES ASSUME NEW i \in 1 .. NumIDs - (g + 1)
                 PROVE  freeInvokeID'[i] = (g + 1) + i - 1
      OBVIOUS
    <3>1. g \in Nat
      OBVIOUS
    <3>2. i + 1 \in 1 .. NumIDs - g /\ i \in 1 .. Len(freeInvokeID) - 1
      BY <2>2, <2>5, <3>1
    <3>3. freeInvokeID'[i] = freeInvokeID[i + 1]
      BY <2>2, <3>2
    <3>4. freeInvokeID[i + 1] = g + (i + 1) - 1
      BY <2>5, <3>2
    <3> QED
      BY <3>1, <3>3, <3>4
  <2>8. freeInvokeID[1] = g
    <3>1. g \in Nat
      OBVIOUS
    <3>2. 1 \in 1 .. NumIDs - g /\ g + 1 - 1 = g
      BY <3>1
    <3> QED
      BY <2>5, <3>2
  <2>9. cid'[c] = g /\ \A d \in GivenCalls : cid'[d] = cid[d] /\ cid'[d] < g /\ cid'[d] \in Int
    <3>1. cid'[c] = g
      BY <2>1, <2>2, <2>8
    <3>2. ASSUME NEW d \in GivenCalls PROVE cid'[d] = cid[d] /\ cid[d] \in InvokeIDs
      BY <2>1, <2>3 DEF GivenCalls
    <3> QED
      BY <2>5, <3>1, <3>2 DEF InvokeIDs
  <2>10. \A d \in GivenCalls' : cid'[d] < g + 1
    BY <2>3, <2>9
  <2>11. \A d, e \in GivenCalls' : cid'[d] = cid'[e] => d = e
    BY <2>3, <2>5, <2>9
  <2> QED
    BY <2>6, <2>7, <2>10, <2>11
<1>2. ASSUME NEW c \in Calls, GiveBack(c) PROVE FirstRound'
  <2>1. cid' = cid /\ freeInvokeID' = Append(freeInvokeID, cid[c])
    BY <1>2 DEF GiveBack, FreeID
  <2>2. GivenCalls' = GivenCalls
    BY <2>1 DEF GivenCalls
  <2>3. /\ Len(freeInvokeID) \in Nat
        /\ Len(freeInvokeID') = Len(freeInvokeID) + 1
        /\ \A i \in 1 .. Len(freeInvokeID) : freeInvokeID'[i] = freeInvokeID[i]
    BY <2>1
  <2> QED
    BY <2>1, <2>2, <2>3 DEF FirstRound
<1>3. CASE IDsUntouched
  <2>1. GivenCalls' = GivenCalls
    BY <1>3 DEF IDsUntouched, GivenCalls
  <2> QED
    BY <1>3, <2>1 DEF IDsUntouched, FirstRound
<1> QED
  BY <1>1, <1>2, <1>3, StepKinds

\* OwnAnswerBeforeWrap for any number of IDs, calls and handlers: until the
\* IDs have been handed out once, no late or duplicated reply reaches a call
\* that did not ask for it.
THEOREM OwnAnswersBeforeWrap == Spec => []OwnAnswerBeforeWrap
<1>1. TypeInv /\ AnswerInv /\ FirstRound => OwnAnswerBeforeWrap
  <2> SUFFICES ASSUME TypeInv, AnswerInv, FirstRound,
                      Cardinality(GivenCalls) <= NumIDs,
                      NEW c \in Calls, res[c].of # NoTx
               PROVE  res[c].of = c
    BY DEF OwnAnswerBeforeWrap, GivenCalls
  <2>1. res[c].of \in sent /\ cid[res[c].of] = cid[c]
    BY DEF AnswerInv, AnswerUnderID
  <2>2. res[c].of \in GivenCalls /\ c \in GivenCalls
    BY <2>1 DEF GivenCalls, TypeInv, TypeOK, SentAfterID, GivenByPC
  <2> QED
    BY <2>1, <2>2 DEF FirstRound
<1> QED
  BY TypeInit, TypeNext, IDInit, IDNext, CurrentsInit, CurrentsNext, AnswerInit, AnswerNext,
     FirstRoundInit, FirstRoundNext, <1>1, PTL DEF Spec

----------------------------------------------------------------------------
(***************************************************************************)
(* Sixth layer: the read lock and the callback.                            *)
(***************************************************************************)

\* A handler between RLock and RUnlock is among the readers.
ReadersHold ==
    \A h \in Handlers :
        hpc[h] \in {"check", "callf", "sendf", "panicked", "runlock"} => h \in readers

\* The callback is installed exactly between Lock and the end of WhoIs, and Lock
\* is asked for before that.
CallbackByPC ==
    /\ wpc \in {"broadcast", "loop", "return"} => f = scan
    /\ wpc \in {"idle", "lock"} => f = NoF
    /\ writer <=> wpc = "lock"

\* While it is installed, no handler is in another one.
CallbackIsCurrent ==
    wpc \in {"broadcast", "loop", "return"} =>
        \A h \in Handlers : hpc[h] \in {"callf", "sendf"} => hf[h] = scan

LockInv == ReadersHold /\ CallbackByPC /\ CallbackIsCurrent

LEMMA LockInit == Init => LockInv
BY DEF Init, NewClient, NewSubscriptions, LockInv, ReadersHold, CallbackByPC, CallbackIsCurrent

\* Lock waits for the readers, so that none is in a callback when f is set.
LEMMA LockNext == TypeInv /\ LockInv /\ [Next]_vars => LockInv'
<1> SUFFICES ASSUME TypeInv, LockInv, [Next]_vars PROVE LockInv'
  OBVIOUS
<1> USE DEF TypeInv, TypeOK, LockInv, ReadersHold, CallbackByPC, CallbackIsCurrent
<1>1. ASSUME NEW c \in Calls, NotTheCalls PROVE LockInv'
  BY <1>1 DEF NotTheCalls, subscriptionsVars, handlerVars, scanVars
<1>2. ASSUME NEW h \in Handlers, HandleMessage(h) PROVE LockInv'
  <2> USE <1>2 DEF NotTheHandlers, HandlerAt, HandlerEnds, subscriptionsVars, scanVars
  <2>1. CASE Drop(h)
    BY <2>1 DEF Drop
  <2>2. CASE TakeRLock(h)
    BY <2>2 DEF TakeRLock, RLock
  <2>3. CASE CheckF(h)
    BY <2>3 DEF CheckF
  <2>4. CASE CallF(h)
    BY <2>4 DEF CallF
  <2>5. CASE ReleaseRLock(h)
    BY <2>5 DEF ReleaseRLock, RUnlock
  <2>6. CASE Lookup(h)
    BY <2>6 DEF Lookup
  <2>7. CASE Deliver(h)
    BY <2>7 DEF Deliver
  <2>8. CASE GiveUp(h)
    BY <2>8 DEF GiveUp
  <2> QED
    BY <2>1, <2>2, <2>3, <2>4, <2>5, <2>6, <2>7, <2>8 DEF HandleMessage
<1>3. ASSUME NEW h \in Handlers, NEW m \in Datagrams, Listen(h, m) PROVE LockInv'
  BY <1>3 DEF Listen, HandlerAt, NotTheHandlers, subscriptionsVars, scanVars
<1>4. CASE WhoIsStart
  BY <1>4 DEF WhoIsStart, LockRequest, ScanAt, handlerVars
<1>5. CASE WhoIsSteps
  <2> USE <1>5 DEF ScanAt, subscriptionsVars, handlerVars
  <2>1. CASE WhoIsSubscribe
    BY <2>1 DEF WhoIsSubscribe, Subscribe
  <2>2. CASE WhoIsBroadcast
    BY <2>2 DEF WhoIsBroadcast
  <2>3. ASSUME NEW h \in Handlers, WhoIsReceive(h) PROVE LockInv'
    BY <2>3 DEF WhoIsReceive, HandlerAt
  <2>4. CASE WhoIsTimer
    BY <2>4 DEF WhoIsTimer
  <2>5. CASE WhoIsReturn
    BY <2>5 DEF WhoIsReturn, Unsubscribe
  <2> QED
    BY <2>1, <2>2, <2>3, <2>4, <2>5 DEF WhoIsSteps
<1>6. CASE UNCHANGED vars
  BY <1>6 DEF vars, subscriptionsVars, handlerVars, scanVars
<1> QED
  BY <1>1, <1>2, <1>3, <1>4, <1>5, <1>6 DEF Next, ReadProperty, WriteProperty, Timeout

\* NoOldCallback for any number of handlers and scans: a scan runs in no callback
\* but its own, although the callback is removed without the lock.
THEOREM NoCallbackIsOld == Spec => []NoOldCallback
<1>1. LockInv => NoOldCallback
  BY DEF LockInv, CallbackByPC, CallbackIsCurrent, NoOldCallback
<1> QED
  BY TypeInit, TypeNext, LockInit, LockNext, <1>1, PTL DEF Spec

----------------------------------------------------------------------------
(***************************************************************************)
(* The client implements RequestReply: GetID is Acquire, FreeID is Release, *)
(* the hand-over of an answer is HandAnswer, and everything else stutters. *)
(***************************************************************************)

\* A step hands no answer to a call.
AnswersUntouched == \A d \in Calls : res'[d].of = res[d].of

\* Only Deliver gives a call an answer.
LEMMA AnswerSteps ==
    ASSUME TypeInv, AnswerInv, [Next]_vars
    PROVE  AnswersUntouched \/ \E h \in Handlers : Deliver(h)
<1> USE DEF AnswersUntouched, TypeInv, TypeOK
<1>1. ASSUME NEW c \in Calls, CallSteps(c) PROVE AnswersUntouched
  <2>1. CASE SendFails(c) \/ WaitEnds(c)
    <3>1. res[c] = Nothing
      BY <2>1 DEF SendFails, WaitEnds, CallAt, AnswerInv, NoResultYet
    <3>2. PICK r : r.of = NoTx /\ res' = [res EXCEPT ![c] = r]
      <4>1. CASE SendFails(c)
        BY <4>1 DEF SendFails
      <4>2. CASE WaitEnds(c)
        BY <4>2 DEF WaitEnds
      <4> QED
        BY <2>1, <4>1, <4>2
    <3> QED
      BY <3>1, <3>2 DEF Nothing
  <2> QED
    BY <1>1, <2>1 DEF CallSteps, Invoke, TakeID, Register, Send, Deferred, Cancel
<1>2. ASSUME NEW c \in Calls, Timeout(c) PROVE AnswersUntouched
  BY <1>2 DEF Timeout
<1>3. ASSUME NEW h \in Handlers, HandleMessage(h), ~Deliver(h) PROVE AnswersUntouched
  BY <1>3 DEF HandleMessage, Drop, TakeRLock, CheckF, CallF, ReleaseRLock, Lookup, GiveUp,
              NotTheHandlers, callVars
<1>4. ASSUME NEW h \in Handlers, NEW m \in Datagrams, Listen(h, m) PROVE AnswersUntouched
  BY <1>4 DEF Listen, NotTheHandlers, callVars
<1>5. CASE WhoIsStart \/ WhoIsSteps
  BY <1>5 DEF WhoIsStart, WhoIsSteps, WhoIsSubscribe, WhoIsBroadcast, WhoIsReceive, WhoIsTimer,
              WhoIsReturn, NotTheScan, callVars
<1>6. CASE UNCHANGED vars
  BY <1>6 DEF vars, callVars
<1> QED
  BY <1>1, <1>2, <1>3, <1>4, <1>5, <1>6 DEF Next, ReadProperty, WriteProperty

\* The values that the mapping gives to the variables of RequestReply.
MHolds == { << c, cid[c] >> : c \in { d \in Calls : Holds(d) } }

MHeld == { << c, cid[c] >> : c \in { d \in Calls : Given(d) } }

MAnswered == [c \in Calls |-> res[c].of]

\* A step that leaves IDs and answers alone is a stutter of RequestReply.
LEMMA MappedStutter ==
    ASSUME IDsUntouched
    PROVE  UNCHANGED << MHolds, MHeld >>
BY DEF IDsUntouched, MHolds, MHeld, Given

LEMMA MappedAcquire ==
    ASSUME TypeInv, IDInv, NEW c \in Calls, TakeID(c)
    PROVE  \E id \in InvokeIDs :
             /\ \A d \in Calls : << d, id >> \notin MHolds
             /\ \A j \in InvokeIDs : << c, j >> \notin MHeld
             /\ MHolds' = MHolds \cup {<< c, id >>}
             /\ MHeld' = MHeld \cup {<< c, id >>}
             /\ UNCHANGED MAnswered
<1> USE ConstantFacts DEF TypeInv, TypeOK
<1>1. PICK id \in InvokeIDs : GetID(id) /\ cid' = [cid EXCEPT ![c] = id]
  BY DEF TakeID
<1>2. /\ cpc[c] = "getid" /\ cpc' = [cpc EXCEPT ![c] = "set"]
      /\ cid[c] = NoID
      /\ res' = res
  BY DEF TakeID, CallAt, GivenByPC
<1>3. /\ ~Holds(c) /\ Holds(c)' /\ ~Given(c) /\ Given(c)' /\ cid'[c] = id
      /\ \A d \in Calls \ {c} : /\ Holds(d)' <=> Holds(d)
                                /\ Given(d)' <=> Given(d)
                                /\ cid'[d] = cid[d]
  BY <1>1, <1>2 DEF Holds, Given
<1>4. id \in PoolIDs
  BY <1>1 DEF GetID, PoolIDs
<1>5. \A d \in Calls : << d, id >> \notin MHolds
  BY <1>4 DEF MHolds, IDInv, IDsConserved
<1>6. \A j \in InvokeIDs : << c, j >> \notin MHeld
  BY <1>2 DEF MHeld, Given
<1>7. MHolds' = MHolds \cup {<< c, id >>}
  BY <1>3 DEF MHolds
<1>8. MHeld' = MHeld \cup {<< c, id >>}
  BY <1>3 DEF MHeld
<1>9. UNCHANGED MAnswered
  BY <1>2 DEF MAnswered
<1> QED
  BY <1>5, <1>6, <1>7, <1>8, <1>9

LEMMA MappedRelease ==
    ASSUME TypeInv, IDInv, NEW c \in Calls, GiveBack(c)
    PROVE  \E id \in InvokeIDs :
             /\ << c, id >> \in MHolds
             /\ MHolds' = MHolds \ {<< c, id >>}
             /\ UNCHANGED << MHeld, MAnswered >>
<1> USE ConstantFacts DEF TypeInv, TypeOK
<1>1. /\ cpc[c] = "free" /\ cpc' = [cpc EXCEPT ![c] = "cancel"]
      /\ cid' = cid /\ res' = res
  BY DEF GiveBack, CallAt
<1>2. /\ Holds(c) /\ ~Holds(c)'
      /\ \A d \in Calls \ {c} : Holds(d)' <=> Holds(d)
  BY <1>1 DEF Holds
<1>3. cid[c] \in InvokeIDs /\ << c, cid[c] >> \in MHolds
  BY <1>2 DEF MHolds, IDInv, IDsConserved
<1>4. MHolds' = MHolds \ {<< c, cid[c] >>}
  BY <1>1, <1>2 DEF MHolds
<1>5. UNCHANGED << MHeld, MAnswered >>
  BY <1>1 DEF MHeld, MAnswered, Given
<1> QED
  BY <1>3, <1>4, <1>5

LEMMA MappedHandAnswer ==
    ASSUME TypeInv, IDInv, AnswerInv, NEW h \in Handlers, Deliver(h)
    PROVE  \E c \in Calls, q \in Calls, id \in InvokeIDs :
             /\ << c, id >> \in MHolds
             /\ << q, id >> \in MHeld
             /\ MAnswered[c] = NoTx
             /\ MAnswered' = [MAnswered EXCEPT ![c] = q]
             /\ UNCHANGED << MHolds, MHeld >>
<1> USE ConstantFacts DEF TypeInv, TypeOK
<1> DEFINE c == htx[h]
<1> DEFINE q == hmsg[h].of
<1>1. /\ hpc[h] = "deliver"
      /\ cpc[c] = "wait" /\ cpc' = [cpc EXCEPT ![c] = "stop"]
      /\ res' = [res EXCEPT ![c] = Answer(c, hmsg[h])]
      /\ cid' = cid
  BY DEF Deliver, HandlerEnds, HandlerAt, CallAt
<1>2. c \in Calls /\ Holds(c)
  BY <1>1 DEF DeliverHasTx, Holds
<1>3. q \in Calls /\ q \in sent /\ cid[q] = cid[c]
  BY <1>1 DEF OnlyRepliesLookedUp, ReplyCarriesID, AnswerInv, OfferedUnderID
<1>4. cid[c] \in InvokeIDs /\ << c, cid[c] >> \in MHolds
  BY <1>2 DEF MHolds, IDInv, IDsConserved
<1>5. << q, cid[c] >> \in MHeld
  BY <1>3, <1>4 DEF MHeld, Given
<1>6. MAnswered[c] = NoTx
  BY <1>1, <1>2 DEF MAnswered, AnswerInv, NoResultYet, Nothing
<1>7. MAnswered' = [MAnswered EXCEPT ![c] = q]
  BY <1>1, <1>2, AnswerOf DEF MAnswered
<1>8. \A d \in Calls : Holds(d)' <=> Holds(d)
  BY <1>1, <1>2 DEF Holds
<1>9. UNCHANGED << MHolds, MHeld >>
  BY <1>1, <1>8 DEF MHolds, MHeld, Given
<1> QED
  BY <1>2, <1>3, <1>4, <1>5, <1>6, <1>7, <1>9

\* ImplementsRequestReply for any number of IDs, calls and handlers.
THEOREM ClientImplementsRequestReply == Spec => ImplementsRequestReply
<1> USE DEF MHolds, MHeld, MAnswered
<1>1. Init => RR!Init
  BY DEF Init, NewClient, RR!Init, Holds, Given, Nothing
<1>2. TypeInv /\ IDInv /\ AnswerInv /\ [Next]_vars => [RR!Next]_(RR!vars)
  <2> SUFFICES ASSUME TypeInv, IDInv, AnswerInv, [Next]_vars PROVE [RR!Next]_(RR!vars)
    OBVIOUS
  <2>1. ASSUME NEW c \in Calls, TakeID(c) PROVE RR!Next
    BY <2>1, MappedAcquire DEF RR!Next, RR!Acquire
  <2>2. ASSUME NEW c \in Calls, GiveBack(c) PROVE RR!Next
    BY <2>2, MappedRelease DEF RR!Next, RR!Release
  <2>3. ASSUME NEW h \in Handlers, Deliver(h) PROVE RR!Next
    BY <2>3, MappedHandAnswer DEF RR!Next, RR!HandAnswer
  <2>4. CASE IDsUntouched /\ AnswersUntouched
    <3>1. UNCHANGED MAnswered
      BY <2>4 DEF AnswersUntouched
    <3> QED
      BY <2>4, <3>1, MappedStutter DEF RR!vars
  <2> QED
    BY <2>1, <2>2, <2>3, <2>4, StepKinds, AnswerSteps
<1> QED
  BY TypeInit, TypeNext, IDInit, IDNext, CurrentsInit, CurrentsNext, AnswerInit, AnswerNext,
     <1>1, <1>2, PTL DEF Spec, ImplementsRequestReply, RR!Spec

=============================================================================
