------------------------------- MODULE Client -------------------------------
(***************************************************************************)
(* bacip/client.go: the BACnet/IP client, as the goroutines that share it. *)
(*                                                                         *)
(*   - a call c of ReadProperty or WriteProperty: takes an invoke ID,      *)
(*     registers its channel and context, sends its request, and waits for *)
(*     an answer or for its context;                                       *)
(*   - a handler h: the goroutine that listen starts for one datagram;     *)
(*     it offers the datagram to the callback of an ongoing WhoIs, and, if *)
(*     it is a reply, to the call registered under its invoke ID;          *)
(*   - the goroutine that runs WhoIs, one scan after the other.            *)
(*                                                                         *)
(* A call is made once: its name also stands for its channel, its context  *)
(* and the request it sends.  Handlers are goroutine slots, free again     *)
(* when the goroutine ends.                                                *)
(*                                                                         *)
(* The network loses, delays, duplicates and reorders: once the request of *)
(* c is sent, a reply to it may arrive at any later time, any number of    *)
(* times, or never.                                                        *)
(***************************************************************************)
EXTENDS Transactions, Subscriptions, FiniteSets

CONSTANTS
    Reads, Writes,  \* the calls of ReadProperty and of WriteProperty
    Handlers,       \* slots for the goroutines started by listen
    Devices,        \* instance numbers of the devices that may say I-Am
    Low, High,      \* the range given to WhoIs, NoLimit when it is nil
    MaxScans        \* bound: how many scans are started

Calls == Reads \cup Writes

NoLimit == -1

ASSUME CallsAssumption ==
    /\ IsFiniteSet(Calls)
    /\ Reads \cap Writes = {}
    /\ NoTx \notin Calls

ASSUME ScanAssumption ==
    /\ Devices \subseteq Nat
    /\ NoTx \notin Devices
    /\ Low \in Nat \cup {NoLimit}
    /\ High \in Nat \cup {NoLimit}
    /\ MaxScans \in Nat

VARIABLES
    cpc,        \* where each call is
    cid,        \* the invoke ID each call was given, kept after it is freed
    ctxDone,    \* the calls whose context has expired or was cancelled
    sent,       \* the calls whose request has left
    res,        \* what each call returns
    hpc,        \* where each handler is
    hmsg,       \* the datagram it handles
    htx,        \* the transaction it has looked up
    hf,         \* the callback it has loaded
    wpc,        \* where the goroutine that scans is
    scan,       \* the number of the current or last scan
    found,      \* the devices that the scan has collected
    scanOK      \* the last scan returned without an error

callVars    == << cpc, cid, ctxDone, sent, res >>
handlerVars == << hpc, hmsg, htx, hf >>
scanVars    == << wpc, scan, found, scanOK >>

vars == << transactionsVars, subscriptionsVars,
           callVars, handlerVars, scanVars >>

----------------------------------------------------------------------------
(***************************************************************************)
(* Datagrams, by what the client tells apart.  of is the call whose        *)
(* request a reply answers, which the client cannot see, or the device     *)
(* that announces itself.  A payload that cannot be decoded is still handed *)
(* on, since handleMessage only stops at ErrNotBAcnetIP: the value of a     *)
(* ComplexAck may be nil.                                                  *)
(***************************************************************************)
NoID == -1

NoMsg == [type |-> "none", id |-> NoID, of |-> NoTx]

ReplyTypes == {"ComplexAck", "SimpleAck", "Error"}

ReplyTypesTo(c) == IF c \in Reads THEN {"ComplexAck", "Error"}
                                  ELSE {"SimpleAck", "Error"}

Reply(c, t) == [type |-> t, id |-> cid[c], of |-> c]

\* The replies to the requests sent, their invoke IDs copied by the devices.
Replies == UNION { { Reply(c, t) : t \in ReplyTypesTo(c) } : c \in sent }

\* "Other" is an APDU that is neither I-Am nor one of ReplyTypes (a request of
\* another node, a Reject, an Abort, a segment), "NoAPDU" a network layer
\* message or a packet that breaks off before the APDU.
Announcements == [type : {"IAm"}, id : {NoID}, of : Devices]

Noise == [type : {"Other", "NoAPDU", "NotBACnetIP"}, id : {NoID}, of : {NoTx}]

Datagrams == Replies \cup Announcements \cup Noise

----------------------------------------------------------------------------
(***************************************************************************)
(* What ReadProperty and WriteProperty make of an answer.                  *)
(***************************************************************************)
Nothing == [kind |-> "none", of |-> NoTx]

ReadAnswer(m) ==
    CASE m.type = "Error"      -> [kind |-> "apduError", of |-> m.of]
      [] m.type = "ComplexAck" -> [kind |-> "value", of |-> m.of]
      [] OTHER                 -> [kind |-> "invalidAnswer", of |-> m.of]

WriteAnswer(m) ==
    CASE m.type = "Error"     -> [kind |-> "apduError", of |-> m.of]
      [] m.type = "SimpleAck" -> [kind |-> "written", of |-> m.of]
      [] OTHER                -> [kind |-> "invalidAnswer", of |-> m.of]

Answer(c, m) == IF c \in Reads THEN ReadAnswer(m) ELSE WriteAnswer(m)

----------------------------------------------------------------------------

NewClient ==
    /\ NewTransactions
    /\ NewSubscriptions
    /\ cpc = [c \in Calls |-> "idle"]
    /\ cid = [c \in Calls |-> NoID]
    /\ ctxDone = {}
    /\ sent = {}
    /\ res = [c \in Calls |-> Nothing]
    /\ hpc = [h \in Handlers |-> "idle"]
    /\ hmsg = [h \in Handlers |-> NoMsg]
    /\ htx = [h \in Handlers |-> NoTx]
    /\ hf = [h \in Handlers |-> NoF]
    /\ wpc = "idle"
    /\ scan = 0
    /\ found = {}
    /\ scanOK = TRUE

Init == NewClient

(***************************************************************************)
(* The steps of a call.  They touch neither the subscriptions nor, except  *)
(* where an answer is handed over, a handler.                              *)
(***************************************************************************)
CallAt(c, from, to) ==
    /\ cpc[c] = from
    /\ cpc' = [cpc EXCEPT ![c] = to]

NotTheCalls == UNCHANGED << subscriptionsVars, handlerVars, scanVars >>

\* readValue or writeValue makes the context and calls the client.
Invoke(c) ==
    /\ CallAt(c, "idle", "getid")
    /\ UNCHANGED << transactionsVars, cid, ctxDone, sent, res >>

TakeID(c) ==
    /\ CallAt(c, "getid", "set")
    /\ \E id \in InvokeIDs : GetID(id) /\ cid' = [cid EXCEPT ![c] = id]
    /\ UNCHANGED << currents, ctxDone, sent, res >>

Register(c) ==
    /\ CallAt(c, "set", "send")
    /\ SetTransaction(cid[c], c)
    /\ UNCHANGED << freeInvokeID, cid, ctxDone, sent, res >>

Send(c) ==
    /\ CallAt(c, "send", "wait")
    /\ sent' = sent \cup {c}
    /\ UNCHANGED << transactionsVars, cid, ctxDone, res >>

\* Mutant: the error path frees the ID that the defer frees again.
SendFailsFrees(c) ==
    /\ CallAt(c, "send", "stop")
    /\ FreeID(cid[c])
    /\ res' = [res EXCEPT ![c] = [kind |-> "sendError", of |-> NoTx]]
    /\ UNCHANGED << currents, cid, ctxDone, sent >>

\* The request cannot be encoded, or WriteToUDP fails.
SendFails(c) ==
    /\ CallAt(c, "send", "stop")
    /\ res' = [res EXCEPT ![c] = [kind |-> "sendError", of |-> NoTx]]
    /\ UNCHANGED << transactionsVars, cid, ctxDone, sent >>

WaitEnds(c) ==
    /\ c \in ctxDone
    /\ CallAt(c, "wait", "stop")
    /\ res' = [res EXCEPT ![c] = [kind |-> "ctxError", of |-> NoTx]]
    /\ UNCHANGED << transactionsVars, cid, ctxDone, sent >>

\* Mutant: the defers written in the other order.
DeferredSwapped(c) ==
    /\ \/ CallAt(c, "stop", "free") /\ FreeID(cid[c]) /\ UNCHANGED currents
       \/ CallAt(c, "free", "cancel") /\ StopTransaction(cid[c]) /\ UNCHANGED freeInvokeID
    /\ UNCHANGED << cid, ctxDone, sent, res >>

\* Mutant: a return before the ID is given back.
DeferredNoFree(c) ==
    /\ \/ CallAt(c, "stop", "cancel") /\ StopTransaction(cid[c]) /\ UNCHANGED freeInvokeID
       \/ CallAt(c, "free", "cancel") /\ FreeID(cid[c]) /\ UNCHANGED currents
    /\ UNCHANGED << cid, ctxDone, sent, res >>

\* The defers of the call, last one first.
Deferred(c) ==
    /\ \/ CallAt(c, "stop", "free") /\ StopTransaction(cid[c]) /\ UNCHANGED freeInvokeID
       \/ CallAt(c, "free", "cancel") /\ FreeID(cid[c]) /\ UNCHANGED currents
    /\ UNCHANGED << cid, ctxDone, sent, res >>

\* The deferred cancel() of readValue or writeValue.
Cancel(c) ==
    /\ CallAt(c, "cancel", "done")
    /\ ctxDone' = ctxDone \cup {c}
    /\ UNCHANGED << transactionsVars, cid, sent, res >>

CallSteps(c) ==
    \/ Invoke(c)
    \/ TakeID(c)
    \/ Register(c)
    \/ Send(c)
    \/ SendFails(c)
    \/ WaitEnds(c)
    \/ Deferred(c)
    \/ Cancel(c)

ReadProperty(c)  == c \in Reads  /\ CallSteps(c) /\ NotTheCalls

WriteProperty(c) == c \in Writes /\ CallSteps(c) /\ NotTheCalls

\* The timer of the context, at any point of the call.
Timeout(c) ==
    /\ cpc[c] \notin {"idle", "done"}
    /\ c \notin ctxDone
    /\ ctxDone' = ctxDone \cup {c}
    /\ UNCHANGED << transactionsVars, cpc, cid, sent, res >>
    /\ NotTheCalls

----------------------------------------------------------------------------
(***************************************************************************)
(* The steps of a handler.                                                 *)
(***************************************************************************)
HandlerAt(h, from, to) ==
    /\ hpc[h] = from
    /\ hpc' = [hpc EXCEPT ![h] = to]

\* The goroutine of the handler ends.
HandlerEnds(h, from) ==
    /\ HandlerAt(h, from, "idle")
    /\ hmsg' = [hmsg EXCEPT ![h] = NoMsg]
    /\ htx' = [htx EXCEPT ![h] = NoTx]
    /\ hf' = [hf EXCEPT ![h] = NoF]

NotTheHandlers == UNCHANGED << transactionsVars, callVars, scanVars >>

\* listen has read a datagram and starts a goroutine for it.
Listen(h, m) ==
    /\ HandlerAt(h, "idle", "handle")
    /\ hmsg' = [hmsg EXCEPT ![h] = m]
    /\ UNCHANGED << htx, hf, subscriptionsVars >>
    /\ NotTheHandlers

Drop(h) ==
    /\ hmsg[h].type \in {"NoAPDU", "NotBACnetIP"}
    /\ HandlerEnds(h, "handle")
    /\ UNCHANGED subscriptionsVars
    /\ NotTheHandlers

TakeRLock(h) ==
    /\ hmsg[h].type \notin {"NoAPDU", "NotBACnetIP"}
    /\ HandlerAt(h, "handle", "check")
    /\ RLock(h)
    /\ UNCHANGED << hmsg, htx, hf >>
    /\ NotTheHandlers

\* if c.subscriptions.f != nil
CheckF(h) ==
    /\ HandlerAt(h, "check", IF f = NoF THEN "runlock" ELSE "callf")
    /\ hf' = [hf EXCEPT ![h] = f]
    /\ UNCHANGED << hmsg, htx, subscriptionsVars >>
    /\ NotTheHandlers

\* The call c.subscriptions.f(...): the end of WhoIs writes f without the
\* lock, so the build may use the value it tested or load f once more.  A call
\* through nil panics; listen recovers, and the read lock is never released.
CallF(h) ==
    /\ \E g \in {hf[h], f} :
          /\ HandlerAt(h, "callf", IF g = NoF THEN "panicked" ELSE "sendf")
          /\ hf' = [hf EXCEPT ![h] = g]
    /\ UNCHANGED << hmsg, htx, subscriptionsVars >>
    /\ NotTheHandlers

ReleaseRLock(h) ==
    /\ RUnlock(h)
    /\ \/ /\ hmsg[h].type \in ReplyTypes
          /\ HandlerAt(h, "runlock", "lookup")
          /\ UNCHANGED << hmsg, htx, hf >>
       \/ /\ hmsg[h].type \notin ReplyTypes
          /\ HandlerEnds(h, "runlock")
    /\ NotTheHandlers

Lookup(h) ==
    /\ hpc[h] = "lookup"
    /\ LET tx == GetTransaction(hmsg[h].id) IN
          \/ /\ tx = NoTx
             /\ HandlerEnds(h, "lookup")
          \/ /\ tx # NoTx
             /\ HandlerAt(h, "lookup", "deliver")
             /\ htx' = [htx EXCEPT ![h] = tx]
             /\ UNCHANGED << hmsg, hf >>
    /\ UNCHANGED subscriptionsVars
    /\ NotTheHandlers

\* case tx.APDU <- *apdu, with the receive in the select of the call.
Deliver(h) ==
    /\ HandlerEnds(h, "deliver")
    /\ LET c == htx[h] IN
          /\ CallAt(c, "wait", "stop")
          /\ res' = [res EXCEPT ![c] = Answer(c, hmsg[h])]
    /\ UNCHANGED << cid, ctxDone, sent, transactionsVars, subscriptionsVars, scanVars >>

\* Mutant: the send is not in a select with the context of the transaction.
NoGiveUp(h) == FALSE /\ UNCHANGED vars

\* case <-tx.Ctx.Done()
GiveUp(h) ==
    /\ htx[h] \in ctxDone
    /\ HandlerEnds(h, "deliver")
    /\ UNCHANGED subscriptionsVars
    /\ NotTheHandlers

HandleMessage(h) ==
    \/ Drop(h)
    \/ TakeRLock(h)
    \/ CheckF(h)
    \/ CallF(h)
    \/ ReleaseRLock(h)
    \/ Lookup(h)
    \/ Deliver(h)
    \/ GiveUp(h)

----------------------------------------------------------------------------
(***************************************************************************)
(* WhoIs.                                                                  *)
(***************************************************************************)
ScanAt(from, to) == wpc = from /\ wpc' = to

NotTheScan == UNCHANGED << transactionsVars, callVars >>

WhoIsStart ==
    /\ scan < MaxScans
    /\ ScanAt("idle", "lock")
    /\ LockRequest
    /\ scan' = scan + 1
    /\ UNCHANGED << found, scanOK, handlerVars >>
    /\ NotTheScan

WhoIsSubscribe ==
    /\ ScanAt("lock", "broadcast")
    /\ Subscribe(scan)
    /\ UNCHANGED << scan, found, scanOK, handlerVars >>
    /\ NotTheScan

WhoIsBroadcast ==
    /\ \/ /\ ScanAt("broadcast", "loop")
          /\ scanOK' = TRUE
          /\ found' = {}
       \/ /\ ScanAt("broadcast", "return")
          /\ scanOK' = FALSE
          /\ UNCHANGED found
    /\ UNCHANGED << scan, subscriptionsVars, handlerVars >>
    /\ NotTheScan

InRange(d) == Low # NoLimit /\ High # NoLimit => Low <= d /\ d <= High

\* rChan <- ... in the callback of scan hf[h], with the receive in the loop.
WhoIsReceive(h) ==
    LET m == hmsg[h] IN
    /\ wpc = "loop"
    /\ hf[h] = scan
    /\ HandlerAt(h, "sendf", "runlock")
    /\ found' = IF m.type = "IAm" /\ InRange(m.of) THEN found \cup {m.of} ELSE found
    /\ UNCHANGED << wpc, scan, scanOK, hmsg, htx, hf, subscriptionsVars >>
    /\ NotTheScan

\* Mutant: the loop without the case of the timer.
NoWhoIsTimer == FALSE /\ UNCHANGED vars

WhoIsTimer ==
    /\ ScanAt("loop", "return")
    /\ UNCHANGED << scan, found, scanOK, subscriptionsVars, handlerVars >>
    /\ NotTheScan

WhoIsReturn ==
    /\ ScanAt("return", "idle")
    /\ Unsubscribe
    /\ UNCHANGED << scan, found, scanOK, handlerVars >>
    /\ NotTheScan

WhoIsSteps ==
    \/ WhoIsSubscribe
    \/ WhoIsBroadcast
    \/ \E h \in Handlers : WhoIsReceive(h)
    \/ WhoIsTimer
    \/ WhoIsReturn

----------------------------------------------------------------------------

Next ==
    \/ \E c \in Calls : ReadProperty(c) \/ WriteProperty(c) \/ Timeout(c)
    \/ \E h \in Handlers : HandleMessage(h) \/ \E m \in Datagrams : Listen(h, m)
    \/ WhoIsStart
    \/ WhoIsSteps

Spec == Init /\ [][Next]_vars

(***************************************************************************)
(* Goroutines that can run do run, and timers fire.  Nothing is assumed of *)
(* the network, nor that anyone starts a call or a scan.                   *)
(***************************************************************************)
CallFairness(c) ==
    /\ WF_vars((ReadProperty(c) \/ WriteProperty(c)) /\ cpc[c] # "idle")
    /\ WF_vars(Timeout(c))

Fairness ==
    /\ \A c \in Calls : CallFairness(c)
    /\ \A h \in Handlers : WF_vars(HandleMessage(h))
    /\ WF_vars(WhoIsSubscribe)
    /\ WF_vars(WhoIsBroadcast)
    /\ WF_vars(WhoIsTimer)
    /\ WF_vars(WhoIsReturn)

FairSpec == Spec /\ Fairness

----------------------------------------------------------------------------
(***************************************************************************)
(* Properties.                                                             *)
(***************************************************************************)
CallPCs == {"idle", "getid", "set", "send", "wait", "stop", "free", "cancel", "done"}

HandlerPCs == {"idle", "handle", "check", "callf", "sendf", "panicked", "runlock",
               "lookup", "deliver"}

ScanPCs == {"idle", "lock", "broadcast", "loop", "return"}

MsgTypes == ReplyTypes \cup {"none", "IAm", "Other", "NoAPDU", "NotBACnetIP"}

Messages == [type : MsgTypes, id : InvokeIDs \cup {NoID},
             of : Calls \cup Devices \cup {NoTx}]

Results == [kind : {"none", "value", "written", "apduError",
                    "invalidAnswer", "sendError", "ctxError"},
            of : Calls \cup {NoTx}]

\* The type of every variable of the client.
TypeOK ==
    /\ freeInvokeID \in Seq(InvokeIDs)
    /\ currents \in [InvokeIDs -> Calls \cup {NoTx}]
    /\ f \in 0 .. MaxScans
    /\ readers \subseteq Handlers
    /\ writer \in BOOLEAN
    /\ cpc \in [Calls -> CallPCs]
    /\ cid \in [Calls -> InvokeIDs \cup {NoID}]
    /\ ctxDone \subseteq Calls
    /\ sent \subseteq Calls
    /\ res \in [Calls -> Results]
    /\ hpc \in [Handlers -> HandlerPCs]
    /\ hmsg \in [Handlers -> Messages]
    /\ htx \in [Handlers -> Calls \cup {NoTx}]
    /\ hf \in [Handlers -> 0 .. MaxScans]
    /\ wpc \in ScanPCs
    /\ scan \in 0 .. MaxScans
    /\ found \subseteq Devices
    /\ scanOK \in BOOLEAN

\* c has received an ID and not yet put it back.
Holds(c) == cpc[c] \in {"set", "send", "wait", "stop", "free"}

\* The invoke IDs are conserved over every way out of ReadProperty and
\* WriteProperty (send failure, answer, context): each one is either in the
\* pool, once, or with exactly one call.
IDsConserved ==
    /\ \A i, j \in 1 .. Len(freeInvokeID) : freeInvokeID[i] = freeInvokeID[j] => i = j
    /\ \A c, d \in Calls : Holds(c) /\ Holds(d) /\ cid[c] = cid[d] => c = d
    /\ \A c \in Calls : Holds(c) => cid[c] \in InvokeIDs \ PoolIDs
    /\ \A id \in InvokeIDs \ PoolIDs : \E c \in Calls : Holds(c) /\ cid[c] = id

\* A channel of 256 slots "should be able to handle all possible values": the
\* send in FreeID, a deferred call, always finds a slot.
FreeIDNeverBlocks ==
    \A c \in Calls : cpc[c] = "free" => Len(freeInvokeID) < NumIDs

\* The table holds exactly the calls between SetTransaction and
\* StopTransaction, each under its own ID: no entry leaks, and no call waits
\* without being reachable because a call that used the ID before it, or one
\* that uses it after, removed or replaced its entry.
CurrentsExact ==
    \A c \in Calls, id \in InvokeIDs :
        currents[id] = c <=> cid[c] = id /\ cpc[c] \in {"send", "wait", "stop"}

\* Late and duplicated replies go astray only once the IDs have wrapped around:
\* as long as no more than NumIDs calls have been given an ID, what a call
\* returns was sent in answer to its own request.
OwnAnswerBeforeWrap ==
    Cardinality({c \in Calls : cid[c] # NoID}) <= NumIDs
        => \A c \in Calls : res[c].of \in {c, NoTx}

\* Lock in WhoIs waits for the handlers that are inside f: while a scan runs,
\* no handler is still in the callback of an earlier one.
NoOldCallback ==
    wpc \in {"broadcast", "loop"} =>
        /\ f = scan
        /\ \A h \in Handlers : hpc[h] \in {"callf", "sendf"} => hf[h] = scan

\* A handler that has found a transaction is not left behind when the call is
\* no longer there to receive: the context of the transaction releases it.
HandlerReleased == \A h \in Handlers : hpc[h] = "deliver" ~> hpc[h] = "idle"

\* "Todo: ensure response validity": a read that returns a value returns the
\* one that was sent in answer to its own request.
ReadReturnsOwnValue ==
    \A c \in Reads : res[c].kind = "value" => res[c].of = c

----------------------------------------------------------------------------
(***************************************************************************)
(* The client implements RequestReply.                                     *)
(***************************************************************************)
Given(c) == cid[c] # NoID

RR == INSTANCE RequestReply WITH
        Calls    <- Calls,
        IDs      <- InvokeIDs,
        Nobody   <- NoTx,
        holds    <- { << c, cid[c] >> : c \in { d \in Calls : Holds(d) } },
        held     <- { << c, cid[c] >> : c \in { d \in Calls : Given(d) } },
        answered <- [c \in Calls |-> res[c].of]

\* ReadProperty and WriteProperty keep the promise of RequestReply: exclusive
\* IDs, at most one answer per call, and no answer to a request that went out
\* under another ID, however the handlers interleave with the calls.
ImplementsRequestReply == RR!Spec

=============================================================================
