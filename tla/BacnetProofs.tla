---------------------------- MODULE BacnetProofs ----------------------------
(***************************************************************************)
(* Proofs about module Bacnet: the start of the driver is one of the ways  *)
(* to use the client, and calls never run beside its scans.                *)
(***************************************************************************)
EXTENDS Bacnet, ClientProofs

----------------------------------------------------------------------------

LEMMA BacnetStepOfClient == [BacnetNext]_bacnetVars => [Next]_vars
<1> SUFFICES ASSUME [BacnetNext]_bacnetVars PROVE [Next]_vars
  OBVIOUS
<1>1. CASE SkipUnknown
  BY <1>1 DEF SkipUnknown
<1>2. CASE NewSlave
  BY <1>2 DEF NewSlave, OpenClient, FromCache, Scan, AfterScan, Next
<1>3. CASE Serve
  BY <1>3 DEF Serve
<1>4. ASSUME NEW c \in Calls, Call(c) PROVE Next
  BY <1>4 DEF Call, Next
<1>5. ASSUME NEW h \in Handlers, Receive(h) \/ Handle(h) PROVE Next
  BY <1>5 DEF Receive, Handle, Next
<1>6. CASE WhoIsStep
  BY <1>6 DEF WhoIsStep, Next
<1>7. CASE UNCHANGED bacnetVars
  BY <1>7 DEF bacnetVars
<1> QED
  BY <1>1, <1>2, <1>3, <1>4, <1>5, <1>6, <1>7 DEF BacnetNext

\* NewBacnet and what it starts keep to module Client: each theorem about the
\* client is one about the driver.
THEOREM BacnetImplementsClient == BacnetSpec => Spec
<1>1. BacnetInit => Init
  BY DEF BacnetInit
<1> QED
  BY <1>1, BacnetStepOfClient, PTL DEF BacnetSpec, Spec

\* NoOldCallback, for any slaves.
THEOREM BacnetNoOldCallback == BacnetSpec => []NoOldCallback
BY BacnetImplementsClient, NoCallbackIsOld, PTL

----------------------------------------------------------------------------
(***************************************************************************)
(* Scans belong to the loop of NewBacnet, calls to what comes after it.    *)
(***************************************************************************)
ScansInLoop == wpc # "idle" => bpc = "whois"

CallsWhenServing == \A c \in Calls : cpc[c] # "idle" => bpc = "serving"

StartInv == ScansInLoop /\ CallsWhenServing

LEMMA StartInit == BacnetInit => StartInv
BY DEF BacnetInit, Init, NewClient, StartInv, ScansInLoop, CallsWhenServing

\* Only NewSlave scans, and only before NewBacnet serves.
LEMMA StartNext == TypeInv /\ StartInv /\ [BacnetNext]_bacnetVars => StartInv'
<1> SUFFICES ASSUME TypeInv, StartInv, [BacnetNext]_bacnetVars PROVE StartInv'
  OBVIOUS
<1> USE DEF StartInv, ScansInLoop, CallsWhenServing
<1>1. CASE SkipUnknown \/ OpenClient \/ FromCache
  BY <1>1 DEF SkipUnknown, OpenClient, FromCache, AtSlave, vars, callVars, scanVars
<1>2. CASE Scan
  BY <1>2 DEF Scan, AtSlave, WhoIsStart, ScanAt, NotTheScan, callVars
<1>3. CASE AfterScan
  BY <1>3 DEF AfterScan, vars, callVars, scanVars
<1>4. CASE Serve
  BY <1>4 DEF Serve, vars, callVars, scanVars
<1>5. ASSUME NEW c \in Calls, Call(c) PROVE StartInv'
  <2>1. bpc = "serving" /\ bpc' = bpc
    BY <1>5 DEF Call, Serving, startVars
  <2>2. wpc' = wpc
    BY <1>5 DEF Call, ReadProperty, WriteProperty, Timeout, NotTheCalls, scanVars
  <2> QED
    BY <2>1, <2>2
<1>6. ASSUME NEW h \in Handlers, Receive(h) \/ Handle(h) PROVE StartInv'
  <2>1. bpc' = bpc /\ wpc' = wpc
    BY <1>6 DEF Receive, Listen, Handle, HandleMessage, Drop, TakeRLock, CheckF, CallF, ReleaseRLock,
                Lookup, Deliver, GiveUp, NotTheHandlers, scanVars, startVars
  <2>2. ASSUME NEW c \in Calls, cpc'[c] # "idle" PROVE cpc[c] # "idle"
    <3>1. CASE \E m \in Datagrams : Listen(h, m)
      BY <2>2, <3>1 DEF Listen, NotTheHandlers, callVars
    <3>2. CASE HandleMessage(h) /\ ~Deliver(h)
      BY <2>2, <3>2 DEF HandleMessage, Drop, TakeRLock, CheckF, CallF, ReleaseRLock, Lookup, GiveUp,
                        NotTheHandlers, callVars
    <3>3. CASE Deliver(h)
      BY <2>2, <3>3 DEF Deliver, CallAt, TypeInv, TypeOK
    <3> QED
      BY <1>6, <3>1, <3>2, <3>3 DEF Receive, Handle
  <2> QED
    BY <2>1, <2>2
<1>7. CASE WhoIsStep
  <2>1. wpc # "idle" /\ bpc' = bpc
    BY <1>7 DEF WhoIsStep, WhoIsSteps, WhoIsSubscribe, WhoIsBroadcast, WhoIsReceive, WhoIsTimer,
                WhoIsReturn, ScanAt, startVars
  <2>2. cpc' = cpc
    BY <1>7 DEF WhoIsStep, WhoIsSteps, WhoIsSubscribe, WhoIsBroadcast, WhoIsReceive, WhoIsTimer,
                WhoIsReturn, NotTheScan, callVars
  <2> QED
    BY <2>1, <2>2
<1>8. CASE UNCHANGED bacnetVars
  BY <1>8 DEF bacnetVars, startVars, vars, callVars, scanVars
<1> QED
  BY <1>1, <1>2, <1>3, <1>4, <1>5, <1>6, <1>7, <1>8 DEF BacnetNext, NewSlave

\* CallsAfterScans for any slaves, calls and handlers: no read or write runs
\* beside a scan, or finds the callback of one.
THEOREM CallsComeAfterScans == BacnetSpec => []CallsAfterScans
<1>1. BacnetInit => Init
  BY DEF BacnetInit
<1>2. StartInv /\ LockInv => CallsAfterScans
  BY DEF StartInv, ScansInLoop, CallsWhenServing, LockInv, CallbackByPC, CallsAfterScans
<1> QED
  BY <1>1, <1>2, TypeInit, TypeNext, LockInit, LockNext, StartInit, StartNext,
     BacnetStepOfClient, PTL DEF BacnetSpec

----------------------------------------------------------------------------
(***************************************************************************)
(* The loop of NewBacnet.                                                  *)
(***************************************************************************)
LEMMA CfgsFacts == Len(SlaveCfgs) \in Nat
<1>1. Len(DeviceInfos) \in Nat
  BY SlaveAssumption
<1>2. IsFiniteSet(1 .. Len(DeviceInfos))
  BY <1>1, FS_Interval
<1>3. IsFiniteSet(Configured)
  BY <1>2, FS_Subset DEF Configured
<1>4. Cardinality(Configured) \in Nat
  BY <1>3, FS_CardinalityType
<1> QED
  BY <1>4 DEF SlaveCfgs

LoopInv ==
    /\ bpc \in {"loop", "whois", "serving"}
    /\ next \in 1 .. Len(SlaveCfgs) + 1
    /\ opened \in BOOLEAN
    /\ devices \subseteq Devices
    /\ slaves \subseteq Infos

\* A scan is on behalf of a slave that the device context knows.
ScanForSlave == bpc = "whois" => next <= Len(SlaveCfgs) /\ Cfg.device \in Infos

LEMMA LoopInit == BacnetInit => LoopInv /\ ScanForSlave
<1> SUFFICES ASSUME BacnetInit PROVE LoopInv /\ ScanForSlave
  OBVIOUS
<1>1. bpc = "loop" /\ next = 1 /\ opened = FALSE /\ devices = {} /\ slaves = {}
  BY DEF BacnetInit
<1>2. next \in 1 .. Len(SlaveCfgs) + 1
  BY <1>1, CfgsFacts
<1> QED
  BY <1>1, <1>2 DEF LoopInv, ScanForSlave

LEMMA LoopNext ==
    TypeInv /\ LoopInv /\ ScanForSlave /\ [BacnetNext]_bacnetVars => LoopInv' /\ ScanForSlave'
<1> SUFFICES ASSUME TypeInv, LoopInv, ScanForSlave, [BacnetNext]_bacnetVars
             PROVE  LoopInv' /\ ScanForSlave'
  OBVIOUS
<1> USE CfgsFacts DEF LoopInv, ScanForSlave
<1>1. CASE SkipUnknown
  <2>1. /\ bpc = "loop" /\ bpc' = bpc /\ next <= Len(SlaveCfgs) /\ next' = next + 1
        /\ opened' = opened /\ devices' = devices /\ slaves' = slaves
    BY <1>1 DEF SkipUnknown, NextSlave
  <2> QED
    BY <2>1
<1>2. CASE OpenClient
  <2>1. /\ bpc = "loop" /\ bpc' = bpc /\ next <= Len(SlaveCfgs)
        /\ devices' = devices /\ slaves' = slaves
    BY <1>2 DEF OpenClient, AtSlave
  <2>2. opened' \in BOOLEAN /\ (next' = next \/ next' = next + 1)
    BY <1>2 DEF OpenClient, NextSlave
  <2> QED
    BY <2>1, <2>2
<1>3. CASE FromCache
  BY <1>3 DEF FromCache, AtSlave, NextSlave, GenerateSlave
<1>4. CASE Scan
  BY <1>4 DEF Scan, AtSlave, Cfg
<1>5. CASE AfterScan
  BY <1>5 DEF AfterScan, NextSlave, GenerateSlave, TypeInv, TypeOK
<1>6. CASE Serve
  BY <1>6 DEF Serve
<1>7. CASE UNCHANGED startVars
  BY <1>7 DEF startVars, Cfg
<1> QED
  BY <1>1, <1>2, <1>3, <1>4, <1>5, <1>6, <1>7
     DEF BacnetNext, NewSlave, Call, Receive, Handle, WhoIsStep, bacnetVars

\* BacnetTypeOK for any devices and slaves: the loop of NewBacnet stays within
\* cfg.Slaves, every slave it creates, also the one after whose scan it does, is
\* one that the device context knows, and it keeps no device that none announced.
THEOREM BacnetTypes == BacnetSpec => []BacnetTypeOK
<1>1. BacnetInit => Init
  BY DEF BacnetInit
<1>2. TypeInv /\ LoopInv => BacnetTypeOK
  BY DEF TypeInv, LoopInv, BacnetTypeOK
<1> QED
  BY <1>1, <1>2, TypeInit, TypeNext, LoopInit, LoopNext, BacnetStepOfClient, PTL DEF BacnetSpec

=============================================================================
