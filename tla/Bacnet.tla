------------------------------- MODULE Bacnet -------------------------------
(***************************************************************************)
(* baetyl-bacnet/bacnet.go and slave.go: the start of the driver.          *)
(* genConfig (main.go) makes a slave of every device that has an access    *)
(* configuration; NewBacnet creates them one after the other; NewSlave     *)
(* opens the one client they share, and looks for the slave's device among *)
(* the devices of the last scan, scanning again when it is not there.      *)
(* Workers and callbacks, hence reads and writes, come after the last      *)
(* slave.                                                                  *)
(*                                                                         *)
(* The client is the one of module Client, with its handlers running from  *)
(* the moment it is open, WhoIs called by NewSlave only, and calls made by *)
(* the workers and callbacks only.                                         *)
(***************************************************************************)
EXTENDS Client

CONSTANTS
    DeviceInfos, \* ctx.GetAllDevices() in genConfig: a sequence of
                 \* [name, custom], custom being the instance number in the
                 \* access configuration, or NoCustom
    Infos        \* the names in ctx.GetAllDevices() in NewBacnet, later

NoCustom == -1

HasCustom(info) == info.custom # NoCustom

\* The devices of which genConfig makes slaves, by position, and the i-th of them.
Configured == {i \in 1 .. Len(DeviceInfos) : HasCustom(DeviceInfos[i])}

NthInfo(i) ==
    DeviceInfos[CHOOSE j \in Configured : Cardinality(Configured \cap 1 .. j) = i]

\* cfg.Slaves, of which the driver's own configuration is the same for all.
SlaveCfgs == [i \in 1 .. Cardinality(Configured) |->
                  [device |-> NthInfo(i).name, id |-> NthInfo(i).custom]]

Names == {DeviceInfos[i].name : i \in 1 .. Len(DeviceInfos)}

ASSUME SlaveAssumption ==
    /\ DeviceInfos \in Seq([name : Names, custom : Nat \cup {NoCustom}])
    /\ MaxScans >= Cardinality(Configured)

VARIABLES
    bpc,        \* NewBacnet: at the head of the loop, in WhoIs, or serving
    next,       \* the slave of cfg.Slaves it is at
    opened,     \* bacnetClient # nil
    devices,    \* the instance numbers in the package variable devices
    slaves      \* the names of the slaves created, all of them online

startVars == << bpc, next, opened, devices, slaves >>

bacnetVars == << vars, startVars >>

----------------------------------------------------------------------------

BacnetInit ==
    /\ Init
    /\ bpc = "loop"
    /\ next = 1
    /\ opened = FALSE
    /\ devices = {}
    /\ slaves = {}

Cfg == SlaveCfgs[next]

\* Mutant: the device context is not asked for the device.
AtSlaveUnasked == bpc = "loop" /\ next <= Len(SlaveCfgs)

\* The loop of NewBacnet has a slave to create.
AtSlave ==
    /\ bpc = "loop"
    /\ next <= Len(SlaveCfgs)
    /\ Cfg.device \in Infos

NextSlave == next' = next + 1

\* generateSlave, and what NewBacnet does with its result.
GenerateSlave(devs) ==
    slaves' = IF Cfg.id \in devs THEN slaves \cup {Cfg.device} ELSE slaves

SkipUnknown ==
    /\ bpc = "loop"
    /\ next <= Len(SlaveCfgs)
    /\ Cfg.device \notin Infos
    /\ NextSlave
    /\ UNCHANGED << bpc, opened, devices, slaves, vars >>

OpenClient ==
    /\ AtSlave
    /\ ~opened
    /\ \/ opened' = TRUE /\ UNCHANGED next
       \/ NextSlave /\ UNCHANGED opened
    /\ UNCHANGED << bpc, devices, slaves, vars >>

FromCache ==
    /\ AtSlave
    /\ opened
    /\ Cfg.id \in devices
    /\ GenerateSlave(devices)
    /\ NextSlave
    /\ UNCHANGED << bpc, opened, devices, vars >>

Scan ==
    /\ AtSlave
    /\ opened
    /\ Cfg.id \notin devices
    /\ WhoIsStart
    /\ bpc' = "whois"
    /\ UNCHANGED << next, opened, devices, slaves >>

AfterScan ==
    /\ bpc = "whois"
    /\ wpc = "idle"
    /\ bpc' = "loop"
    /\ NextSlave
    /\ IF scanOK THEN devices' = found /\ GenerateSlave(found)
                 ELSE UNCHANGED << devices, slaves >>
    /\ UNCHANGED << opened, vars >>

NewSlave == OpenClient \/ FromCache \/ Scan \/ AfterScan

\* The end of NewBacnet: the callbacks are registered, the workers started.
Serve ==
    /\ bpc = "loop"
    /\ next > Len(SlaveCfgs)
    /\ bpc' = "serving"
    /\ UNCHANGED << next, opened, devices, slaves, vars >>

\* Mutant: each worker started as soon as its slave exists.
ServingEarly == slaves # {}

\* There are workers and callbacks that can call the client.
Serving == bpc = "serving" /\ slaves # {}

Call(c) ==
    /\ Serving
    /\ ReadProperty(c) \/ WriteProperty(c) \/ Timeout(c)
    /\ UNCHANGED startVars

Receive(h) ==
    /\ opened
    /\ \E m \in Datagrams : Listen(h, m)
    /\ UNCHANGED startVars

Handle(h) == HandleMessage(h) /\ UNCHANGED startVars

WhoIsStep == WhoIsSteps /\ UNCHANGED startVars

BacnetNext ==
    \/ SkipUnknown
    \/ NewSlave
    \/ Serve
    \/ \E c \in Calls : Call(c)
    \/ \E h \in Handlers : Receive(h) \/ Handle(h)
    \/ WhoIsStep

BacnetSpec == BacnetInit /\ [][BacnetNext]_bacnetVars

(***************************************************************************)
(* As in Client: goroutines run and timers fire.                           *)
(***************************************************************************)
BacnetFairness ==
    /\ WF_bacnetVars(SkipUnknown \/ NewSlave \/ Serve)
    /\ WF_bacnetVars((WhoIsSubscribe \/ WhoIsBroadcast \/ WhoIsReturn) /\ UNCHANGED startVars)
    /\ WF_bacnetVars(WhoIsTimer /\ UNCHANGED startVars)
    /\ \A h \in Handlers : WF_bacnetVars(Handle(h))
    /\ \A c \in Calls :
          /\ WF_bacnetVars(Call(c) /\ cpc[c] # "idle")
          /\ WF_bacnetVars(Call(c) /\ Timeout(c))

BacnetFairSpec == BacnetSpec /\ BacnetFairness

----------------------------------------------------------------------------
(***************************************************************************)
(* Properties.                                                             *)
(***************************************************************************)

\* The type of the variables of the start.
BacnetTypeOK ==
    /\ TypeOK
    /\ bpc \in {"loop", "whois", "serving"}
    /\ next \in 1 .. Len(SlaveCfgs) + 1
    /\ opened \in BOOLEAN
    /\ devices \subseteq Devices
    /\ slaves \subseteq Infos

\* NewSlave returns, whatever arrives during its scan: NewBacnet comes to serve.
\* "If f block, there is a deadlock here" says where it may not.
StartCompletes == <>(bpc = "serving")

\* The only thing that keeps NewBacnet from it: the Lock of a later scan waits
\* for ever for a handler that is still in the callback of an earlier one, or
\* panicked there.  The first scan, hence a single slave, is not affected.
StartStuckOnlyByOldHandler ==
    \/ StartCompletes
    \/ <>[](/\ wpc = "lock" /\ scan > 1
            /\ \E h \in readers : hpc[h] \in {"sendf", "panicked"})

\* Handlers left in the callback of a scan are no obstacle to the replies of
\* the calls made once NewBacnet serves: every reply gets past the read lock,
\* to its call or to the end of the handler.
RepliesServed ==
    \A h \in Handlers : hmsg[h].type \in ReplyTypes ~> hpc[h] = "idle"

\* Reads and writes never run beside a scan, so no WhoIs swallows the time of a
\* reply in its loop or keeps a reply from its call.
CallsAfterScans ==
    (\E c \in Calls : cpc[c] # "idle") => wpc = "idle" /\ f = NoF /\ ~writer

=============================================================================
