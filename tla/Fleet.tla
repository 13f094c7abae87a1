-------------------------------- MODULE Fleet --------------------------------
(***************************************************************************)
(* The driver's goroutines over the one client they share, once NewBacnet  *)
(* serves: a worker (baetyl-bacnet/bacnet.go: working) runs Execute at     *)
(* each tick until the driver stops, the callbacks run when the cloud      *)
(* asks.  Each makes its calls one after the other, in the order of a map, *)
(* so that as many calls run at once as there are callers, and no more.    *)
(*                                                                         *)
(* The calls are those of module Client, step by step.  What Execute and   *)
(* DeltaCallback do with values is in module Driver; scans are over        *)
(* (Bacnet: CallsAfterScans).                                              *)
(***************************************************************************)
EXTENDS Client

CONSTANTS
    Executions, \* function from the workers to the sequences of executions
                \* of Execute, an execution being the set of its calls
    Asked       \* function from the callbacks to the sets of their calls

Workers   == DOMAIN Executions
Callbacks == DOMAIN Asked
Callers   == Workers \cup Callbacks

\* The calls a caller may make.
Own(e) ==
    IF e \in Workers THEN UNION { Executions[e][i] : i \in DOMAIN Executions[e] }
                     ELSE Asked[e]

ASSUME CallersAssumption ==
    /\ IsFiniteSet(Callers)
    /\ Workers \cap Callbacks = {}
    /\ \A w \in Workers : Executions[w] \in Seq(SUBSET Reads)
    /\ \A b \in Callbacks : Asked[b] \in (SUBSET Reads) \cup (SUBSET Writes)
    /\ \A e, d \in Callers : e # d => Own(e) \cap Own(d) = {}

VARIABLES
    at,         \* where each caller is
    tick,       \* how many executions each worker has begun
    todo,       \* the calls its execution or callback has still to make
    stopping,   \* the driver has been told to end
    given       \* ghost: the calls in the order in which they got an ID

fleetVars == << at, tick, todo, stopping, given >>

allVars == << vars, fleetVars >>

----------------------------------------------------------------------------

FleetInit ==
    /\ Init
    /\ at = [e \in Callers |-> "waiting"]
    /\ tick = [w \in Workers |-> 0]
    /\ todo = [e \in Callers |-> {}]
    /\ stopping = FALSE
    /\ given = << >>

Busy(e) == \E c \in Own(e) : cpc[c] \notin {"idle", "done"}

\* A write of the callback has failed.
Refused(e) ==
    e \in Callbacks /\ \E c \in Asked[e] \cap Writes :
        cpc[c] = "done" /\ res[c].kind # "written"

CallerAt(e, from, to) == at[e] = from /\ at' = [at EXCEPT ![e] = to]

\* case <-ticker.C
Tick(w) ==
    /\ tick[w] < Len(Executions[w])
    /\ CallerAt(w, "waiting", "running")
    /\ tick' = [tick EXCEPT ![w] = @ + 1]
    /\ todo' = [todo EXCEPT ![w] = Executions[w][tick[w] + 1]]
    /\ UNCHANGED << vars, stopping, given >>

\* case <-bac.ctx.WaitChan(): a worker that waits gets the signal, or the tick
\* that is ready as well.  Whether it gets one that came while it was executing
\* is up to the device context, so nothing is assumed of it.
StopWorker(w) ==
    /\ stopping
    /\ CallerAt(w, "waiting", "stopped")
    /\ UNCHANGED << vars, tick, todo, stopping, given >>

Stop ==
    /\ ~stopping
    /\ stopping' = TRUE
    /\ UNCHANGED << vars, at, tick, todo, given >>

CallBack(b) ==
    /\ CallerAt(b, "waiting", "running")
    /\ todo' = [todo EXCEPT ![b] = Asked[b]]
    /\ UNCHANGED << vars, tick, stopping, given >>

\* Mutant: each call in a goroutine of its own.
NextCallAtOnce(e, c) ==
    /\ at[e] = "running" /\ ~Refused(e)
    /\ c \in todo[e]
    /\ ReadProperty(c) \/ WriteProperty(c)
    /\ todo' = [todo EXCEPT ![e] = @ \ {c}]
    /\ UNCHANGED << at, tick, stopping, given >>

\* The next call of a caller.
NextCall(e, c) ==
    /\ at[e] = "running" /\ ~Busy(e) /\ ~Refused(e)
    /\ c \in todo[e]
    /\ ReadProperty(c) \/ WriteProperty(c)
    /\ todo' = [todo EXCEPT ![e] = @ \ {c}]
    /\ UNCHANGED << at, tick, stopping, given >>

\* The call a caller is in goes on.
InCall(c) ==
    /\ cpc[c] # "idle"
    /\ ReadProperty(c) \/ WriteProperty(c)
    /\ given' = IF cid'[c] = cid[c] THEN given ELSE Append(given, c)
    /\ UNCHANGED << at, tick, todo, stopping >>

\* Execute has made its calls and reports what it has read.
Reports(w) ==
    /\ todo[w] = {} /\ ~Busy(w)
    /\ CallerAt(w, "running", "waiting")

\* A callback returns: DeltaCallback at the first write that fails.
Returns(b) ==
    /\ ~Busy(b)
    /\ \/ Refused(b) /\ CallerAt(b, "running", "error")
       \/ ~Refused(b) /\ todo[b] = {} /\ CallerAt(b, "running", "nil")

Ends(e) ==
    /\ \/ e \in Workers /\ Reports(e)
       \/ e \in Callbacks /\ Returns(e)
    /\ UNCHANGED << vars, tick, todo, stopping, given >>

Execute(e) ==
    \/ \E c \in Own(e) : NextCall(e, c) \/ InCall(c)
    \/ Ends(e)

Environment ==
    /\ \/ \E c \in Calls : Timeout(c)
       \/ \E h \in Handlers : HandleMessage(h) \/ \E m \in Datagrams : Listen(h, m)
    /\ UNCHANGED fleetVars

FleetNext ==
    \/ \E w \in Workers : Tick(w) \/ StopWorker(w)
    \/ Stop
    \/ \E b \in Callbacks : CallBack(b)
    \/ \E e \in Callers : Execute(e)
    \/ Environment

FleetSpec == FleetInit /\ [][FleetNext]_allVars

\* Goroutines run and timers fire.
FleetFairness ==
    /\ \A e \in Callers : WF_allVars(Execute(e))
    /\ \A c \in Calls : WF_allVars(Timeout(c) /\ UNCHANGED fleetVars)
    /\ \A h \in Handlers : WF_allVars(HandleMessage(h) /\ UNCHANGED fleetVars)

FleetFairSpec == FleetSpec /\ FleetFairness

----------------------------------------------------------------------------
(***************************************************************************)
(* Properties.                                                             *)
(***************************************************************************)

\* The type of the variables of the callers, each at most in one call.
FleetTypeOK ==
    /\ TypeOK
    /\ \A e \in Callers :
          /\ at[e] \in IF e \in Workers THEN {"waiting", "running", "stopped"}
                       ELSE {"waiting", "running", "error", "nil"}
          /\ todo[e] \subseteq Own(e)
          /\ \A c, d \in Own(e) :
                {cpc[c], cpc[d]} \cap {"idle", "done"} = {} => c = d
    /\ \A w \in Workers : tick[w] \in 0 .. Len(Executions[w])
    /\ given \in Seq(Calls)

\* An ID comes back late, however many times the IDs have wrapped around: with
\* n callers at least NumIDs - n other calls are given one between two calls that
\* get the same.  So a late reply, which is taken by a call with the same ID or
\* by none (ImplementsRequestReply), has that long to arrive (transaction.go:37).
ReuseIsFarOff ==
    \A i, j \in 1 .. Len(given) :
        i < j /\ cid[given[i]] = cid[given[j]] => j - i > NumIDs - Cardinality(Callers)

\* Every execution and every callback ends, although there may be fewer IDs
\* than callers and no device may ever answer (transaction.go:31).
CallersReturn == \A e \in Callers : at[e] = "running" ~> at[e] # "running"

=============================================================================
