--------------------------- MODULE Subscriptions ---------------------------
(***************************************************************************)
(* The Subscriptions of bacip/client.go: the callback f that an ongoing    *)
(* WhoIs installs, under a sync.RWMutex that handleMessage holds for       *)
(* reading while it calls f.                                               *)
(*                                                                         *)
(* The RWMutex behaves as the Go one: Lock first announces the writer,     *)
(* which holds back every later RLock, and then waits until the readers    *)
(* have left.  f is the number of the scan whose callback is installed,    *)
(* NoF when it is nil.                                                     *)
(***************************************************************************)
EXTENDS Naturals

VARIABLES
    f,          \* the scan whose callback is installed, or NoF
    readers,    \* the handler goroutines that hold the read lock
    writer      \* a goroutine has called Lock and not yet Unlock

subscriptionsVars == << f, readers, writer >>

NoF == 0

NewSubscriptions ==
    /\ f = NoF
    /\ readers = {}
    /\ writer = FALSE

RLock(h) ==
    /\ ~writer
    /\ readers' = readers \cup {h}
    /\ UNCHANGED << f, writer >>

RUnlock(h) ==
    /\ readers' = readers \ {h}
    /\ UNCHANGED << f, writer >>

\* The first half of Lock: the writer is announced.
LockRequest ==
    /\ writer' = TRUE
    /\ UNCHANGED << f, readers >>

\* Mutant: f is installed without waiting for the readers.
SubscribeAtOnce(n) ==
    /\ f' = n
    /\ writer' = FALSE
    /\ UNCHANGED readers

\* The rest of Lock, the assignment of f and Unlock: no handler can look at f
\* in between.
Subscribe(n) ==
    /\ readers = {}
    /\ f' = n
    /\ writer' = FALSE
    /\ UNCHANGED readers

\* The deferred assignment at the end of WhoIs, which takes no lock.
Unsubscribe ==
    /\ f' = NoF
    /\ UNCHANGED << readers, writer >>

=============================================================================
