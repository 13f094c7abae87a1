---------------------------- MODULE RequestReply ----------------------------
(***************************************************************************)
(* What the client promises to concurrent callers, without the pool, the   *)
(* table, the channels or the handlers: a call is given an ID nobody else  *)
(* holds, may be handed one answer while it holds the ID, and gives the    *)
(* ID back.  The answer is one to a request sent under the same ID, if     *)
(* not by the call itself then by a call that held the ID before.          *)
(***************************************************************************)
EXTENDS Integers

CONSTANTS Calls, IDs, Nobody

VARIABLES
    holds,      \* the pairs << c, id >> where c holds id
    held,       \* the pairs << c, id >> where c holds or has held id
    answered    \* the call whose request the answer to c was sent for

vars == << holds, held, answered >>

Init ==
    /\ holds = {}
    /\ held = {}
    /\ answered = [c \in Calls |-> Nobody]

Acquire(c, id) ==
    /\ \A d \in Calls : << d, id >> \notin holds
    /\ \A j \in IDs : << c, j >> \notin held
    /\ holds' = holds \cup {<< c, id >>}
    /\ held' = held \cup {<< c, id >>}
    /\ UNCHANGED answered

HandAnswer(c, q, id) ==
    /\ << c, id >> \in holds
    /\ << q, id >> \in held
    /\ answered[c] = Nobody
    /\ answered' = [answered EXCEPT ![c] = q]
    /\ UNCHANGED << holds, held >>

Release(c, id) ==
    /\ << c, id >> \in holds
    /\ holds' = holds \ {<< c, id >>}
    /\ UNCHANGED << held, answered >>

Next ==
    \E c \in Calls, id \in IDs :
        \/ Acquire(c, id)
        \/ \E q \in Calls : HandAnswer(c, q, id)
        \/ Release(c, id)

Spec == Init /\ [][Next]_vars

=============================================================================
