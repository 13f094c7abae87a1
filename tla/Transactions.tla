---------------------------- MODULE Transactions ----------------------------
(***************************************************************************)
(* bacip/transaction.go: the pool of invoke IDs and the table of the       *)
(* transactions in progress.                                               *)
(*                                                                         *)
(* freeInvokeID is the buffered Go channel of the same name: a receive     *)
(* takes its head and blocks while it is empty, a send appends and blocks  *)
(* while it is full.  currents is the Go map, total here: NoTx stands for  *)
(* an absent key.  The mutex of the struct makes every map operation one   *)
(* step; a channel operation is one step by itself.                        *)
(*                                                                         *)
(* A Tx (response channel and context) is named by the call that made it.  *)
(***************************************************************************)
EXTENDS Integers, Sequences

CONSTANTS
    NumIDs,     \* how many invoke IDs there are: 256, all the values of a byte
    NoTx        \* "no transaction under this ID"

ASSUME NumIDsAssumption == NumIDs \in Nat \ {0}

VARIABLES
    freeInvokeID,   \* the IDs in the pool, the next one to be handed out first
    currents        \* the transaction registered under each ID, or NoTx

transactionsVars == << freeInvokeID, currents >>

InvokeIDs == 0 .. NumIDs - 1

PoolIDs == { freeInvokeID[i] : i \in 1 .. Len(freeInvokeID) }

----------------------------------------------------------------------------

\* Mutant: the loop that fills the pool counts from 1.
NewTransactionsFromOne ==
    /\ freeInvokeID = [i \in 1 .. NumIDs |-> i]
    /\ currents = [id \in InvokeIDs |-> NoTx]

NewTransactions ==
    /\ freeInvokeID = [i \in 1 .. NumIDs |-> i - 1]
    /\ currents = [id \in InvokeIDs |-> NoTx]

GetID(id) ==
    /\ freeInvokeID # << >>
    /\ id = Head(freeInvokeID)
    /\ freeInvokeID' = Tail(freeInvokeID)

\* Mutant: the pool used as a stack, the ID freed last is the next one out.
FreeIDInFront(id) ==
    /\ Len(freeInvokeID) < NumIDs
    /\ freeInvokeID' = << id >> \o freeInvokeID

\* Mutant: the channel made one slot too small.
FreeIDShortChan(id) ==
    /\ Len(freeInvokeID) < NumIDs - 1
    /\ freeInvokeID' = Append(freeInvokeID, id)

FreeID(id) ==
    /\ Len(freeInvokeID) < NumIDs
    /\ freeInvokeID' = Append(freeInvokeID, id)

SetTransaction(id, tx) == currents' = [currents EXCEPT ![id] = tx]

StopTransaction(id) == currents' = [currents EXCEPT ![id] = NoTx]

GetTransaction(id) == currents[id]

=============================================================================
