----------------------------- MODULE TxPromise -----------------------------
(***************************************************************************)
(* What the queue of TransactionHandler.js promises a caller, with no      *)
(* queue, loop, proof of work or session in sight: each method returns a   *)
(* promise that settles once; "ok" means the node accepted the transaction *)
(* exactly once; "cancelled" means it never reached the node; "failed"     *)
(* leaves open whether the node accepted it, but never more than once.     *)
(***************************************************************************)
EXTENDS Naturals

CONSTANT Txs

VARIABLES
    state,     \* "none", "live", or how the promise settled
    accepted   \* how often the node accepted the transaction

vars == <<state, accepted>>

Init == state = [t \in Txs |-> "none"] /\ accepted = [t \in Txs |-> 0]

\* A method is called.  It may settle at once, but not with a success.
Issue(t) ==
    /\ state[t] # "live"
    /\ state'[t] \in {"live", "failed", "cancelled"}
    /\ accepted'[t] = 0

\* The promise settles.
Settle(t) ==
    /\ state[t] = "live" /\ accepted[t] = 0
    /\ \/ state'[t] = "ok" /\ accepted'[t] = 1
       \/ state'[t] = "failed" /\ accepted'[t] \in {0, 1}
       \/ state'[t] = "cancelled" /\ accepted'[t] = 0

Rest(t) == state'[t] = state[t] /\ accepted'[t] = accepted[t]

\* One step of the client may settle several promises (a drain) and issue one.
Next == \A t \in Txs : Rest(t) \/ Issue(t) \/ Settle(t)

Spec == Init /\ [][Next]_vars
=============================================================================
