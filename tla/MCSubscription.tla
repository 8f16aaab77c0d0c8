--------------------------- MODULE MCSubscription ---------------------------
(***************************************************************************)
(* Instances of Subscription for TLC.                                      *)
(***************************************************************************)
EXTENDS Subscription, TLC

CONSTANTS Alice, Bob

MCUsers == {Alice, Bob}
MCBalance == [u \in MCUsers |-> 2]
MCPoor == [u \in MCUsers |-> IF u = Alice THEN 2 ELSE 0]
MCNoLock == [u \in MCUsers |-> 0]
MCBobLocked == [u \in MCUsers |-> IF u = Bob THEN 2 ELSE 0]
MCAllLocked == [u \in MCUsers |-> 2]
MCTerms == {0, 3}
MCShortTerm == {2}
MCAmounts == {2}
MCSymmetry == Permutations(MCUsers)
=============================================================================
