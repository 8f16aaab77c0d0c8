---------------------------- MODULE MCApiSession ----------------------------
(***************************************************************************)
(* ApiSession with one URL: two requests of it compete for the cache and   *)
(* for the in-flight entry, and its answer arrives whoever is signed in.   *)
(* The accounts in storage and the resets hardly depend on each other, so  *)
(* what stored accounts and balances lead to is followed for one reset.    *)
(***************************************************************************)
EXTENDS ApiSession, TLC

CONSTANT a

MCAddress == [url \in Urls |-> a]

SimpleOrEarly ==
    generation <= 2 \/ (vaultOwner = NoOne /\ balance = Absent /\ ~hold)

Symmetry == Permutations(Slots) \cup Permutations(Resets)
=============================================================================
