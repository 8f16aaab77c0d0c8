----------------------------- MODULE MCCuration -----------------------------
(***************************************************************************)
(* Instances of Curation for TLC.                                          *)
(***************************************************************************)
EXTENDS Curation, TLC

CONSTANTS Alice, Bob, Carol, Red, Blue

MCNone == {}
MCOne == {Bob}
MCTwo == {Alice, Bob}
MCThree == {Alice, Bob, Carol}
MCOneName == {Red}
MCTwoNames == {Red, Blue}
MCSymmetry == Permutations(Users)
MCNameSymmetry == Permutations(Names)
MCNoInvites == [cap \in TeamCaps |-> 0]
MCInvites == [cap \in TeamCaps |-> IF cap = 2 THEN 2 ELSE 1]
MCOneTeam == [free |-> 0, subscriber |-> 1, admin |-> 1]
MCJoins == [free |-> 1, subscriber |-> 2, admin |-> 2]
=============================================================================
