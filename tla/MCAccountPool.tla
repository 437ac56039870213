---------------------------- MODULE MCAccountPool ----------------------------
(***************************************************************************)
(* Instances of AccountPool for TLC.                                       *)
(***************************************************************************)
EXTENDS AccountPool, TLC

CONSTANTS a1, a2, a3, r1, r2

TwoAccounts == {a1, a2}
ThreeAccounts == {a1, a2, a3}
OneAccount == {a1}
OtherAccount == {a2}
NoAccounts == {}
OneRequest == {r1}
TwoRequests == {r1, r2}

AccountSymmetry == Permutations(ThreeAccounts)
RequestSymmetry == Permutations(TwoRequests)
=============================================================================
