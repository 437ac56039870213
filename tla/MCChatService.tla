---------------------------- MODULE MCChatService ----------------------------
(***************************************************************************)
(* Instances of ChatService for TLC.  Accounts are interchangeable, and so *)
(* are the goroutines that handle requests.                                *)
(***************************************************************************)
EXTENDS ChatService, TLC

CONSTANTS a1, a2, k1, k2, r1, r2

OneAccount == {a1}
TwoAccounts == {a1, a2}
OneKey == {k1}
TwoKeys == {k1, k2}
OneRequest == {r1}
TwoRequests == {r1, r2}

Symmetric == Permutations(Accounts) \union Permutations(Requests)
=============================================================================
