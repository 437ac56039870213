------------------------------- MODULE Selection -------------------------------
(***************************************************************************)
(* Subsequences: SelectSeq, for a set of the elements that are wanted, so  *)
(* that what it selects can be reasoned about.                             *)
(***************************************************************************)
EXTENDS Integers, Sequences

(* The elements of s that are in K, in their order.                        *)
Selected(s, K) ==
  LET kept[i \in 0..Len(s)] ==
        IF i = 0 THEN <<>> ELSE IF s[i] \in K THEN Append(kept[i - 1], s[i]) ELSE kept[i - 1]
  IN kept[Len(s)]
=============================================================================
