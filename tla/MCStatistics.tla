----------------------------- MODULE MCStatistics -----------------------------
(***************************************************************************)
(* Instances of Statistics for TLC.                                        *)
(***************************************************************************)
EXTENDS Statistics

CONSTANTS good, bad, r1, r2

TwoEntries == {good, bad}

TwoRequests == {r1, r2}

(* No bound, less than the ring has, and as much.                          *)
QueryBounds == {-1, 1, 2}

Symmetry == Permutations(TwoRequests)
=============================================================================
