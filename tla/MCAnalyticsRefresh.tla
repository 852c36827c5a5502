------------------------- MODULE MCAnalyticsRefresh -------------------------
(* Instances of AnalyticsRefresh for TLC.                                   *)
EXTENDS AnalyticsRefresh, TLC

CONSTANTS b1, b2, r1, r2, r3, q1, q2, c1

Symmetry == Permutations(Bundle) \union Permutations(Run) \union Permutations(Refresher)
=============================================================================
