--------------------------- MODULE MCReadScheduler ---------------------------
(* Instances of ReadScheduler for TLC.                                      *)
EXTENDS ReadScheduler, TLC

CONSTANTS j1, j2, j3, j4

Symmetry == Permutations(Job)
=============================================================================
