---------------------------- MODULE MCImportRuns ----------------------------
(* Instances of ImportRuns for TLC.                                         *)
EXTENDS ImportRuns, TLC

CONSTANTS b1, b2, r1, r2, r3, r4, p1, p2

Symmetry ==
    Permutations(Bundle) \union Permutations(Run)
        \union Permutations(Importer)
=============================================================================
