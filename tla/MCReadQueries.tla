--------------------------- MODULE MCReadQueries ---------------------------
\* Model values of ReadQueries for TLC.
EXTENDS ReadQueries, TLC

CONSTANTS c1, c2, c3, k1, k2, collection

\* Calls differ in nothing but their names, and so do analyses.
Symmetry == Permutations(Call) \union Permutations(Remembered)

=============================================================================
