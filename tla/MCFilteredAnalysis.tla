------------------------ MODULE MCFilteredAnalysis -------------------------
\* Model values of FilteredAnalysis for TLC.
EXTENDS FilteredAnalysis, TLC

CONSTANTS f1, f2, t1, x1

\* An empty selection is searched without dimensions, the others within the same.
NarrowedBy == [f \in Filter \union {Empty} |-> IF f = Empty THEN None ELSE t1]

\* Drafts that can be applied differ in nothing but their names.
Symmetry == Permutations(Filter)

=============================================================================
