---------------------------- MODULE MCViewReads ----------------------------
\* Model values of ViewReads for TLC.
EXTENDS ViewReads

CONSTANTS s1, s2, x, y

=============================================================================
