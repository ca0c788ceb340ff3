-------------------------- MODULE MCBoardReconcile --------------------------
EXTENDS BoardReconcile, TLC

CONSTANTS a, b, e, j1, j2

\* Jobs are interchangeable, and so are the ids that are no epic's
Interchangeable == Permutations(Jobs) \cup Permutations(Ids \ Epics)
=============================================================================
