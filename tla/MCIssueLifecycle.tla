-------------------------- MODULE MCIssueLifecycle --------------------------
EXTENDS IssueLifecycle, TLC

CONSTANTS i1, i2, t1

\* Issues are interchangeable
IssueSymmetry == Permutations(Issues)

\* Moves that no lifecycle command is concerned with
Preparations == {<<"TODO", "READY">>, <<"READY", "TODO">>}
\* A failed issue is dragged back to READY
Requeues == {<<"FAILED", "READY">>}
=============================================================================
