--------------------------- MODULE MCRunRecovery ---------------------------
EXTENDS RunRecovery

CONSTANTS p1, p2, r1, r2, i1, i2

\* Two terminals on one issue
OneIssueOf == [p \in {p1, p2} |-> i1]
\* A terminal on each issue
TwoIssueOf == [p \in {p1, p2} |-> IF p = p1 THEN i1 ELSE i2]

\* A run may be killed at any step of it
Anywhere == PCs \cup Stages
\* ... or only once its issue is RUNNING, where a recovery can meet it
OnceRunning == {"agent", "final", "markFinal", "release"}
=============================================================================
