-------------------------- MODULE MCExecutionLock --------------------------
EXTENDS ExecutionLock

CONSTANTS p1, p2, p3

\* Three contenders: a holder, a process that replaces its lock, and one more
MCProcs == {p1, p2, p3}
MCMortal == {p1, p2}
MCStaleCallers == {p3}
=============================================================================
