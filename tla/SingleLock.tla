----------------------------- MODULE SingleLock -----------------------------
(***************************************************************************)
(* What runtime/current.lock promises its callers, without files: at most   *)
(* one holder; a holder that dies, or whose release fails, leaves the lock   *)
(* orphaned, and nobody is granted an orphaned lock before it is reclaimed.  *)
(***************************************************************************)
CONSTANT Procs

VARIABLES holders,    \* the processes between a granted acquire and its release
          orphaned    \* the lock is taken and its holder will never release it

vars == <<holders, orphaned>>

Init == /\ holders = {}
        /\ orphaned = FALSE

Grant(p) == /\ holders = {} /\ ~orphaned
            /\ holders' = {p}
            /\ UNCHANGED orphaned

Release(p) == /\ holders = {p}
              /\ holders' = {}
              /\ UNCHANGED orphaned

Orphan(p) == /\ holders = {p}
             /\ holders' = {}
             /\ orphaned' = TRUE

Reclaim == /\ orphaned
           /\ orphaned' = FALSE
           /\ UNCHANGED holders

Next == \/ \E p \in Procs : Grant(p) \/ Release(p) \/ Orphan(p)
        \/ Reclaim

Spec == Init /\ [][Next]_vars
=============================================================================
