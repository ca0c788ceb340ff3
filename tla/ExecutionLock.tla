--------------------------- MODULE ExecutionLock ---------------------------
(***************************************************************************)
(* packages/core/src/executor/lock.ts: the lock file runtime/current.lock.  *)
(*                                                                         *)
(* Several processes call acquireExecutionLock and release() on one file.   *)
(* Each file-system call is one step, so other processes run between the    *)
(* stale check and the unlink, and between open(.., 'wx') and the write of   *)
(* the lock's data.  A file is named by its creator and by what a reader     *)
(* finds in it; a process that writes to a file somebody unlinked writes to  *)
(* nothing.                                                                 *)
(***************************************************************************)
CONSTANTS
    Procs,          \* processes that take the lock
    Mortal,         \* those that may be killed
    Nobody,         \* no process
    StaleCallers,   \* those that pass options.staleMs (the CLI never does)
    Lasting         \* those that may hold the lock until it counts as stale

ASSUME LockAssumption ==
    /\ Nobody \notin Procs
    /\ Mortal \subseteq Procs
    /\ StaleCallers \subseteq Procs
    /\ Lasting \subseteq Procs

VARIABLES
    lock,   \* the file: its creator and its text
    pc      \* where each process is in acquire / release

lockVars == <<lock, pc>>

Written == {"fresh", "expired"}     \* valid JSON, younger or older than staleMs
NoLock == [by |-> Nobody, text |-> "none"]
LockFiles == {NoLock} \cup [by : Procs, text : {"empty"} \cup Written]

PCs == {"idle", "checkStale", "unlinkStale", "open", "write", "held", "dead"}
Holding == {"write", "held"}

LockTypeOK == /\ lock \in LockFiles
              /\ pc \in [Procs -> PCs]

LockInit == /\ lock = NoLock
            /\ pc = [p \in Procs |-> "idle"]

Goto(p, label) == pc' = [pc EXCEPT ![p] = label]

\* acquireExecutionLock up to the mkdir
Begin(p) ==
    /\ pc[p] = "idle"
    /\ Goto(p, IF p \in StaleCallers THEN "checkStale" ELSE "open")
    /\ UNCHANGED lock

\* removeStaleLock: no lock, or a lock younger than staleMs
NotStale(p) ==
    /\ pc[p] = "checkStale" /\ lock.text \in {"none", "fresh"}
    /\ Goto(p, "open")
    /\ UNCHANGED lock

\* A slip: the stale lock is found but never removed
StaleKept(p) ==
    /\ pc[p] = "checkStale" /\ lock.text = "expired"
    /\ Goto(p, "open")
    /\ UNCHANGED lock

\* removeStaleLock: the lock read is older than staleMs
Stale(p) ==
    /\ pc[p] = "checkStale" /\ lock.text = "expired"
    /\ Goto(p, "unlinkStale")
    /\ UNCHANGED lock

\* removeStaleLock: JSON.parse of an empty file throws out of acquire
StaleCheckThrows(p) ==
    /\ pc[p] = "checkStale" /\ lock.text = "empty"
    /\ Goto(p, "idle")
    /\ UNCHANGED lock

\* releaseExecutionLock from removeStaleLock: whatever file is there now
UnlinkStale(p) ==
    /\ pc[p] = "unlinkStale"
    /\ lock' = NoLock
    /\ Goto(p, "open")

\* A slip: open(lockPath, 'w') in place of 'wx'
CreateOverwrites(p) ==
    /\ pc[p] = "open"
    /\ lock' = [by |-> p, text |-> "empty"]
    /\ Goto(p, "write")

\* fs.open(lockPath, 'wx') creates the file, still empty
Create(p) ==
    /\ pc[p] = "open" /\ lock = NoLock
    /\ lock' = [by |-> p, text |-> "empty"]
    /\ Goto(p, "write")

\* A slip: acquire moved inside the try whose finally releases the lock
CreateRefusedReleases(p) ==
    /\ pc[p] = "open" /\ lock # NoLock
    /\ lock' = NoLock
    /\ Goto(p, "idle")

\* EEXIST: the holder is read for the message and acquire throws
CreateRefused(p) ==
    /\ pc[p] = "open" /\ lock # NoLock
    /\ Goto(p, "idle")
    /\ UNCHANGED lock

\* handle.writeFile
WriteData(p) ==
    /\ pc[p] = "write"
    /\ lock' = IF lock.by = p THEN [lock EXCEPT !.text = "fresh"] ELSE lock
    /\ Goto(p, "held")

\* handle.writeFile fails: acquire throws and leaves the empty file
WriteFails(p) ==
    /\ pc[p] = "write"
    /\ Goto(p, "idle")
    /\ UNCHANGED lock

\* lock.release(): unlink whoever's file it is; ENOENT is ignored
Release(p) ==
    /\ pc[p] = "held"
    /\ lock' = NoLock
    /\ Goto(p, "idle")

\* lock.release(): unlink fails with another error and release throws
ReleaseFails(p) ==
    /\ pc[p] = "held"
    /\ Goto(p, "idle")
    /\ UNCHANGED lock

\* The process is killed; its file stays
Crash(p) ==
    /\ p \in Mortal /\ pc[p] # "dead"
    /\ Goto(p, "dead")
    /\ UNCHANGED lock

Orphaned == lock.by # Nobody /\ pc[lock.by] \notin Holding

(***************************************************************************)
(* A written lock becomes older than the limit: staleMs here, thirty        *)
(* minutes in recover-run.  The age is all that is compared: the lock of a   *)
(* live holder expires too, when the holder is one that lasts that long.     *)
(***************************************************************************)
Expire ==
    /\ lock.text = "fresh"
    /\ Orphaned \/ lock.by \in Lasting
    /\ lock' = [lock EXCEPT !.text = "expired"]
    /\ UNCHANGED pc

Acquire(p) == \/ NotStale(p) \/ Stale(p) \/ StaleCheckThrows(p) \/ UnlinkStale(p)
              \/ Create(p) \/ CreateRefused(p) \/ WriteData(p)

LockNext ==
    \/ \E p \in Procs :
          Begin(p) \/ Acquire(p) \/ WriteFails(p) \/ Release(p) \/ ReleaseFails(p)
                   \/ Crash(p)
    \/ Expire

LockSpec == LockInit /\ [][LockNext]_lockVars

(***************************************************************************)
(* Fairness: Node runs every pending file-system callback, and time passes. *)
(* Nobody is obliged to start an acquire or to be killed.                    *)
(***************************************************************************)
LockFairness ==
    /\ \A p \in Procs : WF_lockVars(Acquire(p) \/ Release(p))
    /\ WF_lockVars(Expire)

FairLockSpec == LockSpec /\ LockFairness

-----------------------------------------------------------------------------
\* At most one process is between a granted acquire and its release: while one
\* runs an issue no other acquire succeeds (lock.ts:46-55).
MutualExclusion ==
    \A p, q \in Procs : pc[p] \in Holding /\ pc[q] \in Holding => p = q

\* Why: only its own release removes a holder's file (lock.ts:48, 65-72), a lock
\* that is expired is an orphan or the lock of a run that lasts that long, and a
\* stale lock, once found, stays the orphan it was as long as nobody else
\* replaces it meanwhile.
LockInv ==
    /\ LockTypeOK
    /\ \A p \in Procs : pc[p] \in Holding => lock.by = p
    /\ \A p \in Procs : pc[p] \in {"checkStale", "unlinkStale"} => p \in StaleCallers
    /\ lock.text = "expired" => Orphaned \/ lock.by \in Lasting
    /\ \A p \in Procs : pc[p] = "unlinkStale" => lock.text = "expired" /\ Orphaned

\* The processes that hold the lock, for the abstract lock
Holders == {p \in Procs : pc[p] \in Holding}

Abstract == INSTANCE SingleLock WITH holders <- Holders, orphaned <- Orphaned

\* lock.ts implements SingleLock: a lock is granted only when it is free, a
\* release frees it only for its holder, an orphaned lock is reclaimed only
\* when it is orphaned.
ImplementsSingleLock == Abstract!Spec

\* A lock whose data was written and whose holder is gone is replaced, provided
\* somebody keeps calling acquire with staleMs (lock.ts:74-83).
OrphanReplaced ==
    []<>(\E p \in Procs : pc[p] = "checkStale")
        => ((Orphaned /\ lock.text \in Written) ~> ~Orphaned)
=============================================================================
