---------------------------- MODULE RunRecovery ----------------------------
(***************************************************************************)
(* `kanban run`, crashes of it, and `kanban recover-run` side by side.      *)
(*                                                                         *)
(* A runner takes the execution lock, marks its issue RUNNING, executes the  *)
(* agent and writes the outcome (packages/core/src/executor/run-issue.ts,    *)
(* in outline: module RunIssue has every step).  A recoverer                 *)
(* (packages/cli/src/commands/recover-run.ts) reads the issue, then the      *)
(* lock, probes the pid in it, unlinks the lock and marks the issue FAILED;  *)
(* it takes no lock itself.  Reads and writes of the note are steps of their *)
(* own: NodeFsVaultPort.process is a read, a check and a later rename.       *)
(***************************************************************************)
EXTENDS ExecutionLock, IssueStatus

CONSTANTS
    Issues,        \* issues of the vault
    IssueOf,       \* the issue each runner process is started for
    Recoverers,    \* terminals that may type `kanban recover-run`
    CrashPoints,   \* where a run may be killed
    PidReuse,      \* a dead pid may have been given to another process
    Foreign        \* runs of another user, whose live pids may not be probed

ASSUME RecoveryAssumption ==
    /\ IssueOf \in [Procs -> Issues]
    /\ Nobody \notin Issues
    /\ PidReuse \in BOOLEAN
    /\ Foreign \subseteq Procs

VARIABLES
    status,    \* the status in each issue's note
    at,        \* how far each runner is in runIssueWithAgent
    outcome,   \* the outcome each runner computed
    rpc,       \* where each recoverer is in commandRecoverRun
    target,    \* the issue it recovers
    processState,  \* the state it found the lock's process in
    robbed     \* history: a recoverer unlinked a live run's lock, or another issue's

runVars == <<status, at, outcome>>
recVars == <<rpc, target, processState, robbed>>
vars == <<lockVars, runVars, recVars>>

Stages == {"read", "transition", "markRunning", "agent", "final", "markFinal", "release"}
Outcomes == {"REVIEW", "FAILED"}
RecPCs == {"idle", "readLock", "unlink", "mark"}
LockProcessState == {"alive", "dead", "unknown"}

TypeOK == /\ LockTypeOK
          /\ status \in [Issues -> Statuses]
          /\ at \in [Procs -> Stages]
          /\ outcome \in [Procs -> Outcomes]
          /\ rpc \in [Recoverers -> RecPCs]
          /\ target \in [Recoverers -> Issues \cup {Nobody}]
          /\ processState \in [Recoverers -> LockProcessState \cup {Nobody}]
          /\ robbed \in BOOLEAN

Init == /\ LockInit
        /\ status = [i \in Issues |-> "READY"]
        /\ at = [p \in Procs |-> "read"]
        /\ outcome = [p \in Procs |-> "FAILED"]
        /\ rpc = [r \in Recoverers |-> "idle"]
        /\ target = [r \in Recoverers |-> Nobody]
        /\ processState = [r \in Recoverers |-> Nobody]
        /\ robbed = FALSE

SetStatus(i, s) == status' = [status EXCEPT ![i] = s]
Stage(p, s) == at' = [at EXCEPT ![p] = s]

-----------------------------------------------------------------------------
(* The runner *)

\* commandRun refuses an issue that is not READY, then acquire begins
RunStart(p) ==
    /\ status[IssueOf[p]] = "READY"
    /\ Begin(p)
    /\ UNCHANGED <<runVars, recVars>>

\* acquireExecutionLock; when it throws the run ends here
RunAcquire(p) ==
    /\ Acquire(p) \/ WriteFails(p)
    /\ UNCHANGED <<runVars, recVars>>

\* run-issue.ts:70-76
ReadIssue(p) ==
    /\ pc[p] = "held" /\ at[p] = "read"
    /\ Stage(p, IF status[IssueOf[p]] = "READY" THEN "transition" ELSE "release")
    /\ UNCHANGED <<lockVars, status, outcome, recVars>>

\* vault.process reads the note again; the engine rejects a stale status
CheckRunning(p) ==
    /\ pc[p] = "held" /\ at[p] = "transition"
    /\ Stage(p, IF status[IssueOf[p]] = "READY" THEN "markRunning" ELSE "release")
    /\ UNCHANGED <<lockVars, status, outcome, recVars>>

\* vault.process renames the new note over whatever is there
MarkRunning(p) ==
    /\ pc[p] = "held" /\ at[p] = "markRunning"
    /\ SetStatus(IssueOf[p], "RUNNING")
    /\ Stage(p, "agent")
    /\ UNCHANGED <<lockVars, outcome, recVars>>

\* worktree, agent, checkpoint: one of the two outcomes
AgentEnds(p) ==
    /\ pc[p] = "held" /\ at[p] = "agent"
    /\ \E o \in Outcomes : outcome' = [outcome EXCEPT ![p] = o]
    /\ Stage(p, "final")
    /\ UNCHANGED <<lockVars, status, recVars>>

\* writeFinalIssueState accepts the status it reads: RUNNING, or REVIEW that
\* it first puts back to RUNNING when the run failed after all
FinalAccepts(s, o) == s = "RUNNING" \/ (s = "REVIEW" /\ o = "FAILED")

\* writeFinalIssueState reads the latest note: an accepted status is rewritten,
\* the outcome itself needs no write, anything else throws
ReadFinal(p) ==
    /\ pc[p] = "held" /\ at[p] = "final"
    /\ Stage(p, IF FinalAccepts(status[IssueOf[p]], outcome[p])
                THEN "markFinal" ELSE "release")
    /\ UNCHANGED <<lockVars, status, outcome, recVars>>

MarkFinal(p) ==
    /\ pc[p] = "held" /\ at[p] = "markFinal"
    /\ SetStatus(IssueOf[p], outcome[p])
    /\ Stage(p, "release")
    /\ UNCHANGED <<lockVars, outcome, recVars>>

\* finally { await lock.release() }
RunRelease(p) ==
    /\ at[p] = "release"
    /\ Release(p) \/ ReleaseFails(p)
    /\ Stage(p, "read")
    /\ UNCHANGED <<status, outcome, recVars>>

RunCrash(p) ==
    /\ (IF pc[p] = "held" THEN at[p] ELSE pc[p]) \in CrashPoints
    /\ Crash(p)
    /\ UNCHANGED <<runVars, recVars>>

-----------------------------------------------------------------------------
(* recover-run *)

\* findIssueById; only a RUNNING issue is recovered
RecStart(r, i) ==
    /\ rpc[r] = "idle" /\ status[i] = "RUNNING"
    /\ rpc' = [rpc EXCEPT ![r] = "readLock"]
    /\ target' = [target EXCEPT ![r] = i]
    /\ UNCHANGED <<lockVars, runVars, processState, robbed>>

(***************************************************************************)
(* getLockProcessState of the pid in the lock.  The process that created     *)
(* the file is alive exactly while it holds it: a run that failed to write   *)
(* or to unlink it has exited.  process.kill(pid, 0) on a live process of    *)
(* another user fails with EPERM, which is not ESRCH: "unknown".  A pid that *)
(* was reused answers for somebody else.                                     *)
(***************************************************************************)
ProcessStates(p) ==
    IF pc[p] \in Holding THEN IF p \in Foreign THEN {"unknown"} ELSE {"alive"}
    ELSE {"dead"} \cup (IF PidReuse THEN {"alive", "unknown"} ELSE {})

\* A slip: the age alone decides
CanRecoverByAge(state) == TRUE

\* A slip: the test for a dead process is lost
CanRecoverUnknown(state) == state = "unknown" /\ lock.text = "expired"

\* canRecover: dead, or unknown and older than thirty minutes
CanRecover(state) == state = "dead" \/ (state = "unknown" /\ lock.text = "expired")

RecGoto(r, label, state) ==
    /\ rpc' = [rpc EXCEPT ![r] = label]
    /\ target' = IF label = "idle" THEN [target EXCEPT ![r] = Nobody] ELSE target
    /\ processState' = [processState EXCEPT ![r] = state]

\* readExecutionLock and what it decides: no lock, go on; the lock of a dead run
\* of this issue, unlink it; empty, foreign or live, give up
RecReadLock(r) ==
    /\ rpc[r] = "readLock"
    /\ \/ lock = NoLock /\ RecGoto(r, "mark", Nobody)
       \/ /\ lock.text \in Written /\ IssueOf[lock.by] = target[r]
          /\ \E state \in ProcessStates(lock.by) :
                IF CanRecover(state) THEN RecGoto(r, "unlink", state)
                                     ELSE RecGoto(r, "idle", Nobody)
       \/ /\ lock # NoLock
          /\ lock.text = "empty" \/ IssueOf[lock.by] # target[r]
          /\ RecGoto(r, "idle", Nobody)
    /\ UNCHANGED <<lockVars, runVars, robbed>>

\* What a recovery of issue i is meant to unlink: the lock that a dead run of it left
LeftBy(i) == Orphaned /\ IssueOf[lock.by] = i

\* releaseExecutionLock: whatever file is there now
RecUnlink(r) ==
    /\ rpc[r] = "unlink"
    /\ lock' = NoLock
    /\ robbed' = (robbed \/ (lock # NoLock /\ ~LeftBy(target[r])))
    /\ RecGoto(r, "mark", Nobody)
    /\ UNCHANGED <<pc, runVars>>

\* updateIssueStatus writes FAILED over whatever status the note has now
RecMark(r) ==
    /\ rpc[r] = "mark"
    /\ SetStatus(target[r], "FAILED")
    /\ RecGoto(r, "idle", Nobody)
    /\ UNCHANGED <<lockVars, at, outcome, robbed>>

\* kanban retry / kanban abort put a finished issue back in the queue
Requeue(i) ==
    /\ status[i] \in {"REVIEW", "FAILED"}
    /\ SetStatus(i, "READY")
    /\ UNCHANGED <<lockVars, at, outcome, recVars>>

-----------------------------------------------------------------------------
RunStep(p) == \/ RunAcquire(p) \/ ReadIssue(p) \/ CheckRunning(p) \/ MarkRunning(p)
              \/ AgentEnds(p) \/ ReadFinal(p) \/ MarkFinal(p) \/ RunRelease(p)

RecStep(r) == RecReadLock(r) \/ RecUnlink(r) \/ RecMark(r)

Age == Expire /\ UNCHANGED <<runVars, recVars>>

Next == \/ \E p \in Procs : RunStart(p) \/ RunStep(p) \/ RunCrash(p)
        \/ \E r \in Recoverers : RecStep(r) \/ \E i \in Issues : RecStart(r, i)
        \/ \E i \in Issues : Requeue(i)
        \/ Age

Spec == Init /\ [][Next]_vars

(***************************************************************************)
(* Node finishes what it started; time passes.  Nothing in the code retries  *)
(* a command: that somebody eventually types recover-run for an issue that   *)
(* stays RUNNING, and run for one that stays READY, is the operator's part.  *)
(***************************************************************************)
CodeFairness == /\ \A p \in Procs : WF_vars(RunStep(p))
                /\ \A r \in Recoverers : WF_vars(RecStep(r))
                /\ WF_vars(Age)
OperatorFairness == /\ \A r \in Recoverers, i \in Issues : WF_vars(RecStart(r, i))
                    /\ \A p \in Procs : WF_vars(RunStart(p))
FairSpec == Spec /\ CodeFairness /\ OperatorFairness

-----------------------------------------------------------------------------
\* A run of another user that lasts longer than thirty minutes: its pid cannot be
\* probed and its lock is old, so to a recoverer it looks abandoned
\* (recover-run.ts:32-34, 98-111).
LooksAbandoned == Foreign \cap Lasting

\* What recover-run may unlink (recover-run.ts:28-42): the lock whose process it
\* found dead is still the orphan of that issue when the unlink comes; only on an
\* unknown process, and only where some run looks abandoned to it, may the lock be
\* a live run's or another issue's.  Until that happens every holder keeps its own
\* lock.
RecoveryInv ==
    /\ TypeOK
    /\ robbed => LooksAbandoned # {}
    /\ ~robbed =>
          /\ LockInv
          /\ \A r \in Recoverers : rpc[r] = "unlink" =>
                \/ LeftBy(target[r])
                \/ processState[r] = "unknown" /\ LooksAbandoned # {}

\* A run that was killed, or one that is still going, does not leave its issue
\* RUNNING for ever (README.md: a run that reached RUNNING converges to REVIEW
\* or FAILED; here, killed runs included, by way of recover-run).  Once a
\* recoverer has unlinked a wrong lock this is no longer so: two runs execute at
\* once, and the lock that one of them leaves behind refuses the recovery of the
\* other's issue for ever (recover-run.ts:27-29).
RunningConverges ==
    \A i \in Issues :
        (status[i] = "RUNNING" /\ ~robbed) ~> (status[i] # "RUNNING" \/ robbed)

\* As long as no live run has lost its lock to a recoverer two runs never execute
\* at once (run-issue.ts:64-67, recover-run.ts:28-42).
ExclusiveUnlessRobbed == ~robbed => MutualExclusion

\* recover-run.ts:22: "only RUNNING issues can be recovered"
RecoversOnlyRunning ==
    [][\A r \in Recoverers : RecMark(r) => status[target[r]] = "RUNNING"]_vars
=============================================================================
