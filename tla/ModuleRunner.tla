---------------------------- MODULE ModuleRunner ----------------------------
(***************************************************************************)
(* packages/core/src/runtime/module-runner.ts with the modules that have an     *)
(* effect, in the order of the recipes: state-transition, audit-log and           *)
(* git-checkpoint.  Several runs share one audit file, one queue of writes to it   *)
(* and the vault's repository, in which the file lies and which people may stage    *)
(* and change as well.                                                            *)
(***************************************************************************)
EXTENDS IssueStatus, Naturals, Sequences, SequencesExt

CONSTANTS Runs, Requests,  \* run -> the status of its issue and the one requested
          MaxFaults,       \* bound on calls that fail
          Changes          \* what people may change in the vault

VARIABLES
    pc,         \* run -> the module it is in, and where
    allowed,    \* run -> policy.allowedSideEffects
    moved,      \* runs whose issue is now the updated one
    writeQueue, \* runs whose line is in AsyncQueue, the first being written
    log,        \* the audit file's lines, by their run
    edited,     \* changes people made in the vault
    index, head,\* what is staged, and committed, of lines and changes
    unstaged,   \* runs whose `git add` failed
    faults

vars == <<pc, allowed, moved, writeQueue, log, edited, index, head, unstaged, faults>>

Effects == {"writeIssue", "writeEvent", "gitCommit"}
Places  == {"new", "transition", "audit", "queued", "checkpoint", "commit", "done", "failed"}

TypeOK ==
    /\ pc \in [Runs -> Places] /\ allowed \in [Runs -> SUBSET Effects] /\ moved \subseteq Runs
    /\ writeQueue \in Seq(Runs) /\ log \in Seq(Runs) /\ edited \subseteq Changes
    /\ index \subseteq Runs \cup Changes /\ head \subseteq index
    /\ unstaged \subseteq Runs /\ faults \in 0..MaxFaults

Init == /\ pc = [r \in Runs |-> "new"] /\ allowed = [r \in Runs |-> Effects]
        /\ moved = {} /\ writeQueue = <<>> /\ log = <<>> /\ edited = {}
        /\ index = {} /\ head = {} /\ unstaged = {} /\ faults = 0

Goes(r, place) == pc' = [pc EXCEPT ![r] = place]
Fault == faults < MaxFaults /\ faults' = faults + 1
OnDisk == ToSet(log) \cup edited

\* run is called, under a policy that allows everything or not
Begin(r) ==
    /\ pc[r] = "new" /\ Goes(r, "transition")
    /\ \E effects \in {Effects} \cup {Effects \ {e} : e \in Effects} :
         allowed' = [allowed EXCEPT ![r] = effects]
    /\ UNCHANGED <<moved, writeQueue, log, edited, index, head, unstaged, faults>>

\* assertSideEffectsAllowed, of a module when its turn comes
Denied(r, effect) == effect \notin allowed[r] /\ Goes(r, "failed")

\* state-transition
StateTransition(r) ==
    /\ pc[r] = "transition"
    /\ \/ Denied(r, "writeIssue") /\ UNCHANGED moved
       \/ /\ "writeIssue" \in allowed[r]
          /\ IF CanTransition(Requests[r].from, Requests[r].to)
             THEN Goes(r, "audit") /\ moved' = moved \cup {r}
             ELSE Goes(r, "failed") /\ UNCHANGED moved
    /\ UNCHANGED <<allowed, writeQueue, log, edited, index, head, unstaged, faults>>

\* A slip: the module does not wait for its line
EnqueueAndGo(r) ==
    /\ pc[r] = "audit" /\ Goes(r, "checkpoint")
    /\ writeQueue' = Append(writeQueue, r)
    /\ UNCHANGED <<allowed, moved, log, edited, index, head, unstaged, faults>>

\* audit-log: writeQueue.enqueue, awaited
Enqueue(r) ==
    /\ pc[r] = "audit"
    /\ \/ Denied(r, "writeEvent") /\ UNCHANGED writeQueue
       \/ /\ "writeEvent" \in allowed[r] /\ Goes(r, "queued")
          /\ writeQueue' = Append(writeQueue, r)
    /\ UNCHANGED <<allowed, moved, log, edited, index, head, unstaged, faults>>

\* mkdir and appendFile of the first in the queue; a failure is its caller's, and the
\* next one is written
Written ==
    /\ writeQueue # <<>> /\ writeQueue' = Tail(writeQueue)
    /\ \/ log' = Append(log, Head(writeQueue)) /\ UNCHANGED faults
          /\ pc' = [pc EXCEPT ![Head(writeQueue)] = IF @ = "queued" THEN "checkpoint" ELSE @]
       \/ Fault /\ UNCHANGED log
          /\ pc' = [pc EXCEPT ![Head(writeQueue)] = IF @ = "queued" THEN "failed" ELSE @]
    /\ UNCHANGED <<allowed, moved, edited, index, head, unstaged>>

\* git-checkpoint: git add -A, whose exit code nobody looks at
Stage(r) ==
    /\ pc[r] = "checkpoint"
    /\ \/ Denied(r, "gitCommit") /\ UNCHANGED <<index, unstaged, faults>>
       \/ /\ "gitCommit" \in allowed[r] /\ Goes(r, "commit")
          /\ \/ index' = OnDisk /\ UNCHANGED <<unstaged, faults>>
             \/ Fault /\ unstaged' = unstaged \cup {r} /\ UNCHANGED index
    /\ UNCHANGED <<allowed, moved, writeQueue, log, edited, head>>

\* A slip: any commit that fails is one with nothing to commit
CommitAnyhow(r) ==
    /\ pc[r] = "commit" /\ Goes(r, "done")
    /\ \/ head' = index /\ UNCHANGED faults
       \/ Fault /\ UNCHANGED head
    /\ UNCHANGED <<allowed, moved, writeQueue, log, edited, index, unstaged>>

\* git commit.  With nothing staged it fails, which is fine if its output says
\* "nothing to commit": not if there are changes that are not staged.
Commit(r) ==
    /\ pc[r] = "commit"
    /\ \/ /\ index # head /\ head' = index /\ Goes(r, "done") /\ UNCHANGED faults
       \/ /\ index = head /\ UNCHANGED <<head, faults>>
          /\ Goes(r, IF OnDisk = head THEN "done" ELSE "failed")
       \/ Fault /\ Goes(r, "failed") /\ UNCHANGED head
    /\ UNCHANGED <<allowed, moved, writeQueue, log, edited, index, unstaged>>

\* People change the vault
Edit == /\ \E c \in Changes \ edited : edited' = edited \cup {c}
        /\ UNCHANGED <<pc, allowed, moved, writeQueue, log, index, head, unstaged, faults>>

Next == \/ \E r \in Runs : Begin(r) \/ StateTransition(r) \/ Enqueue(r) \/ Stage(r) \/ Commit(r)
        \/ Written \/ Edit

Spec == Init /\ [][Next]_vars

-----------------------------------------------------------------------------
\* A run that succeeds is committed: its issue moved, its line once in the file and in
\* the repository's head, whoever staged and committed it, unless its own `git add`
\* failed
SuccessIsCommitted ==
    \A r \in Runs : pc[r] = "done" => /\ r \in moved /\ r \in ToSet(log)
                                      /\ r \in unstaged \/ r \in head

\* What is in the file once is there for a run that got that far, and nobody waits for
\* a line that is not to be written
LinesAwaited ==
    /\ IsInjective(log \o writeQueue)
    /\ \A r \in Runs : pc[r] = "queued" <=> r \in ToSet(writeQueue)
    /\ \A r \in ToSet(log) : r \in moved /\ pc[r] \in {"checkpoint", "commit", "done", "failed"}

RunnerInv == TypeOK /\ SuccessIsCommitted /\ LinesAwaited
=============================================================================
