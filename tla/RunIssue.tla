------------------------------ MODULE RunIssue ------------------------------
(***************************************************************************)
(* packages/core/src/executor/run-issue.ts: one call of runIssueWithAgent,  *)
(* from the granted lock to its release, with the WorkflowEngine and the     *)
(* NodeFsVaultPort it writes the issue note through, the artifacts it leaves  *)
(* behind, and people who edit or move the same issue meanwhile.             *)
(*                                                                         *)
(* One step per awaited call.  Any of them may fail; a failure of the note's *)
(* own file is told apart (NoteFails), being handled unlike the rest.         *)
(* The run log is not kept: a failure to write it only decides the outcome.  *)
(***************************************************************************)
EXTENDS IssueStatus, Naturals, Sequences

CONSTANTS
    MaxFailures,   \* bound on the calls that fail
    MaxEdits,      \* bound on edits of the body by people
    MaxMoves       \* bound on moves of the issue by people

ASSUME RunAssumption ==
    MaxFailures \in Nat /\ MaxEdits \in Nat /\ MaxMoves \in Nat

VARIABLES
    note,       \* the issue note: status, and the entries of its body
    pc,         \* the call the run is about to make
    ret,        \* where the engine's transition returns to
    seen,       \* status of the record given to the engine
    buf,        \* the note read by vault.process, to be rewritten
    raced,      \* somebody wrote the note since then
    original,   \* original.body
    outcome,    \* outcome
    metadata,   \* metadata.outcome
    work,       \* the worktree: none, base, dirty or committed
    metaFile,   \* outcome in run-<n>.json; "torn" after a failed write
    events,     \* outcomes in events/<date>.jsonl
    result,     \* what the call returned: an outcome, or "threw"
    noteFailed, \* a read or write of the note failed
    failures, edits, moves

noteVars == <<note, buf, raced>>
memory   == <<ret, seen, original, outcome, metadata, result>>
disk     == <<work, metaFile, events>>
bounds   == <<noteFailed, failures, edits, moves>>
vars     == <<noteVars, pc, memory, disk, bounds>>

Outcomes == {"REVIEW", "FAILED"}
Entries  == {"edit", "RUNNING", "REVIEW", "FAILED"}    \* an edit, or a log entry
Notes    == [status : Statuses, body : SUBSET Entries]

Returns == {"worktree", "metadata", "event", "eventRetry"}
Calls == Returns \cup
         {"original", "transition", "process", "rename", "agent", "checkpoint", "log",
          "final", "rollback", "rollbackRename", "reread", "eventMeta", "release", "done"}

TypeOK == /\ note \in Notes /\ buf \in Notes /\ raced \in BOOLEAN
          /\ pc \in Calls
          /\ ret \in Returns
          /\ seen \in Statuses
          /\ original \in SUBSET Entries
          /\ outcome \in Outcomes /\ metadata \in Outcomes
          /\ work \in {"none", "base", "dirty", "committed"}
          /\ metaFile \in Outcomes \cup {"none", "torn"}
          /\ events \in Seq(Outcomes)
          /\ result \in Outcomes \cup {"none", "threw"}
          /\ noteFailed \in BOOLEAN
          /\ failures \in 0..MaxFailures
          /\ edits \in 0..MaxEdits
          /\ moves \in 0..MaxMoves

Init == /\ note \in [status : Statuses, body : {{}}] /\ buf = note /\ raced = FALSE
        /\ pc = "original" /\ ret = "worktree"
        /\ seen = "READY" /\ original = {}
        /\ outcome = "FAILED" /\ metadata = "FAILED"
        /\ work = "none" /\ metaFile = "none" /\ events = <<>>
        /\ result = "none"
        /\ noteFailed = FALSE /\ failures = 0 /\ edits = 0 /\ moves = 0

\* A call succeeds, or fails within the bound
Succeeds == UNCHANGED bounds
Fails == /\ failures < MaxFailures
         /\ failures' = failures + 1
         /\ UNCHANGED <<noteFailed, edits, moves>>
NoteFails == /\ failures < MaxFailures
             /\ failures' = failures + 1 /\ noteFailed' = TRUE
             /\ UNCHANGED <<edits, moves>>

\* An exception leaves the try block: on to its finally
Throw == /\ pc' = "release" /\ result' = "threw"
         /\ UNCHANGED <<ret, seen, original, outcome, metadata>>

-----------------------------------------------------------------------------
(* Before RUNNING *)

\* readIssueDocument and the READY check; nextRunNumber may fail
ReadOriginal ==
    /\ pc = "original"
    /\ \/ /\ note.status = "READY" /\ Succeeds
          /\ original' = note.body /\ seen' = note.status
          /\ pc' = "transition" /\ ret' = "worktree"
          /\ UNCHANGED <<outcome, metadata, result>>
       \/ note.status # "READY" /\ Succeeds /\ Throw
       \/ Fails /\ Throw
    /\ UNCHANGED <<noteVars, disk>>

-----------------------------------------------------------------------------
(* WorkflowEngine.transition of the record with status `seen`, through          *)
(* NodeFsVaultPort.process: validate, read and check freshness, rename           *)

Goal == IF ret = "worktree" THEN "RUNNING" ELSE outcome

Validate ==
    /\ pc = "transition"
    /\ \/ /\ ~EngineAccepts("task", seen, Goal)
          /\ Throw
       \/ /\ EngineAccepts("task", seen, Goal)
          /\ pc' = IF seen = Goal THEN ret ELSE "process"
          /\ UNCHANGED memory
    /\ UNCHANGED <<noteVars, disk, bounds>>

\* A slip: the freshness guard is lost
ProcessReadUnguarded ==
    /\ pc = "process"
    /\ pc' = "rename" /\ buf' = note /\ raced' = FALSE /\ UNCHANGED <<note, memory>> /\ Succeeds
    /\ UNCHANGED disk

\* fs.readFile and the updater's guard of the status it finds
ProcessRead ==
    /\ pc = "process"
    /\ \/ /\ note.status = seen /\ Succeeds
          /\ pc' = "rename" /\ buf' = note /\ raced' = FALSE
          /\ UNCHANGED <<note, memory>>
       \/ note.status # seen /\ Succeeds /\ Throw /\ UNCHANGED noteVars
       \/ NoteFails /\ Throw /\ UNCHANGED noteVars
    /\ UNCHANGED disk

\* A slip: the body is the record's, not the one just read
RenameStaleBody ==
    /\ pc = "rename" /\ pc' = ret /\ Succeeds
    /\ note' = [status |-> Goal, body |-> original \cup {Goal}]
    /\ UNCHANGED <<buf, raced, memory, disk>>

\* atomicWriteFile: the whole note is replaced
Rename ==
    /\ pc = "rename"
    /\ \/ /\ note' = [status |-> Goal, body |-> buf.body \cup {Goal}] /\ Succeeds
          /\ pc' = ret
          /\ UNCHANGED <<buf, raced, memory>>
       \/ NoteFails /\ Throw /\ UNCHANGED noteVars
    /\ UNCHANGED disk

-----------------------------------------------------------------------------
(* Worktree, agent, checkpoint *)

\* A slip: the exception is not caught
PrepareWorktreeThrows ==
    /\ pc = "worktree"
    /\ \/ work' = "base" /\ pc' = "agent" /\ Succeeds /\ UNCHANGED memory
       \/ UNCHANGED work /\ Fails /\ Throw
    /\ UNCHANGED <<noteVars, metaFile, events>>

\* createKanbanWorktree, revParse, writePrompt: a failure is caught and the run
\* goes on to record it
PrepareWorktree ==
    /\ pc = "worktree"
    /\ \/ work' = "base" /\ pc' = "agent" /\ Succeeds
       \/ work' \in {"none", "base"} /\ pc' = "log" /\ Fails
    /\ UNCHANGED <<noteVars, memory, metaFile, events>>

\* runAgentSafely: exit zero or not, with or without changes in the worktree
RunAgent ==
    /\ pc = "agent"
    /\ work' \in {"base", "dirty"}
    /\ pc' \in {"checkpoint", "log"}
    /\ UNCHANGED <<noteVars, memory, metaFile, events, bounds>>

\* A slip: the test for an empty git status is lost
CheckpointAlways ==
    /\ pc = "checkpoint" /\ pc' = "log" /\ Succeeds
    /\ outcome' = "REVIEW" /\ work' = IF work = "dirty" THEN "committed" ELSE work
    /\ UNCHANGED <<noteVars, ret, seen, original, metadata, result, metaFile, events>>

\* git status, add, commit, rev-parse: REVIEW only if the commit advanced HEAD
Checkpoint ==
    /\ pc = "checkpoint"
    /\ \/ work = "base" /\ Succeeds /\ UNCHANGED <<work, outcome>>
       \/ work = "dirty" /\ Succeeds /\ work' = "committed" /\ outcome' = "REVIEW"
       \/ /\ Fails /\ UNCHANGED outcome
          /\ UNCHANGED work \/ (work = "dirty" /\ work' = "committed")
    /\ pc' = "log"
    /\ UNCHANGED <<noteVars, ret, seen, original, metadata, result, metaFile, events>>

-----------------------------------------------------------------------------
(* The artifacts and the final status *)

\* What a failed artifact does: the run is a failure after all
Reconverge == /\ outcome' = "FAILED" /\ metadata' = "FAILED"
              /\ UNCHANGED <<original, result>>

\* writeFinalIssueState is called, to continue at `next`
CallFinal(next) == pc' = "final" /\ ret' = next /\ UNCHANGED seen

\* The metadata is built, the run log is written (retried once, best effort)
WriteLog ==
    /\ pc = "log"
    /\ CallFinal("metadata")
    /\ \/ Succeeds /\ metadata' = outcome /\ UNCHANGED <<original, outcome, result>>
       \/ Fails /\ Reconverge
    /\ UNCHANGED <<noteVars, disk>>

\* writeFinalIssueState reads the latest note
ReadLatest ==
    /\ pc = "final"
    /\ \/ /\ seen' = note.status /\ Succeeds
          /\ pc' = IF note.status = "REVIEW" /\ outcome = "FAILED"
                   THEN "rollback" ELSE "transition"
          /\ UNCHANGED <<ret, original, outcome, metadata, result>>
       \/ NoteFails /\ Throw
    /\ UNCHANGED <<noteVars, disk>>

\* vault.process reads the note of a REVIEW to take back; no guard
RollbackRead ==
    /\ pc = "rollback"
    /\ \/ /\ buf' = note /\ raced' = FALSE /\ pc' = "rollbackRename" /\ Succeeds
          /\ UNCHANGED <<note, memory>>
       \/ NoteFails /\ Throw /\ UNCHANGED noteVars
    /\ UNCHANGED disk

\* ... and writes it back RUNNING, with the body the run started from
RollbackRename ==
    /\ pc = "rollbackRename"
    /\ \/ /\ note' = [status |-> "RUNNING", body |-> original] /\ Succeeds
          /\ pc' = "reread" /\ UNCHANGED <<buf, raced, memory>>
       \/ NoteFails /\ Throw /\ UNCHANGED noteVars
    /\ UNCHANGED disk

Reread ==
    /\ pc = "reread"
    /\ \/ /\ seen' = note.status /\ pc' = "transition" /\ Succeeds
          /\ UNCHANGED <<ret, original, outcome, metadata, result>>
       \/ NoteFails /\ Throw
    /\ UNCHANGED <<noteVars, disk>>

\* A slip: a failed write of the metadata is only logged
WriteMetadataIgnored ==
    /\ pc = "metadata" /\ pc' = "event"
    /\ \/ metaFile' = metadata /\ Succeeds
       \/ metaFile' = "torn" /\ Fails
    /\ UNCHANGED <<noteVars, memory, work, events>>

WriteMetadata ==
    /\ pc = "metadata"
    /\ \/ metaFile' = metadata /\ pc' = "event" /\ Succeeds /\ UNCHANGED memory
       \/ metaFile' \in {metaFile, "torn"} /\ Fails /\ Reconverge /\ CallFinal("event")
    /\ UNCHANGED <<noteVars, work, events>>

Return == pc' = "release" /\ result' = outcome
          /\ UNCHANGED <<ret, seen, original, outcome, metadata>>

AppendEvent ==
    /\ pc = "event"
    /\ \/ events' = Append(events, outcome) /\ Succeeds /\ Return
       \/ /\ Fails /\ Reconverge
          /\ pc' = "eventMeta" /\ UNCHANGED <<events, ret, seen>>
    /\ UNCHANGED <<noteVars, work, metaFile>>

\* A slip: the metadata is not rewritten once the event failed
KeepMetadata ==
    /\ pc = "eventMeta"
    /\ CallFinal("eventRetry")
    /\ UNCHANGED <<metaFile, bounds, noteVars, original, outcome, metadata, result, work, events>>

\* A slip: the event is appended again before the note is taken back
EventBeforeNote ==
    /\ pc = "eventMeta" /\ pc' = "eventRetry" /\ metaFile' = metadata /\ Succeeds
    /\ UNCHANGED <<noteVars, memory, work, events>>

\* After a failed event: the metadata is rewritten, best effort
RewriteMetadata ==
    /\ pc = "eventMeta"
    /\ CallFinal("eventRetry")
    /\ \/ metaFile' = metadata /\ Succeeds
       \/ metaFile' \in {metaFile, "torn"} /\ Fails
    /\ UNCHANGED <<noteVars, original, outcome, metadata, result, work, events>>

\* ... and the event appended again, best effort
RetryEvent ==
    /\ pc = "eventRetry"
    /\ Return
    /\ \/ events' = Append(events, outcome) /\ Succeeds
       \/ Fails /\ UNCHANGED events
    /\ UNCHANGED <<noteVars, work, metaFile>>

\* finally { await lock.release() }, whose failure replaces the result
Release ==
    /\ pc = "release" /\ pc' = "done"
    /\ \/ Succeeds /\ UNCHANGED result
       \/ Fails /\ result' = "threw"
    /\ UNCHANGED <<noteVars, ret, seen, original, outcome, metadata, disk>>

-----------------------------------------------------------------------------
(* People: an editor that saves the note, `kanban move` and `kanban approve` *)

\* A write by somebody else, maybe while process() is between read and rename
Writes(n) == note' = n /\ raced' = (raced \/ pc \in {"rename", "rollbackRename"})

Edit ==
    /\ edits < MaxEdits
    /\ Writes([note EXCEPT !.body = @ \cup {"edit"}])
    /\ edits' = edits + 1
    /\ UNCHANGED <<buf, pc, memory, disk, noteFailed, failures, moves>>

Move ==
    /\ moves < MaxMoves
    /\ \E s \in Statuses : CanTransition(note.status, s) /\ Writes([note EXCEPT !.status = s])
    /\ moves' = moves + 1
    /\ UNCHANGED <<buf, pc, memory, disk, noteFailed, failures, edits>>

-----------------------------------------------------------------------------
RunStep == \/ ReadOriginal \/ Validate \/ ProcessRead \/ Rename
           \/ PrepareWorktree \/ RunAgent \/ Checkpoint \/ WriteLog
           \/ ReadLatest \/ RollbackRead \/ RollbackRename \/ Reread
           \/ WriteMetadata \/ AppendEvent \/ RewriteMetadata \/ RetryEvent \/ Release

Finished == pc = "done" /\ UNCHANGED vars

Next == RunStep \/ Edit \/ Move \/ Finished

Spec == Init /\ [][Next]_vars

\* Every awaited call settles; the agent's does because of its timeout
\* (module AgentProcess).
FairSpec == Spec /\ WF_vars(RunStep)

-----------------------------------------------------------------------------
(* What the run promises *)

\* Nobody but the run changed the status
Undisturbed == moves = 0

\* A run that returned left the note in the status it returned, with the log
\* entry that says why, and REVIEW only for a checkpoint that is in git
\* (run-issue.ts:203-321).
Reported ==
    Undisturbed /\ pc = "done" /\ result \in Outcomes =>
        /\ note.status = result /\ result \in note.body
        /\ result = "REVIEW" => work = "committed"

\* The run got as far as marking its note RUNNING
Entered == ret # "worktree" \/ "RUNNING" \in note.body

\* A run that went RUNNING does not leave the note RUNNING (README.md:119),
\* whichever calls failed, as long as they were not those on the note itself.
Converged ==
    Undisturbed /\ ~noteFailed /\ pc = "done" /\ Entered => note.status # "RUNNING"

\* Whatever call failed, and however late, and whoever moved the issue, the run
\* does not end in REVIEW (docs/kanban-runtime.md: artifact failures after a
\* REVIEW candidate must reconverge to FAILED).
FaultsEndFailed ==
    pc = "done" /\ failures > 0 => result # "REVIEW"

\* One failure leaves one event, and no readable metadata, that say otherwise
\* than the note (run-issue.ts:247-313).
ArtifactsAgree ==
    pc = "done" /\ failures <= 1 /\ result \in Outcomes =>
        /\ events = <<result>>
        /\ metaFile \in {result, "torn", "none"}

\* The event follows the note: what is appended is the status the note already
\* has (run-issue.test.ts: no REVIEW event when the final write fails).
EventsFollowNote ==
    [][Undisturbed /\ events' # events => events'[Len(events')] = note.status]_vars

\* A note the run made RUNNING does not stay RUNNING, whichever other calls fail
RunningEnds ==
    note.status = "RUNNING" /\ Entered
        ~> note.status # "RUNNING" \/ noteFailed \/ ~Undisturbed

\* Whoever moves the issue meanwhile, a note nobody wrote between process()'s read
\* and its rename moves along the table of transitions (README.md:280, the eight
\* transitions): also when a REVIEW is taken back.
LegalTransitions ==
    [][note'.status # note.status =>
          CanTransition(note.status, note'.status) \/ raced]_vars

\* ... which the freshness guard of workflow-engine.ts:99-105 is good for.  The
\* taking back of a REVIEW has no guard.
GuardedTransitions ==
    [][note'.status # note.status =>
          CanTransition(note.status, note'.status) \/ raced \/ RollbackRename]_vars

\* What people wrote into the body is lost to no write of the engine (workflow-
\* engine.ts:109, "Preserve current body edits"), with the same two exceptions:
\* run-issue.ts:227 writes the body the run started from.
TransitionsKeepEdits ==
    [][("edit" \in note.body) => ("edit" \in note'.body) \/ raced \/ RollbackRename]_vars

-----------------------------------------------------------------------------
(* Why: where the run's own place in the code and its outcome stand, whoever   *)
(* moves the issue, and the note with them while nobody does                  *)

Writing == pc \in {"transition", "process", "rename"}

\* Until the checkpoint is in git nothing has failed and the outcome is FAILED
BeforeOutcome ==
    pc \in {"original", "worktree", "agent", "checkpoint"} \/ (Writing /\ ret = "worktree")
        => ret = "worktree" /\ outcome = "FAILED" /\ failures = 0

\* writeFinalIssueState is entered again only to record FAILED
LaterCalls ==
    /\ pc \in {"final", "rollback", "rollbackRename", "reread"} => ret # "worktree"
    /\ pc \in {"rollback", "rollbackRename", "reread", "eventMeta"} => outcome = "FAILED"
    /\ pc = "eventRetry" => ret = "eventRetry"
    /\ ret = "eventRetry" => outcome = "FAILED"

\* REVIEW always stands for a commit and for a run without a failure
ReviewEarned ==
    /\ outcome = "REVIEW" => work = "committed"
    /\ pc \notin {"release", "done"} /\ outcome = "REVIEW" => failures = 0
    /\ pc \in {"release", "done"} /\ result = "REVIEW" => work = "committed" /\ failures = 0

\* The way to RUNNING
BeforeAgent ==
    /\ pc = "original" => "RUNNING" \notin note.body
    /\ Writing /\ ret = "worktree" => seen = "READY" /\ note.status = "READY"
    /\ pc \in {"worktree", "agent", "checkpoint", "log"} => note.status = "RUNNING"

\* The note already has an outcome, and says why
Settled(s) == note.status = s /\ s \in note.body

\* writeFinalIssueState, first call and later ones
InFinal ==
    /\ pc = "final" => note.status = "RUNNING"
                        \/ (outcome = "FAILED" /\ \E s \in Outcomes : Settled(s))
    /\ pc \in {"rollback", "rollbackRename"} => note.status = "REVIEW"
    /\ pc = "reread" => note.status = "RUNNING"
    /\ Writing /\ ret # "worktree" =>
          seen = note.status /\ (note.status = "RUNNING" \/ Settled(outcome))

\* Between two calls of it
BetweenFinals ==
    /\ pc \in {"metadata", "event", "eventRetry"} => Settled(outcome)
    /\ pc = "eventMeta" => \E s \in Outcomes : Settled(s)

AtTheEnd ==
    pc \in {"release", "done"} =>
        /\ result \in Outcomes => Settled(result)
        /\ ~noteFailed /\ Entered => note.status # "RUNNING"

InStep == BeforeAgent /\ InFinal /\ BetweenFinals /\ AtTheEnd

RunInv == /\ TypeOK /\ BeforeOutcome /\ LaterCalls /\ ReviewEarned
          /\ Undisturbed => InStep
=============================================================================
