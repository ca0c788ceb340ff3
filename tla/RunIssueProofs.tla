--------------------------- MODULE RunIssueProofs ---------------------------
(***************************************************************************)
(* Proofs about one run of an issue, for any number of failing calls, edits  *)
(* and moves, whether the note's own file may fail or not.                   *)
(***************************************************************************)
EXTENDS RunIssue, TLAPS

\* Where the run is in its code and what it decided, whoever writes the note
Flow == BeforeOutcome /\ LaterCalls /\ ReviewEarned

LEMMA EventAppended ==
    events \in Seq(Outcomes) /\ outcome \in Outcomes
        => Append(events, outcome) \in Seq(Outcomes)
OBVIOUS

\* The two flags stay flags
LEMMA Flags ==
    ASSUME TypeOK, [Next]_vars
    PROVE  raced' \in BOOLEAN /\ noteFailed' \in BOOLEAN
<1>1. raced \in BOOLEAN /\ noteFailed \in BOOLEAN
  BY Zenon DEF TypeOK
<1>2. noteFailed' = noteFailed \/ noteFailed' = TRUE
  BY Zenon DEF Next, RunStep, Finished, vars, bounds, Succeeds, Fails, NoteFails,
     ReadOriginal, Validate, ProcessRead, Rename, PrepareWorktree, RunAgent, Checkpoint,
     WriteLog, ReadLatest, RollbackRead, RollbackRename, Reread, WriteMetadata,
     AppendEvent, RewriteMetadata, RetryEvent, Release, Edit, Move
<1>3. raced' = raced \/ raced' = FALSE \/ raced' = (raced \/ pc \in {"rename", "rollbackRename"})
  BY Zenon DEF Next, RunStep, Finished, vars, noteVars, Writes,
     ReadOriginal, Validate, ProcessRead, Rename, PrepareWorktree, RunAgent, Checkpoint,
     WriteLog, ReadLatest, RollbackRead, RollbackRename, Reread, WriteMetadata,
     AppendEvent, RewriteMetadata, RetryEvent, Release, Edit, Move
<1>. QED
  BY <1>1, <1>2, <1>3, Zenon

\* Every step keeps every variable in its range
LEMMA RunTypes == TypeOK /\ [Next]_vars => TypeOK'
<1> SUFFICES ASSUME TypeOK, [Next]_vars PROVE TypeOK'
    OBVIOUS
<1>0. raced' \in BOOLEAN /\ noteFailed' \in BOOLEAN
      BY Flags
<1> USE <1>0, RunAssumption DEF TypeOK, Notes, Calls, Returns, Outcomes, Statuses
<1>1. CASE ReadOriginal
      BY <1>1 DEF ReadOriginal, Succeeds, Fails, Throw, bounds, noteVars, disk
<1>2. CASE Validate
      BY <1>2 DEF Validate, Throw, noteVars, disk, bounds, memory
<1>3. CASE ProcessRead
      BY <1>3 DEF ProcessRead, Succeeds, NoteFails, Throw, noteVars, disk, bounds, memory
<1>4. CASE Rename
  <2>1. Goal \in {"RUNNING", "REVIEW", "FAILED"}
        BY DEF Goal
  <2>2. Goal \in Statuses /\ Goal \in Entries
        BY <2>1 DEF Entries
  <2>3. buf.body \cup {Goal} \in SUBSET Entries
        BY <2>2
  <2>4. [status |-> Goal, body |-> buf.body \cup {Goal}] \in Notes
        BY <2>2, <2>3
  <2>5. QED
        BY <1>4, <2>4 DEF Rename, Succeeds, NoteFails, Throw, noteVars, disk, bounds, memory
<1>5. CASE PrepareWorktree
      BY <1>5 DEF PrepareWorktree, Succeeds, Fails, noteVars, bounds, memory
<1>6. CASE RunAgent
      BY <1>6 DEF RunAgent, noteVars, bounds, memory
<1>7. CASE Checkpoint
      BY <1>7 DEF Checkpoint, Succeeds, Fails, noteVars, bounds
<1>8. CASE WriteLog
      BY <1>8 DEF WriteLog, CallFinal, Reconverge, Succeeds, Fails, noteVars, disk, bounds
<1>9. CASE ReadLatest
      BY <1>9 DEF ReadLatest, Succeeds, NoteFails, Throw, noteVars, disk, bounds
<1>10. CASE RollbackRead
      BY <1>10 DEF RollbackRead, Succeeds, NoteFails, Throw, noteVars, disk, bounds, memory
<1>11. CASE RollbackRename
      BY <1>11 DEF RollbackRename, Succeeds, NoteFails, Throw, noteVars, disk, bounds, memory
<1>12. CASE Reread
      BY <1>12 DEF Reread, Succeeds, NoteFails, Throw, noteVars, disk, bounds
<1>13. CASE WriteMetadata
      BY <1>13 DEF WriteMetadata, CallFinal, Reconverge, Succeeds, Fails, noteVars, bounds, memory
<1>14. CASE AppendEvent
  <2>1. events' = events \/ events' = Append(events, outcome)
        BY <1>14 DEF AppendEvent
  <2>2. events' \in Seq(Outcomes)
        BY ONLY <2>1, EventAppended, TypeOK DEF TypeOK
  <2>3. QED
        BY <1>14, <2>2 DEF AppendEvent, Return, Reconverge, Succeeds, Fails, noteVars, bounds
<1>15. CASE RewriteMetadata
      BY <1>15 DEF RewriteMetadata, CallFinal, Succeeds, Fails, noteVars, bounds
<1>16. CASE RetryEvent
  <2>1. events' = events \/ events' = Append(events, outcome)
        BY <1>16 DEF RetryEvent
  <2>2. events' \in Seq(Outcomes)
        BY ONLY <2>1, EventAppended, TypeOK DEF TypeOK
  <2>3. QED
        BY <1>16, <2>2 DEF RetryEvent, Return, Succeeds, Fails, noteVars, bounds
<1>17. CASE Release
      BY <1>17 DEF Release, Succeeds, Fails, noteVars, disk, bounds
<1>18. CASE Edit
  <2>1. note.body \cup {"edit"} \in SUBSET Entries
        BY DEF Entries
  <2>2. note' = [status |-> note.status, body |-> note.body \cup {"edit"}]
        BY <1>18 DEF Edit, Writes
  <2>3. note' \in Notes
        BY <2>1, <2>2
  <2>4. QED
        BY <1>18, <2>3 DEF Edit, Writes, memory, disk
<1>19. CASE Move
      BY <1>19 DEF Move, Writes, memory, disk
<1>20. CASE UNCHANGED vars
      BY <1>20 DEF vars, noteVars, memory, disk, bounds
<1>21. QED
      BY <1>1, <1>2, <1>3, <1>4, <1>5, <1>6, <1>7, <1>8, <1>9, <1>10, <1>11, <1>12,
         <1>13, <1>14, <1>15, <1>16, <1>17, <1>18, <1>19, <1>20
      DEF Next, RunStep, Finished

\* Every step keeps the run's place in the code and its outcome together, whoever
\* writes the note meanwhile
LEMMA FlowInductive ==
    ASSUME TypeOK, Flow, [Next]_vars
    PROVE  Flow'
<1>. /\ failures \in Nat /\ pc \in Calls /\ ret \in Returns
     /\ outcome \in Outcomes /\ result \in Outcomes \cup {"none", "threw"}
      BY RunAssumption DEF TypeOK
<1>. USE DEF Flow, BeforeOutcome, LaterCalls, ReviewEarned, Outcomes, Returns, Writing
<1>1. CASE ReadOriginal
      BY <1>1 DEF ReadOriginal, Succeeds, Fails, Throw, noteVars, disk, bounds
<1>2. CASE Validate
      BY <1>2 DEF Validate, Goal, EngineAccepts, CanTransition, ValidTransitions,
         Throw, noteVars, disk, bounds, memory
<1>3. CASE ProcessRead
      BY <1>3 DEF ProcessRead, Goal, Succeeds, NoteFails, Throw, noteVars, disk,
         memory, bounds
<1>4. CASE Rename
      BY <1>4 DEF Rename, Goal, Succeeds, NoteFails, Throw, noteVars, disk, memory,
         bounds
<1>5. CASE PrepareWorktree
      BY <1>5 DEF PrepareWorktree, Succeeds, Fails, noteVars, memory, bounds
<1>6. CASE RunAgent
      BY <1>6 DEF RunAgent, noteVars, memory, bounds
<1>7. CASE Checkpoint
      BY <1>7 DEF Checkpoint, Succeeds, Fails, noteVars, bounds
<1>8. CASE WriteLog
      BY <1>8 DEF WriteLog, CallFinal, Reconverge, Succeeds, Fails, noteVars, disk,
         bounds
<1>9. CASE ReadLatest
      BY <1>9 DEF ReadLatest, Succeeds, NoteFails, Throw, noteVars, disk, bounds
<1>10. CASE RollbackRead
      BY <1>10 DEF RollbackRead, Succeeds, NoteFails, Throw, noteVars, disk, memory,
         bounds
<1>11. CASE RollbackRename
      BY <1>11 DEF RollbackRename, Succeeds, NoteFails, Throw, noteVars, disk, memory,
         bounds
<1>12. CASE Reread
      BY <1>12 DEF Reread, Succeeds, NoteFails, Throw, noteVars, disk, bounds
<1>13. CASE WriteMetadata
      BY <1>13 DEF WriteMetadata, CallFinal, Reconverge, Succeeds, Fails, noteVars,
         memory, bounds
<1>14. CASE AppendEvent
      BY <1>14 DEF AppendEvent, Return, Reconverge, Succeeds, Fails, noteVars, bounds
<1>15. CASE RewriteMetadata
      BY <1>15 DEF RewriteMetadata, CallFinal, Succeeds, Fails, noteVars, bounds
<1>16. CASE RetryEvent
      BY <1>16 DEF RetryEvent, Return, Succeeds, Fails, noteVars, bounds
<1>17. CASE Release
      BY <1>17 DEF Release, Succeeds, Fails, noteVars, disk, bounds
<1>18. CASE Edit
      BY <1>18 DEF Edit, Writes, memory, disk
<1>19. CASE Move
      BY <1>19 DEF Move, Writes, memory, disk
<1>20. CASE UNCHANGED vars
      BY <1>20 DEF vars, noteVars, memory, disk, bounds
<1>. QED
      BY <1>1, <1>2, <1>3, <1>4, <1>5, <1>6, <1>7, <1>8, <1>9, <1>10, <1>11, <1>12,
         <1>13, <1>14, <1>15, <1>16, <1>17, <1>18, <1>19, <1>20 DEF Next, RunStep,
         Finished

\* While people leave the status alone, every step keeps the note in step with
\* the run
LEMMA InStepInductive ==
    ASSUME RunInv, [Next]_vars, Undisturbed'
    PROVE  InStep'

<1>. /\ moves \in Nat /\ pc \in Calls /\ ret \in Returns /\ seen \in Statuses
     /\ note.status \in Statuses /\ outcome \in Outcomes
     /\ result \in Outcomes \cup {"none", "threw"}
      BY RunAssumption DEF RunInv, TypeOK, Notes
<1>0. Undisturbed /\ moves' = 0
  <2>1. moves' = moves \/ moves' = moves + 1
        BY DEF Next, RunStep, Finished, vars, AppendEvent, Checkpoint, Edit, Fails,
           Move, NoteFails, PrepareWorktree, ProcessRead, ReadLatest, ReadOriginal,
           Release, Rename, Reread, RetryEvent, RewriteMetadata, RollbackRead,
           RollbackRename, RunAgent, Succeeds, Validate, WriteLog, WriteMetadata,
           bounds
  <2>. QED
        BY <2>1 DEF Undisturbed
<1>. USE <1>0 DEF RunInv, InStep, BeforeAgent, InFinal, BetweenFinals, AtTheEnd, Settled,
      BeforeOutcome, LaterCalls, Outcomes, Returns, Entered, Writing
<1>1. CASE ReadOriginal
      BY <1>1 DEF ReadOriginal, Succeeds, Fails, Throw, noteVars, disk, bounds
<1>2. CASE Validate
      BY <1>2 DEF Validate, Goal, EngineAccepts, CanTransition, ValidTransitions,
         Throw, noteVars, disk, bounds, memory
<1>3. CASE ProcessRead
      BY <1>3 DEF ProcessRead, Goal, Succeeds, NoteFails, Throw, noteVars, disk,
         memory, bounds
<1>4. CASE Rename
      BY <1>4 DEF Rename, Goal, Succeeds, NoteFails, Throw, noteVars, disk, memory,
         bounds
<1>5. CASE PrepareWorktree
      BY <1>5 DEF PrepareWorktree, Succeeds, Fails, noteVars, memory, bounds
<1>6. CASE RunAgent
      BY <1>6 DEF RunAgent, noteVars, memory, bounds
<1>7. CASE Checkpoint
      BY <1>7 DEF Checkpoint, Succeeds, Fails, noteVars, bounds
<1>8. CASE WriteLog
      BY <1>8 DEF WriteLog, CallFinal, Reconverge, Succeeds, Fails, noteVars, disk,
         bounds
<1>9. CASE ReadLatest
      BY <1>9 DEF ReadLatest, Succeeds, NoteFails, Throw, noteVars, disk, bounds
<1>10. CASE RollbackRead
      BY <1>10 DEF RollbackRead, Succeeds, NoteFails, Throw, noteVars, disk, memory,
         bounds
<1>11. CASE RollbackRename
      BY <1>11 DEF RollbackRename, Succeeds, NoteFails, Throw, noteVars, disk, memory,
         bounds
<1>12. CASE Reread
      BY <1>12 DEF Reread, Succeeds, NoteFails, Throw, noteVars, disk, bounds
<1>13. CASE WriteMetadata
      BY <1>13 DEF WriteMetadata, CallFinal, Reconverge, Succeeds, Fails, noteVars,
         memory, bounds
<1>14. CASE AppendEvent
      BY <1>14 DEF AppendEvent, Return, Reconverge, Succeeds, Fails, noteVars, bounds
<1>15. CASE RewriteMetadata
      BY <1>15 DEF RewriteMetadata, CallFinal, Succeeds, Fails, noteVars, bounds
<1>16. CASE RetryEvent
      BY <1>16 DEF RetryEvent, Return, Succeeds, Fails, noteVars, bounds
<1>17. CASE Release
      BY <1>17 DEF Release, Succeeds, Fails, noteVars, disk, bounds
<1>18. CASE Edit
      BY <1>18 DEF Edit, Writes, memory, disk
<1>19. CASE Move
      BY <1>19 DEF Move, Writes, memory, disk
<1>20. CASE UNCHANGED vars
      BY <1>20 DEF vars, noteVars, memory, disk, bounds
<1>. QED
      BY <1>1, <1>2, <1>3, <1>4, <1>5, <1>6, <1>7, <1>8, <1>9, <1>10, <1>11, <1>12,
         <1>13, <1>14, <1>15, <1>16, <1>17, <1>18, <1>19, <1>20 DEF Next, RunStep,
         Finished

\* The run's place in the code, its outcome and the note agree at every step of
\* every run; the note for as long as nobody else moves the issue
THEOREM RunInvariance == Spec => []RunInv
<1>1. Init => RunInv
  <2> SUFFICES ASSUME Init PROVE RunInv
      OBVIOUS
  <2>0. raced \in BOOLEAN /\ noteFailed \in BOOLEAN
        BY Zenon DEF Init
  <2>1. TypeOK
        BY <2>0, RunAssumption DEF Init, TypeOK, Notes, Calls, Returns, Outcomes, Statuses
  <2>2. Flow /\ InStep
        BY DEF Init, Flow, BeforeOutcome, LaterCalls, ReviewEarned, InStep, BeforeAgent,
               InFinal, BetweenFinals, AtTheEnd, Writing
  <2>3. QED
        BY <2>1, <2>2 DEF RunInv, Flow
<1>2. RunInv /\ [Next]_vars => RunInv'
  <2> SUFFICES ASSUME RunInv, [Next]_vars PROVE RunInv'
      OBVIOUS
  <2>1. TypeOK'
        BY RunTypes DEF RunInv
  <2>2. Flow'
        BY FlowInductive DEF RunInv, Flow
  <2>3. Undisturbed' => InStep'
        BY InStepInductive
  <2>4. QED
        BY <2>1, <2>2, <2>3 DEF RunInv, Flow
<1>3. QED
      BY <1>1, <1>2, PTL DEF Spec

\* What a run returned is what the note says, and REVIEW stands for a commit
THEOREM RunReports == Spec => []Reported
<1>1. RunInv => Reported
      BY DEF RunInv, InStep, AtTheEnd, ReviewEarned, Settled, Reported
<1>2. QED
      BY <1>1, RunInvariance, PTL

\* While the note itself can be read and written, no run leaves it RUNNING
THEOREM RunConverges == Spec => []Converged
<1>1. RunInv => Converged
      BY DEF RunInv, InStep, AtTheEnd, Converged
<1>2. QED
      BY <1>1, RunInvariance, PTL

\* A run in which a call failed does not end in REVIEW
THEOREM FaultsNeverEndInReview == Spec => []FaultsEndFailed
<1>1. RunInv => FaultsEndFailed
  <2> SUFFICES ASSUME RunInv, pc = "done", failures > 0, result = "REVIEW" PROVE FALSE
      BY DEF FaultsEndFailed
  <2>1. failures = 0
        BY DEF RunInv, ReviewEarned
  <2>2. QED
        BY <2>1
<1>2. QED
      BY <1>1, RunInvariance, PTL

\* An event that is appended is the status the note has
THEOREM RunEventsFollowNote == Spec => EventsFollowNote
<1>1. RunInv /\ [Next]_vars => [Undisturbed /\ events' # events
                                 => events'[Len(events')] = note.status]_vars
  <2> SUFFICES ASSUME RunInv, Next, Undisturbed, events' # events
               PROVE  events'[Len(events')] = note.status
      BY DEF vars, disk
  <2>1. CASE AppendEvent \/ RetryEvent
    <3>1. events' = Append(events, outcome) /\ note.status = outcome
          BY <2>1 DEF AppendEvent, RetryEvent, RunInv, InStep, BetweenFinals, Settled
    <3>2. events \in Seq(Outcomes) /\ outcome \in Outcomes
          BY DEF RunInv, TypeOK
    <3>3. events'[Len(events')] = outcome
          BY ONLY <3>1, <3>2
    <3>4. QED
          BY <3>1, <3>3
  <2>2. CASE ~(AppendEvent \/ RetryEvent)
    <3>1. UNCHANGED events
          BY <2>2 DEF Next, RunStep, Finished, vars, disk, ReadOriginal, Validate, ProcessRead,
             Rename, PrepareWorktree, RunAgent, Checkpoint, WriteLog, ReadLatest, RollbackRead,
             RollbackRename, Reread, WriteMetadata, RewriteMetadata, Release, Edit, Move
    <3>2. QED
          BY <3>1
  <2>3. QED
        BY <2>1, <2>2
<1>2. QED
      BY <1>1, RunInvariance, PTL DEF Spec, EventsFollowNote

-----------------------------------------------------------------------------
(* The artifacts *)

\* Which call the run returns to from writeFinalIssueState
Returning ==
    /\ pc = "log" => ret = "worktree"
    /\ pc = "metadata" => ret = "metadata"
    /\ pc = "event" => ret \in {"metadata", "event"}

\* What run-<n>.json and the event file hold at each call, after one failure at most
Artifacts ==
    failures <= 1 =>
        /\ pc \notin {"release", "done"} => events = <<>>
        /\ ret = "worktree" => metaFile = "none"
        /\ ret = "metadata" /\ pc \notin {"event", "eventMeta", "release", "done"} =>
              metadata = outcome /\ metaFile = "none"
        /\ ret = "event" /\ pc \notin {"event", "eventMeta", "release", "done"} =>
              metaFile \in {"none", "torn"}
        /\ pc = "event" => metaFile \in {outcome, "none", "torn"}
        /\ pc = "eventMeta" => failures = 1 /\ metadata = "FAILED"
        /\ ret = "eventRetry" /\ pc \notin {"release", "done"} =>
              failures = 1 /\ metaFile = "FAILED"
        /\ pc \in {"release", "done"} /\ result \in Outcomes =>
              events = <<result>> /\ metaFile \in {result, "none", "torn"}

\* Every step keeps the artifacts where the run's place says they are
LEMMA ArtifactsInductive ==
    ASSUME RunInv, Returning, Artifacts, [Next]_vars
    PROVE  Returning' /\ Artifacts'
<1>. /\ failures \in Nat /\ pc \in Calls /\ ret \in Returns
     /\ outcome \in Outcomes /\ result \in Outcomes \cup {"none", "threw"}
      BY RunAssumption DEF RunInv, TypeOK
<1>. BeforeOutcome /\ LaterCalls
      BY DEF RunInv
<1>. USE DEF Returning, Artifacts, BeforeOutcome, LaterCalls, Outcomes, Returns, Writing
<1>1. CASE ReadOriginal
      BY <1>1 DEF ReadOriginal, Succeeds, Fails, Throw, noteVars, disk, bounds
<1>2. CASE Validate
      BY <1>2 DEF Validate, Goal, EngineAccepts, Throw, noteVars, disk, bounds, memory
<1>3. CASE ProcessRead
      BY <1>3 DEF ProcessRead, Goal, Succeeds, NoteFails, Throw, noteVars, disk, memory, bounds
<1>4. CASE Rename
      BY <1>4 DEF Rename, Goal, Succeeds, NoteFails, Throw, noteVars, disk, memory, bounds
<1>5. CASE PrepareWorktree
      BY <1>5 DEF PrepareWorktree, Succeeds, Fails, noteVars, memory, bounds
<1>6. CASE RunAgent
      BY <1>6 DEF RunAgent, noteVars, memory, bounds
<1>7. CASE Checkpoint
      BY <1>7 DEF Checkpoint, Succeeds, Fails, noteVars, bounds
<1>8. CASE WriteLog
      BY <1>8 DEF WriteLog, CallFinal, Reconverge, Succeeds, Fails, noteVars, disk, bounds
<1>9. CASE ReadLatest
      BY <1>9 DEF ReadLatest, Succeeds, NoteFails, Throw, noteVars, disk, bounds
<1>10. CASE RollbackRead
      BY <1>10 DEF RollbackRead, Succeeds, NoteFails, Throw, noteVars, disk, memory, bounds
<1>11. CASE RollbackRename
      BY <1>11 DEF RollbackRename, Succeeds, NoteFails, Throw, noteVars, disk, memory, bounds
<1>12. CASE Reread
      BY <1>12 DEF Reread, Succeeds, NoteFails, Throw, noteVars, disk, bounds
<1>13. CASE WriteMetadata
      BY <1>13 DEF WriteMetadata, CallFinal, Reconverge, Succeeds, Fails, noteVars, memory, bounds
<1>14. CASE AppendEvent
  <2>1. CASE events' = Append(events, outcome) /\ Succeeds /\ Return
    <3>1. failures <= 1 => events' = <<outcome>>
      <4>1. Append(<<>>, outcome) = <<outcome>>
            OBVIOUS
      <4>2. QED
            BY <1>14, <2>1, <4>1 DEF AppendEvent
    <3>2. QED
          BY <1>14, <2>1, <3>1 DEF AppendEvent, Return, Succeeds, noteVars, bounds
  <2>2. CASE Fails /\ Reconverge /\ pc' = "eventMeta" /\ UNCHANGED <<events, ret, seen>>
        BY <1>14, <2>2 DEF AppendEvent, Reconverge, Fails, noteVars
  <2>3. QED
        BY <1>14, <2>1, <2>2 DEF AppendEvent
<1>15. CASE RewriteMetadata
      BY <1>15 DEF RewriteMetadata, CallFinal, Succeeds, Fails, noteVars, bounds
<1>16. CASE RetryEvent
  <2>1. failures <= 1 /\ events' = Append(events, outcome) => events' = <<outcome>>
    <3>1. Append(<<>>, outcome) = <<outcome>>
          OBVIOUS
    <3>2. QED
          BY <1>16, <3>1 DEF RetryEvent
  <2>2. CASE events' = Append(events, outcome) /\ Succeeds
        BY <1>16, <2>1, <2>2 DEF RetryEvent, Return, Succeeds, noteVars, bounds
  <2>3. CASE Fails
        BY <1>16, <2>3 DEF RetryEvent, Return, Fails, noteVars
  <2>4. QED
        BY <1>16, <2>2, <2>3 DEF RetryEvent
<1>17. CASE Release
      BY <1>17 DEF Release, Succeeds, Fails, noteVars, disk, bounds
<1>18. CASE Edit
      BY <1>18 DEF Edit, Writes, memory, disk
<1>19. CASE Move
      BY <1>19 DEF Move, Writes, memory, disk
<1>20. CASE UNCHANGED vars
      BY <1>20 DEF vars, noteVars, memory, disk, bounds
<1>21. QED
      BY <1>1, <1>2, <1>3, <1>4, <1>5, <1>6, <1>7, <1>8, <1>9, <1>10, <1>11, <1>12,
         <1>13, <1>14, <1>15, <1>16, <1>17, <1>18, <1>19, <1>20 DEF Next, RunStep, Finished

\* One failure leaves one event, and no readable metadata, that say otherwise than
\* what the run returned
THEOREM RunArtifactsAgree == Spec => []ArtifactsAgree
<1>1. Init => Returning /\ Artifacts
      BY DEF Init, Returning, Artifacts
<1>2. RunInv /\ Returning /\ Artifacts /\ [Next]_vars => Returning' /\ Artifacts'
      BY ArtifactsInductive
<1>3. Artifacts => ArtifactsAgree
      BY DEF Artifacts, ArtifactsAgree
<1>4. QED
      BY <1>1, <1>2, <1>3, RunInvariance, PTL DEF Spec

-----------------------------------------------------------------------------
(* The freshness guard *)

\* From the engine's checks to the rename: the status it read may become Goal, and
\* unless somebody wrote the note since, the note is the one that was read
Guarded ==
    /\ pc \in {"process", "rename"} => CanTransition(seen, Goal)
    /\ pc = "rename" /\ ~raced => note = buf /\ note.status = seen

\* Every step keeps the guard
LEMMA GuardedInductive ==
    ASSUME TypeOK, Guarded, [Next]_vars
    PROVE  Guarded'
<1>. pc \in Calls /\ ret \in Returns /\ raced \in BOOLEAN
      BY DEF TypeOK
<1>. USE DEF Guarded, Returns, Goal
<1>1. CASE ReadOriginal
      BY <1>1 DEF ReadOriginal, Succeeds, Fails, Throw, noteVars, disk, bounds
<1>2. CASE Validate
      BY <1>2 DEF Validate, Goal, EngineAccepts, Throw, noteVars, disk, bounds, memory
<1>3. CASE ProcessRead
      BY <1>3 DEF ProcessRead, Goal, Succeeds, NoteFails, Throw, noteVars, disk, memory, bounds
<1>4. CASE Rename
      BY <1>4 DEF Rename, Goal, Succeeds, NoteFails, Throw, noteVars, disk, memory, bounds
<1>5. CASE PrepareWorktree
      BY <1>5 DEF PrepareWorktree, Succeeds, Fails, noteVars, memory, bounds
<1>6. CASE RunAgent
      BY <1>6 DEF RunAgent, noteVars, memory, bounds
<1>7. CASE Checkpoint
      BY <1>7 DEF Checkpoint, Succeeds, Fails, noteVars, bounds
<1>8. CASE WriteLog
      BY <1>8 DEF WriteLog, CallFinal, Reconverge, Succeeds, Fails, noteVars, disk, bounds
<1>9. CASE ReadLatest
      BY <1>9 DEF ReadLatest, Succeeds, NoteFails, Throw, noteVars, disk, bounds
<1>10. CASE RollbackRead
      BY <1>10 DEF RollbackRead, Succeeds, NoteFails, Throw, noteVars, disk, memory, bounds
<1>11. CASE RollbackRename
      BY <1>11 DEF RollbackRename, Succeeds, NoteFails, Throw, noteVars, disk, memory, bounds
<1>12. CASE Reread
      BY <1>12 DEF Reread, Succeeds, NoteFails, Throw, noteVars, disk, bounds
<1>13. CASE WriteMetadata
      BY <1>13 DEF WriteMetadata, CallFinal, Reconverge, Succeeds, Fails, noteVars, memory, bounds
<1>14. CASE AppendEvent
      BY <1>14 DEF AppendEvent, Return, Reconverge, Succeeds, Fails, noteVars, bounds
<1>15. CASE RewriteMetadata
      BY <1>15 DEF RewriteMetadata, CallFinal, Succeeds, Fails, noteVars, bounds
<1>16. CASE RetryEvent
      BY <1>16 DEF RetryEvent, Return, Succeeds, Fails, noteVars, bounds
<1>17. CASE Release
      BY <1>17 DEF Release, Succeeds, Fails, noteVars, disk, bounds
<1>18. CASE Edit
      BY <1>18 DEF Edit, Writes, memory, disk
<1>19. CASE Move
      BY <1>19 DEF Move, Writes, memory, disk
<1>20. CASE UNCHANGED vars
      BY <1>20 DEF vars, noteVars, memory, disk, bounds
<1>21. QED
      BY <1>1, <1>2, <1>3, <1>4, <1>5, <1>6, <1>7, <1>8, <1>9, <1>10, <1>11, <1>12,
         <1>13, <1>14, <1>15, <1>16, <1>17, <1>18, <1>19, <1>20 DEF Next, RunStep, Finished

\* A run and its guard
LEMMA GuardedAlways == Spec => [](TypeOK /\ Guarded)
<1>1. Init => Guarded
      BY DEF Init, Guarded
<1>2. RunInv => TypeOK
      BY DEF RunInv
<1>3. TypeOK /\ Guarded /\ [Next]_vars => Guarded'
      BY GuardedInductive
<1>4. QED
      BY <1>1, <1>2, <1>3, RunInvariance, PTL DEF Spec

\* The steps that write the note: the engine's rename, the taking back, and people
LEMMA Writers ==
    ASSUME [Next]_vars, note' # note
    PROVE  \/ Rename /\ note' = [status |-> Goal, body |-> buf.body \cup {Goal}]
           \/ RollbackRename
           \/ Edit
           \/ Move
BY DEF Next, RunStep, Finished, vars, noteVars, ReadOriginal, Validate, ProcessRead, Rename,
   PrepareWorktree, RunAgent, Checkpoint, WriteLog, ReadLatest, RollbackRead, Reread,
   WriteMetadata, AppendEvent, RewriteMetadata, RetryEvent, Release

\* Whoever moves the issue meanwhile, the engine moves a note nobody wrote since it was
\* read along the table; the taking back of a REVIEW is the one exception
THEOREM TransitionsAreGuarded == Spec => GuardedTransitions
<1>1. ASSUME TypeOK, Guarded, [Next]_vars, note'.status # note.status
      PROVE  CanTransition(note.status, note'.status) \/ raced \/ RollbackRename
  <2>1. CASE Rename /\ note' = [status |-> Goal, body |-> buf.body \cup {Goal}]
        BY <1>1, <2>1 DEF Rename, Guarded
  <2>2. CASE Edit
        BY <1>1, <2>2 DEF Edit, Writes, TypeOK, Notes
  <2>3. CASE Move
        BY <1>1, <2>3 DEF Move, Writes, TypeOK, Notes
  <2>4. QED
        BY <1>1, <2>1, <2>2, <2>3, Writers
<1>2. TypeOK /\ Guarded /\ [Next]_vars =>
        (note'.status # note.status =>
           CanTransition(note.status, note'.status) \/ raced \/ RollbackRename)
      BY <1>1
<1>3. QED
      BY <1>2, GuardedAlways, PTL DEF Spec, GuardedTransitions

\* What people wrote into the body survives the engine's writes, with the same exceptions
THEOREM EditsAreKept == Spec => TransitionsKeepEdits
<1>1. ASSUME TypeOK, Guarded, [Next]_vars, "edit" \in note.body
      PROVE  "edit" \in note'.body \/ raced \/ RollbackRename
  <2>1. CASE Rename /\ note' = [status |-> Goal, body |-> buf.body \cup {Goal}]
        BY <1>1, <2>1 DEF Rename, Guarded
  <2>2. CASE Edit
        BY <1>1, <2>2 DEF Edit, Writes, TypeOK, Notes
  <2>3. CASE Move
        BY <1>1, <2>3 DEF Move, Writes, TypeOK, Notes
  <2>4. QED
        BY <1>1, <2>1, <2>2, <2>3, Writers
<1>2. TypeOK /\ Guarded /\ [Next]_vars =>
        ("edit" \in note.body => "edit" \in note'.body \/ raced \/ RollbackRename)
      BY <1>1
<1>3. QED
      BY <1>2, GuardedAlways, PTL DEF Spec, TransitionsKeepEdits
=============================================================================
