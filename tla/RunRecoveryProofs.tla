------------------------- MODULE RunRecoveryProofs -------------------------
(***************************************************************************)
(* The lock is exclusive and implements SingleLock, for any set of          *)
(* processes, of crashes and of failing writes and unlinks, as long as at    *)
(* most one process passes staleMs, and none where a run may outlast it.     *)
(* The CLI passes it never.  Runs, crashes of them, requeues and one         *)
(* recover-run at a time keep it exclusive, for any issues and any runners,  *)
(* until a recovery meets a run of another user that is older than thirty    *)
(* minutes; where there is no such run, always.                              *)
(***************************************************************************)
EXTENDS RunRecovery, TLAPS

\* Two processes that replace stale locks can unlink each other's new lock
\* between their checks and their unlinks, so one at most does.
\* A run that outlasts staleMs loses its lock to whoever passes it, so then
\* nobody does.
OneStaleCaller == /\ \A p, q \in StaleCallers : p = q
                  /\ StaleCallers = {} \/ Lasting = {}

\* An unlink, a write or a crash of one process leaves LockInv true: every
\* step of the lock preserves the inductive invariant.
LEMMA LockInvInductive ==
    ASSUME LockAssumption, OneStaleCaller, LockInv, [LockNext]_lockVars
    PROVE  LockInv'
<1>. USE DEF LockInv, LockTypeOK, LockFiles, NoLock, PCs, Holding, Written, Orphaned
<1>. USE LockAssumption DEF LockAssumption
<1>1. ASSUME NEW p \in Procs, Begin(p) PROVE LockInv'
  BY <1>1 DEF Begin, Goto
<1>2. ASSUME NEW p \in Procs, Acquire(p) PROVE LockInv'
  <2>1. CASE NotStale(p) \/ Stale(p) \/ StaleCheckThrows(p)
    BY <2>1 DEF NotStale, Stale, StaleCheckThrows, Goto, OneStaleCaller
  <2>5. CASE UnlinkStale(p)
    <3>1. /\ p \in StaleCallers /\ Orphaned
          /\ \A q \in Procs : pc[q] \notin Holding
      BY <2>5 DEF UnlinkStale
    <3>2. \A q \in Procs : pc[q] = "unlinkStale" => q = p
      BY <3>1 DEF OneStaleCaller
    <3>. QED BY <2>5, <3>1, <3>2 DEF UnlinkStale, Goto
  <2>2. CASE Create(p)
    BY <2>2, LockAssumption DEF Create, Goto, LockAssumption
  <2>3. CASE CreateRefused(p)
    BY <2>3 DEF CreateRefused, Goto
  <2>4. CASE WriteData(p)
    BY <2>4, LockAssumption DEF WriteData, Goto, LockAssumption
  <2>. QED BY <1>2, <2>1, <2>2, <2>3, <2>4, <2>5 DEF Acquire
<1>3. ASSUME NEW p \in Procs, WriteFails(p) PROVE LockInv'
  BY <1>3 DEF WriteFails, Goto
<1>4. ASSUME NEW p \in Procs, Release(p) PROVE LockInv'
  <2>1. \A q \in Procs : pc[q] \in Holding => q = p
    BY <1>4 DEF Release
  <2>. QED BY <1>4, <2>1 DEF Release, Goto
<1>5. ASSUME NEW p \in Procs, ReleaseFails(p) PROVE LockInv'
  BY <1>5 DEF ReleaseFails, Goto
<1>6. ASSUME NEW p \in Procs, Crash(p) PROVE LockInv'
  BY <1>6 DEF Crash, Goto
<1>7. CASE Expire
  BY <1>7, LockAssumption DEF Expire, LockAssumption
<1>8. CASE UNCHANGED lockVars
  BY <1>8 DEF lockVars
<1>. QED BY <1>1, <1>2, <1>3, <1>4, <1>5, <1>6, <1>7, <1>8 DEF LockNext

\* The file of every holder stays the lock (lock.ts:30-72).
THEOREM LockInvariance ==
    ASSUME LockAssumption, OneStaleCaller
    PROVE  LockSpec => []LockInv
<1>1. LockInit => LockInv
  BY DEF LockInit, LockInv, LockTypeOK, LockFiles, NoLock, PCs, Holding
<1>2. LockInv /\ [LockNext]_lockVars => LockInv'
  BY LockInvInductive
<1>. QED BY <1>1, <1>2, PTL DEF LockSpec

\* Two processes never hold the lock at once, whatever crashes and whichever
\* unlink or write fails.
THEOREM LockIsExclusive ==
    ASSUME LockAssumption, OneStaleCaller
    PROVE  LockSpec => []MutualExclusion
<1>1. LockInv => MutualExclusion
  BY DEF LockInv, MutualExclusion
<1>. QED BY <1>1, LockInvariance, PTL

\* Why the lock refines SingleLock: a step of the files is a grant, a release, an
\* orphaning, or invisible to the lock's users.
LEMMA LockStepImplements ==
    ASSUME LockAssumption, OneStaleCaller, LockInv, [LockNext]_lockVars
    PROVE  [Abstract!Next]_(Abstract!vars)
<1>. USE DEF LockInv, LockTypeOK, LockFiles, NoLock, PCs, Holding, Holders,
             Orphaned, Goto
<1>. USE LockAssumption DEF LockAssumption
<1>0. ASSUME Holders' = Holders, Orphaned' = Orphaned
      PROVE  [Abstract!Next]_(Abstract!vars)
  BY <1>0 DEF Abstract!vars
<1>1. ASSUME NEW p \in Procs, pc[p] \in Holding PROVE Holders = {p}
  BY <1>1
<1>2. ASSUME NEW p \in Procs, Begin(p) PROVE [Abstract!Next]_(Abstract!vars)
  <2>1. Holders' = Holders /\ Orphaned' = Orphaned
    BY <1>2 DEF Begin
  <2>. QED BY <2>1, <1>0
<1>3. ASSUME NEW p \in Procs, Acquire(p) PROVE [Abstract!Next]_(Abstract!vars)
  <2>1. CASE CreateRefused(p)
    <3>1. Holders' = Holders /\ Orphaned' = Orphaned
      BY <2>1 DEF CreateRefused
    <3>. QED BY <3>1, <1>0
  <2>2. CASE WriteData(p)
    <3>1. Holders' = Holders /\ Orphaned' = Orphaned
      BY <2>2 DEF WriteData
    <3>. QED BY <3>1, <1>0
  <2>3. CASE Create(p)
    <3>1. Holders = {} /\ ~Orphaned
      BY <2>3 DEF Create
    <3>2. Holders' = {p} /\ ~Orphaned'
      BY <2>3, <3>1 DEF Create
    <3>3. Abstract!Grant(p)
      BY <3>1, <3>2 DEF Abstract!Grant
    <3>. QED BY <3>3 DEF Abstract!Next
  <2>4. CASE NotStale(p) \/ Stale(p) \/ StaleCheckThrows(p)
    <3>1. Holders' = Holders /\ Orphaned' = Orphaned
      BY <2>4 DEF NotStale, Stale, StaleCheckThrows
    <3>. QED BY <3>1, <1>0
  <2>5. CASE UnlinkStale(p)
    <3>1. Orphaned /\ Holders = {}
      BY <2>5 DEF UnlinkStale
    <3>2. Holders' = {} /\ ~Orphaned'
      BY <2>5, <3>1 DEF UnlinkStale
    <3>3. Abstract!Reclaim
      BY <3>1, <3>2 DEF Abstract!Reclaim
    <3>. QED BY <3>3 DEF Abstract!Next
  <2>. QED BY <1>3, <2>1, <2>2, <2>3, <2>4, <2>5 DEF Acquire
<1>4. ASSUME NEW p \in Procs, Release(p) PROVE [Abstract!Next]_(Abstract!vars)
  <2>1. Holders = {p} /\ Holders' = {} /\ ~Orphaned /\ ~Orphaned'
    BY <1>1, <1>4 DEF Release
  <2>2. Abstract!Release(p)
    BY <2>1 DEF Abstract!Release
  <2>. QED BY <2>2 DEF Abstract!Next
<1>5. ASSUME NEW p \in Procs, pc[p] \in Holding, UNCHANGED lock,
             NEW label \in PCs \ Holding, Goto(p, label)
      PROVE  [Abstract!Next]_(Abstract!vars)
  <2>1. Holders = {p} /\ Holders' = {} /\ Orphaned'
    BY <1>1, <1>5
  <2>2. Abstract!Orphan(p)
    BY <2>1 DEF Abstract!Orphan
  <2>. QED BY <2>2 DEF Abstract!Next
<1>6. ASSUME NEW p \in Procs, WriteFails(p) \/ ReleaseFails(p)
      PROVE  [Abstract!Next]_(Abstract!vars)
  BY <1>5, <1>6 DEF WriteFails, ReleaseFails
<1>7. ASSUME NEW p \in Procs, Crash(p) PROVE [Abstract!Next]_(Abstract!vars)
  <2>1. CASE pc[p] \in Holding
    BY <1>5, <1>7, <2>1 DEF Crash
  <2>2. CASE pc[p] \notin Holding
    <3>1. Holders' = Holders /\ Orphaned' = Orphaned
      BY <1>7, <2>2 DEF Crash
    <3>. QED BY <3>1, <1>0
  <2>. QED BY <2>1, <2>2
<1>8. CASE Expire
  <2>1. Holders' = Holders /\ Orphaned' = Orphaned
    BY <1>8 DEF Expire
  <2>. QED BY <2>1, <1>0
<1>9. CASE UNCHANGED lockVars
  <2>1. Holders' = Holders /\ Orphaned' = Orphaned
    BY <1>9 DEF lockVars
  <2>. QED BY <2>1, <1>0
<1>. QED BY <1>2, <1>3, <1>4, <1>6, <1>7, <1>8, <1>9 DEF LockNext

\* Nobody but a recovery takes an orphaned lock away: no step of an acquire or of
\* a release without staleMs (lock.ts:46, 65-72) does.
LEMMA OrphanStays ==
    ASSUME LockAssumption, StaleCallers = {}, LockInv, [LockNext]_lockVars, Orphaned
    PROVE  Orphaned' /\ lock'.by = lock.by
<1>. USE DEF LockInv, LockTypeOK, LockFiles, NoLock, PCs, Holding, Orphaned, Goto
<1>. USE LockAssumption DEF LockAssumption
<1>1. ASSUME NEW p \in Procs, Begin(p) PROVE Orphaned' /\ lock'.by = lock.by
  BY <1>1 DEF Begin
<1>2. ASSUME NEW p \in Procs, Acquire(p) PROVE Orphaned' /\ lock'.by = lock.by
  BY <1>2 DEF Acquire, NotStale, Stale, StaleCheckThrows, UnlinkStale, Create,
              CreateRefused, WriteData
<1>3. ASSUME NEW p \in Procs, WriteFails(p) \/ ReleaseFails(p) \/ Release(p)
      PROVE  Orphaned' /\ lock'.by = lock.by
  BY <1>3 DEF WriteFails, ReleaseFails, Release
<1>4. ASSUME NEW p \in Procs, Crash(p) PROVE Orphaned' /\ lock'.by = lock.by
  BY <1>4 DEF Crash
<1>5. CASE Expire
  BY <1>5 DEF Expire
<1>6. CASE UNCHANGED lockVars
  BY <1>6 DEF lockVars
<1>. QED BY <1>1, <1>2, <1>3, <1>4, <1>5, <1>6 DEF LockNext

\* The initial state of the files is the initial state of the abstract lock.
LEMMA LockInitImplements ==
    ASSUME LockAssumption PROVE LockInit => Abstract!Init
BY DEF LockInit, Abstract!Init, Holders, Orphaned, Holding, NoLock

\* lock.ts implements SingleLock, for any processes and crashes.
THEOREM LockImplementsSingleLock ==
    ASSUME LockAssumption, OneStaleCaller
    PROVE  LockSpec => ImplementsSingleLock
<1>1. LockInv /\ [LockNext]_lockVars => [Abstract!Next]_(Abstract!vars)
  BY LockStepImplements
<1>. QED BY <1>1, LockInitImplements, LockInvariance, PTL
     DEF LockSpec, ImplementsSingleLock, Abstract!Spec

-----------------------------------------------------------------------------

OneRecoverer == \A r, s \in Recoverers : r = s

\* What the steps of runs and recoveries do to the lock: a lock step, nothing,
\* or a recoverer's unlink.
LEMMA StepOfTheLock ==
    ASSUME [Next]_vars
    PROVE  [LockNext]_lockVars \/ \E r \in Recoverers : RecUnlink(r)
<1>1. ASSUME NEW p \in Procs, RunStart(p) \/ RunStep(p) \/ RunCrash(p)
      PROVE  [LockNext]_lockVars
  BY <1>1 DEF RunStart, RunStep, RunAcquire, ReadIssue, CheckRunning, MarkRunning,
              AgentEnds, ReadFinal, MarkFinal, RunRelease, RunCrash, LockNext, lockVars
<1>2. ASSUME NEW r \in Recoverers, RecStep(r) \/ (\E i \in Issues : RecStart(r, i))
      PROVE  UNCHANGED lockVars \/ RecUnlink(r)
  BY <1>2 DEF RecStep, RecStart, RecReadLock, RecMark, lockVars
<1>3. ASSUME NEW i \in Issues, Requeue(i) PROVE UNCHANGED lockVars
  BY <1>3 DEF Requeue, lockVars
<1>4. CASE Age
  BY <1>4 DEF Age, LockNext
<1>5. CASE UNCHANGED vars
  BY <1>5 DEF vars, lockVars
<1>. QED BY <1>1, <1>2, <1>3, <1>4, <1>5 DEF Next

\* The part of the type invariant that is not the lock's.
RunTypeOK == /\ status \in [Issues -> Statuses]
             /\ at \in [Procs -> Stages]
             /\ outcome \in [Procs -> Outcomes]
             /\ rpc \in [Recoverers -> RecPCs]
             /\ target \in [Recoverers -> Issues \cup {Nobody}]
             /\ processState \in [Recoverers -> LockProcessState \cup {Nobody}]
             /\ robbed \in BOOLEAN

\* Every step writes a status of ISSUE_STATUSES and moves a command to one of its
\* stages.
LEMMA RunTypes ==
    ASSUME RecoveryAssumption, RunTypeOK, [Next]_vars
    PROVE  RunTypeOK'
<1>. USE RecoveryAssumption DEF RecoveryAssumption, RunTypeOK, Statuses, Stages,
         Outcomes, RecPCs, LockProcessState, SetStatus, Stage, RecGoto, runVars, recVars
<1>1. ASSUME NEW p \in Procs, RunStart(p) PROVE RunTypeOK'
  BY <1>1 DEF RunStart
<1>2. ASSUME NEW p \in Procs, RunStep(p) PROVE RunTypeOK'
  <2>1. CASE RunAcquire(p)
    BY <2>1 DEF RunAcquire
  <2>2. CASE ReadIssue(p) \/ CheckRunning(p)
    BY <2>2 DEF ReadIssue, CheckRunning
  <2>3. CASE MarkRunning(p)
    BY <2>3 DEF MarkRunning
  <2>4. CASE AgentEnds(p)
    BY <2>4 DEF AgentEnds
  <2>5. CASE ReadFinal(p)
    BY <2>5 DEF ReadFinal
  <2>6. CASE MarkFinal(p)
    BY <2>6 DEF MarkFinal
  <2>7. CASE RunRelease(p)
    BY <2>7 DEF RunRelease
  <2>. QED BY <1>2, <2>1, <2>2, <2>3, <2>4, <2>5, <2>6, <2>7 DEF RunStep
<1>3. ASSUME NEW p \in Procs, RunCrash(p) PROVE RunTypeOK'
  BY <1>3 DEF RunCrash
<1>4. ASSUME NEW r \in Recoverers, NEW i \in Issues, RecStart(r, i)
      PROVE  RunTypeOK'
  BY <1>4 DEF RecStart
<1>5. ASSUME NEW r \in Recoverers, RecStep(r) PROVE RunTypeOK'
  <2>1. CASE RecReadLock(r)
    BY <2>1 DEF RecReadLock, ProcessStates
  <2>2. CASE RecUnlink(r)
    BY <2>2 DEF RecUnlink
  <2>3. CASE RecMark(r)
    BY <2>3 DEF RecMark
  <2>. QED BY <1>5, <2>1, <2>2, <2>3 DEF RecStep
<1>6. ASSUME NEW i \in Issues, Requeue(i) PROVE RunTypeOK'
  BY <1>6 DEF Requeue
<1>7. CASE Age
  BY <1>7 DEF Age
<1>8. CASE UNCHANGED vars
  BY <1>8 DEF vars
<1>. QED BY <1>1, <1>2, <1>3, <1>4, <1>5, <1>6, <1>7, <1>8 DEF Next

\* The lock stays a lock file, and every process at a point of lock.ts, whoever
\* unlinks what.
LEMMA LockTypes ==
    ASSUME LockAssumption, LockTypeOK, [Next]_vars
    PROVE  LockTypeOK'
<1>. USE LockAssumption DEF LockAssumption, LockTypeOK, LockFiles, NoLock, PCs, Written, Goto
<1>1. CASE \E p \in Procs : Begin(p) \/ Acquire(p)
  BY <1>1 DEF Begin, Acquire, NotStale, Stale, StaleCheckThrows, UnlinkStale, Create,
              CreateRefused, WriteData
<1>2. CASE \E p \in Procs : WriteFails(p) \/ Release(p) \/ ReleaseFails(p) \/ Crash(p)
  BY <1>2 DEF WriteFails, Release, ReleaseFails, Crash
<1>3. CASE Expire \/ UNCHANGED lockVars
  BY <1>3 DEF Expire, lockVars
<1>4. CASE \E r \in Recoverers : RecUnlink(r)
  BY <1>4 DEF RecUnlink
<1>. QED BY <1>1, <1>2, <1>3, <1>4, StepOfTheLock DEF LockNext

\* Nobody but the recoverer itself changes what it is about to unlink for, nor the
\* history of its unlinks.
LEMMA RecovererAlone ==
    ASSUME OneRecoverer, [Next]_vars, NEW r \in Recoverers
    PROVE  \/ UNCHANGED recVars
           \/ RecStep(r)
           \/ \E i \in Issues : RecStart(r, i)
<1>1. ASSUME NEW p \in Procs, RunStart(p) \/ RunStep(p) \/ RunCrash(p)
      PROVE  UNCHANGED recVars
  BY <1>1 DEF RunStart, RunStep, RunAcquire, ReadIssue, CheckRunning, MarkRunning,
              AgentEnds, ReadFinal, MarkFinal, RunRelease, RunCrash
<1>2. CASE (\E i \in Issues : Requeue(i)) \/ Age \/ UNCHANGED vars
  BY <1>2 DEF Requeue, Age, vars
<1>3. ASSUME NEW s \in Recoverers, RecStep(s) \/ \E i \in Issues : RecStart(s, i)
      PROVE  RecStep(r) \/ \E i \in Issues : RecStart(r, i)
  BY <1>3 DEF OneRecoverer
<1>. QED BY <1>1, <1>2, <1>3 DEF Next

\* What a recoverer may be about to unlink, its own conjunct of RecoveryInv.
MayUnlink(r) == \/ LeftBy(target[r])
                \/ processState[r] = "unknown" /\ LooksAbandoned # {}

\* A recoverer that found its process dead keeps facing that orphan until it
\* unlinks it: the lock it read cannot have changed hands (recover-run.ts:28-42).
LEMMA UnlinkFacesOrphan ==
    ASSUME LockAssumption, StaleCallers = {}, OneRecoverer, RecoveryInv, ~robbed,
           [Next]_vars, NEW r \in Recoverers, rpc'[r] = "unlink"
    PROVE  MayUnlink(r)'
<1>0. rpc \in [Recoverers -> RecPCs] /\ LockInv
  BY DEF RecoveryInv, TypeOK
<1>1. CASE rpc[r] = "unlink"
  <2>1. UNCHANGED recVars
    BY <1>0, <1>1, RecovererAlone
       DEF RecStart, RecStep, RecReadLock, RecUnlink, RecMark, RecGoto
  <2>2. \A s \in Recoverers : ~RecUnlink(s)
    BY <1>0, <1>1, <2>1 DEF OneRecoverer, RecUnlink, RecGoto, recVars
  <2>3. [LockNext]_lockVars
    BY <2>2, StepOfTheLock
  <2>4. Orphaned => Orphaned' /\ lock'.by = lock.by
    BY <1>0, <2>3, OrphanStays
  <2>5. MayUnlink(r)
    BY <1>1 DEF RecoveryInv, MayUnlink
  <2>. QED BY <2>1, <2>4, <2>5 DEF MayUnlink, LeftBy, LooksAbandoned, recVars
<1>2. CASE rpc[r] # "unlink"
  <2>1. RecReadLock(r)
    BY <1>0, <1>2, RecovererAlone
       DEF RecStart, RecStep, RecUnlink, RecMark, RecGoto, recVars
  <2>2. PICK state \in ProcessStates(lock.by) :
           /\ lock.text \in Written /\ IssueOf[lock.by] = target[r]
           /\ CanRecover(state)
           /\ RecGoto(r, "unlink", state)
    BY <1>0, <1>2, <2>1 DEF RecReadLock, RecGoto
  <2>3. lock.by \in Procs
    BY <1>0, <2>2 DEF LockInv, LockTypeOK, LockFiles, NoLock, Written
  <2>4. processState'[r] = state /\ target' = target /\ UNCHANGED lockVars
    BY <2>1, <2>2 DEF RecGoto, RecReadLock, RecoveryInv, TypeOK
  <2>5. CASE pc[lock.by] \in Holding
    <3>1. lock.by \in Foreign /\ state = "unknown" /\ lock.text = "expired"
      BY <2>2, <2>5 DEF ProcessStates, CanRecover
    <3>2. lock.by \in Lasting
      BY <1>0, <2>5, <3>1 DEF LockInv, Orphaned
    <3>. QED BY <2>4, <3>1, <3>2 DEF MayUnlink, LooksAbandoned
  <2>6. CASE pc[lock.by] \notin Holding
    BY <2>2, <2>3, <2>4, <2>6, LockAssumption
       DEF MayUnlink, LeftBy, Orphaned, lockVars, LockAssumption
  <2>. QED BY <2>5, <2>6
<1>. QED BY <1>1, <1>2

\* With one recoverer the invariant of runs and recovery is inductive.
LEMMA RecoveryInvInductive ==
    ASSUME LockAssumption, RecoveryAssumption, StaleCallers = {}, OneRecoverer,
           RecoveryInv, [Next]_vars
    PROVE  RecoveryInv'
<1>1. LockTypeOK' /\ RunTypeOK'
  BY LockTypes, RunTypes DEF RecoveryInv, TypeOK, RunTypeOK
<1>2. ASSUME robbed' # robbed
      PROVE  \E r \in Recoverers :
                 RecUnlink(r) /\ lock # NoLock /\ ~LeftBy(target[r])
  <2>1. PICK r \in Recoverers : RecStep(r) \/ \E i \in Issues : RecStart(r, i)
    <3>1. \E r \in Recoverers : TRUE
      BY <1>2 DEF Next, RunStart, RunStep, RunAcquire, ReadIssue, CheckRunning,
         MarkRunning, AgentEnds, ReadFinal, MarkFinal, RunRelease, RunCrash, Requeue,
         Age, vars, recVars
    <3>. QED BY <1>2, <3>1, RecovererAlone DEF recVars
  <2>. QED BY <1>2, <2>1 DEF RecStep, RecStart, RecReadLock, RecMark, RecUnlink,
              RecoveryInv, TypeOK
<1>3. robbed' => LooksAbandoned' # {}
  <2>1. CASE robbed' = robbed
    BY <2>1 DEF RecoveryInv, LooksAbandoned
  <2>2. CASE robbed' # robbed
    BY <1>2, <2>2 DEF RecoveryInv, TypeOK, RecUnlink, LooksAbandoned
  <2>. QED BY <2>1, <2>2
<1>4. ASSUME ~robbed' PROVE ~robbed /\ LockInv'
  <2>1. ~robbed
    BY <1>2, <1>4 DEF RecUnlink, RecoveryInv, TypeOK
  <2>2. CASE [LockNext]_lockVars
    BY <2>1, <2>2, LockInvInductive DEF RecoveryInv, OneStaleCaller
  <2>3. ASSUME NEW r \in Recoverers, RecUnlink(r) PROVE LockInv'
    <3>1. lock = NoLock \/ Orphaned
      BY <1>4, <2>3 DEF RecUnlink, LeftBy
    <3>. QED BY <2>1, <2>3, <3>1, LockAssumption
       DEF RecUnlink, RecoveryInv, LockInv, LockTypeOK, LockFiles, Orphaned, NoLock,
           LockAssumption, Written
  <2>. QED BY <2>1, <2>2, <2>3, StepOfTheLock
<1>5. ASSUME ~robbed', NEW r \in Recoverers, rpc'[r] = "unlink" PROVE MayUnlink(r)'
  BY <1>4, <1>5, UnlinkFacesOrphan
<1>. QED BY <1>1, <1>3, <1>4, <1>5 DEF RecoveryInv, TypeOK, RunTypeOK, MayUnlink

\* One recover-run at a time unlinks no lock but the orphan it found
\* (recover-run.ts:28-42), whatever is killed and whichever pids are reused, until
\* it meets a run it cannot probe that is older than thirty minutes.
THEOREM RecoveryInvariance ==
    ASSUME LockAssumption, RecoveryAssumption, StaleCallers = {}, OneRecoverer
    PROVE  Spec => []RecoveryInv
<1>1. Init => RecoveryInv
  <2>. SUFFICES ASSUME Init PROVE RecoveryInv
    OBVIOUS
  <2>1. LockInv
    BY DEF Init, LockInit, LockInv, LockTypeOK, LockFiles, NoLock, PCs, Holding
  <2>2. RunTypeOK
    BY RecoveryAssumption
       DEF Init, RunTypeOK, Statuses, Stages, Outcomes, RecPCs, RecoveryAssumption
  <2>3. ~robbed /\ \A r \in Recoverers : rpc[r] # "unlink"
    BY DEF Init
  <2>. QED BY <2>1, <2>2, <2>3 DEF RecoveryInv, TypeOK, RunTypeOK, LockInv
<1>2. RecoveryInv /\ [Next]_vars => RecoveryInv'
  BY RecoveryInvInductive
<1>. QED BY <1>1, <1>2, PTL DEF Spec

\* Two runs never execute at once, recoveries of killed runs included, as long as
\* no recoverer has unlinked a lock that was not the orphan of its issue.
THEOREM RunsAreExclusive ==
    ASSUME LockAssumption, RecoveryAssumption, StaleCallers = {}, OneRecoverer
    PROVE  Spec => []ExclusiveUnlessRobbed
<1>1. RecoveryInv => ExclusiveUnlessRobbed
  BY DEF RecoveryInv, LockInv, MutualExclusion, ExclusiveUnlessRobbed
<1>. QED BY <1>1, RecoveryInvariance, PTL

\* Every run that may last longer than thirty minutes is of the recoverer's own
\* user, so that process.kill(pid, 0) tells whether it lives.
NoneLooksAbandoned == Foreign \cap Lasting = {}

\* Then two runs never execute at once, without exception.
THEOREM OwnRunsAreExclusive ==
    ASSUME LockAssumption, RecoveryAssumption, StaleCallers = {}, OneRecoverer,
           NoneLooksAbandoned
    PROVE  Spec => []MutualExclusion
<1>1. RecoveryInv => MutualExclusion
  BY DEF RecoveryInv, LockInv, MutualExclusion, LooksAbandoned, NoneLooksAbandoned
<1>. QED BY <1>1, RecoveryInvariance, PTL

\* Then runs and recover-run together implement the abstract lock: recovery is its
\* Reclaim, of an orphaned lock only.
THEOREM RecoveryImplementsSingleLock ==
    ASSUME LockAssumption, RecoveryAssumption, StaleCallers = {}, OneRecoverer,
           NoneLooksAbandoned
    PROVE  Spec => ImplementsSingleLock
<1>1. Init => Abstract!Init
  BY LockInitImplements DEF Init
<1>2. RecoveryInv /\ [Next]_vars => [Abstract!Next]_(Abstract!vars)
  <2>. SUFFICES ASSUME RecoveryInv, [Next]_vars
                PROVE  [Abstract!Next]_(Abstract!vars)
    OBVIOUS
  <2>0. LockInv /\ \A r \in Recoverers : rpc[r] = "unlink" => Orphaned
    BY DEF RecoveryInv, LooksAbandoned, NoneLooksAbandoned, LeftBy
  <2>1. CASE [LockNext]_lockVars
    BY <2>0, <2>1, LockStepImplements DEF OneStaleCaller
  <2>2. ASSUME NEW r \in Recoverers, RecUnlink(r)
        PROVE  [Abstract!Next]_(Abstract!vars)
    <3>1. Orphaned /\ ~Orphaned'
      BY <2>0, <2>2 DEF RecUnlink, Orphaned, NoLock
    <3>2. Holders' = Holders
      BY <2>2 DEF RecUnlink, Holders
    <3>3. Abstract!Reclaim
      BY <3>1, <3>2 DEF Abstract!Reclaim
    <3>. QED BY <3>3 DEF Abstract!Next
  <2>. QED BY <2>1, <2>2, StepOfTheLock
<1>. QED BY <1>1, <1>2, RecoveryInvariance, PTL
     DEF Spec, ImplementsSingleLock, Abstract!Spec
=============================================================================
