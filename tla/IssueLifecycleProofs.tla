------------------------ MODULE IssueLifecycleProofs ------------------------
(***************************************************************************)
(* One operator, any number of issues, any failures and kills: an issue is    *)
(* DONE only when its reviewed change is in merge_into.                        *)
(***************************************************************************)
EXTENDS IssueLifecycle, TLAPS

\* One terminal, and nobody moves an issue that runs or has run
OneOperator == /\ \E t \in Terminals : Terminals = {t}
               /\ \A m \in Moves : m[1] \notin {"RUNNING", "REVIEW", "FAILED"}

\* Every step keeps every variable in its range
LEMMA LifecycleTypes == TypeOK /\ Owned /\ [Next]_vars => TypeOK'
<1> SUFFICES ASSUME TypeOK, Owned, [Next]_vars PROVE TypeOK'
    OBVIOUS
<1> USE LifecycleAssumption
    DEF TypeOK, Statuses, Commands, Branches, Calls, AllChanges, Commit
<1> USE DEF notes, kanban, operator, server, terminal, Succeeds, Fails
<1>1. ASSUME NEW i \in Issues, Run(i) PROVE TypeOK'
  <2>1. CASE RunStart(i)
        BY <2>1 DEF RunStart
  <2>2. CASE RunFails(i)
    <3>a. UNCHANGED branch \/ branch' = [branch EXCEPT ![i] = remote]
          BY <2>2 DEF RunFails
    <3>b. UNCHANGED tree \/ \E s \in {"clean", "dirty"} : tree' = [tree EXCEPT ![i] = s]
          BY <2>2 DEF RunFails
    <3>c. branch' \in [Issues -> SUBSET AllChanges]
          BY <3>a
    <3>d. tree' \in [Issues -> {"none", "clean", "dirty"}]
          BY <3>b
    <3>2. status' \in [Issues -> Statuses] /\ tracking' \subseteq AllChanges
          BY <2>2 DEF RunFails
    <3>3. QED
          BY <2>2, <3>2, <3>c, <3>d DEF RunFails
  <2>3. CASE RunCommits(i)
    <3>1. PICK c \in AllChanges : /\ Commit(c)
                                  /\ branch' = [branch EXCEPT ![i] = remote \cup {c}]
                                  /\ \/ /\ status' = [status EXCEPT ![i] = "REVIEW"]
                                        /\ work' = [work EXCEPT ![i] = c]
                                     \/ /\ status' = [status EXCEPT ![i] = "FAILED"]
                                        /\ UNCHANGED work
          BY <2>3 DEF RunCommits
    <3>2. remote \cup {c} \in SUBSET AllChanges
          OBVIOUS
    <3>3. /\ branch' \in [Issues -> SUBSET AllChanges]
          /\ status' \in [Issues -> Statuses] /\ work' \in [Issues -> AllChanges]
          /\ changes' \in AllChanges
          BY <3>1, <3>2
    <3>4. QED
          BY <2>3, <3>3 DEF RunCommits
  <2>4. QED
        BY <1>1, <2>1, <2>2, <2>3 DEF Run
<1>2. ASSUME NEW t \in Terminals, Command(t) PROVE TypeOK'
  <2> USE DEF Goto, End
  <2>1. ASSUME NEW c \in Commands, NEW i \in Issues, Begin(t, c, i) PROVE TypeOK'
        BY <2>1 DEF Begin, First
  <2>2. CASE Fetch(t)
    <3>1. pc' \in [Terminals -> Calls]
          BY <2>2 DEF Fetch
    <3>2. faults' = faults \/ (faults < MaxFaults /\ faults' = faults + 1)
          BY <2>2 DEF Fetch
    <3>5. faults' \in 0..MaxFaults
          BY <3>2
    <3>6. tracking' \subseteq AllChanges
          BY <2>2 DEF Fetch
    <3>3. target' \in [Terminals -> Issues \cup {Nobody}]
          BY <2>2 DEF Fetch
    <3>4. QED
          BY <2>2, <3>1, <3>5, <3>6, <3>3 DEF Fetch
  <2>3. CASE CheckClean(t)
        BY <2>3 DEF CheckClean
  <2>4. CASE Checkout(t)
        BY <2>4 DEF Checkout
  <2>5. CASE FfBase(t)
    <3>1. refs[head] \cup tracking \in SUBSET AllChanges
          OBVIOUS
    <3>2. refs' \in [Branches -> SUBSET AllChanges]
          BY <2>5, <3>1 DEF FfBase, Merge
    <3>3. QED
          BY <2>5, <3>2 DEF FfBase
  <2>6. CASE FfBranch(t)
    <3>1. target[t] \in Issues
          BY <2>6 DEF FfBranch, Owned
    <3>2. refs[head] \cup branch[target[t]] \in SUBSET AllChanges
          BY <3>1
    <3>3. refs' \in [Branches -> SUBSET AllChanges]
          BY <2>6, <3>2 DEF FfBranch, Merge
    <3>4. QED
          BY <2>6, <3>3 DEF FfBranch
  <2>7. CASE GiveUp(t)
        BY <2>7 DEF GiveUp, RestoreBranch
  <2>8. CASE Ancestor(t)
        BY <2>8 DEF Ancestor
  <2>9. CASE RemoveTree(t)
        BY <2>9 DEF RemoveTree, CleanupFails
  <2>10. CASE DeleteBranch(t)
        BY <2>10 DEF DeleteBranch, CleanupFails
  <2>11. CASE Restore(t)
        BY <2>11 DEF Restore, RestoreBranch
  <2>12. CASE Mark(t)
        BY <2>12 DEF Mark
  <2>13. CASE Kill(t)
        BY <2>13 DEF Kill
  <2>14. QED
        BY <1>2, <2>1, <2>2, <2>3, <2>4, <2>5, <2>6, <2>7, <2>8, <2>9, <2>10, <2>11, <2>12,
           <2>13 DEF Command
<1>3. ASSUME NEW i \in Issues, Move(i) PROVE TypeOK'
      BY <1>3 DEF Move
<1>4. ASSUME NEW i \in Issues, EditTree(i) PROVE TypeOK'
      BY <1>4 DEF EditTree
<1>5. ASSUME NEW i \in Issues, RebaseBranch(i) PROVE TypeOK'
      BY <1>5 DEF RebaseBranch
<1>6. CASE Push
      BY <1>6 DEF Push
<1>7. CASE CommitToMain
      BY <1>7 DEF CommitToMain
<1>8. CASE Switch
      BY <1>8 DEF Switch
<1>9. CASE UNCHANGED vars
      BY <1>9 DEF vars
<1>10. QED
      BY <1>1, <1>2, <1>3, <1>4, <1>5, <1>6, <1>7, <1>8, <1>9 DEF Next

\* Every step of one operator keeps the reviewed changes where they belong
LEMMA LifecycleInductive ==
    ASSUME OneOperator, LifecycleInv, [Next]_vars
    PROVE  LifecycleInv'
<1>1. TypeOK /\ TypeOK'
      BY LifecycleTypes DEF LifecycleInv
<1>2. PICK u \in Terminals : Terminals = {u}
      BY DEF OneOperator
<1> SUFFICES Owned' /\ Reviewable' /\ Underway' /\ DoneIsMerged'
    BY <1>1 DEF LifecycleInv
<1> USE LifecycleAssumption, <1>1 DEF notes, kanban, operator, server, terminal, Merged, Succeeds, Fails
<1> USE DEF LifecycleInv, For
<1>3. ASSUME NEW i \in Issues, Run(i) PROVE Owned' /\ Reviewable' /\ Underway' /\ DoneIsMerged'
  <2>1. CASE RunStart(i)
        BY <2>1 DEF RunStart, TypeOK, Owned, Reviewable, Underway, DoneIsMerged
  <2>2. CASE RunFails(i)
        BY <2>2 DEF RunFails, TypeOK, Owned, Reviewable, Underway, DoneIsMerged
  <2>3. CASE RunCommits(i)
        BY <2>3 DEF RunCommits, Commit, AllChanges, TypeOK, Owned, Reviewable, Underway, DoneIsMerged
  <2>4. QED
        BY <1>3, <2>1, <2>2, <2>3 DEF Run
<1>4. ASSUME NEW t \in Terminals, Command(t) PROVE Owned' /\ Reviewable' /\ Underway' /\ DoneIsMerged'
  <2> USE <1>2 DEF Goto, End
  <2>1. ASSUME NEW c \in Commands, NEW i \in Issues, Begin(t, c, i)
        PROVE  Owned' /\ Reviewable' /\ Underway' /\ DoneIsMerged'
        BY <2>1 DEF Begin, First, Commands, TypeOK, Owned, Reviewable, Underway, DoneIsMerged
  <2>2. CASE Fetch(t)
        BY <2>2 DEF Fetch, TypeOK, Owned, Reviewable, Underway, DoneIsMerged
  <2>3. CASE CheckClean(t)
        BY <2>3 DEF CheckClean, TypeOK, Owned, Reviewable, Underway, DoneIsMerged
  <2>4. CASE Checkout(t)
        BY <2>4 DEF Checkout, TypeOK, Owned, Reviewable, Underway, DoneIsMerged
  <2>5. CASE FfBase(t)
        BY <2>5 DEF FfBase, Merge, Branches, TypeOK, Owned, Reviewable, Underway, DoneIsMerged
  <2>6. CASE FfBranch(t)
        BY <2>6 DEF FfBranch, Merge, Branches, TypeOK, Owned, Reviewable, Underway, DoneIsMerged
  <2>7. CASE GiveUp(t)
        BY <2>7 DEF GiveUp, RestoreBranch, TypeOK, Owned, Reviewable, Underway, DoneIsMerged
  <2>8. CASE Ancestor(t)
        BY <2>8 DEF Ancestor, TypeOK, Owned, Reviewable, Underway, DoneIsMerged
  <2>9. CASE RemoveTree(t)
        BY <2>9 DEF RemoveTree, CleanupFails, TypeOK, Owned, Reviewable, Underway, DoneIsMerged
  <2>10. CASE DeleteBranch(t)
        BY <2>10 DEF DeleteBranch, CheckedOut, CleanupFails, TypeOK, Owned, Reviewable, Underway, DoneIsMerged
  <2>11. CASE Restore(t)
        BY <2>11 DEF Restore, RestoreBranch, TypeOK, Owned, Reviewable, Underway, DoneIsMerged
  <2>12. CASE Mark(t)
        BY <2>12 DEF Mark, TypeOK, Owned, Reviewable, Underway, DoneIsMerged
  <2>13. CASE Kill(t)
        BY <2>13 DEF Kill, TypeOK, Owned, Reviewable, Underway, DoneIsMerged
  <2>14. QED
        BY <1>4, <2>1, <2>2, <2>3, <2>4, <2>5, <2>6, <2>7, <2>8, <2>9, <2>10, <2>11, <2>12,
           <2>13 DEF Command
<1>5. ASSUME NEW i \in Issues, Move(i) PROVE Owned' /\ Reviewable' /\ Underway' /\ DoneIsMerged'
      BY <1>5 DEF Move, OneOperator, ValidTransitions, TypeOK, Owned, Reviewable, Underway, DoneIsMerged
<1>6. ASSUME NEW i \in Issues, EditTree(i) PROVE Owned' /\ Reviewable' /\ Underway' /\ DoneIsMerged'
      BY <1>6 DEF EditTree, TypeOK, Owned, Reviewable, Underway, DoneIsMerged
<1>7. ASSUME NEW i \in Issues, RebaseBranch(i) PROVE Owned' /\ Reviewable' /\ Underway' /\ DoneIsMerged'
      BY <1>7 DEF RebaseBranch, TypeOK, Owned, Reviewable, Underway, DoneIsMerged
<1>8. CASE Push
      BY <1>8 DEF Push, TypeOK, Owned, Reviewable, Underway, DoneIsMerged
<1>9. CASE CommitToMain
      BY <1>9 DEF CommitToMain, Branches, TypeOK, Owned, Reviewable, Underway, DoneIsMerged
<1>10. CASE Switch
      BY <1>10 DEF Switch, TypeOK, Owned, Reviewable, Underway, DoneIsMerged
<1>11. CASE UNCHANGED vars
      BY <1>11 DEF vars, TypeOK, Owned, Reviewable, Underway, DoneIsMerged
<1>12. QED
      BY <1>3, <1>4, <1>5, <1>6, <1>7, <1>8, <1>9, <1>10, <1>11 DEF Next

\* The lifecycle invariant holds at every step of one operator
THEOREM LifecycleInvariance ==
    ASSUME OneOperator PROVE Spec => []LifecycleInv
<1>1. Init => LifecycleInv
  <2> SUFFICES ASSUME Init PROVE LifecycleInv
      OBVIOUS
  <2>1. TypeOK
        BY LifecycleAssumption DEF Init, TypeOK, Statuses, Commands, Branches, Calls, AllChanges
  <2>2. Owned /\ Reviewable /\ Underway /\ DoneIsMerged
        BY LifecycleAssumption DEF Init, Owned, Reviewable, Underway, DoneIsMerged
  <2>3. QED
        BY <2>1, <2>2 DEF LifecycleInv
<1>2. LifecycleInv /\ [Next]_vars => LifecycleInv'
      BY LifecycleInductive
<1>3. QED
      BY <1>1, <1>2, PTL DEF Spec

\* With one operator, DONE means merged, whatever fails or is killed
THEOREM LifecycleMerges ==
    ASSUME OneOperator PROVE Spec => []DoneIsMerged
<1>1. LifecycleInv => DoneIsMerged
      BY DEF LifecycleInv
<1>2. QED
      BY <1>1, LifecycleInvariance, PTL

\* One operator's approve never merges into another branch than merge_into
THEOREM LifecycleMergesIntoMain ==
    ASSUME OneOperator PROVE Spec => MergesIntoMain
<1>1. LifecycleInv /\ [Next]_vars => [refs'["other"] = refs["other"]]_vars
  <2> SUFFICES ASSUME LifecycleInv, Next PROVE refs'["other"] = refs["other"]
      OBVIOUS
  <2>1. TypeOK
        BY DEF LifecycleInv
  <2>2. ASSUME NEW t \in Terminals, FfBase(t) \/ FfBranch(t)
        PROVE  refs'["other"] = refs["other"]
    <3>1. head = "main"
          BY <2>2 DEF LifecycleInv, Underway, FfBase, FfBranch
    <3>2. QED
          BY <2>1, <2>2, <3>1 DEF FfBase, FfBranch, Merge, TypeOK, Branches
  <2>3. CASE CommitToMain
        BY <2>1, <2>3 DEF CommitToMain, TypeOK, Branches
  <2>4. CASE ~CommitToMain /\ ~\E t \in Terminals : FfBase(t) \/ FfBranch(t)
    <3>1. UNCHANGED refs
          BY <2>4 DEF Next, Command, Begin, Fetch, CheckClean, Checkout, GiveUp, Ancestor,
             RemoveTree, DeleteBranch, Restore, Mark, Kill, Run, RunStart, RunFails, RunCommits,
             Move, EditTree, RebaseBranch, Push, Switch, operator
    <3>2. QED
          BY <3>1
  <2>5. QED
        BY <2>2, <2>3, <2>4
<1>2. QED
      BY <1>1, LifecycleInvariance, PTL DEF Spec, MergesIntoMain

-----------------------------------------------------------------------------
(* The operator's checkout *)

\* Where the operator's branch is at each call of a command nothing has failed of
Remembered ==
    faults = 0 => \A t \in Terminals :
        /\ pc[t] \in {"idle", "fetch", "clean", "checkout", "ancestor", "mark"} => head = choice
        /\ pc[t] = "checkout" => saved[t] = choice
        /\ pc[t] \in {"removeTree", "deleteBranch"} /\ cmd[t] # "approve" => head = choice
        /\ \/ pc[t] \in {"ffBase", "ffBranch", "giveUp", "restore"}
           \/ pc[t] \in {"removeTree", "deleteBranch"} /\ cmd[t] = "approve"
           => saved[t] = choice /\ head = "main"

\* Every step of one operator keeps it there
LEMMA RememberedInductive ==
    ASSUME OneOperator, LifecycleInv, Remembered, [Next]_vars
    PROVE  Remembered'
<1>1. PICK u \in Terminals : Terminals = {u}
      BY DEF OneOperator
<1> USE LifecycleAssumption DEF notes, kanban, operator, server, terminal, Succeeds, Fails, LifecycleInv, For
<1> faults \in Nat /\ faults' \in Nat
    BY LifecycleTypes DEF TypeOK
<1>2. ASSUME NEW i \in Issues, Run(i) PROVE Remembered'
  <2>1. CASE RunStart(i)
        BY <2>1 DEF RunStart, Remembered, TypeOK, Owned, Underway
  <2>2. CASE RunFails(i)
        BY <2>2 DEF RunFails, Leftover, Remembered, TypeOK, Owned, Underway
  <2>3. CASE RunCommits(i)
        BY <2>3 DEF RunCommits, Leftover, Commit, AllChanges, Remembered, TypeOK, Owned, Underway
  <2>4. QED
        BY <1>2, <2>1, <2>2, <2>3 DEF Run
<1>3. ASSUME NEW t \in Terminals, Command(t) PROVE Remembered'
  <2> USE <1>1 DEF Goto, End
  <2>1. ASSUME NEW c \in Commands, NEW i \in Issues, Begin(t, c, i) PROVE Remembered'
        BY <2>1 DEF Begin, First, Commands, Remembered, TypeOK, Owned, Underway
  <2>2. CASE Fetch(t)
        BY <2>2 DEF Fetch, Remembered, TypeOK, Owned, Underway
  <2>3. CASE CheckClean(t)
        BY <2>3 DEF CheckClean, Remembered, TypeOK, Owned, Underway
  <2>4. CASE Checkout(t)
        BY <2>4 DEF Checkout, Remembered, TypeOK, Owned, Underway
  <2>5. CASE FfBase(t)
        BY <2>5 DEF FfBase, FastForwards, Merge, Branches, Remembered, TypeOK, Owned, Underway
  <2>6. CASE FfBranch(t)
        BY <2>6 DEF FfBranch, FastForwards, Merge, Branches, Remembered, TypeOK, Owned, Underway
  <2>7. CASE GiveUp(t)
        BY <2>7 DEF GiveUp, RestoreBranch, Remembered, TypeOK, Owned, Underway
  <2>8. CASE Ancestor(t)
        BY <2>8 DEF Ancestor, Remembered, TypeOK, Owned, Underway
  <2>9. CASE RemoveTree(t)
        BY <2>9 DEF RemoveTree, CleanupFails, Remembered, TypeOK, Owned, Underway
  <2>10. CASE DeleteBranch(t)
        BY <2>10 DEF DeleteBranch, CheckedOut, CleanupFails, Remembered, TypeOK, Owned, Underway
  <2>11. CASE Restore(t)
        BY <2>11 DEF Restore, RestoreBranch, Remembered, TypeOK, Owned, Underway
  <2>12. CASE Mark(t)
        BY <2>12 DEF Mark, Remembered, TypeOK, Owned, Underway
  <2>13. CASE Kill(t)
        BY <2>13 DEF Kill, Remembered, TypeOK, Owned, Underway
  <2>14. QED
        BY <1>3, <2>1, <2>2, <2>3, <2>4, <2>5, <2>6, <2>7, <2>8, <2>9, <2>10, <2>11, <2>12,
           <2>13 DEF Command
<1>4. ASSUME NEW i \in Issues, Move(i) \/ EditTree(i) \/ RebaseBranch(i) PROVE Remembered'
      BY <1>4 DEF Move, EditTree, RebaseBranch, ValidTransitions, OneOperator, Remembered, TypeOK, Owned, Underway
<1>5. CASE Push \/ CommitToMain
      BY <1>5 DEF Push, CommitToMain, Commit, Branches, Remembered, TypeOK, Owned, Underway
<1>6. CASE Switch
      BY <1>6 DEF Switch, Remembered, TypeOK, Owned, Underway
<1>7. CASE UNCHANGED vars
      BY <1>7 DEF vars, Remembered, TypeOK, Owned, Underway
<1>8. QED
      BY <1>2, <1>3, <1>4, <1>5, <1>6, <1>7 DEF Next

\* With one operator, commands that do not fail leave the branch checked out that was
THEOREM LifecycleRestoresHead ==
    ASSUME OneOperator PROVE Spec => []HeadRestored
<1>1. Init => Remembered
      BY DEF Init, Remembered
<1>2. LifecycleInv /\ Remembered /\ [Next]_vars => Remembered'
      BY RememberedInductive
<1>3. Remembered => HeadRestored
      BY DEF Remembered, HeadRestored, OneOperator
<1>4. QED
      BY <1>1, <1>2, <1>3, LifecycleInvariance, PTL DEF Spec

-----------------------------------------------------------------------------
(* What is in REVIEW, and what may be deleted *)

\* An issue in REVIEW has its branch until a command that marks it next has deleted it
ReviewKept ==
    faults = 0 => \A i \in Issues :
        \/ status[i] # "REVIEW"
        \/ \E t \in Terminals : target[t] = i /\ pc[t] \in {"restore", "mark"}
        \/ work[i] \in branch[i]

\* Every step of one operator keeps it
LEMMA ReviewKeptInductive ==
    ASSUME OneOperator, LifecycleInv, ReviewKept, [Next]_vars
    PROVE  ReviewKept'
<1>1. PICK u \in Terminals : Terminals = {u}
      BY DEF OneOperator
<1> USE LifecycleAssumption DEF notes, kanban, operator, server, terminal, Succeeds, Fails, LifecycleInv, For
<1> faults \in Nat /\ faults' \in Nat
    BY LifecycleTypes DEF TypeOK
<1>2. ASSUME NEW i \in Issues, Run(i) PROVE ReviewKept'
  <2>1. CASE RunStart(i)
        BY <2>1 DEF RunStart, ReviewKept, TypeOK, Owned, Underway
  <2>2. CASE RunFails(i)
        BY <2>2 DEF RunFails, Leftover, ReviewKept, TypeOK, Owned, Underway
  <2>3. CASE RunCommits(i)
        BY <2>3 DEF RunCommits, Leftover, Commit, AllChanges, ReviewKept, TypeOK, Owned, Underway
  <2>4. QED
        BY <1>2, <2>1, <2>2, <2>3 DEF Run
<1>3. ASSUME NEW t \in Terminals, Command(t) PROVE ReviewKept'
  <2> USE <1>1 DEF Goto, End
  <2>1. ASSUME NEW c \in Commands, NEW i \in Issues, Begin(t, c, i) PROVE ReviewKept'
        BY <2>1 DEF Begin, First, Commands, ReviewKept, TypeOK, Owned, Underway
  <2>2. CASE Fetch(t)
        BY <2>2 DEF Fetch, ReviewKept, TypeOK, Owned, Underway
  <2>3. CASE CheckClean(t)
        BY <2>3 DEF CheckClean, ReviewKept, TypeOK, Owned, Underway
  <2>4. CASE Checkout(t)
        BY <2>4 DEF Checkout, ReviewKept, TypeOK, Owned, Underway
  <2>5. CASE FfBase(t)
        BY <2>5 DEF FfBase, FastForwards, Merge, Branches, ReviewKept, TypeOK, Owned, Underway
  <2>6. CASE FfBranch(t)
        BY <2>6 DEF FfBranch, FastForwards, Merge, Branches, ReviewKept, TypeOK, Owned, Underway
  <2>7. CASE GiveUp(t)
        BY <2>7 DEF GiveUp, RestoreBranch, ReviewKept, TypeOK, Owned, Underway
  <2>8. CASE Ancestor(t)
        BY <2>8 DEF Ancestor, ReviewKept, TypeOK, Owned, Underway
  <2>9. CASE RemoveTree(t)
        BY <2>9 DEF RemoveTree, CleanupFails, ReviewKept, TypeOK, Owned, Underway
  <2>10. CASE DeleteBranch(t)
        BY <2>10 DEF DeleteBranch, CheckedOut, CleanupFails, ReviewKept, TypeOK, Owned, Underway
  <2>11. CASE Restore(t)
        BY <2>11 DEF Restore, RestoreBranch, ReviewKept, TypeOK, Owned, Underway
  <2>12. CASE Mark(t)
        BY <2>12 DEF Mark, ReviewKept, TypeOK, Owned, Underway
  <2>13. CASE Kill(t)
        BY <2>13 DEF Kill, ReviewKept, TypeOK, Owned, Underway
  <2>14. QED
        BY <1>3, <2>1, <2>2, <2>3, <2>4, <2>5, <2>6, <2>7, <2>8, <2>9, <2>10, <2>11, <2>12,
           <2>13 DEF Command
<1>4. ASSUME NEW i \in Issues, Move(i) \/ EditTree(i) \/ RebaseBranch(i) PROVE ReviewKept'
  <2>1. CASE Move(i)
    <3>1. PICK s \in Statuses : <<status[i], s>> \in Moves /\ status' = [status EXCEPT ![i] = s]
          BY <2>1 DEF Move
    <3>2. s # "REVIEW"
          BY <3>1 DEF OneOperator, ValidTransitions
    <3>3. \A j \in Issues : status'[j] = "REVIEW" => status[j] = "REVIEW"
          BY <3>1, <3>2 DEF TypeOK
    <3>4. QED
          BY <2>1, <3>3 DEF Move, ReviewKept
  <2>2. CASE EditTree(i)
        BY <2>2 DEF EditTree, ReviewKept
  <2>3. CASE RebaseBranch(i)
    <3>1. \A j \in Issues : branch[j] \subseteq branch'[j]
          BY <2>3 DEF RebaseBranch, TypeOK
    <3>2. QED
          BY <2>3, <3>1 DEF RebaseBranch, ReviewKept
  <2>4. QED
        BY <1>4, <2>1, <2>2, <2>3
<1>5. CASE Push \/ CommitToMain
      BY <1>5 DEF Push, CommitToMain, Commit, Branches, ReviewKept, TypeOK, Owned, Underway
<1>6. CASE Switch
      BY <1>6 DEF Switch, ReviewKept, TypeOK, Owned, Underway
<1>7. CASE UNCHANGED vars
      BY <1>7 DEF vars, ReviewKept, TypeOK, Owned, Underway
<1>8. QED
      BY <1>2, <1>3, <1>4, <1>5, <1>6, <1>7 DEF Next

\* With one operator, an issue in REVIEW that no command is at work on has the branch its
\* reviewed change is on, as long as no command failed
THEOREM LifecycleKeepsReview ==
    ASSUME OneOperator PROVE Spec => []ReviewHasWork
<1>1. Init => ReviewKept
      BY DEF Init, ReviewKept
<1>2. LifecycleInv /\ ReviewKept /\ [Next]_vars => ReviewKept'
      BY ReviewKeptInductive
<1>3. ReviewKept => ReviewHasWork
      BY DEF ReviewKept, ReviewHasWork, Busy
<1>4. QED
      BY <1>1, <1>2, <1>3, LifecycleInvariance, PTL DEF Spec

\* What approve and discard are about to delete is in main or on the server
Deletable ==
    /\ tracking \subseteq remote
    /\ \A t \in Terminals : pc[t] \in {"removeTree", "deleteBranch"} =>
          /\ cmd[t] # "abort"
          /\ cmd[t] # "retry" => branch[target[t]] \subseteq refs["main"] \cup tracking

\* Every step of one operator keeps it so
LEMMA DeletableInductive ==
    ASSUME OneOperator, LifecycleInv, Deletable, [Next]_vars
    PROVE  Deletable'
<1>1. PICK u \in Terminals : Terminals = {u}
      BY DEF OneOperator
<1> USE LifecycleAssumption DEF notes, kanban, operator, server, terminal, Succeeds, Fails, LifecycleInv, For
<1>2. ASSUME NEW i \in Issues, Run(i) PROVE Deletable'
  <2>1. CASE RunStart(i)
        BY <2>1 DEF RunStart, Deletable, TypeOK, Owned, Underway
  <2>2. CASE RunFails(i)
        BY <2>2 DEF RunFails, Leftover, Deletable, TypeOK, Owned, Underway
  <2>3. CASE RunCommits(i)
        BY <2>3 DEF RunCommits, Leftover, Commit, AllChanges, Deletable, TypeOK, Owned, Underway
  <2>4. QED
        BY <1>2, <2>1, <2>2, <2>3 DEF Run
<1>3. ASSUME NEW t \in Terminals, Command(t) PROVE Deletable'
  <2> USE <1>1 DEF Goto, End
  <2>1. ASSUME NEW c \in Commands, NEW i \in Issues, Begin(t, c, i) PROVE Deletable'
        BY <2>1 DEF Begin, First, Commands, Deletable, TypeOK, Owned, Underway
  <2>2. CASE Fetch(t)
        BY <2>2 DEF Fetch, Deletable, TypeOK, Owned, Underway
  <2>3. CASE CheckClean(t)
        BY <2>3 DEF CheckClean, Deletable, TypeOK, Owned, Underway
  <2>4. CASE Checkout(t)
        BY <2>4 DEF Checkout, Deletable, TypeOK, Owned, Underway
  <2>5. CASE FfBase(t)
        BY <2>5 DEF FfBase, FastForwards, Merge, Branches, Deletable, TypeOK, Owned, Underway
  <2>6. CASE FfBranch(t)
        BY <2>6 DEF FfBranch, FastForwards, Merge, Branches, Deletable, TypeOK, Owned, Underway
  <2>7. CASE GiveUp(t)
        BY <2>7 DEF GiveUp, RestoreBranch, Deletable, TypeOK, Owned, Underway
  <2>8. CASE Ancestor(t)
        BY <2>8 DEF Ancestor, Deletable, TypeOK, Owned, Underway
  <2>9. CASE RemoveTree(t)
        BY <2>9 DEF RemoveTree, CleanupFails, Deletable, TypeOK, Owned, Underway
  <2>10. CASE DeleteBranch(t)
        BY <2>10 DEF DeleteBranch, CheckedOut, CleanupFails, Deletable, TypeOK, Owned, Underway
  <2>11. CASE Restore(t)
        BY <2>11 DEF Restore, RestoreBranch, Deletable, TypeOK, Owned, Underway
  <2>12. CASE Mark(t)
        BY <2>12 DEF Mark, Deletable, TypeOK, Owned, Underway
  <2>13. CASE Kill(t)
        BY <2>13 DEF Kill, Deletable, TypeOK, Owned, Underway
  <2>14. QED
        BY <1>3, <2>1, <2>2, <2>3, <2>4, <2>5, <2>6, <2>7, <2>8, <2>9, <2>10, <2>11, <2>12,
           <2>13 DEF Command
<1>4. ASSUME NEW i \in Issues, Move(i) \/ EditTree(i) \/ RebaseBranch(i) PROVE Deletable'
      BY <1>4 DEF Move, EditTree, RebaseBranch, ValidTransitions, OneOperator, Deletable, TypeOK, Owned, Underway
<1>5. CASE Push \/ CommitToMain
      BY <1>5 DEF Push, CommitToMain, Commit, Branches, Deletable, TypeOK, Owned, Underway
<1>6. CASE Switch
      BY <1>6 DEF Switch, Deletable, TypeOK, Owned, Underway
<1>7. CASE UNCHANGED vars
      BY <1>7 DEF vars, Deletable, TypeOK, Owned, Underway
<1>8. QED
      BY <1>2, <1>3, <1>4, <1>5, <1>6, <1>7 DEF Next

\* With one operator, whatever fails: no change goes with its branch before it is in
\* merge_into or on the server, unless the operator starts over
THEOREM LifecycleKeepsWork ==
    ASSUME OneOperator PROVE Spec => WorkKept
<1>1. Init => Deletable
      BY DEF Init, Deletable
<1>2. LifecycleInv /\ Deletable /\ [Next]_vars => Deletable'
      BY DeletableInductive
<1>3. ASSUME LifecycleInv, Deletable, [Next]_vars, NEW i \in Issues, NEW c \in AllChanges, Lost(i, c)
      PROVE  RetryDeletes(i)
  <2>1. branch \in [Issues -> SUBSET AllChanges]
        BY <1>3 DEF LifecycleInv, TypeOK
  <2>2. ASSUME NEW j \in Issues, Run(j) PROVE FALSE
        BY <1>3, <2>1, <2>2 DEF Run, RunStart, RunFails, RunCommits, Leftover, Lost, kanban
  <2>3. ASSUME NEW j \in Issues, RebaseBranch(j) PROVE FALSE
        BY <1>3, <2>1, <2>3 DEF RebaseBranch, Lost
  <2>4. ASSUME NEW t \in Terminals, DeleteBranch(t) PROVE RetryDeletes(i)
    <3>1. target[t] = i
          BY <1>3, <2>1, <2>4 DEF DeleteBranch, CleanupFails, Lost, kanban
    <3>2. cmd[t] \in Commands /\ pc[t] = "deleteBranch" /\ UNCHANGED <<refs, tracking>>
          BY <1>3, <2>4 DEF LifecycleInv, TypeOK, DeleteBranch, operator, server
    <3>3. cmd[t] = "retry"
          BY <1>3, <3>1, <3>2 DEF Deletable, Lost, Commands
    <3>4. QED
          BY <2>4, <3>1, <3>3 DEF RetryDeletes
  <2>5. branch' # branch
        BY <1>3 DEF Lost
  <2>6. QED
        BY <1>3, <2>2, <2>3, <2>4, <2>5 DEF Next, Command, Begin, Fetch, CheckClean, Checkout, FfBase,
           FfBranch, GiveUp, Ancestor, RemoveTree, CleanupFails, Restore, Mark, Kill, Move, EditTree,
           Push, CommitToMain, Switch, vars, kanban
<1>4. LifecycleInv /\ Deletable /\ [Next]_vars =>
        \A i \in Issues, c \in AllChanges : Lost(i, c) => RetryDeletes(i)
      BY <1>3
<1>5. QED
      BY <1>1, <1>2, <1>4, LifecycleInvariance, PTL DEF Spec, WorkKept
=============================================================================
