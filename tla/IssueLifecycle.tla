--------------------------- MODULE IssueLifecycle ---------------------------
(***************************************************************************)
(* The life of issues between `kanban run` and DONE: the approve, abort and  *)
(* retry commands (packages/cli/src/commands), the git repository their work  *)
(* lives in, and the people who push, rebase and switch branches in it.       *)
(*                                                                         *)
(* A ref is the set of changes it contains, so that an ancestor is a subset   *)
(* and a fast-forward is growth.  Every git call of a command is a step; the  *)
(* commands take no lock, neither against each other nor against a run.  A run *)
(* is two steps here (module RunIssue has the rest of it).                     *)
(***************************************************************************)
EXTENDS IssueStatus, Naturals

CONSTANTS
    Issues, Nobody,
    Terminals,     \* terminals in which people type commands
    MaxChanges,    \* bound on the changes ever committed
    MaxFaults,     \* bound on git calls and note writes that fail, and on kills
    Moves          \* the transitions people use `kanban move` for

ASSUME LifecycleAssumption ==
    /\ MaxChanges \in Nat /\ MaxFaults \in Nat
    /\ Nobody \notin Issues
    /\ Moves \subseteq ValidTransitions

VARIABLES
    status,     \* the status in each note
    work,       \* the change each issue's last REVIEW stands for, 0 before one
    running,    \* the issue that holds the execution lock
    branch,     \* kanban/<id>: the changes in it, {} if there is no branch
    tree,       \* the worktree of each issue
    refs,       \* the operator's own branches: main is merge_into
    head,       \* the one checked out in working_dir
    choice,     \* the one the operator last checked out
    remote,     \* main on the server
    tracking,   \* origin/main
    changes,    \* the changes committed so far, by anybody
    cmd, pc, target, saved,     \* each terminal: command, next call, issue, original branch
    faults      \* the calls that failed and the commands that were killed

notes    == <<status, work, running>>
kanban   == <<branch, tree>>
operator == <<refs, head, choice>>
server   == <<remote, tracking, changes>>
terminal == <<cmd, pc, target, saved, faults>>
vars     == <<notes, kanban, operator, server, terminal>>

Commands == {"approve", "abort", "discard", "retry"}
Branches == {"main", "other"}
Calls == {"idle", "fetch", "clean", "checkout", "ffBase", "ffBranch", "giveUp", "ancestor",
          "removeTree", "deleteBranch", "restore", "mark"}
AllChanges == 0..MaxChanges

TypeOK == /\ status \in [Issues -> Statuses]
          /\ work \in [Issues -> AllChanges]
          /\ running \in Issues \cup {Nobody}
          /\ branch \in [Issues -> SUBSET AllChanges]
          /\ tree \in [Issues -> {"none", "clean", "dirty"}]
          /\ refs \in [Branches -> SUBSET AllChanges]
          /\ head \in Branches /\ choice \in Branches
          /\ remote \subseteq AllChanges /\ tracking \subseteq AllChanges
          /\ changes \in AllChanges
          /\ cmd \in [Terminals -> Commands]
          /\ pc \in [Terminals -> Calls]
          /\ target \in [Terminals -> Issues \cup {Nobody}]
          /\ saved \in [Terminals -> Branches]
          /\ faults \in 0..MaxFaults

Init == /\ status = [i \in Issues |-> "READY"]
        /\ work = [i \in Issues |-> 0]
        /\ running = Nobody
        /\ branch = [i \in Issues |-> {}] /\ tree = [i \in Issues |-> "none"]
        /\ refs = [b \in Branches |-> {0}]
        /\ head = "other" /\ choice = "other"
        /\ remote = {0} /\ tracking = {0} /\ changes = 0
        /\ cmd = [t \in Terminals |-> "retry"] /\ pc = [t \in Terminals |-> "idle"]
        /\ target = [t \in Terminals |-> Nobody] /\ saved = [t \in Terminals |-> "main"]
        /\ faults = 0

\* The number of the next change
Commit(c) == changes < MaxChanges /\ c = changes + 1 /\ changes' = c

\* A call succeeds, or fails within the bound
Succeeds == UNCHANGED faults
Fails == faults < MaxFaults /\ faults' = faults + 1

Goto(t, call) == pc' = [pc EXCEPT ![t] = call] /\ UNCHANGED <<cmd, target, saved>>

\* The command ends, whether it reports success or an error
End(t) == /\ pc' = [pc EXCEPT ![t] = "idle"]
          /\ target' = [target EXCEPT ![t] = Nobody]
          /\ UNCHANGED <<cmd, saved>>

-----------------------------------------------------------------------------
(* kanban run *)

RunStart(i) ==
    /\ running = Nobody /\ status[i] = "READY"
    /\ running' = i /\ status' = [status EXCEPT ![i] = "RUNNING"]
    /\ UNCHANGED <<work, kanban, operator, server, terminal>>

Leftover(i) == branch[i] # {} \/ tree[i] # "none"

\* createKanbanWorktree: fetch, then a new branch and a worktree, or an error
RunFails(i) ==
    /\ running = i
    /\ \/ Fails /\ UNCHANGED <<tracking, kanban>>
       \/ tracking' = remote /\ Leftover(i) /\ Succeeds /\ UNCHANGED kanban
       \/ /\ tracking' = remote /\ ~Leftover(i) /\ Succeeds
          /\ branch' = [branch EXCEPT ![i] = remote]
          /\ \E s \in {"clean", "dirty"} : tree' = [tree EXCEPT ![i] = s]
    /\ running' = Nobody /\ status' = [status EXCEPT ![i] = "FAILED"]
    /\ UNCHANGED <<work, operator, remote, changes, cmd, pc, target, saved>>

\* The checkpoint is committed; what follows it may still fail
RunCommits(i) ==
    /\ running = i /\ ~Leftover(i)
    /\ tracking' = remote
    /\ \E c \in AllChanges :
         /\ Commit(c)
         /\ branch' = [branch EXCEPT ![i] = remote \cup {c}]
         /\ tree' = [tree EXCEPT ![i] = "clean"]
         /\ \/ status' = [status EXCEPT ![i] = "REVIEW"] /\ work' = [work EXCEPT ![i] = c]
            \/ status' = [status EXCEPT ![i] = "FAILED"] /\ UNCHANGED work
    /\ running' = Nobody
    /\ UNCHANGED <<operator, remote, terminal>>

-----------------------------------------------------------------------------
(* approve, abort and retry *)

\* The statuses a command is for, and its first call
For(c) == IF c = "approve" THEN {"REVIEW"} ELSE {"REVIEW", "FAILED"}
First(c) == CASE c \in {"approve", "discard"} -> "fetch"
              [] c = "retry" -> "removeTree"
              [] c = "abort" -> "mark"

\* findIssueById and the check of its status
Begin(t, c, i) ==
    /\ pc[t] = "idle" /\ status[i] \in For(c)
    /\ cmd' = [cmd EXCEPT ![t] = c] /\ target' = [target EXCEPT ![t] = i]
    /\ pc' = [pc EXCEPT ![t] = First(c)]
    /\ UNCHANGED <<notes, kanban, operator, server, saved, faults>>

Fetch(t) ==
    /\ pc[t] = "fetch"
    /\ \/ /\ tracking' = remote /\ Succeeds
          /\ Goto(t, IF cmd[t] = "approve" THEN "clean" ELSE "ancestor")
       \/ Fails /\ End(t) /\ UNCHANGED tracking
    /\ UNCHANGED <<notes, kanban, operator, remote, changes>>

\* getStatusPorcelain of the worktree (an error if there is none), getCurrentBranch
CheckClean(t) ==
    /\ pc[t] = "clean"
    /\ \/ /\ tree[target[t]] = "clean" /\ Succeeds
          /\ saved' = [saved EXCEPT ![t] = head]
          /\ pc' = [pc EXCEPT ![t] = "checkout"]
          /\ UNCHANGED <<cmd, target>>
       \/ ((tree[target[t]] # "clean" /\ Succeeds) \/ Fails) /\ End(t)
    /\ UNCHANGED <<notes, kanban, operator, server>>

\* A slip: merge_into is not checked out
CheckoutSkipped(t) ==
    /\ pc[t] = "checkout" /\ Goto(t, "ffBase") /\ Succeeds
    /\ UNCHANGED <<notes, kanban, operator, server>>

Checkout(t) ==
    /\ pc[t] = "checkout"
    /\ \/ head' = "main" /\ Goto(t, "ffBase") /\ Succeeds
       \/ Fails /\ End(t) /\ UNCHANGED head
    /\ UNCHANGED <<notes, kanban, refs, choice, server>>

\* git merge --ff-only, into whatever branch is checked out; a ref that is
\* already contained is a success that changes nothing
FastForwards(new) == new # {} /\ (new \subseteq refs[head] \/ refs[head] \subseteq new)
Merge(new) == refs' = [refs EXCEPT ![head] = @ \cup new]

FfBase(t) ==
    /\ pc[t] = "ffBase"
    /\ \/ FastForwards(tracking) /\ Merge(tracking) /\ Goto(t, "ffBranch") /\ Succeeds
       \/ /\ (~FastForwards(tracking) /\ Succeeds) \/ Fails
          /\ Goto(t, "giveUp") /\ UNCHANGED refs
    /\ UNCHANGED <<notes, kanban, head, choice, server>>

\* A slip: a branch that cannot be fast-forwarded is skipped
FfBranchSkips(t) ==
    /\ pc[t] = "ffBranch"
    /\ \/ FastForwards(branch[target[t]]) /\ Merge(branch[target[t]])
       \/ ~FastForwards(branch[target[t]]) /\ UNCHANGED refs
    /\ Goto(t, "removeTree") /\ Succeeds
    /\ UNCHANGED <<notes, kanban, head, choice, server>>

FfBranch(t) ==
    /\ pc[t] = "ffBranch"
    /\ \/ /\ FastForwards(branch[target[t]]) /\ Merge(branch[target[t]])
          /\ Goto(t, "removeTree") /\ Succeeds
       \/ /\ (~FastForwards(branch[target[t]]) /\ Succeeds) \/ Fails
          /\ Goto(t, "giveUp") /\ UNCHANGED refs
    /\ UNCHANGED <<notes, kanban, head, choice, server>>

\* A slip: a failed approve forgets the operator's branch
GiveUpForgets(t) ==
    /\ pc[t] = "giveUp" /\ End(t) /\ Succeeds
    /\ UNCHANGED <<notes, kanban, operator, server>>

\* restoreOriginalBranch: nothing to do if that was merge_into itself
RestoreBranch(t) == \/ saved[t] # "main" /\ head' = saved[t] /\ Succeeds
                    \/ saved[t] = "main" /\ UNCHANGED head /\ Succeeds
                    \/ saved[t] # "main" /\ UNCHANGED head /\ Fails

\* ... then the error with the guidance
GiveUp(t) ==
    /\ pc[t] = "giveUp"
    /\ RestoreBranch(t)
    /\ End(t)
    /\ UNCHANGED <<notes, kanban, refs, choice, server>>

\* A slip: the ancestor is looked for the wrong way round
AncestorSwapped(t) ==
    /\ pc[t] = "ancestor" /\ Succeeds
    /\ IF tracking \subseteq branch[target[t]] THEN Goto(t, "removeTree") ELSE End(t)
    /\ UNCHANGED <<notes, kanban, operator, server>>

\* A slip: the branch is deleted before it is looked at
AncestorLate(t) ==
    /\ pc[t] = "ancestor" /\ Succeeds
    /\ branch' = [branch EXCEPT ![target[t]] = {}]
    /\ IF branch[target[t]] \subseteq tracking THEN Goto(t, "mark") ELSE End(t)
    /\ UNCHANGED <<notes, tree, operator, server>>

\* discardAbortWithGit: only a branch that is in origin/main may go
Ancestor(t) ==
    /\ pc[t] = "ancestor"
    /\ \/ branch[target[t]] \subseteq tracking /\ Goto(t, "removeTree") /\ Succeeds
       \/ ((~(branch[target[t]] \subseteq tracking) /\ Succeeds) \/ Fails) /\ End(t)
    /\ UNCHANGED <<notes, kanban, operator, server>>

\* What an error of the cleanup does: approve keeps it as a warning
CleanupFails(t) == /\ UNCHANGED kanban
                   /\ IF cmd[t] = "approve" THEN Goto(t, "restore") ELSE End(t)

\* git worktree remove --force, if it exists
RemoveTree(t) ==
    /\ pc[t] = "removeTree"
    /\ \/ /\ tree' = [tree EXCEPT ![target[t]] = "none"]
          /\ Goto(t, "deleteBranch") /\ Succeeds /\ UNCHANGED branch
       \/ tree[target[t]] # "none" /\ Fails /\ CleanupFails(t)
    /\ UNCHANGED <<notes, operator, server>>

\* git branch -D, if it exists; git refuses while a worktree has it checked out
CheckedOut(i) == branch[i] # {} /\ tree[i] # "none"

DeleteBranch(t) ==
    /\ pc[t] = "deleteBranch"
    /\ \/ /\ ~CheckedOut(target[t]) /\ Succeeds
          /\ branch' = [branch EXCEPT ![target[t]] = {}] /\ UNCHANGED tree
          /\ Goto(t, IF cmd[t] = "approve" THEN "restore" ELSE "mark")
       \/ ((CheckedOut(target[t]) /\ Succeeds) \/ Fails) /\ CleanupFails(t)
    /\ UNCHANGED <<notes, operator, server>>

Restore(t) ==
    /\ pc[t] = "restore"
    /\ RestoreBranch(t)
    /\ Goto(t, "mark")
    /\ UNCHANGED <<notes, kanban, refs, choice, server>>

\* updateIssueStatus, over whatever status the note has by now
Mark(t) ==
    /\ pc[t] = "mark"
    /\ \/ /\ status' = [status EXCEPT ![target[t]] =
                           IF cmd[t] = "approve" THEN "DONE" ELSE "READY"]
          /\ Succeeds
       \/ Fails /\ UNCHANGED status
    /\ End(t)
    /\ UNCHANGED <<work, running, kanban, operator, server>>

Kill(t) ==
    /\ pc[t] # "idle" /\ End(t) /\ Fails
    /\ UNCHANGED <<notes, kanban, operator, server>>

-----------------------------------------------------------------------------
(* People *)

\* kanban move
Move(i) ==
    /\ \E s \in Statuses : <<status[i], s>> \in Moves /\ status' = [status EXCEPT ![i] = s]
    /\ UNCHANGED <<work, running, kanban, operator, server, terminal>>

\* Somebody else pushes; the operator pushes main
Push ==
    /\ \/ \E c \in AllChanges : Commit(c) /\ remote' = remote \cup {c}
       \/ remote \subseteq refs["main"] /\ remote' = refs["main"] /\ UNCHANGED changes
    /\ UNCHANGED <<notes, kanban, operator, tracking, terminal>>

\* The operator commits to main
CommitToMain ==
    /\ \E c \in AllChanges : Commit(c) /\ refs' = [refs EXCEPT !["main"] = @ \cup {c}]
    /\ UNCHANGED <<notes, kanban, head, choice, remote, tracking, terminal>>

\* ... edits in the worktree, or rebases the branch in it
EditTree(i) ==
    /\ tree[i] = "clean" /\ tree' = [tree EXCEPT ![i] = "dirty"]
    /\ UNCHANGED <<notes, branch, operator, server, terminal>>
RebaseBranch(i) ==
    /\ tree[i] = "clean" /\ branch' = [branch EXCEPT ![i] = @ \cup tracking]
    /\ UNCHANGED <<notes, tree, operator, server, terminal>>

\* ... and switches branches while no command of theirs is running
Switch ==
    /\ \A t \in Terminals : pc[t] = "idle"
    /\ \E b \in Branches : head' = b /\ choice' = b
    /\ UNCHANGED <<notes, kanban, refs, server, terminal>>

-----------------------------------------------------------------------------
Command(t) ==
    \/ \E c \in Commands, i \in Issues : Begin(t, c, i)
    \/ Fetch(t) \/ CheckClean(t) \/ Checkout(t) \/ FfBase(t) \/ FfBranch(t) \/ GiveUp(t)
    \/ Ancestor(t) \/ RemoveTree(t) \/ DeleteBranch(t) \/ Restore(t) \/ Mark(t) \/ Kill(t)

Run(i) == RunStart(i) \/ RunFails(i) \/ RunCommits(i)

Next == \/ \E t \in Terminals : Command(t)
        \/ \E i \in Issues : Run(i) \/ Move(i) \/ EditTree(i) \/ RebaseBranch(i)
        \/ Push \/ CommitToMain \/ Switch

Spec == Init /\ [][Next]_vars

-----------------------------------------------------------------------------
(* What the commands promise *)

Busy(i) == \E t \in Terminals : target[t] = i

\* DONE means merged: the reviewed change is in merge_into
\* (2026-04-23-kanban-control-plane-design.md:592, `git merge --ff-only` must succeed).
DoneIsMerged == \A i \in Issues : status[i] = "DONE" => work[i] # 0 /\ work[i] \in refs["main"]

\* REVIEW means there is something to review: no refused approve, abort or retry
\* leaves an issue in REVIEW without the branch its change is on.  (A command that
\* is killed, or whose last write fails, may.)
ReviewHasWork ==
    \A i \in Issues :
        faults = 0 /\ status[i] = "REVIEW" /\ ~Busy(i) => work[i] \in branch[i]

\* The operator's checkout is theirs again once the commands are over
\* (packages/cli/tests/index.test.ts:449).
HeadRestored ==
    faults = 0 /\ (\A t \in Terminals : pc[t] = "idle") => head = choice

\* approve merges into merge_into and into no other branch
\* (2026-04-23-kanban-control-plane-design.md:594)
MergesIntoMain == [][refs'["other"] = refs["other"]]_vars

Lost(i, c) == c \in branch[i] \ branch'[i] /\ c \notin refs'["main"] \cup tracking'
RetryDeletes(i) == \E t \in Terminals : target[t] = i /\ cmd[t] = "retry" /\ DeleteBranch(t)

\* No change is deleted with its branch before it is in merge_into or on the
\* server, whatever fails on the way; only retry starts over.
WorkKept ==
    [][\A i \in Issues, c \in AllChanges : Lost(i, c) => RetryDeletes(i)]_vars

-----------------------------------------------------------------------------
(* Why DONE means merged, with one terminal *)

Merged(i) == work[i] # 0 /\ work[i] \in refs["main"]

\* The run holds the lock for a RUNNING issue; an idle terminal has no issue
Owned == /\ \A i \in Issues : running = i => status[i] = "RUNNING"
         /\ \A t \in Terminals : pc[t] = "idle" <=> target[t] = Nobody

\* A worktree in REVIEW has the reviewed change checked out: git deletes no
\* branch before its worktree
Reviewable ==
    \A i \in Issues : status[i] = "REVIEW" =>
        work[i] # 0 /\ (tree[i] # "none" => work[i] \in branch[i])

\* Where a command is, and what its issue is like there
Underway ==
    \A t \in Terminals :
        /\ pc[t] \in {"clean", "checkout", "ffBase", "ffBranch"} => cmd[t] = "approve"
        /\ pc[t] = "ancestor" => cmd[t] = "discard"
        /\ pc[t] = "fetch" => cmd[t] \in {"approve", "discard"}
        /\ pc[t] \in {"checkout", "ffBase", "ffBranch"} => tree[target[t]] # "none"
        /\ pc[t] \in {"ffBase", "ffBranch"} => head = "main"
        /\ pc[t] # "idle" => status[target[t]] \in For(cmd[t])
        /\ cmd[t] = "approve" /\ pc[t] \in {"removeTree", "deleteBranch", "restore", "mark"} =>
              Merged(target[t])

LifecycleInv == TypeOK /\ Owned /\ Reviewable /\ Underway /\ DoneIsMerged
=============================================================================
