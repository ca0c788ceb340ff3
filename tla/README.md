# kanban-task-engine: formal models

TLA+ modules that model the engine of `kanban`: the command line and the core library that keep
issues as Markdown notes in a vault, run a coding agent on one issue at a time, and record what it
did. TLC checks the modules on small instances; TLAPS proves the theorems in the `*Proofs` modules
for every value of the constants.

Paths in this file are relative to `src/`; `core/` is `packages/core/src/` and `cli/` is
`packages/cli/src/`.

To check one run: `tlc -config ExecutionLock.cfg MCExecutionLock.tla`; to check one module's
proofs: `tlapm RunRecoveryProofs.tla`. `PROJECT.json` lists every run, which line of the code
every definition stands for, the mutants that each property was tried against, the hazards and the
disagreements between code and documents.

## 1. The system

`kanban` has no server. Its state is files: issue notes and board notes in an Obsidian vault, the
lock and the run artifacts below `runtime/`, and a git repository with one branch and one worktree
per issue. Everything that changes them is a short-lived Node process (a command typed in a
terminal), the Obsidian plugin, an editor, or git itself. What makes it hard is that these meet
only in the file system, where one call at a time is atomic and a process may die between two.

### Components

| component | state | operations | correct if |
| --- | --- | --- | --- |
| issue status rules (`packages/schema/src/status.ts`, `core/state-machine.ts`) | none | `canTransition`, the rule for epics | (used by the others) |
| execution lock (`core/executor/lock.ts`) | `runtime/current.lock` | acquire (mkdir, optional stale check, `open 'wx'`, write), release (unlink) | at most one holder; an abandoned lock can be replaced, and a live one only by its age |
| agent process (`core/executor/agent-process.ts`) | the child, two timers, four flags | spawn; handlers of the timeout, the kill timer, `error`, `close`, an error of stdin | the call returns; success only for a success; nothing of a timed-out group survives the return |
| run issue (`core/executor/run-issue.ts`) | note, worktree, log, metadata, events | one run: lock, RUNNING, worktree, agent, checkpoint, artifacts, final status, release | the run converges to REVIEW or FAILED; note, metadata and events tell one story |
| workflow engine (`core/runtime/workflow-engine.ts`, `core/ports/node-fs-vault-port.ts`) | the note's file | validate, read, check freshness, rename | transitions of the table only; edits of the body survive |
| run recovery (`cli/commands/recover-run.ts`) | lock, note | read note, read lock, probe pid, unlink, mark FAILED | never takes the lock of a run that can be seen to live; an issue of a dead run does not stay RUNNING |
| issue lifecycle commands (`cli/commands/{approve,abort,retry,git-lifecycle}.ts`) | note, refs, worktree, checkout | approve, abort, abort --discard, retry | DONE means merged; unmerged work is not deleted; the operator's checkout is given back |
| git and worktrees (`core/executor/{git,worktree}.ts`) | refs, worktrees | fetch, checkout, ff-only merge, ancestor check, create and remove branch and worktree | (environment of the two above) |
| moving issues (`core/movement/issue-mover.ts`) | note | one guarded status change | transitions of the table only, an epic from TODO to DONE only; the note moved is the one that was read |
| markdown store, file watcher (`core/store/`) | cache of tasks, checksums, debounce timers | load, save, delete, onFileChange | the cache agrees with a note nobody is changing; a note is never half written |
| policies and events (`core/policy-engine.ts`, `core/event-bus.ts`) | handlers | onTransition, emit | a rule or listener a move is meant for gets it once; one that throws does not lose the others |
| modules of a recipe (`core/runtime/module-runner.ts`, `core/modules/`) | queue of audit lines, git index | transition, audit line, checkpoint commit | a run that reports success has its line in the file and in a commit |
| authoring (`core/authoring/`, `core/use-cases/obsidian-authoring.ts`) | authoring lock, the id space | create issue, normalise | ids are unique and never reused; a note is never overwritten |
| boards (`core/boards/`, `core/use-cases/obsidian-board-*.ts`) | board note | project, render, reconcile a dragged board | a drag is applied as confirmed, once, or reported; a rendered board agrees with the notes |
| dead letter queue (`core/dead-letter-queue.ts`) | entries, file, promise chain | add, remove, clear, read | an entry that was added is not lost |
| provider sync (`core/sync-coordinator.ts`) | notes, provider records | pull, push, resolve conflict | local and remote end as the conflict rule says |
| openclaw adapter (`packages/adapter-openclaw/src/`) | persisted queue, token | execute, enqueue on 429, refresh | a queued request is handed out once, and the queue keeps its bound |
| cli sessions (`packages/adapter-cli/src/session-manager.ts`) | sessions, child processes | start, cancel, timeout, exit | a session ends in one final status, and its process with it |
| mcp clients and enrichment (`packages/neurons-enrichment/src/`) | pending requests, child, HTTP session, cache | request, response, exit, close, look up | each request is answered once, by the server it was sent to |
| github, jira and firebase adapters (`packages/adapter-{github,jira,firebase}/src/`) | cards of a project, documents, listeners | publish, fetch, subscribe | what was published is read back, as far as both vocabularies allow |
| vault records and schema (`packages/schema/`, `core/store/mapper.ts`) | none | parse, validate, serialise | what one program writes the others can read |
| obsidian plugin (`packages/obsidian-plugin/src/`) | open dialogs | new task, normalise, sync, preview and apply, move, promote | as the use cases it calls |
| command line, documents and their tooling | none of their own | dispatch | not modelled |

### How they interact

    kanban run ──> execution lock ──> run issue ──> workflow engine ──> note  <── editor, kanban move
                        ^                 │ │ └──> agent process ──> agent and its helpers
    kanban recover-run ─┘                 │ └──> log, metadata, events
           │                              └──> git: kanban/<id>, worktree
           └──────> note                            ^
    kanban approve / abort / retry ─────────────────┴──> checkout, main ──> note

Calls inside one process are awaited one by one; between any two of them another process may run.
The execution lock is the only exclusion, and only `run` takes it: `recover-run`, `approve`,
`abort`, `retry`, `move`, the plugin and people with editors do not. `NodeFsVaultPort.process` is a
read, a check and a rename, not a compare-and-swap, and `cli/vault.ts` writes a status without any
check. Authoring has a lock of its own, one per space, which the plugin's Normalize Current Note
does not take. These are the interleavings the models are about.

Beside this core stand services that share none of its state and little with each other: the store
and its watcher, the sync with providers and their adapters, the queues, the child processes of the
CLI adapter and of the MCP clients. Each keeps something in memory that a file, a process or a server
has as well, and each lets other calls run while it awaits one.

### What is hard

* *interleaving*: two acquires around a stale lock; a recovery while the run it recovers ends; an
  approve or an editor's save between the read and the rename of a note;
* *partial failure*: any awaited call of a run fails after some of note, worktree, metadata and
  events have been written; a git call of approve fails half way;
* *crash and restart*: a run is killed anywhere and its lock stays; a lifecycle command is killed
  between the branch's deletion and the note's status;
* *timeouts*: the agent exits, closes its pipes, is timed out and killed in any order, while helpers
  in its process group outlive it;
* *late answers*: a read that began before a write ends after it; an exit, a response or a half-read
  line belongs to a process or a session that was given up;
* *liveness*: an issue must not stay RUNNING, an orphaned lock must not stay for ever, the call that
  waits for an agent, a session or a server must return.

`PROJECT.json` ("hazards") has each at its line, with the properties that are about it.

## 2. Plan

Most important first. The parts that decide what happens to somebody's work come before those
that decide what a person is shown.

| | module | models | composes | state |
| --- | --- | --- | --- | --- |
| 1 | `IssueStatus` | the transition table, the epic rule (pure) | | done |
| 2 | `SingleLock` | abstract: one holder, orphans, replacement | | done |
| 3 | `ExecutionLock` | `lock.ts` | implements `SingleLock` | done, proved |
| 4 | `RunRecovery` | runs, crashes, `recover-run` | extends `ExecutionLock`; implements `SingleLock` | done, proved |
| 5 | `RunIssue` | `runIssueWithAgent`, the engine and the port below it | extends `IssueStatus` | done, proved |
| 6 | `IssueLifecycle` | `approve`, `abort`, `retry` and git | extends `IssueStatus` | done, proved |
| 7 | `AgentProcess` | `spawnAgentProcess` | | done, proved |
| 8 | `Authoring` | ids and notes under the authoring lock | | done, proved |
| 9 | `BoardReconcile` | render a board, drag cards, apply it card by card; the plugin's dialog | extends `IssueStatus` | done, proved |
| 10 | `IssueNote` | one note under its four readers and writers | extends `IssueStatus` | done, proved |
| 11 | `MarkdownStore` | cache, debounced watcher, own writes that come back | | done, proved |
| 12 | `DeadLetterQueue`, `RateLimitQueue` | promise chain, lazy load, bound, torn file | | done, proved |
| 13 | `SyncCoordinator`, `GithubDrafts`, `FirebaseTransport` | pull, push and conflicts; draft cards; documents and listeners | | done, proved |
| 14 | `Sessions`, `McpClient`, `HttpMcpClient`, `Enrichment` | child processes and servers: cancel, timeout, exit, restart, late answers | | done, proved |
| 15 | `PolicyEngine`, `ModuleRunner` | handlers around a transition; the modules of a recipe | extend `IssueStatus` | done, proved |
| 16 | `MCServices` | rows 10 to 15 side by side | instantiates them | done, proved |

The modules of rows 10 to 15 share no state. Each is small, so one run checks them all: `MCServices`
chooses one of them in `Init`, and its state space is the sum of theirs. Its proofs are in two
modules, by what the parts promise: `StoresProofs` for those that keep a copy of something,
`ServicesProofs` for the queues, the note and the calls.

Abstract specifications: `SingleLock`, stated and implemented twice. Left: a durable bag for both
queues, which they implement only as long as no load comes late, and "one reply per request" for
the two MCP clients.

Theorems left: none of the safety properties that the runs check. Worth stating next is what the
abstract specifications above promise.

## 3. The modules and the code

Every action is one handler, or the part of one between two awaits. Operators whose comment
starts "A slip:" are no part of any specification: each is a plausible bug in the
definition below it, and `PROJECT.json` ("mutants") says which property notices it.

**`ExecutionLock`**. `lock` is the file `runtime/current.lock`: who created it and what a reader
finds (`empty` between `open 'wx'` and the write, `fresh`, or `expired`, older than `staleMs`). `pc`
is where a process is in `acquireExecutionLock` and `release`. Time is `Expire`: the age alone
counts, so the lock of a live process expires as well, if it is one of the `Lasting` ones, which may
hold it longer than `staleMs`. A process that is killed keeps its file; a write to an unlinked file is lost. `SingleLock` has two variables, holders
and whether an orphan is left; the refinement reads them off `lock` and `pc`.

**`RunRecovery`**. Extends the lock by what a run does with it in outline (stages `read` to
`release`, with the read and the rename of each note write apart) and by `recover-run`: note, lock,
pid, unlink, FAILED. `ProcessStates` is what the probe of a pid answers: `unknown` for a live process
of another user (`Foreign`), of which `process.kill(pid, 0)` throws EPERM. `PidReuse` says whether a
dead pid may answer for another process. `robbed` remembers that `recover-run` unlinked a lock that
no dead run of its issue had left.

**`RunIssue`**. One run call by call: `pc` is the next await, `ret` where `WorkflowEngine.transition`
returns to, `seen`/`buf`/`original` what the run remembers of the note, `work`, `metaFile` and
`events` what it leaves on disk. Every call may fail (`Fails`; `NoteFails` for those on the note
itself). People edit and move the note between any two calls; `raced` marks a note that was written
in the window between `process()`'s read and its rename. The log is not kept, since nothing reads it.

**`IssueLifecycle`**. A ref is the set of changes in it: an ancestor is a subset, a fast-forward is
growth. `cmd`, `pc`, `target` and `saved` are the terminals; each git call of a command is a step
that may fail, and a command may be killed before any. The run is two steps. People push, commit to
main, rebase or edit a worktree, switch branches and move issues.

**`AgentProcess`**. The agent, its helpers in its process group, two timers, four flags, the result,
and whether Node is still there: `EngineExits` happens when nothing that keeps the event loop alive
is left, which two `unref`'d timers do not.

**`Authoring`**. A note is a number and a slug in its file name and an id in its frontmatter, 0 if
that cannot be read. Writers create (`kanban new`, the plugin's new task, a normalised draft) or
rewrite in place under the lock directory. The `Loose` kinds are the plugin's Normalize Current Note:
the same scan and the same writes, without the lock and without its checks. `disturbed` says that
people, or a writer past the lock, changed the folder since the writer last scanned it. `Refused` is
what each caller's scan throws on: duplicates for all, a note without any id for the CLI's callers,
any unreadable note for the plugin's new task.

**`BoardReconcile`**. A job is one call of `reconcile-board` (with or without `--apply`), of the
plugin's preview and apply, of its move of one note, or of a rendering. It reads note by note and
moves card by card. A card carries what was rendered (id, status, checksum, source) and the lane it
lies in now; people drag, copy and remove cards and edit, copy, remove and move notes. Any conflict
blocks a whole call, so conflicts are not told apart.

**`IssueNote`**. The fields of a note that its readers tell apart: type, status, executor, project,
required sections, whether it is well formed. Four writers read it, and write all of it some steps
later: the engine, the CLI's `updateIssueStatus`, the normaliser, the store. `held` is what each has
read and is to write. No write is one step: `Opens` leaves the file `Empty`, `Fills` fills it, and
`Renames` moves the `.tmp` that three of them share over the note. The CLI's `fs.writeFile`, and a new
note's `open 'wx'`, are on the note itself (`Direct`). `handle` is the file a program has open: it
follows that file through the renames of others, or is left with one that has no name any more.
`Dies` may cut a writer off at any step.

**`MarkdownStore`**. The file, the shared temporary file, `state` and `sum` (the two caches), the
watcher's events and its debounce timers, and the calls under way. A note is its status and whether
it can be read back.

**`DeadLetterQueue`, `RateLimitQueue`**. File, list in memory, whether it was loaded. The first has a
chain of writes with the loads outside of it, the second calls that do as they please; both may die
at any step and be opened on what the file holds, which may be half written. `late` marks a load
that put an old file over newer entries.

**`SyncCoordinator`**. A task is its text, its status and a date on either side. A pull reads remote,
then local, then compares and writes; `lost` marks an edit that fell into that.

**`Sessions`**. A session under an id that two calls may share, its place in the order in which a
`Map` keeps its keys, its child, its timer, and the answer its call gets. **`McpClient`**: calls,
handshake, one process after the other, and the lines it has read so far. **`HttpMcpClient`**: the same over requests, with the session the server last named.
**`Enrichment`**: the workers of a lookup, the cache, and the clock its entries age by.

**`PolicyEngine`**. A transition from the write of the note to the event: what was written is parsed,
which throws for a note the store would refuse (`parses`), and then come the rules for leaving and
entering, one awaited after the other while rules come and go. `Filtered` is what
`Array.prototype.filter` returns, stated by its elements and their order; `Sorted` of
`RateLimitQueue` is the stable sort, stated likewise. **`ModuleRunner`**: the policy and the
effects of each module of a recipe, with the audit file, its queue of lines, and the index and head
of the repository it lies in.

**`GithubDrafts`**. The three requests of a draft card, any of which may fail with or without its
effect, and the fetch of the last cards. **`FirebaseTransport`**: documents, one listener, its feed,
and handlers that subscribe and leave.

## 4. The runs

Twelve runs. These eight hold, and between them fire every action; the other four each show a
disagreement and are in section 8.

| run | bounds | states | shows |
| --- | --- | --- | --- |
| `lock` | two callers as the CLI makes them, mortal; one that passes `staleMs`, which nobody outlasts | 342 | one holder; a live lock is never replaced; an expired orphan is |
| `recovery` | two runs on two issues, killed anywhere, one of another user and longer than thirty minutes; one recoverer | 160 000 | what `recover-run` unlinks is a dead run's lock, or one whose process it could not probe; until it has unlinked a live run's, nothing stays RUNNING |
| `run` | one run, two failing calls, one edit, one move | 14 400 | convergence, honest reports, artifacts that agree, guarded transitions |
| `lifecycle` | one terminal, two issues, two changes, one fault | 1.18 million | DONE is merged, unmerged work and the checkout survive |
| `agent` | one agent, two helpers | 603 | the call's answer is true, and comes after the group it promised to end |
| `authoring` | two writers, two calls, two changes past the lock, numbers to 2 | 617 000 | no id chosen twice, no note overwritten, no caller waits for ever |
| `boards` | two notes of three ids, one of which is an epic's; two jobs of any kind; one edit, one failure | 3.99 million | nothing moved that was not asked for, shown and still true; no drag made twice or rendered over |
| `services` | one of thirteen parts at a time, bounds of each in `Services.cfg` | 1.10 million | queues keep, stores agree, calls are answered once and settle, a note stays readable |

Why these bounds are enough to see the interesting cases:

* `lock`: three processes are the holder, the one that replaces it, and the one that comes in
  between; a fourth repeats a role. The file has a single slot, so counters are not bounded at all.
* `recovery`: two runs on two issues give a lock of "this issue", of "another issue" and of nobody.
  The second run is `Foreign` and `Lasting`, so a recoverer meets the lock of a live run that it can
  tell from a dead one's and of a live run that it cannot. Two recoverers break `RecoveryInv`
  (section 8), which is why there is one.
* `run`: a second failure hits the handling of the first (log, metadata and event each retry
  something); there is no third level of handling in the code. One move and one edit suffice, as
  the properties compare with the previous state only.
* `lifecycle`: one change is the issue's, the other makes a fast-forward impossible. Two terminals
  break `MergesIntoMain` and `DoneIsMerged`, since they share one checkout (section 8). Issues are
  symmetric; no liveness is checked there.
* `agent`: one helper that closes its pipes and one that holds them.
* `authoring`: one call that is killed or fails and one after it or beside it; two changes are
  deleting a note and putting another in its place, or one by people and one normalise of the
  plugin, which counts as a change since it goes past the lock. Slugs are alike, so the first note
  has the first one.
* `boards`: a preview and its apply are one job, and the second is whatever meets it. Two notes that
  are no epics make a whole apply of two cards, and a second move that fails after a first that was
  made, with the retry that meets the card already moved; a note and an epic make the board that
  leaves one of them out. Jobs are symmetric, and so are the two ids that are no epics'.
* `services`: in each part two actors and one fault, or the least number that lets a late answer meet
  the thing it is late for: a queue of two of three tasks, one of them urgent, and three calls, two
  sessions of one id, two calls of a tool across a close, three requests across an HTTP close, three
  issues looked up two at a time, two handlers and three publishes, a window of one card. On the
  note there are three starts and edits, at most one an edit, so that a writer's file may be renamed
  by a second while a third reads; the note starts at any status it may have come to.

`CHECK_DEADLOCK FALSE` is used where everybody may have been killed (`recovery`, `authoring`), or
where all calls there are have been made and nobody has to do more (`boards`, `services`); elsewhere a finished call stutters explicitly or something can always go on.

## 5. Fairness

No specification is fair to people, to kills or to failures.

* `ExecutionLock`: weak fairness of what a process does inside acquire and release, and of `Expire`
  (time passes). Nobody has to start an acquire; `OrphanReplaced` says what follows if somebody keeps
  doing so.
* `RunRecovery`: `CodeFairness` (Node finishes what it started, time passes) is separate from
  `OperatorFairness` (somebody types `recover-run` for an issue that stays RUNNING, and `run` for one
  that stays READY). Nothing in the code retries a command; without the operator's part
  `RunningConverges` is false: `recover-run` is a command people type (`README.md:272`). Nor does it
  hold after a recoverer has unlinked a live run's lock: two runs go on at once, and the lock one of
  them leaves refuses the recovery of the other's issue for ever.
* `RunIssue`: weak fairness of the run's own steps. The agent's step ends because of the timeout of
  `agent-process.ts`; the exception to that is the finding of run `agent_exits`.
* `AgentProcess`: timers fire, `close` is delivered. Neither the agent nor its helpers have to exit,
  and the engine does not have to.
* `Authoring`: the steps inside a call. A lock that was abandoned does not have to be removed.
* `MCServices`, for `CallsSettle` only: a process that was sent SIGKILL ends and a timer that is set
  fires (`Sessions`); a process of the MCP server that was asked something answers or exits
  (`McpClient`), and an HTTP request is answered or its connection fails (`HttpMcpClient`). Neither
  client has a timeout of its own, so without the server's part a call may wait for ever.
* `BoardReconcile` and the other parts state no liveness: their calls are finite and nothing waits.

## 6. What is proved

Eight modules, checked by TLAPS for every number of processes, issues, helpers and bounds.

| module | theorem | from | argument |
| --- | --- | --- | --- |
| `RunRecoveryProofs` | of the lock: `LockInvariance`, `LockIsExclusive`, `LockImplementsSingleLock` | `LockAssumption`: `Nobody` is no process; at most one caller passes `staleMs` (the CLI has none), and none where somebody may hold the lock longer than that (`OneStaleCaller`) | exclusion alone is not inductive: the unlink of a stale lock is safe only since the lock it found expired cannot have come alive again, and only one process unlinks. `LockInv` ties the file to its holder, and `unlinkStale` to an orphan |
| | of runs under recovery: `RecoveryInvariance`, `RunsAreExclusive` | no stale callers, one recoverer; whoever may be probed, however long runs last, with or without reused pids | the recoverer's `unlink` comes after it saw the holder dead, and a dead holder's lock stays until somebody unlinks it; or after it could not tell, which only the run of another user that outlasts thirty minutes makes harmful. Until that has happened (`robbed`) two runs never execute at once |
| | `OwnRunsAreExclusive`, `RecoveryImplementsSingleLock` | in addition no run is both another user's and longer than thirty minutes (`NoneLooksAbandoned`) | then no lock is ever robbed: the exclusion and the refinement hold without exception |
| `RunIssueProofs` | `RunInvariance`, `RunReports`, `RunConverges`, `FaultsNeverEndInReview`, `RunEventsFollowNote`, `RunArtifactsAgree`, `TransitionsAreGuarded`, `EditsAreKept` | nothing | `RunInv` is in two layers: what holds whoever moves the issue (place, outcome, failures: `FlowInductive`) and what holds of the note while nobody does (`InStepInductive`). `Artifacts` places the run record and the event by call, after at most one failure; `Guarded` carries the freshness check from the engine's read to its rename |
| `IssueLifecycleProofs` | `LifecycleInvariance`, `LifecycleMerges`, `LifecycleMergesIntoMain`, `LifecycleRestoresHead`, `LifecycleKeepsReview`, `LifecycleKeepsWork` | one terminal; people do not move issues out of RUNNING, REVIEW or FAILED | `Underway` carries "the reviewed change is in main" from the merge to the write of DONE, `Reviewable` from the run to the merge. `Remembered` says where the operator's branch is noted at each call, `ReviewKept` that only a command past its cleanup has taken the branch of a reviewed change, `Deletable` that what is about to be deleted was merged or pushed |
| `AgentProcessProofs` | `AgentInvariance`, `TimeoutsEndTheGroup`, `SuccessesAreEarned`, `QuietAfterReturn` | nothing | flags and timers determine what may still settle the call; once settled both timers are cleared |
| `AuthoringProofs` | `AuthoringInvariance`, `IdsAreFresh`, `NothingIsOverwritten` | nothing | `AuthoringInv` says what each writer saw and that it is still so; with it goes a bound on the ids in use (one more note at a time keeps it), from which `NextId`, the least bound above 0, exists and is nobody's. Two writers under the lock would both be the lock's owner, so whoever else writes either disturbs (`Disturbs`, `Disturb`) or fills in the note it created, which changes no owner |
| `BoardReconcileProofs` | `BoardInvariance`, `OnlyConfirmedMoves`, `SeenDragsAreKept` | `NoneAssumption`: no file is no note | `Ready` says what a job holds at each call, `Confirmed` that what is queued and in hand was shown and that no dragged card it read is forgotten; both speak of one job's locals, so every step is a lemma about the locals it goes on with, and a step of another job changes only whether the job is left alone (`CalmOrNot`) |
| | `CalmAppliesAlways`, `DragsAreMadeOnce` | the same | `HInv` adds the history to it. `Halfway`: of the cards a calm apply has read, those still to be moved lie where they were rendered and all others where they were dragged to; `Settled`: what it has read is what is there, and what it rendered is the board. `Dated` and `Younger`: no card, read or rendered, is dated after the last move, and a moved note is younger than the card that moved it, so their checksums never agree again |
| `StoresProofs` | `StoresAgreeAlways` | `ServicesAssumption` | one inductive invariant for each part, below; a step of `MCServices` is a step of the active part and leaves `active` alone |
| `ServicesProofs` | `QueuesKeepAlways`, `NotesKeptAlways`, `CallsAnsweredAlways` | `ServicesAssumption` | the same |

The parts of `MCServices`, and why what they promise is not inductive as it stands:

* `MarkdownStore` (`StoreIInv`): `CacheAgrees` speaks of quiet notes only. `StorePicture` says of
  every note that either the cache agrees or a report, a timer or a call that will mend it is on its
  way; `StoreUncrossed` what a call that nothing has crossed has read or written; `StoreOneSave` that
  saves of a note that never overlapped find the temporary file as they left it.
* `SyncCoordinator` (`SyncIInv`): what a pull has in hand of a task is what both sides still have, as long
  as no edit has crossed it (`SyncCalmInv`); no date is ahead of the clock and the later one is the
  last text written by hand (`SyncDated`).
* `GithubDrafts` (`DraftsIInv`): every call has a number and a card of its own (`DraftsNumbers`), a
  call that is under way has a card without a status, and one that has returned a card with the
  option its status resolves to (`DraftsCards`), but for cards people have touched. `FirebaseTransport` (`TransportIInv`): only handlers
  that listen are due documents, of documents that are there; with that, what the run checks is
  inductive.
* `DeadLetterQueue` (`DlqIInv`): what the link of the chain under way has loaded or is to write has
  every accepted letter. `RateLimitQueue` (`RlIInv`): without a late load and a damaged write, what a write
  or the first load carries has every task that was kept and none that was handed out (`RlCarry`), and a
  task that is being handed out is gone from the lists (`RlTaken`). That `Sorted` is in order and has
  the same tasks is a lemma about queues of any length.
* `ModuleRunner` (`RunnerIInv`): no line is in the file twice, in the queue of lines twice, or in both.
* `IssueNote` (`NoteIInv`): as long as nobody edited and the store did not write, the note, the file
  beside it and the texts that the engine and the CLI hold are empty or readable and lie where their
  type belongs (`NoteGood`, `NoteCalm`); an empty file is open in some program, by the name it has now,
  unless one was cut off (`NoteOpen`); what the engine holds is a move it accepted of the note it
  saw, whatever was edited since (`NoteHeld`).
* `Sessions` (`SessionsIInv`): which call a session, a process and a timer belong to. The limit on
  finished sessions is a count: of what `cleanup` is given, the least place among the finished
  sessions that it leaves has few enough sessions from there on.
* `McpClient` (`McpIInv`): a process that is the client's has not been reported gone.
  `HttpMcpClient` (`HttpIInv`): `HttpCurrent` ties the promise to the time since the last close,
  `HttpAwaited` each call to the handshake it awaits, `HttpNamed` the session to its handshake until
  a response crosses a close.
* `Enrichment` (`EnrichIInv`): every issue of a running board is at one place: waiting, with a
  worker, found or found to be blank (`EnrichPlaces`), and a cached value is of the brain in its key
  (`EnrichOwn`).
* `PolicyEngine` (`PolicyIInv`): what is still to be run and what was run have nothing in common, no
  rule for leaving is left to run once those for entering are, and what a move owes is in one of the
  two (`PolicyRuns`); who attends a move is on the bus until it is announced (`PolicyHears`); a note
  is written for an accepted change only, and a call that threw after it is one of the two kinds
  that may (`PolicyWrites`).

`ServicesAssumption`, which run `services` evaluates, says of the constants that the bounds are numbers,
that `None` and `Torn` are none of the values they stand in for, that there are finitely many session
ids, session calls and listeners, that there is a note path and a text, and that what is published is
a status. The four moves, three rules and
three runs of `MCServices`, its two brains and three boards are fixed; everything else is any set and
any number.

The assumptions on callers, terminals and people are real limits of the code, not of the proofs: each of
them, dropped, has a counterexample, listed in section 8. TLC checked the strengthened invariants that
speak of several actors on their run before they were proved.
That a sorted queue and a filtered list exist, so that no step is disabled for want of one, is proved
as well (`RlSortedExists`, `PolicyFilteredExists`), from the least length for which it could fail.

Only model-checked: the liveness properties (`OrphanReplaced`, `RunningConverges`, `RunningEnds`,
`Ends`, `CallsEnd`, `CallsSettle`), which are out of the prover's reach. Every safety property of a
passing run is the statement of a theorem. That the lock under recovery still implements `SingleLock`
is proved and, since run `lock` checks it of the lock alone, not checked again.

## 7. What is not modelled

* The text of notes, prompts, logs and boards; lexing of Markdown and YAML. What the readers accept is
  modelled in `IssueNote`, by fields and not by characters; of two texts written over each other the
  later one is taken, without what a longer earlier one leaves behind its end.
* The steps inside a run's own note write, and inside those of `RunIssue`, `RunRecovery` and
  `IssueLifecycle` altogether: there a write, or its rename, is one step. That others see a note empty in
  between is in `IssueNote` only.
* Choice of backend and target, redaction, the numbering of runs, dry runs, options of the commands.
* git: only what the commands rely on (fast-forward, ancestor, branch and worktree existence, the
  index and head of a checkpoint).
* Directories: a lock directory that cannot be made is a call that fails.
* Time: timeouts and ages are nondeterministic steps, never numbers; only the cache of `Enrichment`
  has a clock, of ticks.
* Fetches of issues from GitHub and Jira: one request, one translation, no state.
* The fields and previews of the plugin's dialogs, and a second press of a button that is still there
  while the first is pending. Obsidian's own `vault.process` is atomic within the application, unlike
  `NodeFsVaultPort`, which is the one modelled.
* Scripts (`scripts/`), the built bundle of the plugin, documents and their tooling.
* Services together: `MCServices` runs one part at a time, since none reads another's state.

## 8. Disagreements

With a run that shows each (`PROJECT.json`, "findings"):

* `recovery_late`: `recover-run` writes FAILED over the REVIEW of a run that finished between its
  two reads (`cli/commands/recover-run.ts:46`).
* `run_approved`: taking back a REVIEW has no freshness guard, so an issue approved meanwhile goes
  from DONE to RUNNING to FAILED (`core/executor/run-issue.ts:218`).
* `lifecycle_discard`: `abort --discard` removes whatever branch is there after its ancestry check,
  including one a new run has just committed to (`core/executor/worktree.ts:46`).
* `agent_exits`: a timed out agent that closes within the grace period leaves only an `unref'd`
  timer to settle the call, and Node exits first (`core/executor/agent-process.ts:98`).

Seen while modelling, and excepted by a property, or kept out of an instance or a theorem by an
assumption named above:

* `recover-run` takes any error of the probe but ESRCH for `unknown`, and then decides by age
  (`cli/commands/recover-run.ts:32`, `:98`): a live run of another user loses its lock after thirty
  minutes, its issue becomes FAILED under it, and a second run may start. The first may then unlink
  the second's lock at its end, or a later recovery be refused by it. Run `recovery` has such a run;
  `RecoveryInv`, `RunningConverges` and `ExclusiveUnlessRobbed` say what holds until it happens (`robbed`).
* Two callers with `staleMs`, or two `recover-run`s, can each unlink the lock the other's successor
  has just taken. One caller with `staleMs` takes the lock of a live run that outlasts it: the age is
  all that counts (`core/executor/lock.ts:79`). Nobody in the repository passes `staleMs`.
* A lock whose write failed, or whose creator was killed before the write, is empty for ever: the
  stale check and `recover-run` both throw on it. The lock of a run killed while its issue is still
  READY is refused by `recover-run` as well.
* When the note's own write fails, the issue stays RUNNING, although `README.md:119` promises
  convergence; `Converged` therefore excepts `noteFailed`.
* Taking back a REVIEW writes the body the run started with: what people wrote since is lost.
* `process()` renames over whatever was written since it read (`raced`).
* Two approves at once share one checkout: the second may merge into the wrong branch.
* `abort` and `retry` write READY unconditionally: over DONE, too, if an approve came in between.
  REVIEW to READY is none of the eight transitions. `retry` deletes work that was not merged, as
  `docs/kanban-runtime.md:142` says it does; `WorkKept` excepts it.
* `approve --rebase` is designed (`2026-04-23-kanban-control-plane-design.md:595`) and not there.
* `kanban normalize` in place writes the note it read, over a status somebody changed since.
* An authoring lock whose owner was killed is never replaced: every call in that space fails after
  ten seconds until the directory is removed by hand.
* The CLI's status write empties the note before it fills it (`cli/vault.ts:223`), and a new note is
  made empty (`core/authoring/issue-writer.ts:65`): a reader in between finds an empty note, which stays
  if the writer is cut off. `StaysReadable` says that this is when it happens. The three that
  write through one `.tmp` may find it renamed by another, and throw, or have their text renamed
  over the note before it is complete.
* A half written note blocks the plugin's creates (`Unreadable`), and the rendering of boards, but
  not `kanban new`: `listVaultRegistryIssueRecords` throws for the whole space.

Seen in the modules of rows 8 to 15, each excepted by the property named:

* Plugin: Normalize Current Note calls `normalizeIssue` with `write: false`, which takes no lock,
  ignores duplicates in the scan and does not look whether the id a draft brings is taken
  (`normalize-issue.ts:71`, `:290`), and then writes the note itself (`commands.ts:76`): it gives an
  id twice, and rewrites a note over what changed since it was read. The design has it that "ID
  allocation scans existing issues and epics and rejects duplicates"
  (`2026-05-12-kanban-authoring-new-normalize-spec.md:599`). `FreshIds` excepts `looseOwn` and
  `disturbed`.
* Plugin: a task whose board could not be rendered is reported as an error with the dialog left open;
  pressing the button again makes a second issue. The preview of a promotion shows whichever answer
  came last, not the one for the title that is there. Rendering a board drops its raw cards, the one
  being promoted and all others. Sync reports its error and closes as after a success.
* Store: `saveTask` leaves out the required `executor`, so a saved note cannot be read back. The
  policies of a change by another program never fire: the old task is looked up after the new one
  was cached (`markdown-store.ts:263`). A new title leaves the old file; two saves of one note share
  a temporary file (`NotesAreWhole` excepts `overlapped`).
* Dead letters: one failed write fails every later one; a reader's first load that ends late puts the
  old file over a letter just added (`late`).
* Rate limits: taken tasks stay in `processing`, the number of pending ones may be negative, and the
  refresh of a token is never reached; late loads as above.
* Sync: `pushStatus` is given the repository's name where the adapter wants a number, and throws; ids
  such as `#12` are refused by the store; an edit during a pull is overwritten (`lost`).
* Sessions: the SIGKILL after the grace period is never sent, since `killed` is already set by the
  SIGTERM; two calls of one millisecond share a session; a timed out one may end `cancelled`.
* MCP over stdio: the exit of a closed process fails the calls of the next one; the half line it left
  swallows the next one's first answer (`eaten`); a handshake that failed is kept; a write to a gone
  process crashes the program. Over HTTP: a response of before a close names the session for everybody
  after it (`crossed`); once the server forgets a session every call fails until the client is closed.
* Enrichment: a lookup that failed is cached as an empty answer.
* Notes: the CLI's status writer keeps `completed` and has no guard of its own; the normaliser writes
  over edits made since it read, and drops sections it does not know; a note without a project in a
  space without projects is read by the registry and refused by the store.
* Policies: an epic that is closed from TODO is written, its exit rules run, and the caller gets an
  error from a state machine that knows no epics. A task without a project in a space without
  projects is accepted by the engine and written, and then refused by `markdownIssueToCanonical`
  (`core/runtime/workflow-engine.ts:128`): no rule runs, nothing is announced, and the call throws.
  `ThrowsUnwritten` excepts these two.
* Modules: a module refused by its policy leaves the effects of those before it; the exit code of
  `git add` is not read, so a checkpoint may report success without its line (`unstaged`).
* GitHub: an option's name is sent where its id is wanted; the creation of a draft is repeated by a
  retry, and only the last hundred cards are looked at; FAILED is read back as REVIEW.
* Firebase: TODO is received as READY by the listener and as TODO by the mapper; after an error of the
  listener nothing is reported any more, and nobody is told.
