----------------------------- MODULE MCServices -----------------------------
(***************************************************************************)
(* The parts around the core that keep a state of their own: the dead letter    *)
(* queue, the queue of rate-limited calls, the Markdown store with its watcher,    *)
(* the synchronisation with a provider, the sessions of the CLI adapter, the two    *)
(* MCP clients and the enrichment of boards that calls them, the issue note under    *)
(* its readers and writers, the policies, the recipes of modules, the draft cards    *)
(* of GitHub and the transport over Firebase.                                       *)
(* They share no state, so a behaviour is a behaviour of one of them: `active`       *)
(* is chosen at the start, and the others stay where they begin.                    *)
(***************************************************************************)
EXTENDS Naturals, Sequences, FiniteSets

CONSTANTS None, Torn,
          Letters, DlqCalls, DlqLoads, DlqFaults,
          RlTasks, RlUrgent, RlSlots, RlSize, RlCalls, RlFaults,
          StorePaths, StoreStatuses, StoreJobs, StoreCalls, StoreEdits, StoreFaults,
          SyncTasks, SyncTexts, SyncStates, SyncSlots, SyncCalls, SyncEdits, SyncFaults,
          SessionCalls, Ids, MaxSessions, MaxCancels,
          ToolCalls, MaxCloses,
          MaxUses, MaxNoteEdits,
          Listeners, RuleChanges,
          RunFaults, RunChanges,
          BoardIssues, LookupLimit, CacheTtl, CacheTicks,
          HttpCalls, HttpCloses, HttpForgets,
          DraftTasks, DraftSlots, DraftWindow, DraftCalls, DraftFaults, DraftTouches,
          Docs, Handlers, Published, MaxPublishes, MaxSubscribes, ListenerFaults

VARIABLES
    active,
    dlqFile, entries, dlqLoaded, chain, stage, read, poisoned, reader, accepted, dlqLate, torn,
    dlqCalls, loads, dlqFaults,
    rlFile, queue, rlLoaded, processing, rlCall, rlSent, kept, handed, rlLate, damaged,
    rlCalls, rlFaults,
    storeFile, tmp, state, sum, watching, events, timers, job, unsettled, overlapped,
    storeCalls, storeEdits, storeFaults,
    mode, local, remote, syncCall, clock, syncs, mine, latest, settled, agreed, pushed, lost,
    syncCalls, syncEdits, syncFaults,
    sessions, cliCall, id, child, code, cliSent, timer, cliLate, cancels,
    tool, got, proc, server, hand, asked, told, buffer, closes, crashed, eaten,
    root, note, swap, rough, held, handle, uses, changes, saved, cut,
    rules, bus, movePc, written, todo, ran, owed, attending, heard, ruleChanges,
    runPc, allowed, moved, writeQueue, log, edited, index, head, unstaged, runFaults,
    now, cache, phase, started, misses, worker, out, blank,
    httpTool, awaits, carried, epoch, httpHand, session, alive, posts, crossed, httpCloses,
    forgets,
    options, items, draftCall, returned, touched, draftCalls, draftFaults, touches,
    docs, handlers, listener, feed, view, noted, due, publishes, subscribes, listenerFaults

dlq   == <<dlqFile, entries, dlqLoaded, chain, stage, read, poisoned, reader, accepted, dlqLate,
           torn, dlqCalls, loads, dlqFaults>>
rl    == <<rlFile, queue, rlLoaded, processing, rlCall, rlSent, kept, handed, rlLate, damaged,
           rlCalls, rlFaults>>
store == <<storeFile, tmp, state, sum, watching, events, timers, job, unsettled, overlapped,
           storeCalls, storeEdits, storeFaults>>
sync  == <<mode, local, remote, syncCall, clock, syncs, mine, latest, settled, agreed, pushed,
           lost, syncCalls, syncEdits, syncFaults>>
cli   == <<sessions, cliCall, id, child, code, cliSent, timer, cliLate, cancels>>
mcp   == <<tool, got, proc, server, hand, asked, told, buffer, closes, crashed, eaten>>
notes == <<root, note, swap, rough, held, handle, uses, changes, saved, cut>>
policy    == <<rules, bus, movePc, written, todo, ran, owed, attending, heard, ruleChanges>>
runner    == <<runPc, allowed, moved, writeQueue, log, edited, index, head, unstaged, runFaults>>
enrich    == <<now, cache, phase, started, misses, worker, out, blank>>
http      == <<httpTool, awaits, carried, epoch, httpHand, session, alive, posts, crossed,
               httpCloses, forgets>>
drafts    == <<options, items, draftCall, returned, touched, draftCalls, draftFaults, touches>>
transport == <<docs, handlers, listener, feed, view, noted, due, publishes, subscribes,
               listenerFaults>>
vars == <<active, dlq, rl, store, sync, cli, mcp, notes, policy, runner, enrich, http, drafts,
          transport>>

Dlq == INSTANCE DeadLetterQueue WITH
         MaxCalls <- DlqCalls, MaxLoads <- DlqLoads, MaxFaults <- DlqFaults,
         file <- dlqFile, loaded <- dlqLoaded, late <- dlqLate, calls <- dlqCalls,
         faults <- dlqFaults

Rl == INSTANCE RateLimitQueue WITH
        Tasks <- RlTasks, Urgent <- RlUrgent, Slots <- RlSlots, MaxSize <- RlSize,
        MaxCalls <- RlCalls, MaxFaults <- RlFaults,
        file <- rlFile, loaded <- rlLoaded, call <- rlCall, sent <- rlSent, late <- rlLate,
        calls <- rlCalls, faults <- rlFaults

Store == INSTANCE MarkdownStore WITH
           NumPaths <- StorePaths, Statuses <- StoreStatuses, Jobs <- StoreJobs,
           MaxCalls <- StoreCalls, MaxEdits <- StoreEdits, MaxFaults <- StoreFaults,
           file <- storeFile, calls <- storeCalls, edits <- storeEdits, faults <- storeFaults

Sync == INSTANCE SyncCoordinator WITH
          Tasks <- SyncTasks, Texts <- SyncTexts, States <- SyncStates, Slots <- SyncSlots,
          MaxCalls <- SyncCalls, MaxEdits <- SyncEdits, MaxFaults <- SyncFaults,
          call <- syncCall, calls <- syncCalls, edits <- syncEdits, faults <- syncFaults

Cli  == INSTANCE Sessions WITH call <- cliCall, sent <- cliSent, late <- cliLate
Mcp  == INSTANCE McpClient
Notes == INSTANCE IssueNote WITH Empty <- Torn

\* Rules for leaving any status, for leaving TODO and for entering READY; a task that goes
\* to READY, one that goes on to RUNNING, one without a project, one that is to skip them
\* all, and an epic that is closed
Move(type, from, to) == [type |-> type, from |-> from, to |-> to, parses |-> TRUE]
RuleMatches == [leave     |-> [action |-> "exit",  status |-> None],
                leaveTodo |-> [action |-> "exit",  status |-> "TODO"],
                ready     |-> [action |-> "enter", status |-> "READY"]]
NoteMoves == [readies |-> Move("task", "TODO", "READY"),
              starts  |-> Move("task", "READY", "RUNNING"),
              bare    |-> [Move("task", "TODO", "READY") EXCEPT !.parses = FALSE],
              skips   |-> Move("task", "TODO", "DONE"),
              closes  |-> Move("epic", "TODO", "DONE")]
Rules == DOMAIN RuleMatches
Moves == DOMAIN NoteMoves

Policy == INSTANCE PolicyEngine WITH
            Matched <- RuleMatches, MoveOf <- NoteMoves, MaxChanges <- RuleChanges,
            pc <- movePc, changes <- ruleChanges

\* Three of them as runs of a recipe: the state machine knows no epics
Runs == {"readies", "starts", "closes"}

Runner == INSTANCE ModuleRunner WITH
            Requests <- NoteMoves,
            MaxFaults <- RunFaults, Changes <- RunChanges, pc <- runPc, faults <- runFaults

\* Two boards of one brain, and one of another
Boards == {"b1", "b2", "b3"}
BrainOf == [b1 |-> "x", b2 |-> "x", b3 |-> "y"]

Enrich == INSTANCE Enrichment WITH
            Issues <- BoardIssues, Limit <- LookupLimit, Ttl <- CacheTtl, MaxTicks <- CacheTicks

Http == INSTANCE HttpMcpClient WITH
          Calls <- HttpCalls, MaxCloses <- HttpCloses, MaxForgets <- HttpForgets,
          tool <- httpTool, hand <- httpHand, closes <- httpCloses

Drafts == INSTANCE GithubDrafts WITH
            Tasks <- DraftTasks, Slots <- DraftSlots, Window <- DraftWindow,
            MaxCalls <- DraftCalls, MaxFaults <- DraftFaults, MaxTouches <- DraftTouches,
            call <- draftCall, calls <- draftCalls, faults <- draftFaults

Transport == INSTANCE FirebaseTransport WITH
               MaxFaults <- ListenerFaults, faults <- listenerFaults

\* The bounds are numbers, and the two marks are none of the things they stand in for
ASSUME ServicesAssumption ==
    /\ {DlqCalls, DlqLoads, DlqFaults, RlSize, RlCalls, RlFaults, StoreCalls, StoreEdits,
         StoreFaults, SyncCalls, SyncEdits, SyncFaults, MaxUses, MaxNoteEdits, RunFaults,
         DraftWindow, DraftCalls, DraftFaults, DraftTouches, MaxPublishes, MaxSubscribes,
         ListenerFaults, HttpCloses, HttpForgets, MaxSessions, MaxCancels, MaxCloses,
         RuleChanges, LookupLimit, CacheTtl, CacheTicks} \subseteq Nat
    /\ IsFiniteSet(Ids) /\ IsFiniteSet(SessionCalls) /\ IsFiniteSet(Listeners)
    /\ StorePaths \in Nat \ {0} /\ Published \subseteq Transport!Statuses /\ Sync!Content # {}
    /\ \A letters \in SUBSET Letters : None # letters /\ Torn # letters
    /\ None \notin RlTasks \cup Store!Note \cup StoreStatuses
    /\ None \notin Sync!Record \cup Sync!Content \cup SyncTasks
    /\ None \notin [SyncTasks -> Sync!Record]
    /\ None \notin Notes!Note \cup Drafts!Names
    /\ None \notin [seen : Notes!Note, to : Notes!Statuses, text : Notes!Note \cup {None}]
    /\ None \notin Transport!Statuses /\ None \notin Http!Epochs
    /\ None \notin Ids \cup SessionCalls /\ None \notin Cli!Session
    /\ None \notin Mcp!Servers /\ None \notin ToolCalls /\ None \notin Enrich!Entry
    /\ None \notin [status : Transport!Statuses, prev : Transport!Statuses]
    /\ Torn \notin Seq(Rl!Entry) \cup Store!Note \cup {None} /\ Torn \notin Notes!Note

Parts == {"dlq", "rl", "store", "sync", "cli", "mcp", "notes", "policy", "runner", "enrich",
          "http", "drafts", "transport"}

\* A part that is not active starts in one state only
Init == /\ active \in Parts
        /\ Dlq!Init /\ Rl!Init /\ Store!Init /\ Sync!Init /\ Cli!Init /\ Mcp!Init /\ Notes!Init
        /\ Policy!Init /\ Runner!Init /\ Enrich!Init /\ Http!Init /\ Drafts!Init /\ Transport!Init
        /\ active # "store" => \A p \in Store!Paths : storeFile[p] = None
        /\ active # "sync" => mode = "newest-wins" /\ \A t \in SyncTasks : local[t] = None
        /\ active # "notes" => root = "epics" /\ rough = None /\ note = Notes!Draft
        /\ active # "drafts" => options = Drafts!Names

Others == /\ UNCHANGED active
          /\ active # "dlq"    => UNCHANGED dlq
          /\ active # "rl"     => UNCHANGED rl
          /\ active # "store"  => UNCHANGED store
          /\ active # "sync"   => UNCHANGED sync
          /\ active # "cli"    => UNCHANGED cli
          /\ active # "mcp"    => UNCHANGED mcp
          /\ active # "notes"  => UNCHANGED notes
          /\ active # "policy" => UNCHANGED policy
          /\ active # "runner" => UNCHANGED runner
          /\ active # "enrich" => UNCHANGED enrich
          /\ active # "http"   => UNCHANGED http
          /\ active # "drafts" => UNCHANGED drafts
          /\ active # "transport" => UNCHANGED transport

Next == \/ active = "dlq"    /\ Dlq!Next    /\ Others
        \/ active = "rl"     /\ Rl!Next     /\ Others
        \/ active = "store"  /\ Store!Next  /\ Others
        \/ active = "sync"   /\ Sync!Next   /\ Others
        \/ active = "cli"    /\ Cli!Next    /\ Others
        \/ active = "mcp"    /\ Mcp!Next    /\ Others
        \/ active = "notes"  /\ Notes!Next  /\ Others
        \/ active = "policy" /\ Policy!Next /\ Others
        \/ active = "runner" /\ Runner!Next /\ Others
        \/ active = "enrich" /\ Enrich!Next /\ Others
        \/ active = "http"   /\ Http!Next   /\ Others
        \/ active = "drafts" /\ Drafts!Next /\ Others
        \/ active = "transport" /\ Transport!Next /\ Others

CliStep  == active = "cli"  /\ Cli!Step  /\ Others
McpStep  == active = "mcp"  /\ Mcp!Step  /\ Others
HttpStep == active = "http" /\ Http!Step /\ Others

\* A process that was sent SIGKILL ends, a timer that is set fires, a process of the
\* MCP server that was asked something answers or exits, and so does its HTTP server or
\* the connection to it
Spec == Init /\ [][Next]_vars /\ WF_vars(CliStep) /\ WF_vars(McpStep) /\ WF_vars(HttpStep)

\* What a queue has accepted it keeps: letters until they are removed or the process dies,
\* rate-limited tasks at most once and within the limit, lines of the audit file in the
\* file and, once the run has succeeded, in the repository
QueuesKeep == /\ active = "dlq"    => Dlq!DeadLetterInv
              /\ active = "rl"     => Rl!RateLimitInv
              /\ active = "runner" => Runner!RunnerInv

\* The cache of the store agrees with a note nobody is changing and a note is never half
\* written; a pull leaves local and remote as the conflict rule says, a push alike; a
\* published card or document is read back with the status it was published with, as far
\* as the two vocabularies allow
StoresAgree == /\ active = "store"     => Store!StoreInv
               /\ active = "sync"      => Sync!SyncInv
               /\ active = "drafts"    => Drafts!DraftsInv
               /\ active = "transport" => Transport!TransportInv

\* A call of the CLI adapter, of an MCP client or of the enrichment gets the answer meant
\* for it; a rule or a listener that a move is meant for gets the move, once
CallsAnswered == /\ active = "cli"    => Cli!SessionsInv
                 /\ active = "mcp"    => Mcp!McpInv
                 /\ active = "http"   => Http!HttpInv
                 /\ active = "enrich" => Enrich!EnrichmentInv
                 /\ active = "policy" => Policy!PolicyInv

\* Every call ends: a session's call returns, and its process ends unless a SIGTERM was
\* all it got; no tool call waits for ever, unless the program has crashed or an answer was
\* lost to a half-read line of a closed process
CallsSettle == <>[](Cli!Quiet /\ Mcp!Quiet /\ Http!Quiet)

\* Until people edit it or the store saves it, a note its writers write at once stays one
\* that its readers read, and is empty only in between, or after a writer was cut off
NotesKept == active = "notes" => Notes!NoteInv
=============================================================================
