------------------------------ MODULE IssueNote ------------------------------
(***************************************************************************)
(* One issue note and the programs that read it and write it whole: the       *)
(* workflow engine, the CLI's updateIssueStatus, the normaliser and the        *)
(* Markdown store, each with its own idea of what a note is, and people who    *)
(* edit it in between.  A note is the fields the readers tell apart; the       *)
(* steps from a program's reading to its writing are steps of the model.       *)
(*                                                                             *)
(* No write is one step.  The CLI opens the note itself, which empties it, and *)
(* fills it; the normaliser does so with a note that is new.  The others open, *)
(* fill and rename one file beside the note, the same for all of them.  What a *)
(* program has open follows its file through the renames of others.  Of two    *)
(* texts written over each other the later is what the readers find: what the  *)
(* longer one leaves behind its end is not modelled.                           *)
(***************************************************************************)
EXTENDS Naturals, FiniteSets, IssueStatus

CONSTANTS MaxUses,       \* bound on how often a program starts on the note or people edit it
          MaxNoteEdits,  \* bound on people's edits
          None,
          Empty          \* a file that was opened to be written and not filled yet

VARIABLES
    root,     \* where the note lies: a single space, a container's project, or the epics
    note,     \* what the file holds, or None
    swap,     \* the same of the .tmp beside it, that atomicWriteFile renames
    rough,    \* a note outside every root, to be made into an issue, or None
    held,     \* program -> what it holds between its steps, or None
    handle,   \* program -> the file it has open, "lost" when that has no name any more;
              \* "filled" with the .tmp still to be renamed
    uses, changes,
    saved,    \* the store has filled a file
    cut       \* a program ended between opening a file and filling it

files  == <<note, swap, saved>>
place  == <<root, rough>>
bounds == <<uses, changes>>
vars   == <<place, files, held, handle, bounds, cut>>

Programs == {"engine", "cli", "normaliser", "store"}
Kinds    == {"epic", "task", "docs"}    \* a bug fares as a task does, a chore as docs
Parts    == {"task", "epic", "log"}     \* the sections of a task, of an epic, and the log

\* "other" is a value the code does not know; marked are the sections with a placeholder
Note == [id : {"own", "alien", "none"}, type : Kinds \cup {"other"},
         status : Statuses \cup {"other"}, executor : {"human", "codex", "other", "none"},
         project : {"", "p"}, completed : BOOLEAN,
         sections : SUBSET Parts, marked : SUBSET Parts]

Required(type) == {"log", IF type = "epic" THEN "epic" ELSE "task"}

\* validateIssueFrontmatterInternal, with the options the caller passes
Valid(n, emptyProject, prefixed) ==
    /\ n.id # "none" /\ (prefixed => n.id = "own")
    /\ n.type \in Kinds /\ n.status \in Statuses /\ n.executor # "none"
    /\ n.project # "" \/ n.type = "epic" \/ emptyProject
    /\ n.type = "epic" => n.status \in {"TODO", "DONE"} /\ n.executor = "human"

Complete(n) == Required(n.type) \subseteq n.sections

\* parseIssueForRegistry, parseIssueMarkdown and readCliIssue accept the note
RegistryReads(n) == Valid(n, root = "single", TRUE) /\ Complete(n)
StoreReads(n)    == Valid(n, FALSE, FALSE) /\ Complete(n)
CliReads(n)      == n.status \in Statuses /\ n.id # "none"

\* What createIssueDraft writes
Draft == [id |-> "own", type |-> IF root = "epics" THEN "epic" ELSE "task", status |-> "TODO",
          executor |-> IF root = "epics" THEN "human" ELSE "codex",
          project |-> IF root = "project" THEN "p" ELSE "", completed |-> FALSE,
          sections |-> Required(IF root = "epics" THEN "epic" ELSE "task"), marked |-> {}]

\* ... and what it has become by the time it has another status
Reached     == IF root = "epics" THEN {"TODO", "DONE"} ELSE Statuses
AtStatus(s) == [Draft EXCEPT !.status = s, !.completed = s = "DONE"]

\* A note somebody jotted down: nothing but a kind, a wish for a status and some text
Roughs == [id : {"none"}, type : {"epic", "docs", "other"}, status : {"READY", "DONE"},
           executor : {"none"}, project : {""}, completed : {FALSE},
           sections : {{}, {"task", "log"}}, marked : {{}}]

Init == /\ root \in {"single", "project", "epics"}
        /\ \/ note \in {AtStatus(s) : s \in Reached} /\ rough = None
           \/ note = None /\ rough \in Roughs
        /\ swap = None /\ handle = [p \in Programs |-> "none"]
        /\ held = [p \in Programs |-> None]
        /\ uses = 0 /\ changes = 0 /\ saved = FALSE /\ cut = FALSE

Legible == note \notin {None, Empty}

Holds(p, h) == held' = [held EXCEPT ![p] = h]

\* A program starts on the note: seen is what it read, to the status it is to write
Starts(p, seen, to) ==
    /\ held[p] = None /\ uses + changes < MaxUses /\ uses' = uses + 1
    /\ Holds(p, [seen |-> seen, to |-> to, text |-> None])
    /\ UNCHANGED <<place, files, handle, changes, cut>>

\* A program has read the note a second time and made the text it will write
Makes(p, seen, text) == /\ Holds(p, [held[p] EXCEPT !.seen = seen, !.text = text])
                        /\ UNCHANGED <<place, files, handle, bounds, cut>>

GivesUp(p) == Holds(p, None) /\ UNCHANGED <<place, files, handle, bounds, cut>>

Between(p) == held[p] # None /\ held[p].text = None
Ready(p)   == held[p] # None /\ held[p].text # None
Opened(p)  == handle[p] \in {"note", "tmp", "lost"}

\* updateIssueStatus and writeNewIssueFile write the note itself
Direct(p) == p = "cli" \/ (p = "normaliser" /\ held[p].seen = rough)

\* fs.writeFile of the note or its .tmp, or open with 'wx': the file is there, and empty
Opens(p) ==
    /\ Ready(p) /\ handle[p] = "none"
    /\ IF Direct(p) THEN note' = Empty /\ handle' = [handle EXCEPT ![p] = "note"] /\ UNCHANGED swap
                    ELSE swap' = Empty /\ handle' = [handle EXCEPT ![p] = "tmp"] /\ UNCHANGED note
    /\ UNCHANGED <<place, held, bounds, saved, cut>>

\* ... and is filled, whatever name it has by now
Fills(p) ==
    /\ Opened(p)
    /\ note' = IF handle[p] = "note" THEN held[p].text ELSE note
    /\ swap' = IF handle[p] = "tmp" THEN held[p].text ELSE swap
    /\ saved' = (saved \/ p = "store")
    /\ IF Direct(p) THEN Holds(p, None) /\ handle' = [handle EXCEPT ![p] = "none"]
                    ELSE handle' = [handle EXCEPT ![p] = "filled"] /\ UNCHANGED held
    /\ UNCHANGED <<place, bounds, cut>>

\* fs.rename of the .tmp over the note: what others had open moves along, or loses its name
Renamed(file) == CASE file = "note" -> "lost" [] file = "tmp" -> "note" [] OTHER -> file

\* It throws when somebody else has renamed the file already
Renames(p) ==
    /\ handle[p] = "filled" /\ Holds(p, None)
    /\ IF swap = None
       THEN handle' = [handle EXCEPT ![p] = "none"] /\ UNCHANGED <<note, swap>>
       ELSE /\ note' = swap /\ swap' = None
            /\ handle' = [q \in Programs |-> IF q = p THEN "none" ELSE Renamed(handle[q])]
    /\ UNCHANGED <<place, bounds, saved, cut>>

\* A program is killed, or a call of it fails
Dies(p) ==
    /\ held[p] # None /\ Holds(p, None) /\ handle' = [handle EXCEPT ![p] = "none"]
    /\ cut' = (cut \/ Opened(p))
    /\ UNCHANGED <<place, files, bounds>>

\* WorkflowEngine.transition: the record is loaded, the change validated,
EngineLoads == /\ Legible /\ RegistryReads(note)
               /\ \E to \in Statuses \ {note.status} :
                     EngineAccepts(note.type, note.status, to) /\ Starts("engine", note, to)

\* A slip: the kind of the note is not compared
FreshStatus(now, seen) == now.id = seen.id /\ now.status = seen.status

\* ... the note read again in vault.process, and guarded against what was loaded
Fresh(now, seen) == now.id = seen.id /\ now.status = seen.status /\ now.type = seen.type

Moved(n, to) == [n EXCEPT !.status = to, !.completed = to = "DONE", !.sections = @ \cup {"log"}]

EngineReads == /\ Between("engine")
               /\ IF Legible /\ Fresh(note, held["engine"].seen)
                  THEN Makes("engine", note, Moved(note, held["engine"].to))
                  ELSE GivesUp("engine")

\* approve, abort, retry and recover-run: what each makes of a status
CliTargets(status) == CASE status = "REVIEW"  -> {"DONE", "READY"}
                        [] status = "FAILED"  -> {"READY"}
                        [] status = "RUNNING" -> {"FAILED"}
                        [] OTHER -> {}

\* The index of the CLI leaves epics out, and the folder of epics
CliIssues(n) == CliReads(n) /\ n.type # "epic" /\ root # "epics"

CliLoads == /\ Legible /\ CliIssues(note)
            /\ \E to \in CliTargets(note.status) : Starts("cli", note, to)

\* updateIssueStatus: completed is written when approving and never removed
Updated(n, to) == [n EXCEPT !.status = to, !.completed = @ \/ to = "DONE",
                            !.sections = @ \cup {"log"}]

CliRereads == /\ Between("cli")
              /\ IF Legible THEN Makes("cli", note, Updated(note, held["cli"].to))
                            ELSE GivesUp("cli")

\* buildFormalMarkdown with renderSections: sections of another kind are left out, missing
\* ones get a placeholder, and normalizeExecutionReadiness keeps those from being ready
Blocked == {"READY", "RUNNING", "REVIEW", "DONE"}

\* A slip: DONE is not among the blocked ones
ReadinessButDone(status, marked) ==
    IF marked # {} /\ status \in Blocked \ {"DONE"} THEN "TODO" ELSE status

Readiness(status, marked) == IF marked # {} /\ status \in Blocked THEN "TODO" ELSE status

Formal(n) ==
    LET type   == IF n.type \in Kinds THEN n.type ELSE "task"
        marked == Required(type) \cap (n.marked \cup (Parts \ n.sections))
    IN [n EXCEPT !.id = IF @ = "none" THEN "own" ELSE @, !.type = type,
                 !.status = Readiness(IF @ \in Statuses THEN @ ELSE "TODO", marked),
                 !.executor = IF type # "epic" /\ @ = "codex" THEN @ ELSE "human",
                 !.project = IF type # "epic" /\ root = "project" THEN "p" ELSE "",
                 !.sections = Required(type), !.marked = marked]

\* buildInPlaceIssue: the note has an id and belongs under its root
InPlace == /\ Legible /\ note.id = "own"
           /\ IF root = "epics"
              THEN note.type = "epic" /\ note.executor \notin {"codex"} /\ note.project = ""
              ELSE note.type # "epic" /\ note.project = Draft.project

\* buildCanonicalIssue: a new note under the root of its kind, with the next id
Canonical == note = None /\ rough # None /\ (rough.type = "epic" <=> root = "epics")

\* finalizeMarkdown reads the result as the registry would, or throws
Normalises(n) == /\ RegistryReads(Formal(n)) /\ held["normaliser"] = None
                 /\ uses + changes < MaxUses /\ uses' = uses + 1
                 /\ Holds("normaliser", [seen |-> n, to |-> Formal(n).status, text |-> Formal(n)])
                 /\ UNCHANGED <<place, files, handle, changes, cut>>

NormaliserReads == \/ InPlace /\ Normalises(note)
                   \/ Canonical /\ Normalises(rough)

\* normalizeIssuePrepared: the ids are scanned once more before the file is written, and
\* the note has to be where its id is
Scanned == LET h == held["normaliser"] IN
    IF h.seen = rough THEN note = None ELSE Legible /\ note.id = h.text.id

NormaliserOpens ==
    /\ Ready("normaliser") /\ handle["normaliser"] = "none"
    /\ IF Scanned THEN Opens("normaliser") ELSE GivesUp("normaliser")

\* MarkdownStore: a task is what markdownIssueToCanonical reads, with a status from the provider
StoreLoads == Legible /\ StoreReads(note) /\ \E to \in {"DONE", note.status} : Starts("store", note, to)

\* saveTask writes canonicalToYaml over the frontmatter and keeps the body
Saved(task, to, sections, marked) ==
    [task EXCEPT !.status = to, !.type = IF @ = "epic" THEN @ ELSE "task",
                 !.executor = "none", !.sections = sections, !.marked = marked]

\* ... which is nothing when it reads an empty file
StoreMakes == LET task == held["store"].seen IN
    /\ Between("store")
    /\ Makes("store", task, IF Legible THEN Saved(task, held["store"].to, note.sections, note.marked)
                                       ELSE Saved(task, held["store"].to, {}, {}))

\* People change one thing at a time in an editor
Edits == /\ Legible /\ changes < MaxNoteEdits /\ changes' = changes + 1
         /\ uses + changes < MaxUses
         /\ note' \in {[note EXCEPT !.id = v] : v \in {"alien", "none"}}
                \cup {[note EXCEPT !.type = v] : v \in Kinds \cup {"other"}}
                \cup {[note EXCEPT !.status = v] : v \in Statuses \cup {"other"}}
                \cup {[note EXCEPT !.executor = v] : v \in {"human", "other"}}
                \cup {[note EXCEPT !.project = v] : v \in {"", "p"}}
                \cup {[note EXCEPT !.sections = v] : v \in SUBSET Parts}
         /\ UNCHANGED <<place, swap, held, handle, uses, saved, cut>>

Next == \/ EngineLoads \/ EngineReads \/ CliLoads \/ CliRereads
        \/ NormaliserReads \/ NormaliserOpens \/ StoreLoads \/ StoreMakes
        \/ \E p \in Programs \ {"normaliser"} : Opens(p)
        \/ \E p \in Programs : Fills(p) \/ Renames(p) \/ Dies(p)
        \/ Edits

Spec == Init /\ [][Next]_vars

(***************************************************************************)
(* Type invariant and safety                                               *)
(***************************************************************************)

TypeOK == /\ {note, swap} \subseteq Note \cup {None, Empty} /\ rough \in Roughs \cup {None}
          /\ \A p \in Programs : held[p] = None \/ held[p].text \in Note \cup {None}
          /\ handle \in [Programs -> {"none", "note", "tmp", "lost", "filled"}]
          /\ \A p \in Programs : handle[p] # "none" => Ready(p)
          /\ uses \in 0..MaxUses /\ changes \in 0..MaxNoteEdits
          /\ saved \in BOOLEAN /\ cut \in BOOLEAN

\* Whichever programs write at once, a note nobody edited and the store never saved stays
\* one the registry reads, which otherwise stops every command on the space.  It is found
\* empty only while a program has it open, which need not be the one that emptied it, or
\* after one has ended with its file open.
StaysReadable ==
    /\ changes = 0 /\ ~saved /\ Legible => RegistryReads(note)
    /\ note = Empty => cut \/ \E p \in Programs : handle[p] = "note"

\* The engine never spoils a note it found readable, whatever was edited after it had
\* loaded the record (an epic in the place of a task among it), and records the
\* completion of a note exactly when it is done.
EngineKeeps == LET h == held["engine"] IN
    Ready("engine") => /\ RegistryReads(h.seen) => RegistryReads(h.text)
                       /\ h.text.completed <=> h.text.status = "DONE"
                       /\ EngineAccepts(h.text.type, h.seen.status, h.text.status)

\* What the normaliser writes with a placeholder in it is not ready, running, in review
\* or done, and keeps the id and the place of the note.
NormaliserKeeps == LET h == held["normaliser"] IN
    Ready("normaliser") => /\ h.text.marked # {} => h.text.status \in {"TODO", "FAILED"}
                           /\ h.text.id = "own" /\ h.text.project = Draft.project

NoteInv == TypeOK /\ StaysReadable /\ EngineKeeps /\ NormaliserKeeps
=============================================================================
