----------------------------- MODULE Authoring -----------------------------
(***************************************************************************)
(* packages/core/src/authoring and use-cases/obsidian-authoring.ts: notes    *)
(* that are created (`kanban new`, the plugin's new task, `kanban normalize`  *)
(* of a draft) or rewritten in place (`kanban normalize` of an issue), with   *)
(* the ids they are given.  The callers are processes that share a lock       *)
(* directory per space; people add, copy and delete notes without it, and so  *)
(* does the plugin's Normalize Current Note, which lets normalizeIssue choose  *)
(* an id (`write: false`) and writes the note itself.                         *)
(*                                                                         *)
(* A note is named by a number and a slug, and its frontmatter holds an id or *)
(* cannot be read (id 0): the file was just created, was left behind by a     *)
(* writer that was killed, or was written by hand.                            *)
(***************************************************************************)
EXTENDS Naturals

CONSTANTS
    Writers,      \* processes that author notes
    Nobody,       \* no process
    Slugs,        \* what file names are made of besides the number
    MaxNumber,    \* bound on the numbers people use
    MaxCalls,     \* bound on the calls of the writers
    MaxChanges    \* bound on the changes made without the lock

ASSUME AuthoringAssumption ==
    /\ Nobody \notin Writers
    /\ MaxNumber \in Nat /\ MaxCalls \in Nat /\ MaxChanges \in Nat

VARIABLES
    notes,      \* the notes of the space
    lockDir,    \* the process that made the lock directory, or Nobody
    pc, kind,   \* each writer: its next call, and what it was asked for
    note,       \* the note it writes: its source in place, or the one it creates,
                \* number and id 0 until an id is chosen
    retried,    \* createIssue already met an existing file
    disturbed,  \* somebody the lock does not stop changed the folder since it looked
    calls, changes

caller == <<kind, note, retried>>
vars   == <<notes, lockDir, pc, caller, disturbed, calls, changes>>

\* The plugin normalises a draft without an id, a draft that brings one, or an issue
Loose == {"looseNew", "looseOwn", "looseInPlace"}
Kinds == {"new", "task", "draft", "inPlace"} \cup Loose
Calls == {"idle", "mkdir", "read", "scan", "rescan", "create", "write", "rewrite", "rm", "dead"}
InPlace == {"inPlace", "looseInPlace"}
Working == {"read", "scan", "rescan", "create", "write", "rewrite", "rm"}
Notes == [number : Nat, slug : Slugs, id : Nat]
NoNote == [number |-> 0, slug |-> Nobody, id |-> 0]

Name(n) == <<n.number, n.slug>>
NamesAreUnique == \A n, m \in notes : Name(n) = Name(m) => n = m

\* The id scanIssueIds finds the note to own: its frontmatter's or its file name's
OwnId(n) == IF n.id # 0 THEN n.id ELSE n.number
Owners(i) == {n \in notes : OwnId(n) = i}
Used == {OwnId(n) : n \in notes}

TypeOK == /\ notes \subseteq Notes
          /\ lockDir \in Writers \cup {Nobody}
          /\ pc \in [Writers -> Calls]
          /\ kind \in [Writers -> Kinds]
          /\ note \in [Writers -> Notes \cup {NoNote}]
          /\ retried \in [Writers -> BOOLEAN]
          /\ disturbed \in [Writers -> BOOLEAN]
          /\ calls \in 0..MaxCalls /\ changes \in 0..MaxChanges

Init == /\ \E s \in Slugs : notes = {[number |-> 1, slug |-> s, id |-> 1]}
        /\ lockDir = Nobody
        /\ pc = [w \in Writers |-> "idle"]
        /\ kind = [w \in Writers |-> "new"]
        /\ note = [w \in Writers |-> NoNote]
        /\ retried = [w \in Writers |-> FALSE]
        /\ disturbed = [w \in Writers |-> FALSE]
        /\ calls = 0 /\ changes = 0

Goto(w, call) == pc' = [pc EXCEPT ![w] = call]

\* The call returns, or its process is gone: what it knew is forgotten
Leave(w, call) == /\ Goto(w, call)
                  /\ kind' = [kind EXCEPT ![w] = "new"]
                  /\ note' = [note EXCEPT ![w] = NoNote]
                  /\ retried' = [retried EXCEPT ![w] = FALSE]
                  /\ disturbed' = [disturbed EXCEPT ![w] = FALSE]
                  /\ UNCHANGED <<calls, changes>>

\* A change to the folder is news for those the lock did not keep out
Disturbs(w) == disturbed' = [v \in Writers |->
                  \/ disturbed[v]
                  \/ /\ v # w /\ pc[v] \in Working
                     /\ kind[v] \in Loose \/ kind[w] \in Loose]

-----------------------------------------------------------------------------
(* The authoring lock *)

\* A new note has a title, a draft may bring an id of its own, and normalising in
\* place starts from an issue
Requests(k) ==
    IF k \in InPlace THEN {n \in notes : n.id # 0}
    ELSE {[number |-> i, slug |-> s, id |-> i] :
            i \in (CASE k = "draft" -> 0..MaxNumber [] k = "looseOwn" -> 1..MaxNumber
                      [] OTHER -> {0}),
            s \in Slugs}

\* createIssue, createObsidianTask, or normalizeIssue of a draft or of an issue; the
\* plugin's goes on without the lock
Begin(w) ==
    /\ pc[w] = "idle" /\ calls < MaxCalls /\ calls' = calls + 1
    /\ \E k \in Kinds :
         /\ kind' = [kind EXCEPT ![w] = k]
         /\ \E n \in Requests(k) : note' = [note EXCEPT ![w] = n]
         /\ k \in Loose => changes < MaxChanges
         /\ changes' = changes + (IF k \in Loose THEN 1 ELSE 0)
         /\ Goto(w, IF k \notin Loose THEN "mkdir" ELSE IF k \in InPlace THEN "read" ELSE "scan")
    /\ UNCHANGED <<notes, lockDir, retried, disturbed>>

\* A slip: EEXIST is retried for ever
NoTimeout(w) ==
    /\ pc[w] = "mkdir" /\ lockDir # Nobody
    /\ UNCHANGED vars

\* acquireLock: mkdir of the lock directory
Acquire(w) ==
    /\ pc[w] = "mkdir" /\ lockDir = Nobody
    /\ lockDir' = w
    /\ Goto(w, IF kind[w] = "inPlace" THEN "read" ELSE "scan")
    /\ UNCHANGED <<notes, caller, disturbed, calls, changes>>

\* ... or EEXIST for ten seconds, then an error
TimeOut(w) ==
    /\ pc[w] = "mkdir" /\ lockDir # Nobody
    /\ Leave(w, "idle")
    /\ UNCHANGED <<notes, lockDir>>

\* finally: rm of the lock directory (the plugin: of the draft), which may fail
Release(w) ==
    /\ pc[w] = "rm"
    /\ lockDir' \in {lockDir} \cup (IF kind[w] \in Loose THEN {} ELSE {Nobody})
    /\ Leave(w, "idle")
    /\ UNCHANGED notes

-----------------------------------------------------------------------------
(* The scans *)

\* A note without an id in frontmatter or file name (fatalErrors), two notes with
\* one id (duplicateErrors), and a note the plugin's record loader rejects
Anonymous == 0 \in Used
Duplicates == \E n, m \in notes : n # m /\ OwnId(n) = OwnId(m)
Unreadable == \E n \in notes : n.id = 0

Refused(k) == Duplicates \/ (IF k = "task" THEN Unreadable ELSE Anonymous)

\* A slip: a note whose frontmatter cannot be read reserves no id
NextIdSkipsTorn(used) ==
    LET ids == {n.id : n \in notes}
    IN  CHOOSE i \in {1} \cup {u + 1 : u \in ids} : \A u \in ids : u < i

\* allocateNextIssueId: one more than the largest
NextId(used) ==
    CHOOSE i \in {1} \cup {u + 1 : u \in used} : \A u \in used : u < i

Look(w) == disturbed' = [disturbed EXCEPT ![w] = FALSE]

\* scanIssueIds / listVaultRegistryIssueRecords, and the choice of an id; a
\* draft's own id must be nobody's.  The plugin's normalise checks nothing.
Scan(w) ==
    /\ pc[w] = "scan" /\ kind[w] # "inPlace"
    /\ Look(w)
    /\ LET own == note[w].id
           ok  == \/ kind[w] \in Loose
                  \/ ~Refused(kind[w]) /\ (own = 0 \/ Owners(own) = {})
           i   == IF own = 0 THEN NextId(Used) ELSE own
       IN  \/ /\ ~ok
              /\ Goto(w, "rm") /\ UNCHANGED note
           \/ /\ ok
              /\ note' = [note EXCEPT ![w].number = i, ![w].id = i]
              /\ Goto(w, IF kind[w] = "draft" THEN "rescan" ELSE "create")
    /\ UNCHANGED <<notes, lockDir, kind, retried, calls, changes>>

\* normalizeIssuePrepared scans again before it writes a draft's note
Rescan(w) ==
    /\ pc[w] = "rescan"
    /\ Goto(w, IF Refused("draft") THEN "rm" ELSE "create")
    /\ UNCHANGED <<notes, lockDir, caller, disturbed, calls, changes>>

\* A slip: the one owner need not be the source
ScanOwnersOnce(w) ==
    /\ pc[w] = "scan" /\ kind[w] = "inPlace"
    /\ Look(w)
    /\ Goto(w, IF ~Refused("inPlace") THEN "rewrite" ELSE "rm")
    /\ UNCHANGED <<notes, lockDir, caller, calls, changes>>

\* normalizeIssue in place: the source is read (it may be gone) ...
ReadSource(w) ==
    /\ pc[w] = "read"
    /\ Look(w)
    /\ \/ \E n \in notes : /\ Name(n) = Name(note[w]) /\ n.id # 0
                           /\ note' = [note EXCEPT ![w] = n]
                           /\ Goto(w, IF kind[w] \in Loose THEN "rewrite" ELSE "scan")
       \/ /\ \A n \in notes : Name(n) = Name(note[w]) => n.id = 0
          /\ Goto(w, "rm") /\ UNCHANGED note
    /\ UNCHANGED <<notes, lockDir, kind, retried, calls, changes>>

\* ... and must still be the one owner of its id
ScanOwners(w) ==
    /\ pc[w] = "scan" /\ kind[w] = "inPlace"
    /\ Look(w)
    /\ Goto(w, IF ~Refused("inPlace") /\ Owners(note[w].id) = {note[w]}
               THEN "rewrite" ELSE "rm")
    /\ UNCHANGED <<notes, lockDir, caller, calls, changes>>

-----------------------------------------------------------------------------
(* The writes *)

Target(w) == [note[w] EXCEPT !.id = 0]    \* the note, still empty
Taken(w) == \E n \in notes : Name(n) = Name(Target(w))

\* A slip: open(path, 'w')
CreateOverwrites(w) ==
    /\ pc[w] = "create"
    /\ notes' = {n \in notes : Name(n) # Name(Target(w))} \cup {Target(w)}
    /\ Goto(w, "write")
    /\ Disturbs(w)
    /\ UNCHANGED <<lockDir, caller, calls, changes>>

\* open(path, 'wx'), vault.create: the note exists, still empty
Create(w) ==
    /\ pc[w] = "create" /\ ~Taken(w)
    /\ notes' = notes \cup {Target(w)}
    /\ Goto(w, "write")
    /\ Disturbs(w)
    /\ UNCHANGED <<lockDir, caller, calls, changes>>

\* EEXIST: createIssue scans once more, the others give up
CreateRefused(w) ==
    /\ pc[w] = "create" /\ Taken(w)
    /\ IF kind[w] = "new" /\ ~retried[w]
       THEN /\ Goto(w, "scan")
            /\ retried' = [retried EXCEPT ![w] = TRUE]
            /\ note' = [note EXCEPT ![w].number = 0, ![w].id = 0]
       ELSE Goto(w, "rm") /\ UNCHANGED <<retried, note>>
    /\ UNCHANGED <<notes, lockDir, kind, disturbed, calls, changes>>

\* handle.writeFile, into a file that people may have deleted; it may fail
Write(w) ==
    /\ pc[w] = "write"
    /\ notes' \in {notes, {IF n = Target(w) THEN note[w] ELSE n : n \in notes}}
    /\ Goto(w, "rm")
    /\ UNCHANGED <<lockDir, caller, disturbed, calls, changes>>

\* atomicWriteFile, vault.modify: whatever has the source's name now is replaced; it may fail
Rewrite(w) ==
    /\ pc[w] = "rewrite"
    /\ notes' \in {notes, {n \in notes : Name(n) # Name(note[w])} \cup {note[w]}}
    /\ Goto(w, "rm")
    /\ Disturbs(w)
    /\ UNCHANGED <<lockDir, caller, calls, changes>>

\* The process is killed
Crash(w) ==
    /\ pc[w] \in Working
    /\ Leave(w, "dead")
    /\ UNCHANGED <<notes, lockDir>>

-----------------------------------------------------------------------------
(* People *)

Disturb == /\ changes < MaxChanges /\ changes' = changes + 1
           /\ disturbed' = [w \in Writers |-> pc[w] \in Working]
           /\ UNCHANGED <<lockDir, pc, caller, calls>>

\* ... write a note by hand, or copy one
Add == /\ \E number \in 0..MaxNumber, s \in Slugs, i \in {0} \cup {m.id : m \in notes} :
            /\ \A n \in notes : Name(n) # <<number, s>>
            /\ notes' = notes \cup {[number |-> number, slug |-> s, id |-> i]}
       /\ Disturb

Delete == /\ \E n \in notes : notes' = notes \ {n}
          /\ Disturb

\* ... and remove a lock directory nobody will remove any more
Holds(w) == pc[w] \in Working /\ kind[w] \notin Loose
Orphaned == lockDir # Nobody /\ ~Holds(lockDir)
RemoveLock == /\ Orphaned /\ lockDir' = Nobody
              /\ UNCHANGED <<notes, pc, caller, disturbed, calls, changes>>

-----------------------------------------------------------------------------
Step(w) == \/ Acquire(w) \/ TimeOut(w) \/ Release(w)
           \/ Scan(w) \/ Rescan(w) \/ ReadSource(w) \/ ScanOwners(w)
           \/ Create(w) \/ CreateRefused(w) \/ Write(w) \/ Rewrite(w)

Next == \/ \E w \in Writers : Begin(w) \/ Step(w) \/ Crash(w)
        \/ Add \/ Delete \/ RemoveLock

Spec == Init /\ [][Next]_vars

\* Node finishes what it started and time passes; nobody has to remove an
\* orphaned lock, to call anything, or to be killed.
FairSpec == Spec /\ \A w \in Writers : WF_vars(Step(w))

-----------------------------------------------------------------------------
\* An id that is given to a new note is no other note's, those left behind half
\* written included, unless the folder was changed past the lock since it was looked
\* at, or the plugin's normalise took the id the draft brought without looking
\* (2026-05-12-kanban-authoring-new-normalize-spec.md:568, "ID allocation can reuse an
\* existing id" is a reason to roll back).
FreshIds ==
    [][\A w \in Writers : Create(w) =>
          note[w].id \notin Used \/ disturbed[w] \/ kind[w] = "looseOwn"]_vars

\* Creating a note overwrites none (the same document, ADR-006), and a rewrite in
\* place replaces the note that was its source and no other.
NothingOverwritten ==
    [][\A n \in notes : n \notin notes' =>
          \/ Delete
          \/ \E w \in Writers : n = Target(w) /\ Write(w)
          \/ \E w \in Writers : Name(n) = Name(note[w]) /\ Rewrite(w) /\ disturbed[w]]_vars

\* A call ends, however long the lock has been abandoned (issue-writer.ts:348).
CallsEnd == \A w \in Writers : pc[w] # "idle" ~> pc[w] \in {"idle", "dead"}

\* The note a writer holds fits the call it is at
Placed(w) ==
    /\ pc[w] \notin {"idle", "dead"} => note[w] \in Notes
    /\ pc[w] = "mkdir" => kind[w] \notin Loose
    /\ pc[w] \in {"read", "rewrite"} => kind[w] \in InPlace
    /\ pc[w] = "scan" => /\ kind[w] = "looseNew" => note[w].id = 0
                         /\ kind[w] \in InPlace => kind[w] = "inPlace" /\ note[w].id # 0
    /\ pc[w] \in {"rescan", "create", "write"} =>
            note[w].id = note[w].number /\ note[w].id # 0
    /\ pc[w] = "rewrite" => note[w].id # 0

\* What a writer saw is still so, unless the folder was changed past the lock
Current(w) ==
    ~disturbed[w] =>
        /\ pc[w] \in {"rescan", "create"} /\ kind[w] # "looseOwn" => Owners(note[w].id) = {}
        /\ pc[w] = "rewrite" => note[w] \in notes
        /\ pc[w] = "rewrite" /\ kind[w] = "inPlace" => Owners(note[w].id) = {note[w]}

\* Why: the one process in the lock looked at the folder after it made the
\* directory, and nobody else has written since.
AuthoringInv == /\ TypeOK
                /\ NamesAreUnique
                /\ \A w \in Writers : Holds(w) => lockDir = w
                /\ \A w \in Writers : Placed(w) /\ Current(w)
=============================================================================
