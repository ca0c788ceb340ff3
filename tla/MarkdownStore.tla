---------------------------- MODULE MarkdownStore ----------------------------
(***************************************************************************)
(* packages/core/src/store: MarkdownStore keeps, for each note it has seen,   *)
(* the task it read and the checksum of the file; FileWatcher tells it, once   *)
(* a file has been quiet for a while, that the file changed.  Its own saves    *)
(* go through one temporary file for each note.                                *)
(*                                                                         *)
(* The notes are those of one issue, one for each title it had, in the order   *)
(* of the directory.  A note is its status and whether it can be read: saveTask *)
(* leaves out `executor`, which parseIssueMarkdown demands.  A checksum is the  *)
(* note it was computed from.                                                  *)
(***************************************************************************)
EXTENDS Naturals

CONSTANTS NumPaths, Statuses, Jobs,
          MaxCalls,   \* bound on the calls of the store
          MaxEdits,   \* bound on what people do to the notes
          MaxFaults,  \* bound on calls that fail, and on deaths and stops
          Torn, None

VARIABLES
    file, tmp,    \* path -> note, Torn or None
    state, sum,   \* stateCache, checksumCache
    watching,     \* the watcher is started
    events,       \* changes chokidar has yet to report
    timers,       \* debounceTimers
    job,          \* job -> its local variables
    unsettled,    \* paths with a change that no call has followed undisturbed
    overlapped,   \* paths on which two saves overlapped
    calls, edits, faults

vars == <<file, tmp, state, sum, watching, events, timers, job, unsettled, overlapped,
          calls, edits, faults>>

Paths == 1..NumPaths
Note  == [status : Statuses, readable : BOOLEAN]

TypeOK ==
    /\ file \in [Paths -> Note \cup {Torn, None}] /\ tmp \in [Paths -> Note \cup {Torn, None}]
    /\ state \in [Paths -> Statuses \cup {None}]
    /\ sum \in [Paths -> Note \cup {Torn, None}]
    /\ watching \in BOOLEAN /\ events \subseteq Paths /\ timers \subseteq Paths
    /\ job \in [Jobs ->
         [pc : {"idle", "check", "read", "sum", "find", "tmp", "fill", "rename", "sync"},
          path : Paths, buf : Statuses \cup {None},
          clean : BOOLEAN]]     \* nothing else changed the path since it was read
    /\ unsettled \subseteq Paths /\ overlapped \subseteq Paths
    /\ calls \in 0..MaxCalls /\ edits \in 0..MaxEdits /\ faults \in 0..MaxFaults

Idle == [pc |-> "idle", path |-> 1, buf |-> None, clean |-> TRUE]

Init == /\ file \in [Paths -> [status : Statuses, readable : {TRUE}] \cup {None}]
        /\ tmp = [p \in Paths |-> None]
        /\ state = [p \in Paths |-> None] /\ sum = [p \in Paths |-> None]
        /\ watching = TRUE /\ events = {} /\ timers = {}
        /\ job = [j \in Jobs |-> Idle]
        /\ unsettled = {} /\ overlapped = {}
        /\ calls = 0 /\ edits = 0 /\ faults = 0

At(j, label) == job[j].pc = label
Goes(j, label) == job' = [job EXCEPT ![j].pc = label]
Ends(j) == job' = [job EXCEPT ![j] = Idle]
OnPath(p) == {j \in Jobs : job[j].pc \notin {"idle", "find"} /\ job[j].path = p}

\* Another job, or a person, changes what the jobs on p rely on
Disturbed(p, jobs) == [j \in Jobs |-> IF j \in OnPath(p) THEN [jobs[j] EXCEPT !.clean = FALSE]
                                     ELSE jobs[j]]

\* The call of job j has brought the caches of p up to date, or should have
Settles(j, p) == unsettled' = IF job[j].clean THEN unsettled \ {p} ELSE unsettled \cup {p}

\* markdownIssueToCanonical of what is in the file
Readable(n) == n \notin {Torn, None} /\ n.readable

Caches == <<state, sum>>
Watch  == <<watching, events, timers>>
Ghosts == <<unsettled, overlapped>>
Bounds == <<calls, edits, faults>>

-----------------------------------------------------------------------------
(* onFileChange and loadFromFile *)

\* The watcher's handler: onFileChange of a path whose timer ran out
Fires(j, p) ==
    /\ p \in timers /\ timers' = timers \ {p} /\ At(j, "idle")
    /\ job' = [job EXCEPT ![j] = [Idle EXCEPT !.pc = "check", !.path = p]]
    /\ UNCHANGED <<file, tmp, Caches, watching, events, Ghosts, Bounds>>

\* The checksum: a file that is gone throws, one that is known is skipped
Check(j) ==
    /\ At(j, "check")
    /\ LET p == job[j].path IN
       IF file[p] \in {None, sum[p]} THEN Ends(j) /\ UNCHANGED sum
       ELSE sum' = [sum EXCEPT ![p] = file[p]] /\ Goes(j, "read")
    /\ UNCHANGED <<file, tmp, state, Watch, Ghosts, Bounds>>

\* loadFromFile: the note; one that cannot be read leaves the caches as they are
Load(j) ==
    /\ At(j, "read")
    /\ LET n == file[job[j].path] IN
       IF Readable(n)
       THEN job' = [job EXCEPT ![j].pc = "sum", ![j].buf = n.status, ![j].clean = TRUE]
       ELSE Ends(j)
    /\ UNCHANGED <<file, tmp, Caches, Watch, Ghosts, Bounds>>

\* ... the checksum and the two caches.  onFileChange looks the old task up after
\* this, so it compares the task just read with itself and never calls onTransition.
Cache(j) ==
    /\ At(j, "sum") /\ Ends(j)
    /\ LET p == job[j].path IN
       IF file[p] = None THEN UNCHANGED <<Caches, unsettled>>
       ELSE /\ sum' = [sum EXCEPT ![p] = file[p]]
            /\ state' = [state EXCEPT ![p] = job[j].buf]
            /\ Settles(j, p)
    /\ UNCHANGED <<file, tmp, Watch, overlapped, Bounds>>

-----------------------------------------------------------------------------
(* saveTask, updateTask, writeBack *)

\* loadFromFile, saveTask of a task the caller has, and writeBack
BeginLoad(j, p) ==
    /\ At(j, "idle") /\ calls < MaxCalls /\ calls' = calls + 1
    /\ job' = [job EXCEPT ![j] = [Idle EXCEPT !.pc = "read", !.path = p]]
    /\ UNCHANGED <<file, tmp, Caches, Watch, Ghosts, edits, faults>>

BeginSave(j, p, s) ==
    /\ At(j, "idle") /\ calls < MaxCalls /\ calls' = calls + 1
    /\ job' = [job EXCEPT ![j] = [Idle EXCEPT !.pc = "tmp", !.path = p, !.buf = s]]
    /\ UNCHANGED <<file, tmp, Caches, Watch, Ghosts, edits, faults>>

BeginWriteBack(j, p, s) ==
    /\ At(j, "idle") /\ calls < MaxCalls /\ calls' = calls + 1
    /\ job' = [job EXCEPT ![j] = [Idle EXCEPT !.pc = "find", !.path = p, !.buf = s]]
    /\ UNCHANGED <<file, tmp, Caches, Watch, Ghosts, edits, faults>>

\* findByExternalKey: the first of the issue's notes, which must be readable.
\* The patch may change the title, and with it the path that is written.
Find(j) ==
    /\ At(j, "find")
    /\ IF \E p \in Paths : Readable(file[p]) /\ \A q \in 1..p - 1 : file[q] = None
       THEN Goes(j, "tmp") ELSE Ends(j)
    /\ UNCHANGED <<file, tmp, Caches, Watch, Ghosts, Bounds>>

\* The file at p becomes n
Becomes(p, n) == /\ file' = [file EXCEPT ![p] = n]
                 /\ events' = IF watching THEN events \cup {p} ELSE events

\* Job j is at its next step, and disturbs the others on its path
Disturbs(j, label) ==
    job' = [Disturbed(job[j].path, job) EXCEPT ![j] = [job[j] EXCEPT !.pc = label]]

Saving(p) == {j \in OnPath(p) : job[j].pc \in {"fill", "rename"}}

\* A slip: the note itself is written, not a temporary file
WriteDirect(j) ==
    /\ At(j, "tmp") /\ Disturbs(j, "fill") /\ Becomes(job[j].path, Torn)
    /\ UNCHANGED <<tmp, Caches, watching, timers, Ghosts, Bounds>>

\* atomicWriteFile: writeFile truncates the temporary file ...
WriteTmp(j) ==
    /\ At(j, "tmp")
    /\ LET p == job[j].path
           alone == Saving(p) = {}
       IN /\ tmp' = [tmp EXCEPT ![p] = Torn]
          /\ overlapped' = IF alone THEN overlapped ELSE overlapped \cup {p}
          /\ job' = [IF alone THEN job ELSE Disturbed(p, job)
                        EXCEPT ![j] = [job[j] EXCEPT !.pc = "fill", !.clean = alone]]
    /\ UNCHANGED <<file, Caches, Watch, unsettled, Bounds>>

\* ... and fills it, wherever another save has moved it meanwhile ...
Fill(j) ==
    /\ At(j, "fill")
    /\ LET p == job[j].path
           n == [status |-> job[j].buf, readable |-> FALSE]
       IN IF tmp[p] # None
          THEN tmp' = [tmp EXCEPT ![p] = n] /\ Goes(j, "rename") /\ UNCHANGED <<file, events>>
          ELSE /\ Disturbs(j, "rename") /\ UNCHANGED tmp
               /\ Becomes(p, n) \/ UNCHANGED <<file, events>>
    /\ UNCHANGED <<Caches, watching, timers, Ghosts, Bounds>>

\* ... and renames it
Rename(j) ==
    /\ At(j, "rename")
    /\ LET p == job[j].path IN
       IF tmp[p] = None THEN Ends(j) /\ UNCHANGED <<file, tmp, events>>
       ELSE /\ Becomes(p, tmp[p]) /\ Disturbs(j, "sync")
            /\ tmp' = [tmp EXCEPT ![p] = None]
    /\ unsettled' = unsettled \cup {job[j].path}
    /\ UNCHANGED <<Caches, watching, timers, overlapped, Bounds>>

\* A slip: the checksum is not cached
SyncStateOnly(j) ==
    /\ At(j, "sync") /\ Ends(j)
    /\ LET p == job[j].path IN
       state' = [state EXCEPT ![p] = job[j].buf] /\ Settles(j, p)
    /\ UNCHANGED <<file, tmp, sum, Watch, overlapped, Bounds>>

\* computeChecksum of what is there by now, and syncCache
SyncCache(j) ==
    /\ At(j, "sync") /\ Ends(j)
    /\ LET p == job[j].path IN
       IF file[p] = None THEN UNCHANGED <<Caches, unsettled>>
       ELSE /\ sum' = [sum EXCEPT ![p] = file[p]]
            /\ state' = [state EXCEPT ![p] = job[j].buf]
            /\ Settles(j, p)
    /\ UNCHANGED <<file, tmp, Watch, overlapped, Bounds>>

\* Anyone but a save changes the file at p
Changes(p, n) ==
    /\ Becomes(p, n) /\ job' = Disturbed(p, job)
    /\ unsettled' = IF watching /\ OnPath(p) = {} THEN unsettled ELSE unsettled \cup {p}

\* deleteTask: the first of the issue's notes
Delete ==
    /\ calls < MaxCalls /\ calls' = calls + 1
    /\ \E p \in Paths :
         /\ file[p] # None /\ \A q \in 1..p - 1 : file[q] = None
         /\ Changes(p, None)
    /\ UNCHANGED <<tmp, Caches, watching, timers, overlapped, edits, faults>>

-----------------------------------------------------------------------------
(* The watcher, people and failures *)

\* chokidar reports a change; handleEvent starts the timer again
Report(p) == /\ p \in events /\ events' = events \ {p} /\ timers' = timers \cup {p}
             /\ UNCHANGED <<file, tmp, Caches, watching, job, Ghosts, Bounds>>

\* stop: changes on their way to the store are dropped
Stop == /\ watching /\ faults < MaxFaults /\ faults' = faults + 1
        /\ watching' = FALSE /\ events' = {} /\ timers' = {}
        /\ unsettled' = unsettled \cup events \cup timers
        /\ UNCHANGED <<file, tmp, Caches, job, overlapped, calls, edits>>

\* start: what changed meanwhile is not reported
Start == /\ ~watching /\ watching' = TRUE
         /\ UNCHANGED <<file, tmp, Caches, events, timers, job, Ghosts, Bounds>>

\* A person, or WriteBack and the workflow engine, which bypass the caches
Edit(p) ==
    /\ edits < MaxEdits /\ edits' = edits + 1
    /\ \E n \in Note \cup {None} : n # file[p] /\ Changes(p, n)
    /\ UNCHANGED <<tmp, Caches, watching, timers, overlapped, calls, faults>>

\* A call of the file system fails; loads report it, saves throw
Fail(j) ==
    /\ ~At(j, "idle") /\ faults < MaxFaults /\ faults' = faults + 1 /\ Ends(j)
    /\ unsettled' = unsettled \cup {job[j].path}
    /\ UNCHANGED <<file, tmp, Caches, Watch, overlapped, calls, edits>>

\* The process dies and another takes its place
Dies ==
    /\ faults < MaxFaults /\ faults' = faults + 1
    /\ state' = [p \in Paths |-> None] /\ sum' = [p \in Paths |-> None]
    /\ events' = {} /\ timers' = {} /\ job' = [j \in Jobs |-> Idle] /\ unsettled' = {}
    /\ UNCHANGED <<file, tmp, watching, overlapped, calls, edits>>

Step(j) == \/ Check(j) \/ Load(j) \/ Cache(j) \/ Find(j) \/ WriteTmp(j) \/ Fill(j)
           \/ Rename(j) \/ SyncCache(j) \/ Fail(j)

Next == \/ \E j \in Jobs : Step(j)
        \/ \E j \in Jobs, p \in Paths : Fires(j, p) \/ BeginLoad(j, p)
        \/ \E j \in Jobs, p \in Paths, s \in Statuses : BeginSave(j, p, s) \/ BeginWriteBack(j, p, s)
        \/ \E p \in Paths : Report(p) \/ Edit(p)
        \/ Delete \/ Stop \/ Start \/ Dies

Spec == Init /\ [][Next]_vars

-----------------------------------------------------------------------------
\* Nothing is on its way to the store about this note
Quiet(p) == p \notin events \cup timers /\ OnPath(p) = {}

\* Once things are quiet, the store's picture of a note is the note: the
\* checksum is the file's, so that the next report of it is rightly skipped, and
\* the task is the one in the file if it can be read.  What breaks it is a change
\* that crosses a call on the same note, that is not watched, or whose load
\* fails; the next load or save that nothing crosses mends it.
CacheAgrees ==
    \A p \in Paths : Quiet(p) /\ p \notin unsettled /\ sum[p] # None /\ file[p] # None =>
        /\ sum[p] = file[p]
        /\ Readable(file[p]) => state[p] = file[p].status

\* A note is never seen half-written, unless two saves of it overlapped: they
\* share the temporary file.
NotesAreWhole == \A p \in Paths : file[p] = Torn => p \in overlapped

StoreInv == TypeOK /\ CacheAgrees /\ NotesAreWhole
=============================================================================
