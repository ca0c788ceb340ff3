--------------------------- MODULE BoardReconcile ---------------------------
(***************************************************************************)
(* The board of one space beside the issue notes it was rendered from.  A   *)
(* person drags its cards; reconcile-board and the plugin read the board     *)
(* back, compare every card with its note, and move the notes through the    *)
(* workflow engine; board --write and the plugin render it again.            *)
(*                                                                         *)
(* A job is one such call: a step for each note or board it reads and each    *)
(* file it writes, any of which may fail.  A path is its place in the         *)
(* listing; a note is what the projection keeps of it.  The order of the      *)
(* cards in a lane is not kept, and a checksum is the note it was computed    *)
(* from.  A conflict is not told from another: any of them blocks everything. *)
(***************************************************************************)
EXTENDS IssueStatus, Naturals, Sequences, FiniteSets

CONSTANTS
    NumPaths,     \* files of the space, listed in this order
    Ids,          \* issue ids
    Epics,        \* those of epics
    Titles,
    Jobs,
    None,         \* no file, no board, no metadata
    Start,        \* the statuses notes have at first
    Targets,      \* the lanes people drag cards to and move issues to
    MaxEdits,     \* bound on what people do to the board and the notes
    MaxFailures   \* bound on reads and writes that fail

ASSUME BoardAssumption ==
    /\ NumPaths \in Nat \ {0} /\ Epics \subseteq Ids
    /\ Start \subseteq Statuses /\ Targets \subseteq Statuses \cup {"elsewhere"}
    /\ None \notin Ids
    /\ MaxEdits \in Nat /\ MaxFailures \in Nat

VARIABLES
    notes,      \* path -> note, or None
    board,      \* the cards of the board file, or None
    job,        \* job -> its local variables
    clock,      \* the time of the last move: `updated`
    moved,      \* the dragged cards whose move was made, ever (read by no action)
    edits, failures

vars == <<notes, board, job, clock, moved, edits, failures>>

Paths == 1..NumPaths
Lanes == Statuses \cup {"elsewhere"}            \* under a heading that is no status
Note  == [id : Ids, status : Statuses, title : Titles, updated : Nat]
Cards == [id : Ids \cup {None}, status : Statuses, checksum : Note, source : Paths,
          lane : Lanes, copy : BOOLEAN]

\* No file is no note
ASSUME NoneAssumption == None \notin Note

\* reconcile-board, the same with --apply, the plugin's preview and apply,
\* the plugin's move of one note, board --write or the plugin's sync
Kinds   == {"dryRun", "apply", "obsidian", "move", "board"}
Results == {"none", "previewed", "conflicts", "applied", "threw", "syncError"}

Calls == {"idle", "board", "notes", "confirm", "pick", "reread", "guard", "rename",
          "collect", "write", "index", "done"}
Locals == [kind : Kinds, pc : Calls, cards : SUBSET Cards, recs : Seq(Note \cup {None}),
           shown : {None} \cup SUBSET (Ids \X Paths \X Lanes \X Statuses),
           queue : SUBSET Cards, cur : Cards \cup {None}, buf : Note \cup {None},
           applied : SUBSET Cards, calm : BOOLEAN, result : Results]

TypeOK ==
    /\ notes \in [Paths -> Note \cup {None}]
    /\ board = None \/ board \subseteq Cards
    /\ job \in [Jobs -> Locals]
    /\ moved \subseteq Cards
    /\ clock \in Nat /\ edits \in 0..MaxEdits /\ failures \in 0..MaxFailures

-----------------------------------------------------------------------------
(* Rendering *)

\* renderCard, in the lane of its status
Card(p, n) == [id |-> n.id, status |-> n.status, checksum |-> n, source |-> p,
               lane |-> n.status, copy |-> FALSE]

\* renderObsidianBoardMarkdown: every note but the epics
Render(recs) == {Card(p, recs[p]) : p \in {q \in DOMAIN recs :
                                             recs[q] # None /\ recs[q].id \notin Epics}}

-----------------------------------------------------------------------------
(* Reconciling: reconcileBoardFromRecords *)

Dragged(c) == c.lane # c.status

\* A person drags one card
Drags(cards) == {(cards \ {c}) \cup {[c EXCEPT !.lane = lane]} :
                   c \in cards, lane \in Targets}

\* A slip: a card is compared with the status of its note only
ConflictByStatus(c, cards, recs) ==
    \/ c.lane \notin Statuses \/ c.id = None
    \/ \E d \in cards \ {c} : d.id = c.id
    \/ ~ \E p \in DOMAIN recs :
            /\ recs[p] # None /\ recs[p].id = c.id
            /\ c.source = p /\ c.status = recs[p].status
    \/ Dragged(c) /\ (c.id \in Epics \/ ~CanTransition(c.status, c.lane))

\* parseBoardCards, validateCardAgainstIssue: this card stands in the way
Conflict(c, cards, recs) ==
    \/ c.lane \notin Statuses \/ c.id = None
    \/ \E d \in cards \ {c} : d.id = c.id
    \/ ~ \E p \in DOMAIN recs :
            /\ recs[p] # None /\ recs[p].id = c.id
            /\ c.source = p /\ c.status = recs[p].status /\ c.checksum = recs[p]
    \/ Dragged(c) /\ (c.id \in Epics \/ ~CanTransition(c.status, c.lane))

\* duplicateIssueConflicts
DuplicateIssue(recs) == \E p, q \in DOMAIN recs :
    p # q /\ recs[p] # None /\ recs[q] # None /\ recs[p].id = recs[q].id

\* A slip: only what is wrong with the notes counts
ConflictsOfNotes(cards, recs) == DuplicateIssue(recs)

Conflicts(cards, recs) == DuplicateIssue(recs) \/ \E c \in cards : Conflict(c, cards, recs)

\* result.proposals, each as the card that asks for it
Proposals(cards, recs) ==
    {c \in cards : ~DuplicateIssue(recs) /\ ~Conflict(c, cards, recs) /\ Dragged(c)}

\* The key of assertExpectedChanges
Key(c) == <<c.id, c.source, c.lane, c.status>>
Keys(cards) == {Key(c) : c \in cards}

-----------------------------------------------------------------------------
(* The steps of a job *)

Idle == [kind |-> "dryRun", pc |-> "idle", cards |-> {}, recs |-> <<>>, shown |-> None,
         queue |-> {}, cur |-> None, buf |-> None, applied |-> {},
         calm |-> TRUE, result |-> "none"]

Init == /\ \E title \in Titles :
              notes \in [Paths -> [id : Ids, status : Start, title : {title}, updated : {0}]
                                  \cup {None}]
        /\ ~DuplicateIssue(notes)
        /\ board \in {None, Render(notes)} \cup Drags(Render(notes))
        /\ job = [j \in Jobs |-> Idle]
        /\ clock = 0 /\ moved = {} /\ edits = 0 /\ failures = 0

\* Job j goes on with locals l, having changed nothing others see
Goes(j, l) == job' = [job EXCEPT ![j] = l] /\ UNCHANGED <<notes, board, clock, moved>>

\* ... and having written a note or the board
Writes(j, l) == job' = [k \in Jobs |-> IF k = j THEN l ELSE [job[k] EXCEPT !.calm = FALSE]]

At(j, label) == job[j].pc = label

Ends(l, result) == [l EXCEPT !.pc = "done", !.result = result,
                             !.recs = <<>>, !.queue = {}, !.cur = None, !.buf = None,
                             !.cards = IF result = "applied" THEN @ ELSE {}]

Begin(j, kind) ==
    /\ At(j, "idle") /\ kind # "move"
    /\ Goes(j, [Idle EXCEPT !.kind = kind, !.pc = IF kind = "board" THEN "collect" ELSE "board"])

\* moveObsidianIssueStatus: read the note and ask the engine
BeginMove(j, p, lane) ==
    /\ At(j, "idle") /\ notes[p] # None
    /\ LET n == notes[p]
           l == [Idle EXCEPT !.kind = "move", !.cur = [Card(p, n) EXCEPT !.lane = lane]]
           type == IF n.id \in Epics THEN "epic" ELSE "task"
       IN  Goes(j, IF ~EngineAccepts(type, n.status, lane) THEN Ends(l, "threw")
                   ELSE [l EXCEPT !.pc = IF n.status = lane THEN "collect" ELSE "guard"])

\* vault.read of the board; without one nothing is proposed
ReadBoard(j) ==
    /\ At(j, "board")
    /\ Goes(j, IF board # None THEN [job[j] EXCEPT !.cards = board, !.pc = "notes"]
               ELSE Ends(job[j], IF job[j].shown \in {None, {}} THEN "conflicts" ELSE "threw"))

\* A slip: the changes are not compared with the ones that were confirmed
AsShownOrNot(l, found) == l.shown = None \/ l.kind = "obsidian"

\* assertExpectedChanges, which a first reading has nothing to compare with
AsShown(l, found) == l.shown \in {None, Keys(found)}

\* What follows once the last note is read
AfterList(l) ==
    LET found == Proposals(l.cards, l.recs) IN
    IF ~AsShown(l, found) THEN Ends(l, "threw")
    ELSE IF Conflicts(l.cards, l.recs) THEN Ends(l, "conflicts")
    ELSE IF l.kind = "dryRun" THEN Ends(l, "previewed")
    ELSE IF l.kind = "obsidian" /\ l.shown = None
    THEN [l EXCEPT !.shown = Keys(found), !.pc = "confirm", !.recs = <<>>, !.cards = {}]
    ELSE [l EXCEPT !.queue = found, !.pc = "pick", !.recs = <<>>]

\* listVaultRegistryIssueRecords: the files one after the other
ReadNote(j) ==
    /\ At(j, "notes")
    /\ LET recs == job[j].recs
           l == [job[j] EXCEPT !.recs = Append(recs, notes[Len(recs) + 1])]
       IN  Goes(j, IF Len(l.recs) = NumPaths THEN AfterList(l) ELSE l)

\* The dialog's button, which stays there after an error
Confirm(j) ==
    /\ \/ At(j, "confirm")
       \/ /\ At(j, "done") /\ job[j].kind = "obsidian" /\ job[j].shown # None
          /\ job[j].result \in {"threw", "syncError"}
    /\ Goes(j, [job[j] EXCEPT !.pc = "board", !.result = "none", !.cards = {},
                              !.applied = {}, !.calm = TRUE])

\* The next proposal, or what follows the last one
Pick(j) ==
    /\ At(j, "pick")
    /\ \/ \E c \in job[j].queue :
            Goes(j, [job[j] EXCEPT !.queue = @ \ {c}, !.cur = c,
                       !.pc = IF job[j].kind = "obsidian" THEN "reread" ELSE "guard"])
       \/ /\ job[j].queue = {}
          /\ Goes(j, IF job[j].kind = "obsidian" THEN [job[j] EXCEPT !.pc = "collect"]
                                                 ELSE Ends(job[j], "applied"))

\* The note of the current card has its id and its recorded status
Fresh(j) == LET c == job[j].cur
                n == notes[c.source]
            IN  n # None /\ n.id = c.id /\ n.status = c.status

\* applyProposalThroughVault reads the note again
Reread(j) ==
    /\ At(j, "reread")
    /\ Goes(j, IF Fresh(j) /\ job[j].cur.id \notin Epics THEN [job[j] EXCEPT !.pc = "guard"]
               ELSE Ends(job[j], "threw"))

\* A slip: the other proposals go on when a note has changed
GuardOrSkip(j) ==
    /\ At(j, "guard")
    /\ Goes(j, IF Fresh(j) THEN [job[j] EXCEPT !.pc = "rename", !.buf = notes[job[j].cur.source]]
               ELSE IF job[j].kind = "move" THEN Ends(job[j], "threw")
               ELSE [job[j] EXCEPT !.pc = "pick"])

\* vault.process: the engine's updater checks what it was given
Guard(j) ==
    /\ At(j, "guard")
    /\ Goes(j, IF Fresh(j) THEN [job[j] EXCEPT !.pc = "rename", !.buf = notes[job[j].cur.source]]
               ELSE Ends(job[j], "threw"))

\* ... and its file is replaced
Rename(j) ==
    /\ At(j, "rename")
    /\ LET c == job[j].cur IN
       /\ notes' = [notes EXCEPT ![c.source] =
                      [job[j].buf EXCEPT !.status = c.lane, !.updated = clock + 1]]
       /\ clock' = clock + 1 /\ moved' = moved \cup {c}
       /\ Writes(j, [job[j] EXCEPT !.applied = @ \cup {c}, !.cur = None,
                       !.buf = None, !.pc = IF job[j].kind = "move" THEN "collect" ELSE "pick"])
       /\ UNCHANGED board

\* A slip: the board shows the notes as they were read with the proposals
CollectStale(j) ==
    /\ At(j, "collect")
    /\ Goes(j, [job[j] EXCEPT !.pc = "write",
                  !.recs = [p \in Paths |->
                     IF \E c \in job[j].applied : c.source = p
                     THEN (CHOOSE c \in job[j].applied : c.source = p).checksum
                     ELSE notes[p]]])

\* collectVaultBoardProjection, collectBoardProjection
Collect(j) ==
    /\ At(j, "collect")
    /\ LET recs == Append(job[j].recs, notes[Len(job[j].recs) + 1])
       IN  Goes(j, [job[j] EXCEPT !.recs = recs,
                      !.pc = IF Len(recs) = NumPaths THEN "write" ELSE "collect"])

\* writeVaultFile, writeProjectionTargets: the board, then the index
WriteBoard(j) ==
    /\ At(j, "write")
    /\ board' = Render(job[j].recs)
    /\ Writes(j, [job[j] EXCEPT !.pc = "index", !.recs = <<>>])
    /\ UNCHANGED <<notes, clock, moved>>

WriteIndex(j) == At(j, "index") /\ Goes(j, Ends(job[j], "applied"))

\* A read or a write fails, or a note cannot be parsed
Fail(j) ==
    /\ failures < MaxFailures /\ failures' = failures + 1
    /\ ~(At(j, "idle") \/ At(j, "confirm") \/ At(j, "done") \/ At(j, "pick"))
    /\ Goes(j, Ends(job[j], IF /\ job[j].kind = "obsidian"
                               /\ job[j].pc \in {"collect", "write", "index"}
                            THEN "syncError" ELSE "threw"))
    /\ UNCHANGED edits

Step(j) == /\ \/ ReadBoard(j) \/ ReadNote(j) \/ Pick(j) \/ Reread(j) \/ Guard(j) \/ Rename(j)
              \/ Collect(j) \/ WriteBoard(j) \/ WriteIndex(j)
           /\ UNCHANGED <<edits, failures>>

Called(j) == /\ \/ \E kind \in Kinds : Begin(j, kind)
                \/ \E p \in Paths, lane \in Targets \cap Statuses : BeginMove(j, p, lane)
                \/ Confirm(j)
             /\ UNCHANGED <<edits, failures>>

-----------------------------------------------------------------------------
(* People and the other commands *)

\* A card is dragged, copied or removed, or its metadata is lost
EditBoard ==
    /\ board # None
    /\ \/ board' \in Drags(board)
       \/ \E c \in board : board' \in {board \cup {[c EXCEPT !.copy = TRUE]}, board \ {c},
                                       (board \ {c}) \cup {[c EXCEPT !.id = None]}}
    /\ UNCHANGED <<notes, clock, moved>>

\* A note gets another title, is removed, or is copied to a path of its own
EditNote ==
    /\ \E p \in Paths :
         /\ notes[p] # None
         /\ \/ /\ \E title \in Titles : notes' = [notes EXCEPT ![p].title = title]
               /\ UNCHANGED moved
            \/ /\ notes' = [notes EXCEPT ![p] = None]
               /\ UNCHANGED moved
            \/ \E q \in Paths :
                 /\ notes[q] = None
                 /\ notes' = [notes EXCEPT ![q] = notes[p]]
                 /\ moved' = {c \in moved : c.source # q}
    /\ UNCHANGED <<board, clock>>

\* A run or another command moves the issue
MoveNote ==
    /\ \E p \in Paths, status \in Statuses :
         /\ notes[p] # None /\ notes[p].id \notin Epics
         /\ CanTransition(notes[p].status, status)
         /\ notes' = [notes EXCEPT ![p].status = status, ![p].updated = clock + 1]
    /\ clock' = clock + 1
    /\ UNCHANGED <<board, moved>>

Disturb == /\ edits < MaxEdits /\ edits' = edits + 1
           /\ EditBoard \/ EditNote \/ MoveNote
           /\ job' = [j \in Jobs |-> [job[j] EXCEPT !.calm = FALSE]]
           /\ UNCHANGED failures

Next == Disturb \/ \E j \in Jobs : Called(j) \/ Step(j) \/ Fail(j)

Spec == Init /\ [][Next]_vars

-----------------------------------------------------------------------------
(* Properties *)

\* The invariant that carries the properties below: what is queued was
\* confirmed, and a dragged card of the board that was read is queued, in hand
\* or applied.
BoardInv ==
    /\ TypeOK
    /\ \A j \in Jobs : LET l == job[j] IN
         l.kind = "obsidian" =>
            /\ l.pc \in {"pick", "reread", "guard", "rename"} =>
                 Keys(l.queue) \subseteq l.shown
            /\ l.pc \in {"reread", "guard", "rename"} => Key(l.cur) \in l.shown
            /\ l.pc \in {"pick", "collect", "write", "index"} =>
                 {c \in l.cards : Dragged(c)} \subseteq l.queue \cup l.applied

\* Left alone, an apply does what was asked: every card of the board it read is
\* in the column of its note.  A board left alone once rendered agrees with the
\* notes: nothing on it is in conflict and nothing is pending.
CalmApply ==
    \A j \in Jobs : LET l == job[j] IN
        l.result = "applied" /\ l.calm =>
            /\ \A c \in l.cards : notes[c.source] # None /\ notes[c.source].status = c.lane
            /\ l.kind \notin {"dryRun", "apply"} /\ ~DuplicateIssue(notes) =>
                 ~Conflicts(board, notes) /\ Proposals(board, notes) = {}

\* A drag is made once.  Whatever became of the call that made it - the board
\* was not rendered, another of its moves failed, its process was killed - the
\* card that asked for it never asks again, not even when the issue has come
\* back to the status the card recorded.
NoSecondMove ==
    board # None => Proposals(board, notes) \cap moved = {}

\* The plugin moves a note only as the dialog showed: this issue, this file,
\* from this status to this one.  Cards dragged after the preview, and notes
\* that changed, stop the whole apply (assertExpectedChanges).
OnlyConfirmed ==
    [][\A j \in Jobs : job[j].kind = "obsidian" =>
          \A c \in job'[j].applied \ job[j].applied :
             /\ Key(c) \in job[j].shown
             /\ job[j].buf.id = c.id /\ job[j].buf.status = c.status]_vars

\* The plugin renders the board over cards that were dragged only once it has
\* applied them: a dragged card that the call has read is never lost.  (One
\* that is dragged while the call runs is.)
SeenDragsSurvive ==
    [][\A j \in Jobs :
          At(j, "write") /\ job'[j].pc = "index" /\ job[j].kind = "obsidian" =>
             \A c \in board \cap job[j].cards : Dragged(c) => c \in job[j].applied]_vars
=============================================================================
