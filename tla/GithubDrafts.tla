---------------------------- MODULE GithubDrafts ----------------------------
(***************************************************************************)
(* packages/adapter-github: tasks are published as draft cards of a GitHub      *)
(* project, in three requests each, and the cards are read back with the          *)
(* statuses they have.  The project is external: a list of items with a status     *)
(* field, whose options are what its owner made them, and cards that people move    *)
(* and remove.  A request may fail, with its effect or without it.                 *)
(***************************************************************************)
EXTENDS IssueStatus, Naturals, Sequences, SequencesExt

CONSTANTS Tasks, Slots,   \* kanban ids, and calls under way at once
          Window,         \* how many items a query reads, counted from the last
          MaxCalls, MaxFaults, MaxTouches,
          None

VARIABLES
    options,   \* names of the options of the Status field
    items,     \* the project's items, each with the call that made it
    call,      \* slot -> the call's local variables
    returned,  \* calls that returned an item, with the task's status
    touched,   \* calls whose card people have moved or removed
    calls, faults, touches

vars == <<options, items, call, returned, touched, calls, faults, touches>>

Names == {"Backlog", "Ready", "In Progress", "In Review", "Done", "Blocked"}

Item == [by : 1..MaxCalls, task : Tasks, option : Names \cup {None}]

TypeOK ==
    /\ options \subseteq Names /\ items \in Seq(Item)
    /\ call \in [Slots -> [pc : {"idle", "options", "set"}, by : 0..MaxCalls,
                           status : Statuses, option : Names \cup {None}]]
    /\ returned \subseteq [by : 1..MaxCalls, status : Statuses] /\ touched \subseteq 1..MaxCalls
    /\ calls \in 0..MaxCalls /\ faults \in 0..MaxFaults /\ touches \in 0..MaxTouches

Idle == [pc |-> "idle", by |-> 0, status |-> "TODO", option |-> None]

\* A project has the options of this tool, or lacks one its owner did not make
Init == /\ options \in {Names, Names \ {"Blocked"}, Names \ {"Blocked", "In Review"}, {"Done"}}
        /\ items = <<>> /\ call = [s \in Slots |-> Idle]
        /\ returned = {} /\ touched = {} /\ calls = 0 /\ faults = 0 /\ touches = 0

-----------------------------------------------------------------------------
(* status-mapping.ts *)

normalizedToGithubStatus ==
    [TODO |-> "Backlog", READY |-> "Ready", RUNNING |-> "In Progress",
     REVIEW |-> "In Review", DONE |-> "Done", FAILED |-> "Blocked"]

\* A card without a status reads as TODO
githubStatusToNormalized(option) ==
    CASE option = "Ready"       -> "READY"
      [] option = "In Progress" -> "RUNNING"
      [] option = "In Review"   -> "REVIEW"
      [] option = "Done"        -> "DONE"
      [] option = "Blocked"     -> "FAILED"
      [] OTHER                  -> "TODO"

\* A slip: the other way round
ResolveBacklogFirst(name) ==
    CASE name \in options        -> name
      [] name \notin options /\ "Backlog" \in options -> "Backlog"
      [] OTHER                   -> IF "In Review" \in options THEN "In Review" ELSE None

\* resolveStatusOptionId, with its fallbacks
resolveStatusOptionId(name) ==
    CASE name \in options        -> name
      [] name \notin options /\ "In Review" \in options -> "In Review"
      [] OTHER                   -> IF "Backlog" \in options THEN "Backlog" ELSE None

-----------------------------------------------------------------------------
(* createDraftInProject *)

At(s, label) == call[s].pc = label
Ends(s) == call' = [call EXCEPT ![s] = Idle]
Fault == faults < MaxFaults /\ faults' = faults + 1

\* addProjectV2DraftIssue; a dry run does nothing
Create(s, t, status) ==
    /\ At(s, "idle") /\ calls < MaxCalls /\ calls' = calls + 1
    /\ LET card == [by |-> calls', task |-> t, option |-> None]
       IN \/ /\ items' = Append(items, card) /\ UNCHANGED faults
             /\ call' = [call EXCEPT ![s] = [Idle EXCEPT !.pc = "options", !.by = calls',
                                                        !.status = status]]
          \/ Fault /\ items' \in {items, Append(items, card)} /\ UNCHANGED call
    /\ UNCHANGED <<options, returned, touched, touches>>

Returns(s) == returned' = returned \cup {[by |-> call[s].by, status |-> call[s].status]}

\* fetchStatusOptions and the option they resolve to, if any
FetchOptions(s) ==
    /\ At(s, "options")
    /\ LET option == resolveStatusOptionId(normalizedToGithubStatus[call[s].status])
       IN \/ /\ option # None /\ UNCHANGED <<returned, faults>>
             /\ call' = [call EXCEPT ![s].pc = "set", ![s].option = option]
          \/ option = None /\ Ends(s) /\ Returns(s) /\ UNCHANGED faults
          \/ Fault /\ Ends(s) /\ UNCHANGED returned
    /\ UNCHANGED <<options, items, touched, calls, touches>>

\* A slip: the card is taken to be the last one
SetStatusOfLast(s) ==
    /\ At(s, "set") /\ items # <<>> /\ Ends(s) /\ Returns(s)
    /\ items' = [items EXCEPT ![Len(items)].option = call[s].option]
    /\ UNCHANGED <<options, touched, calls, faults, touches>>

\* updateProjectV2ItemFieldValue of the new item, which may be gone by now
SetStatus(s) ==
    /\ At(s, "set") /\ Ends(s)
    /\ LET mine == {k \in DOMAIN items : items[k].by = call[s].by}
           set  == [k \in DOMAIN items |->
                      IF k \in mine THEN [items[k] EXCEPT !.option = call[s].option] ELSE items[k]]
       IN \/ mine # {} /\ items' = set /\ Returns(s) /\ UNCHANGED faults
          \/ mine = {} /\ UNCHANGED <<items, returned, faults>>
          \/ Fault /\ items' \in {items, set} /\ UNCHANGED returned
    /\ UNCHANGED <<options, touched, calls, touches>>

-----------------------------------------------------------------------------
(* People *)

Touch ==
    /\ touches < MaxTouches /\ touches' = touches + 1
    /\ \E k \in DOMAIN items :
         /\ touched' = touched \cup {items[k].by}
         /\ \/ \E o \in options : items' = [items EXCEPT ![k].option = o]
            \/ items' = RemoveAt(items, k)
    /\ UNCHANGED <<options, call, returned, calls, faults>>

Next == \/ \E s \in Slots : \/ \E t \in Tasks, status \in Statuses : Create(s, t, status)
                            \/ FetchOptions(s) \/ SetStatus(s)
        \/ Touch

Spec == Init /\ [][Next]_vars

-----------------------------------------------------------------------------
\* fetchProjectDrafts: of the last items, whose they are and their status
fetchProjectDrafts ==
    {items[k] : k \in {j \in DOMAIN items : j > Len(items) - Window}}

\* Seen in the drafts read back, a task published by a call that returned has the status
\* it was published with if the project has it; if not, REVIEW; if not even that, TODO.
\* That is unless people have moved the card.
PublishedReadsBack ==
    \A r \in returned, d \in fetchProjectDrafts : d.by = r.by /\ r.by \notin touched =>
       githubStatusToNormalized(d.option) =
         CASE normalizedToGithubStatus[r.status] \in options -> r.status
           [] normalizedToGithubStatus[r.status] \notin options /\ "In Review" \in options -> "REVIEW"
           [] OTHER -> "TODO"

\* A card has no status only while its call is under way, or after it has thrown, or
\* with nothing to fall back on; a call that returned has one card, unless people
\* have removed it
CardsAccounted ==
    /\ \A k \in DOMAIN items : items[k].option = None =>
          \/ {"In Review", "Backlog"} \cap options = {}
          \/ \A r \in returned : r.by # items[k].by
    /\ \A j, k \in DOMAIN items : items[j].by = items[k].by => j = k
    /\ \A r \in returned : r.by \in touched \/ \E k \in DOMAIN items : items[k].by = r.by

DraftsInv == TypeOK /\ PublishedReadsBack /\ CardsAccounted
=============================================================================
