--------------------------- MODULE SyncCoordinator ---------------------------
(***************************************************************************)
(* packages/core/src/sync-coordinator.ts and checksum.ts: tasks are pulled     *)
(* from a provider into a store, and their status pushed back, while people     *)
(* edit both sides.  The store and the provider are the interfaces of types.ts:  *)
(* a store keeps what it is given, and a provider takes the status of a push     *)
(* and dates it.                                                               *)
(***************************************************************************)
EXTENDS Naturals

CONSTANTS Tasks, Texts, States,
          Slots,      \* calls under way at once
          MaxCalls,   \* bound on calls
          MaxEdits,   \* bound on edits
          MaxFaults,  \* bound on provider or store calls that throw
          None

Modes == {"local-wins", "provider-wins", "newest-wins"}

VARIABLES
    mode,            \* conflictResolution
    local, remote,   \* task -> its record in the store, at the provider
    call,            \* slot -> the call's local variables
    clock, syncs,    \* times of edits, and of syncs: last_synced_at
    mine, latest,    \* what was last written by hand: in the store, on either side
    settled,         \* tasks a pull has dealt with undisturbed since the last edit
    agreed,          \* tasks a push has, with none of whose copies it crossed
    pushed,          \* tasks whose status was pushed
    lost,            \* tasks of which a call has overwritten an edit it did not know
    calls, edits, faults

vars == <<mode, local, remote, call, clock, syncs, mine, latest, settled, agreed, pushed, lost,
          calls, edits, faults>>

Content == [status : States, text : Texts]
\* What computeChecksum covers.  `updated` 0 is a missing one; `stamp` is the
\* sync that wrote last_synced_at and last_source, 0 as the provider sends them.
Digest  == [content : Content, updated : Nat, stamp : Nat]
Record  == [content : Content, updated : Nat, stamp : Nat, sum : Digest \cup {None}]

TypeOK ==
    /\ mode \in Modes
    /\ local \in [Tasks -> Record \cup {None}] /\ remote \in [Tasks -> Record]
    /\ call \in [Slots ->
         [pc : {"idle", "next", "save", "push", "update"}, task : Tasks \cup {None},
          fetched : {None} \cup [Tasks -> Record], todo : SUBSET Tasks,
          copy : Record \cup {None}, calm : SUBSET Tasks]]
    /\ clock \in Nat /\ syncs \in Nat
    /\ mine \in [Tasks -> Content \cup {None}] /\ latest \in [Tasks -> Content]
    /\ settled \subseteq Tasks /\ agreed \subseteq Tasks 
    /\ pushed \subseteq Tasks /\ lost \subseteq Tasks
    /\ calls \in 0..MaxCalls /\ edits \in 0..MaxEdits /\ faults \in 0..MaxFaults

Idle == [pc |-> "idle", task |-> None, fetched |-> None, todo |-> {}, copy |-> None,
         calm |-> {}]

Fresh(c, at) == [content |-> c, updated |-> at, stamp |-> 0, sum |-> None]

\* The provider has every task; the store may have some, dated or not.  One
\* content is as good as another.
Init == /\ mode \in Modes
        /\ \E at \in {0, 1} : LET c == CHOOSE any \in Content : TRUE IN
             /\ remote = [t \in Tasks |-> Fresh(c, 1)]
             /\ local \in [Tasks -> {None, Fresh(c, at)}]
             /\ latest = [t \in Tasks |-> c]
             /\ mine = [t \in Tasks |-> IF local[t] = None THEN None ELSE c]
        /\ call = [s \in Slots |-> Idle] /\ clock = 1 /\ syncs = 0
        /\ settled = {} /\ agreed = {} /\ pushed = {} /\ lost = {}
        /\ calls = 0 /\ edits = 0 /\ faults = 0

At(s, label) == call[s].pc = label
Ends(s) == call' = [call EXCEPT ![s] = Idle]

-----------------------------------------------------------------------------
(* checksum.ts *)

computeChecksum(r) == [content |-> r.content, updated |-> r.updated, stamp |-> r.stamp]

hasChanged(r) == r.sum # computeChecksum(r)

\* The record as a sync leaves it.  The checksum is that of the record before
\* last_synced_at was set, so it never matches the record it is kept with.
Synced(r) == [r EXCEPT !.stamp = syncs + 1, !.sum = computeChecksum(r)]

-----------------------------------------------------------------------------
(* Pulling *)

\* A slip: a local record that has not changed is left as it is
UpToDateLocally(l, r) == ~hasChanged(l)

\* Neither side has changed since the store was written
UpToDate(l, r) == ~hasChanged(l) /\ l.sum = computeChecksum(r)

\* A slip: of two dates the earlier one wins
ResolveOldest(l, r) ==
    CASE mode = "local-wins"    -> l
      [] mode = "provider-wins" -> r
      [] mode = "newest-wins"   -> IF l.updated = 0 \/ r.updated = 0 \/ l.updated < r.updated
                                   THEN l ELSE r

\* resolveConflict; without two dates to compare, the store's record stays
Resolve(l, r) ==
    CASE mode = "local-wins"    -> l
      [] mode = "provider-wins" -> r
      [] mode = "newest-wins"   -> IF l.updated = 0 \/ r.updated = 0 \/ l.updated > r.updated
                                   THEN l ELSE r

\* syncFromProvider: fetchTasks
Pull(s) ==
    /\ At(s, "idle") /\ calls < MaxCalls /\ calls' = calls + 1
    /\ call' = [call EXCEPT ![s] = [Idle EXCEPT !.pc = "next", !.fetched = remote,
                                               !.todo = Tasks, !.calm = Tasks]]
    /\ UNCHANGED <<mode, local, remote, clock, syncs, mine, latest, settled, agreed, pushed, lost,
                   edits, faults>>

\* findByExternalKey of the next task, or the end
Find(s) ==
    /\ At(s, "next")
    /\ \/ call[s].todo = {} /\ Ends(s)
       \/ \E t \in call[s].todo :
            call' = [call EXCEPT ![s].pc = "save", ![s].task = t, ![s].todo = @ \ {t},
                                 ![s].copy = local[t]]
    /\ UNCHANGED <<mode, local, remote, clock, syncs, mine, latest, settled, agreed, pushed, lost,
                   calls, edits, faults>>

\* Whatever is done to t, the calls that have read it do not know of it
Disturb(t) == [s \in Slots |-> [call[s] EXCEPT !.calm = @ \ {t}]]

Loses(s, t) == IF t \notin call[s].calm /\ local'[t] # local[t] THEN lost \cup {t} ELSE lost

\* Save or update it, or skip it
Save(s) ==
    /\ At(s, "save")
    /\ LET t == call[s].task
           l == call[s].copy
           r == call[s].fetched[t]
           skip == l # None /\ UpToDate(l, r)
       IN /\ local' = IF skip THEN local
                      ELSE [local EXCEPT ![t] = IF l = None
                                                THEN [r EXCEPT !.sum = computeChecksum(r)]
                                                ELSE Synced(Resolve(l, r))]
          /\ syncs' = IF skip THEN syncs ELSE syncs + 1
          /\ settled' = IF t \in call[s].calm THEN settled \cup {t} ELSE settled \ {t}
          /\ agreed' = IF t \in call[s].calm THEN agreed ELSE agreed \ {t}
          /\ lost' = Loses(s, t)
          /\ mine' = IF l = None THEN [mine EXCEPT ![t] = r.content] ELSE mine
          /\ call' = [IF t \in call[s].calm THEN call ELSE Disturb(t)
                        EXCEPT ![s].pc = "next", ![s].task = None, ![s].copy = None]
    /\ UNCHANGED <<mode, remote, clock, latest, pushed, calls, edits, faults>>

-----------------------------------------------------------------------------
(* Pushing *)

\* pushToProvider, of a copy the caller has read
Push(s, t) ==
    /\ At(s, "idle") /\ local[t] # None /\ calls < MaxCalls /\ calls' = calls + 1
    /\ call' = [call EXCEPT ![s] = [Idle EXCEPT !.pc = "push", !.task = t,
                                               !.copy = local[t], !.calm = {t}]]
    /\ UNCHANGED <<mode, local, remote, clock, syncs, mine, latest, settled, agreed, pushed, lost,
                   edits, faults>>

\* pushStatus: the provider takes the status, not the text
PushStatus(s) ==
    /\ At(s, "push")
    /\ LET t == call[s].task
       IN /\ remote' = [remote EXCEPT ![t].content.status = call[s].copy.content.status,
                                      ![t].updated = clock + 1]
          /\ call' = [Disturb(t) EXCEPT ![s] = [call[s] EXCEPT !.pc = "update"]]
          /\ pushed' = pushed \cup {t} /\ settled' = settled \ {t} /\ agreed' = agreed \ {t}
    /\ clock' = clock + 1
    /\ UNCHANGED <<mode, local, syncs, mine, latest, lost, calls, edits, faults>>

\* updateTask of the caller's copy
Update(s) ==
    /\ At(s, "update")
    /\ LET t == call[s].task
       IN /\ local' = [local EXCEPT ![t] = Synced(call[s].copy)]
          /\ call' = [Disturb(t) EXCEPT ![s] = Idle]
          /\ agreed' = IF t \in call[s].calm THEN agreed \cup {t} ELSE agreed \ {t}
          /\ settled' = settled \ {t} /\ lost' = Loses(s, t)
    /\ syncs' = syncs + 1
    /\ UNCHANGED <<mode, remote, clock, mine, latest, pushed, calls, edits, faults>>

\* fetchTasks, the store or pushStatus throws, and with it the call
Throws(s) ==
    /\ ~At(s, "idle") /\ faults < MaxFaults /\ faults' = faults + 1 /\ Ends(s)
    /\ UNCHANGED <<mode, local, remote, clock, syncs, mine, latest, settled, agreed, pushed, lost,
                   calls, edits>>

-----------------------------------------------------------------------------
(* People *)

EditLocal(t, c) ==
    /\ local[t] # None /\ c # local[t].content /\ edits < MaxEdits
    /\ local' = [local EXCEPT ![t].content = c, ![t].updated = clock + 1]
    /\ mine' = [mine EXCEPT ![t] = c] /\ lost' = lost \ {t}
    /\ UNCHANGED remote

EditRemote(t, c) ==
    /\ c # remote[t].content /\ edits < MaxEdits
    /\ remote' = [remote EXCEPT ![t].content = c, ![t].updated = clock + 1]
    /\ UNCHANGED <<local, mine, lost>>

Edit == /\ \E t \in Tasks, c \in Content :
             /\ EditLocal(t, c) \/ EditRemote(t, c)
             /\ latest' = [latest EXCEPT ![t] = c] /\ call' = Disturb(t)
             /\ settled' = settled \ {t} /\ agreed' = agreed \ {t}
        /\ clock' = clock + 1 /\ edits' = edits + 1
        /\ UNCHANGED <<mode, syncs, pushed, calls, faults>>

Next == \/ \E s \in Slots : Pull(s) \/ Find(s) \/ Save(s) \/ PushStatus(s) \/ Update(s) \/ Throws(s)
        \/ \E s \in Slots, t \in Tasks : Push(s, t)
        \/ Edit

Spec == Init /\ [][Next]_vars

-----------------------------------------------------------------------------
\* A pull that no edit of the task crossed leaves the store with what the rule
\* says: what was written here, what the provider has, or what was written last
\* on either side.  The last does not hold once the status was pushed: the push
\* dates the provider's text, and the next pull prefers it to a newer one here.
PullSettles ==
    \A t \in settled : LET l == local[t] IN
       /\ mode = "local-wins" /\ t \notin lost => l.content = mine[t]
       /\ mode = "provider-wins" => l.content = remote[t].content
       /\ mode = "newest-wins" /\ t \notin pushed \cup lost /\ l.updated # 0 =>
            l.content = latest[t]

\* Once a status was pushed, and until either side is edited, both sides have it,
\* whatever is pulled
PushAgrees == \A t \in agreed : local[t].content.status = remote[t].content.status

SyncInv == TypeOK /\ PullSettles /\ PushAgrees
=============================================================================
