------------------------ MODULE BoardReconcileProofs ------------------------
(***************************************************************************)
(* Any number of jobs, notes and people: what the plugin moves was shown and    *)
(* confirmed, a dragged card that was read is not lost, a drag is made once, and   *)
(* a job that is left alone does what it was asked and shows what is there.       *)
(***************************************************************************)
EXTENDS BoardReconcile, SequenceTheorems, TLAPS

\* What a job's local variables hold at each of its calls
Ready(l) ==
    /\ l \in Locals
    /\ \A c \in l.queue : c.lane \in Statuses
    /\ l.kind = "move" => /\ l.queue = {}
                          /\ l.pc \in {"guard", "rename", "collect", "write", "index", "done"}
    /\ l.pc \in {"reread", "guard", "rename"} => l.cur \in Cards /\ l.cur.lane \in Statuses
    /\ l.pc = "rename" => /\ l.buf \in Note
                          /\ l.buf.id = l.cur.id /\ l.buf.status = l.cur.status
    /\ l.pc \in {"notes", "collect"} => Len(l.recs) < NumPaths
    /\ l.pc = "write" => Len(l.recs) <= NumPaths
    /\ l.pc \notin {"notes", "collect", "write"} => l.recs = <<>>
    /\ l.pc \in {"collect", "write", "index"} => l.queue = {}

\* What is under way was confirmed, and nothing that was asked for is forgotten
Confirmed(l) ==
    l.kind = "obsidian" =>
        /\ l.pc \in {"pick", "reread", "guard", "rename"} => Keys(l.queue) \subseteq l.shown
        /\ l.pc \in {"reread", "guard", "rename"} =>
              /\ Key(l.cur) \in l.shown
              /\ {c \in l.cards : Dragged(c)} \subseteq l.queue \cup l.applied \cup {l.cur}
        /\ l.pc \in {"pick", "collect", "write", "index"} =>
              {c \in l.cards : Dragged(c)} \subseteq l.queue \cup l.applied

Sound(l) == Ready(l) /\ Confirmed(l)

IInv == TypeOK /\ \A j \in Jobs : Sound(job[j])

-----------------------------------------------------------------------------
(* The locals *)

\* Somebody else's write is news for a job, and nothing else
LEMMA CalmOrNot ==
    ASSUME NEW l, Sound(l)
    PROVE  Sound([l EXCEPT !.calm = FALSE])
<1> DEFINE m == [l EXCEPT !.calm = FALSE]
<1>1. /\ m \in Locals
      /\ m.kind = l.kind /\ m.pc = l.pc /\ m.cards = l.cards /\ m.recs = l.recs
      /\ m.shown = l.shown /\ m.queue = l.queue /\ m.cur = l.cur /\ m.buf = l.buf
      /\ m.applied = l.applied
      BY DEF Sound, Ready, Locals
<1> HIDE DEF m
<1>2. Sound(m)
      BY <1>1 DEF Sound, Ready, Confirmed
<1>3. QED
      BY <1>2 DEF m

\* A job that has ended holds nothing that could be wrong
LEMMA EndsWell ==
    ASSUME NEW l \in Locals, NEW r \in Results
    PROVE  Sound(Ends(l, r))
<1> DEFINE m == Ends(l, r)
<1> DEFINE cards == IF r = "applied" THEN l.cards ELSE {}
<1>0. m = [l EXCEPT !.pc = "done", !.result = r, !.recs = <<>>, !.queue = {}, !.cur = None,
                    !.buf = None, !.cards = cards]
      BY DEF Ends
<1>1. /\ m \in Locals
      /\ m.pc = "done" /\ m.queue = {} /\ m.recs = <<>>
  <2>1. cards \in SUBSET Cards /\ <<>> \in Seq(Note \cup {None}) /\ "done" \in Calls
        BY DEF Locals, Calls
  <2> HIDE DEF cards
  <2>2. QED
        BY <1>0, <2>1 DEF Locals
<1> HIDE DEF m
<1>2. Sound(m)
      BY <1>1 DEF Sound, Ready, Confirmed
<1>3. QED
      BY <1>2 DEF m

\* The card of a note
LEMMA CardIs ==
    ASSUME NEW p \in Paths, NEW n \in Note
    PROVE  Card(p, n) \in Cards /\ Card(p, n).lane = n.status /\ Card(p, n).status = n.status
BY DEF Card, Cards, Note, Lanes

\* What a rendering shows is cards
LEMMA RenderIs ==
    ASSUME NEW recs, DOMAIN recs \subseteq Paths, \A p \in DOMAIN recs : recs[p] \in Note \cup {None}
    PROVE  Render(recs) \subseteq Cards
BY CardIs DEF Render

\* The first records of a listing are at paths of the space
LEMMA RecordsArePaths ==
    ASSUME NEW recs \in Seq(Note \cup {None}), Len(recs) <= NumPaths
    PROVE  DOMAIN recs \subseteq Paths /\ \A p \in DOMAIN recs : recs[p] \in Note \cup {None}
BY BoardAssumption DEF Paths

\* What is proposed goes to a status, under an issue's id
LEMMA ProposalsAre ==
    ASSUME NEW cards \in SUBSET Cards, NEW recs
    PROVE  /\ Proposals(cards, recs) \subseteq cards
           /\ \A c \in Proposals(cards, recs) : c.lane \in Statuses
           /\ Keys(Proposals(cards, recs)) \subseteq Ids \X Paths \X Lanes \X Statuses
<1>1. ASSUME NEW c \in Proposals(cards, recs)
      PROVE  c \in cards /\ c.lane \in Statuses /\ c.id \in Ids
      BY DEF Proposals, Conflict, Cards
<1>2. ASSUME NEW c \in Proposals(cards, recs)
      PROVE  Key(c) \in Ids \X Paths \X Lanes \X Statuses
      BY <1>1 DEF Key, Cards
<1>3. QED
      BY <1>1, <1>2 DEF Keys

\* With no conflict on the board, every dragged card is proposed
LEMMA NothingIgnored ==
    ASSUME NEW cards, NEW recs, ~Conflicts(cards, recs)
    PROVE  {c \in cards : Dragged(c)} \subseteq Proposals(cards, recs)
BY DEF Conflicts, Proposals

\* The last note read: the call ends, or what was found awaits the button or is queued
LEMMA AfterListIsSound ==
    ASSUME NEW l \in Locals, l.pc = "notes", l.kind # "move",
           \A c \in l.queue : c.lane \in Statuses
    PROVE  Sound(AfterList(l))
<1> DEFINE found == Proposals(l.cards, l.recs)
           shows == [l EXCEPT !.shown = Keys(found), !.pc = "confirm", !.recs = <<>>, !.cards = {}]
           queues == [l EXCEPT !.queue = found, !.pc = "pick", !.recs = <<>>]
<1>1. /\ found \in SUBSET l.cards /\ found \in SUBSET Cards
      /\ \A c \in found : c.lane \in Statuses
      /\ Keys(found) \in SUBSET (Ids \X Paths \X Lanes \X Statuses)
      BY ProposalsAre DEF Locals
<1>2. <<>> \in Seq(Note \cup {None}) /\ {"confirm", "pick"} \subseteq Calls
      BY DEF Calls
<1>3. AfterList(l) = IF ~AsShown(l, found) THEN Ends(l, "threw")
                     ELSE IF Conflicts(l.cards, l.recs) THEN Ends(l, "conflicts")
                     ELSE IF l.kind = "dryRun" THEN Ends(l, "previewed")
                     ELSE IF l.kind = "obsidian" /\ l.shown = None THEN shows
                     ELSE queues
      BY DEF AfterList
<1>4. ~Conflicts(l.cards, l.recs) => {c \in l.cards : Dragged(c)} \subseteq found
      BY NothingIgnored
<1> HIDE DEF found
<1>5. Sound(Ends(l, "threw")) /\ Sound(Ends(l, "conflicts")) /\ Sound(Ends(l, "previewed"))
      BY EndsWell DEF Results
<1>6. ASSUME l.kind = "obsidian", l.shown = None
      PROVE  Sound(shows)
  <2>1. /\ shows \in Locals
        /\ shows.pc = "confirm" /\ shows.recs = <<>> /\ shows.queue = l.queue
        /\ shows.kind = l.kind
        BY <1>1, <1>2 DEF Locals
  <2> HIDE DEF shows
  <2>2. QED
        BY <1>6, <2>1 DEF Sound, Ready, Confirmed
<1>7. ASSUME AsShown(l, found), ~Conflicts(l.cards, l.recs),
             ~(l.kind = "obsidian" /\ l.shown = None)
      PROVE  Sound(queues)
  <2>1. /\ queues \in Locals
        /\ queues.pc = "pick" /\ queues.recs = <<>> /\ queues.queue = found
        /\ queues.kind = l.kind /\ queues.cards = l.cards /\ queues.shown = l.shown
        BY <1>1, <1>2 DEF Locals
  <2> HIDE DEF queues
  <2>2. l.kind = "obsidian" => l.shown = Keys(found)
        BY <1>7 DEF AsShown
  <2>3. QED
        BY <1>1, <1>4, <1>7, <2>1, <2>2 DEF Sound, Ready, Confirmed
<1>8. QED
      BY <1>3, <1>5, <1>6, <1>7

-----------------------------------------------------------------------------
(* The steps of the jobs *)

\* A job that goes on to sound locals changes nothing else
LEMMA GoesKeeps ==
    ASSUME IInv, NEW j \in Jobs, NEW l, Goes(j, l), Sound(l),
           edits' \in 0..MaxEdits, failures' \in 0..MaxFailures
    PROVE  IInv'
<1>1. l \in Locals
      BY DEF Sound, Ready
<1>2. job' \in [Jobs -> Locals] /\ \A k \in Jobs : Sound(job'[k])
      BY <1>1 DEF IInv, TypeOK, Goes
<1>3. TypeOK'
      BY <1>2 DEF IInv, TypeOK, Goes
<1>4. QED
      BY <1>2, <1>3 DEF IInv, Sound, Ready, Confirmed

\* One that writes tells the others, whose locals stay sound
LEMMA WritesKeeps ==
    ASSUME IInv, NEW j \in Jobs, NEW l, Writes(j, l), Sound(l)
    PROVE  job' \in [Jobs -> Locals] /\ \A k \in Jobs : Sound(job'[k])
<1>1. ASSUME NEW k \in Jobs PROVE Sound(IF k = j THEN l ELSE [job[k] EXCEPT !.calm = FALSE])
      BY CalmOrNot DEF IInv
<1>2. QED
      BY <1>1 DEF Writes, Sound, Ready

\* The board is read, or the call ends without it
LEMMA ReadBoardIsSound ==
    ASSUME IInv, NEW j \in Jobs, ReadBoard(j)
    PROVE  \E l : Goes(j, l) /\ Sound(l)
<1> DEFINE m == [job[j] EXCEPT !.cards = board, !.pc = "notes"]
<1>1. Sound(job[j]) /\ job[j] \in Locals /\ job[j].pc = "board" /\ job[j].recs = <<>>
      BY DEF IInv, Sound, Ready, ReadBoard, At
<1>2. CASE board # None
  <2>1. /\ m \in Locals
        /\ m.pc = "notes" /\ m.recs = <<>> /\ m.queue = job[j].queue
        /\ m.kind = job[j].kind
        BY <1>1, <1>2 DEF IInv, TypeOK, Locals, Calls
  <2>2. Goes(j, m)
        BY <1>2 DEF ReadBoard
  <2> HIDE DEF m
  <2>3. Sound(m)
        BY <1>1, <2>1, BoardAssumption DEF Sound, Ready, Confirmed
  <2>4. QED
        BY <2>2, <2>3
<1>3. CASE board = None
      BY <1>1, <1>3, EndsWell DEF ReadBoard, Results
<1>4. QED
      BY <1>2, <1>3

\* A note is appended to those read
LEMMA ReadNoteIsSound ==
    ASSUME IInv, NEW j \in Jobs, ReadNote(j)
    PROVE  \E l : Goes(j, l) /\ Sound(l)
<1> DEFINE n == notes[Len(job[j].recs) + 1]
           m == [job[j] EXCEPT !.recs = Append(job[j].recs, n)]
<1>1. /\ Sound(job[j]) /\ job[j] \in Locals
      /\ job[j].pc = "notes" /\ Len(job[j].recs) < NumPaths
      BY DEF IInv, Sound, Ready, ReadNote, At
<1>2. job[j].recs \in Seq(Note \cup {None}) /\ Len(job[j].recs) \in Nat
      BY <1>1 DEF Locals
<1>3. n \in Note \cup {None}
      BY <1>1, <1>2, BoardAssumption DEF IInv, TypeOK, Paths
<1>4. /\ Append(job[j].recs, n) \in Seq(Note \cup {None})
      /\ Len(Append(job[j].recs, n)) = Len(job[j].recs) + 1
      BY <1>2, <1>3
<1>5. Goes(j, IF Len(m.recs) = NumPaths THEN AfterList(m) ELSE m)
      BY DEF ReadNote
<1> HIDE DEF n
<1>6. /\ m \in Locals
      /\ m.pc = "notes" /\ m.queue = job[j].queue /\ m.kind = job[j].kind
      /\ Len(m.recs) = Len(job[j].recs) + 1
      BY <1>1, <1>4 DEF Locals
<1> HIDE DEF m
<1>7. Sound(AfterList(m))
      BY <1>1, <1>6, AfterListIsSound DEF Sound, Ready
<1>8. Len(m.recs) # NumPaths => Sound(m)
      BY <1>1, <1>2, <1>6, BoardAssumption DEF Sound, Ready, Confirmed
<1>9. QED
      BY <1>5, <1>7, <1>8

\* A proposal is taken, or none is left
LEMMA PickIsSound ==
    ASSUME IInv, NEW j \in Jobs, Pick(j)
    PROVE  \E l : Goes(j, l) /\ Sound(l)
<1>1. /\ Sound(job[j]) /\ job[j] \in Locals
      /\ job[j].pc = "pick" /\ job[j].recs = <<>>
      BY DEF IInv, Sound, Ready, Pick, At
<1>2. ASSUME NEW c \in job[j].queue,
             Goes(j, [job[j] EXCEPT !.queue = @ \ {c}, !.cur = c,
                        !.pc = IF job[j].kind = "obsidian" THEN "reread" ELSE "guard"])
      PROVE  \E l : Goes(j, l) /\ Sound(l)
  <2> DEFINE call == IF job[j].kind = "obsidian" THEN "reread" ELSE "guard"
             m == [job[j] EXCEPT !.queue = job[j].queue \ {c}, !.cur = c, !.pc = call]
  <2>1. Goes(j, m)
        BY <1>2
  <2>2. call \in {"reread", "guard"} /\ call \in Calls /\ c \in Cards
        BY <1>1 DEF Calls, Locals
  <2> HIDE DEF call
  <2>3. /\ m \in Locals
        /\ m.kind = job[j].kind /\ m.pc = call /\ m.recs = <<>> /\ m.cards = job[j].cards
        /\ m.shown = job[j].shown /\ m.applied = job[j].applied
        /\ m.queue = job[j].queue \ {c} /\ m.cur = c
        BY <1>1, <2>2 DEF Locals
  <2> HIDE DEF m
  <2>4. Ready(m)
        BY <1>1, <1>2, <2>2, <2>3 DEF Sound, Ready
  <2>5. Confirmed(m)
        BY <1>1, <1>2, <2>2, <2>3 DEF Sound, Confirmed, Keys
  <2>6. QED
        BY <2>1, <2>4, <2>5 DEF Sound
<1>3. ASSUME job[j].queue = {},
             Goes(j, IF job[j].kind = "obsidian" THEN [job[j] EXCEPT !.pc = "collect"]
                                                 ELSE Ends(job[j], "applied"))
      PROVE  \E l : Goes(j, l) /\ Sound(l)
  <2> DEFINE m == [job[j] EXCEPT !.pc = "collect"]
  <2>1. /\ m \in Locals
        /\ m.kind = job[j].kind /\ m.pc = "collect" /\ m.recs = <<>> /\ m.cards = job[j].cards
        /\ m.applied = job[j].applied /\ m.queue = {}
        BY <1>1, <1>3 DEF Locals, Calls
  <2> HIDE DEF m
  <2>2. Sound(m)
        BY <1>1, <1>3, <2>1, BoardAssumption DEF Sound, Ready, Confirmed
  <2>3. Sound(Ends(job[j], "applied"))
        BY <1>1, EndsWell DEF Results
  <2>4. QED
        BY <1>3, <2>2, <2>3 DEF m
<1>4. QED
      BY <1>2, <1>3 DEF Pick

\* The note is still the one of the card
LEMMA RereadIsSound ==
    ASSUME IInv, NEW j \in Jobs, Reread(j)
    PROVE  \E l : Goes(j, l) /\ Sound(l)
<1> DEFINE m == [job[j] EXCEPT !.pc = "guard"]
<1>1. Sound(job[j]) /\ job[j] \in Locals /\ job[j].pc = "reread"
      BY DEF IInv, Sound, Ready, Reread, At
<1>2. Goes(j, m) \/ Goes(j, Ends(job[j], "threw"))
      BY DEF Reread
<1>3. /\ m \in Locals
      /\ m.kind = job[j].kind /\ m.pc = "guard" /\ m.recs = job[j].recs
      /\ m.cards = job[j].cards /\ m.shown = job[j].shown /\ m.applied = job[j].applied
      /\ m.queue = job[j].queue /\ m.cur = job[j].cur
      BY <1>1 DEF Locals, Calls
<1> HIDE DEF m
<1>4. Sound(m)
      BY <1>1, <1>3 DEF Sound, Ready, Confirmed
<1>5. Sound(Ends(job[j], "threw"))
      BY <1>1, EndsWell DEF Results
<1>6. QED
      BY <1>2, <1>4, <1>5

\* The text to write is made from the note the engine was given
LEMMA GuardIsSound ==
    ASSUME IInv, NEW j \in Jobs, Guard(j)
    PROVE  \E l : Goes(j, l) /\ Sound(l)
<1> DEFINE n == notes[job[j].cur.source]
           m == [job[j] EXCEPT !.pc = "rename", !.buf = n]
<1>1. /\ Sound(job[j]) /\ job[j] \in Locals /\ job[j].pc = "guard"
      /\ job[j].cur \in Cards
      BY DEF IInv, Sound, Ready, Guard, At
<1>2. Goes(j, IF Fresh(j) THEN m ELSE Ends(job[j], "threw"))
      BY DEF Guard
<1>3. Sound(Ends(job[j], "threw"))
      BY <1>1, EndsWell DEF Results
<1>4. ASSUME Fresh(j) PROVE Sound(m)
  <2>1. n \in Note /\ n.id = job[j].cur.id /\ n.status = job[j].cur.status
        BY <1>1, <1>4 DEF Fresh, IInv, TypeOK, Cards
  <2> HIDE DEF n
  <2>2. /\ m \in Locals
        /\ m.kind = job[j].kind /\ m.pc = "rename" /\ m.recs = job[j].recs
        /\ m.cards = job[j].cards /\ m.shown = job[j].shown /\ m.applied = job[j].applied
        /\ m.queue = job[j].queue /\ m.cur = job[j].cur /\ m.buf = n
        BY <1>1, <2>1 DEF Locals, Calls
  <2> HIDE DEF m
  <2>3. Sound(m)
        BY <1>1, <2>1, <2>2 DEF Sound, Ready, Confirmed
  <2>4. QED
        BY <2>3
<1>5. QED
      BY <1>2, <1>3, <1>4

\* The note has the status of the card's lane, and the card is applied
LEMMA RenameKeeps ==
    ASSUME IInv, NEW j \in Jobs, Rename(j), UNCHANGED <<edits, failures>>
    PROVE  IInv'
<1> DEFINE c == job[j].cur
           call == IF job[j].kind = "move" THEN "collect" ELSE "pick"
           m == [job[j] EXCEPT !.applied = job[j].applied \cup {c}, !.cur = None, !.buf = None,
                               !.pc = call]
           n == [job[j].buf EXCEPT !.status = c.lane, !.updated = clock + 1]
<1>1. /\ Sound(job[j]) /\ job[j] \in Locals /\ job[j].pc = "rename" /\ job[j].recs = <<>>
      /\ c \in Cards /\ c.lane \in Statuses /\ job[j].buf \in Note
      BY DEF IInv, Sound, Ready, Rename, At
<1>2. n \in Note
  <2>1. clock + 1 \in Nat
        BY DEF IInv, TypeOK
  <2>2. \A b \in Note, s \in Statuses, u \in Nat : [b EXCEPT !.status = s, !.updated = u] \in Note
        BY DEF Note
  <2>3. QED
        BY <1>1, <2>1, <2>2
<1>3. notes' \in [Paths -> Note \cup {None}] /\ moved' \subseteq Cards /\ clock' \in Nat
  <2>1. notes' = [notes EXCEPT ![c.source] = n] /\ moved' = moved \cup {c} /\ clock' = clock + 1
        BY DEF Rename
  <2>2. notes \in [Paths -> Note \cup {None}] /\ moved \subseteq Cards /\ clock \in Nat
        BY DEF IInv, TypeOK
  <2> HIDE DEF n, c
  <2>3. notes' \in [Paths -> Note \cup {None}]
        BY <1>2, <2>1, <2>2
  <2>4. moved' \subseteq Cards
        BY <1>1, <2>1, <2>2
  <2>5. clock' \in Nat
        BY <2>1, <2>2
  <2>6. QED
        BY <2>3, <2>4, <2>5
<1>4. call \in {"collect", "pick"} /\ call \in Calls /\ (call = "collect" <=> job[j].kind = "move")
      BY DEF Calls
<1>5. Writes(j, m)
      BY DEF Rename
<1> HIDE DEF call
<1>6. /\ m \in Locals
      /\ m.kind = job[j].kind /\ m.pc = call /\ m.recs = <<>> /\ m.cards = job[j].cards
      /\ m.shown = job[j].shown /\ m.applied = job[j].applied \cup {c}
      /\ m.queue = job[j].queue
      BY <1>1, <1>4 DEF Locals
<1> HIDE DEF m
<1>7. Sound(m)
      BY <1>1, <1>4, <1>6, BoardAssumption DEF Sound, Ready, Confirmed
<1>8. job' \in [Jobs -> Locals] /\ \A k \in Jobs : Sound(job'[k])
      BY <1>5, <1>7, WritesKeeps
<1>9. TypeOK'
      BY <1>3, <1>8 DEF IInv, TypeOK, Rename
<1>10. QED
      BY <1>8, <1>9 DEF IInv, Sound, Ready, Confirmed

\* A note is appended to those the board will show
LEMMA CollectIsSound ==
    ASSUME IInv, NEW j \in Jobs, Collect(j)
    PROVE  \E l : Goes(j, l) /\ Sound(l)
<1> DEFINE n == notes[Len(job[j].recs) + 1]
           recs == Append(job[j].recs, n)
           call == IF Len(recs) = NumPaths THEN "write" ELSE "collect"
           m == [job[j] EXCEPT !.recs = recs, !.pc = call]
<1>1. /\ Sound(job[j]) /\ job[j] \in Locals
      /\ job[j].pc = "collect" /\ Len(job[j].recs) < NumPaths
      BY DEF IInv, Sound, Ready, Collect, At
<1>2. job[j].recs \in Seq(Note \cup {None}) /\ Len(job[j].recs) \in Nat
      BY <1>1 DEF Locals
<1>3. n \in Note \cup {None}
      BY <1>1, <1>2, BoardAssumption DEF IInv, TypeOK, Paths
<1>4. Goes(j, m)
      BY DEF Collect
<1> HIDE DEF n
<1>5. recs \in Seq(Note \cup {None}) /\ Len(recs) = Len(job[j].recs) + 1
      BY <1>2, <1>3
<1> HIDE DEF recs
<1>6. call \in {"write", "collect"} /\ call \in Calls /\ Len(recs) <= NumPaths
      /\ (call = "collect" => Len(recs) < NumPaths)
      BY <1>1, <1>2, <1>5, BoardAssumption DEF Calls
<1> HIDE DEF call
<1>7. /\ m \in Locals
      /\ m.kind = job[j].kind /\ m.pc = call /\ m.recs = recs /\ m.cards = job[j].cards
      /\ m.applied = job[j].applied /\ m.queue = job[j].queue
      BY <1>1, <1>5, <1>6 DEF Locals
<1> HIDE DEF m
<1>8. Sound(m)
      BY <1>1, <1>6, <1>7 DEF Sound, Ready, Confirmed
<1>9. QED
      BY <1>4, <1>8

\* The board shows the notes that were collected
LEMMA WriteBoardKeeps ==
    ASSUME IInv, NEW j \in Jobs, WriteBoard(j), UNCHANGED <<edits, failures>>
    PROVE  IInv'
<1> DEFINE m == [job[j] EXCEPT !.pc = "index", !.recs = <<>>]
<1>1. /\ Sound(job[j]) /\ job[j] \in Locals
      /\ job[j].pc = "write" /\ Len(job[j].recs) <= NumPaths
      BY DEF IInv, Sound, Ready, WriteBoard, At
<1>2. board' \subseteq Cards
  <2>1. job[j].recs \in Seq(Note \cup {None})
        BY <1>1 DEF Locals
  <2>2. QED
        BY <1>1, <2>1, RecordsArePaths, RenderIs DEF WriteBoard
<1>3. Writes(j, m)
      BY DEF WriteBoard
<1>4. /\ m \in Locals
      /\ m.kind = job[j].kind /\ m.pc = "index" /\ m.recs = <<>> /\ m.cards = job[j].cards
      /\ m.applied = job[j].applied /\ m.queue = job[j].queue
  <2>1. "index" \in Calls /\ <<>> \in Seq(Note \cup {None})
        BY DEF Calls
  <2>2. QED
        BY <1>1, <2>1 DEF Locals
<1> HIDE DEF m
<1>5. Sound(m)
      BY <1>1, <1>4 DEF Sound, Ready, Confirmed
<1>6. job' \in [Jobs -> Locals] /\ \A k \in Jobs : Sound(job'[k])
      BY <1>3, <1>5, WritesKeeps
<1>7. TypeOK'
      BY <1>2, <1>6 DEF IInv, TypeOK, WriteBoard
<1>8. QED
      BY <1>6, <1>7 DEF IInv, Sound, Ready, Confirmed

\* What a job holds before it is called
LEMMA IdleIs == Idle \in Locals /\ Idle.recs = <<>> /\ Idle.queue = {}
<1>1. /\ {"idle"} \subseteq Calls /\ <<>> \in Seq(Note \cup {None})
      /\ "dryRun" \in Kinds /\ "none" \in Results
      BY DEF Calls, Kinds, Results
<1>2. QED
      BY <1>1 DEF Idle, Locals

\* A call starts with nothing in hand
LEMMA BeginIsSound ==
    ASSUME NEW j \in Jobs, NEW kind \in Kinds, Begin(j, kind)
    PROVE  \E l : Goes(j, l) /\ Sound(l)
<1> DEFINE call == IF kind = "board" THEN "collect" ELSE "board"
           m == [Idle EXCEPT !.kind = kind, !.pc = call]
<1>1. Goes(j, m) /\ kind # "move"
      BY DEF Begin
<1>2. call \in {"collect", "board"} /\ call \in Calls /\ (kind = "obsidian" => call = "board")
      BY DEF Calls
<1> HIDE DEF call
<1>3. /\ m \in Locals
      /\ m.kind = kind /\ m.pc = call /\ m.recs = <<>> /\ m.queue = {}
      BY <1>2, IdleIs DEF Locals
<1> HIDE DEF m
<1>4. Len(<<>>) < NumPaths
      BY BoardAssumption
<1>5. Sound(m)
      BY <1>1, <1>2, <1>3, <1>4 DEF Sound, Ready, Confirmed
<1>6. QED
      BY <1>1, <1>5

\* ... but the one note it is to move, as it is
LEMMA BeginMoveIsSound ==
    ASSUME IInv, NEW j \in Jobs, NEW p \in Paths, NEW lane \in Statuses, BeginMove(j, p, lane)
    PROVE  \E l : Goes(j, l) /\ Sound(l)
<1> DEFINE n == notes[p]
           c == [Card(p, n) EXCEPT !.lane = lane]
           l0 == [Idle EXCEPT !.kind = "move", !.cur = c]
           call == IF n.status = lane THEN "collect" ELSE "guard"
           m == [l0 EXCEPT !.pc = call]
<1>1. n \in Note
      BY DEF BeginMove, IInv, TypeOK
<1>2. \/ Goes(j, Ends(l0, "threw"))
      \/ Goes(j, m)
      BY DEF BeginMove
<1> HIDE DEF n
<1>3. c \in Cards /\ c.lane = lane
      BY <1>1, CardIs DEF Cards, Lanes
<1>4. call \in {"collect", "guard"} /\ call \in Calls
      BY DEF Calls
<1> HIDE DEF c, call
<1>5. l0 \in Locals
      BY <1>3, IdleIs DEF Locals, Kinds
<1>6. /\ m \in Locals
      /\ m.kind = "move" /\ m.pc = call /\ m.recs = <<>> /\ m.queue = {} /\ m.cur = c
      BY <1>3, <1>4, IdleIs DEF Locals, Kinds
<1> HIDE DEF m, l0
<1>7. Len(<<>>) < NumPaths
      BY BoardAssumption
<1>8. Sound(m)
      BY <1>3, <1>4, <1>6, <1>7 DEF Sound, Ready, Confirmed
<1>9. Sound(Ends(l0, "threw"))
      BY <1>5, EndsWell DEF Results
<1>10. QED
      BY <1>2, <1>8, <1>9

\* The button: everything is read anew
LEMMA ConfirmIsSound ==
    ASSUME IInv, NEW j \in Jobs, Confirm(j)
    PROVE  \E l : Goes(j, l) /\ Sound(l)
<1> DEFINE m == [job[j] EXCEPT !.pc = "board", !.result = "none", !.cards = {},
                               !.applied = {}, !.calm = TRUE]
<1>1. /\ Sound(job[j]) /\ job[j] \in Locals /\ job[j].pc \in {"confirm", "done"}
      /\ job[j].kind # "move" /\ job[j].recs = <<>>
      BY DEF IInv, Sound, Ready, Confirm, At
<1>2. Goes(j, m)
      BY DEF Confirm
<1>3. /\ m \in Locals
      /\ m.kind = job[j].kind /\ m.pc = "board" /\ m.recs = <<>> /\ m.queue = job[j].queue
      BY <1>1 DEF Locals, Calls, Results
<1> HIDE DEF m
<1>4. Sound(m)
      BY <1>1, <1>3 DEF Sound, Ready, Confirmed
<1>5. QED
      BY <1>2, <1>4

-----------------------------------------------------------------------------
(* The invariant *)

\* People and other commands leave notes, a board and the jobs' locals behind
LEMMA DisturbKeeps == IInv /\ Disturb => IInv'
<1> SUFFICES ASSUME IInv, Disturb PROVE IInv'
    OBVIOUS
<1>1. /\ notes \in [Paths -> Note \cup {None}] /\ (board = None \/ board \subseteq Cards)
      /\ moved \subseteq Cards /\ clock \in Nat /\ edits \in 0..MaxEdits
      /\ failures \in 0..MaxFailures
      BY DEF IInv, TypeOK
<1>2. \A k \in Jobs : Sound(job'[k])
      BY CalmOrNot DEF IInv, Disturb
<1>3. job' \in [Jobs -> Locals]
      BY <1>2 DEF Disturb, Sound, Ready
<1>4. edits' \in 0..MaxEdits /\ failures' = failures
      BY <1>1, BoardAssumption DEF Disturb
<1>5. CASE EditBoard
  <2>1. \A c \in Cards : /\ \A lane \in Lanes : [c EXCEPT !.lane = lane] \in Cards
                         /\ [c EXCEPT !.copy = TRUE] \in Cards /\ [c EXCEPT !.id = None] \in Cards
        BY DEF Cards
  <2>2. Targets \subseteq Lanes
        BY BoardAssumption DEF Lanes
  <2>3. board' \subseteq Cards
    <3>1. board \subseteq Cards
          BY <1>1, <1>5 DEF EditBoard
    <3>2. CASE board' \in Drags(board)
      <4>1. PICK c \in board, lane \in Targets :
              board' = (board \ {c}) \cup {[c EXCEPT !.lane = lane]}
            BY <3>2 DEF Drags
      <4>2. [c EXCEPT !.lane = lane] \in Cards
            BY <2>1, <2>2, <3>1
      <4>3. QED
            BY <3>1, <4>1, <4>2
    <3>3. ASSUME NEW c \in board,
                 board' \in {board \cup {[c EXCEPT !.copy = TRUE]}, board \ {c},
                            (board \ {c}) \cup {[c EXCEPT !.id = None]}}
          PROVE  board' \subseteq Cards
          BY <2>1, <3>1, <3>3
    <3>4. QED
          BY <1>5, <3>2, <3>3 DEF EditBoard
  <2>4. QED
        BY <1>1, <1>2, <1>3, <1>4, <1>5, <2>3 DEF EditBoard, IInv, TypeOK, Sound, Ready, Confirmed
<1>6. CASE EditNote
  <2>1. \A n \in Note, title \in Titles : [n EXCEPT !.title = title] \in Note
        BY DEF Note
  <2>2. notes' \in [Paths -> Note \cup {None}] /\ moved' \subseteq Cards
        BY <1>1, <1>6, <2>1 DEF EditNote
  <2>3. QED
        BY <1>1, <1>2, <1>3, <1>4, <1>6, <2>2 DEF EditNote, IInv, TypeOK, Sound, Ready, Confirmed
<1>7. CASE MoveNote
  <2>1. \A n \in Note, status \in Statuses, u \in Nat :
          [n EXCEPT !.status = status, !.updated = u] \in Note
        BY DEF Note
  <2>2. PICK p \in Paths, status \in Statuses :
          /\ notes[p] # None
          /\ notes' = [notes EXCEPT ![p].status = status, ![p].updated = clock + 1]
        BY <1>7 DEF MoveNote
  <2> DEFINE n == [notes[p] EXCEPT !.status = status, !.updated = clock + 1]
  <2>3. n \in Note /\ clock' \in Nat
    <3>1. notes[p] \in Note /\ clock + 1 \in Nat /\ clock' = clock + 1
          BY <1>1, <1>7, <2>2 DEF MoveNote
    <3>2. QED
          BY <2>1, <3>1
  <2>4. notes' \in [Paths -> Note \cup {None}] /\ clock' \in Nat
    <3>1. notes' = [notes EXCEPT ![p] = n]
          BY <1>1, <2>2
    <3> HIDE DEF n
    <3>2. QED
          BY <1>1, <2>3, <3>1
  <2>5. QED
        BY <1>1, <1>2, <1>3, <1>4, <1>7, <2>4 DEF MoveNote, IInv, TypeOK, Sound, Ready, Confirmed
<1>8. QED
      BY <1>5, <1>6, <1>7 DEF Disturb

\* A space of notes, a board that was rendered from them or none, and no call yet
LEMMA BoardInit == Init => IInv
<1> SUFFICES ASSUME Init PROVE IInv
    OBVIOUS
<1>1. notes \in [Paths -> Note \cup {None}]
  <2>1. PICK title \in Titles :
          notes \in [Paths -> [id : Ids, status : Start, title : {title}, updated : {0}]
                              \cup {None}]
        BY DEF Init
  <2>2. [id : Ids, status : Start, title : {title}, updated : {0}] \subseteq Note
        BY BoardAssumption DEF Note
  <2>3. QED
        BY <2>1, <2>2
<1>2. board = None \/ board \subseteq Cards
  <2>1. Render(notes) \subseteq Cards
        BY <1>1, RenderIs
  <2>2. CASE board \in Drags(Render(notes))
    <3>1. PICK c \in Render(notes), lane \in Targets :
            board = (Render(notes) \ {c}) \cup {[c EXCEPT !.lane = lane]}
          BY <2>2 DEF Drags
    <3>2. lane \in Lanes /\ c \in Cards
          BY <2>1, BoardAssumption DEF Lanes
    <3>3. [c EXCEPT !.lane = lane] \in Cards
          BY <3>2 DEF Cards
    <3>4. QED
          BY <2>1, <3>1, <3>3
  <2>3. QED
        BY <2>1, <2>2 DEF Init
<1>3. Idle \in Locals /\ Sound(Idle)
      BY IdleIs DEF Sound, Ready, Confirmed, Idle
<1>4. TypeOK
      BY <1>1, <1>2, <1>3, BoardAssumption DEF Init, TypeOK
<1>5. QED
      BY <1>3, <1>4 DEF Init, IInv

\* Every step keeps the invariant
LEMMA BoardStep == IInv /\ [Next]_vars => IInv'
<1> SUFFICES ASSUME IInv, [Next]_vars PROVE IInv'
    OBVIOUS
<1>1. edits \in 0..MaxEdits /\ failures \in 0..MaxFailures
      BY DEF IInv, TypeOK
<1>2. ASSUME NEW j \in Jobs, Called(j) PROVE IInv'
  <2>1. \E l : Goes(j, l) /\ Sound(l)
        BY <1>2, BeginIsSound, BeginMoveIsSound, ConfirmIsSound DEF Called
  <2>2. QED
        BY <1>1, <1>2, <2>1, GoesKeeps DEF Called
<1>3. ASSUME NEW j \in Jobs, Step(j) PROVE IInv'
  <2>1. CASE ReadBoard(j) \/ ReadNote(j) \/ Pick(j) \/ Reread(j) \/ Guard(j) \/ Collect(j)
    <3>1. \E l : Goes(j, l) /\ Sound(l)
          BY <2>1, ReadBoardIsSound, ReadNoteIsSound, PickIsSound, RereadIsSound, GuardIsSound,
             CollectIsSound
    <3>2. QED
          BY <1>1, <1>3, <3>1, GoesKeeps DEF Step
  <2>2. CASE WriteIndex(j)
    <3>1. Goes(j, Ends(job[j], "applied"))
          BY <2>2 DEF WriteIndex
    <3>2. Sound(Ends(job[j], "applied"))
          BY EndsWell DEF IInv, TypeOK, Results
    <3>3. QED
          BY <1>1, <1>3, <3>1, <3>2, GoesKeeps DEF Step
  <2>3. CASE Rename(j)
        BY <1>3, <2>3, RenameKeeps DEF Step
  <2>4. CASE WriteBoard(j)
        BY <1>3, <2>4, WriteBoardKeeps DEF Step
  <2>5. QED
        BY <1>3, <2>1, <2>2, <2>3, <2>4 DEF Step
<1>4. ASSUME NEW j \in Jobs, Fail(j) PROVE IInv'
  <2>1. \E r \in Results : Goes(j, Ends(job[j], r))
        BY <1>4 DEF Fail, Results
  <2>2. \A r \in Results : Sound(Ends(job[j], r))
        BY EndsWell DEF IInv, TypeOK
  <2>3. edits' \in 0..MaxEdits /\ failures' \in 0..MaxFailures
        BY <1>1, <1>4, BoardAssumption DEF Fail
  <2>4. QED
        BY <2>1, <2>2, <2>3, GoesKeeps
<1>5. CASE Disturb
      BY <1>5, DisturbKeeps
<1>6. CASE UNCHANGED vars
      BY <1>6 DEF vars, IInv, TypeOK, Sound, Ready, Confirmed
<1>7. QED
      BY <1>2, <1>3, <1>4, <1>5, <1>6 DEF Next

\* The invariant, of every state
LEMMA BoardAlways == Spec => []IInv
BY BoardInit, BoardStep, PTL DEF Spec

\* No step but the replacement of the note's file makes a card an applied one
LEMMA OnlyRenameApplies ==
    ASSUME IInv, [Next]_vars, NEW j \in Jobs, NEW c \in job'[j].applied, c \notin job[j].applied
    PROVE  Rename(j) /\ c = job[j].cur
<1> DEFINE Same(k) == \E l : Goes(k, l) /\ l.applied \in {{}, job[k].applied}
<1>1. job \in [Jobs -> Locals]
      BY DEF IInv, TypeOK
<1>2. ASSUME NEW k \in Jobs, Same(k) PROVE FALSE
      BY <1>1, <1>2 DEF Goes
<1>3. \A l \in Locals : \A r : Ends(l, r).applied = l.applied
      BY DEF Ends, Locals
<1>4. ASSUME NEW m \in Locals PROVE AfterList(m).applied = m.applied
  <2>1. \A found : /\ [m EXCEPT !.shown = Keys(found), !.pc = "confirm",
                               !.recs = <<>>, !.cards = {}].applied = m.applied
                  /\ [m EXCEPT !.queue = found, !.pc = "pick", !.recs = <<>>].applied = m.applied
        BY DEF Locals
  <2>2. QED
        BY <1>3, <2>1 DEF AfterList
<1>5. Idle \in Locals /\ Idle.applied = {}
      BY IdleIs DEF Idle
<1>6. ASSUME NEW k \in Jobs, Called(k) PROVE FALSE
  <2>1. CASE \E kind \in Kinds : Begin(k, kind)
    <3>1. \A kind \in Kinds, pc \in Calls : [Idle EXCEPT !.kind = kind, !.pc = pc].applied = {}
          BY <1>5 DEF Locals
    <3>2. Same(k)
          BY <2>1, <3>1 DEF Begin, Calls
    <3>3. QED
          BY <1>2, <3>2
  <2>2. CASE \E p \in Paths, lane \in Targets \cap Statuses : BeginMove(k, p, lane)
    <3>1. PICK p \in Paths, lane \in Targets \cap Statuses : BeginMove(k, p, lane)
          BY <2>2
    <3> DEFINE l == [Idle EXCEPT !.kind = "move", !.cur = [Card(p, notes[p]) EXCEPT !.lane = lane]]
    <3>2. Goes(k, Ends(l, "threw")) \/ \E pc : Goes(k, [l EXCEPT !.pc = pc])
          BY <3>1 DEF BeginMove
    <3>3. \A pc : [l EXCEPT !.pc = pc].applied = {}
          BY <1>5 DEF Idle
    <3>4. Ends(l, "threw").applied = {}
          BY <1>5 DEF Idle, Ends
    <3> HIDE DEF l
    <3>5. QED
          BY <1>2, <3>2, <3>3, <3>4
  <2>3. CASE Confirm(k)
    <3> DEFINE m == [job[k] EXCEPT !.pc = "board", !.result = "none", !.cards = {},
                                   !.applied = {}, !.calm = TRUE]
    <3>1. Goes(k, m)
          BY <2>3 DEF Confirm
    <3>2. m.applied = {}
          BY <1>1 DEF Locals
    <3>3. QED
          BY <1>2, <3>1, <3>2
  <2>4. QED
        BY <1>6, <2>1, <2>2, <2>3 DEF Called
<1>7. ASSUME NEW k \in Jobs, Step(k), ~Rename(k) PROVE FALSE
  <2> DEFINE l == job[k]
  <2>1. l \in Locals
        BY <1>1
  <2>2. CASE ReadBoard(k)
    <3> DEFINE m == [l EXCEPT !.cards = board, !.pc = "notes"]
    <3>1. Goes(k, m) \/ \E r : Goes(k, Ends(l, r))
          BY <2>2 DEF ReadBoard
    <3>2. m.applied = l.applied
          BY <2>1 DEF Locals
    <3> HIDE DEF m
    <3>3. QED
          BY <1>2, <1>3, <2>1, <3>1, <3>2
  <2>3. CASE ReadNote(k)
    <3> DEFINE n == notes[Len(l.recs) + 1]
               m == [l EXCEPT !.recs = Append(l.recs, n)]
    <3>1. Goes(k, m) \/ Goes(k, AfterList(m))
          BY <2>3 DEF ReadNote
    <3>2. Append(l.recs, n) \in Seq(Note \cup {None})
      <4>1. l.recs \in Seq(Note \cup {None}) /\ Len(l.recs) \in Nat /\ Len(l.recs) < NumPaths
            BY <2>1, <2>3 DEF Locals, IInv, Sound, Ready, ReadNote, At
      <4>2. n \in Note \cup {None}
            BY <4>1, BoardAssumption DEF IInv, TypeOK, Paths
      <4>3. QED
            BY <4>1, <4>2
    <3>3. m \in Locals /\ m.applied = l.applied
          BY <2>1, <3>2 DEF Locals
    <3>4. AfterList(m).applied = m.applied
          BY <1>4, <3>3
    <3> HIDE DEF m
    <3>5. QED
          BY <1>2, <3>1, <3>3, <3>4
  <2>4. CASE Pick(k)
    <3>1. \/ \E c1 \in l.queue : \E pc :
               Goes(k, [l EXCEPT !.queue = l.queue \ {c1}, !.cur = c1, !.pc = pc])
          \/ Goes(k, [l EXCEPT !.pc = "collect"])
          \/ Goes(k, Ends(l, "applied"))
          BY <2>1, <2>4 DEF Pick, Locals
    <3>2. /\ [l EXCEPT !.pc = "collect"].applied = l.applied
          /\ \A q, c1, pc : [l EXCEPT !.queue = q, !.cur = c1, !.pc = pc].applied = l.applied
          BY <2>1 DEF Locals
    <3>3. ASSUME NEW m, Goes(k, m), m.applied = l.applied PROVE FALSE
          BY <1>2, <3>3
    <3>4. ASSUME NEW c1 \in l.queue, NEW pc1,
                 Goes(k, [l EXCEPT !.queue = l.queue \ {c1}, !.cur = c1, !.pc = pc1])
          PROVE  FALSE
      <4>1. [l EXCEPT !.queue = l.queue \ {c1}, !.cur = c1, !.pc = pc1].applied = l.applied
            BY <3>2
      <4>2. QED
            BY <3>3, <3>4, <4>1
    <3>5. QED
          BY <1>3, <2>1, <3>1, <3>2, <3>3, <3>4
  <2>5. CASE Reread(k) \/ Guard(k)
    <3>1. \/ \E n, pc : Goes(k, [l EXCEPT !.pc = pc, !.buf = n])
          \/ Goes(k, [l EXCEPT !.pc = "guard"])
          \/ Goes(k, Ends(l, "threw"))
          BY <2>5 DEF Reread, Guard
    <3>2. /\ [l EXCEPT !.pc = "guard"].applied = l.applied
          /\ \A n, pc : [l EXCEPT !.pc = pc, !.buf = n].applied = l.applied
          BY <2>1 DEF Locals
    <3>3. ASSUME NEW m, Goes(k, m), m.applied = l.applied PROVE FALSE
          BY <1>2, <3>3
    <3>4. QED
          BY <1>3, <2>1, <3>1, <3>2, <3>3
  <2>6. CASE Collect(k)
    <3>1. \E recs, pc : Goes(k, [l EXCEPT !.recs = recs, !.pc = pc])
          BY <2>6 DEF Collect
    <3>2. \A recs, pc : [l EXCEPT !.recs = recs, !.pc = pc].applied = l.applied
          BY <2>1 DEF Locals
    <3>3. QED
          BY <1>2, <3>1, <3>2
  <2>7. CASE WriteBoard(k)
        BY <1>1, <2>1, <2>7 DEF WriteBoard, Writes, Locals
  <2>8. CASE WriteIndex(k)
        BY <1>2, <1>3, <2>1, <2>8 DEF WriteIndex
  <2>9. QED
        BY <1>7, <2>2, <2>3, <2>4, <2>5, <2>6, <2>7, <2>8 DEF Step
<1>8. ASSUME NEW k \in Jobs, Fail(k) PROVE FALSE
      BY <1>1, <1>2, <1>3, <1>8 DEF Fail
<1>9. CASE Disturb \/ UNCHANGED vars
      BY <1>1, <1>9 DEF Disturb, vars, Locals
<1>10. PICK k \in Jobs : Rename(k)
      BY <1>6, <1>7, <1>8, <1>9 DEF Next
<1>11. QED
      BY <1>1, <1>10 DEF Rename, Writes, Locals

-----------------------------------------------------------------------------
(* The theorems *)

\* reconcileBoardFromRecords and applyProposalThroughVault: what is queued was
\* confirmed in the dialog, and a dragged card that was read is queued or applied.
THEOREM BoardInvariance == Spec => []BoardInv
<1>1. IInv => BoardInv
      BY DEF IInv, Sound, Confirmed, BoardInv
<1>2. QED
      BY <1>1, BoardAlways, PTL

\* assertExpectedChanges and the engine's own check: the plugin moves a note only as
\* the dialog showed, from the status the card recorded.
THEOREM OnlyConfirmedMoves == Spec => OnlyConfirmed
<1>1. ASSUME IInv, [Next]_vars, NEW j \in Jobs, job[j].kind = "obsidian",
             NEW c \in job'[j].applied, c \notin job[j].applied
      PROVE  /\ Key(c) \in job[j].shown
             /\ job[j].buf.id = c.id /\ job[j].buf.status = c.status
  <2>1. Rename(j) /\ c = job[j].cur
        BY <1>1, OnlyRenameApplies
  <2>2. QED
        BY <1>1, <2>1 DEF IInv, Sound, Ready, Confirmed, Rename, At
<1>2. IInv /\ [Next]_vars =>
        \A j \in Jobs : job[j].kind = "obsidian" =>
          \A c \in job'[j].applied \ job[j].applied :
             /\ Key(c) \in job[j].shown
             /\ job[j].buf.id = c.id /\ job[j].buf.status = c.status
      BY <1>1
<1>3. QED
      BY <1>2, BoardAlways, PTL DEF Spec, OnlyConfirmed

\* The plugin renders the board only once every dragged card it has read is applied.
THEOREM SeenDragsAreKept == Spec => SeenDragsSurvive
<1>1. ASSUME IInv, NEW j \in Jobs, At(j, "write"), job[j].kind = "obsidian",
             NEW c \in board \cap job[j].cards, Dragged(c)
      PROVE  c \in job[j].applied
      BY <1>1 DEF IInv, Sound, Ready, Confirmed, At
<1>2. IInv => \A j \in Jobs :
        At(j, "write") /\ job'[j].pc = "index" /\ job[j].kind = "obsidian" =>
           \A c \in board \cap job[j].cards : Dragged(c) => c \in job[j].applied
      BY <1>1
<1>3. QED
      BY <1>2, BoardAlways, PTL DEF SeenDragsSurvive

-----------------------------------------------------------------------------
(* What a job that was left alone knows, and what every card is older than *)

\* The note of a card has its id and this status
Lies(c, status) ==
    notes[c.source] # None /\ notes[c.source].id = c.id /\ notes[c.source].status = status

\* Of the cards on the board that was read, those that are still to be moved lie where they
\* were rendered, and all others where they were found
Halfway(l) ==
    /\ \A c, d \in l.cards : c.id = d.id => c = d
    /\ l.kind # "move" => l.queue \subseteq l.cards
    /\ l.kind # "move" /\ l.pc # "pick" => l.cur \in l.cards \ l.queue
    /\ \A c \in l.cards :
         Lies(c, IF c \in l.queue \/ (l.pc # "pick" /\ c = l.cur) THEN c.status ELSE c.lane)

\* What was read is what is there, what was asked for is done, and what was rendered is on
\* the board
Settled(l) ==
    /\ l.pc \in {"notes", "collect", "write"} => \A p \in 1..Len(l.recs) : l.recs[p] = notes[p]
    /\ l.pc \in {"pick", "reread", "guard", "rename"} => Halfway(l)
    /\ l.pc \in {"collect", "write", "index"} \/ l.result = "applied" =>
         \A c \in l.cards : Lies(c, c.lane)
    /\ l.pc = "index" \/ (l.result = "applied" /\ l.kind \notin {"dryRun", "apply"}) =>
         board = Render(notes)

\* Nothing a job holds comes from after the last move
Dated(l) ==
    /\ \A c \in l.cards \cup l.queue : c.checksum.updated <= clock
    /\ l.pc \in {"reread", "guard", "rename"} => l.cur.checksum.updated <= clock
    /\ \A p \in 1..Len(l.recs) : l.recs[p] # None => l.recs[p].updated <= clock

History(l) ==
    /\ l.result = "applied" => l.pc = "done"
    /\ l.kind = "board" => l.pc \in {"collect", "write", "index", "done"}
    /\ l.kind \in {"board", "move"} => l.cards = {}
    /\ l.pc = "write" => Len(l.recs) = NumPaths
    /\ l.pc \notin {"pick", "reread", "guard", "rename"} => l.queue = {}
    /\ l.calm => Settled(l)
    /\ Dated(l)

\* ... nor does anything that is written down, and the note of a card that was moved is
\* younger than the card
Younger(c) ==
    c.checksum.updated <= clock
    /\ (notes[c.source] # None => c.checksum.updated < notes[c.source].updated)

Past ==
    /\ \A p \in Paths : notes[p] # None => notes[p].updated <= clock
    /\ board # None => \A c \in board : c.checksum.updated <= clock
    /\ \A c \in moved : Younger(c)

HInv == Past /\ \A j \in Jobs : History(job[j])

\* A note that is on the board it was rendered to is not in conflict with it
LEMMA RenderAgrees ==
    ASSUME notes \in [Paths -> Note \cup {None}], ~DuplicateIssue(notes)
    PROVE  ~Conflicts(Render(notes), notes) /\ Proposals(Render(notes), notes) = {}
<1>1. ASSUME NEW c \in Render(notes)
      PROVE  ~Conflict(c, Render(notes), notes) /\ ~Dragged(c)
  <2>1. PICK p \in Paths : notes[p] # None /\ c = Card(p, notes[p])
        BY <1>1 DEF Render
  <2>2. notes[p] \in Note /\ notes[p].status \in Statuses
        BY <2>1 DEF Note
  <2>3. c.id = notes[p].id /\ c.id # None /\ c.source = p /\ c.checksum = notes[p]
        /\ c.status = notes[p].status /\ c.lane = notes[p].status
        BY <2>1, <2>2, BoardAssumption DEF Card, Note
  <2>4. ASSUME NEW d \in Render(notes), d # c, d.id = c.id PROVE FALSE
    <3>1. PICK q \in Paths : notes[q] # None /\ d = Card(q, notes[q])
          BY <2>4 DEF Render
    <3>2. q # p /\ notes[q].id = notes[p].id
          BY <2>1, <2>3, <2>4, <3>1 DEF Card
    <3>3. QED
          BY <2>1, <3>1, <3>2 DEF DuplicateIssue
  <2>5. p \in DOMAIN notes
        OBVIOUS
  <2>6. QED
        BY <2>1, <2>2, <2>3, <2>4, <2>5 DEF Conflict, Dragged
<1>2. QED
      BY <1>1 DEF Conflicts, Proposals

\* What is left of a job that ends
LEMMA EndsAs ==
    ASSUME NEW l \in Locals, NEW r \in Results
    PROVE  LET m == Ends(l, r) IN
           /\ m.kind = l.kind /\ m.pc = "done" /\ m.result = r /\ m.calm = l.calm
           /\ m.recs = <<>> /\ m.queue = {}
           /\ m.cards = IF r = "applied" THEN l.cards ELSE {}
<1> DEFINE cards == IF r = "applied" THEN l.cards ELSE {}
<1>1. Ends(l, r) = [l EXCEPT !.pc = "done", !.result = r, !.recs = <<>>, !.queue = {},
                             !.cur = None, !.buf = None, !.cards = cards]
      BY DEF Ends
<1> HIDE DEF cards
<1>2. /\ Ends(l, r).kind = l.kind /\ Ends(l, r).pc = "done" /\ Ends(l, r).result = r
      /\ Ends(l, r).calm = l.calm /\ Ends(l, r).recs = <<>> /\ Ends(l, r).queue = {}
      /\ Ends(l, r).cards = cards
      BY <1>1 DEF Locals
<1>3. QED
      BY <1>2 DEF cards

\* One that ends without having been applied claims nothing
LEMMA EndsInVain ==
    ASSUME NEW l \in Locals, NEW r \in Results \ {"applied"}
    PROVE  History(Ends(l, r))
<1> DEFINE m == Ends(l, r)
<1>1. /\ m.pc = "done" /\ m.result # "applied" /\ m.cards = {} /\ m.queue = {} /\ m.recs = <<>>
      BY EndsAs
<1> HIDE DEF m
<1>2. History(m)
      BY <1>1 DEF History, Settled, Dated
<1>3. QED
      BY <1>2 DEF m

\* One that was applied has its cards where it claims
LEMMA EndsApplied ==
    ASSUME NEW l \in Locals, History(l),
           l.calm => /\ \A c \in l.cards : Lies(c, c.lane)
                     /\ l.kind \notin {"dryRun", "apply"} => board = Render(notes)
    PROVE  History(Ends(l, "applied"))
<1> DEFINE m == Ends(l, "applied")
<1>1. /\ m.pc = "done" /\ m.cards = l.cards /\ m.queue = {} /\ m.recs = <<>>
      /\ m.kind = l.kind /\ m.calm = l.calm
      BY EndsAs DEF Results
<1> HIDE DEF m
<1>2. Settled(m) \/ ~m.calm
      BY <1>1 DEF Settled
<1>3. Dated(m)
      BY <1>1 DEF History, Dated
<1>4. History(m)
      BY <1>1, <1>2, <1>3 DEF History
<1>5. QED
      BY <1>4 DEF m

\* A job that goes on changes nothing that another one, or the past, is about
LEMMA GoesOn ==
    ASSUME IInv, HInv, NEW j \in Jobs, NEW l, Goes(j, l), History(l)
    PROVE  HInv'
<1>1. UNCHANGED <<notes, board, clock, moved>>
      BY DEF Goes
<1>2. Past'
      BY <1>1 DEF HInv, Past, Younger
<1>3. \A k \in Jobs : job'[k] = IF k = j THEN l ELSE job[k]
      BY DEF Goes, IInv, TypeOK
<1>4. \A k \in Jobs : History(job'[k])
      BY <1>3 DEF HInv
<1>5. ASSUME NEW k \in Jobs PROVE History(job[k])'
  <2>1. History(job'[k])
        BY <1>4
  <2>2. /\ History(job'[k]) <=> History(job[k])'
        BY <1>1 DEF History, Settled, Halfway, Lies, Dated
  <2>3. QED
        BY <2>1, <2>2
<1>6. QED
      BY <1>2, <1>5 DEF HInv

\* Once something is written the others are not calm, and what they hold is as old as it was
LEMMA OthersAge ==
    ASSUME IInv, HInv, NEW k \in Jobs, job'[k] = [job[k] EXCEPT !.calm = FALSE],
           clock' \in Nat, clock <= clock'
    PROVE  History(job[k])'
<1> DEFINE m == [job[k] EXCEPT !.calm = FALSE]
<1>1. /\ job[k] \in Locals /\ History(job[k]) /\ clock \in Nat
      BY DEF IInv, TypeOK, HInv
<1>2. /\ m.kind = job[k].kind /\ m.pc = job[k].pc /\ m.cards = job[k].cards
      /\ m.recs = job[k].recs /\ m.queue = job[k].queue /\ m.cur = job[k].cur
      /\ m.result = job[k].result /\ m.calm = FALSE
      BY <1>1 DEF Locals
<1> HIDE DEF m
<1>3. job'[k] = m
      BY DEF m
<1>4. \A c \in job[k].cards \cup job[k].queue : c.checksum.updated \in Nat
      BY <1>1 DEF Locals, Cards, Note
<1>5. job[k].pc \in {"reread", "guard", "rename"} => job[k].cur.checksum.updated \in Nat
      BY DEF IInv, Sound, Ready, Cards, Note
<1>6. \A p \in 1..Len(job[k].recs) : job[k].recs[p] # None => job[k].recs[p].updated \in Nat
  <2>1. job[k].recs \in Seq(Note \cup {None})
        BY <1>1 DEF Locals
  <2>2. QED
        BY <2>1 DEF Note
<1>7. Dated(job[k])'
  <2>1. \A c \in m.cards \cup m.queue : c.checksum.updated <= clock'
        BY <1>1, <1>2, <1>4 DEF History, Dated
  <2>2. m.pc \in {"reread", "guard", "rename"} => m.cur.checksum.updated <= clock'
        BY <1>1, <1>2, <1>5 DEF History, Dated
  <2>3. \A p \in 1..Len(m.recs) : m.recs[p] # None => m.recs[p].updated <= clock'
        BY <1>1, <1>2, <1>6 DEF History, Dated
  <2>4. QED
        BY <1>3, <2>1, <2>2, <2>3 DEF Dated
<1>8. QED
      BY <1>1, <1>2, <1>3, <1>7 DEF History

\* What is true of the locals a job has afterwards is true of the job afterwards
LEMMA OfTheJob ==
    ASSUME NEW j \in Jobs, NEW l, job'[j] = l, History(l)'
    PROVE  History(job[j])'
BY DEF History, Settled, Halfway, Lies, Dated

\* The board is read, or the call ends without it
LEMMA ReadBoardTells ==
    ASSUME IInv, HInv, NEW j \in Jobs, ReadBoard(j)
    PROVE  \E l : Goes(j, l) /\ History(l)
<1> DEFINE m == [job[j] EXCEPT !.cards = board, !.pc = "notes"]
<1>1. /\ Sound(job[j]) /\ job[j] \in Locals /\ job[j].pc = "board" /\ job[j].recs = <<>>
      /\ History(job[j])
      BY DEF IInv, HInv, Sound, Ready, ReadBoard, At
<1>2. CASE board # None
  <2>1. /\ m.pc = "notes" /\ m.recs = <<>> /\ m.queue = job[j].queue /\ m.cards = board
        /\ m.kind = job[j].kind /\ m.result = job[j].result /\ m.calm = job[j].calm
        BY <1>1 DEF Locals
  <2>2. Goes(j, m)
        BY <1>2 DEF ReadBoard
  <2> HIDE DEF m
  <2>3. m.kind \notin {"board", "move"} /\ m.result # "applied" /\ m.queue = {}
        BY <1>1, <2>1 DEF History, Sound, Ready
  <2>4. Dated(m)
        BY <1>1, <1>2, <2>1 DEF HInv, Past, History, Dated
  <2>5. Settled(m)
        BY <2>1, <2>3 DEF Settled
  <2>6. QED
        BY <2>1, <2>2, <2>3, <2>4, <2>5 DEF History
<1>3. CASE board = None
      BY <1>1, <1>3, EndsInVain DEF ReadBoard, Results
<1>4. QED
      BY <1>2, <1>3

\* With no conflict, every card on the board is one of a note of its own, as it was rendered
LEMMA NoConflictTells ==
    ASSUME NEW cards \in SUBSET Cards, NEW recs, ~Conflicts(cards, recs)
    PROVE  /\ \A c, d \in cards : c.id = d.id => c = d
           /\ \A c \in cards : /\ c.source \in DOMAIN recs /\ recs[c.source] # None
                               /\ recs[c.source].id = c.id /\ recs[c.source].status = c.status
BY DEF Conflicts, Conflict

\* The last note was read: what is found is where it was found
LEMMA AfterListTells ==
    ASSUME NEW l \in Locals, l.pc = "notes", l.kind # "move", History(l),
           Len(l.recs) = NumPaths
    PROVE  History(AfterList(l))
<1> DEFINE found == Proposals(l.cards, l.recs)
           shows == [l EXCEPT !.shown = Keys(found), !.pc = "confirm", !.recs = <<>>, !.cards = {}]
           queues == [l EXCEPT !.queue = found, !.pc = "pick", !.recs = <<>>]
<1>1. /\ found \in SUBSET l.cards
      /\ ~Conflicts(l.cards, l.recs) => {c \in l.cards : Dragged(c)} \subseteq found
      BY ProposalsAre, NothingIgnored DEF Locals
<1>2. AfterList(l) = IF ~AsShown(l, found) THEN Ends(l, "threw")
                     ELSE IF Conflicts(l.cards, l.recs) THEN Ends(l, "conflicts")
                     ELSE IF l.kind = "dryRun" THEN Ends(l, "previewed")
                     ELSE IF l.kind = "obsidian" /\ l.shown = None THEN shows
                     ELSE queues
      BY DEF AfterList
<1> HIDE DEF found
<1>3. History(Ends(l, "threw")) /\ History(Ends(l, "conflicts")) /\ History(Ends(l, "previewed"))
      BY EndsInVain DEF Results
<1>4. l.result # "applied" /\ l.kind # "board" /\ l.queue = {}
      BY DEF History
<1>5. History(shows)
  <2>1. /\ shows.pc = "confirm" /\ shows.recs = <<>> /\ shows.queue = l.queue /\ shows.cards = {}
        /\ shows.kind = l.kind /\ shows.result = l.result
        BY DEF Locals
  <2> HIDE DEF shows
  <2>2. Settled(shows) /\ Dated(shows)
        BY <1>4, <2>1 DEF Settled, Dated
  <2>3. QED
        BY <1>4, <2>1, <2>2 DEF History
<1>6. ASSUME ~Conflicts(l.cards, l.recs) PROVE History(queues)
  <2>1. /\ queues.pc = "pick" /\ queues.recs = <<>> /\ queues.queue = found
        /\ queues.cards = l.cards /\ queues.kind = l.kind /\ queues.result = l.result
        /\ queues.calm = l.calm
        BY DEF Locals
  <2> HIDE DEF queues
  <2>2. /\ \A c, d \in l.cards : c.id = d.id => c = d
        /\ \A c \in l.cards : /\ c.source \in DOMAIN l.recs /\ l.recs[c.source] # None
                              /\ l.recs[c.source].id = c.id /\ l.recs[c.source].status = c.status
        BY <1>6, NoConflictTells DEF Locals
  <2>3. DOMAIN l.recs = 1..Len(l.recs)
        BY DEF Locals
  <2>4. ASSUME l.calm PROVE Settled(queues)
    <3>1. \A p \in 1..Len(l.recs) : l.recs[p] = notes[p]
          BY <2>4 DEF History, Settled
    <3>2. \A c \in l.cards : Lies(c, c.status)
          BY <2>2, <2>3, <3>1 DEF Lies
    <3>3. \A c \in l.cards : c \notin found => c.lane = c.status
          BY <1>1, <1>6 DEF Dragged
    <3>4. Halfway(queues)
          BY <1>1, <2>1, <2>2, <3>2, <3>3 DEF Halfway
    <3>5. QED
          BY <1>4, <2>1, <3>4 DEF Settled
  <2>5. Dated(queues)
        BY <1>1, <2>1 DEF History, Dated
  <2>6. QED
        BY <1>4, <2>1, <2>4, <2>5 DEF History
<1>7. QED
      BY <1>2, <1>3, <1>5, <1>6

\* A note is appended to those read
LEMMA ReadNoteTells ==
    ASSUME IInv, HInv, NEW j \in Jobs, ReadNote(j)
    PROVE  \E l : Goes(j, l) /\ History(l)
<1> DEFINE n == notes[Len(job[j].recs) + 1]
           m == [job[j] EXCEPT !.recs = Append(job[j].recs, n)]
<1>1. /\ Sound(job[j]) /\ job[j] \in Locals /\ History(job[j])
      /\ job[j].pc = "notes" /\ Len(job[j].recs) < NumPaths /\ job[j].kind # "move"
      BY DEF IInv, HInv, Sound, Ready, ReadNote, At
<1>2. job[j].recs \in Seq(Note \cup {None}) /\ Len(job[j].recs) \in Nat
      BY <1>1 DEF Locals
<1>3. n \in Note \cup {None} /\ (n # None => n.updated <= clock)
      BY <1>1, <1>2, BoardAssumption DEF IInv, TypeOK, Paths, HInv, Past
<1>4. /\ Append(job[j].recs, n) \in Seq(Note \cup {None})
      /\ Len(Append(job[j].recs, n)) = Len(job[j].recs) + 1
      /\ \A p \in 1..Len(job[j].recs) + 1 :
           Append(job[j].recs, n)[p] = IF p = Len(job[j].recs) + 1 THEN n ELSE job[j].recs[p]
      BY <1>2, <1>3
<1>5. Goes(j, IF Len(m.recs) = NumPaths THEN AfterList(m) ELSE m)
      BY DEF ReadNote
<1>6. /\ m \in Locals
      /\ m.pc = "notes" /\ m.queue = job[j].queue /\ m.kind = job[j].kind
      /\ m.cards = job[j].cards /\ m.result = job[j].result /\ m.calm = job[j].calm
      /\ m.recs = Append(job[j].recs, n)
      BY <1>1, <1>4 DEF Locals
<1> HIDE DEF m
<1>7. \A p \in 1..Len(m.recs) : \/ p \in 1..Len(job[j].recs) /\ m.recs[p] = job[j].recs[p]
                                \/ m.recs[p] = n /\ n = notes[p]
      BY <1>2, <1>4, <1>6
<1> HIDE DEF n
<1>8. History(m)
  <2>1. Dated(m)
        BY <1>1, <1>3, <1>6, <1>7 DEF History, Dated
  <2>2. m.calm => Settled(m)
        BY <1>1, <1>6, <1>7 DEF History, Settled
  <2>3. QED
        BY <1>1, <1>6, <2>1, <2>2 DEF History
<1>9. QED
      BY <1>1, <1>5, <1>6, <1>8, AfterListTells

\* A proposal is taken, or none is left
LEMMA PickTells ==
    ASSUME IInv, HInv, NEW j \in Jobs, Pick(j)
    PROVE  \E l : Goes(j, l) /\ History(l)
<1>1. /\ Sound(job[j]) /\ job[j] \in Locals /\ History(job[j])
      /\ job[j].pc = "pick" /\ job[j].recs = <<>> /\ job[j].kind \notin {"move", "board"}
      /\ job[j].result # "applied"
      BY DEF IInv, HInv, Sound, Ready, History, Pick, At
<1>2. ASSUME NEW c \in job[j].queue,
             Goes(j, [job[j] EXCEPT !.queue = @ \ {c}, !.cur = c,
                        !.pc = IF job[j].kind = "obsidian" THEN "reread" ELSE "guard"])
      PROVE  \E l : Goes(j, l) /\ History(l)
  <2> DEFINE call == IF job[j].kind = "obsidian" THEN "reread" ELSE "guard"
             m == [job[j] EXCEPT !.queue = job[j].queue \ {c}, !.cur = c, !.pc = call]
  <2>1. Goes(j, m)
        BY <1>2
  <2>2. call \in {"reread", "guard"}
        OBVIOUS
  <2> HIDE DEF call
  <2>3. /\ m.kind = job[j].kind /\ m.pc = call /\ m.recs = <<>> /\ m.cards = job[j].cards
        /\ m.result = job[j].result /\ m.calm = job[j].calm
        /\ m.queue = job[j].queue \ {c} /\ m.cur = c
        BY <1>1, <2>2 DEF Locals
  <2> HIDE DEF m
  <2>4. ASSUME m.calm PROVE Settled(m)
    <3>1. Halfway(job[j])
          BY <1>1, <2>3, <2>4 DEF History, Settled
    <3>2. Halfway(m)
          BY <1>1, <1>2, <2>2, <2>3, <3>1 DEF Halfway
    <3>3. QED
          BY <1>1, <2>2, <2>3, <3>2 DEF Settled
  <2>5. Dated(m)
        BY <1>1, <1>2, <2>3 DEF History, Dated
  <2>6. History(m)
        BY <1>1, <2>2, <2>3, <2>4, <2>5 DEF History
  <2>7. QED
        BY <2>1, <2>6
<1>3. ASSUME job[j].queue = {},
             Goes(j, IF job[j].kind = "obsidian" THEN [job[j] EXCEPT !.pc = "collect"]
                                                 ELSE Ends(job[j], "applied"))
      PROVE  \E l : Goes(j, l) /\ History(l)
  <2> DEFINE m == [job[j] EXCEPT !.pc = "collect"]
  <2>1. ASSUME job[j].calm PROVE \A c \in job[j].cards : Lies(c, c.lane)
        BY <1>1, <1>3, <2>1 DEF History, Settled, Halfway
  <2>2. /\ m.kind = job[j].kind /\ m.pc = "collect" /\ m.recs = <<>> /\ m.cards = job[j].cards
        /\ m.result = job[j].result /\ m.calm = job[j].calm /\ m.queue = {}
        BY <1>1, <1>3 DEF Locals
  <2>3. CASE job[j].kind = "obsidian"
    <3> HIDE DEF m
    <3>1. Dated(m) /\ (m.calm => Settled(m))
          BY <1>1, <2>1, <2>2 DEF History, Dated, Settled
    <3>2. History(m)
          BY <1>1, <2>2, <3>1 DEF History
    <3>3. Goes(j, m)
          BY <1>3, <2>3 DEF m
    <3>4. QED
          BY <3>2, <3>3
  <2>4. CASE job[j].kind # "obsidian"
    <3>1. job[j].kind \in {"dryRun", "apply"}
          BY <1>1, <2>4 DEF Locals, Kinds
    <3>2. History(Ends(job[j], "applied"))
          BY <1>1, <2>1, <3>1, EndsApplied
    <3>3. QED
          BY <1>3, <2>4, <3>2
  <2>5. QED
        BY <2>3, <2>4
<1>4. QED
      BY <1>2, <1>3 DEF Pick

\* The note is read again, and nothing else learnt
LEMMA RereadTells ==
    ASSUME IInv, HInv, NEW j \in Jobs, Reread(j)
    PROVE  \E l : Goes(j, l) /\ History(l)
<1> DEFINE m == [job[j] EXCEPT !.pc = "guard"]
<1>1. job[j] \in Locals /\ job[j].pc = "reread" /\ History(job[j])
      BY DEF IInv, HInv, Sound, Ready, Reread, At
<1>2. Goes(j, m) \/ Goes(j, Ends(job[j], "threw"))
      BY DEF Reread
<1>3. /\ m.kind = job[j].kind /\ m.pc = "guard" /\ m.recs = job[j].recs
      /\ m.cards = job[j].cards /\ m.result = job[j].result /\ m.calm = job[j].calm
      /\ m.queue = job[j].queue /\ m.cur = job[j].cur
      BY <1>1 DEF Locals
<1> HIDE DEF m
<1>4. Dated(m) /\ (m.calm => Settled(m))
      BY <1>1, <1>3 DEF History, Dated, Settled, Halfway
<1>5. History(m)
      BY <1>1, <1>3, <1>4 DEF History
<1>6. History(Ends(job[j], "threw"))
      BY <1>1, EndsInVain DEF Results
<1>7. QED
      BY <1>2, <1>5, <1>6

\* The engine is given the note
LEMMA GuardTells ==
    ASSUME IInv, HInv, NEW j \in Jobs, Guard(j)
    PROVE  \E l : Goes(j, l) /\ History(l)
<1> DEFINE n == notes[job[j].cur.source]
           m == [job[j] EXCEPT !.pc = "rename", !.buf = n]
<1>1. job[j] \in Locals /\ job[j].pc = "guard" /\ History(job[j])
      BY DEF IInv, HInv, Sound, Ready, Guard, At
<1>2. Goes(j, m) \/ Goes(j, Ends(job[j], "threw"))
      BY DEF Guard
<1> HIDE DEF n
<1>3. /\ m.kind = job[j].kind /\ m.pc = "rename" /\ m.recs = job[j].recs
      /\ m.cards = job[j].cards /\ m.result = job[j].result /\ m.calm = job[j].calm
      /\ m.queue = job[j].queue /\ m.cur = job[j].cur
      BY <1>1 DEF Locals
<1> HIDE DEF m
<1>4. Dated(m) /\ (m.calm => Settled(m))
      BY <1>1, <1>3 DEF History, Dated, Settled, Halfway
<1>5. History(m)
      BY <1>1, <1>3, <1>4 DEF History
<1>6. History(Ends(job[j], "threw"))
      BY <1>1, EndsInVain DEF Results
<1>7. QED
      BY <1>2, <1>5, <1>6

\* A note is appended to those the board will show
LEMMA CollectTells ==
    ASSUME IInv, HInv, NEW j \in Jobs, Collect(j)
    PROVE  \E l : Goes(j, l) /\ History(l)
<1> DEFINE n == notes[Len(job[j].recs) + 1]
           recs == Append(job[j].recs, n)
           call == IF Len(recs) = NumPaths THEN "write" ELSE "collect"
           m == [job[j] EXCEPT !.recs = recs, !.pc = call]
<1>1. /\ Sound(job[j]) /\ job[j] \in Locals /\ History(job[j])
      /\ job[j].pc = "collect" /\ Len(job[j].recs) < NumPaths
      BY DEF IInv, HInv, Sound, Ready, Collect, At
<1>2. job[j].recs \in Seq(Note \cup {None}) /\ Len(job[j].recs) \in Nat
      BY <1>1 DEF Locals
<1>3. n \in Note \cup {None} /\ (n # None => n.updated <= clock)
      BY <1>1, <1>2, BoardAssumption DEF IInv, TypeOK, Paths, HInv, Past
<1>4. Goes(j, m)
      BY DEF Collect
<1>5. /\ recs \in Seq(Note \cup {None}) /\ Len(recs) = Len(job[j].recs) + 1
      /\ \A p \in 1..Len(recs) : \/ p \in 1..Len(job[j].recs) /\ recs[p] = job[j].recs[p]
                                 \/ recs[p] = n /\ n = notes[p]
      BY <1>2, <1>3
<1> HIDE DEF n, recs
<1>6. call \in {"write", "collect"} /\ (call = "write" => Len(recs) = NumPaths)
      OBVIOUS
<1> HIDE DEF call
<1>7. /\ m.kind = job[j].kind /\ m.pc = call /\ m.recs = recs /\ m.cards = job[j].cards
      /\ m.queue = job[j].queue /\ m.result = job[j].result /\ m.calm = job[j].calm
      BY <1>1, <1>5, <1>6 DEF Locals
<1> HIDE DEF m
<1>8. Dated(m)
      BY <1>1, <1>3, <1>5, <1>6, <1>7 DEF History, Dated
<1>9. m.calm => Settled(m)
      BY <1>1, <1>5, <1>6, <1>7 DEF History, Settled
<1>10. History(m)
       BY <1>1, <1>6, <1>7, <1>8, <1>9 DEF History
<1>11. QED
       BY <1>4, <1>10

\* The index is written, and the call returns
LEMMA WriteIndexTells ==
    ASSUME IInv, HInv, NEW j \in Jobs, WriteIndex(j)
    PROVE  \E l : Goes(j, l) /\ History(l)
<1>1. job[j] \in Locals /\ job[j].pc = "index" /\ History(job[j])
      BY DEF IInv, TypeOK, HInv, WriteIndex, At
<1>2. History(Ends(job[j], "applied"))
      BY <1>1, EndsApplied DEF History, Settled
<1>3. QED
      BY <1>2 DEF WriteIndex

\* A call starts with nothing known
LEMMA BeginTells ==
    ASSUME NEW j \in Jobs, NEW kind \in Kinds, Begin(j, kind)
    PROVE  \E l : Goes(j, l) /\ History(l)
<1> DEFINE call == IF kind = "board" THEN "collect" ELSE "board"
           m == [Idle EXCEPT !.kind = kind, !.pc = call]
<1>1. Goes(j, m) /\ kind # "move"
      BY DEF Begin
<1>2. call \in {"collect", "board"} /\ (kind = "board" => call = "collect")
      OBVIOUS
<1> HIDE DEF call
<1>3. /\ m.kind = kind /\ m.pc = call /\ m.recs = <<>> /\ m.queue = {} /\ m.cards = {}
      /\ m.result = "none"
      BY DEF Idle
<1> HIDE DEF m
<1>4. Settled(m) /\ Dated(m)
      BY <1>2, <1>3 DEF Settled, Dated
<1>5. History(m)
      BY <1>1, <1>2, <1>3, <1>4 DEF History
<1>6. QED
      BY <1>1, <1>5

\* ... but the note it is to move
LEMMA BeginMoveTells ==
    ASSUME IInv, HInv, NEW j \in Jobs, NEW p \in Paths, NEW lane \in Statuses, BeginMove(j, p, lane)
    PROVE  \E l : Goes(j, l) /\ History(l)
<1> DEFINE n == notes[p]
           c == [Card(p, n) EXCEPT !.lane = lane]
           l0 == [Idle EXCEPT !.kind = "move", !.cur = c]
           call == IF n.status = lane THEN "collect" ELSE "guard"
           m == [l0 EXCEPT !.pc = call]
<1>1. n \in Note /\ n.updated <= clock
      BY DEF BeginMove, IInv, TypeOK, HInv, Past
<1>2. \/ Goes(j, Ends(l0, "threw"))
      \/ Goes(j, m)
      BY DEF BeginMove
<1> HIDE DEF n
<1>3. c \in Cards /\ c.checksum = n
      BY <1>1, CardIs DEF Card, Cards, Lanes
<1>4. call \in {"collect", "guard"}
      OBVIOUS
<1> HIDE DEF c, call
<1>5. l0 \in Locals
      BY <1>3, IdleIs DEF Locals, Kinds
<1>6. /\ m.kind = "move" /\ m.pc = call /\ m.recs = <<>> /\ m.queue = {} /\ m.cur = c
      /\ m.cards = {} /\ m.result = "none"
      BY DEF Idle
<1> HIDE DEF m, l0
<1>7. Dated(m)
      BY <1>1, <1>3, <1>4, <1>6 DEF Dated
<1>8. Settled(m)
      BY <1>4, <1>6 DEF Settled, Halfway
<1>9. History(m)
      BY <1>4, <1>6, <1>7, <1>8 DEF History
<1>10. History(Ends(l0, "threw"))
       BY <1>5, EndsInVain DEF Results
<1>11. QED
       BY <1>2, <1>9, <1>10

\* The button: everything is read anew
LEMMA ConfirmTells ==
    ASSUME IInv, HInv, NEW j \in Jobs, Confirm(j)
    PROVE  \E l : Goes(j, l) /\ History(l)
<1> DEFINE m == [job[j] EXCEPT !.pc = "board", !.result = "none", !.cards = {},
                               !.applied = {}, !.calm = TRUE]
<1>1. /\ Sound(job[j]) /\ History(job[j]) /\ job[j] \in Locals
      /\ job[j].pc \in {"confirm", "done"} /\ job[j].kind # "move" /\ job[j].recs = <<>>
      BY DEF IInv, HInv, Sound, Ready, Confirm, At
<1>2. job[j].kind # "board"
      BY <1>1 DEF Confirm, At, History
<1>3. Goes(j, m)
      BY DEF Confirm
<1>4. /\ m.kind = job[j].kind /\ m.pc = "board" /\ m.recs = <<>> /\ m.queue = job[j].queue
      /\ m.result = "none" /\ m.cards = {}
      BY <1>1 DEF Locals
<1> HIDE DEF m
<1>5. Settled(m) /\ Dated(m)
      BY <1>1, <1>4 DEF Settled, Dated, History
<1>6. History(m)
      BY <1>1, <1>2, <1>4, <1>5 DEF History
<1>7. QED
      BY <1>3, <1>6

\* The note of the card lies where the card was dragged to, and is the youngest
LEMMA RenameTells ==
    ASSUME IInv, HInv, NEW j \in Jobs, Rename(j)
    PROVE  HInv'
<1>1. PICK l : l = job[j]
      OBVIOUS
<1> DEFINE c == l.cur
           call == IF l.kind = "move" THEN "collect" ELSE "pick"
<1>2. PICK n : n = [l.buf EXCEPT !.status = c.lane, !.updated = clock + 1]
      OBVIOUS
<1>3. PICK m : m = [l EXCEPT !.applied = @ \cup {c}, !.cur = None, !.buf = None, !.pc = call]
      OBVIOUS
<1>4. /\ Sound(l) /\ l \in Locals /\ l.pc = "rename" /\ l.recs = <<>> /\ History(l)
      /\ c \in Cards /\ c.lane \in Statuses /\ c.source \in Paths
      /\ l.buf \in Note /\ l.buf.id = c.id /\ c.checksum.updated \in Nat
      BY <1>1 DEF IInv, HInv, Sound, Ready, Rename, At, Cards, Note
<1>5. clock \in Nat /\ clock + 1 \in Nat /\ notes \in [Paths -> Note \cup {None}]
      BY DEF IInv, TypeOK
<1>6. n # None /\ n.id = c.id /\ n.status = c.lane /\ n.updated = clock + 1
  <2>1. n \in Note /\ n.id = c.id /\ n.status = c.lane /\ n.updated = clock + 1
        BY <1>2, <1>4, <1>5 DEF Note
  <2>2. QED
        BY <2>1, NoneAssumption
<1>7. /\ notes' = [notes EXCEPT ![c.source] = n] /\ clock' = clock + 1
      /\ moved' = moved \cup {c} /\ board' = board /\ Writes(j, m)
      BY <1>1, <1>2, <1>3 DEF Rename
<1>8. call \in {"collect", "pick"} /\ (call = "collect" <=> l.kind = "move")
      OBVIOUS
<1> HIDE DEF call
<1>9. /\ m.kind = l.kind /\ m.pc = call /\ m.recs = <<>> /\ m.cards = l.cards
      /\ m.queue = l.queue /\ m.result = l.result /\ m.calm = l.calm
      BY <1>4, <1>8, <1>3 DEF Locals
<1>10. /\ job'[j] = m
      /\ \A k \in Jobs : k # j => job'[k] = [job[k] EXCEPT !.calm = FALSE]
      BY <1>7 DEF Writes
<1>11. \A p \in Paths : notes'[p] = IF p = c.source THEN n ELSE notes[p]
      BY <1>4, <1>5, <1>7
<1>12. Past'
  <2>1. /\ \A p \in Paths : notes[p] # None => notes[p].updated <= clock
        /\ board # None => \A d \in board : d.checksum.updated <= clock
        /\ \A d \in moved : Younger(d)
        BY DEF HInv, Past
  <2>2. \A p \in Paths : notes[p] # None => notes[p].updated \in Nat
        BY <1>5 DEF Note
  <2>3. /\ board # None => \A d \in board : d.checksum.updated \in Nat
        /\ \A d \in moved : d.checksum.updated \in Nat /\ d.source \in Paths
        BY DEF IInv, TypeOK, Cards, Note
  <2>4. \A p \in Paths : notes'[p] # None => notes'[p].updated <= clock'
        BY <1>5, <1>6, <1>7, <1>11, <2>1, <2>2
  <2>5. board' # None => \A d \in board' : d.checksum.updated <= clock'
        BY <1>5, <1>7, <2>1, <2>3
  <2>6. ASSUME NEW d \in moved' PROVE Younger(d)'
    <3>1. d.checksum.updated \in Nat /\ d.source \in Paths /\ d.checksum.updated <= clock
          BY <1>4, <1>7, <2>1, <2>3 DEF Younger, History, Dated
    <3>2. CASE d.source = c.source
          BY <1>5, <1>6, <1>7, <1>11, <3>1, <3>2 DEF Younger
    <3>3. CASE d.source # c.source
          BY <1>5, <1>7, <1>11, <2>1, <3>1, <3>3 DEF Younger
    <3>4. QED
          BY <3>2, <3>3
  <2>7. QED
        BY <2>4, <2>5, <2>6 DEF Past
<1>13. ASSUME NEW k \in Jobs, k # j PROVE History(job[k])'
  <2>1. clock' \in Nat /\ clock <= clock'
        BY <1>5, <1>7
  <2>2. job'[k] = [job[k] EXCEPT !.calm = FALSE]
        BY <1>10, <1>13
  <2>3. QED
        BY <2>1, <2>2, OthersAge
<1>14. Dated(m)'
  <2>1. \A d \in m.cards \cup m.queue : d.checksum.updated \in Nat /\ d.checksum.updated <= clock
        BY <1>4, <1>9 DEF History, Dated, Locals, Cards, Note
  <2>2. QED
        BY <1>5, <1>7, <1>8, <1>9, <2>1 DEF Dated
<1>15. ASSUME l.calm, l.kind # "move" PROVE Halfway(m)'
  <2>1. Halfway(l)
        BY <1>4, <1>15 DEF History, Settled
  <2>2. c \in l.cards /\ c \notin l.queue /\ l.queue \subseteq l.cards
        BY <1>4, <1>15, <2>1 DEF Halfway
  <2>3. ASSUME NEW d \in l.cards
        PROVE  Lies(d, IF d \in l.queue THEN d.status ELSE d.lane)'
    <3>1. CASE d = c
          BY <1>4, <1>6, <1>11, <2>2, <3>1 DEF Lies
    <3>2. CASE d # c
      <4>1. d.id # c.id /\ notes[c.source].id = c.id /\ notes[d.source].id = d.id
            BY <2>1, <2>2, <2>3, <3>2 DEF Halfway, Lies
      <4>2. d.source \in Paths /\ d.source # c.source
            BY <1>4, <2>3, <4>1 DEF Locals, Cards
      <4>3. notes'[d.source] = notes[d.source]
            BY <1>11, <4>2
      <4>4. Lies(d, IF d \in l.queue THEN d.status ELSE d.lane)
            BY <1>4, <2>1, <2>3, <3>2 DEF Halfway
      <4>5. QED
            BY <4>3, <4>4 DEF Lies
    <3>3. QED
          BY <3>1, <3>2
  <2>4. m.pc = "pick"
        BY <1>8, <1>9, <1>15
  <2>5. \A d \in m.cards : Lies(d, IF d \in m.queue \/ (m.pc # "pick" /\ d = m.cur)
                                  THEN d.status ELSE d.lane)'
        BY <1>9, <2>3, <2>4 DEF Lies
  <2>6. QED
        BY <1>9, <2>1, <2>2, <2>4, <2>5 DEF Halfway
<1>16. ASSUME l.calm PROVE Settled(m)'
  <2>1. l.result # "applied" /\ (l.kind = "move" => l.cards = {})
        BY <1>4 DEF History
  <2>2. QED
        BY <1>8, <1>9, <1>15, <1>16, <2>1 DEF Settled
<1>17. History(m)'
  <2>1. /\ m.result # "applied" /\ m.kind # "board" /\ (m.kind = "move" => m.cards = {})
        /\ m.pc \notin {"pick", "reread", "guard", "rename"} => m.queue = {}
        BY <1>4, <1>8, <1>9 DEF History, Sound, Ready
  <2>2. QED
        BY <1>8, <1>9, <1>14, <1>16, <2>1 DEF History
<1>18. History(job[j])'
       BY <1>10, <1>17, OfTheJob
<1>19. \A k \in Jobs : History(job[k])'
       BY <1>13, <1>18
<1>20. QED
       BY <1>12, <1>19 DEF HInv

\* The board shows the notes as they were read, and as they are if nothing else was written
LEMMA WriteBoardTells ==
    ASSUME IInv, HInv, NEW j \in Jobs, WriteBoard(j)
    PROVE  HInv'
<1>1. PICK l : l = job[j]
      OBVIOUS
<1>2. PICK m : m = [l EXCEPT !.pc = "index", !.recs = <<>>]
      OBVIOUS
<1>3. /\ l \in Locals /\ l.pc = "write" /\ History(l) /\ l.recs \in Seq(Note \cup {None})
      /\ Len(l.recs) = NumPaths /\ DOMAIN l.recs = Paths
      BY <1>1 DEF IInv, TypeOK, HInv, WriteBoard, At, History, Locals, Paths
<1>4. clock \in Nat /\ notes \in [Paths -> Note \cup {None}]
      BY DEF IInv, TypeOK
<1>5. /\ board' = Render(l.recs) /\ Writes(j, m) /\ UNCHANGED <<notes, clock, moved>>
      BY <1>1, <1>2 DEF WriteBoard
<1>6. /\ m.kind = l.kind /\ m.pc = "index" /\ m.recs = <<>> /\ m.cards = l.cards
      /\ m.queue = l.queue /\ m.result = l.result /\ m.calm = l.calm
      BY <1>3, <1>2 DEF Locals
<1>7. /\ job'[j] = m
      /\ \A k \in Jobs : k # j => job'[k] = [job[k] EXCEPT !.calm = FALSE]
      BY <1>5 DEF Writes
<1>8. ASSUME NEW d \in board' PROVE d.checksum.updated <= clock
  <2>1. PICK p \in Paths : l.recs[p] # None /\ d = Card(p, l.recs[p])
        BY <1>3, <1>5, <1>8 DEF Render
  <2>2. d.checksum = l.recs[p] /\ p \in 1..Len(l.recs)
        BY <1>3, <2>1 DEF Card, Paths
  <2>3. QED
        BY <1>3, <2>1, <2>2 DEF History, Dated
<1>9. Past'
      BY <1>5, <1>8 DEF HInv, Past, Younger
<1>10. ASSUME NEW k \in Jobs, k # j PROVE History(job[k])'
  <2>1. clock' \in Nat /\ clock <= clock'
        BY <1>4, <1>5
  <2>2. job'[k] = [job[k] EXCEPT !.calm = FALSE]
        BY <1>7, <1>10
  <2>3. QED
        BY <2>1, <2>2, OthersAge
<1>11. ASSUME l.calm PROVE Settled(m)'
  <2>1. /\ \A p \in Paths : l.recs[p] = notes[p]
        /\ \A c \in l.cards : Lies(c, c.lane)
        BY <1>3, <1>11 DEF History, Settled, Paths
  <2>2. DOMAIN notes = Paths
        BY <1>4
  <2>3. Render(l.recs) = Render(notes)
        BY <1>3, <2>1, <2>2 DEF Render
  <2>4. board' = Render(notes)'
        BY <1>5, <2>3 DEF Render
  <2>5. \A c \in m.cards : Lies(c, c.lane)'
        BY <1>5, <1>6, <2>1 DEF Lies
  <2>6. QED
        BY <1>6, <2>4, <2>5 DEF Settled
<1>12. Dated(m)'
       BY <1>3, <1>5, <1>6 DEF History, Dated
<1>13. History(m)'
       BY <1>3, <1>6, <1>11, <1>12 DEF History
<1>14. History(job[j])'
       BY <1>7, <1>13, OfTheJob
<1>15. \A k \in Jobs : History(job[k])'
       BY <1>10, <1>14
<1>16. QED
       BY <1>9, <1>15 DEF HInv

\* People write, and nobody is left alone; what they write is as old as what they copied
LEMMA DisturbTells ==
    ASSUME IInv, HInv, Disturb
    PROVE  HInv'
<1>1. /\ clock \in Nat /\ notes \in [Paths -> Note \cup {None}]
      /\ \A p \in Paths : notes[p] # None =>
           notes[p] \in Note /\ notes[p].updated \in Nat /\ notes[p].updated <= clock
      BY DEF IInv, TypeOK, HInv, Past, Note
<1>2. /\ board # None => \A d \in board : d.checksum.updated <= clock
      /\ \A d \in moved : Younger(d)
      BY DEF HInv, Past
<1>3. \A d \in moved : d.checksum.updated \in Nat /\ d.source \in Paths
      BY DEF IInv, TypeOK, Cards, Note
<1>4. clock' \in Nat /\ clock <= clock'
      BY <1>1 DEF Disturb, EditBoard, EditNote, MoveNote
<1>5. ASSUME NEW k \in Jobs PROVE History(job[k])'
      BY <1>4, OthersAge DEF Disturb
<1>6. CASE EditBoard
  <2>1. board # None /\ board \subseteq Cards /\ UNCHANGED <<notes, clock, moved>>
        BY <1>6 DEF EditBoard, IInv, TypeOK
  <2>2. ASSUME NEW d \in board' PROVE \E e \in board : d.checksum = e.checksum
    <3>1. CASE board' \in Drags(board)
      <4>1. PICK c \in board, lane \in Targets :
              board' = (board \ {c}) \cup {[c EXCEPT !.lane = lane]}
            BY <3>1 DEF Drags
      <4>2. [c EXCEPT !.lane = lane].checksum = c.checksum
            BY <2>1 DEF Cards
      <4>3. QED
            BY <2>2, <4>1, <4>2
    <3>2. ASSUME NEW c \in board,
                 board' \in {board \cup {[c EXCEPT !.copy = TRUE]}, board \ {c},
                            (board \ {c}) \cup {[c EXCEPT !.id = None]}}
          PROVE  \E e \in board : d.checksum = e.checksum
      <4>1. /\ [c EXCEPT !.copy = TRUE].checksum = c.checksum
            /\ [c EXCEPT !.id = None].checksum = c.checksum
            BY <2>1 DEF Cards
      <4>2. d \in board \/ d = [c EXCEPT !.copy = TRUE] \/ d = [c EXCEPT !.id = None]
            BY <2>2, <3>2
      <4>3. QED
            BY <4>1, <4>2
    <3>3. QED
          BY <1>6, <3>1, <3>2 DEF EditBoard
  <2>3. \A d \in board' : d.checksum.updated <= clock'
        BY <1>2, <2>1, <2>2
  <2>4. Past'
        BY <1>1, <1>2, <2>1, <2>3 DEF Past, Younger
  <2>5. QED
        BY <1>5, <2>4 DEF HInv
<1>7. CASE EditNote
  <2>1. UNCHANGED <<board, clock>>
        BY <1>7 DEF EditNote
  <2>2. PICK p \in Paths :
          /\ notes[p] # None
          /\ \/ /\ \E title \in Titles : notes' = [notes EXCEPT ![p].title = title]
                /\ UNCHANGED moved
             \/ /\ notes' = [notes EXCEPT ![p] = None]
                /\ UNCHANGED moved
             \/ \E q \in Paths : /\ notes[q] = None
                                 /\ notes' = [notes EXCEPT ![q] = notes[p]]
                                 /\ moved' = {c \in moved : c.source # q}
        BY <1>7 DEF EditNote
  <2>3. ASSUME NEW title \in Titles, notes' = [notes EXCEPT ![p].title = title], UNCHANGED moved
        PROVE  Past'
    <3> DEFINE n == [notes[p] EXCEPT !.title = title]
    <3>1. n.updated = notes[p].updated
          BY <1>1, <2>2 DEF Note
    <3>2. notes' = [notes EXCEPT ![p] = n]
          BY <2>3
    <3> HIDE DEF n
    <3>3. \A q \in Paths : notes'[q] # None => notes[q] # None /\ notes'[q].updated = notes[q].updated
          BY <1>1, <2>2, <3>1, <3>2
    <3>4. QED
          BY <1>1, <1>2, <1>3, <2>1, <2>3, <3>3 DEF Past, Younger
  <2>4. ASSUME notes' = [notes EXCEPT ![p] = None], UNCHANGED moved
        PROVE  Past'
    <3>1. \A q \in Paths : notes'[q] \in {None, notes[q]}
          BY <1>1, <2>4
    <3>2. QED
          BY <1>1, <1>2, <1>3, <2>1, <2>4, <3>1 DEF Past, Younger
  <2>5. ASSUME NEW q \in Paths, notes' = [notes EXCEPT ![q] = notes[p]],
               moved' = {c \in moved : c.source # q}
        PROVE  Past'
    <3>1. \A r \in Paths : notes'[r] = IF r = q THEN notes[p] ELSE notes[r]
          BY <1>1, <2>5
    <3>2. \A r \in Paths : notes'[r] # None => notes'[r].updated <= clock'
          BY <1>1, <2>1, <3>1
    <3>3. \A c \in moved' : c \in moved /\ c.source \in Paths /\ notes'[c.source] = notes[c.source]
          BY <1>3, <2>5, <3>1
    <3>4. \A c \in moved' : Younger(c)'
          BY <1>2, <2>1, <3>3 DEF Younger
    <3>5. QED
          BY <1>2, <2>1, <3>2, <3>4 DEF Past
  <2>6. Past'
        BY <2>2, <2>3, <2>4, <2>5
  <2>7. QED
        BY <1>5, <2>6 DEF HInv
<1>8. CASE MoveNote
  <2>1. PICK p \in Paths, status \in Statuses :
          /\ notes[p] # None
          /\ notes' = [notes EXCEPT ![p].status = status, ![p].updated = clock + 1]
        BY <1>8 DEF MoveNote
  <2> DEFINE n == [notes[p] EXCEPT !.status = status, !.updated = clock + 1]
  <2>2. n.updated = clock + 1
        BY <1>1, <2>1 DEF Note
  <2>3. notes' = [notes EXCEPT ![p] = n]
        BY <1>1, <2>1
  <2> HIDE DEF n
  <2>4. clock' = clock + 1 /\ UNCHANGED <<board, moved>>
        BY <1>8 DEF MoveNote
  <2>5. \A q \in Paths : notes'[q] = IF q = p THEN n ELSE notes[q]
        BY <1>1, <2>3
  <2>6. \A q \in Paths : notes'[q] # None => notes'[q].updated <= clock'
        BY <1>1, <2>2, <2>4, <2>5
  <2>7. board # None => \A d \in board : d.checksum.updated <= clock'
    <3>1. board # None => \A d \in board : d.checksum.updated \in Nat
          BY DEF IInv, TypeOK, Cards, Note
    <3>2. QED
          BY <1>1, <1>2, <2>4, <3>1
  <2>8. ASSUME NEW d \in moved PROVE Younger(d)'
    <3>1. d.checksum.updated <= clock /\ d.checksum.updated \in Nat /\ d.source \in Paths
          BY <1>2, <1>3 DEF Younger
    <3>2. CASE d.source = p
          BY <1>1, <2>2, <2>4, <2>5, <3>1, <3>2 DEF Younger
    <3>3. CASE d.source # p
          BY <1>1, <1>2, <2>4, <2>5, <3>1, <3>3 DEF Younger
    <3>4. QED
          BY <3>2, <3>3
  <2>9. Past'
        BY <2>4, <2>6, <2>7, <2>8 DEF Past
  <2>10. QED
         BY <1>5, <2>9 DEF HInv
<1>9. QED
      BY <1>6, <1>7, <1>8 DEF Disturb

\* Before the first call every note, and every card rendered from one, is of the start
LEMMA HistoryInit == ASSUME IInv, Init PROVE HInv
<1>1. PICK title \in Titles :
        notes \in [Paths -> [id : Ids, status : Start, title : {title}, updated : {0}] \cup {None}]
      BY DEF Init
<1>2. \A p \in Paths : notes[p] # None => notes[p].updated = 0
      BY <1>1
<1>3. ASSUME NEW c \in Render(notes) PROVE c.checksum.updated = 0 /\ c \in Cards
  <2>1. PICK p \in Paths : notes[p] # None /\ c = Card(p, notes[p])
        BY <1>1, <1>3 DEF Render
  <2>2. notes[p] \in Note
        BY <2>1 DEF IInv, TypeOK
  <2>3. QED
        BY <1>2, <2>1, <2>2, CardIs DEF Card
<1>4. ASSUME board # None, NEW d \in board PROVE d.checksum.updated = 0
  <2>1. CASE board \in Drags(Render(notes))
    <3>1. PICK c \in Render(notes), lane \in Targets :
            board = (Render(notes) \ {c}) \cup {[c EXCEPT !.lane = lane]}
          BY <2>1 DEF Drags
    <3>2. [c EXCEPT !.lane = lane].checksum = c.checksum
          BY <1>3 DEF Cards
    <3>3. QED
          BY <1>3, <1>4, <3>1, <3>2
  <2>2. QED
        BY <1>3, <1>4, <2>1 DEF Init
<1>5. Past
      BY <1>2, <1>4 DEF Init, Past
<1>6. History(Idle)
      BY DEF Idle, History, Settled, Dated
<1>7. QED
      BY <1>5, <1>6 DEF Init, HInv

\* Every step keeps it
LEMMA HistoryStep == ASSUME IInv, HInv, [Next]_vars PROVE HInv'
<1>1. ASSUME NEW j \in Jobs, Called(j) PROVE HInv'
  <2>1. \E l : Goes(j, l) /\ History(l)
        BY <1>1, BeginTells, BeginMoveTells, ConfirmTells DEF Called
  <2>2. QED
        BY <2>1, GoesOn
<1>2. ASSUME NEW j \in Jobs, Step(j) PROVE HInv'
  <2>1. CASE \/ ReadBoard(j) \/ ReadNote(j) \/ Pick(j) \/ Reread(j) \/ Guard(j) \/ Collect(j)
             \/ WriteIndex(j)
    <3>1. \E l : Goes(j, l) /\ History(l)
          BY <2>1, ReadBoardTells, ReadNoteTells, PickTells, RereadTells, GuardTells, CollectTells,
             WriteIndexTells
    <3>2. QED
          BY <3>1, GoesOn
  <2>2. CASE Rename(j)
        BY <2>2, RenameTells
  <2>3. CASE WriteBoard(j)
        BY <2>3, WriteBoardTells
  <2>4. QED
        BY <1>2, <2>1, <2>2, <2>3 DEF Step
<1>3. ASSUME NEW j \in Jobs, Fail(j) PROVE HInv'
  <2>1. \E r \in Results \ {"applied"} : Goes(j, Ends(job[j], r))
        BY <1>3 DEF Fail, Results
  <2>2. job[j] \in Locals
        BY DEF IInv, TypeOK
  <2>3. QED
        BY <2>1, <2>2, EndsInVain, GoesOn
<1>4. CASE Disturb
      BY <1>4, DisturbTells
<1>5. CASE UNCHANGED vars
  <2>1. UNCHANGED <<notes, board, job, clock, moved>>
        BY <1>5 DEF vars
  <2>2. QED
        BY <2>1 DEF HInv, Past, Younger, History, Settled, Halfway, Lies, Dated
<1>6. QED
      BY <1>1, <1>2, <1>3, <1>4, <1>5 DEF Next

\* Left alone, an apply does what was asked, and the board it renders agrees with the notes
\* (reconcileBoard, applyProposalThroughVault, writeProjectionTargets): a job knows of each
\* card whether its note lies where it was rendered or where it was dragged to, and the
\* board it renders is of the notes as they are
THEOREM CalmAppliesAlways == Spec => []CalmApply
<1>1. ASSUME IInv, HInv PROVE CalmApply
  <2>1. SUFFICES ASSUME NEW j \in Jobs, job[j].result = "applied", job[j].calm
                 PROVE  /\ \A c \in job[j].cards :
                             notes[c.source] # None /\ notes[c.source].status = c.lane
                        /\ job[j].kind \notin {"dryRun", "apply"} /\ ~DuplicateIssue(notes) =>
                             ~Conflicts(board, notes) /\ Proposals(board, notes) = {}
        BY DEF CalmApply
  <2>2. /\ \A c \in job[j].cards : Lies(c, c.lane)
        /\ job[j].kind \notin {"dryRun", "apply"} => board = Render(notes)
        BY <1>1, <2>1 DEF HInv, History, Settled
  <2>3. notes \in [Paths -> Note \cup {None}]
        BY <1>1 DEF IInv, TypeOK
  <2>4. QED
        BY <2>2, <2>3, RenderAgrees DEF Lies
<1>2. QED
      BY <1>1, BoardAlways, HistoryInit, HistoryStep, PTL DEF Spec

\* A drag that was made asks for nothing any more, whatever became of the call that made it
\* (validateCardAgainstIssue compares checksums, of which `updated` is a part): the note
\* is younger than the card for as long as it is there
THEOREM DragsAreMadeOnce == Spec => []NoSecondMove
<1>1. ASSUME IInv, HInv PROVE NoSecondMove
  <2>1. SUFFICES ASSUME board # None, NEW c \in Proposals(board, notes), c \in moved PROVE FALSE
        BY DEF NoSecondMove
  <2>2. c.source \in Paths /\ c.checksum.updated \in Nat
        BY <1>1, <2>1 DEF IInv, TypeOK, Cards, Note
  <2>3. notes[c.source] # None /\ c.checksum = notes[c.source]
        BY <2>1 DEF Proposals, Conflict
  <2>4. c.checksum.updated < c.checksum.updated
        BY <1>1, <2>1, <2>3 DEF HInv, Past, Younger
  <2>5. QED
        BY <2>2, <2>4
<1>2. QED
      BY <1>1, BoardAlways, HistoryInit, HistoryStep, PTL DEF Spec
=============================================================================
