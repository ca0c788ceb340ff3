--------------------------- MODULE AuthoringProofs ---------------------------
(***************************************************************************)
(* Any number of writers, killed anywhere, beside people and the plugin's      *)
(* normalise: an id that is chosen is fresh, and no note is overwritten.        *)
(***************************************************************************)
EXTENDS Authoring, TLAPS, WellFoundedInduction

\* There is a number above all of them
HasBound(S) == \E b \in Nat : \A u \in S : u < b

\* The sets of ids the notes own stay below some number, so that there is a largest
IInv == AuthoringInv /\ HasBound(Used)

-----------------------------------------------------------------------------
(* Ids *)

\* One more id, or fewer, and there is still a bound
LEMMA BoundGrows ==
    ASSUME NEW S, NEW T, NEW k \in Nat, S \in SUBSET Nat, HasBound(S), T \subseteq S \cup {k}
    PROVE  HasBound(T)
<1>1. PICK b \in Nat : \A u \in S : u < b
      BY DEF HasBound
<1>2. PICK c \in Nat : b <= c /\ k < c
  <2>1. CASE k < b
        BY <2>1
  <2>2. CASE ~(k < b)
        BY <2>2, k + 1 \in Nat
  <2>3. QED
        BY <2>1, <2>2
<1>3. \A u \in T : u < c
      BY <1>1, <1>2
<1>4. QED
      BY <1>3 DEF HasBound

\* The smallest of the bounds is one more than the largest id, or 0
LEMMA LeastBound ==
    ASSUME NEW S \in SUBSET Nat, HasBound(S)
    PROVE  \E i \in {1} \cup {u + 1 : u \in S} : \A u \in S : u < i
<1> DEFINE T == {b \in Nat : \A u \in S : u < b}
<1>1. T \subseteq Nat /\ T # {}
      BY DEF HasBound
<1>2. \E x \in T : \A y \in T : ~(<<y, x>> \in OpToRel(<, Nat))
      BY <1>1, NatLessThanWellFounded, WFMin
<1>3. PICK x \in T : \A y \in T : ~(<<y, x>> \in OpToRel(<, Nat))
      BY <1>2
<1>4. ASSUME NEW y \in T PROVE ~(y < x)
  <2>1. <<y, x>> \notin OpToRel(<, Nat)
        BY <1>3
  <2>2. <<y, x>> \in Nat \X Nat /\ <<y, x>>[1] = y /\ <<y, x>>[2] = x
        BY <1>1
  <2>3. QED
        BY <2>1, <2>2 DEF OpToRel
<1>5. CASE x = 0
  <2>1. S = {}
        BY <1>5, x \in T
  <2>2. QED
        BY <2>1
<1>6. CASE x # 0
  <2>1. x - 1 \in Nat /\ x - 1 < x
        BY <1>6, x \in Nat
  <2>2. x - 1 \notin T
        BY <2>1, <1>4
  <2>3. PICK u \in S : ~(u < x - 1)
        BY <2>1, <2>2
  <2>4. x = u + 1
        BY <2>1, <2>3, x \in T, u \in Nat
  <2>5. QED
        BY <2>4, x \in T
<1>7. QED
      BY <1>5, <1>6

\* What allocateNextIssueId returns is above all ids of the space
LEMMA NextIdIsFresh ==
    ASSUME NEW S \in SUBSET Nat, HasBound(S)
    PROVE  NextId(S) \in Nat /\ NextId(S) # 0 /\ NextId(S) \notin S
<1>1. /\ NextId(S) \in {1} \cup {u + 1 : u \in S}
      /\ \A u \in S : u < NextId(S)
      BY LeastBound DEF NextId
<1>2. QED
      BY <1>1

-----------------------------------------------------------------------------
(* Types *)

\* The note Create leaves is the writer's, its id not yet written
LEMMA TargetIs ==
    ASSUME NEW w \in Writers, note[w] \in Notes
    PROVE  /\ Target(w) \in Notes /\ Target(w).id = 0
           /\ Target(w).number = note[w].number /\ Target(w).slug = note[w].slug
BY DEF Target, Notes

\* The ids of a space are numbers
LEMMA UsedAreNumbers == TypeOK => Used \in SUBSET Nat
BY DEF TypeOK, Notes, Used, OwnId

\* Every step keeps every variable in its range
LEMMA AuthoringTypes == IInv /\ [Next]_vars => TypeOK'
<1> SUFFICES ASSUME IInv, [Next]_vars PROVE TypeOK'
    OBVIOUS
<1> USE AuthoringAssumption DEF IInv, AuthoringInv, TypeOK, Kinds, Calls, Working, Loose, InPlace,
        caller, Goto, Leave, Look, Disturbs
<1>1. ASSUME NEW w \in Writers, Begin(w) PROVE TypeOK'
  <2>1. PICK k \in Kinds :
          /\ kind' = [kind EXCEPT ![w] = k]
          /\ \E n \in Requests(k) : note' = [note EXCEPT ![w] = n]
          /\ k \in Loose => changes < MaxChanges
          /\ changes' = changes + (IF k \in Loose THEN 1 ELSE 0)
          /\ pc' = [pc EXCEPT ![w] = IF k \notin Loose THEN "mkdir"
                                     ELSE IF k \in InPlace THEN "read" ELSE "scan"]
        BY <1>1 DEF Begin
  <2>2. Requests(k) \subseteq Notes
        BY DEF Requests, Notes
  <2>3. note' \in [Writers -> Notes \cup {NoNote}]
        BY <2>1, <2>2
  <2>4. changes' \in 0..MaxChanges
        BY <2>1
  <2>5. QED
        BY <1>1, <2>1, <2>3, <2>4 DEF Begin
<1>2. ASSUME NEW w \in Writers, Step(w) PROVE TypeOK'
  <2> USE DEF Placed
  <2>1. CASE Acquire(w)
        BY <2>1 DEF Acquire
  <2>2. CASE TimeOut(w)
        BY <2>2 DEF TimeOut
  <2>3. CASE Release(w)
        BY <2>3 DEF Release
  <2>4. CASE Scan(w)
    <3>1. note[w] \in Notes
          BY <2>4 DEF Scan
    <3>2. NextId(Used) \in Nat
          BY UsedAreNumbers, NextIdIsFresh
    <3>3. note' \in [Writers -> Notes \cup {NoNote}]
          BY <2>4, <3>1, <3>2 DEF Scan, Notes
    <3>4. QED
          BY <2>4, <3>3 DEF Scan
  <2>5. CASE Rescan(w)
        BY <2>5 DEF Rescan
  <2>6. CASE ReadSource(w)
        BY <2>6 DEF ReadSource
  <2>7. CASE ScanOwners(w)
        BY <2>7 DEF ScanOwners
  <2>8. CASE Create(w)
        BY <2>8, TargetIs DEF Create
  <2>9. CASE CreateRefused(w)
    <3>1. note[w] \in Notes
          BY <2>9 DEF CreateRefused
    <3>2. note' \in [Writers -> Notes \cup {NoNote}]
          BY <2>9, <3>1 DEF CreateRefused, Notes
    <3>3. QED
          BY <2>9, <3>2 DEF CreateRefused
  <2>10. CASE Write(w)
        BY <2>10 DEF Write
  <2>11. CASE Rewrite(w)
        BY <2>11 DEF Rewrite
  <2>12. QED
        BY <1>2, <2>1, <2>2, <2>3, <2>4, <2>5, <2>6, <2>7, <2>8, <2>9, <2>10, <2>11 DEF Step
<1>3. ASSUME NEW w \in Writers, Crash(w) PROVE TypeOK'
      BY <1>3 DEF Crash
<1>4. ASSUME Add PROVE TypeOK'
      BY <1>4 DEF Add, Disturb, Notes
<1>5. ASSUME Delete PROVE TypeOK'
      BY <1>5 DEF Delete, Disturb
<1>6. ASSUME RemoveLock PROVE TypeOK'
      BY <1>6 DEF RemoveLock
<1>7. CASE UNCHANGED vars
      BY <1>7 DEF vars
<1>8. QED
      BY <1>1, <1>2, <1>3, <1>4, <1>5, <1>6, <1>7 DEF Next

-----------------------------------------------------------------------------
(* Names, the lock, and where the writers are *)

\* No step gives two notes one name
LEMMA NamesStayUnique == IInv /\ [Next]_vars => NamesAreUnique'
<1> SUFFICES ASSUME IInv, [Next]_vars PROVE NamesAreUnique'
    OBVIOUS
<1>1. TypeOK /\ NamesAreUnique /\ \A w \in Writers : Placed(w)
      BY DEF IInv, AuthoringInv
<1> USE DEF NamesAreUnique
<1>2. CASE UNCHANGED notes
      BY <1>1, <1>2 DEF Name
<1>3. ASSUME NEW w \in Writers, Create(w) PROVE NamesAreUnique'
      BY <1>1, <1>3 DEF Create, Taken, Name
<1>4. ASSUME NEW w \in Writers, Write(w) PROVE NamesAreUnique'
  <2>1. note[w] \in Notes
        BY <1>1, <1>4 DEF Write, Placed
  <2>2. Name(Target(w)) = Name(note[w])
        BY <2>1, TargetIs DEF Name
  <2>3. CASE notes' = {IF n = Target(w) THEN note[w] ELSE n : n \in notes}
    <3>1. SUFFICES ASSUME NEW n \in notes, NEW m \in notes,
                          Name(IF n = Target(w) THEN note[w] ELSE n)
                             = Name(IF m = Target(w) THEN note[w] ELSE m)
                   PROVE  n = m
          BY <2>3 DEF Name
    <3>2. Name(n) = Name(m)
          BY <2>2, <3>1
    <3>3. QED
          BY <1>1, <3>2
  <2>4. QED
        BY <1>2, <1>4, <2>3 DEF Write
<1>5. ASSUME NEW w \in Writers, Rewrite(w) PROVE NamesAreUnique'
      BY <1>1, <1>5 DEF Rewrite, Name
<1>6. ASSUME Add PROVE NamesAreUnique'
  <2>1. PICK number \in 0..MaxNumber, s \in Slugs, i \in {0} \cup {m.id : m \in notes} :
          /\ \A n \in notes : Name(n) # <<number, s>>
          /\ notes' = notes \cup {[number |-> number, slug |-> s, id |-> i]}
        BY <1>6 DEF Add
  <2>2. Name([number |-> number, slug |-> s, id |-> i]) = <<number, s>>
        BY DEF Name
  <2>3. QED
        BY <1>1, <2>1, <2>2 DEF Name
<1>7. ASSUME Delete PROVE NamesAreUnique'
      BY <1>1, <1>7 DEF Delete, Name
<1>8. QED
  <2>1. ASSUME NEW w \in Writers, Step(w) PROVE NamesAreUnique'
        BY <1>2, <1>3, <1>4, <1>5, <2>1
        DEF Step, Acquire, TimeOut, Release, Scan, Rescan, ReadSource, ScanOwners, CreateRefused
  <2>2. ASSUME NEW w \in Writers, Begin(w) \/ Crash(w) PROVE NamesAreUnique'
        BY <1>2, <2>2 DEF Begin, Crash
  <2>3. CASE RemoveLock \/ UNCHANGED vars
        BY <1>2, <2>3 DEF RemoveLock, vars
  <2>4. QED
        BY <1>6, <1>7, <2>1, <2>2, <2>3 DEF Next

\* Whoever works under the lock made its directory
LockIsMine == \A v \in Writers : Holds(v) => lockDir = v

\* No step lets a second writer work under the lock, a lost directory or a person
\* who removes an orphaned one included
LEMMA LockStaysMine == IInv /\ [Next]_vars => LockIsMine'
<1> SUFFICES ASSUME IInv, [Next]_vars PROVE LockIsMine'
    OBVIOUS
<1>1. TypeOK /\ LockIsMine
      BY DEF IInv, AuthoringInv, LockIsMine
<1> USE <1>1, AuthoringAssumption DEF TypeOK, LockIsMine, Holds, Working, Loose, InPlace, Kinds,
        Goto, Leave, caller
<1>2. ASSUME NEW w \in Writers, Begin(w) PROVE LockIsMine'
      BY <1>2 DEF Begin
<1>3. ASSUME NEW w \in Writers, Acquire(w) PROVE LockIsMine'
      BY <1>3 DEF Acquire
<1>4. ASSUME NEW w \in Writers, TimeOut(w) \/ Release(w) \/ Crash(w) PROVE LockIsMine'
      BY <1>4 DEF TimeOut, Release, Crash
<1>5. ASSUME NEW w \in Writers, Scan(w) \/ Rescan(w) \/ ReadSource(w) \/ ScanOwners(w)
      PROVE  LockIsMine'
      BY <1>5 DEF Scan, Rescan, ReadSource, ScanOwners
<1>6. ASSUME NEW w \in Writers, Create(w) \/ CreateRefused(w) \/ Write(w) \/ Rewrite(w)
      PROVE  LockIsMine'
      BY <1>6 DEF Create, CreateRefused, Write, Rewrite
<1>7. CASE Add \/ Delete \/ UNCHANGED vars
      BY <1>7 DEF Add, Delete, Disturb, vars
<1>8. CASE RemoveLock
      BY <1>8 DEF RemoveLock, Orphaned
<1>9. QED
      BY <1>2, <1>3, <1>4, <1>5, <1>6, <1>7, <1>8 DEF Next, Step

\* No step leaves a writer with a note that does not fit the call it goes to
LEMMA StaysPlaced == IInv /\ [Next]_vars => (\A v \in Writers : Placed(v))'
<1> SUFFICES ASSUME IInv, [Next]_vars, NEW v \in Writers PROVE Placed(v)'
    OBVIOUS
<1>1. TypeOK /\ \A w \in Writers : Placed(w)
      BY DEF IInv, AuthoringInv
<1> USE <1>1, AuthoringAssumption DEF TypeOK, Placed, Loose, InPlace, Kinds, Working,
        Goto, Leave, caller
<1>2. ASSUME NEW w \in Writers, Begin(w) PROVE Placed(v)'
  <2>1. PICK k \in Kinds :
          /\ kind' = [kind EXCEPT ![w] = k]
          /\ \E n \in Requests(k) : note' = [note EXCEPT ![w] = n]
          /\ pc' = [pc EXCEPT ![w] = IF k \notin Loose THEN "mkdir"
                                     ELSE IF k \in InPlace THEN "read" ELSE "scan"]
        BY <1>2 DEF Begin
  <2>2. PICK n \in Requests(k) : note' = [note EXCEPT ![w] = n]
        BY <2>1
  <2>3. n \in Notes /\ (k = "looseNew" => n.id = 0)
        BY <2>1 DEF Requests, Notes
  <2>4. QED
        BY <2>1, <2>2, <2>3
<1>3. ASSUME NEW w \in Writers, Acquire(w) PROVE Placed(v)'
      BY <1>3 DEF Acquire
<1>4. ASSUME NEW w \in Writers, TimeOut(w) \/ Release(w) \/ Crash(w) PROVE Placed(v)'
      BY <1>4 DEF TimeOut, Release, Crash
<1>5. ASSUME NEW w \in Writers, Scan(w) PROVE Placed(v)'
  <2>1. NextId(Used) \in Nat /\ NextId(Used) # 0
        BY UsedAreNumbers, NextIdIsFresh DEF IInv
  <2>2. note[w] \in Notes
        BY <1>5 DEF Scan
  <2>3. CASE pc'[w] = "rm"
        BY <1>5, <2>2, <2>3 DEF Scan
  <2>4. CASE pc'[w] # "rm"
    <3>1. PICK i \in Nat \ {0} : /\ note' = [note EXCEPT ![w].number = i, ![w].id = i]
                                 /\ pc'[w] \in {"rescan", "create"}
          BY <1>5, <2>1, <2>2, <2>4 DEF Scan, Notes
    <3>2. note'[w] \in Notes /\ note'[w].id = i /\ note'[w].number = i
          BY <2>2, <3>1 DEF Notes
    <3>3. QED
          BY <1>5, <3>1, <3>2 DEF Scan
  <2>5. QED
        BY <2>3, <2>4
<1>6. ASSUME NEW w \in Writers, Rescan(w) \/ ScanOwners(w) PROVE Placed(v)'
      BY <1>6 DEF Rescan, ScanOwners
<1>7. ASSUME NEW w \in Writers, ReadSource(w) PROVE Placed(v)'
      BY <1>7 DEF ReadSource
<1>8. ASSUME NEW w \in Writers, CreateRefused(w) PROVE Placed(v)'
  <2>1. note[w] \in Notes
        BY <1>8 DEF CreateRefused
  <2>2. CASE kind[w] = "new" /\ ~retried[w]
    <3>1. note'[w] \in Notes
          BY <1>8, <2>1, <2>2 DEF CreateRefused, Notes
    <3>2. QED
          BY <1>8, <2>2, <3>1 DEF CreateRefused
  <2>3. QED
        BY <1>8, <2>2 DEF CreateRefused
<1>9. ASSUME NEW w \in Writers, Create(w) \/ Write(w) \/ Rewrite(w) PROVE Placed(v)'
      BY <1>9 DEF Create, Write, Rewrite
<1>10. CASE Add \/ Delete \/ RemoveLock \/ UNCHANGED vars
      BY <1>10 DEF Add, Delete, Disturb, RemoveLock, vars
<1>11. QED
      BY <1>2, <1>3, <1>4, <1>5, <1>6, <1>7, <1>8, <1>9, <1>10 DEF Next, Step

-----------------------------------------------------------------------------
(* The ids stay below some number *)

\* A step adds one note at most
LEMMA OneNoteMore ==
    ASSUME IInv, NEW n \in Notes, notes' \subseteq notes \cup {n}
    PROVE  HasBound(Used)'
<1>1. OwnId(n) \in Nat
      BY DEF OwnId, Notes
<1>2. Used' \subseteq Used \cup {OwnId(n)}
      BY DEF Used, OwnId
<1>3. QED
      BY <1>1, <1>2, UsedAreNumbers, BoundGrows DEF IInv, AuthoringInv, HasBound

\* So they have a largest, always
LEMMA BoundStays == IInv /\ [Next]_vars => HasBound(Used)'
<1> SUFFICES ASSUME IInv, [Next]_vars PROVE HasBound(Used)'
    OBVIOUS
<1>1. TypeOK /\ \A w \in Writers : Placed(w)
      BY DEF IInv, AuthoringInv
<1>2. CASE UNCHANGED notes
      BY <1>2 DEF IInv, HasBound, Used, OwnId
<1>3. ASSUME NEW w \in Writers, Create(w) \/ Write(w) \/ Rewrite(w) PROVE HasBound(Used)'
  <2>1. note[w] \in Notes /\ Target(w) \in Notes
        BY <1>1, <1>3, TargetIs DEF Create, Write, Rewrite, Placed
  <2>2. notes' \subseteq notes \cup {Target(w)} \/ notes' \subseteq notes \cup {note[w]}
        BY <1>3 DEF Create, Write, Rewrite
  <2>3. QED
        BY <2>1, <2>2, OneNoteMore
<1>4. CASE Add
  <2>1. PICK number \in 0..MaxNumber, s \in Slugs, i \in {0} \cup {m.id : m \in notes} :
          notes' = notes \cup {[number |-> number, slug |-> s, id |-> i]}
        BY <1>4 DEF Add
  <2>2. [number |-> number, slug |-> s, id |-> i] \in Notes
        BY <1>1, AuthoringAssumption DEF Notes, TypeOK
  <2>3. QED
        BY <2>1, <2>2, OneNoteMore
<1>5. CASE Delete
  <2>1. PICK n \in notes : notes' = notes \ {n}
        BY <1>5 DEF Delete
  <2>2. n \in Notes
        BY <1>1 DEF TypeOK
  <2>3. QED
        BY <2>1, <2>2, OneNoteMore
<1>6. QED
  <2>1. ASSUME NEW w \in Writers, Step(w) PROVE HasBound(Used)'
        BY <1>2, <1>3, <2>1
        DEF Step, Acquire, TimeOut, Release, Scan, Rescan, ReadSource, ScanOwners, CreateRefused
  <2>2. ASSUME NEW w \in Writers, Begin(w) \/ Crash(w) PROVE HasBound(Used)'
        BY <1>2, <2>2 DEF Begin, Crash
  <2>3. CASE RemoveLock \/ UNCHANGED vars
        BY <1>2, <2>3 DEF RemoveLock, vars
  <2>4. QED
        BY <1>4, <1>5, <2>1, <2>2, <2>3 DEF Next

-----------------------------------------------------------------------------
(* What a writer saw *)

\* The id of the note a writer is to create is chosen to be nobody's
LEMMA ScanFindsFree ==
    ASSUME IInv, NEW w \in Writers, Scan(w), pc'[w] \in {"rescan", "create"},
           kind[w] # "looseOwn"
    PROVE  Owners(note'[w].id) = {}
<1>1. TypeOK /\ Placed(w) /\ note[w] \in Notes
      BY DEF IInv, AuthoringInv, Placed, Scan
<1>2. kind[w] # "looseInPlace" /\ (kind[w] = "looseNew" => note[w].id = 0)
      BY <1>1 DEF Placed, Scan, InPlace
<1>3. note'[w].id = IF note[w].id = 0 THEN NextId(Used) ELSE note[w].id
      BY <1>1 DEF Scan, Goto, TypeOK, Notes
<1>4. CASE note[w].id = 0
  <2>1. NextId(Used) \notin Used
        BY <1>1, UsedAreNumbers, NextIdIsFresh DEF IInv
  <2>2. QED
        BY <1>3, <1>4, <2>1 DEF Owners, Used
<1>5. CASE note[w].id # 0
  <2>1. kind[w] \notin Loose
        BY <1>2, <1>5 DEF Loose
  <2>2. Owners(note[w].id) = {}
        BY <1>1, <1>5, <2>1 DEF Scan, Goto, TypeOK
  <2>3. QED
        BY <1>3, <1>5, <2>2
<1>6. QED
      BY <1>4, <1>5

\* Filling in the note that was created changes nobody's id and nobody's source
LEMMA WriteKeepsOwners ==
    ASSUME IInv, NEW w \in Writers, Write(w), NEW v \in Writers, Current(v),
           v # w, UNCHANGED <<pc[v], kind[v], note[v], disturbed[v]>>
    PROVE  Current(v)'
<1>1. /\ TypeOK /\ Placed(v)
      /\ note[w] \in Notes /\ note[w].id = note[w].number /\ note[w].id # 0
      BY DEF IInv, AuthoringInv, Placed, Write
<1>2. CASE notes' = notes
      BY <1>2 DEF Current, Owners
<1>3. CASE notes' = {IF n = Target(w) THEN note[w] ELSE n : n \in notes}
  <2>1. /\ OwnId(note[w]) = note[w].id /\ OwnId(Target(w)) = note[w].id
        /\ Target(w).id = 0
        BY <1>1, TargetIs DEF OwnId
  <2>2. ASSUME NEW n \in notes'
        PROVE  \/ n \in notes /\ n # Target(w)
               \/ Target(w) \in notes /\ n = note[w]
        BY <1>3
  <2>3. ASSUME NEW n \in notes, n # Target(w) PROVE n \in notes'
        BY <1>3, <2>3
  <2>4. SUFFICES ASSUME ~disturbed[v]
                 PROVE  /\ pc[v] \in {"rescan", "create"} /\ kind[v] # "looseOwn" =>
                               {n \in notes' : OwnId(n) = note[v].id} = {}
                        /\ pc[v] = "rewrite" => note[v] \in notes'
                        /\ pc[v] = "rewrite" /\ kind[v] = "inPlace" =>
                               {n \in notes' : OwnId(n) = note[v].id} = {note[v]}
        BY DEF Current, Owners, OwnId
  <2>5. ASSUME pc[v] \in {"rescan", "create"} /\ kind[v] # "looseOwn"
        PROVE  {n \in notes' : OwnId(n) = note[v].id} = {}
    <3>1. \A n \in notes : OwnId(n) # note[v].id
          BY <2>4, <2>5 DEF Current, Owners
    <3>2. QED
          BY <2>1, <2>2, <3>1
  <2>6. ASSUME pc[v] = "rewrite" PROVE note[v] \in notes'
        BY <1>1, <2>1, <2>3, <2>4, <2>6 DEF Current, Placed
  <2>7. ASSUME pc[v] = "rewrite" /\ kind[v] = "inPlace"
        PROVE  {n \in notes' : OwnId(n) = note[v].id} = {note[v]}
    <3>1. /\ \A n \in notes : OwnId(n) = note[v].id => n = note[v]
          /\ note[v] \in notes'
          BY <2>4, <2>6, <2>7 DEF Current, Owners
    <3>2. Target(w) \in notes => OwnId(Target(w)) # note[v].id
          BY <1>1, <2>1, <2>7, <3>1 DEF Placed
    <3>3. \A n \in notes' : OwnId(n) = note[v].id => n = note[v]
          BY <2>1, <2>2, <3>1, <3>2
    <3>4. OwnId(note[v]) = note[v].id
          BY <1>1, <2>7 DEF OwnId, Placed
    <3>5. QED
          BY <3>1, <3>3, <3>4
  <2>8. QED
        BY <2>5, <2>6, <2>7
<1>4. QED
      BY <1>2, <1>3 DEF Write

\* What the others saw is still so after every step but those that disturb them
LEMMA StaysCurrent == IInv /\ [Next]_vars => (\A v \in Writers : Current(v))'
<1> SUFFICES ASSUME IInv, [Next]_vars, NEW v \in Writers PROVE Current(v)'
    OBVIOUS
<1>1. TypeOK /\ LockIsMine /\ Placed(v) /\ Current(v)
      BY DEF IInv, AuthoringInv, LockIsMine
<1> USE <1>1, AuthoringAssumption DEF TypeOK, Goto, Leave, Look, caller
<1>2. CASE UNCHANGED <<notes, pc[v], kind[v], note[v], disturbed[v]>>
      BY <1>2 DEF Current, Owners
<1>3. ASSUME NEW w \in Writers, Begin(w) \/ Acquire(w) \/ TimeOut(w) \/ Release(w) \/ Crash(w)
      PROVE  Current(v)'
  <2>1. CASE w = v
        BY <1>3, <2>1 DEF Begin, Acquire, TimeOut, Release, Crash, Current
  <2>2. CASE w # v
        BY <1>2, <1>3, <2>2 DEF Begin, Acquire, TimeOut, Release, Crash
  <2>3. QED
        BY <2>1, <2>2
<1>4. ASSUME NEW w \in Writers, Scan(w) PROVE Current(v)'
  <2>1. CASE w = v
    <3>1. /\ pc'[v] \in {"rm", "rescan", "create"}
          /\ kind' = kind /\ notes' = notes
          BY <1>4, <2>1 DEF Scan
    <3>2. pc'[v] # "rm" /\ kind[v] # "looseOwn" => Owners(note'[v].id) = {}
          BY <1>4, <2>1, <3>1, ScanFindsFree
    <3>3. QED
          BY <3>1, <3>2 DEF Current, Owners
  <2>2. CASE w # v
        BY <1>2, <1>4, <2>2 DEF Scan
  <2>3. QED
        BY <2>1, <2>2
<1>5. ASSUME NEW w \in Writers, Rescan(w) PROVE Current(v)'
  <2>1. CASE w = v
        BY <1>5, <2>1 DEF Rescan, Current, Owners
  <2>2. CASE w # v
        BY <1>2, <1>5, <2>2 DEF Rescan
  <2>3. QED
        BY <2>1, <2>2
<1>6. ASSUME NEW w \in Writers, ReadSource(w) PROVE Current(v)'
  <2>1. CASE w = v
        BY <1>6, <2>1 DEF ReadSource, Current, Loose
  <2>2. CASE w # v
        BY <1>2, <1>6, <2>2 DEF ReadSource
  <2>3. QED
        BY <2>1, <2>2
<1>7. ASSUME NEW w \in Writers, ScanOwners(w) PROVE Current(v)'
  <2>1. CASE w = v
        BY <1>7, <2>1 DEF ScanOwners, Current, Owners
  <2>2. CASE w # v
        BY <1>2, <1>7, <2>2 DEF ScanOwners
  <2>3. QED
        BY <2>1, <2>2
<1>8. ASSUME NEW w \in Writers, CreateRefused(w) PROVE Current(v)'
  <2>1. CASE w = v
        BY <1>8, <2>1 DEF CreateRefused, Current
  <2>2. CASE w # v
        BY <1>2, <1>8, <2>2 DEF CreateRefused
  <2>3. QED
        BY <2>1, <2>2
<1>9. ASSUME NEW w \in Writers, Create(w) \/ Rewrite(w) PROVE Current(v)'
  <2>1. CASE w = v
        BY <1>9, <2>1 DEF Create, Rewrite, Current
  <2>2. CASE w # v /\ pc[v] \in Working
    <3>1. kind[v] \in Loose \/ kind[w] \in Loose
          BY <1>9, <2>2 DEF LockIsMine, Holds, Working, Create, Rewrite
    <3>2. disturbed'[v]
          BY <1>9, <2>2, <3>1 DEF Create, Rewrite, Disturbs
    <3>3. QED
          BY <3>2 DEF Current
  <2>3. CASE w # v /\ pc[v] \notin Working
        BY <1>9, <2>3 DEF Create, Rewrite, Current, Working
  <2>4. QED
        BY <2>1, <2>2, <2>3
<1>10. ASSUME NEW w \in Writers, Write(w) PROVE Current(v)'
  <2>1. CASE w = v
        BY <1>10, <2>1 DEF Write, Current
  <2>2. CASE w # v
    <3>1. UNCHANGED <<pc[v], kind[v], note[v], disturbed[v]>>
          BY <1>10, <2>2 DEF Write
    <3>2. QED
          BY <1>10, <2>2, <3>1, WriteKeepsOwners
  <2>3. QED
        BY <2>1, <2>2
<1>11. CASE Add \/ Delete
      BY <1>11 DEF Add, Delete, Disturb, Current, Working
<1>12. CASE RemoveLock \/ UNCHANGED vars
      BY <1>2, <1>12 DEF RemoveLock, vars
<1>13. QED
      BY <1>3, <1>4, <1>5, <1>6, <1>7, <1>8, <1>9, <1>10, <1>11, <1>12 DEF Next, Step

-----------------------------------------------------------------------------
(* The theorems *)

\* The space starts with one note and nobody at work
LEMMA AuthoringInit == Init => IInv
<1> SUFFICES ASSUME Init PROVE IInv
    OBVIOUS
<1>1. PICK s \in Slugs : notes = {[number |-> 1, slug |-> s, id |-> 1]}
      BY DEF Init
<1>2. TypeOK
      BY <1>1, AuthoringAssumption DEF Init, TypeOK, Notes, Calls, Kinds
<1>3. Used \subseteq {1}
      BY <1>1 DEF Used, OwnId
<1>4. HasBound(Used)
      BY <1>3, 2 \in Nat DEF HasBound
<1>5. NamesAreUnique /\ \A w \in Writers : ~Holds(w) /\ Placed(w) /\ Current(w)
      BY <1>1 DEF Init, NamesAreUnique, Holds, Working, Placed, Current
<1>6. QED
      BY <1>2, <1>4, <1>5 DEF IInv, AuthoringInv

\* Every step keeps the invariant
LEMMA AuthoringStep == IInv /\ [Next]_vars => IInv'
BY AuthoringTypes, NamesStayUnique, LockStaysMine, StaysPlaced, StaysCurrent, BoundStays
   DEF IInv, AuthoringInv, LockIsMine

\* The invariant, with the bound on the ids
LEMMA AuthoringAlways == Spec => []IInv
<1>1. Init => IInv
      BY AuthoringInit
<1>2. IInv /\ [Next]_vars => IInv'
      BY AuthoringStep
<1>3. QED
      BY <1>1, <1>2, PTL DEF Spec

\* The authoring lock of issue-writer.ts, obsidian-authoring.ts and
\* normalize-issue.ts: one process at a time works under it, no two notes have a
\* name, and what a writer saw of the folder is still so unless somebody the lock
\* does not stop has written since.
THEOREM AuthoringInvariance == Spec => []AuthoringInv
<1>1. IInv => AuthoringInv
      BY DEF IInv
<1>2. QED
      BY <1>1, AuthoringAlways, PTL

\* An id allocateNextIssueId chooses, or a draft brings, is no other note's when its
\* note is created, however many writers are killed half way.
THEOREM IdsAreFresh == Spec => FreshIds
<1>1. ASSUME IInv, NEW w \in Writers, Create(w)
      PROVE  note[w].id \notin Used \/ disturbed[w] \/ kind[w] = "looseOwn"
      BY <1>1 DEF IInv, AuthoringInv, Current, Create, Owners, Used
<1>2. IInv => \A w \in Writers : Create(w) =>
                 note[w].id \notin Used \/ disturbed[w] \/ kind[w] = "looseOwn"
      BY <1>1
<1>3. QED
      BY <1>2, AuthoringAlways, PTL DEF FreshIds

\* Creating a note overwrites none, and normalising in place replaces the note it
\* read and no other that has taken its name.
THEOREM NothingIsOverwritten == Spec => NothingOverwritten
<1> DEFINE Allowed(n) ==
              \/ Delete
              \/ \E w \in Writers : n = Target(w) /\ Write(w)
              \/ \E w \in Writers : Name(n) = Name(note[w]) /\ Rewrite(w) /\ disturbed[w]
<1>1. ASSUME IInv, [Next]_vars, NEW n \in notes, n \notin notes' PROVE Allowed(n)
  <2>1. notes' # notes
        BY <1>1
  <2>2. ASSUME NEW w \in Writers, Create(w) PROVE FALSE
        BY <1>1, <2>2 DEF Create
  <2>3. ASSUME NEW w \in Writers, Write(w) PROVE Allowed(n)
    <3>1. n = Target(w)
          BY <1>1, <2>3 DEF Write
    <3>2. QED
          BY <2>3, <3>1
  <2>4. ASSUME NEW w \in Writers, Rewrite(w) PROVE Allowed(n)
    <3>1. /\ notes' = {m \in notes : Name(m) # Name(note[w])} \cup {note[w]}
          /\ Name(n) = Name(note[w])
          BY <1>1, <2>1, <2>4 DEF Rewrite
    <3>2. note[w] \notin notes
          BY <1>1, <3>1 DEF IInv, AuthoringInv, NamesAreUnique
    <3>3. disturbed[w]
          BY <1>1, <2>4, <3>2 DEF IInv, AuthoringInv, Current, Rewrite
    <3>4. QED
          BY <2>4, <3>1, <3>3
  <2>5. ASSUME Add PROVE FALSE
        BY <1>1, <2>5 DEF Add
  <2>6. ASSUME NEW w \in Writers, Step(w) PROVE Allowed(n)
        BY <2>1, <2>2, <2>3, <2>4, <2>6
        DEF Step, Acquire, TimeOut, Release, Scan, Rescan, ReadSource, ScanOwners, CreateRefused
  <2>7. Delete \/ \E w \in Writers : Step(w)
        BY <1>1, <2>1, <2>5 DEF Next, Begin, Crash, RemoveLock, vars
  <2>8. QED
        BY <2>6, <2>7
<1>2. IInv /\ [Next]_vars => \A n \in notes : n \notin notes' => Allowed(n)
      BY <1>1
<1>3. QED
      BY <1>2, AuthoringAlways, PTL DEF Spec, NothingOverwritten
=============================================================================
