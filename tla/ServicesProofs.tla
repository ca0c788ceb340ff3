--------------------------- MODULE ServicesProofs ---------------------------
(***************************************************************************)
(* What the queues, the issue note and the calls of MCServices keep true. For each   *)
(* part its inductive invariant and that every step of it keeps it; the parts share    *)
(* no state and one of them is active, so what it keeps is kept.                     *)
(* The bounds are any numbers, and the letters, tasks, slots, calls, ids, issues and    *)
(* listeners any sets; of ids, session calls and listeners finite ones.              *)
(***************************************************************************)
EXTENDS MCServices, FiniteSetTheorems, WellFoundedInduction, TLAPS

\* Of numbers there is a smallest
LEMMA LeastNumber == ASSUME NEW T \in SUBSET Nat, T # {} PROVE \E x \in T : \A y \in T : x <= y
<1>1. PICK x \in T : \A y \in T : ~ (<<y, x>> \in OpToRel(<, Nat))
      BY NatLessThanWellFounded, WFMin
<1>2. \A y \in T : ~(y < x)
      BY <1>1 DEF OpToRel
<1>3. QED
      BY <1>2

-----------------------------------------------------------------------------
(* The dead letter queue *)

DlqValues == /\ DlqCalls \in Nat /\ DlqLoads \in Nat /\ DlqFaults \in Nat
             /\ None \notin SUBSET Letters /\ Torn \notin SUBSET Letters

\* A link that is under way is the first, and what it has loaded or is to write has
\* the letters that were accepted and, if it adds one, that one
DlqLinks ==
    /\ stage # "start" => chain # <<>>
    /\ stage \in {"mkdir", "writing"} => dlqLoaded
    /\ ~dlqLate /\ ~torn =>
         /\ dlqFile = Torn => stage = "writing"
         /\ stage \in {"loading", "writing"} => accepted \subseteq read
         /\ reader # None /\ ~dlqLoaded => accepted \subseteq reader
         /\ stage = "mkdir" /\ Head(chain).op = "add" => Head(chain).letter \in entries
         /\ stage = "writing" /\ Head(chain).op = "add" =>
              Head(chain).letter \in read \cap entries

DlqIInv == Dlq!DeadLetterInv /\ DlqLinks

\* A step of the queue keeps it
LEMMA DlqStep ==
    ASSUME DlqValues, DlqIInv, Dlq!Next \/ UNCHANGED dlq
    PROVE  DlqIInv'
<1> USE DEF DlqValues, DlqIInv, Dlq!DeadLetterInv, Dlq!TypeOK, Dlq!AcceptedIsKept, DlqLinks
<1>1. ASSUME NEW c \in Dlq!Calls, Dlq!Call(c) PROVE DlqIInv'
  <2>1. Append(chain, c) \in Seq(Dlq!Calls) /\ Append(chain, c) # <<>>
        /\ (chain # <<>> => Head(Append(chain, c)) = Head(chain))
        OBVIOUS
  <2>2. QED
        BY <1>1, <2>1 DEF Dlq!Call
<1>2. CASE Dlq!StartLoad
  <2>1. Dlq!Parsed \subseteq Letters /\ (~dlqLate /\ ~torn => accepted \subseteq Dlq!Parsed)
        BY <1>2 DEF Dlq!StartLoad, Dlq!Parsed
  <2>2. QED
        BY <1>2, <2>1 DEF Dlq!StartLoad, Dlq!Busy
<1>3. CASE Dlq!Apply
  <2>1. Head(chain) \in Dlq!Calls
        BY <1>3 DEF Dlq!Apply, Dlq!Busy
  <2>2. CASE Head(chain).op = "add"
    <3>1. Head(chain).letter \in Letters
          BY <2>1, <2>2 DEF Dlq!Calls
    <3>2. QED
        BY <1>3, <2>2, <3>1 DEF Dlq!Apply, Dlq!Changed, Dlq!Busy
  <2>3. CASE Head(chain).op = "remove"
        BY <1>3, <2>1, <2>3 DEF Dlq!Apply, Dlq!Changed, Dlq!Calls, Dlq!Busy
  <2>4. CASE Head(chain).op = "clear"
        BY <1>3, <2>1, <2>4 DEF Dlq!Apply, Dlq!Changed, Dlq!Calls, Dlq!Busy
  <2>5. QED
        BY <2>1, <2>2, <2>3, <2>4 DEF Dlq!Calls
<1>4. CASE Dlq!Truncate
      BY <1>4 DEF Dlq!Truncate
<1>5. CASE Dlq!Written
  <2>1. Head(chain) \in Dlq!Calls /\ Tail(chain) \in Seq(Dlq!Calls)
        BY <1>5 DEF Dlq!Written
  <2>2. CASE Head(chain).op = "add"
    <3>1. Head(chain).letter \in Letters
          BY <2>1, <2>2 DEF Dlq!Calls
    <3>2. QED
          BY <1>5, <2>1, <2>2, <3>1 DEF Dlq!Written
  <2>3. CASE Head(chain).op # "add"
        BY <1>5, <2>1, <2>3 DEF Dlq!Written
  <2>4. QED
        BY <2>2, <2>3
<1>6. CASE Dlq!Fails
      BY <1>6 DEF Dlq!Fails
<1>7. CASE Dlq!Dies
  <2>1. <<>> \in Seq(Dlq!Calls)
        OBVIOUS
  <2>2. None \in (SUBSET Letters) \cup {None} /\ {} \subseteq Letters
        OBVIOUS
  <2>3. dlqFile # Torn \/ torn' \/ dlqLate
        BY <1>7 DEF Dlq!Dies
  <2>4. Dlq!TypeOK'
    <3>1. torn' \in BOOLEAN
          BY <1>7 DEF Dlq!Dies
    <3>2. dlqFaults' \in 0..DlqFaults
          BY <1>7 DEF Dlq!Dies
    <3>3. entries' \subseteq Letters /\ dlqLoaded' \in BOOLEAN /\ read' \subseteq Letters
           /\ poisoned' \in BOOLEAN /\ reader' \in (SUBSET Letters) \cup {None}
          BY <1>7 DEF Dlq!Dies
    <3>4. chain' \in Seq(Dlq!Calls) /\ stage' \in {"start", "loading", "mkdir", "writing"}
          BY <1>7, <2>1 DEF Dlq!Dies
    <3>5. UNCHANGED <<dlqFile, accepted, dlqLate, dlqCalls, loads>>
          BY <1>7 DEF Dlq!Dies
    <3>6. QED
          BY <3>1, <3>2, <3>3, <3>4, <3>5
  <2>5. Dlq!AcceptedIsKept'
        BY <1>7, <2>3 DEF Dlq!Dies
  <2>6. DlqLinks'
        BY <1>7, <2>3 DEF Dlq!Dies
  <2>7. QED
        BY <2>4, <2>5, <2>6
<1>8. CASE Dlq!ReaderLoads
      BY <1>8 DEF Dlq!ReaderLoads, Dlq!Parsed
<1>9. CASE Dlq!ReaderAssigns
      BY <1>9 DEF Dlq!ReaderAssigns
<1>10. CASE UNCHANGED dlq
      BY <1>10 DEF dlq
<1>11. QED
      BY <1>1, <1>2, <1>3, <1>4, <1>5, <1>6, <1>7, <1>8, <1>9, <1>10 DEF Dlq!Next

\* The queue starts so
LEMMA DlqInit == ASSUME DlqValues, Dlq!Init PROVE DlqIInv
<1>1. Dlq!TypeOK
  <2>1. <<>> \in Seq(Dlq!Calls) /\ {} \in SUBSET Letters
        OBVIOUS
  <2>2. 0 \in 0..DlqCalls /\ 0 \in 0..DlqLoads /\ 0 \in 0..DlqFaults
        BY DEF DlqValues
  <2>3. QED
        BY <2>1, <2>2 DEF Dlq!Init, Dlq!TypeOK
<1>2. Dlq!AcceptedIsKept /\ DlqLinks
      BY DEF Dlq!Init, Dlq!AcceptedIsKept, DlqLinks, DlqValues
<1>3. QED
      BY <1>1, <1>2 DEF DlqIInv, Dlq!DeadLetterInv

-----------------------------------------------------------------------------
(* The queue of rate-limited calls *)

RlValues == /\ RlSize \in Nat /\ RlCalls \in Nat /\ RlFaults \in Nat
            /\ None \notin RlTasks /\ Torn \notin Seq(Rl!Entry)

\* A list that is within the limit, in order, and has no task twice
RlSoundQueue(q) == /\ Len(q) <= RlSize
                   /\ \A k \in 1..Len(q) - 1 : q[k + 1].high => q[k].high
                   /\ \A i, j \in DOMAIN q : q[i].task = q[j].task => i = j

RlEnqueues(s) == rlCall[s].kind = "execute"
RlTakes(s)    == rlCall[s].kind = "dequeue" /\ rlCall[s].pc \in {"mkdir", "writing"}
RlEarlyCall(s)    == RlEnqueues(s) /\ rlCall[s].pc \in {"credentials", "asking", "load",
  "loading"}

\* What the lists and the calls under way have to do with each other, always: the lists are
\* sound and have only tasks that were sent, and a task that is not queued yet is in none
RlSound == /\ RlSoundQueue(queue) /\ (rlFile # Torn => RlSoundQueue(rlFile))
           /\ \A s \in RlSlots : RlSoundQueue(rlCall[s].buf)
RlKinds == \A s \in RlSlots :
             /\ RlEnqueues(s) \/ RlTakes(s) => rlCall[s].task \in rlSent
             /\ rlCall[s].pc \in {"mkdir", "writing"} => rlLoaded
             /\ rlCall[s].pc \in {"credentials", "asking"} => RlEnqueues(s)
RlSent  == /\ Rl!TasksOf(queue) \subseteq rlSent /\ (rlFile # Torn
                => Rl!TasksOf(rlFile) \subseteq rlSent)
           /\ \A s \in RlSlots : Rl!TasksOf(rlCall[s].buf) \subseteq rlSent
RlEarly == \A s \in RlSlots : RlEarlyCall(s) =>
             /\ rlCall[s].task \notin Rl!TasksOf(queue) \cup handed
             /\ rlFile # Torn => rlCall[s].task \notin Rl!TasksOf(rlFile)
             /\ \A r \in RlSlots : rlCall[s].task \notin Rl!TasksOf(rlCall[r].buf)
             /\ \A r \in RlSlots \ {s} : RlEnqueues(r) \/ RlTakes(r)
                  => rlCall[r].task # rlCall[s].task
RlUnderway == RlSound /\ RlKinds /\ RlSent /\ RlEarly

\* ... and as long as no load came late and no write was damaged: a torn file is being
\* written, by one call; what a write or the first load carries has what is kept and nothing
\* that was handed out; a task that is being handed out is gone from the lists; and one that
\* is being queued is written if it is still there
RlTorn   == rlFile = Torn => \E s \in RlSlots : Rl!At(s, "writing")
RlAlone  == \A s, r \in RlSlots : Rl!At(s, "writing") /\ Rl!At(r, "writing") => s = r
RlCarry  == \A s \in RlSlots : Rl!At(s, "writing") \/ (Rl!At(s, "loading") /\ ~rlLoaded) =>
              kept \subseteq Rl!TasksOf(rlCall[s].buf)
                /\ Rl!TasksOf(rlCall[s].buf) \cap handed = {}
RlTaken  == \A s \in RlSlots : RlTakes(s) =>
              /\ rlCall[s].task \notin Rl!TasksOf(queue)
              /\ Rl!At(s, "writing") => rlCall[s].task \notin Rl!TasksOf(rlCall[s].buf)
RlQueued == \A s \in RlSlots :
              Rl!At(s, "writing") /\ RlEnqueues(s) /\ rlCall[s].task \in Rl!TasksOf(queue) =>
                rlCall[s].task \in Rl!TasksOf(rlCall[s].buf)
RlClean  == ~rlLate /\ ~damaged => RlTorn /\ RlAlone /\ RlCarry /\ RlTaken /\ RlQueued

RlIInv == Rl!TypeOK /\ Rl!TakenOnce /\ RlUnderway /\ RlClean

\* A way to sort the first n entries of q
RlOrders(q, n) == {p \in Rl!Surjection(1..n, 1..n) :
                     \A a, b \in 1..n : a < b => Rl!Before(q, p[a], p[b])}

\* The entry after those that are sorted goes behind the urgent ones, if it is one, and to
\* the end if not
LEMMA RlInserted ==
    ASSUME NEW q \in Seq(Rl!Entry), NEW n \in Nat \ {0}, n <= Len(q),
           NEW p \in RlOrders(q, n - 1)
    PROVE  RlOrders(q, n) # {}
<1>1. /\ p \in [1..n - 1 -> 1..n - 1] /\ \A v \in 1..n - 1 : \E a \in 1..n - 1 : p[a] = v
      /\ \A a, b \in 1..n - 1 : a < b => Rl!Before(q, p[a], p[b])
      BY DEF RlOrders, Rl!Surjection
<1>2. \A k \in 1..n : q[k].high \in BOOLEAN
  <2>1. \A k \in 1..n : q[k] \in Rl!Entry
        OBVIOUS
  <2>2. QED
        BY <2>1 DEF Rl!Entry
<1>. DEFINE T == {k \in 1..n : q[n].high => k = n \/ ~q[p[k]].high}
            L == IF q[n].high THEN T ELSE {n}
<1>3. PICK m \in L : \A k \in L : m <= k
  <2>1. L \in SUBSET Nat /\ n \in L
        OBVIOUS
  <2>. HIDE DEF L
  <2>2. QED
        BY <2>1, LeastNumber
<1>4. /\ m \in 1..n
      /\ \A k \in 1..n - 1 : k < m /\ q[n].high => q[p[k]].high
      /\ ~q[n].high => m = n
      /\ m # n => q[n].high /\ ~q[p[m]].high
      BY <1>3
<1>. HIDE DEF T, L
<1>. DEFINE w == [k \in 1..n |-> IF k < m THEN p[k] ELSE IF k = m THEN n ELSE p[k - 1]]
<1>5. /\ \A k \in 1..n : k < m => k \in 1..n - 1 /\ w[k] = p[k]
      /\ w[m] = n
      /\ \A k \in 1..n : k > m => k - 1 \in 1..n - 1 /\ k - 1 >= m /\ w[k] = p[k - 1]
  <2>1. ASSUME NEW k \in 1..n, k < m PROVE k \in 1..n - 1 /\ w[k] = p[k]
        BY <2>1, <1>4
  <2>2. w[m] = n
        BY <1>4
  <2>3. ASSUME NEW k \in 1..n, k > m PROVE k - 1 \in 1..n - 1 /\ k - 1 >= m /\ w[k] = p[k - 1]
        BY <2>3, <1>4
  <2>4. QED
        BY <2>1, <2>2, <2>3
<1>6. w \in [1..n -> 1..n]
  <2>1. SUFFICES ASSUME NEW k \in 1..n PROVE w[k] \in 1..n
        OBVIOUS
  <2>. HIDE DEF w
  <2>2. ASSUME NEW v \in 1..n - 1 PROVE p[v] \in 1..n
    <3>1. p[v] \in 1..n - 1
          BY <1>1
    <3>2. QED
          BY <3>1
  <2>3. CASE k < m
        BY <2>2, <2>3, <1>5
  <2>4. CASE k = m
        BY <2>4, <1>5
  <2>5. CASE k > m
        BY <2>2, <2>5, <1>5
  <2>6. QED
        BY <1>4, <2>3, <2>4, <2>5
<1>7. DOMAIN w = 1..n
      OBVIOUS
<1>. HIDE DEF w
<1>8. ASSUME NEW v \in 1..n PROVE \E k \in 1..n : w[k] = v
  <2>1. CASE v = n
        BY <2>1, <1>4, <1>5
  <2>2. CASE v # n
    <3>1. PICK a \in 1..n - 1 : p[a] = v
          BY <2>2, <1>1
    <3>2. CASE a < m
      <4>1. a \in 1..n /\ w[a] = p[a]
            BY <3>2, <1>5
      <4>2. QED
            BY <3>1, <4>1
    <3>3. CASE ~(a < m)
      <4>1. a + 1 \in 1..n /\ a + 1 > m /\ (a + 1) - 1 = a
            BY <3>3, <1>4
      <4>2. w[a + 1] = p[a]
            BY <4>1, <1>5
      <4>3. QED
            BY <3>1, <4>1, <4>2
    <3>4. QED
          BY <3>2, <3>3
  <2>3. QED
        BY <2>1, <2>2
<1>9. ASSUME NEW a \in 1..n, NEW b \in 1..n, a < b PROVE Rl!Before(q, w[a], w[b])
  <2>1. CASE b < m
    <3>1. a \in 1..n - 1 /\ b \in 1..n - 1 /\ w[a] = p[a] /\ w[b] = p[b]
          BY <1>4, <1>5, <1>9, <2>1
    <3>2. QED
          BY <1>1, <1>9, <3>1
  <2>2. CASE b = m
    <3>1. a \in 1..n - 1 /\ w[a] = p[a] /\ w[b] = n
          BY <1>4, <1>5, <1>9, <2>2
    <3>2. p[a] \in 1..n - 1
          BY <3>1, <1>1
    <3>3. p[a] < n /\ (q[n].high => q[p[a]].high)
          BY <3>1, <3>2, <1>4, <1>9, <2>2
    <3>4. QED
          BY <3>1, <3>2, <3>3, <1>2 DEF Rl!Before
  <2>3. CASE a < m /\ b > m
    <3>1. a \in 1..n - 1 /\ b - 1 \in 1..n - 1 /\ a < b - 1 /\ w[a] = p[a] /\ w[b] = p[b - 1]
          BY <1>4, <1>5, <2>3
    <3>2. QED
          BY <1>1, <3>1
  <2>4. CASE a = m
    <3>1. b - 1 \in 1..n - 1 /\ b - 1 >= m /\ w[a] = n /\ w[b] = p[b - 1]
          BY <1>4, <1>5, <1>9, <2>4
    <3>2. m \in 1..n - 1 /\ q[n].high /\ ~q[p[m]].high
          BY <1>4, <3>1
    <3>3. p[m] \in 1..n /\ p[b - 1] \in 1..n
      <4>1. ASSUME NEW v \in 1..n - 1 PROVE p[v] \in 1..n
        <5>1. p[v] \in 1..n - 1
              BY <1>1
        <5>2. QED
              BY <5>1
      <4>2. QED
            BY <4>1, <3>1, <3>2
    <3>4. ~q[p[b - 1]].high
      <4>1. CASE b - 1 = m
            BY <4>1, <3>2
      <4>2. CASE b - 1 > m
        <5>1. Rl!Before(q, p[m], p[b - 1])
              BY <1>1, <3>1, <3>2, <4>2
        <5>2. QED
              BY <5>1, <3>2, <3>3, <1>2 DEF Rl!Before
      <4>3. QED
            BY <3>1, <3>2, <4>1, <4>2
    <3>5. QED
          BY <3>1, <3>2, <3>4 DEF Rl!Before
  <2>5. CASE a > m
    <3>1. /\ a - 1 \in 1..n - 1 /\ b - 1 \in 1..n - 1 /\ a - 1 < b - 1
          /\ w[a] = p[a - 1] /\ w[b] = p[b - 1]
          BY <1>4, <1>5, <1>9, <2>5
    <3>2. QED
          BY <1>1, <3>1
  <2>6. QED
        BY <1>4, <1>9, <2>1, <2>2, <2>3, <2>4, <2>5
<1>10. w \in RlOrders(q, n)
       BY <1>6, <1>8, <1>9 DEF RlOrders, Rl!Surjection
<1>11. QED
       BY <1>10

\* Every queue can be sorted: no call waits for want of what sort returns
LEMMA RlSortedExists == ASSUME NEW q \in Seq(Rl!Entry) PROVE Rl!Sorted(q) # {}
<1>. DEFINE T == {n \in Nat : n <= Len(q) /\ RlOrders(q, n) = {}}
<1>1. T = {}
  <2>1. SUFFICES ASSUME T # {} PROVE FALSE
        OBVIOUS
  <2>2. PICK n \in T : \A k \in T : n <= k
        BY <2>1, LeastNumber
  <2>3. RlOrders(q, 0) # {}
    <3>1. <<>> \in [1..0 -> 1..0] /\ 1..0 = {}
          OBVIOUS
    <3>2. QED
          BY <3>1 DEF RlOrders, Rl!Surjection
  <2>4. n \in Nat \ {0} /\ n <= Len(q) /\ RlOrders(q, n) = {}
        BY <2>2, <2>3
  <2>5. n - 1 \notin T /\ n - 1 \in Nat /\ n - 1 <= Len(q)
        BY <2>2, <2>4
  <2>6. PICK p : p \in RlOrders(q, n - 1)
        BY <2>5
  <2>7. QED
        BY <2>4, <2>6, RlInserted
<1>2. PICK p : p \in RlOrders(q, Len(q))
      BY <1>1
<1>3. DOMAIN q = 1..Len(q)
      OBVIOUS
<1>4. QED
      BY <1>2, <1>3 DEF RlOrders, Rl!Sorted

\* Sorting moves the entries about and puts the urgent ones first
LEMMA RlSortedLemma ==
    ASSUME NEW q \in Seq(Rl!Entry), NEW p \in Rl!Sorted(q)
    PROVE  /\ p \in Seq(Rl!Entry) /\ Len(p) = Len(q) /\ Rl!TasksOf(p) = Rl!TasksOf(q)
           /\ \A k \in 1..Len(p) - 1 : p[k + 1].high => p[k].high
           /\ (\A i, j \in DOMAIN q : q[i].task = q[j].task => i = j) =>
                \A i, j \in DOMAIN p : p[i].task = p[j].task => i = j
<1>1. PICK place \in Rl!Surjection(DOMAIN q, DOMAIN q) :
         /\ p = [k \in DOMAIN q |-> q[place[k]]]
         /\ \A a, b \in DOMAIN q : a < b => Rl!Before(q, place[a], place[b])
      BY DEF Rl!Sorted
<1>2. /\ place \in [DOMAIN q -> DOMAIN q]
      /\ \A k \in DOMAIN q : \E l \in DOMAIN q : place[l] = k
      BY DEF Rl!Surjection
<1>3. DOMAIN q = 1..Len(q) /\ Len(q) \in Nat /\ \A k \in DOMAIN q : q[k] \in Rl!Entry
      OBVIOUS
<1>4. p \in Seq(Rl!Entry) /\ Len(p) = Len(q)
      BY <1>1, <1>2, <1>3
<1>5. Rl!TasksOf(p) = Rl!TasksOf(q)
      BY <1>1, <1>2 DEF Rl!TasksOf
<1>6. \A k \in 1..Len(p) - 1 : p[k + 1].high => p[k].high
  <2>1. TAKE k \in 1..Len(p) - 1
  <2>2. k \in DOMAIN q /\ k + 1 \in DOMAIN q /\ k < k + 1
        BY <1>3, <1>4
  <2>3. Rl!Before(q, place[k], place[k + 1])
        BY <1>1, <2>2
  <2>4. q[place[k]] \in Rl!Entry /\ q[place[k + 1]] \in Rl!Entry
        BY <1>2, <1>3, <2>2
  <2>5. q[place[k + 1]].high => q[place[k]].high
        BY <2>3, <2>4 DEF Rl!Before, Rl!Entry
  <2>6. QED
        BY <1>1, <2>2, <2>5
<1>7. ASSUME \A i, j \in DOMAIN q : q[i].task = q[j].task => i = j,
             NEW i \in DOMAIN p, NEW j \in DOMAIN p, p[i].task = p[j].task
      PROVE  i = j
  <2>1. i \in DOMAIN q /\ j \in DOMAIN q
        BY <1>1
  <2>2. place[i] = place[j]
        BY <1>1, <1>2, <1>7, <2>1
  <2>3. ASSUME NEW x \in DOMAIN q, NEW y \in DOMAIN q, x < y PROVE place[x] # place[y]
    <3>1. Rl!Before(q, place[x], place[y])
          BY <1>1, <2>3
    <3>2. place[x] \in Nat /\ ~(place[x] < place[x])
          BY <1>2, <1>3
    <3>3. ~Rl!Before(q, place[x], place[x])
          BY <3>2 DEF Rl!Before
    <3>4. QED
          BY <3>1, <3>3
  <2>4. QED
        BY <1>3, <2>1, <2>2, <2>3
<1>8. QED
      BY <1>4, <1>5, <1>6, <1>7

\* A step of a call, a failure or a restart keeps it
LEMMA RlStep ==
    ASSUME RlValues, RlIInv, Rl!Next \/ UNCHANGED rl
    PROVE  RlIInv'
<1> USE DEF RlValues, RlIInv, RlEnqueues, RlTakes, RlEarlyCall
<1>1. /\ Rl!TypeOK /\ Rl!TakenOnce /\ RlUnderway /\ RlClean
      OBVIOUS
<1>2. RlSoundQueue(<<>>) /\ Rl!TasksOf(<<>>) = {} /\ <<>> \in Seq(Rl!Entry)
      BY DEF RlSoundQueue, Rl!TasksOf
<1>3. Rl!Idle \in Rl!Calls /\ Rl!Idle.kind = "stats" /\ Rl!Idle.pc = "idle" /\ Rl!Idle.buf = <<>>
      BY <1>2 DEF Rl!Idle, Rl!Calls, Rl!Kinds, Rl!Labels
<1>4. ASSUME NEW s \in RlSlots, NEW label \in Rl!Labels, Rl!Goes(s, label)
      PROVE  /\ rlCall' \in [RlSlots -> Rl!Calls] /\ rlCall'[s].pc = label
             /\ rlCall'[s].kind = rlCall[s].kind /\ rlCall'[s].task = rlCall[s].task
             /\ rlCall'[s].buf = rlCall[s].buf /\ \A r \in RlSlots \ {s} : rlCall'[r] = rlCall[r]
  <2>1. rlCall \in [RlSlots -> Rl!Calls] /\ rlCall[s] \in Rl!Calls
        BY DEF Rl!TypeOK
  <2> DEFINE c == [rlCall[s] EXCEPT !.pc = label]
  <2>2. c \in Rl!Calls /\ c.pc = label /\ c.kind = rlCall[s].kind /\ c.task = rlCall[s].task
         /\ c.buf = rlCall[s].buf
        BY <2>1 DEF Rl!Calls
  <2>3. rlCall' = [rlCall EXCEPT ![s] = c]
        BY <1>4 DEF Rl!Goes
  <2> HIDE DEF c
  <2>4. QED
        BY <2>1, <2>2, <2>3
<1>5. ASSUME NEW s \in RlSlots, Rl!Ends(s)
      PROVE  /\ rlCall' \in [RlSlots -> Rl!Calls] /\ rlCall'[s] = Rl!Idle
             /\ \A r \in RlSlots \ {s} : rlCall'[r] = rlCall[r]
      BY <1>5, <1>3 DEF Rl!Ends, Rl!TypeOK
<1>6. ASSUME NEW s \in RlSlots, NEW kind \in Rl!Kinds, NEW t \in RlTasks \cup {None},
             Rl!Begin(s, kind, t)
      PROVE  RlIInv'
  <2> DEFINE c == [Rl!Idle EXCEPT !.kind = kind, !.task = t,
                     !.pc = IF kind = "execute" THEN "credentials" ELSE "load"]
  <2>1. /\ c \in Rl!Calls /\ c.kind = kind /\ c.task = t /\ c.buf = <<>>
        /\ kind = "execute" => c.pc = "credentials"
        /\ kind # "execute" => c.pc = "load"
        BY <1>2 DEF Rl!Idle, Rl!Calls, Rl!Kinds, Rl!Labels
  <2>2. rlCall' = [rlCall EXCEPT ![s] = c]
        BY <1>6 DEF Rl!Begin
  <2> HIDE DEF c
  <2>3. /\ rlCall' \in [RlSlots -> Rl!Calls] /\ rlCall'[s] = c
        /\ \A r \in RlSlots \ {s} : rlCall'[r] = rlCall[r]
        BY <2>1, <2>2 DEF Rl!TypeOK
  <2>4. /\ UNCHANGED <<rlFile, queue, rlLoaded, processing, kept, handed, rlLate, damaged,
             rlFaults>>
        /\ rlCalls' \in 0..RlCalls /\ (kind = "execute") = (t # None) /\ t \notin rlSent
        /\ rlSent' = IF t = None THEN rlSent ELSE rlSent \cup {t}
        /\ rlCall[s].pc = "idle"
        BY <1>6 DEF Rl!Begin, Rl!TypeOK, Rl!At
  <2>5. Rl!TypeOK'
        BY <2>1, <2>3, <2>4, <1>1, <1>2 DEF Rl!TypeOK
  <2>6. RlUnderway'
        BY <2>1, <2>3, <2>4, <1>1, <1>2, <1>3 DEF Rl!TypeOK, RlUnderway, RlSound, RlKinds, RlSent,
             RlEarly, Rl!At
  <2>7. RlClean'
        BY <2>1, <2>3, <2>4, <1>1, <1>2, <1>3 DEF Rl!TypeOK, RlUnderway, RlKinds, RlSent, RlEarly,
             RlClean, RlTorn, RlAlone, RlCarry, RlTaken, RlQueued, Rl!TakenOnce, Rl!At
  <2>8. Rl!TakenOnce'
        BY <2>1, <2>3, <2>4, <1>1, <1>2, <1>3 DEF Rl!TypeOK, RlUnderway, RlKinds, RlClean, RlTorn,
             RlCarry, RlTaken, RlQueued, Rl!TakenOnce, Rl!At
  <2>9. QED
        BY <2>5, <2>6, <2>7, <2>8
<1>7. ASSUME NEW s \in RlSlots, Rl!Credentials(s) PROVE RlIInv'
  <2>1. rlCall[s].pc = "credentials" /\ UNCHANGED <<rlFile, queue, rlLoaded, processing, rlSent,
          kept, handed, rlLate, damaged,
        rlCalls, rlFaults>>
        BY <1>7 DEF Rl!Credentials, Rl!At
  <2>2. CASE Rl!Goes(s, "asking")
    <3>1. /\ rlCall' \in [RlSlots -> Rl!Calls] /\ rlCall'[s].pc = "asking"
          /\ rlCall'[s].kind = rlCall[s].kind /\ rlCall'[s].task = rlCall[s].task
          /\ rlCall'[s].buf = rlCall[s].buf /\ \A r \in RlSlots \ {s} : rlCall'[r] = rlCall[r]
          BY <2>2, <1>4 DEF Rl!Labels
    <3>2. Rl!TypeOK'
          BY <2>1, <3>1, <1>1, <1>2 DEF Rl!TypeOK
    <3>3. RlUnderway'
      <4>1. RlSound'
            BY <2>1, <3>1, <1>1, <1>2, <1>3 DEF Rl!TypeOK, RlUnderway, RlSound, RlKinds, RlSent,
                 RlEarly, Rl!At
      <4>2. RlKinds'
            BY <2>1, <3>1, <1>1, <1>2, <1>3 DEF Rl!TypeOK, RlUnderway, RlSound, RlKinds, RlSent,
                 RlEarly, Rl!At
      <4>3. RlSent'
            BY <2>1, <3>1, <1>1, <1>2, <1>3 DEF Rl!TypeOK, RlUnderway, RlSound, RlKinds, RlSent,
                 RlEarly, Rl!At
      <4>4. RlEarly'
            BY <2>1, <3>1, <1>1, <1>2, <1>3 DEF Rl!TypeOK, RlUnderway, RlSound, RlKinds, RlSent,
                 RlEarly, Rl!At
      <4>5. QED
            BY <4>1, <4>2, <4>3, <4>4 DEF RlUnderway
    <3>4. RlClean'
          BY <2>1, <3>1, <1>1, <1>2, <1>3 DEF Rl!TypeOK, RlUnderway, RlKinds, RlSent, RlEarly,
               RlClean, RlTorn, RlAlone, RlCarry, RlTaken, RlQueued, Rl!TakenOnce, Rl!At
    <3>5. Rl!TakenOnce'
          BY <2>1, <3>1, <1>1, <1>2, <1>3 DEF Rl!TypeOK, RlUnderway, RlKinds, RlClean, RlTorn,
               RlCarry, RlTaken, RlQueued, Rl!TakenOnce, Rl!At
    <3>6. QED
          BY <3>2, <3>3, <3>4, <3>5
  <2>3. CASE Rl!Ends(s)
    <3>1. /\ rlCall' \in [RlSlots -> Rl!Calls] /\ rlCall'[s] = Rl!Idle
          /\ \A r \in RlSlots \ {s} : rlCall'[r] = rlCall[r]
          BY <2>3, <1>5
    <3>2. Rl!TypeOK'
          BY <2>1, <3>1, <1>1, <1>2 DEF Rl!TypeOK
    <3>3. RlUnderway'
          BY <2>1, <3>1, <1>1, <1>2, <1>3 DEF Rl!TypeOK, RlUnderway, RlSound, RlKinds, RlSent,
               RlEarly, Rl!At
    <3>4. RlClean'
          BY <2>1, <3>1, <1>1, <1>2, <1>3 DEF Rl!TypeOK, RlUnderway, RlKinds, RlSent, RlEarly,
               RlClean, RlTorn, RlAlone, RlCarry, RlTaken, RlQueued, Rl!TakenOnce, Rl!At
    <3>5. Rl!TakenOnce'
          BY <2>1, <3>1, <1>1, <1>2, <1>3 DEF Rl!TypeOK, RlUnderway, RlKinds, RlClean, RlTorn,
               RlCarry, RlTaken, RlQueued, Rl!TakenOnce, Rl!At
    <3>6. QED
          BY <3>2, <3>3, <3>4, <3>5
  <2>4. QED
        BY <1>7, <2>2, <2>3 DEF Rl!Credentials
<1>8. ASSUME NEW s \in RlSlots, Rl!Answer(s) PROVE RlIInv'
  <2>1. rlCall[s].pc = "asking" /\ UNCHANGED <<rlFile, queue, rlLoaded, processing, rlSent, kept,
          handed, rlLate, damaged,
        rlCalls, rlFaults>>
        BY <1>8 DEF Rl!Answer, Rl!At
  <2>2. CASE Rl!Goes(s, "load")
    <3>1. /\ rlCall' \in [RlSlots -> Rl!Calls] /\ rlCall'[s].pc = "load"
          /\ rlCall'[s].kind = rlCall[s].kind /\ rlCall'[s].task = rlCall[s].task
          /\ rlCall'[s].buf = rlCall[s].buf /\ \A r \in RlSlots \ {s} : rlCall'[r] = rlCall[r]
          BY <2>2, <1>4 DEF Rl!Labels
    <3>2. Rl!TypeOK'
          BY <2>1, <3>1, <1>1, <1>2 DEF Rl!TypeOK
    <3>3. RlUnderway'
          BY <2>1, <3>1, <1>1, <1>2, <1>3 DEF Rl!TypeOK, RlUnderway, RlSound, RlKinds, RlSent,
               RlEarly, Rl!At
    <3>4. RlClean'
          BY <2>1, <3>1, <1>1, <1>2, <1>3 DEF Rl!TypeOK, RlUnderway, RlKinds, RlSent, RlEarly,
               RlClean, RlTorn, RlAlone, RlCarry, RlTaken, RlQueued, Rl!TakenOnce, Rl!At
    <3>5. Rl!TakenOnce'
          BY <2>1, <3>1, <1>1, <1>2, <1>3 DEF Rl!TypeOK, RlUnderway, RlKinds, RlClean, RlTorn,
               RlCarry, RlTaken, RlQueued, Rl!TakenOnce, Rl!At
    <3>6. QED
          BY <3>2, <3>3, <3>4, <3>5
  <2>3. CASE Rl!Ends(s)
    <3>1. /\ rlCall' \in [RlSlots -> Rl!Calls] /\ rlCall'[s] = Rl!Idle
          /\ \A r \in RlSlots \ {s} : rlCall'[r] = rlCall[r]
          BY <2>3, <1>5
    <3>2. Rl!TypeOK'
          BY <2>1, <3>1, <1>1, <1>2 DEF Rl!TypeOK
    <3>3. RlUnderway'
          BY <2>1, <3>1, <1>1, <1>2, <1>3 DEF Rl!TypeOK, RlUnderway, RlSound, RlKinds, RlSent,
               RlEarly, Rl!At
    <3>4. RlClean'
          BY <2>1, <3>1, <1>1, <1>2, <1>3 DEF Rl!TypeOK, RlUnderway, RlKinds, RlSent, RlEarly,
               RlClean, RlTorn, RlAlone, RlCarry, RlTaken, RlQueued, Rl!TakenOnce, Rl!At
    <3>5. Rl!TakenOnce'
          BY <2>1, <3>1, <1>1, <1>2, <1>3 DEF Rl!TypeOK, RlUnderway, RlKinds, RlClean, RlTorn,
               RlCarry, RlTaken, RlQueued, Rl!TakenOnce, Rl!At
    <3>6. QED
          BY <3>2, <3>3, <3>4, <3>5
  <2>4. QED
        BY <1>8, <2>2, <2>3 DEF Rl!Answer
<1>9. ASSUME NEW s \in RlSlots, Rl!StartLoad(s) PROVE RlIInv'
  <2>1. /\ Rl!Parsed \in Seq(Rl!Entry) /\ RlSoundQueue(Rl!Parsed)
             /\ Rl!TasksOf(Rl!Parsed) \subseteq rlSent
        /\ \A r \in RlSlots : RlEarlyCall(r) => rlCall[r].task \notin Rl!TasksOf(Rl!Parsed)
        BY <1>1, <1>2 DEF Rl!Parsed, Rl!TypeOK, RlUnderway, RlSound, RlSent, RlEarly
  <2>2. ~rlLate /\ ~damaged /\ ~rlLoaded =>
          kept \subseteq Rl!TasksOf(Rl!Parsed) /\ Rl!TasksOf(Rl!Parsed) \cap handed = {}
        BY <1>1 DEF Rl!Parsed, RlUnderway, RlKinds, RlClean, RlTorn, Rl!TakenOnce, Rl!At
  <2> DEFINE c == [rlCall[s] EXCEPT !.pc = "loading", !.buf = Rl!Parsed]
  <2>3. /\ c \in Rl!Calls /\ c.kind = rlCall[s].kind /\ c.task = rlCall[s].task
        /\ c.buf = Rl!Parsed /\ c.pc = "loading"
        BY <2>1 DEF Rl!TypeOK, Rl!Calls, Rl!Labels
  <2> HIDE DEF c
  <2>4. /\ rlCall' \in [RlSlots -> Rl!Calls] /\ rlCall'[s] = c
        /\ \A r \in RlSlots \ {s} : rlCall'[r] = rlCall[r]
        /\ rlCall[s].pc = "load" /\ UNCHANGED <<rlFile, queue, rlLoaded, processing, rlSent, kept,
             handed,
                                                 rlLate, damaged, rlCalls, rlFaults>>
        BY <1>9, <2>3 DEF Rl!StartLoad, Rl!TypeOK, Rl!At, c
  <2>5. Rl!TypeOK'
        BY <2>1, <2>2, <2>3, <2>4, <1>1, <1>2 DEF Rl!TypeOK
  <2>6. RlUnderway'
    <3>1. RlSound'
          BY <2>1, <2>2, <2>3, <2>4, <1>1, <1>2, <1>3 DEF Rl!TypeOK, RlUnderway, RlSound, RlKinds,
               RlSent, RlEarly, Rl!At
    <3>2. RlKinds'
          BY <2>1, <2>2, <2>3, <2>4, <1>1, <1>2, <1>3 DEF Rl!TypeOK, RlUnderway, RlSound, RlKinds,
               RlSent, RlEarly, Rl!At
    <3>3. RlSent'
          BY <2>1, <2>2, <2>3, <2>4, <1>1, <1>2, <1>3 DEF Rl!TypeOK, RlUnderway, RlSound, RlKinds,
               RlSent, RlEarly, Rl!At
    <3>4. RlEarly'
          BY <2>1, <2>2, <2>3, <2>4, <1>1, <1>2, <1>3 DEF Rl!TypeOK, RlUnderway, RlSound, RlKinds,
               RlSent, RlEarly, Rl!At
    <3>5. QED
          BY <3>1, <3>2, <3>3, <3>4 DEF RlUnderway
  <2>7. RlClean'
    <3>1. ~rlLate' /\ ~damaged' => RlTorn'
          BY <2>1, <2>2, <2>3, <2>4, <1>1, <1>2, <1>3 DEF Rl!TypeOK, RlUnderway, RlKinds, RlSent,
               RlEarly, RlClean, RlTorn, Rl!TakenOnce, Rl!At
    <3>2. ~rlLate' /\ ~damaged' => RlAlone'
          BY <2>1, <2>2, <2>3, <2>4, <1>1, <1>2, <1>3 DEF Rl!TypeOK, RlUnderway, RlKinds, RlSent,
               RlEarly, RlClean, RlAlone, Rl!TakenOnce, Rl!At
    <3>3. ~rlLate' /\ ~damaged' => RlCarry'
          BY <2>1, <2>2, <2>3, <2>4, <1>1, <1>2, <1>3 DEF Rl!TypeOK, RlUnderway, RlKinds, RlSent,
               RlEarly, RlClean, RlCarry, Rl!TakenOnce, Rl!At
    <3>4. ~rlLate' /\ ~damaged' => RlTaken'
          BY <2>1, <2>2, <2>3, <2>4, <1>1, <1>2, <1>3 DEF Rl!TypeOK, RlUnderway, RlKinds, RlSent,
               RlEarly, RlClean, RlTaken, Rl!TakenOnce, Rl!At
    <3>5. ~rlLate' /\ ~damaged' => RlQueued'
          BY <2>1, <2>2, <2>3, <2>4, <1>1, <1>2, <1>3 DEF Rl!TypeOK, RlUnderway, RlKinds, RlSent,
               RlEarly, RlClean, RlQueued, Rl!TakenOnce, Rl!At
    <3>6. QED
          BY <3>1, <3>2, <3>3, <3>4, <3>5 DEF RlClean
  <2>8. Rl!TakenOnce'
        BY <2>1, <2>2, <2>3, <2>4, <1>1, <1>2, <1>3 DEF Rl!TypeOK, RlUnderway, RlKinds, RlClean,
             RlTorn, RlCarry, RlTaken, RlQueued, Rl!TakenOnce, Rl!At
  <2>9. QED
        BY <2>5, <2>6, <2>7, <2>8
<1>10. ASSUME NEW s \in RlSlots, Rl!Assign(s) PROVE RlIInv'
  <2>1. /\ rlCall[s].pc = "loading" /\ queue' = rlCall[s].buf /\ rlLoaded' = TRUE
        /\ rlLate' = (rlLate \/ rlLoaded)
        /\ UNCHANGED <<rlFile, processing, rlSent, kept, handed, damaged, rlCalls, rlFaults>>
        /\ rlCall[s] \in Rl!Calls /\ rlLate' \in BOOLEAN /\ (~rlLate' => ~rlLate /\ ~rlLoaded)
        BY <1>10 DEF Rl!Assign, Rl!At, Rl!TypeOK
  <2>2. PICK c \in Rl!Calls :
          /\ rlCall' = [rlCall EXCEPT ![s] = c] /\ c.pc \in {"idle", "load"} /\ c.buf = <<>>
          /\ c.kind = "execute" => c.kind = rlCall[s].kind /\ c.task = rlCall[s].task
               /\ c.pc = "load"
    <3>1. CASE rlCall[s].kind = "restore"
          BY <1>10, <1>3, <3>1 DEF Rl!Assign, Rl!Ends
    <3>2. CASE rlCall[s].kind # "restore"
      <4> DEFINE c == [rlCall[s] EXCEPT !.pc = "load", !.buf = <<>>]
      <4>1. /\ c \in Rl!Calls /\ c.pc = "load" /\ c.buf = <<>> /\ c.kind = rlCall[s].kind
            /\ c.task = rlCall[s].task
            BY <1>2, <2>1 DEF Rl!Calls, Rl!Labels
      <4>2. rlCall' = [rlCall EXCEPT ![s] = c]
            BY <1>10, <3>2 DEF Rl!Assign
      <4>3. QED
            BY <4>1, <4>2
    <3>3. QED
          BY <3>1, <3>2
  <2>3. /\ rlCall' \in [RlSlots -> Rl!Calls] /\ rlCall'[s] = c
        /\ \A r \in RlSlots \ {s} : rlCall'[r] = rlCall[r]
        BY <2>2 DEF Rl!TypeOK
  <2>4. Rl!TypeOK'
        BY <2>1, <2>2, <2>3, <1>1, <1>2 DEF Rl!TypeOK, Rl!Calls
  <2>5. RlUnderway'
        BY <2>1, <2>2, <2>3, <1>1, <1>2, <1>3 DEF Rl!TypeOK, RlUnderway, RlSound, RlKinds, RlSent,
             RlEarly, Rl!At, Rl!Calls
  <2>6. RlClean'
        BY <2>1, <2>2, <2>3, <1>1, <1>2, <1>3 DEF Rl!TypeOK, RlUnderway, RlKinds, RlSent, RlEarly,
             RlClean, RlTorn, RlAlone, RlCarry, RlTaken, RlQueued, Rl!TakenOnce, Rl!At, Rl!Calls
  <2>7. Rl!TakenOnce'
        BY <2>1, <2>2, <2>3, <1>1, <1>2, <1>3 DEF Rl!TypeOK, RlUnderway, RlKinds, RlClean, RlTorn,
             RlCarry, RlTaken, RlQueued, Rl!TakenOnce, Rl!At, Rl!Calls
  <2>8. QED
        BY <2>4, <2>5, <2>6, <2>7
<1>11. ASSUME NEW s \in RlSlots, Rl!Enqueue(s) PROVE RlIInv'
  <2>1. /\ rlCall[s].pc = "load" /\ rlCall[s].kind = "execute" /\ rlLoaded
        /\ UNCHANGED <<rlFile, rlLoaded, processing, rlSent, kept, handed, rlLate, damaged,
             rlCalls, rlFaults>>
        BY <1>11 DEF Rl!Enqueue, Rl!At
  <2>2. CASE Len(queue) >= RlSize
    <3>1. /\ rlCall' \in [RlSlots -> Rl!Calls] /\ rlCall'[s] = Rl!Idle /\ queue' = queue
          /\ \A r \in RlSlots \ {s} : rlCall'[r] = rlCall[r]
          BY <1>11, <2>2, <1>5 DEF Rl!Enqueue
    <3>2. Rl!TypeOK'
          BY <2>1, <3>1, <1>1, <1>2 DEF Rl!TypeOK
    <3>3. RlUnderway'
          BY <2>1, <3>1, <1>1, <1>2, <1>3 DEF Rl!TypeOK, RlUnderway, RlSound, RlKinds, RlSent,
               RlEarly, Rl!At
    <3>4. RlClean'
          BY <2>1, <3>1, <1>1, <1>2, <1>3 DEF Rl!TypeOK, RlUnderway, RlKinds, RlSent, RlEarly,
               RlClean, RlTorn, RlAlone, RlCarry, RlTaken, RlQueued, Rl!TakenOnce, Rl!At
    <3>5. Rl!TakenOnce'
          BY <2>1, <3>1, <1>1, <1>2, <1>3 DEF Rl!TypeOK, RlUnderway, RlKinds, RlClean, RlTorn,
               RlCarry, RlTaken, RlQueued, Rl!TakenOnce, Rl!At
    <3>6. QED
          BY <3>2, <3>3, <3>4, <3>5
  <2>3. CASE ~(Len(queue) >= RlSize)
    <3> DEFINE t == rlCall[s].task
               e == [task |-> t, high |-> t \in RlUrgent]
    <3>1. /\ queue' \in Rl!Sorted(Append(queue, e)) /\ Rl!Goes(s, "mkdir")
          BY <1>11, <2>3 DEF Rl!Enqueue
    <3>2. /\ rlCall' \in [RlSlots -> Rl!Calls] /\ rlCall'[s].pc = "mkdir"
          /\ rlCall'[s].kind = rlCall[s].kind /\ rlCall'[s].task = rlCall[s].task
          /\ rlCall'[s].buf = rlCall[s].buf /\ \A r \in RlSlots \ {s} : rlCall'[r] = rlCall[r]
          BY <3>1, <1>4 DEF Rl!Labels
    <3>3. t \in RlTasks /\ t \in rlSent /\ t \notin Rl!TasksOf(queue) /\ t \notin handed
          BY <2>1, <1>1 DEF Rl!TypeOK, Rl!Calls, RlUnderway, RlKinds, RlEarly
    <3>4. e \in Rl!Entry /\ e.task = t
          BY <3>3 DEF Rl!Entry
    <3> HIDE DEF e
    <3> DEFINE longer == Append(queue, e)
    <3>5. /\ longer \in Seq(Rl!Entry) /\ Len(longer) = Len(queue) + 1
          /\ \A k \in DOMAIN longer : longer[k] = IF k \in DOMAIN queue THEN queue[k] ELSE e
          /\ DOMAIN longer = DOMAIN queue \cup {Len(queue) + 1}
               /\ Len(queue) + 1 \notin DOMAIN queue
          BY <3>4, <1>1 DEF Rl!TypeOK
    <3> HIDE DEF longer
    <3>6. Rl!TasksOf(longer) = Rl!TasksOf(queue) \cup {t}
          BY <3>4, <3>5 DEF Rl!TasksOf
    <3>7. \A i, j \in DOMAIN longer : longer[i].task = longer[j].task => i = j
          BY <3>3, <3>4, <3>5, <1>1 DEF Rl!TasksOf, RlUnderway, RlSound, RlSoundQueue
    <3>8. /\ queue' \in Seq(Rl!Entry) /\ RlSoundQueue(queue')
               /\ Rl!TasksOf(queue') = Rl!TasksOf(queue) \cup {t}
      <4>1. queue' \in Rl!Sorted(longer)
            BY <3>1 DEF longer
      <4>2. Len(queue) + 1 <= RlSize
            BY <2>3, <1>1 DEF Rl!TypeOK
      <4>3. QED
            BY <4>1, <4>2, <3>5, <3>6, <3>7, RlSortedLemma DEF RlSoundQueue
    <3> HIDE DEF t
    <3>9. t = rlCall[s].task
          BY DEF t
    <3>10. Rl!TypeOK'
          BY <2>1, <3>2, <3>3, <3>8, <3>9, <1>1, <1>2 DEF Rl!TypeOK
    <3>11. RlUnderway'
          BY <2>1, <3>2, <3>3, <3>8, <3>9, <1>1, <1>2, <1>3 DEF Rl!TypeOK, RlUnderway, RlSound,
               RlKinds, RlSent, RlEarly, Rl!At
    <3>12. RlClean'
      <4>1. ~rlLate' /\ ~damaged' => RlTorn'
            BY <2>1, <3>2, <3>3, <3>8, <3>9, <1>1, <1>2, <1>3 DEF Rl!TypeOK, RlUnderway, RlKinds,
                 RlSent, RlEarly, RlClean, RlTorn, Rl!TakenOnce, Rl!At
      <4>2. ~rlLate' /\ ~damaged' => RlAlone'
            BY <2>1, <3>2, <3>3, <3>8, <3>9, <1>1, <1>2, <1>3 DEF Rl!TypeOK, RlUnderway, RlKinds,
                 RlSent, RlEarly, RlClean, RlAlone, Rl!TakenOnce, Rl!At
      <4>3. ~rlLate' /\ ~damaged' => RlCarry'
            BY <2>1, <3>2, <3>3, <3>8, <3>9, <1>1, <1>2, <1>3 DEF Rl!TypeOK, RlUnderway, RlKinds,
                 RlSent, RlEarly, RlClean, RlCarry, Rl!TakenOnce, Rl!At
      <4>4. ~rlLate' /\ ~damaged' => RlTaken'
            BY <2>1, <3>2, <3>3, <3>8, <3>9, <1>1, <1>2, <1>3 DEF Rl!TypeOK, RlUnderway, RlKinds,
                 RlSent, RlEarly, RlClean, RlTaken, Rl!TakenOnce, Rl!At
      <4>5. ~rlLate' /\ ~damaged' => RlQueued'
            BY <2>1, <3>2, <3>3, <3>8, <3>9, <1>1, <1>2, <1>3 DEF Rl!TypeOK, RlUnderway, RlKinds,
                 RlSent, RlEarly, RlClean, RlQueued, Rl!TakenOnce, Rl!At
      <4>6. QED
            BY <4>1, <4>2, <4>3, <4>4, <4>5 DEF RlClean
    <3>13. Rl!TakenOnce'
          BY <2>1, <3>3, <3>8, <1>1 DEF Rl!TakenOnce
    <3>14. QED
          BY <3>10, <3>11, <3>12, <3>13
  <2>4. QED
        BY <2>2, <2>3
<1>12. ASSUME NEW s \in RlSlots, Rl!Dequeue(s) PROVE RlIInv'
  <2>1. /\ rlCall[s].pc = "load" /\ rlCall[s].kind = "dequeue" /\ rlLoaded
        /\ UNCHANGED <<rlFile, rlLoaded, rlSent, handed, rlLate, damaged, rlCalls, rlFaults>>
        BY <1>12 DEF Rl!Dequeue, Rl!At
  <2>2. CASE queue = <<>>
    <3>1. /\ rlCall' \in [RlSlots -> Rl!Calls] /\ rlCall'[s] = Rl!Idle /\ UNCHANGED <<queue,
               processing, kept>>
          /\ \A r \in RlSlots \ {s} : rlCall'[r] = rlCall[r]
          BY <1>12, <2>2, <1>5 DEF Rl!Dequeue
    <3>2. Rl!TypeOK'
          BY <2>1, <3>1, <1>1, <1>2 DEF Rl!TypeOK
    <3>3. RlUnderway'
          BY <2>1, <3>1, <1>1, <1>2, <1>3 DEF Rl!TypeOK, RlUnderway, RlSound, RlKinds, RlSent,
               RlEarly, Rl!At
    <3>4. RlClean'
          BY <2>1, <3>1, <1>1, <1>2, <1>3 DEF Rl!TypeOK, RlUnderway, RlKinds, RlSent, RlEarly,
               RlClean, RlTorn, RlAlone, RlCarry, RlTaken, RlQueued, Rl!TakenOnce, Rl!At
    <3>5. Rl!TakenOnce'
          BY <2>1, <3>1, <1>1, <1>2, <1>3 DEF Rl!TypeOK, RlUnderway, RlKinds, RlClean, RlTorn,
               RlCarry, RlTaken, RlQueued, Rl!TakenOnce, Rl!At
    <3>6. QED
          BY <3>2, <3>3, <3>4, <3>5
  <2>3. CASE queue # <<>>
    <3> DEFINE t == Head(queue).task
               c == [rlCall[s] EXCEPT !.pc = "mkdir", !.task = t]
    <3>1. /\ queue' = Tail(queue) /\ processing' = processing \cup {t} /\ kept' = kept \ {t}
          /\ rlCall' = [rlCall EXCEPT ![s] = c]
          BY <1>12, <2>3 DEF Rl!Dequeue
    <3>2. Tail(queue) \in Seq(Rl!Entry) /\ Len(Tail(queue)) = Len(queue) - 1
          BY <2>3, <1>1 DEF Rl!TypeOK
    <3>3. /\ Len(queue) \in Nat \ {0} /\ Head(queue) = queue[1] /\ queue[1] \in Rl!Entry
          /\ 1 \in DOMAIN queue
          BY <2>3, <1>1 DEF Rl!TypeOK
    <3>4. \A k \in 1..Len(queue) - 1 : Tail(queue)[k] = queue[k + 1]
          BY <2>3, <1>1 DEF Rl!TypeOK
    <3>5. t \in RlTasks /\ t \in Rl!TasksOf(queue)
          BY <3>3 DEF Rl!TasksOf, Rl!Entry
    <3>6. /\ t \in RlTasks /\ t \in Rl!TasksOf(queue) /\ Tail(queue) \in Seq(Rl!Entry)
          /\ Len(Tail(queue)) = Len(queue) - 1 /\ Len(queue) \in Nat \ {0}
          /\ \A k \in 1..Len(queue) - 1 : Tail(queue)[k] = queue[k + 1]
          BY <3>2, <3>3, <3>4, <3>5
    <3>7. /\ Rl!TasksOf(Tail(queue)) \subseteq Rl!TasksOf(queue)
               /\ t \notin Rl!TasksOf(Tail(queue))
          /\ \A u \in Rl!TasksOf(queue) : u # t => u \in Rl!TasksOf(Tail(queue))
      <4>1. DOMAIN queue = 1..Len(queue) /\ DOMAIN Tail(queue) = 1..Len(queue) - 1
            BY <3>6, <1>1 DEF Rl!TypeOK
      <4>2. Rl!TasksOf(Tail(queue)) \subseteq Rl!TasksOf(queue)
            BY <3>6, <4>1 DEF Rl!TasksOf
      <4>3. t \notin Rl!TasksOf(Tail(queue))
            BY <3>6, <4>1, <2>3, <1>1 DEF Rl!TasksOf, RlUnderway, RlSound, RlSoundQueue, Rl!TypeOK
      <4>4. ASSUME NEW k \in DOMAIN queue, queue[k].task # t
            PROVE queue[k].task \in Rl!TasksOf(Tail(queue))
        <5>1. k # 1
              BY <4>4, <2>3, <1>1 DEF Rl!TypeOK
        <5>2. k - 1 \in DOMAIN Tail(queue) /\ Tail(queue)[k - 1] = queue[k]
              BY <5>1, <4>1, <3>6
        <5>3. QED
              BY <5>2 DEF Rl!TasksOf
      <4>5. QED
            BY <4>2, <4>3, <4>4 DEF Rl!TasksOf
    <3>8. RlSoundQueue(Tail(queue))
          BY <3>6, <1>1 DEF RlUnderway, RlSound, RlSoundQueue, Rl!TypeOK
    <3>9. t \in rlSent /\ (~rlLate /\ ~damaged => t \notin handed)
          BY <2>1, <3>6, <1>1 DEF RlUnderway, RlSent, Rl!TakenOnce
    <3>10. /\ c \in Rl!Calls /\ c.kind = "dequeue" /\ c.task = t /\ c.pc = "mkdir"
                /\ c.buf = rlCall[s].buf
          BY <2>1, <3>6, <1>1 DEF Rl!TypeOK, Rl!Calls, Rl!Labels
    <3> HIDE DEF c, t
    <3>11. /\ rlCall' \in [RlSlots -> Rl!Calls] /\ rlCall'[s] = c
          /\ \A r \in RlSlots \ {s} : rlCall'[r] = rlCall[r]
          BY <3>1, <3>10, <1>1 DEF Rl!TypeOK
    <3>12. Rl!TypeOK'
          BY <2>1, <3>1, <3>6, <3>11, <1>1, <1>2 DEF Rl!TypeOK
    <3>13. RlUnderway'
          BY <2>1, <3>1, <3>6, <3>7, <3>8, <3>9, <3>10, <3>11, <1>1, <1>2, <1>3 DEF Rl!TypeOK,
               RlUnderway, RlSound, RlKinds, RlSent, RlEarly, Rl!At
    <3>14. RlClean'
          BY <2>1, <3>1, <3>6, <3>7, <3>8, <3>9, <3>10, <3>11, <1>1, <1>2, <1>3 DEF Rl!TypeOK,
               RlUnderway, RlKinds, RlSent, RlEarly, RlClean, RlTorn, RlAlone, RlCarry, RlTaken,
                 RlQueued, Rl!TakenOnce, Rl!At
    <3>15. Rl!TakenOnce'
          BY <2>1, <3>1, <3>7, <1>1 DEF Rl!TakenOnce
    <3>16. QED
          BY <3>12, <3>13, <3>14, <3>15
  <2>4. QED
        BY <2>2, <2>3
<1>13. ASSUME NEW s \in RlSlots, Rl!Clear(s) PROVE RlIInv'
  <2>1. /\ rlCall' \in [RlSlots -> Rl!Calls] /\ rlCall'[s].pc = "mkdir"
        /\ rlCall'[s].kind = rlCall[s].kind /\ rlCall'[s].task = rlCall[s].task
        /\ rlCall'[s].buf = rlCall[s].buf /\ \A r \in RlSlots \ {s} : rlCall'[r] = rlCall[r]
        BY <1>13, <1>4 DEF Rl!Clear, Rl!Labels
  <2>2. /\ rlCall[s].pc = "load" /\ rlCall[s].kind = "clear"
        /\ queue' = <<>> /\ processing' = {} /\ rlLoaded' = TRUE /\ kept' = {}
        /\ UNCHANGED <<rlFile, rlSent, handed, rlLate, damaged, rlCalls, rlFaults>>
        BY <1>13 DEF Rl!Clear, Rl!At
  <2>3. Rl!TypeOK'
        BY <2>1, <2>2, <1>1, <1>2 DEF Rl!TypeOK
  <2>4. RlUnderway'
        BY <2>1, <2>2, <1>1, <1>2, <1>3 DEF Rl!TypeOK, RlUnderway, RlSound, RlKinds, RlSent,
             RlEarly, Rl!At
  <2>5. RlClean'
        BY <2>1, <2>2, <1>1, <1>2, <1>3 DEF Rl!TypeOK, RlUnderway, RlKinds, RlSent, RlEarly,
             RlClean, RlTorn, RlAlone, RlCarry, RlTaken, RlQueued, Rl!TakenOnce, Rl!At
  <2>6. Rl!TakenOnce'
        BY <2>1, <2>2, <1>1, <1>2, <1>3 DEF Rl!TypeOK, RlUnderway, RlKinds, RlClean, RlTorn,
             RlCarry, RlTaken, RlQueued, Rl!TakenOnce, Rl!At
  <2>7. QED
        BY <2>3, <2>4, <2>5, <2>6
<1>14. ASSUME NEW s \in RlSlots, Rl!Stats(s) PROVE RlIInv'
  <2>1. /\ rlCall' \in [RlSlots -> Rl!Calls] /\ rlCall'[s] = Rl!Idle
        /\ \A r \in RlSlots \ {s} : rlCall'[r] = rlCall[r]
        BY <1>14, <1>5 DEF Rl!Stats
  <2>2. rlCall[s].pc = "load" /\ UNCHANGED <<rlFile, queue, rlLoaded, processing, rlSent, kept,
          handed, rlLate, damaged,
        rlCalls, rlFaults>>
        BY <1>14 DEF Rl!Stats, Rl!At
  <2>3. Rl!TypeOK'
        BY <2>1, <2>2, <1>1, <1>2 DEF Rl!TypeOK
  <2>4. RlUnderway'
        BY <2>1, <2>2, <1>1, <1>2, <1>3 DEF Rl!TypeOK, RlUnderway, RlSound, RlKinds, RlSent,
             RlEarly, Rl!At
  <2>5. RlClean'
    <3>1. ~rlLate' /\ ~damaged' => RlTorn'
          BY <2>1, <2>2, <1>1, <1>2, <1>3 DEF Rl!TypeOK, RlUnderway, RlKinds, RlClean, RlTorn,
               RlAlone, RlCarry, RlTaken, RlQueued, Rl!At, Rl!Idle
    <3>2. ~rlLate' /\ ~damaged' => RlAlone'
          BY <2>1, <2>2, <1>1, <1>2, <1>3 DEF Rl!TypeOK, RlUnderway, RlKinds, RlClean, RlTorn,
               RlAlone, RlCarry, RlTaken, RlQueued, Rl!At, Rl!Idle
    <3>3. ~rlLate' /\ ~damaged' => RlCarry'
          BY <2>1, <2>2, <1>1, <1>2, <1>3 DEF Rl!TypeOK, RlUnderway, RlKinds, RlClean, RlTorn,
               RlAlone, RlCarry, RlTaken, RlQueued, Rl!At, Rl!Idle
    <3>4. ~rlLate' /\ ~damaged' => RlTaken'
          BY <2>1, <2>2, <1>1, <1>2, <1>3 DEF Rl!TypeOK, RlUnderway, RlKinds, RlClean, RlTorn,
               RlAlone, RlCarry, RlTaken, RlQueued, Rl!At, Rl!Idle
    <3>5. ~rlLate' /\ ~damaged' => RlQueued'
          BY <2>1, <2>2, <1>1, <1>2, <1>3 DEF Rl!TypeOK, RlUnderway, RlKinds, RlClean, RlTorn,
               RlAlone, RlCarry, RlTaken, RlQueued, Rl!At, Rl!Idle
    <3>6. QED
          BY <3>1, <3>2, <3>3, <3>4, <3>5 DEF RlClean
  <2>6. Rl!TakenOnce'
        BY <2>1, <2>2, <1>1, <1>2, <1>3 DEF Rl!TypeOK, RlUnderway, RlKinds, RlClean, RlTorn,
             RlCarry, RlTaken, RlQueued, Rl!TakenOnce, Rl!At
  <2>7. QED
        BY <2>3, <2>4, <2>5, <2>6
<1>15. ASSUME NEW s \in RlSlots, Rl!Truncate(s) PROVE RlIInv'
  <2> DEFINE c == [rlCall[s] EXCEPT !.pc = "writing", !.buf = queue]
  <2>1. /\ c \in Rl!Calls /\ c.kind = rlCall[s].kind /\ c.task = rlCall[s].task
        /\ c.buf = queue /\ c.pc = "writing"
        BY <1>1 DEF Rl!TypeOK, Rl!Calls, Rl!Labels
  <2> HIDE DEF c
  <2>2. /\ rlCall' \in [RlSlots -> Rl!Calls] /\ rlCall'[s] = c
        /\ \A r \in RlSlots \ {s} : rlCall'[r] = rlCall[r]
        BY <1>15, <2>1 DEF Rl!Truncate, Rl!TypeOK, c
  <2>3. /\ rlCall[s].pc = "mkdir" /\ rlFile' = Torn
        /\ damaged' = (damaged \/ \E r \in RlSlots : Rl!At(r, "writing"))
        /\ UNCHANGED <<queue, rlLoaded, processing, rlSent, kept, handed, rlLate, rlCalls,
             rlFaults>>
        BY <1>15 DEF Rl!Truncate, Rl!At
  <2>4. /\ damaged' \in BOOLEAN /\ (~damaged' => ~damaged)
        /\ ~damaged' => \A r \in RlSlots : rlCall[r].pc # "writing"
        BY <1>1, <2>3 DEF Rl!TypeOK, Rl!At
  <2>5. /\ rlFile' = Torn
        /\ UNCHANGED <<queue, rlLoaded, processing, rlSent, kept, handed, rlLate, rlCalls,
             rlFaults>>
        BY <2>3
  <2>6. Rl!TypeOK'
        BY <2>2, <2>4, <2>5, <1>1, <1>2 DEF Rl!TypeOK
  <2>7. RlUnderway'
        BY <2>1, <2>2, <2>3, <2>4, <1>1, <1>2, <1>3 DEF Rl!TypeOK, RlUnderway, RlSound, RlKinds,
             RlSent, RlEarly, Rl!At
  <2>8. RlClean'
        BY <2>1, <2>2, <2>3, <2>4, <1>1, <1>2, <1>3 DEF Rl!TypeOK, RlUnderway, RlKinds, RlSent,
             RlEarly, RlClean, RlTorn, RlAlone, RlCarry, RlTaken, RlQueued, Rl!TakenOnce, Rl!At
  <2>9. Rl!TakenOnce'
        BY <2>1, <2>2, <2>3, <2>4, <1>1, <1>2, <1>3 DEF Rl!TypeOK, RlUnderway, RlKinds, RlClean,
             RlTorn, RlCarry, RlTaken, RlQueued, Rl!TakenOnce, Rl!At
  <2>10. QED
        BY <2>6, <2>7, <2>8, <2>9
<1>16. ASSUME NEW s \in RlSlots, Rl!Written(s) PROVE RlIInv'
  <2>1. /\ rlCall' \in [RlSlots -> Rl!Calls] /\ rlCall'[s] = Rl!Idle
        /\ \A r \in RlSlots \ {s} : rlCall'[r] = rlCall[r]
        BY <1>16, <1>5 DEF Rl!Written
  <2>2. /\ rlCall[s].pc = "writing" /\ rlLoaded
        /\ rlFile' = rlCall[s].buf \/ (damaged /\ rlFile' = Torn)
        /\ kept' = IF rlCall[s].kind = "execute" /\ rlCall[s].task \in Rl!TasksOf(queue)
                   THEN kept \cup {rlCall[s].task} ELSE kept
        /\ handed' = IF rlCall[s].kind = "dequeue" THEN handed \cup {rlCall[s].task} ELSE handed
        /\ UNCHANGED <<queue, rlLoaded, processing, rlSent, rlLate, damaged, rlCalls, rlFaults>>
        BY <1>16, <1>1 DEF Rl!Written, Rl!At, RlUnderway, RlKinds
  <2>3. /\ rlCall[s].buf \in Seq(Rl!Entry) /\ rlCall[s].buf # Torn
        /\ rlFile' # Torn => rlFile' = rlCall[s].buf
        BY <2>2, <1>1 DEF Rl!TypeOK, Rl!Calls
  <2>4. /\ RlEnqueues(s) \/ RlTakes(s) => rlCall[s].task \in rlSent
        BY <1>1 DEF RlUnderway, RlKinds
  <2>5. ~rlLate /\ ~damaged => \A r \in RlSlots \ {s} : rlCall[r].pc # "writing"
        BY <2>2, <1>1 DEF RlClean, RlAlone, Rl!At
  <2>6. Rl!TypeOK'
        BY <2>1, <2>2, <2>3, <2>4, <2>5, <1>1, <1>2 DEF Rl!TypeOK
  <2>7. RlUnderway'
        BY <2>1, <2>2, <2>3, <2>4, <2>5, <1>1, <1>2, <1>3 DEF Rl!TypeOK, RlUnderway, RlSound,
             RlKinds, RlSent, RlEarly, Rl!At
  <2>8. RlClean'
    <3>1. ~rlLate' /\ ~damaged' => RlTorn'
          BY <2>1, <2>2, <2>3, <2>4, <2>5, <1>1, <1>2, <1>3 DEF Rl!TypeOK, RlUnderway, RlKinds,
               RlSent, RlEarly, RlClean, RlTorn, Rl!TakenOnce, Rl!At
    <3>2. ~rlLate' /\ ~damaged' => RlAlone'
          BY <2>1, <2>2, <2>3, <2>4, <2>5, <1>1, <1>2, <1>3 DEF Rl!TypeOK, RlUnderway, RlKinds,
               RlSent, RlEarly, RlClean, RlAlone, Rl!TakenOnce, Rl!At
    <3>3. ~rlLate' /\ ~damaged' => RlCarry'
          BY <2>1, <2>2, <2>3, <2>4, <2>5, <1>1, <1>2, <1>3 DEF Rl!TypeOK, RlUnderway, RlKinds,
               RlSent, RlEarly, RlClean, RlCarry, Rl!TakenOnce, Rl!At
    <3>4. ~rlLate' /\ ~damaged' => RlTaken'
          BY <2>1, <2>2, <2>3, <2>4, <2>5, <1>1, <1>2, <1>3 DEF Rl!TypeOK, RlUnderway, RlKinds,
               RlSent, RlEarly, RlClean, RlTaken, Rl!TakenOnce, Rl!At
    <3>5. ~rlLate' /\ ~damaged' => RlQueued'
          BY <2>1, <2>2, <2>3, <2>4, <2>5, <1>1, <1>2, <1>3 DEF Rl!TypeOK, RlUnderway, RlKinds,
               RlSent, RlEarly, RlClean, RlQueued, Rl!TakenOnce, Rl!At
    <3>6. QED
          BY <3>1, <3>2, <3>3, <3>4, <3>5 DEF RlClean
  <2>9. Rl!TakenOnce'
        BY <2>1, <2>2, <2>3, <2>4, <2>5, <1>1, <1>2, <1>3 DEF Rl!TypeOK, RlUnderway, RlKinds,
             RlClean, RlTorn, RlCarry, RlTaken, RlQueued, Rl!TakenOnce, Rl!At
  <2>10. QED
        BY <2>6, <2>7, <2>8, <2>9
<1>17. ASSUME NEW s \in RlSlots, Rl!Fails(s) PROVE RlIInv'
  <2>1. /\ rlCall' \in [RlSlots -> Rl!Calls] /\ rlCall'[s] = Rl!Idle
        /\ \A r \in RlSlots \ {s} : rlCall'[r] = rlCall[r]
        BY <1>17, <1>5 DEF Rl!Fails
  <2>2. /\ rlCall[s].pc \in {"mkdir", "writing"} /\ rlFaults' \in 0..RlFaults
        /\ damaged' = (damaged \/ rlCall[s].pc = "writing")
        /\ UNCHANGED <<rlFile, queue, rlLoaded, processing, rlSent, kept, handed, rlLate,
             rlCalls>>
        BY <1>17, <1>1 DEF Rl!Fails, Rl!At, Rl!TypeOK
  <2>3. damaged' \in BOOLEAN /\ (~damaged' => ~damaged /\ rlCall[s].pc = "mkdir")
        BY <2>2, <1>1 DEF Rl!TypeOK
  <2>4. /\ rlFaults' \in 0..RlFaults
        /\ UNCHANGED <<rlFile, queue, rlLoaded, processing, rlSent, kept, handed, rlLate,
             rlCalls>>
        BY <2>2
  <2>5. Rl!TypeOK'
        BY <2>1, <2>4, <2>3, <1>1, <1>2 DEF Rl!TypeOK
  <2>6. RlUnderway'
        BY <2>1, <2>4, <2>3, <1>1, <1>2, <1>3 DEF Rl!TypeOK, RlUnderway, RlSound, RlKinds, RlSent,
             RlEarly, Rl!At
  <2>7. RlClean'
        BY <2>1, <2>4, <2>3, <1>1, <1>2, <1>3 DEF Rl!TypeOK, RlUnderway, RlKinds, RlSent, RlEarly,
             RlClean, RlTorn, RlAlone, RlCarry, RlTaken, RlQueued, Rl!TakenOnce, Rl!At
  <2>8. Rl!TakenOnce'
        BY <2>1, <2>4, <2>3, <1>1, <1>2, <1>3 DEF Rl!TypeOK, RlUnderway, RlKinds, RlClean, RlTorn,
             RlCarry, RlTaken, RlQueued, Rl!TakenOnce, Rl!At
  <2>9. QED
        BY <2>5, <2>6, <2>7, <2>8
<1>18. ASSUME NEW t \in RlTasks, Rl!SetPriority(t) PROVE RlIInv'
  <2>1. /\ rlCalls' \in 0..RlCalls
        /\ UNCHANGED <<rlFile, rlLoaded, processing, rlCall, rlSent, kept, handed, rlLate,
             damaged, rlFaults>>
        BY <1>18, <1>1 DEF Rl!SetPriority, Rl!TypeOK
  <2>2. PICK high \in BOOLEAN :
          queue' \in Rl!Sorted([k \in DOMAIN queue |->
                              IF queue[k].task = t THEN [queue[k] EXCEPT !.high = high]
                              ELSE queue[k]])
        BY <1>18 DEF Rl!SetPriority
  <2> DEFINE q == [k \in DOMAIN queue |->
                     IF queue[k].task = t THEN [queue[k] EXCEPT !.high = high] ELSE queue[k]]
  <2>3. DOMAIN queue = 1..Len(queue) /\ Len(queue) \in Nat
          /\ \A k \in DOMAIN queue : queue[k] \in Rl!Entry
        BY <1>1 DEF Rl!TypeOK
  <2>4. \A x \in Rl!Entry : [x EXCEPT !.high = high] \in Rl!Entry
        BY <2>2 DEF Rl!Entry
  <2>5. \A k \in DOMAIN queue : q[k] \in Rl!Entry
        BY <2>4, <2>3
  <2>6. q \in Seq(Rl!Entry) /\ Len(q) = Len(queue) /\ DOMAIN q = DOMAIN queue
        BY <2>3, <2>5
  <2>7. \A k \in DOMAIN queue : q[k].task = queue[k].task
        BY <1>1 DEF Rl!TypeOK, Rl!Entry
  <2> HIDE DEF q
  <2>8. Rl!TasksOf(q) = Rl!TasksOf(queue)
        BY <2>6, <2>7 DEF Rl!TasksOf
  <2>9. \A i, j \in DOMAIN q : q[i].task = q[j].task => i = j
        BY <2>6, <2>7, <1>1 DEF RlUnderway, RlSound, RlSoundQueue
  <2>10. queue' \in Rl!Sorted(q)
        BY <2>2 DEF q
  <2>11. queue' \in Seq(Rl!Entry) /\ RlSoundQueue(queue')
           /\ Rl!TasksOf(queue') = Rl!TasksOf(queue)
        BY <2>6, <2>8, <2>9, <2>10, <1>1, RlSortedLemma DEF RlUnderway, RlSound, RlSoundQueue
  <2>12. Rl!TypeOK'
        BY <2>1, <2>11, <1>1, <1>2 DEF Rl!TypeOK
  <2>13. RlUnderway'
        BY <2>1, <2>11, <1>1, <1>2, <1>3 DEF Rl!TypeOK, RlUnderway, RlSound, RlKinds, RlSent,
             RlEarly, Rl!At
  <2>14. RlClean'
        BY <2>1, <2>11, <1>1, <1>2, <1>3 DEF Rl!TypeOK, RlUnderway, RlKinds, RlSent, RlEarly,
             RlClean, RlTorn, RlAlone, RlCarry, RlTaken, RlQueued, Rl!TakenOnce, Rl!At
  <2>15. Rl!TakenOnce'
        BY <2>1, <2>11, <1>1, <1>2, <1>3 DEF Rl!TypeOK, RlUnderway, RlKinds, RlClean, RlTorn,
             RlCarry, RlTaken, RlQueued, Rl!TakenOnce, Rl!At
  <2>16. QED
        BY <2>12, <2>13, <2>14, <2>15
<1>19. ASSUME Rl!Dies PROVE RlIInv'
  <2>1. /\ rlCall' \in [RlSlots -> Rl!Calls] /\ \A s \in RlSlots : rlCall'[s] = Rl!Idle
        BY <1>19, <1>3 DEF Rl!Dies
  <2>2. /\ rlFaults' \in 0..RlFaults /\ queue' = <<>> /\ rlLoaded' = FALSE /\ processing' = {}
        /\ damaged' = (damaged \/ \E s \in RlSlots : Rl!At(s, "writing"))
        /\ UNCHANGED <<rlFile, rlSent, kept, handed, rlLate, rlCalls>>
        BY <1>19, <1>1 DEF Rl!Dies, Rl!TypeOK
  <2>3. damaged' \in BOOLEAN /\ (~damaged' => ~damaged /\ \A s \in RlSlots : ~Rl!At(s, "writing"))
        BY <2>2, <1>1 DEF Rl!TypeOK
  <2>4. /\ rlFaults' \in 0..RlFaults /\ queue' = <<>> /\ rlLoaded' = FALSE /\ processing' = {}
        /\ UNCHANGED <<rlFile, rlSent, kept, handed, rlLate, rlCalls>>
        BY <2>2
  <2>5. Rl!TypeOK'
        BY <2>1, <2>4, <2>3, <1>1, <1>2 DEF Rl!TypeOK
  <2>6. RlUnderway'
        BY <2>1, <2>4, <2>3, <1>1, <1>2, <1>3 DEF Rl!TypeOK, RlUnderway, RlSound, RlKinds, RlSent,
             RlEarly, Rl!At
  <2>7. RlClean'
        BY <2>1, <2>4, <2>3, <1>1, <1>2, <1>3 DEF Rl!TypeOK, RlUnderway, RlKinds, RlSent, RlEarly,
             RlClean, RlTorn, RlAlone, RlCarry, RlTaken, RlQueued, Rl!TakenOnce, Rl!At
  <2>8. Rl!TakenOnce'
        BY <2>1, <2>4, <2>3, <1>1, <1>2, <1>3 DEF Rl!TypeOK, RlUnderway, RlKinds, RlClean, RlTorn,
             RlCarry, RlTaken, RlQueued, Rl!TakenOnce, Rl!At
  <2>9. QED
        BY <2>5, <2>6, <2>7, <2>8
<1>20. ASSUME UNCHANGED rl PROVE RlIInv'
      BY <1>20, <1>1 DEF rl, Rl!TypeOK, RlUnderway, RlSound, RlKinds, RlSent, RlEarly, RlClean,
           RlTorn,
                        RlAlone, RlCarry, RlTaken, RlQueued, Rl!TakenOnce, Rl!At
<1>21. QED
      BY <1>6, <1>7, <1>8, <1>9, <1>10, <1>11, <1>12, <1>13, <1>14, <1>15, <1>16, <1>17, <1>18,
           <1>19, <1>20 DEF Rl!Next, Rl!Step

\* The queue starts so
LEMMA RlInit == ASSUME RlValues, Rl!Init PROVE RlIInv
<1>1. /\ RlSoundQueue(<<>>) /\ Rl!TasksOf(<<>>) = {} /\ <<>> \in Seq(Rl!Entry)
      BY DEF RlSoundQueue, Rl!TasksOf, RlValues
<1>2. Rl!Idle \in Rl!Calls /\ Rl!Idle.kind = "stats" /\ Rl!Idle.pc = "idle" /\ Rl!Idle.buf = <<>>
      BY <1>1 DEF Rl!Idle, Rl!Calls, Rl!Kinds, Rl!Labels
<1>3. \A s \in RlSlots : rlCall[s] = Rl!Idle
      BY DEF Rl!Init
<1>4. Rl!TypeOK
  <2>1. rlCall \in [RlSlots -> Rl!Calls]
        BY <1>2 DEF Rl!Init
  <2>2. 0 \in 0..RlCalls /\ 0 \in 0..RlFaults
        BY DEF RlValues
  <2>3. QED
        BY <1>1, <2>1, <2>2 DEF Rl!Init, Rl!TypeOK
<1>5. RlUnderway
      BY <1>1, <1>2, <1>3 DEF Rl!Init, RlUnderway, RlSound, RlKinds, RlSent, RlEarly, RlEnqueues,
           RlTakes, RlEarlyCall
<1>6. RlClean /\ Rl!TakenOnce
      BY <1>1, <1>2, <1>3 DEF Rl!Init, RlClean, RlTorn, RlAlone, RlCarry, RlTaken, RlQueued,
           Rl!TakenOnce,
         Rl!At, RlTakes, RlValues
<1>7. QED
      BY <1>4, <1>5, <1>6 DEF RlIInv

\* It holds what the runs check
LEMMA RlInv == RlIInv => Rl!RateLimitInv
      BY DEF RlIInv, RlUnderway, RlSound, RlSoundQueue, Rl!RateLimitInv, Rl!Bounded

-----------------------------------------------------------------------------
(* The recipes of modules *)

RunnerValues == RunFaults \in Nat

\* How far a run is says what it has done
RunnerWay ==
    /\ \A r \in Runs : runPc[r] \in {"audit", "queued", "checkpoint", "commit", "done"}
         => r \in moved
    /\ \A r \in Runs : runPc[r] \in {"new", "transition", "audit"} => r \notin Runner!ToSet(log)
    /\ \A r \in Runs : runPc[r] \in {"checkpoint", "commit", "done"} => r \in Runner!ToSet(log)
    /\ \A r \in Runs : runPc[r] \in {"commit", "done"} => r \in unstaged \cup index
    /\ index \subseteq Runner!OnDisk
RunnerLines ==
    /\ Runner!IsInjective(log) /\ Runner!IsInjective(writeQueue)
    /\ Runner!ToSet(log) \cap Runner!ToSet(writeQueue) = {}

RunnerIInv == Runner!TypeOK /\ Runner!SuccessIsCommitted /\ Runner!LinesAwaited /\ RunnerLines
  /\ RunnerWay

\* A line that joins a queue without it keeps the lines apart
LEMMA RunnerAppendLemma ==
    ASSUME NEW S, NEW q \in Seq(S), NEW x \in S
    PROVE  /\ Append(q, x) \in Seq(S) /\ Runner!ToSet(Append(q, x)) = Runner!ToSet(q) \cup {x}
           /\ Runner!IsInjective(q) /\ x \notin Runner!ToSet(q) => Runner!IsInjective(Append(q,
                x))
<1>1. /\ Append(q, x) \in Seq(S) /\ Len(q) \in Nat /\ DOMAIN q = 1..Len(q)
      /\ DOMAIN Append(q, x) = 1..Len(q) + 1
      /\ \A k \in 1..Len(q) + 1 : Append(q, x)[k] = IF k \in 1..Len(q) THEN q[k] ELSE x
      OBVIOUS
<1> DEFINE p == Append(q, x)
<1> HIDE DEF p
<1>2. Runner!ToSet(p) = Runner!ToSet(q) \cup {x}
      BY <1>1 DEF Runner!ToSet, p
<1>3. Runner!IsInjective(q) /\ x \notin Runner!ToSet(q) => Runner!IsInjective(p)
      BY <1>1 DEF Runner!ToSet, Runner!IsInjective, p
<1>4. QED
      BY <1>1, <1>2, <1>3 DEF p

\* The head leaves a queue, and the other lines stay apart
LEMMA RunnerTailLemma ==
    ASSUME NEW S, NEW q \in Seq(S), q # <<>>
    PROVE  /\ Head(q) \in S /\ Tail(q) \in Seq(S) /\ Head(q) \in Runner!ToSet(q)
           /\ Runner!ToSet(q) = Runner!ToSet(Tail(q)) \cup {Head(q)}
           /\ Runner!IsInjective(q) => Runner!IsInjective(Tail(q))
                /\ Head(q) \notin Runner!ToSet(Tail(q))
<1>1. /\ Tail(q) \in Seq(S) /\ Len(q) \in Nat \ {0} /\ DOMAIN q = 1..Len(q)
      /\ Head(q) = q[1] /\ q[1] \in S /\ DOMAIN Tail(q) = 1..Len(q) - 1
      OBVIOUS
<1>2. \A k \in 1..Len(q) - 1 : Tail(q)[k] = q[k + 1]
      OBVIOUS
<1> DEFINE p == Tail(q)
<1>3. DOMAIN p = 1..Len(q) - 1 /\ \A k \in 1..Len(q) - 1 : p[k] = q[k + 1]
      BY <1>1, <1>2
<1> HIDE DEF p
<1>4. Head(q) \in Runner!ToSet(q) /\ Runner!ToSet(p) \subseteq Runner!ToSet(q)
      BY <1>1, <1>3 DEF Runner!ToSet
<1>5. ASSUME NEW k \in DOMAIN q, k # 1 PROVE q[k] \in Runner!ToSet(p)
  <2>1. k - 1 \in DOMAIN p /\ p[k - 1] = q[k]
        BY <1>1, <1>3, <1>5
  <2>2. QED
        BY <2>1 DEF Runner!ToSet
<1>6. Runner!ToSet(q) = Runner!ToSet(p) \cup {Head(q)}
      BY <1>1, <1>4, <1>5 DEF Runner!ToSet
<1>7. Runner!IsInjective(q) => Runner!IsInjective(p) /\ Head(q) \notin Runner!ToSet(p)
      BY <1>1, <1>3 DEF Runner!ToSet, Runner!IsInjective
<1>8. QED
      BY <1>1, <1>4, <1>6, <1>7 DEF p

\* Two queues of different lines are together one of different lines
LEMMA RunnerConcatLemma ==
    ASSUME NEW S, NEW p \in Seq(S), NEW q \in Seq(S)
    PROVE  Runner!IsInjective(p) /\ Runner!IsInjective(q)
             /\ Runner!ToSet(p) \cap Runner!ToSet(q) = {} => Runner!IsInjective(p \o q)
<1>1. /\ Len(p) \in Nat /\ Len(q) \in Nat /\ DOMAIN p = 1..Len(p) /\ DOMAIN q = 1..Len(q)
      /\ DOMAIN (p \o q) = 1..Len(p) + Len(q)
      OBVIOUS
<1>2. \A k \in 1..Len(p) + Len(q) :
        (p \o q)[k] = IF k <= Len(p) THEN p[k] ELSE q[k - Len(p)]
      OBVIOUS
<1> DEFINE r == p \o q
<1>3. DOMAIN r = 1..Len(p) + Len(q) /\ \A k \in DOMAIN r :
        r[k] = IF k <= Len(p) THEN p[k] ELSE q[k - Len(p)]
      BY <1>1, <1>2
<1> HIDE DEF r
<1>4. ASSUME Runner!IsInjective(p), Runner!IsInjective(q),
               Runner!ToSet(p) \cap Runner!ToSet(q) = {},
             NEW i \in DOMAIN r, NEW j \in DOMAIN r, r[i] = r[j]
      PROVE  i = j
  <2>1. \A k \in DOMAIN r : k <= Len(p) => k \in DOMAIN p
        BY <1>1, <1>3
  <2>2. \A k \in DOMAIN r : ~(k <= Len(p)) => k - Len(p) \in DOMAIN q
        BY <1>1, <1>3
  <2>3. CASE i <= Len(p) /\ j <= Len(p)
        BY <1>3, <1>4, <2>1, <2>3 DEF Runner!IsInjective
  <2>4. CASE ~(i <= Len(p)) /\ ~(j <= Len(p))
    <3>1. i - Len(p) = j - Len(p)
          BY <1>3, <1>4, <2>2, <2>4 DEF Runner!IsInjective
    <3>2. QED
          BY <1>1, <1>3, <3>1
  <2>5. ASSUME NEW x \in DOMAIN p, NEW y \in DOMAIN q PROVE p[x] # q[y]
        BY <1>4 DEF Runner!ToSet
  <2>6. QED
        BY <1>3, <1>4, <2>1, <2>2, <2>3, <2>4, <2>5
<1>5. QED
      BY <1>4 DEF Runner!IsInjective, r

\* A step of a run or of the queue keeps it
LEMMA RunnerStep ==
    ASSUME RunnerValues, RunnerIInv, Runner!Next \/ UNCHANGED runner
    PROVE  RunnerIInv'
<1> USE DEF RunnerValues
<1>1. Runner!TypeOK /\ Runner!SuccessIsCommitted /\ Runner!LinesAwaited /\ RunnerLines
        /\ RunnerWay
      BY DEF RunnerIInv
<1> USE DEF Runner!TypeOK, Runner!SuccessIsCommitted, Runner!LinesAwaited, RunnerLines, RunnerWay
<1>2. ASSUME NEW r \in Runs, Runner!Begin(r) PROVE RunnerIInv'
      BY <1>1, <1>2 DEF Runner!Begin, Runner!Goes, Runner!OnDisk, RunnerIInv, Runner!Effects,
           Runner!Places
<1>3. ASSUME NEW r \in Runs, Runner!StateTransition(r) PROVE RunnerIInv'
      BY <1>1, <1>3 DEF Runner!StateTransition, Runner!Denied, Runner!Goes, Runner!OnDisk,
           RunnerIInv, Runner!Places
<1>4. ASSUME NEW r \in Runs, Runner!Enqueue(r) PROVE RunnerIInv'
  <2>1. CASE Runner!Denied(r, "writeEvent") /\ UNCHANGED writeQueue
        BY <1>1, <1>4, <2>1 DEF Runner!Enqueue, Runner!Denied, Runner!Goes, Runner!OnDisk,
             RunnerIInv, Runner!Places
  <2>2. CASE "writeEvent" \in allowed[r] /\ Runner!Goes(r, "queued")
               /\ writeQueue' = Append(writeQueue, r)
    <3>1. /\ runPc[r] = "audit" /\ runPc' = [runPc EXCEPT ![r] = "queued"]
          /\ UNCHANGED <<allowed, moved, log, edited, index, head, unstaged, runFaults>>
          BY <1>4, <2>2 DEF Runner!Enqueue, Runner!Goes
    <3>2. r \notin Runner!ToSet(log) /\ r \notin Runner!ToSet(writeQueue)
          BY <1>1, <3>1
    <3>3. /\ writeQueue' \in Seq(Runs)
               /\ Runner!ToSet(writeQueue') = Runner!ToSet(writeQueue) \cup {r}
          /\ Runner!IsInjective(writeQueue')
          BY <1>1, <2>2, <3>2, RunnerAppendLemma
    <3>4. RunnerLines'
          BY <1>1, <3>1, <3>2, <3>3
    <3>5. Runner!IsInjective(log' \o writeQueue')
          BY <1>1, <3>1, <3>3, <3>4, RunnerConcatLemma
    <3>6. QED
          BY <1>1, <3>1, <3>3, <3>4, <3>5 DEF Runner!OnDisk, RunnerIInv, Runner!Places
  <2>3. QED
        BY <1>4, <2>1, <2>2 DEF Runner!Enqueue
<1>5. ASSUME NEW r \in Runs, Runner!Stage(r) PROVE RunnerIInv'
  <2>1. Runner!TypeOK'
    <3>1. PICK place \in Runner!Places : runPc' = [runPc EXCEPT ![r] = place]
          BY <1>5 DEF Runner!Stage, Runner!Denied, Runner!Goes, Runner!Places
    <3>2. runPc' \in [Runs -> Runner!Places]
          BY <1>1, <3>1
    <3>3. index' \subseteq Runs \cup RunChanges /\ head' \subseteq index'
            /\ unstaged' \subseteq Runs
          BY <1>1, <1>5 DEF Runner!Stage, Runner!Denied, Runner!Goes, Runner!Fault, Runner!OnDisk,
               Runner!ToSet
    <3>4. runFaults' \in 0..RunFaults /\ UNCHANGED <<allowed, moved, writeQueue, log, edited>>
          BY <1>1, <1>5 DEF Runner!Stage, Runner!Denied, Runner!Goes, Runner!Fault, Runner!OnDisk
    <3>5. QED
          BY <1>1, <3>2, <3>3, <3>4
  <2>2. Runner!SuccessIsCommitted'
        BY <1>1, <1>5 DEF Runner!Stage, Runner!Denied, Runner!Goes, Runner!Fault, Runner!OnDisk
  <2>3. Runner!LinesAwaited' /\ RunnerLines'
        BY <1>1, <1>5 DEF Runner!Stage, Runner!Denied, Runner!Goes, Runner!Fault, Runner!OnDisk
  <2>4. RunnerWay'
        BY <1>1, <1>5 DEF Runner!Stage, Runner!Denied, Runner!Goes, Runner!Fault, Runner!OnDisk
  <2>5. QED
        BY <2>1, <2>2, <2>3, <2>4 DEF RunnerIInv
<1>6. ASSUME NEW r \in Runs, Runner!Commit(r) PROVE RunnerIInv'
  <2>1. Runner!TypeOK'
    <3>1. PICK place \in Runner!Places : runPc' = [runPc EXCEPT ![r] = place]
          BY <1>6 DEF Runner!Commit, Runner!Denied, Runner!Goes, Runner!Places
    <3>2. runPc' \in [Runs -> Runner!Places]
          BY <1>1, <3>1
    <3>3. index' \subseteq Runs \cup RunChanges /\ head' \subseteq index'
            /\ unstaged' \subseteq Runs
          BY <1>1, <1>6 DEF Runner!Commit, Runner!Goes, Runner!Fault, Runner!OnDisk, Runner!ToSet
    <3>4. runFaults' \in 0..RunFaults /\ UNCHANGED <<allowed, moved, writeQueue, log, edited>>
          BY <1>1, <1>6 DEF Runner!Commit, Runner!Goes, Runner!Fault, Runner!OnDisk
    <3>5. QED
          BY <1>1, <3>2, <3>3, <3>4
  <2>2. Runner!SuccessIsCommitted'
        BY <1>1, <1>6 DEF Runner!Commit, Runner!Goes, Runner!Fault, Runner!OnDisk
  <2>3. Runner!LinesAwaited' /\ RunnerLines'
        BY <1>1, <1>6 DEF Runner!Commit, Runner!Goes, Runner!Fault, Runner!OnDisk
  <2>4. RunnerWay'
        BY <1>1, <1>6 DEF Runner!Commit, Runner!Goes, Runner!Fault, Runner!OnDisk
  <2>5. QED
        BY <2>1, <2>2, <2>3, <2>4 DEF RunnerIInv
<1>7. ASSUME Runner!Written PROVE RunnerIInv'
  <2> DEFINE r == Head(writeQueue)
  <2>1. /\ writeQueue # <<>> /\ writeQueue' = Tail(writeQueue)
        /\ UNCHANGED <<allowed, moved, edited, index, head, unstaged>>
        BY <1>7 DEF Runner!Written
  <2>2. /\ r \in Runs /\ r \in Runner!ToSet(writeQueue) /\ writeQueue' \in Seq(Runs)
        /\ Runner!ToSet(writeQueue) = Runner!ToSet(writeQueue') \cup {r}
             /\ r \notin Runner!ToSet(writeQueue')
        /\ Runner!IsInjective(writeQueue')
        BY <1>1, <2>1, RunnerTailLemma
  <2>3. runPc[r] = "queued" /\ r \notin Runner!ToSet(log)
        BY <1>1, <2>2
  <2>4. CASE /\ log' = Append(log, r) /\ UNCHANGED runFaults
             /\ runPc' = [runPc EXCEPT ![r] = IF @ = "queued" THEN "checkpoint" ELSE @]
    <3>1. /\ log' \in Seq(Runs) /\ Runner!ToSet(log') = Runner!ToSet(log) \cup {r}
               /\ Runner!IsInjective(log')
          BY <1>1, <2>2, <2>3, <2>4, RunnerAppendLemma
    <3>2. runPc' = [runPc EXCEPT ![r] = "checkpoint"]
          BY <2>3, <2>4
    <3>3. RunnerLines'
          BY <1>1, <2>2, <3>1
    <3>4. Runner!IsInjective(log' \o writeQueue')
          BY <2>2, <3>1, <3>3, RunnerConcatLemma
    <3> HIDE DEF r
    <3>5. QED
          BY <1>1, <2>1, <2>2, <2>3, <2>4, <3>1, <3>2, <3>3, <3>4 DEF Runner!OnDisk, RunnerIInv,
               Runner!Places
  <2>5. CASE /\ Runner!Fault /\ UNCHANGED log
             /\ runPc' = [runPc EXCEPT ![r] = IF @ = "queued" THEN "failed" ELSE @]
    <3>1. runPc' = [runPc EXCEPT ![r] = "failed"]
          BY <2>3, <2>5
    <3>2. RunnerLines'
          BY <1>1, <2>2, <2>5
    <3>3. Runner!IsInjective(log' \o writeQueue')
          BY <1>1, <2>2, <2>5, <3>2, RunnerConcatLemma
    <3> HIDE DEF r
    <3>4. QED
          BY <1>1, <2>1, <2>2, <2>3, <2>5, <3>1, <3>2, <3>3 DEF Runner!Fault, Runner!OnDisk,
               RunnerIInv, Runner!Places
  <2>6. QED
        BY <1>7, <2>4, <2>5 DEF Runner!Written
<1>8. ASSUME Runner!Edit PROVE RunnerIInv'
      BY <1>1, <1>8 DEF Runner!Edit, Runner!OnDisk, RunnerIInv
<1>9. ASSUME UNCHANGED runner PROVE RunnerIInv'
      BY <1>1, <1>9 DEF runner, Runner!OnDisk, RunnerIInv
<1>10. QED
      BY <1>2, <1>3, <1>4, <1>5, <1>6, <1>7, <1>8, <1>9 DEF Runner!Next

\* The runs start so
LEMMA RunnerInit == ASSUME RunnerValues, Runner!Init PROVE RunnerIInv
<1>1. Runner!ToSet(<<>>) = {} /\ Runner!IsInjective(<<>>) /\ <<>> \o <<>> = <<>>
        /\ <<>> \in Seq(Runs)
      BY DEF Runner!ToSet, Runner!IsInjective
<1>2. QED
      BY <1>1 DEF Runner!Init, RunnerIInv, Runner!TypeOK, Runner!SuccessIsCommitted,
           Runner!LinesAwaited, RunnerLines, RunnerWay,
         Runner!OnDisk, Runner!Effects, Runner!Places, RunnerValues

-----------------------------------------------------------------------------
(* The issue note under its writers *)

NoteHolding == [seen : Notes!Note, to : Notes!Statuses, text : Notes!Note \cup {None}]

NoteValues == /\ MaxUses \in Nat /\ MaxNoteEdits \in Nat
              /\ None \notin Notes!Note /\ None \notin NoteHolding
              /\ Torn \notin Notes!Note /\ Torn # None

\* Epics lie in their folder and nothing else does
NotePlaced(n) == n.type = "epic" <=> root = "epics"
NoteGood(n) == Notes!RegistryReads(n) /\ NotePlaced(n)

\* What the engine holds: a change it accepted, and then a text that makes it
NoteEngineHolds(h) ==
    h # None =>
      /\ h.text = None => Notes!EngineAccepts(h.seen.type, h.seen.status, h.to)
      /\ h.text # None => /\ Notes!RegistryReads(h.seen) => Notes!RegistryReads(h.text)
                          /\ NotePlaced(h.seen) => NotePlaced(h.text)
                          /\ h.text.completed <=> h.text.status = "DONE"
                          /\ Notes!EngineAccepts(h.text.type, h.seen.status, h.text.status)

\* What the normaliser holds: a text the registry reads
NoteNormaliserHolds(h) ==
    h # None => /\ h.text # None /\ NoteGood(h.text)
                /\ h.text.marked # {} => h.text.status \in {"TODO", "FAILED"}
                /\ h.text.id = "own" /\ h.text.project = Notes!Draft.project

NoteFile  == Notes!Note \cup {None, Torn}
NotePlaces == {"none", "note", "tmp", "lost", "filled"}

NoteHeld ==
    /\ root \in {"single", "project", "epics"} /\ rough \in Notes!Roughs \cup {None}
    /\ note \in NoteFile /\ swap \in NoteFile
    /\ held \in [Notes!Programs -> NoteHolding \cup {None}]
    /\ handle \in [Notes!Programs -> NotePlaces]
    /\ \A p \in Notes!Programs : handle[p] # "none" => held[p] # None /\ held[p].text # None
    /\ NoteEngineHolds(held["engine"]) /\ NoteNormaliserHolds(held["normaliser"])
    /\ held["cli"] # None => root # "epics"

NoteBounds == /\ uses \in 0..MaxUses /\ changes \in 0..MaxNoteEdits
              /\ saved \in BOOLEAN /\ cut \in BOOLEAN

\* As long as nobody edited and the store filled no file, every text is good
NoteCalm == changes = 0 /\ ~saved =>
    /\ note \in Notes!Note => NoteGood(note)
    /\ swap \in Notes!Note => NoteGood(swap)
    /\ \A p \in {"engine", "cli"} : held[p] # None /\ held[p].text # None
         => NoteGood(held[p].text)

\* An empty file is open, or whoever opened it is gone
NoteOpen ==
    /\ note = Torn => cut \/ \E p \in Notes!Programs : handle[p] = "note"
    /\ swap = Torn => cut \/ \E p \in Notes!Programs : handle[p] = "tmp"

NoteIInv == NoteHeld /\ NoteBounds /\ NoteCalm /\ NoteOpen

\* What the engine writes has the status asked for, and is read if its note was
LEMMA NoteMovedLemma ==
    ASSUME NEW n \in Notes!Note, NEW to \in Notes!Statuses
    PROVE  /\ Notes!Moved(n, to) \in Notes!Note /\ Notes!Moved(n, to).type = n.type
                /\ Notes!Moved(n, to).status = to
           /\ Notes!Moved(n, to).completed <=> to = "DONE"
           /\ Notes!RegistryReads(n) /\ Notes!EngineAccepts(n.type, n.status, to)
                => Notes!RegistryReads(Notes!Moved(n, to))
<1> DEFINE m == Notes!Moved(n, to)
<1>1. m \in Notes!Note /\ m.id = n.id /\ m.type = n.type /\ m.status = to
        /\ m.executor = n.executor
      /\ m.project = n.project /\ m.sections = n.sections \cup {"log"}
      /\ (m.completed <=> to = "DONE")
      BY DEF Notes!Moved, Notes!Note, Notes!Parts
<1> HIDE DEF m
<1>2. Notes!RegistryReads(n) /\ Notes!EngineAccepts(n.type, n.status, to)
        => Notes!RegistryReads(m)
      BY <1>1 DEF Notes!RegistryReads, Notes!Valid, Notes!Complete, Notes!Required,
           Notes!EngineAccepts, Notes!EpicTransition, Notes!EpicBlocked,
         Notes!Statuses
<1>3. QED
      BY <1>1, <1>2 DEF m

\* What the CLI writes is of the same kind, and is read if its note was
LEMMA NoteUpdatedLemma ==
    ASSUME NEW n \in Notes!Note, NEW to \in Notes!Statuses
    PROVE  /\ Notes!Updated(n, to) \in Notes!Note /\ Notes!Updated(n, to).type = n.type
           /\ Notes!RegistryReads(n) /\ n.type # "epic" => Notes!RegistryReads(Notes!Updated(n,
                to))
<1> DEFINE m == Notes!Updated(n, to)
<1>1. m \in Notes!Note /\ m.id = n.id /\ m.type = n.type /\ m.status = to
        /\ m.executor = n.executor
      /\ m.project = n.project /\ m.sections = n.sections \cup {"log"}
      BY DEF Notes!Updated, Notes!Note, Notes!Parts
<1> HIDE DEF m
<1>2. Notes!RegistryReads(n) /\ n.type # "epic" => Notes!RegistryReads(m)
      BY <1>1 DEF Notes!RegistryReads, Notes!Valid, Notes!Complete, Notes!Required
<1>3. QED
      BY <1>1, <1>2 DEF m

\* What the store writes is a note
LEMMA NoteSavedLemma ==
    ASSUME NEW task \in Notes!Note, NEW to \in Notes!Statuses,
           NEW sections \in SUBSET Notes!Parts, NEW marked \in SUBSET Notes!Parts
    PROVE  Notes!Saved(task, to, sections, marked) \in Notes!Note
      BY DEF Notes!Saved, Notes!Note, Notes!Kinds

\* What the normaliser writes is formal, and goes where its kind belongs
LEMMA NoteFormalLemma ==
    ASSUME NEW n \in Notes!Note, root \in {"single", "project", "epics"},
           n.id = "own" \/ n.id = "none", NotePlaced(n)
    PROVE  /\ Notes!Formal(n) \in Notes!Note /\ Notes!Formal(n).status \in Notes!Statuses
                /\ Notes!Formal(n).id = "own"
           /\ Notes!Formal(n).project = Notes!Draft.project /\ NotePlaced(Notes!Formal(n))
           /\ Notes!Formal(n).marked # {} => Notes!Formal(n).status \in {"TODO", "FAILED"}
<1> DEFINE type == IF n.type \in Notes!Kinds THEN n.type ELSE "task"
           marked == Notes!Required(type) \cap (n.marked \cup (Notes!Parts \ n.sections))
           f == Notes!Formal(n)
<1>1. type \in Notes!Kinds /\ Notes!Required(type) \subseteq Notes!Parts
        /\ marked \subseteq Notes!Parts
      BY DEF Notes!Kinds, Notes!Required, Notes!Parts
<1>2. f = [n EXCEPT !.id = IF n.id = "none" THEN "own" ELSE n.id, !.type = type,
                 !.status = Notes!Readiness(IF n.status \in Notes!Statuses
                   THEN n.status ELSE "TODO", marked),
                 !.executor = IF type # "epic" /\ n.executor = "codex" THEN n.executor
                   ELSE "human",
                 !.project = IF type # "epic" /\ root = "project" THEN "p" ELSE "",
                 !.sections = Notes!Required(type), !.marked = marked]
      BY DEF Notes!Formal
<1> DEFINE status == Notes!Readiness(IF n.status \in Notes!Statuses THEN n.status ELSE "TODO",
             marked)
<1>3. status \in Notes!Statuses /\ (marked # {} => status \in {"TODO", "FAILED"})
      BY DEF Notes!Readiness, Notes!Statuses, Notes!Blocked
<1> HIDE DEF type, marked, status, f
<1>4. /\ f \in Notes!Note /\ f.id = "own" /\ f.type = type /\ f.status = status
           /\ f.marked = marked
      /\ f.project = IF type # "epic" /\ root = "project" THEN "p" ELSE ""
      BY <1>1, <1>2, <1>3 DEF Notes!Note, status
<1>5. type = "epic" <=> n.type = "epic"
      BY DEF type, Notes!Kinds
<1>6. f.project = Notes!Draft.project /\ NotePlaced(f)
      BY <1>4, <1>5 DEF NotePlaced, Notes!Draft
<1>7. QED
      BY <1>3, <1>4, <1>6 DEF f

\* What is held while nobody interferes is what the runs check
LEMMA NoteInvLemma == ASSUME NoteValues, NoteIInv PROVE Notes!NoteInv
<1>1. NoteHeld /\ NoteBounds /\ NoteCalm /\ NoteOpen
      BY DEF NoteIInv
<1>2. Notes!TypeOK
  <2>1. \A p \in Notes!Programs : held[p] = None \/ held[p].text \in Notes!Note \cup {None}
        BY <1>1 DEF NoteHeld, NoteHolding
  <2>2. QED
        BY <1>1, <2>1 DEF NoteHeld, NoteBounds, NoteFile, NotePlaces, Notes!TypeOK, Notes!Ready
<1>3. Notes!StaysReadable
      BY <1>1 DEF NoteHeld, NoteFile, NoteCalm, NoteOpen, NoteGood, Notes!StaysReadable,
           Notes!Legible
<1>4. Notes!EngineKeeps
      BY <1>1 DEF NoteHeld, NoteEngineHolds, Notes!EngineKeeps, Notes!Ready
<1>5. Notes!NormaliserKeeps
      BY <1>1 DEF NoteHeld, NoteNormaliserHolds, Notes!NormaliserKeeps, Notes!Ready
<1>6. QED
      BY <1>2, <1>3, <1>4, <1>5 DEF Notes!NoteInv

\* What one program holds leaves what the others hold
LEMMA NoteHoldsLemma ==
    ASSUME held \in [Notes!Programs -> NoteHolding \cup {None}],
           NEW p \in Notes!Programs, NEW h \in NoteHolding \cup {None}, Notes!Holds(p, h)
    PROVE  /\ held' \in [Notes!Programs -> NoteHolding \cup {None}] /\ held'[p] = h
           /\ \A q \in Notes!Programs \ {p} : held'[q] = held[q]
BY DEF Notes!Holds

\* A step that writes no file keeps it, if what is held is right
LEMMA NoteKeeps ==
    ASSUME NoteValues, NoteIInv, NEW p \in Notes!Programs, NEW h \in NoteHolding \cup {None},
           Notes!Holds(p, h), handle[p] = "none",
           UNCHANGED <<root, note, swap, rough, handle, changes, saved, cut>>,
           uses' \in 0..MaxUses,
           p = "engine" => NoteEngineHolds(h), p = "normaliser" => NoteNormaliserHolds(h),
           p = "cli" /\ h # None => root # "epics",
           changes = 0 /\ ~saved /\ p \in {"engine", "cli"} /\ h # None /\ h.text # None
             => NoteGood(h.text)
    PROVE  NoteIInv'
<1>1. NoteHeld /\ NoteBounds /\ NoteCalm /\ NoteOpen
      BY DEF NoteIInv
<1>2. /\ held' \in [Notes!Programs -> NoteHolding \cup {None}] /\ held'[p] = h
      /\ \A q \in Notes!Programs \ {p} : held'[q] = held[q]
      BY <1>1, NoteHoldsLemma DEF NoteHeld
<1>3. NoteHeld'
  <2>1. NoteEngineHolds(held["engine"])'
        BY <1>1, <1>2 DEF NoteHeld, NoteEngineHolds, NotePlaced, Notes!RegistryReads, Notes!Programs
  <2>2. NoteNormaliserHolds(held["normaliser"])'
        BY <1>1, <1>2 DEF NoteHeld, NoteNormaliserHolds, NoteGood, NotePlaced, Notes!Draft,
             Notes!RegistryReads, Notes!Programs
  <2>3. QED
        BY <1>1, <1>2, <2>1, <2>2 DEF NoteHeld, Notes!Programs
<1>4. NoteCalm'
      BY <1>1, <1>2 DEF NoteCalm, NoteGood, NotePlaced, Notes!RegistryReads, Notes!Programs
<1>5. NoteBounds' /\ NoteOpen'
      BY <1>1 DEF NoteBounds, NoteOpen
<1>6. QED
      BY <1>3, <1>4, <1>5 DEF NoteIInv

\* A program that starts holds the note and a status
LEMMA NoteStarts ==
    ASSUME NoteValues, NoteIInv, NEW p \in Notes!Programs, NEW to \in Notes!Statuses,
           note \in Notes!Note, Notes!Starts(p, note, to),
           p = "engine" => Notes!EngineAccepts(note.type, note.status, to),
           p # "normaliser", p = "cli" => root # "epics"
    PROVE  NoteIInv'
<1>1. NoteHeld /\ NoteBounds
      BY DEF NoteIInv
<1>2. PICK h \in NoteHolding : Notes!Holds(p, h) /\ h.seen = note /\ h.to = to /\ h.text = None
  <2>1. [seen |-> note, to |-> to, text |-> None] \in NoteHolding
        BY DEF NoteHolding
  <2>2. QED
        BY <2>1 DEF Notes!Starts
<1>3. uses' \in 0..MaxUses
      BY <1>1 DEF Notes!Starts, NoteBounds, NoteValues
<1>4. /\ UNCHANGED <<root, note, swap, rough, handle, changes, saved, cut>> /\ handle[p] = "none"
      BY <1>1 DEF Notes!Starts, Notes!place, Notes!files, NoteHeld
<1>5. p = "engine" => NoteEngineHolds(h)
      BY <1>2 DEF NoteEngineHolds
<1>6. QED
      BY <1>2, <1>3, <1>4, <1>5, NoteKeeps

\* A program that has made its text
LEMMA NoteMakes ==
    ASSUME NoteValues, NoteIInv, NEW p \in Notes!Programs \ {"normaliser"}, Notes!Between(p),
           NEW seen \in Notes!Note, NEW m \in Notes!Note, Notes!Makes(p, seen, m),
           p = "engine" => /\ Notes!RegistryReads(seen) => Notes!RegistryReads(m)
                           /\ NotePlaced(seen) => NotePlaced(m)
                           /\ m.completed <=> m.status = "DONE"
                           /\ Notes!EngineAccepts(m.type, seen.status, m.status),
           changes = 0 /\ ~saved /\ p \in {"engine", "cli"} => NoteGood(m)
    PROVE  NoteIInv'
<1>1. NoteHeld /\ NoteBounds
      BY DEF NoteIInv
<1>2. held[p] \in NoteHolding /\ held[p] # None /\ held[p].text = None
      BY <1>1 DEF NoteHeld, Notes!Between
<1>3. PICK h \in NoteHolding : Notes!Holds(p, h) /\ h.seen = seen /\ h.text = m
  <2>1. /\ [held[p] EXCEPT !.seen = seen, !.text = m] \in NoteHolding
        /\ [held[p] EXCEPT !.seen = seen, !.text = m].seen = seen
        /\ [held[p] EXCEPT !.seen = seen, !.text = m].text = m
        BY <1>2 DEF NoteHolding
  <2>2. QED
        BY <2>1 DEF Notes!Makes
<1>4. /\ UNCHANGED <<root, note, swap, rough, handle, uses, changes, saved, cut>>
      /\ handle[p] = "none" /\ m # None
      BY <1>1, <1>2 DEF Notes!Makes, Notes!place, Notes!files, Notes!bounds, NoteHeld, NoteValues
<1>5. p = "engine" => NoteEngineHolds(h)
      BY <1>3, <1>4 DEF NoteEngineHolds
<1>6. p = "cli" => root # "epics"
      BY <1>1, <1>2 DEF NoteHeld
<1>7. uses' \in 0..MaxUses
      BY <1>1, <1>4 DEF NoteBounds
<1>8. QED
      BY <1>3, <1>4, <1>5, <1>6, <1>7, NoteKeeps

\* One that holds nothing any more
LEMMA NoteGivesUp ==
    ASSUME NoteValues, NoteIInv, NEW p \in Notes!Programs, Notes!GivesUp(p), handle[p] = "none"
    PROVE  NoteIInv'
<1>1. NoteBounds
      BY DEF NoteIInv
<1>2. /\ UNCHANGED <<root, note, swap, rough, handle, uses, changes, saved, cut>>
      /\ Notes!Holds(p, None) /\ uses' \in 0..MaxUses
      BY <1>1 DEF Notes!GivesUp, Notes!place, Notes!files, Notes!bounds, NoteBounds
<1>3. QED
      BY <1>2, NoteKeeps DEF NoteEngineHolds, NoteNormaliserHolds

\* What a program is ready to write
LEMMA NoteReady ==
    ASSUME NoteValues, NoteIInv, NEW p \in Notes!Programs, Notes!Ready(p)
    PROVE  /\ held[p].text \in Notes!Note /\ held[p].text # Torn /\ held[p].text # None
           /\ changes = 0 /\ ~saved /\ p # "store" => NoteGood(held[p].text)
<1>1. NoteHeld /\ NoteCalm
      BY DEF NoteIInv
<1>2. held[p] \in NoteHolding /\ held[p].text # None
      BY <1>1 DEF NoteHeld, Notes!Ready
<1>3. changes = 0 /\ ~saved /\ p # "store" => NoteGood(held[p].text)
      BY <1>1 DEF NoteHeld, NoteNormaliserHolds, NoteCalm, Notes!Ready, Notes!Programs
<1>4. QED
      BY <1>2, <1>3 DEF NoteHolding, NoteValues

\* Who writes files by what is held leaves it right
LEMMA NoteWrote ==
    ASSUME NoteValues, NoteIInv, UNCHANGED <<root, rough, uses, changes>>,
           held' \in [Notes!Programs -> NoteHolding \cup {None}],
           \A q \in Notes!Programs : held'[q] \in {held[q], None},
           handle' \in [Notes!Programs -> NotePlaces],
           \A q \in Notes!Programs : handle'[q] # "none" => held'[q] # None /\ held'[q].text # None,
           saved' \in BOOLEAN, cut' \in BOOLEAN, ~saved' => ~saved,
           NEW n \in NoteFile, NEW t \in NoteFile, note' = n, swap' = t,
           changes = 0 /\ ~saved' /\ n \in Notes!Note => NoteGood(n),
           changes = 0 /\ ~saved' /\ t \in Notes!Note => NoteGood(t),
           NoteOpen'
    PROVE  NoteIInv'
<1>1. NoteHeld /\ NoteBounds /\ NoteCalm
      BY DEF NoteIInv
<1>2. NoteHeld'
  <2>1. NoteEngineHolds(held["engine"])'
        BY <1>1 DEF NoteHeld, NoteEngineHolds, NotePlaced, Notes!RegistryReads, Notes!Programs
  <2>2. NoteNormaliserHolds(held["normaliser"])'
        BY <1>1 DEF NoteHeld, NoteNormaliserHolds, NoteGood, NotePlaced, Notes!Draft,
             Notes!RegistryReads, Notes!Programs
  <2>3. (held["cli"] # None => root # "epics")'
        BY <1>1 DEF NoteHeld, Notes!Programs
  <2>4. QED
        BY <1>1, <2>1, <2>2, <2>3 DEF NoteHeld
<1>3. NoteCalm'
  <2>1. SUFFICES ASSUME changes = 0, ~saved'
                 PROVE  /\ note' \in Notes!Note => NoteGood(note)'
                        /\ swap' \in Notes!Note => NoteGood(swap)'
                        /\ \A p \in {"engine", "cli"} : held'[p] # None /\ held'[p].text # None
                             => NoteGood(held[p].text)'
        BY DEF NoteCalm
  <2>2. ASSUME NEW p \in {"engine", "cli"}, held'[p] # None, held'[p].text # None
        PROVE  NoteGood(held[p].text)'
        BY <1>1, <2>1, <2>2 DEF NoteCalm, NoteGood, NotePlaced, Notes!RegistryReads, Notes!Programs
  <2>3. QED
        BY <2>1, <2>2 DEF NoteGood, NotePlaced, Notes!RegistryReads
<1>4. NoteBounds'
      BY <1>1 DEF NoteBounds
<1>5. QED
      BY <1>2, <1>3, <1>4 DEF NoteIInv

\* A file is opened
LEMMA NoteOpens ==
    ASSUME NoteValues, NoteIInv, NEW p \in Notes!Programs, Notes!Opens(p) PROVE NoteIInv'
<1>1. NoteHeld /\ NoteBounds /\ NoteCalm /\ NoteOpen
      BY DEF NoteIInv
<1>2. /\ held[p] # None /\ held[p].text # None /\ handle[p] = "none"
      /\ UNCHANGED <<root, rough, held, uses, changes, saved, cut>>
      BY DEF Notes!Opens, Notes!Ready, Notes!place, Notes!bounds
<1>3. PICK file \in {"note", "tmp"} :
        /\ handle' = [handle EXCEPT ![p] = file]
        /\ IF file = "note" THEN note' = Torn /\ swap' = swap ELSE swap' = Torn /\ note' = note
      BY DEF Notes!Opens
<1>4. /\ handle' \in [Notes!Programs -> NotePlaces] /\ handle'[p] = file
      /\ \A q \in Notes!Programs \ {p} : handle'[q] = handle[q]
      BY <1>1, <1>3 DEF NoteHeld, NotePlaces
<1>5. PICK n \in NoteFile, t \in NoteFile : /\ note' = n /\ swap' = t
                                            /\ n \in {note, Torn} /\ t \in {swap, Torn}
      BY <1>1, <1>3 DEF NoteHeld, NoteFile
<1>6. NoteOpen'
  <2>1. CASE file = "note"
        BY <1>1, <1>2, <1>3, <1>4, <2>1 DEF NoteOpen
  <2>2. CASE file = "tmp"
        BY <1>1, <1>2, <1>3, <1>4, <2>2 DEF NoteOpen
  <2>3. QED
        BY <2>1, <2>2
<1>7. \A q \in Notes!Programs : handle'[q] # "none" => held'[q] # None /\ held'[q].text # None
      BY <1>1, <1>2, <1>4 DEF NoteHeld
<1>8. /\ changes = 0 /\ ~saved' /\ n \in Notes!Note => NoteGood(n)
      /\ changes = 0 /\ ~saved' /\ t \in Notes!Note => NoteGood(t)
      BY <1>1, <1>2, <1>5 DEF NoteCalm, NoteValues
<1>9. /\ held' \in [Notes!Programs -> NoteHolding \cup {None}]
      /\ \A q \in Notes!Programs : held'[q] \in {held[q], None}
      /\ saved' \in BOOLEAN /\ cut' \in BOOLEAN /\ (~saved' => ~saved)
      BY <1>1, <1>2 DEF NoteHeld, NoteBounds
<1>10. QED
       BY <1>2, <1>4, <1>5, <1>6, <1>7, <1>8, <1>9, NoteWrote

\* A file is filled
LEMMA NoteFills ==
    ASSUME NoteValues, NoteIInv, NEW p \in Notes!Programs, Notes!Fills(p) PROVE NoteIInv'
<1>1. NoteHeld /\ NoteBounds /\ NoteCalm /\ NoteOpen
      BY DEF NoteIInv
<1>2. /\ handle[p] \in {"note", "tmp", "lost"} /\ held[p] # None /\ held[p].text # None
      /\ UNCHANGED <<root, rough, uses, changes, cut>> /\ saved' = (saved \/ p = "store")
      BY <1>1 DEF Notes!Fills, Notes!Opened, Notes!place, Notes!bounds, NoteHeld
<1>3. PICK m \in Notes!Note : /\ m = held[p].text /\ m # Torn /\ m # None
                              /\ changes = 0 /\ ~saved /\ p # "store" => NoteGood(m)
      BY <1>2, NoteReady DEF Notes!Ready
<1>4. PICK h \in NoteHolding \cup {None}, file \in {"none", "filled"} :
        /\ Notes!Holds(p, h) /\ h \in {held[p], None} /\ (file = "filled" => h = held[p])
        /\ handle' = [handle EXCEPT ![p] = file]
  <2>1. CASE Notes!Direct(p)
        BY <1>1, <2>1 DEF Notes!Fills
  <2>2. CASE ~Notes!Direct(p)
    <3>1. UNCHANGED held /\ handle' = [handle EXCEPT ![p] = "filled"]
          BY <2>2 DEF Notes!Fills
    <3>2. held[p] \in NoteHolding \cup {None} /\ Notes!Holds(p, held[p])
          BY <1>1, <3>1 DEF NoteHeld, Notes!Holds
    <3>3. QED
          BY <3>1, <3>2
  <2>3. QED
        BY <2>1, <2>2
<1>5. /\ handle' \in [Notes!Programs -> NotePlaces] /\ handle'[p] = file
      /\ \A q \in Notes!Programs \ {p} : handle'[q] = handle[q]
      BY <1>1, <1>4 DEF NoteHeld, NotePlaces
<1>6. /\ held' \in [Notes!Programs -> NoteHolding \cup {None}] /\ held'[p] = h
      /\ \A q \in Notes!Programs \ {p} : held'[q] = held[q]
      BY <1>1, <1>4, NoteHoldsLemma DEF NoteHeld
<1>7. /\ note' = IF handle[p] = "note" THEN m ELSE note
      /\ swap' = IF handle[p] = "tmp" THEN m ELSE swap
      BY <1>3 DEF Notes!Fills
<1>8. PICK n \in NoteFile, t \in NoteFile : /\ note' = n /\ swap' = t
                                            /\ n \in {note, m} /\ t \in {swap, m}
      BY <1>1, <1>7 DEF NoteHeld, NoteFile
<1>9. NoteOpen'
  <2>1. note' = Torn => note = Torn /\ handle[p] # "note"
        BY <1>3, <1>7
  <2>2. swap' = Torn => swap = Torn /\ handle[p] # "tmp"
        BY <1>3, <1>7
  <2>3. QED
        BY <1>1, <1>2, <1>5, <2>1, <2>2 DEF NoteOpen
<1>10. \A q \in Notes!Programs : handle'[q] # "none" => held'[q] # None /\ held'[q].text # None
       BY <1>1, <1>2, <1>4, <1>5, <1>6 DEF NoteHeld
<1>11. /\ changes = 0 /\ ~saved' /\ n \in Notes!Note => NoteGood(n)
       /\ changes = 0 /\ ~saved' /\ t \in Notes!Note => NoteGood(t)
       BY <1>1, <1>2, <1>3, <1>8 DEF NoteCalm
<1>12. /\ \A q \in Notes!Programs : held'[q] \in {held[q], None}
       /\ saved' \in BOOLEAN /\ cut' \in BOOLEAN /\ (~saved' => ~saved)
       BY <1>1, <1>2, <1>4, <1>6 DEF NoteBounds
<1>13. QED
       BY <1>2, <1>5, <1>6, <1>8, <1>9, <1>10, <1>11, <1>12, NoteWrote

\* The file beside the note takes its place
LEMMA NoteRenames ==
    ASSUME NoteValues, NoteIInv, NEW p \in Notes!Programs, Notes!Renames(p) PROVE NoteIInv'
<1>1. NoteHeld /\ NoteBounds /\ NoteCalm /\ NoteOpen
      BY DEF NoteIInv
<1>2. /\ handle[p] = "filled" /\ Notes!Holds(p, None)
      /\ UNCHANGED <<root, rough, uses, changes, saved, cut>>
      BY DEF Notes!Renames, Notes!place, Notes!bounds
<1>3. /\ held' \in [Notes!Programs -> NoteHolding \cup {None}] /\ held'[p] = None
      /\ \A q \in Notes!Programs \ {p} : held'[q] = held[q]
      BY <1>1, <1>2, NoteHoldsLemma DEF NoteHeld
<1>4. /\ \A q \in Notes!Programs : held'[q] \in {held[q], None}
      /\ saved' \in BOOLEAN /\ cut' \in BOOLEAN /\ (~saved' => ~saved)
      BY <1>1, <1>2, <1>3 DEF NoteBounds
<1>5. CASE swap = None
  <2>1. handle' = [handle EXCEPT ![p] = "none"] /\ UNCHANGED <<note, swap>>
        BY <1>5 DEF Notes!Renames
  <2>2. /\ handle' \in [Notes!Programs -> NotePlaces] /\ handle'[p] = "none"
        /\ \A q \in Notes!Programs \ {p} : handle'[q] = handle[q]
        BY <1>1, <2>1 DEF NoteHeld, NotePlaces
  <2>3. PICK n \in NoteFile, t \in NoteFile : /\ note' = n /\ swap' = t /\ n = note /\ t = swap
        BY <1>1, <2>1 DEF NoteHeld
  <2>4. NoteOpen'
        BY <1>1, <1>2, <2>1, <2>2 DEF NoteOpen
  <2>5. \A q \in Notes!Programs : handle'[q] # "none" => held'[q] # None /\ held'[q].text # None
        BY <1>1, <1>3, <2>2 DEF NoteHeld
  <2>6. /\ changes = 0 /\ ~saved' /\ n \in Notes!Note => NoteGood(n)
        /\ changes = 0 /\ ~saved' /\ t \in Notes!Note => NoteGood(t)
        BY <1>1, <1>2, <2>3 DEF NoteCalm
  <2>7. QED
        BY <1>2, <1>3, <1>4, <2>2, <2>3, <2>4, <2>5, <2>6, NoteWrote
<1>6. CASE swap # None
  <2>1. /\ note' = swap /\ swap' = None
        /\ handle' = [q \in Notes!Programs |-> IF q = p THEN "none" ELSE Notes!Renamed(handle[q])]
        BY <1>6 DEF Notes!Renames
  <2>2. \A q \in Notes!Programs : /\ Notes!Renamed(handle[q]) \in NotePlaces
                                  /\ handle[q] = "tmp" => Notes!Renamed(handle[q]) = "note"
                                  /\ handle[q] = "none" => Notes!Renamed(handle[q]) = "none"
        BY <1>1 DEF NoteHeld, NotePlaces, Notes!Renamed
  <2>3. /\ handle' \in [Notes!Programs -> NotePlaces] /\ handle'[p] = "none"
        /\ \A q \in Notes!Programs \ {p} : /\ handle[q] = "tmp" => handle'[q] = "note"
                                           /\ handle[q] = "none" => handle'[q] = "none"
        BY <2>1, <2>2 DEF NotePlaces
  <2>4. PICK n \in NoteFile, t \in NoteFile : /\ note' = n /\ swap' = t /\ n = swap /\ t = None
        BY <1>1, <2>1 DEF NoteHeld, NoteFile
  <2>5. NoteOpen'
        BY <1>1, <1>2, <2>1, <2>3 DEF NoteOpen, NoteValues
  <2>6. \A q \in Notes!Programs : handle'[q] # "none" => held'[q] # None /\ held'[q].text # None
        BY <1>1, <1>3, <2>3 DEF NoteHeld
  <2>7. /\ changes = 0 /\ ~saved' /\ n \in Notes!Note => NoteGood(n)
        /\ changes = 0 /\ ~saved' /\ t \in Notes!Note => NoteGood(t)
        BY <1>1, <1>2, <2>4 DEF NoteCalm, NoteValues
  <2>8. QED
        BY <1>2, <1>3, <1>4, <2>3, <2>4, <2>5, <2>6, <2>7, NoteWrote
<1>7. QED
      BY <1>5, <1>6

\* A program ends where it is
LEMMA NoteDies ==
    ASSUME NoteValues, NoteIInv, NEW p \in Notes!Programs, Notes!Dies(p) PROVE NoteIInv'
<1>1. NoteHeld /\ NoteBounds /\ NoteCalm /\ NoteOpen
      BY DEF NoteIInv
<1>2. /\ Notes!Holds(p, None) /\ handle' = [handle EXCEPT ![p] = "none"]
      /\ cut' = (cut \/ Notes!Opened(p))
      /\ UNCHANGED <<root, rough, note, swap, saved, uses, changes>>
      BY DEF Notes!Dies, Notes!place, Notes!files, Notes!bounds
<1>3. /\ held' \in [Notes!Programs -> NoteHolding \cup {None}] /\ held'[p] = None
      /\ \A q \in Notes!Programs \ {p} : held'[q] = held[q]
      BY <1>1, <1>2, NoteHoldsLemma DEF NoteHeld
<1>4. /\ handle' \in [Notes!Programs -> NotePlaces] /\ handle'[p] = "none"
      /\ \A q \in Notes!Programs \ {p} : handle'[q] = handle[q]
      BY <1>1, <1>2 DEF NoteHeld, NotePlaces
<1>5. PICK n \in NoteFile, t \in NoteFile : /\ note' = n /\ swap' = t /\ n = note /\ t = swap
      BY <1>1, <1>2 DEF NoteHeld
<1>6. NoteOpen'
      BY <1>1, <1>2, <1>4 DEF NoteOpen, Notes!Opened
<1>7. \A q \in Notes!Programs : handle'[q] # "none" => held'[q] # None /\ held'[q].text # None
      BY <1>1, <1>3, <1>4 DEF NoteHeld
<1>8. /\ changes = 0 /\ ~saved' /\ n \in Notes!Note => NoteGood(n)
      /\ changes = 0 /\ ~saved' /\ t \in Notes!Note => NoteGood(t)
      BY <1>1, <1>2, <1>5 DEF NoteCalm
<1>9. /\ \A q \in Notes!Programs : held'[q] \in {held[q], None}
      /\ saved' \in BOOLEAN /\ cut' \in BOOLEAN /\ (~saved' => ~saved)
      BY <1>1, <1>2, <1>3 DEF NoteBounds
<1>10. QED
       BY <1>2, <1>3, <1>4, <1>5, <1>6, <1>7, <1>8, <1>9, NoteWrote

\* A step of a writer keeps it
LEMMA NoteStep ==
    ASSUME NoteValues, NoteIInv, Notes!Next \/ UNCHANGED notes
    PROVE  NoteIInv'
<1>1. NoteHeld /\ NoteBounds /\ NoteCalm /\ NoteOpen
      BY DEF NoteIInv
<1>2. /\ {"engine", "cli", "store", "normaliser"} = Notes!Programs
      /\ Notes!Legible => note \in Notes!Note
      /\ \A p \in Notes!Programs : held[p] # None => held[p] \in NoteHolding
      BY <1>1 DEF NoteHeld, NoteFile, Notes!Legible, Notes!Programs
<1>3. CASE Notes!EngineLoads
  <2>1. PICK to \in Notes!Statuses : Notes!EngineAccepts(note.type, note.status, to)
               /\ Notes!Starts("engine", note, to)
        BY <1>3 DEF Notes!EngineLoads
  <2>2. note \in Notes!Note
        BY <1>2, <1>3 DEF Notes!EngineLoads
  <2>3. QED
        BY <1>2, <2>1, <2>2, NoteStarts
<1>4. CASE Notes!EngineReads
  <2> DEFINE g == held["engine"]
  <2>1. /\ g \in NoteHolding /\ g # None /\ g.text = None /\ Notes!Between("engine")
        /\ g.to \in Notes!Statuses /\ Notes!EngineAccepts(g.seen.type, g.seen.status, g.to)
        /\ handle["engine"] = "none"
        BY <1>1, <1>2, <1>4 DEF Notes!EngineReads, Notes!Between, NoteHeld, NoteEngineHolds,
             NoteHolding
  <2>2. CASE /\ Notes!Legible /\ Notes!Fresh(note, g.seen)
             /\ Notes!Makes("engine", note, Notes!Moved(note, g.to))
    <3>1. note \in Notes!Note
          BY <1>2, <2>2
    <3>2. PICK m \in Notes!Note : m = Notes!Moved(note, g.to)
          BY <2>1, <3>1, NoteMovedLemma
    <3>3. /\ m.type = note.type /\ m.status = g.to /\ (m.completed <=> m.status = "DONE")
          /\ Notes!RegistryReads(note) => Notes!RegistryReads(m)
          /\ Notes!EngineAccepts(m.type, note.status, m.status)
          BY <2>1, <2>2, <3>1, <3>2, NoteMovedLemma DEF Notes!Fresh
    <3>4. NotePlaced(note) => NotePlaced(m)
          BY <3>3 DEF NotePlaced
    <3>5. changes = 0 /\ ~saved => NoteGood(m)
          BY <1>1, <3>1, <3>3, <3>4 DEF NoteCalm, NoteGood
    <3>6. Notes!Makes("engine", note, m)
          BY <2>2, <3>2
    <3> HIDE DEF g
    <3>7. QED
          BY <1>2, <2>1, <3>1, <3>3, <3>4, <3>5, <3>6, NoteMakes
  <2>3. CASE Notes!GivesUp("engine")
        BY <1>2, <2>1, <2>3, NoteGivesUp
  <2>4. QED
        BY <1>4, <2>2, <2>3 DEF Notes!EngineReads
<1>5. CASE Notes!CliLoads
  <2>1. PICK to \in Notes!Statuses : root # "epics" /\ Notes!Starts("cli", note, to)
        BY <1>5 DEF Notes!CliLoads, Notes!CliIssues, Notes!CliTargets, Notes!Statuses
  <2>2. note \in Notes!Note
        BY <1>2, <1>5 DEF Notes!CliLoads
  <2>3. QED
        BY <1>2, <2>1, <2>2, NoteStarts
<1>6. CASE Notes!CliRereads
  <2> DEFINE g == held["cli"]
  <2>1. /\ g \in NoteHolding /\ g # None /\ g.text = None /\ g.to \in Notes!Statuses
        /\ Notes!Between("cli") /\ root # "epics" /\ handle["cli"] = "none"
        BY <1>1, <1>2, <1>6 DEF Notes!CliRereads, Notes!Between, NoteHeld, NoteHolding
  <2>2. CASE Notes!Legible /\ Notes!Makes("cli", note, Notes!Updated(note, g.to))
    <3>1. note \in Notes!Note
          BY <1>2, <2>2
    <3>2. PICK m \in Notes!Note : m = Notes!Updated(note, g.to)
          BY <2>1, <3>1, NoteUpdatedLemma
    <3>3. changes = 0 /\ ~saved => NoteGood(m)
      <4>1. m.type = note.type
            BY <2>1, <3>1, <3>2, NoteUpdatedLemma
      <4>2. Notes!RegistryReads(note) /\ note.type # "epic" => Notes!RegistryReads(m)
            BY <2>1, <3>1, <3>2, NoteUpdatedLemma
      <4>3. QED
            BY <1>1, <2>1, <3>1, <4>1, <4>2 DEF NoteCalm, NoteGood, NotePlaced
    <3>4. Notes!Makes("cli", note, m)
          BY <2>2, <3>2
    <3> HIDE DEF g
    <3>5. QED
          BY <1>2, <2>1, <3>1, <3>3, <3>4, NoteMakes
  <2>3. CASE Notes!GivesUp("cli")
        BY <1>2, <2>1, <2>3, NoteGivesUp
  <2>4. QED
        BY <1>6, <2>2, <2>3 DEF Notes!CliRereads
<1>7. CASE Notes!NormaliserReads
  <2>1. PICK n \in Notes!Note : Notes!Normalises(n) /\ (n.id = "own"
               \/ n.id = "none") /\ NotePlaced(n)
    <3>1. CASE Notes!InPlace /\ Notes!Normalises(note)
          BY <1>2, <3>1 DEF Notes!InPlace, NotePlaced
    <3>2. CASE Notes!Canonical /\ Notes!Normalises(rough)
      <4>1. rough \in Notes!Note /\ rough.id = "none"
        <5>1. rough \in Notes!Roughs
              BY <3>2, <1>1 DEF Notes!Canonical, NoteHeld
        <5>2. QED
              BY <5>1 DEF Notes!Roughs, Notes!Note, Notes!Kinds, Notes!Statuses, Notes!Parts
      <4>2. QED
            BY <3>2, <4>1 DEF Notes!Canonical, NotePlaced
    <3>3. QED
          BY <1>7, <3>1, <3>2 DEF Notes!NormaliserReads
  <2>2. PICK m \in Notes!Note : m = Notes!Formal(n)
        BY <2>1, <1>1, NoteFormalLemma DEF NoteHeld
  <2>3. /\ m.status \in Notes!Statuses /\ m.id = "own" /\ m.project = Notes!Draft.project
             /\ NotePlaced(m)
        /\ m.marked # {} => m.status \in {"TODO", "FAILED"}
        BY <2>1, <2>2, <1>1, NoteFormalLemma DEF NoteHeld
  <2>4. PICK h \in NoteHolding : Notes!Holds("normaliser", h) /\ h.text = m
    <3>1. [seen |-> n, to |-> m.status, text |-> m] \in NoteHolding
          BY <2>3 DEF NoteHolding
    <3>2. QED
          BY <2>1, <2>2, <3>1 DEF Notes!Normalises
  <2>5. /\ Notes!RegistryReads(m) /\ uses' \in 0..MaxUses /\ held["normaliser"] = None
        /\ UNCHANGED <<root, note, swap, rough, handle, changes, saved, cut>>
        BY <1>1, <2>1, <2>2 DEF Notes!Normalises, Notes!place, Notes!files, NoteBounds, NoteValues
  <2>6. NoteNormaliserHolds(h)
        BY <2>3, <2>4, <2>5 DEF NoteNormaliserHolds, NoteGood, NoteValues
  <2>7. handle["normaliser"] = "none"
        BY <1>1, <1>2, <2>5 DEF NoteHeld
  <2>8. QED
        BY <1>2, <2>4, <2>5, <2>6, <2>7, NoteKeeps
<1>8. CASE Notes!NormaliserOpens
      BY <1>2, <1>8, NoteOpens, NoteGivesUp DEF Notes!NormaliserOpens
<1>9. CASE Notes!StoreLoads
  <2>1. PICK to \in Notes!Statuses : Notes!Starts("store", note, to)
        BY <1>9, <1>2 DEF Notes!StoreLoads, Notes!StoreReads, Notes!Valid, Notes!Statuses
  <2>2. note \in Notes!Note
        BY <1>2, <1>9 DEF Notes!StoreLoads
  <2>3. QED
        BY <1>2, <2>1, <2>2, NoteStarts
<1>10. CASE Notes!StoreMakes
  <2> DEFINE g == held["store"]
  <2>1. /\ g \in NoteHolding /\ g.to \in Notes!Statuses /\ g.seen \in Notes!Note
        /\ Notes!Between("store")
        BY <1>1, <1>2, <1>10 DEF Notes!StoreMakes, Notes!Between, NoteHeld, NoteHolding
  <2>2. PICK sections \in SUBSET Notes!Parts, marked \in SUBSET Notes!Parts :
               Notes!Makes("store", g.seen, Notes!Saved(g.seen, g.to, sections, marked))
    <3>1. Notes!Legible => note.sections \in SUBSET Notes!Parts /\ note.marked \in SUBSET Notes!Parts
          BY <1>2 DEF Notes!Note
    <3>2. {} \in SUBSET Notes!Parts
          OBVIOUS
    <3>3. CASE Notes!Legible
          BY <1>10, <3>1, <3>3 DEF Notes!StoreMakes
    <3>4. CASE ~Notes!Legible
          BY <1>10, <3>2, <3>4 DEF Notes!StoreMakes
    <3>5. QED
          BY <3>3, <3>4
  <2>3. PICK m \in Notes!Note : m = Notes!Saved(g.seen, g.to, sections, marked)
        BY <2>1, NoteSavedLemma
  <2>4. PICK seen \in Notes!Note : seen = g.seen
        BY <2>1
  <2>5. Notes!Makes("store", seen, m)
        BY <2>2, <2>3, <2>4
  <2> HIDE DEF g
  <2>6. QED
        BY <1>2, <2>1, <2>5, NoteMakes
<1>11. CASE \E p \in Notes!Programs \ {"normaliser"} : Notes!Opens(p)
       BY <1>11, NoteOpens
<1>12. CASE \E p \in Notes!Programs : Notes!Fills(p) \/ Notes!Renames(p) \/ Notes!Dies(p)
       BY <1>12, NoteFills, NoteRenames, NoteDies
<1>13. CASE Notes!Edits
  <2>1. note \in Notes!Note /\ note # None
        BY <1>13, <1>2 DEF Notes!Edits, NoteValues
  <2>2. note' \in Notes!Note
    <3>1. /\ \A v \in {"alien", "none"} : [note EXCEPT !.id = v] \in Notes!Note
          /\ \A v \in Notes!Kinds \cup {"other"} : [note EXCEPT !.type = v] \in Notes!Note
          /\ \A v \in Notes!Statuses \cup {"other"} : [note EXCEPT !.status = v] \in Notes!Note
          /\ \A v \in {"human", "other"} : [note EXCEPT !.executor = v] \in Notes!Note
          /\ \A v \in {"", "p"} : [note EXCEPT !.project = v] \in Notes!Note
          /\ \A v \in SUBSET Notes!Parts : [note EXCEPT !.sections = v] \in Notes!Note
          BY <2>1 DEF Notes!Note
    <3>2. QED
          BY <1>13, <3>1 DEF Notes!Edits
  <2>3. /\ UNCHANGED <<root, rough, swap, held, handle, uses, saved, cut>>
        /\ changes' = changes + 1 /\ changes' \in 0..MaxNoteEdits /\ changes' # 0
    <3>1. changes \in 0..MaxNoteEdits /\ changes < MaxNoteEdits /\ changes' = changes + 1
          BY <1>13, <1>1 DEF Notes!Edits, NoteBounds
    <3>2. UNCHANGED <<root, rough, swap, held, handle, uses, saved, cut>>
          BY <1>13 DEF Notes!Edits, Notes!place
    <3>3. changes' \in 0..MaxNoteEdits /\ changes' # 0
          BY <3>1 DEF NoteValues
    <3>4. QED
          BY <3>1, <3>2, <3>3
  <2>4. NoteHeld'
        BY <1>1, <2>2, <2>3 DEF NoteHeld, NoteFile, NoteEngineHolds, NoteNormaliserHolds, NoteGood,
             NotePlaced, Notes!Draft, Notes!RegistryReads
  <2>5. NoteCalm' /\ NoteBounds'
        BY <1>1, <2>3 DEF NoteCalm, NoteBounds
  <2>6. NoteOpen'
        BY <1>1, <2>2, <2>3 DEF NoteOpen, NoteValues
  <2>7. QED
        BY <2>4, <2>5, <2>6 DEF NoteIInv
<1>14. CASE UNCHANGED notes
  <2>1. NoteHeld'
        BY <1>1, <1>14 DEF notes, NoteHeld, NoteEngineHolds, NoteNormaliserHolds, NoteGood,
             NotePlaced, Notes!Draft, Notes!RegistryReads
  <2>2. NoteCalm'
        BY <1>1, <1>14 DEF notes, NoteCalm, NoteGood, NotePlaced, Notes!RegistryReads
  <2>3. NoteBounds' /\ NoteOpen'
        BY <1>1, <1>14 DEF notes, NoteBounds, NoteOpen
  <2>4. QED
        BY <2>1, <2>2, <2>3 DEF NoteIInv
<1>15. QED
       BY <1>3, <1>4, <1>5, <1>6, <1>7, <1>8, <1>9, <1>10, <1>11, <1>12, <1>13,
            <1>14 DEF Notes!Next

\* The draft or the rough note starts so
LEMMA NoteInit == ASSUME NoteValues, Notes!Init PROVE NoteIInv
<1>1. note = None \/ (note \in Notes!Note /\ NoteGood(note))
  <2>1. SUFFICES ASSUME NEW s \in Notes!Reached, note = Notes!AtStatus(s)
                 PROVE  note \in Notes!Note /\ NoteGood(note)
        BY DEF Notes!Init
  <2>2. s \in Notes!Statuses /\ (root = "epics" => s \in {"TODO", "DONE"})
        BY <2>1 DEF Notes!Reached, Notes!Statuses
  <2>3. QED
        BY <2>1, <2>2 DEF Notes!Init, Notes!Draft, Notes!AtStatus, Notes!Note, Notes!Kinds,
             Notes!Parts, Notes!Required, Notes!RegistryReads, Notes!Valid, Notes!Complete,
             NotePlaced, NoteGood
<1>2. /\ held = [p \in Notes!Programs |-> None] /\ \A p \in Notes!Programs : held[p] = None
      /\ handle = [p \in Notes!Programs |-> "none"] /\ swap = None
      /\ uses = 0 /\ changes = 0 /\ saved = FALSE /\ cut = FALSE
      BY DEF Notes!Init
<1>3. NoteHeld
      BY <1>1, <1>2 DEF Notes!Init, NoteHeld, NoteFile, NotePlaces, NoteEngineHolds,
           NoteNormaliserHolds, Notes!Programs, NoteValues
<1>4. NoteCalm /\ NoteOpen
      BY <1>1, <1>2 DEF NoteCalm, NoteOpen, Notes!Programs, NoteValues
<1>5. NoteBounds
  <2>1. 0 \in 0..MaxUses /\ 0 \in 0..MaxNoteEdits
        BY DEF NoteValues
  <2>2. QED
        BY <1>2, <2>1 DEF NoteBounds
<1>6. QED
      BY <1>3, <1>4, <1>5 DEF NoteIInv

-----------------------------------------------------------------------------
(* The sessions of the CLI adapter *)

SessionsValues == /\ IsFiniteSet(Ids) /\ IsFiniteSet(SessionCalls)
                  /\ MaxSessions \in Nat /\ MaxCancels \in Nat
                  /\ None \notin Ids \cup SessionCalls /\ None \notin Cli!Session

\* Where a call is
SessionsPhase(c) ==
    /\ cliCall[c] = "new" => id[c] = None /\ child[c] = "none"
    /\ cliCall[c] # "new" => id[c] # None /\ child[c] # "none"
    /\ c \in cliLate => cliCall[c] = "failed"
    /\ cliCall[c] \in {"succeeded", "failed"} /\ c \notin cliLate => child[c] = "closed"
    /\ c \in timer => cliCall[c] = "running"
    /\ cliCall[c] = "running" => child[c] # "closed"
    /\ cliCall[c] \in {"succeeded", "failed"} /\ child[c] = "alive" => cliSent[c] # {}

\* What the session of a call with an id of its own tells
SessionsTold(c) ==
    id[c] # None /\ Cli!Alone(c) =>
       /\ cliCall[c] = "running" => Cli!Has(id[c]) \/ cliSent[c] # {} \/ child[c] = "exited"
       /\ Cli!Has(id[c]) =>
            /\ sessions[id[c]].process = IF child[c] = "closed" THEN None ELSE c
            /\ cliCall[c] = "running" => sessions[id[c]].status \in {"running", "cancelled"}
            /\ cliCall[c] = "succeeded" => sessions[id[c]].status = "completed"
            /\ cliCall[c] = "failed" => \/ sessions[id[c]].status = "failed"
                                        \/ c \in cliLate /\ sessions[id[c]].status = "cancelled"
            /\ sessions[id[c]].status = "cancelled" =>
                 cliSent[c] # {} \/ child[c] \in {"exited", "closed"}

SessionsIInv == /\ Cli!TypeOK /\ Cli!FinishedAreFew /\ timer \cap cliLate = {}
                /\ \A c \in SessionCalls : SessionsPhase(c) /\ SessionsTold(c)

\* What a part counts is what FiniteSets counts
LEMMA SessionsCount == ASSUME NEW S PROVE Cli!Cardinality(S) = Cardinality(S)
BY DEF Cardinality, Cli!Cardinality

\* What the runs check
LEMMA SessionsInvLemma == ASSUME SessionsIInv PROVE Cli!SessionsInv
<1>1. Cli!NoneLeftBehind
      BY DEF SessionsIInv, SessionsPhase, Cli!NoneLeftBehind, Cli!Returned
<1>2. Cli!SessionsTell
  <2>1. SUFFICES ASSUME NEW c \in SessionCalls, id[c] # None, Cli!Alone(c)
                 PROVE  /\ cliCall[c] = "running" => Cli!Has(id[c]) \/ cliSent[c] # {}
                             \/ child[c] = "exited"
                        /\ Cli!Has(id[c]) =>
                             /\ sessions[id[c]].process = IF child[c] = "closed" THEN None ELSE c
                             /\ cliCall[c] = "running" => sessions[id[c]].status \in {"running",
                                  "cancelled"}
                             /\ Cli!Returned(c) =>
                                  \/ sessions[id[c]].status =
                                       IF cliCall[c] = "succeeded" THEN "completed" ELSE "failed"
                                  \/ c \in cliLate /\ sessions[id[c]].status = "cancelled"
        BY DEF Cli!SessionsTell
  <2>2. SessionsTold(c)
        BY DEF SessionsIInv
  <2>3. QED
        BY <2>1, <2>2 DEF SessionsTold, Cli!Returned
<1>3. QED
      BY <1>1, <1>2 DEF SessionsIInv, Cli!SessionsInv

\* The cleanup takes finished sessions away, and leaves no more of them than the limit
LEMMA SessionsCleanup ==
    ASSUME SessionsValues, NEW left \in [Ids -> Cli!Session \cup {None}]
    PROVE  /\ Cli!cleanup(left) \in [Ids -> Cli!Session \cup {None}]
           /\ \A i \in Ids : \/ Cli!cleanup(left)[i] = left[i]
                             \/ Cli!cleanup(left)[i] = None /\ Cli!Finished(left[i])
           /\ IsFiniteSet({i \in Ids : Cli!Finished(Cli!cleanup(left)[i])})
           /\ Cardinality({i \in Ids : Cli!Finished(Cli!cleanup(left)[i])}) <= MaxSessions
<1> DEFINE Here == {i \in Ids : left[i] # None}
           Left == {i \in Ids : Cli!Finished(Cli!cleanup(left)[i])}
<1>1. /\ Cli!cleanup(left) \in [Ids -> Cli!Session \cup {None}]
      /\ \A i \in Ids : \/ Cli!cleanup(left)[i] = left[i]
                        \/ Cli!cleanup(left)[i] = None /\ Cli!Finished(left[i])
      BY SessionsCount DEF Cli!cleanup, Cli!Swept, Cli!Goes
<1>2. IsFiniteSet(Here) /\ Cardinality(Here) \in Nat /\ Cli!Size(left) = Cardinality(Here)
  <2>1. IsFiniteSet(Here)
        BY FS_Subset DEF SessionsValues
  <2>2. QED
        BY <2>1, FS_CardinalityType, SessionsCount DEF Cli!Size
<1>3. \A i \in Left : i \in Ids /\ Cli!Finished(left[i]) /\ i \in Here
        /\ Cli!cleanup(left)[i] = left[i]
      BY <1>1 DEF Cli!Finished
<1>4. IsFiniteSet(Left) /\ Cardinality(Left) \in Nat /\ Cardinality(Left) <= Cardinality(Here)
  <2>1. Left \in SUBSET Here
        BY <1>3
  <2>2. IsFiniteSet(Left) /\ Cardinality(Left) <= Cardinality(Here)
        BY <1>2, <2>1, FS_Subset
  <2>3. QED
        BY <2>2, FS_CardinalityType
<1>5. CASE Cli!Size(left) <= MaxSessions
      BY <1>1, <1>2, <1>4, <1>5 DEF SessionsValues
<1>6. CASE ~(Cli!Size(left) <= MaxSessions) /\ Left = {}
      BY <1>1, <1>4, <1>6, FS_EmptySet DEF SessionsValues
<1>7. CASE ~(Cli!Size(left) <= MaxSessions) /\ Left # {}
  <2> DEFINE Places == {left[j].place : j \in Left}
  <2>1. \A j \in Left : left[j] \in Cli!Session /\ left[j].place \in Nat
        BY <1>3 DEF Cli!Session, Cli!Finished
  <2>2. Places \in SUBSET Nat /\ Places # {}
        BY <1>7, <2>1
  <2>3. PICK x \in Places : \A y \in Places : x <= y
        BY <2>2, LeastNumber
  <2>4. PICK i \in Left : x = left[i].place
        OBVIOUS
  <2> DEFINE Old == {j \in Ids : Cli!Finished(left[j]) /\ left[j].place < left[i].place}
  <2>5. \A j \in Left : j \notin Old
        BY <2>1, <2>2, <2>3, <2>4
  <2>6. /\ Old \in SUBSET Here /\ Left \in SUBSET (Here \ Old)
        BY <1>3, <2>5 DEF Cli!Finished
  <2>7. Old = Cli!Older(left, i)
        BY DEF Cli!Older
  <2>8. ~(10 * (Cli!Size(left) - Cardinality(Cli!Older(left, i))) > 8 * MaxSessions)
    <3>1. Cli!cleanup(left) = Cli!Swept(left)
          BY <1>7 DEF Cli!cleanup
    <3>2. i \in Ids /\ Cli!Finished(left[i]) /\ Cli!cleanup(left)[i] # None
          BY <1>3 DEF Cli!Finished
    <3>3. ~Cli!Goes(left, i)
          BY <3>1, <3>2 DEF Cli!Swept
    <3>4. QED
          BY <3>2, <3>3, SessionsCount DEF Cli!Goes
  <2> HIDE DEF Old, Left, Here
  <2>9. Here \cap Old = Old
        BY <2>6
  <2>10. /\ IsFiniteSet(Old) /\ Cardinality(Old) \in Nat
         /\ IsFiniteSet(Here \ Old)
              /\ Cardinality(Here \ Old) = Cardinality(Here) - Cardinality(Old)
    <3>1. IsFiniteSet(Old)
          BY <1>2, <2>6, FS_Subset
    <3>2. /\ IsFiniteSet(Here \ Old)
          /\ Cardinality(Here \ Old) = Cardinality(Here) - Cardinality(Here \cap Old)
          BY <1>2, FS_Difference
    <3>3. Cardinality(Old) \in Nat
          BY <3>1, FS_CardinalityType
    <3>4. QED
          BY <2>9, <3>1, <3>2, <3>3
  <2>11. Cardinality(Left) <= Cardinality(Here \ Old) /\ Cardinality(Here \ Old) \in Nat
         BY <2>6, <2>10, FS_Subset, FS_CardinalityType
  <2>12. Cardinality(Left) <= MaxSessions
         BY <1>2, <1>4, <2>7, <2>8, <2>10, <2>11 DEF SessionsValues
  <2>13. QED
         BY <1>1, <1>4, <2>12 DEF Left
<1>8. QED
      BY <1>5, <1>6, <1>7

\* The sessions start so
LEMMA SessionsInit == ASSUME SessionsValues, Cli!Init PROVE SessionsIInv
<1>1. Cli!TypeOK
  <2>1. 0 \in 0..MaxCancels
        BY DEF SessionsValues
  <2>2. QED
        BY <2>1 DEF Cli!Init, Cli!TypeOK
<1>2. Cli!FinishedAreFew
  <2>1. {i \in Ids : Cli!Finished(sessions[i])} = {}
        BY DEF Cli!Init, Cli!Finished
  <2>2. cliLate = {}
        BY DEF Cli!Init
  <2>3. QED
        BY <2>1, <2>2, FS_EmptySet, SessionsCount DEF Cli!FinishedAreFew, SessionsValues
<1>3. ASSUME NEW c \in SessionCalls PROVE SessionsPhase(c) /\ SessionsTold(c)
      BY DEF Cli!Init, SessionsPhase, SessionsTold
<1>4. timer \cap cliLate = {}
      BY DEF Cli!Init
<1>5. QED
      BY <1>1, <1>2, <1>3, <1>4 DEF SessionsIInv

\* A call that a step is not about, and whose session it leaves, or takes away finished
LEMMA SessionsOther ==
    ASSUME Cli!TypeOK, NEW c \in SessionCalls, SessionsPhase(c), SessionsTold(c),
           cliCall'[c] = cliCall[c], child'[c] = child[c], id'[c] = id[c],
           c \in timer' => c \in timer, c \in cliLate'
             <=> c \in cliLate, cliSent[c] \subseteq cliSent'[c],
           id[c] # None /\ Cli!Alone(c)' => Cli!Alone(c),
           id[c] # None /\ Cli!Alone(c)' =>
             \/ sessions'[id[c]] = sessions[id[c]]
             \/ sessions'[id[c]] = None /\ Cli!Finished(sessions[id[c]])
    PROVE  SessionsPhase(c)' /\ SessionsTold(c)'
<1>1. SessionsPhase(c)'
      BY DEF SessionsPhase
<1>2. SessionsTold(c)'
  <2>1. SUFFICES ASSUME id'[c] # None, Cli!Alone(c)' PROVE SessionsTold(c)'
        BY DEF SessionsTold
  <2>2. Cli!Alone(c) /\ id[c] # None
        BY <2>1
  <2>3. CASE sessions'[id[c]] = sessions[id[c]]
        BY <2>2, <2>3 DEF SessionsTold, Cli!Has
  <2>4. CASE sessions'[id[c]] = None /\ Cli!Finished(sessions[id[c]])
    <3>1. ~Cli!Has(id[c])'
          BY <2>4 DEF Cli!Has
    <3>2. cliCall[c] = "running" => cliSent'[c] # {} \/ child'[c] = "exited"
          BY <2>2, <2>4 DEF SessionsTold, SessionsPhase, Cli!Has, Cli!Finished
    <3>3. QED
          BY <3>1, <3>2 DEF SessionsTold
  <2>5. QED
        BY <2>1, <2>3, <2>4
<1>3. QED
      BY <1>1, <1>2

\* After a cleanup few are finished
LEMMA SessionsSwept ==
    ASSUME SessionsValues, Cli!TypeOK, cliLate' = cliLate,
           NEW left \in [Ids -> Cli!Session \cup {None}], sessions' = Cli!cleanup(left)
    PROVE  Cli!FinishedAreFew'
<1>1. PICK F : F = {i \in Ids : Cli!Finished(Cli!cleanup(left)[i])}
      OBVIOUS
<1>2. F = {i \in Ids : Cli!Finished(sessions[i])}'
      BY <1>1 DEF Cli!Finished
<1>3. IsFiniteSet(F) /\ Cardinality(F) <= MaxSessions
      BY <1>1, SessionsCleanup
<1>4. PICK l : l = cliLate
      OBVIOUS
<1>5. l = cliLate' /\ l \in SUBSET SessionCalls
      BY <1>4 DEF Cli!TypeOK
<1>6. IsFiniteSet(l)
      BY <1>5, FS_Subset DEF SessionsValues
<1>7. Cardinality(l) \in Nat /\ Cardinality(F) \in Nat
      BY <1>3, <1>6, FS_CardinalityType
<1>8. Cardinality(F) <= MaxSessions + Cardinality(l)
      BY <1>3, <1>7 DEF SessionsValues
<1>9. QED
      BY <1>2, <1>5, <1>8, SessionsCount DEF Cli!FinishedAreFew

\* A step that ends no session leaves as few finished
LEMMA SessionsNoMore ==
    ASSUME SessionsValues, Cli!TypeOK, Cli!FinishedAreFew, cliLate' = cliLate,
           \A i \in Ids : Cli!Finished(sessions'[i]) => Cli!Finished(sessions[i])
    PROVE  Cli!FinishedAreFew'
<1>1. PICK F, G : F = {i \in Ids : Cli!Finished(sessions[i])}
             /\ G = {i \in Ids : Cli!Finished(sessions'[i])}
      OBVIOUS
<1>2. G = {i \in Ids : Cli!Finished(sessions[i])}'
      BY <1>1 DEF Cli!Finished
<1>3. F \in SUBSET Ids /\ G \in SUBSET F
      BY <1>1
<1>4. IsFiniteSet(F)
      BY <1>3, FS_Subset DEF SessionsValues
<1>5. IsFiniteSet(G) /\ Cardinality(G) <= Cardinality(F)
      BY <1>3, <1>4, FS_Subset
<1>6. PICK l : l = cliLate
      OBVIOUS
<1>7. l = cliLate' /\ l \in SUBSET SessionCalls
      BY <1>6 DEF Cli!TypeOK
<1>8. IsFiniteSet(l)
      BY <1>7, FS_Subset DEF SessionsValues
<1>9. Cardinality(l) \in Nat /\ Cardinality(F) \in Nat /\ Cardinality(G) \in Nat
      BY <1>4, <1>5, <1>8, FS_CardinalityType
<1>10. Cardinality(F) <= MaxSessions + Cardinality(l)
      BY <1>1, <1>6, SessionsCount DEF Cli!FinishedAreFew
<1>11. Cardinality(G) <= MaxSessions + Cardinality(l)
      BY <1>5, <1>9, <1>10 DEF SessionsValues
<1>12. QED
      BY <1>2, <1>7, <1>11, SessionsCount DEF Cli!FinishedAreFew

\* A timeout may end one session, and is one more that did
LEMMA SessionsOneMore ==
    ASSUME SessionsValues, Cli!TypeOK, Cli!FinishedAreFew,
           NEW c \in SessionCalls, c \notin cliLate, cliLate' = cliLate \cup {c}, NEW e,
           \A i \in Ids : Cli!Finished(sessions'[i]) => Cli!Finished(sessions[i]) \/ i = e
    PROVE  Cli!FinishedAreFew'
<1>1. PICK F, G : F = {i \in Ids : Cli!Finished(sessions[i])}
             /\ G = {i \in Ids : Cli!Finished(sessions'[i])}
      OBVIOUS
<1>2. G = {i \in Ids : Cli!Finished(sessions[i])}'
      BY <1>1 DEF Cli!Finished
<1>3. F \in SUBSET Ids /\ G \in SUBSET (F \cup {e})
      BY <1>1
<1>4. IsFiniteSet(F)
      BY <1>3, FS_Subset DEF SessionsValues
<1>5. Cardinality(F) \in Nat
      BY <1>4, FS_CardinalityType
<1>6. /\ IsFiniteSet(F \cup {e})
      /\ \/ Cardinality(F \cup {e}) = Cardinality(F)
         \/ Cardinality(F \cup {e}) = Cardinality(F) + 1
      BY <1>4, FS_AddElement
<1>7. Cardinality(F \cup {e}) \in Nat
      BY <1>6, FS_CardinalityType
<1>8. IsFiniteSet(G) /\ Cardinality(G) <= Cardinality(F \cup {e})
      BY <1>3, <1>6, FS_Subset
<1>9. Cardinality(G) \in Nat
      BY <1>8, FS_CardinalityType
<1>10. PICK l : l = cliLate
      OBVIOUS
<1>11. cliLate' = l \cup {c} /\ c \notin l /\ l \in SUBSET SessionCalls
      BY <1>10 DEF Cli!TypeOK
<1>12. IsFiniteSet(l)
      BY <1>11, FS_Subset DEF SessionsValues
<1>13. Cardinality(l) \in Nat
      BY <1>12, FS_CardinalityType
<1>14. Cardinality(l \cup {c}) = Cardinality(l) + 1
      BY <1>11, <1>12, FS_AddElement
<1>15. Cardinality(F) <= MaxSessions + Cardinality(l)
      BY <1>1, <1>10, SessionsCount DEF Cli!FinishedAreFew
<1>16. Cardinality(G) <= MaxSessions + Cardinality(l \cup {c})
      BY <1>5, <1>6, <1>7, <1>8, <1>9, <1>13, <1>14, <1>15 DEF SessionsValues
<1>17. QED
      BY <1>2, <1>11, <1>16, SessionsCount DEF Cli!FinishedAreFew

\* Putting a session under the id of a call
LEMMA SessionsPut ==
    ASSUME Cli!TypeOK, NEW c \in SessionCalls, id[c] \in Ids, NEW s \in Cli!Session
    PROVE  /\ Cli!OfSession(c, s) \in [Ids -> Cli!Session \cup {None}]
           /\ Cli!OfSession(c, s)[id[c]] = IF Cli!Has(id[c]) THEN s ELSE sessions[id[c]]
           /\ \A i \in Ids \ {id[c]} : Cli!OfSession(c, s)[i] = sessions[i]
BY DEF Cli!OfSession, Cli!Has, Cli!TypeOK

\* What a handler makes of a session is one
LEMMA SessionsMade ==
    ASSUME SessionsValues, Cli!TypeOK, NEW c \in SessionCalls, id[c] \in Ids, Cli!Has(id[c]),
           NEW how \in {"completed", "failed"}
    PROVE  /\ Cli!Of(c) \in Cli!Session /\ Cli!Released(Cli!Of(c)) \in Cli!Session
           /\ Cli!Released(Cli!Of(c)).process = None
                /\ Cli!Released(Cli!Of(c)).status = Cli!Of(c).status
           /\ Cli!Settle(Cli!Of(c), how) \in Cli!Session
           /\ Cli!Settle(Cli!Of(c), how).process = Cli!Of(c).process
                /\ Cli!Settle(Cli!Of(c), how).status = how
           /\ Cli!Settle(Cli!Released(Cli!Of(c)), how) \in Cli!Session
           /\ Cli!Settle(Cli!Released(Cli!Of(c)), how).process = None
           /\ Cli!Settle(Cli!Released(Cli!Of(c)), how).status = how
<1>1. PICK s \in Cli!Session : s = Cli!Of(c)
      BY DEF Cli!Of, Cli!Has, Cli!TypeOK
<1>2. /\ Cli!Released(s) \in Cli!Session /\ Cli!Released(s).process = None
           /\ Cli!Released(s).status = s.status
      /\ Cli!Settle(s, how) \in Cli!Session /\ Cli!Settle(s, how).process = s.process
           /\ Cli!Settle(s, how).status = how
      BY DEF Cli!Released, Cli!Settle, Cli!Session
<1>3. PICK r \in Cli!Session : r = Cli!Released(s)
      BY <1>2
<1>4. Cli!Settle(r, how) \in Cli!Session /\ Cli!Settle(r, how).process = r.process
        /\ Cli!Settle(r, how).status = how
      BY DEF Cli!Settle, Cli!Session
<1>5. QED
      BY <1>1, <1>2, <1>3, <1>4

\* A start, an exit, an end, a timeout or a cancel keeps it
LEMMA SessionsStep ==
    ASSUME SessionsValues, SessionsIInv, Cli!Next \/ UNCHANGED cli
    PROVE  SessionsIInv'
<1>1. /\ Cli!TypeOK /\ Cli!FinishedAreFew /\ timer \cap cliLate = {}
      /\ \A c \in SessionCalls : SessionsPhase(c) /\ SessionsTold(c)
      BY DEF SessionsIInv
<1>2. ASSUME NEW c \in SessionCalls, Cli!Start(c) PROVE SessionsIInv'
  <2>1. /\ cliCall[c] = "new" /\ cliCall' = [cliCall EXCEPT ![c] = "running"]
             /\ timer' = timer \cup {c}
        /\ UNCHANGED <<code, cliSent, cliLate, cancels>>
        BY <1>2, SessionsCount DEF Cli!Start
  <2>2. PICK i \in Ids, born \in {"unborn", "alive"} :
          /\ sessions' = [sessions EXCEPT ![i] =
               [process |-> c, place |-> IF Cli!Has(i) THEN sessions[i].place
                                         ELSE Cardinality({d \in SessionCalls : cliCall[d] # "new"}),
                status |-> "running"]]
          /\ id' = [id EXCEPT ![c] = i] /\ child' = [child EXCEPT ![c] = born]
        BY <1>2, SessionsCount DEF Cli!Start
  <2>3. PICK place \in Nat : place = IF Cli!Has(i) THEN sessions[i].place
                                     ELSE Cardinality({d \in SessionCalls : cliCall[d] # "new"})
    <3>1. Cli!Has(i) => sessions[i].place \in Nat
          BY <1>1 DEF Cli!TypeOK, Cli!Has, Cli!Session
    <3>2. IsFiniteSet({d \in SessionCalls : cliCall[d] # "new"})
          BY FS_Subset DEF SessionsValues
    <3>3. QED
          BY <3>1, <3>2, FS_CardinalityType
  <2> DEFINE s == [process |-> c, place |-> place, status |-> "running"]
  <2>4. /\ s \in Cli!Session /\ s.process = c /\ s.status = "running"
        /\ sessions' = [sessions EXCEPT ![i] = s]
        BY <2>2, <2>3 DEF Cli!Session
  <2> HIDE DEF s
  <2>5. /\ sessions' \in [Ids -> Cli!Session \cup {None}] /\ sessions'[i] = s
        /\ \A j \in Ids \ {i} : sessions'[j] = sessions[j]
        BY <1>1, <2>2, <2>4 DEF Cli!TypeOK
  <2>6. /\ id' \in [SessionCalls -> Ids \cup {None}] /\ id'[c] = i /\ id[c] = None
        /\ child' \in [SessionCalls -> {"none", "unborn", "alive", "exited", "closed"}]
        /\ child'[c] \in {"unborn", "alive"}
        /\ cliCall' \in [SessionCalls -> {"new", "running", "succeeded", "failed"}]
        /\ cliCall'[c] = "running" /\ c \notin cliLate
        /\ \A d \in SessionCalls \ {c} : id'[d] = id[d] /\ child'[d] = child[d]
             /\ cliCall'[d] = cliCall[d]
        BY <1>1, <2>1, <2>2 DEF Cli!TypeOK, SessionsPhase
  <2>7. Cli!TypeOK'
        BY <1>1, <2>1, <2>5, <2>6 DEF Cli!TypeOK
  <2>8. Cli!FinishedAreFew'
    <3>1. \A j \in Ids : Cli!Finished(sessions'[j]) => Cli!Finished(sessions[j])
          BY <2>4, <2>5 DEF Cli!Finished
    <3>2. QED
          BY <1>1, <2>1, <3>1, SessionsNoMore
  <2>9. ASSUME NEW d \in SessionCalls, d # c PROVE SessionsPhase(d)' /\ SessionsTold(d)'
    <3>1. id[d] # None /\ Cli!Alone(d)' => Cli!Alone(d) /\ id[d] # i
          BY <2>6, <2>9 DEF Cli!Alone
    <3>2. id[d] # None => id[d] \in Ids
          BY <1>1 DEF Cli!TypeOK
    <3>3. QED
          BY <1>1, <2>1, <2>5, <2>6, <2>9, <3>1, <3>2, SessionsOther
  <2>10. SessionsPhase(c)' /\ SessionsTold(c)'
    <3>1. c \notin cliLate' /\ i # None
          BY <2>1, <2>6 DEF SessionsValues
    <3>2. SessionsPhase(c)'
          BY <2>6, <3>1 DEF SessionsPhase
    <3>3. s # None
          BY <2>4 DEF SessionsValues
    <3>4. SessionsTold(c)'
          BY <2>4, <2>5, <2>6, <3>3 DEF SessionsTold, Cli!Has
    <3>5. QED
          BY <3>2, <3>4
  <2>11. timer' \cap cliLate' = {}
         BY <1>1, <2>1, <2>6
  <2>12. QED
         BY <2>7, <2>8, <2>9, <2>10, <2>11 DEF SessionsIInv
<1>3. ASSUME NEW c \in SessionCalls, Cli!Exit(c) PROVE SessionsIInv'
  <2>1. /\ child[c] = "alive" /\ child' = [child EXCEPT ![c] = "exited"]
        /\ UNCHANGED <<sessions, cliCall, id, cliSent, timer, cliLate, cancels>>
        BY <1>3 DEF Cli!Exit
  <2>2. code' \in [SessionCalls -> BOOLEAN]
        BY <1>1, <1>3 DEF Cli!Exit, Cli!TypeOK
  <2>3. /\ child' \in [SessionCalls -> {"none", "unborn", "alive", "exited", "closed"}]
        /\ child'[c] = "exited" /\ \A d \in SessionCalls \ {c} : child'[d] = child[d]
        BY <1>1, <2>1 DEF Cli!TypeOK
  <2>4. Cli!TypeOK' /\ Cli!FinishedAreFew' /\ timer' \cap cliLate' = {}
        BY <1>1, <2>1, <2>2, <2>3, SessionsCount DEF Cli!TypeOK, Cli!FinishedAreFew
  <2>5. ASSUME NEW d \in SessionCalls, d # c PROVE SessionsPhase(d)' /\ SessionsTold(d)'
    <3>1. Cli!Alone(d)' => Cli!Alone(d)
          BY <2>1 DEF Cli!Alone
    <3>2. QED
          BY <1>1, <2>1, <2>3, <2>5, <3>1, SessionsOther
  <2>6. SessionsPhase(c)'
        BY <1>1, <2>1, <2>3 DEF SessionsPhase
  <2>7. SessionsTold(c)'
    <3>1. Cli!Alone(c)' => Cli!Alone(c)
          BY <2>1 DEF Cli!Alone
    <3>2. QED
          BY <1>1, <2>1, <2>3, <3>1 DEF SessionsTold, Cli!Has
  <2>8. QED
        BY <2>4, <2>5, <2>6, <2>7 DEF SessionsIInv
<1>4. ASSUME NEW c \in SessionCalls, Cli!Close(c) PROVE SessionsIInv'
  <2>1. /\ child[c] \in {"exited", "unborn"} /\ child' = [child EXCEPT ![c] = "closed"]
        /\ timer' = timer \ {c} /\ UNCHANGED <<id, code, cliSent, cliLate, cancels>>
        BY <1>4 DEF Cli!Close
  <2>2. cliCall[c] # "new" /\ id[c] # None /\ id[c] \in Ids
        BY <1>1, <2>1 DEF SessionsPhase, Cli!TypeOK
  <2>3. /\ child' \in [SessionCalls -> {"none", "unborn", "alive", "exited", "closed"}]
        /\ child'[c] = "closed" /\ \A d \in SessionCalls \ {c} : child'[d] = child[d]
        BY <1>1, <2>1 DEF Cli!TypeOK
  <2>4. \A d \in SessionCalls : Cli!Alone(d)' <=> Cli!Alone(d)
        BY <2>1 DEF Cli!Alone
  <2>5. ASSUME NEW d \in SessionCalls, d # c, id[d] # None, Cli!Alone(d)
        PROVE id[d] \in Ids \ {id[c]}
        BY <1>1, <2>5 DEF Cli!Alone, Cli!TypeOK
  <2>6. CASE c \in cliLate
    <3>1. sessions' = Cli!OfSession(c, Cli!Released(Cli!Of(c))) /\ cliCall' = cliCall
          BY <1>4, <2>6 DEF Cli!Close
    <3>2. /\ sessions' \in [Ids -> Cli!Session \cup {None}]
          /\ \A i \in Ids \ {id[c]} : sessions'[i] = sessions[i]
          /\ ~Cli!Has(id[c]) => sessions'[id[c]] = sessions[id[c]]
          /\ Cli!Has(id[c]) => /\ sessions'[id[c]] \in Cli!Session
                                    /\ sessions'[id[c]].process = None
                               /\ sessions'[id[c]].status = sessions[id[c]].status
      <4>1. CASE Cli!Has(id[c])
        <5>1. PICK s \in Cli!Session : /\ s = Cli!Released(Cli!Of(c)) /\ s.process = None
                                       /\ s.status = sessions[id[c]].status
              BY <1>1, <2>2, <4>1, SessionsMade DEF Cli!Of
        <5>2. QED
              BY <1>1, <2>2, <3>1, <4>1, <5>1, SessionsPut
      <4>2. CASE ~Cli!Has(id[c])
            BY <1>1, <3>1, <4>2 DEF Cli!OfSession, Cli!TypeOK
      <4>3. QED
            BY <4>1, <4>2
    <3>3. Cli!TypeOK'
          BY <1>1, <2>1, <2>3, <3>1, <3>2 DEF Cli!TypeOK
    <3>4. Cli!FinishedAreFew'
      <4>1. \A i \in Ids : Cli!Finished(sessions'[i]) => Cli!Finished(sessions[i])
            BY <3>2 DEF Cli!Finished, Cli!Has
      <4>2. QED
            BY <1>1, <2>1, <4>1, SessionsNoMore
    <3>5. ASSUME NEW d \in SessionCalls, d # c PROVE SessionsPhase(d)' /\ SessionsTold(d)'
          BY <1>1, <2>1, <2>3, <2>4, <2>5, <3>1, <3>2, <3>5, SessionsOther
    <3>6. SessionsPhase(c)'
          BY <1>1, <2>1, <2>2, <2>3, <2>6, <3>1 DEF SessionsPhase
    <3>7. SessionsTold(c)'
      <4>1. SUFFICES ASSUME Cli!Alone(c) PROVE SessionsTold(c)'
            BY <2>4 DEF SessionsTold
      <4>2. cliCall[c] = "failed" /\ cliCall'[c] = "failed" /\ (Cli!Has(id[c])'
              <=> Cli!Has(id[c])) /\ id'[c] = id[c]
            BY <1>1, <2>1, <2>6, <3>1, <3>2 DEF SessionsPhase, Cli!Has, SessionsValues
      <4>3. QED
            BY <1>1, <2>1, <2>2, <2>3, <3>2, <4>1, <4>2 DEF SessionsTold, Cli!Has
    <3>8. timer' \cap cliLate' = {}
          BY <1>1, <2>1
    <3>9. QED
          BY <3>3, <3>4, <3>5, <3>6, <3>7, <3>8 DEF SessionsIInv
  <2>7. CASE c \notin cliLate
    <3>1. PICK how \in {"completed", "failed"} :
            /\ how = IF code[c] THEN "completed" ELSE "failed"
            /\ sessions' = Cli!cleanup(Cli!OfSession(c, Cli!Settle(Cli!Released(Cli!Of(c)), how)))
            /\ cliCall' = [cliCall EXCEPT ![c] = IF code[c] THEN "succeeded" ELSE "failed"]
          BY <1>4, <2>7 DEF Cli!Close
    <3>2. PICK left \in [Ids -> Cli!Session \cup {None}] :
            /\ sessions' = Cli!cleanup(left)
            /\ \A i \in Ids \ {id[c]} : left[i] = sessions[i]
            /\ left[id[c]] # None => left[id[c]].process = None /\ left[id[c]].status = how
      <4>1. CASE Cli!Has(id[c])
        <5>1. PICK s \in Cli!Session : /\ s = Cli!Settle(Cli!Released(Cli!Of(c)), how)
                                            /\ s.process = None
                                       /\ s.status = how
              BY <1>1, <2>2, <4>1, SessionsMade
        <5>2. QED
              BY <1>1, <2>2, <3>1, <4>1, <5>1, SessionsPut
      <4>2. CASE ~Cli!Has(id[c])
            BY <1>1, <2>2, <3>1, <4>2 DEF Cli!OfSession, Cli!TypeOK, Cli!Has
      <4>3. QED
            BY <4>1, <4>2
    <3>3. /\ sessions' \in [Ids -> Cli!Session \cup {None}]
          /\ \A i \in Ids : \/ sessions'[i] = left[i]
                            \/ sessions'[i] = None /\ Cli!Finished(left[i])
          BY <3>2, SessionsCleanup
    <3>4. /\ cliCall' \in [SessionCalls -> {"new", "running", "succeeded", "failed"}]
          /\ cliCall'[c] = IF how = "completed" THEN "succeeded" ELSE "failed"
          /\ \A d \in SessionCalls \ {c} : cliCall'[d] = cliCall[d]
          BY <1>1, <3>1 DEF Cli!TypeOK
    <3>5. Cli!TypeOK'
          BY <1>1, <2>1, <2>3, <3>3, <3>4 DEF Cli!TypeOK
    <3>6. Cli!FinishedAreFew'
          BY <1>1, <2>1, <3>2, SessionsSwept
    <3>7. ASSUME NEW d \in SessionCalls, d # c PROVE SessionsPhase(d)' /\ SessionsTold(d)'
      <4>1. id[d] # None /\ Cli!Alone(d) =>
              \/ sessions'[id[d]] = sessions[id[d]]
              \/ sessions'[id[d]] = None /\ Cli!Finished(sessions[id[d]])
            BY <2>5, <3>2, <3>3, <3>7
      <4>2. QED
            BY <1>1, <2>1, <2>3, <2>4, <3>4, <3>7, <4>1, SessionsOther
    <3>8. SessionsPhase(c)'
          BY <2>1, <2>2, <2>3, <2>7, <3>4 DEF SessionsPhase
    <3>9. SessionsTold(c)'
      <4>1. Cli!Has(id[c])' => sessions'[id[c]] = left[id[c]] /\ left[id[c]] # None
            BY <2>1, <2>2, <3>3 DEF Cli!Has
      <4>2. QED
            BY <2>1, <2>3, <3>2, <3>4, <4>1 DEF SessionsTold
    <3>10. timer' \cap cliLate' = {}
           BY <1>1, <2>1
    <3>11. QED
           BY <3>5, <3>6, <3>7, <3>8, <3>9, <3>10 DEF SessionsIInv
  <2>8. QED
        BY <2>6, <2>7
<1>5. ASSUME NEW c \in SessionCalls, Cli!Timeout(c) PROVE SessionsIInv'
  <2>1. /\ c \in timer /\ timer' = timer \ {c} /\ cliLate' = cliLate \cup {c}
        /\ cliSent' = IF cliSent[c] = {} THEN Cli!Signalled(c, "KILL") ELSE cliSent
        /\ sessions' = Cli!OfSession(c, Cli!Settle(Cli!Of(c), "failed"))
        /\ cliCall' = [cliCall EXCEPT ![c] = "failed"]
        /\ UNCHANGED <<id, child, code, cancels>>
        BY <1>5 DEF Cli!Timeout
  <2>2. cliCall[c] = "running" /\ id[c] # None /\ id[c] \in Ids /\ c \notin cliLate
          /\ child[c] # "closed"
        BY <1>1, <2>1 DEF SessionsPhase, Cli!TypeOK
  <2>3. /\ cliCall' \in [SessionCalls -> {"new", "running", "succeeded", "failed"}]
        /\ cliCall'[c] = "failed" /\ \A d \in SessionCalls \ {c} : cliCall'[d] = cliCall[d]
        BY <1>1, <2>1 DEF Cli!TypeOK
  <2>4. /\ cliSent' \in [SessionCalls -> SUBSET {"TERM", "KILL"}]
        /\ child[c] = "alive" => cliSent'[c] # {}
        /\ \A d \in SessionCalls : cliSent[d] \subseteq cliSent'[d]
        BY <1>1, <2>1 DEF Cli!TypeOK, Cli!Signalled
  <2>5. /\ sessions' \in [Ids -> Cli!Session \cup {None}]
        /\ \A i \in Ids \ {id[c]} : sessions'[i] = sessions[i]
        /\ ~Cli!Has(id[c]) => sessions'[id[c]] = sessions[id[c]]
        /\ Cli!Has(id[c]) => /\ sessions'[id[c]] \in Cli!Session
                                  /\ sessions'[id[c]].status = "failed"
                             /\ sessions'[id[c]].process = sessions[id[c]].process
    <3>1. CASE Cli!Has(id[c])
      <4>1. PICK s \in Cli!Session : /\ s = Cli!Settle(Cli!Of(c), "failed") /\ s.status = "failed"
                                     /\ s.process = sessions[id[c]].process
            BY <1>1, <2>2, <3>1, SessionsMade DEF Cli!Of
      <4>2. QED
            BY <1>1, <2>1, <2>2, <3>1, <4>1, SessionsPut
    <3>2. CASE ~Cli!Has(id[c])
          BY <1>1, <2>1, <3>2 DEF Cli!OfSession, Cli!TypeOK
    <3>3. QED
          BY <3>1, <3>2
  <2>6. Cli!TypeOK'
        BY <1>1, <2>1, <2>3, <2>4, <2>5 DEF Cli!TypeOK
  <2>7. Cli!FinishedAreFew'
    <3>1. PICK e : e = id[c]
          OBVIOUS
    <3>2. \A i \in Ids : Cli!Finished(sessions'[i]) => Cli!Finished(sessions[i]) \/ i = e
          BY <2>5, <3>1
    <3>3. QED
          BY <1>1, <2>1, <2>2, <3>2, SessionsOneMore
  <2>8. \A d \in SessionCalls : Cli!Alone(d)' <=> Cli!Alone(d)
        BY <2>1 DEF Cli!Alone
  <2>9. ASSUME NEW d \in SessionCalls, d # c PROVE SessionsPhase(d)' /\ SessionsTold(d)'
    <3>1. id[d] # None /\ Cli!Alone(d) => id[d] \in Ids \ {id[c]}
          BY <1>1, <2>9 DEF Cli!Alone, Cli!TypeOK
    <3>2. QED
          BY <1>1, <2>1, <2>3, <2>4, <2>5, <2>8, <2>9, <3>1, SessionsOther
  <2>10. SessionsPhase(c)'
         BY <1>1, <2>1, <2>2, <2>3, <2>4 DEF SessionsPhase
  <2>11. SessionsTold(c)'
    <3>1. SUFFICES ASSUME Cli!Alone(c) PROVE SessionsTold(c)'
          BY <2>8 DEF SessionsTold
    <3>2. (Cli!Has(id[c])' <=> Cli!Has(id[c])) /\ id'[c] = id[c] /\ child'[c] = child[c]
          BY <2>1, <2>5 DEF Cli!Has, SessionsValues
    <3>3. QED
          BY <1>1, <2>2, <2>3, <2>5, <3>1, <3>2 DEF SessionsTold, Cli!Has
  <2>12. timer' \cap cliLate' = {}
         BY <1>1, <2>1
  <2>13. QED
         BY <2>6, <2>7, <2>9, <2>10, <2>11, <2>12 DEF SessionsIInv
<1>6. ASSUME NEW i \in Ids, Cli!Cancel(i) PROVE SessionsIInv'
  <2>1. /\ cancels < MaxCancels /\ cancels' = cancels + 1 /\ Cli!Has(i)
        /\ UNCHANGED <<cliCall, id, child, code, timer, cliLate>>
        BY <1>6 DEF Cli!Cancel
  <2>2. PICK s \in Cli!Session : s = sessions[i]
        BY <1>1, <2>1 DEF Cli!Has, Cli!TypeOK
  <2> DEFINE p == s.process
  <2>3. PICK stop \in BOOLEAN :
          /\ stop = (p # None /\ child[p] # "unborn" /\ cliSent[p] = {})
          /\ cliSent' = IF stop THEN Cli!Signalled(p, "TERM") ELSE cliSent
          /\ sessions' = Cli!cleanup(IF stop THEN [sessions EXCEPT ![i].status = "cancelled"]
                                 ELSE sessions)
        BY <1>6, <2>2 DEF Cli!Cancel
  <2>4. p \in SessionCalls \cup {None} /\ s # None
        BY <2>2 DEF Cli!Session, SessionsValues
  <2> HIDE DEF p
  <2>5. /\ cliSent' \in [SessionCalls -> SUBSET {"TERM", "KILL"}]
        /\ \A d \in SessionCalls : cliSent[d] \subseteq cliSent'[d]
        /\ stop /\ child[p] = "alive" => cliSent'[p] # {}
        BY <1>1, <2>3, <2>4 DEF Cli!TypeOK, Cli!Signalled
  <2>6. PICK left \in [Ids -> Cli!Session \cup {None}] :
          /\ sessions' = Cli!cleanup(left)
          /\ \A j \in Ids \ {i} : left[j] = sessions[j]
          /\ ~stop => left[i] = s
          /\ stop => left[i] \in Cli!Session /\ left[i].process = p
               /\ left[i].status = "cancelled"
    <3>1. CASE stop
      <4> DEFINE u == [s EXCEPT !.status = "cancelled"]
      <4>1. u \in Cli!Session /\ u.process = p /\ u.status = "cancelled"
            BY DEF Cli!Session, p
      <4>2. [sessions EXCEPT ![i].status = "cancelled"] = [sessions EXCEPT ![i] = u]
            BY <1>1, <2>2 DEF Cli!TypeOK
      <4> HIDE DEF u
      <4>3. QED
            BY <1>1, <2>3, <3>1, <4>1, <4>2 DEF Cli!TypeOK
    <3>2. CASE ~stop
          BY <1>1, <2>2, <2>3, <3>2 DEF Cli!TypeOK
    <3>3. QED
          BY <3>1, <3>2
  <2>7. /\ sessions' \in [Ids -> Cli!Session \cup {None}]
        /\ \A j \in Ids : \/ sessions'[j] = left[j]
                          \/ sessions'[j] = None /\ Cli!Finished(left[j])
        BY <2>6, SessionsCleanup
  <2>8. cancels' \in 0..MaxCancels
        BY <1>1, <2>1 DEF Cli!TypeOK, SessionsValues
  <2>9. Cli!TypeOK'
        BY <1>1, <2>1, <2>5, <2>7, <2>8 DEF Cli!TypeOK
  <2>10. Cli!FinishedAreFew'
         BY <1>1, <2>1, <2>6, SessionsSwept
  <2>11. \A d \in SessionCalls : Cli!Alone(d)' <=> Cli!Alone(d)
         BY <2>1 DEF Cli!Alone
  <2>12. ASSUME NEW d \in SessionCalls PROVE SessionsPhase(d)' /\ SessionsTold(d)'
    <3>1. CASE id[d] # i \/ ~stop
      <4>1. id[d] # None => id[d] \in Ids /\ left[id[d]] = sessions[id[d]]
            BY <1>1, <2>2, <2>6, <3>1 DEF Cli!TypeOK
      <4>2. id[d] # None /\ Cli!Alone(d) =>
              \/ sessions'[id[d]] = sessions[id[d]]
              \/ sessions'[id[d]] = None /\ Cli!Finished(sessions[id[d]])
            BY <2>7, <4>1
      <4>3. QED
            BY <1>1, <2>1, <2>5, <2>11, <4>2, SessionsOther
    <3>2. CASE id[d] = i /\ stop
      <4>1. SessionsPhase(d)'
            BY <1>1, <2>1, <2>5 DEF SessionsPhase
      <4>2. SUFFICES ASSUME Cli!Alone(d) PROVE SessionsTold(d)'
            BY <2>11, <4>1 DEF SessionsTold
      <4>3. i # None /\ Cli!Has(id[d]) /\ SessionsTold(d) /\ SessionsPhase(d)
            BY <1>1, <2>1, <3>2 DEF SessionsValues
      <4>4. p = d /\ child[d] # "closed" /\ child[d] # "unborn"
            BY <2>2, <2>3, <3>2, <4>2, <4>3 DEF SessionsTold, p
      <4>5. cliSent'[d] # {} \/ child[d] = "exited"
            BY <1>1, <2>3, <2>5, <3>2, <4>3, <4>4 DEF Cli!TypeOK, SessionsPhase
      <4>6. cliCall[d] # "succeeded" /\ (cliCall[d] = "failed" => d \in cliLate)
            BY <1>1, <4>3, <4>4 DEF SessionsPhase
      <4>7. sessions'[i] = None \/ (sessions'[i].process = d /\ sessions'[i].status = "cancelled")
            BY <2>6, <2>7, <3>2, <4>4
      <4>8. id'[d] = i /\ cliCall'[d] = cliCall[d] /\ child'[d] = child[d] /\ cliLate' = cliLate
            BY <2>1, <3>2
      <4>9. QED
            BY <4>4, <4>5, <4>6, <4>7, <4>8 DEF SessionsTold, Cli!Has
    <3>3. QED
          BY <3>1, <3>2
  <2>13. timer' \cap cliLate' = {}
         BY <1>1, <2>1
  <2>14. QED
         BY <2>9, <2>10, <2>12, <2>13 DEF SessionsIInv
<1>7. CASE UNCHANGED cli
  <2>1. UNCHANGED <<sessions, cliCall, id, child, code, cliSent, timer, cliLate, cancels>>
        BY <1>7 DEF cli
  <2>2. Cli!TypeOK' /\ Cli!FinishedAreFew' /\ timer' \cap cliLate' = {}
        BY <1>1, <2>1, SessionsCount DEF Cli!TypeOK, Cli!FinishedAreFew
  <2>3. ASSUME NEW c \in SessionCalls PROVE SessionsPhase(c)' /\ SessionsTold(c)'
    <3>1. Cli!Alone(c)' => Cli!Alone(c)
          BY <2>1 DEF Cli!Alone
    <3>2. QED
          BY <1>1, <2>1, <3>1, SessionsOther
  <2>4. QED
        BY <2>2, <2>3 DEF SessionsIInv
<1>8. QED
      BY <1>2, <1>3, <1>4, <1>5, <1>6, <1>7 DEF Cli!Next

-----------------------------------------------------------------------------
(* The MCP client over a child process *)

McpValues == MaxCloses \in Nat /\ None \notin Mcp!Servers \cup ToolCalls

\* The process the client has was started, and its handshake with it; who waits for that
\* handshake will hear of its exit
McpPresent ==
    proc # None => /\ server[proc] # "none" /\ hand[proc] # "none"
                   /\ hand[proc] = "waiting" => server[proc] # "gone"

McpIInv == Mcp!McpInv /\ McpPresent

\* The client starts so
LEMMA McpInit == ASSUME McpValues, Mcp!Init PROVE McpIInv
<1>1. Mcp!TypeOK
  <2>1. /\ 0 \in 0..MaxCloses /\ <<>> \in Seq(Mcp!Piece)
        BY DEF McpValues
  <2>2. QED
        BY <2>1 DEF Mcp!Init, Mcp!TypeOK, Mcp!Asker
<1>2. Mcp!OwnAnswer /\ Mcp!NobodyWaitsForTheGone /\ McpPresent
      BY DEF Mcp!Init, Mcp!OwnAnswer, Mcp!NobodyWaitsForTheGone, Mcp!Waiting, Mcp!With, McpPresent
<1>3. QED
      BY <1>1, <1>2 DEF McpIInv, Mcp!McpInv

\* What a write changes is of its type
LEMMA McpWrite ==
    ASSUME Mcp!TypeOK, NEW p \in Mcp!Servers \cup {None}, NEW s, NEW askers \in SUBSET Mcp!Asker,
           Mcp!Write(p, s, askers)
    PROVE  asked' \in [Mcp!Servers -> SUBSET Mcp!Asker] /\ crashed' \in BOOLEAN
<1>1. asked' \in [Mcp!Servers -> SUBSET Mcp!Asker]
  <2>1. CASE s = "up"
        BY <2>1 DEF Mcp!Write, Mcp!TypeOK
  <2>2. CASE s # "up"
        BY <2>2 DEF Mcp!Write, Mcp!TypeOK
  <2>3. QED
        BY <2>1, <2>2
<1>2. crashed' \in BOOLEAN
      BY DEF Mcp!Write, Mcp!TypeOK
<1>3. QED
      BY <1>1, <1>2

\* Setting the calls keeps their type
LEMMA McpSet ==
    ASSUME Mcp!TypeOK, NEW ts, NEW shake \in {"new", "shaking", "asking", "done", "failed"}
    PROVE  /\ Mcp!Set(ts, shake) \in [ToolCalls -> {"new", "shaking", "asking", "done", "failed"}]
           /\ \A t \in ToolCalls : Mcp!Set(ts, shake)[t] = IF t \in ts THEN shake ELSE tool[t]
BY DEF Mcp!Set, Mcp!TypeOK

\* When all is failed, nobody waits
LEMMA McpFail ==
    ASSUME Mcp!TypeOK, tool' = Mcp!FailAll, hand' = Mcp!Unshaken
    PROVE  /\ tool' \in [ToolCalls -> {"new", "shaking", "asking", "done", "failed"}]
           /\ hand' \in [Mcp!Servers -> {"none", "waiting", "ok", "failed"}]
           /\ Mcp!Waiting' = {}
           /\ \A p \in Mcp!Servers : hand'[p] # "waiting" /\ (hand[p] # "none"
                => hand'[p] # "none")
<1>1. /\ tool' \in [ToolCalls -> {"new", "shaking", "asking", "done", "failed"}]
      /\ \A t \in ToolCalls : tool'[t] # "asking" /\ tool'[t] # "shaking"
      BY McpSet DEF Mcp!FailAll, Mcp!With
<1>2. QED
      BY <1>1 DEF Mcp!TypeOK, Mcp!Unshaken, Mcp!Waiting, Mcp!With

\* A call, an answer, an exit or a close keeps it
LEMMA McpStepLemma == ASSUME McpValues, McpIInv, Mcp!Next \/ UNCHANGED mcp PROVE McpIInv'
<1>1. Mcp!TypeOK /\ Mcp!OwnAnswer /\ Mcp!NobodyWaitsForTheGone /\ McpPresent
      BY DEF McpIInv, Mcp!McpInv
<1>2. ASSUME NEW t \in ToolCalls, Mcp!CallTool(t) PROVE McpIInv'
  <2>1. tool[t] = "new" /\ UNCHANGED <<got, told, buffer, closes, eaten>>
        BY <1>2 DEF Mcp!CallTool
  <2>2. CASE Mcp!Start(t)
    <3> DEFINE p == closes + 1
    <3>1. p \in Mcp!Servers /\ p # None
          BY <1>1 DEF Mcp!TypeOK, Mcp!Servers, McpValues
    <3>2. PICK s \in {"up", "dead"} :
             /\ server' = [server EXCEPT ![p] = s] /\ proc' = p
             /\ hand' = [hand EXCEPT ![p] = "waiting"] /\ Mcp!Write(p, s, {None})
          BY <2>2 DEF Mcp!Start
    <3>3. tool' = Mcp!Set({t}, "shaking") /\ proc = None
          BY <2>2 DEF Mcp!Start
    <3> HIDE DEF p
    <3>4. asked' \in [Mcp!Servers -> SUBSET Mcp!Asker] /\ crashed' \in BOOLEAN
          BY <1>1, <3>1, <3>2, McpWrite DEF Mcp!Asker
    <3>5. /\ tool' \in [ToolCalls -> {"new", "shaking", "asking", "done", "failed"}]
          /\ server'[proc'] = s /\ hand'[proc'] = "waiting"
          BY <1>1, <3>1, <3>2, <3>3, McpSet DEF Mcp!TypeOK
    <3>6. Mcp!TypeOK'
          BY <1>1, <2>1, <3>1, <3>2, <3>4, <3>5 DEF Mcp!TypeOK
    <3>7. Mcp!OwnAnswer' /\ McpPresent' /\ Mcp!NobodyWaitsForTheGone'
          BY <1>1, <2>1, <3>1, <3>2, <3>5 DEF Mcp!OwnAnswer, McpPresent, Mcp!NobodyWaitsForTheGone
    <3>8. QED
          BY <3>6, <3>7 DEF McpIInv, Mcp!McpInv
  <2>3. CASE Mcp!Ask(t)
    <3>1. proc # None /\ UNCHANGED <<proc, server, hand>> /\ proc \in Mcp!Servers
          BY <1>1, <2>3 DEF Mcp!Ask, Mcp!TypeOK
    <3>2. asked' \in [Mcp!Servers -> SUBSET Mcp!Asker] /\ crashed' \in BOOLEAN
      <4>1. CASE Mcp!Write(proc, server[proc], {t})
            BY <1>1, <3>1, <4>1, McpWrite DEF Mcp!Asker
      <4>2. CASE UNCHANGED <<asked, crashed>>
            BY <1>1, <4>2 DEF Mcp!TypeOK
      <4>3. QED
            BY <2>3, <4>1, <4>2 DEF Mcp!Ask
    <3>3. PICK shake \in {"shaking", "asking", "failed"} :
             /\ tool' = Mcp!Set({t}, shake)
             /\ shake = "shaking" => hand[proc] = "waiting"
             /\ shake = "asking" => hand[proc] # "waiting" /\ ~(hand[proc] = "ok"
                  /\ server[proc] = "gone")
                                    /\ hand[proc] # "failed"
          BY <2>3 DEF Mcp!Ask
    <3>4. /\ tool' \in [ToolCalls -> {"new", "shaking", "asking", "done", "failed"}]
          /\ \A u \in ToolCalls : tool'[u] = IF u = t THEN shake ELSE tool[u]
          BY <1>1, <3>3, McpSet
    <3>5. Mcp!TypeOK'
          BY <1>1, <2>1, <3>1, <3>2, <3>4 DEF Mcp!TypeOK
    <3>6. shake # "failed" => server[proc] \in {"up", "dead"}
          BY <1>1, <3>1, <3>3 DEF McpPresent, Mcp!TypeOK
    <3>7. Mcp!NobodyWaitsForTheGone'
      <4>1. CASE shake = "failed"
            BY <1>1, <3>1, <3>4, <4>1 DEF Mcp!NobodyWaitsForTheGone, Mcp!Waiting, Mcp!With
      <4>2. CASE shake = "asking"
            BY <1>1, <3>1, <3>4, <3>6, <4>2 DEF Mcp!NobodyWaitsForTheGone, Mcp!Waiting, Mcp!With
      <4>3. CASE shake = "shaking"
            BY <1>1, <3>1, <3>3, <3>6, <4>3 DEF Mcp!NobodyWaitsForTheGone, Mcp!Waiting, Mcp!With
      <4>4. QED
            BY <4>1, <4>2, <4>3
    <3>8. Mcp!OwnAnswer' /\ McpPresent'
          BY <1>1, <2>1, <3>1 DEF Mcp!OwnAnswer, McpPresent
    <3>9. QED
          BY <3>5, <3>7, <3>8 DEF McpIInv, Mcp!McpInv
  <2>4. QED
        BY <1>2, <2>2, <2>3 DEF Mcp!CallTool
<1>3. ASSUME NEW p \in Mcp!Servers, Mcp!Data(p) PROVE McpIInv'
  <2> DEFINE m == Head(told[p])
  <2>1. /\ told[p] \in Seq(Mcp!Piece) /\ told[p] # <<>> /\ told' = [told EXCEPT ![p] = Tail(@)]
        /\ UNCHANGED <<proc, server, closes>>
        /\ buffer' = IF m.part = "first" THEN Append(buffer, m) ELSE <<>>
        /\ Mcp!Handle(m) \/ UNCHANGED <<tool, got, hand, asked, crashed>>
        BY <1>1, <1>3 DEF Mcp!Data, Mcp!TypeOK
  <2>2. m \in Mcp!Piece /\ Tail(told[p]) \in Seq(Mcp!Piece)
        BY <2>1
  <2>3. eaten' \in BOOLEAN
        BY <1>3 DEF Mcp!Data
  <2> HIDE DEF m
  <2>4. told' \in [Mcp!Servers -> Seq(Mcp!Piece)] /\ buffer' \in Seq(Mcp!Piece)
        BY <1>1, <2>1, <2>2 DEF Mcp!TypeOK
  <2>5. m.to \in Mcp!Asker /\ m.from \in Mcp!Servers
        BY <2>2 DEF Mcp!Piece
  <2>6. /\ tool' \in [ToolCalls -> {"new", "shaking", "asking", "done", "failed"}]
        /\ got' \in [ToolCalls -> Mcp!Asker] /\ Mcp!OwnAnswer'
        /\ hand' \in [Mcp!Servers -> {"none", "waiting", "ok", "failed"}]
        /\ asked' \in [Mcp!Servers -> SUBSET Mcp!Asker] /\ crashed' \in BOOLEAN
        /\ Mcp!Waiting' \subseteq Mcp!Waiting /\ (Mcp!With("shaking")' # {}
             => Mcp!With("shaking") # {} /\ hand' = hand)
        /\ \A q \in Mcp!Servers : /\ hand'[q] = "waiting" => hand[q] = "waiting"
                                  /\ hand[q] # "none" => hand'[q] # "none"
    <3>1. CASE m.to \in ToolCalls /\ tool[m.to] = "asking" /\ Mcp!Handle(m)
      <4>1. /\ tool' = Mcp!Set({m.to}, IF m.ok THEN "done" ELSE "failed")
            /\ got' = IF m.ok THEN [got EXCEPT ![m.to] = m.to] ELSE got
            /\ UNCHANGED <<hand, asked, crashed>>
            BY <3>1 DEF Mcp!Handle, Mcp!Receiver, McpValues
      <4>2. /\ tool' \in [ToolCalls -> {"new", "shaking", "asking", "done", "failed"}]
            /\ \A t \in ToolCalls : tool'[t] \in {"done", "failed"} \/ tool'[t] = tool[t]
            BY <1>1, <4>1, McpSet
      <4>3. got' \in [ToolCalls -> Mcp!Asker] /\ Mcp!OwnAnswer'
            BY <1>1, <2>5, <3>1, <4>1 DEF Mcp!TypeOK, Mcp!OwnAnswer
      <4>4. Mcp!Waiting' \subseteq Mcp!Waiting
              /\ Mcp!With("shaking")' \subseteq Mcp!With("shaking")
            BY <4>2 DEF Mcp!Waiting, Mcp!With
      <4>5. QED
            BY <1>1, <4>1, <4>2, <4>3, <4>4 DEF Mcp!TypeOK
    <3>2. CASE ~(m.to \in ToolCalls /\ tool[m.to] = "asking") /\ m.to = None
                 /\ hand[m.from] = "waiting"
               /\ m.ok /\ Mcp!Handle(m)
      <4>1. /\ hand' = [hand EXCEPT ![m.from] = "ok"] /\ tool' = Mcp!Set(Mcp!With("shaking"),
                 "asking")
            /\ Mcp!Write(proc, server[proc], Mcp!With("shaking")) /\ UNCHANGED got
            BY <3>2 DEF Mcp!Handle, Mcp!Receiver
      <4>2. /\ tool' \in [ToolCalls -> {"new", "shaking", "asking", "done", "failed"}]
            /\ \A t \in ToolCalls : tool'[t] = IF t \in Mcp!With("shaking")
                 THEN "asking" ELSE tool[t]
            BY <1>1, <4>1, McpSet
      <4>3. asked' \in [Mcp!Servers -> SUBSET Mcp!Asker] /\ crashed' \in BOOLEAN
        <5>1. Mcp!With("shaking") \in SUBSET Mcp!Asker /\ proc \in Mcp!Servers \cup {None}
              BY <1>1 DEF Mcp!With, Mcp!Asker, Mcp!TypeOK
        <5>2. QED
              BY <1>1, <4>1, <5>1, McpWrite
      <4>4. Mcp!Waiting' \subseteq Mcp!Waiting /\ Mcp!With("shaking")' = {}
            BY <4>2 DEF Mcp!Waiting, Mcp!With
      <4>5. QED
            BY <1>1, <2>5, <4>1, <4>2, <4>3, <4>4 DEF Mcp!TypeOK, Mcp!OwnAnswer
    <3>3. CASE ~(m.to \in ToolCalls /\ tool[m.to] = "asking") /\ m.to = None
                 /\ hand[m.from] = "waiting"
               /\ ~m.ok /\ Mcp!Handle(m)
      <4>1. /\ hand' = [hand EXCEPT ![m.from] = "failed"] /\ tool' = Mcp!Set(Mcp!With("shaking"),
                 "failed")
            /\ UNCHANGED <<got, asked, crashed>>
            BY <3>3 DEF Mcp!Handle, Mcp!Receiver
      <4>2. /\ tool' \in [ToolCalls -> {"new", "shaking", "asking", "done", "failed"}]
            /\ \A t \in ToolCalls : tool'[t] = IF t \in Mcp!With("shaking")
                 THEN "failed" ELSE tool[t]
            BY <1>1, <4>1, McpSet
      <4>3. Mcp!Waiting' \subseteq Mcp!Waiting /\ Mcp!With("shaking")' = {}
            BY <4>2 DEF Mcp!Waiting, Mcp!With
      <4>4. QED
            BY <1>1, <2>5, <4>1, <4>2, <4>3 DEF Mcp!TypeOK, Mcp!OwnAnswer
    <3>4. CASE UNCHANGED <<tool, got, hand, asked, crashed>>
      <4>1. Mcp!Waiting' = Mcp!Waiting /\ Mcp!With("shaking")' = Mcp!With("shaking")
            BY <3>4 DEF Mcp!Waiting, Mcp!With
      <4>2. QED
            BY <1>1, <3>4, <4>1 DEF Mcp!TypeOK, Mcp!OwnAnswer
    <3>5. QED
          BY <2>1, <3>1, <3>2, <3>3, <3>4 DEF Mcp!Handle, Mcp!Receiver
  <2>7. Mcp!TypeOK'
        BY <1>1, <2>1, <2>3, <2>4, <2>6 DEF Mcp!TypeOK
  <2>8. Mcp!NobodyWaitsForTheGone'
        BY <1>1, <2>1, <2>6 DEF Mcp!NobodyWaitsForTheGone
  <2>9. McpPresent'
        BY <1>1, <2>1, <2>6 DEF McpPresent, Mcp!TypeOK
  <2>10. QED
        BY <2>6, <2>7, <2>8, <2>9 DEF McpIInv, Mcp!McpInv
<1>4. ASSUME NEW p \in Mcp!Servers, Mcp!Report(p) PROVE McpIInv'
  <2>1. /\ server' = [server EXCEPT ![p] = "gone"] /\ tool' = Mcp!FailAll /\ hand' = Mcp!Unshaken
        /\ UNCHANGED <<got, proc, asked, told, buffer, closes, crashed, eaten>>
        BY <1>4 DEF Mcp!Report
  <2>2. /\ tool' \in [ToolCalls -> {"new", "shaking", "asking", "done", "failed"}]
        /\ hand' \in [Mcp!Servers -> {"none", "waiting", "ok", "failed"}]
        /\ Mcp!Waiting' = {}
        /\ \A q \in Mcp!Servers : hand'[q] # "waiting" /\ (hand[q] # "none" => hand'[q] # "none")
        BY <1>1, <2>1, McpFail
  <2>3. Mcp!TypeOK'
        BY <1>1, <2>1, <2>2 DEF Mcp!TypeOK
  <2>4. McpPresent'
        BY <1>1, <2>1, <2>2 DEF McpPresent, Mcp!TypeOK
  <2>5. QED
        BY <1>1, <2>1, <2>2, <2>3, <2>4 DEF McpIInv, Mcp!McpInv, Mcp!OwnAnswer,
             Mcp!NobodyWaitsForTheGone
<1>5. CASE Mcp!close
  <2>1. /\ closes < MaxCloses /\ closes' = closes + 1 /\ tool' = Mcp!FailAll
             /\ hand' = Mcp!Unshaken
        /\ proc' = None /\ UNCHANGED <<got, server, asked, told, buffer, crashed, eaten>>
        BY <1>5 DEF Mcp!close
  <2>2. /\ tool' \in [ToolCalls -> {"new", "shaking", "asking", "done", "failed"}]
        /\ hand' \in [Mcp!Servers -> {"none", "waiting", "ok", "failed"}] /\ Mcp!Waiting' = {}
        BY <1>1, <2>1, McpFail
  <2>3. closes' \in 0..MaxCloses
        BY <1>1, <2>1 DEF Mcp!TypeOK, McpValues
  <2>4. Mcp!TypeOK'
        BY <1>1, <2>1, <2>2, <2>3 DEF Mcp!TypeOK
  <2>5. QED
        BY <1>1, <2>1, <2>2, <2>4 DEF McpIInv, Mcp!McpInv, Mcp!OwnAnswer,
             Mcp!NobodyWaitsForTheGone, McpPresent
<1>6. ASSUME NEW p \in Mcp!Servers, Mcp!Serve(p) PROVE McpIInv'
  <2>1. PICK a \in asked[p], ok \in BOOLEAN, parts \in {<<"whole">>, <<"first", "second">>} :
          /\ asked' = [asked EXCEPT ![p] = @ \ {a}]
          /\ told' = [told EXCEPT ![p] =
                        @ \o [n \in 1..Len(parts) |->
                                [to |-> a, from |-> p, ok |-> ok, part |-> parts[n]]]]
        BY <1>6 DEF Mcp!Serve
  <2>2. UNCHANGED <<tool, got, proc, server, hand, buffer, closes, crashed, eaten>>
        BY <1>6 DEF Mcp!Serve
  <2> DEFINE new == [n \in 1..Len(parts) |-> [to |-> a, from |-> p, ok |-> ok, part |-> parts[n]]]
  <2>3. new \in Seq(Mcp!Piece)
    <3>1. parts \in Seq({"whole", "first", "second"})
      <4>1. CASE parts = <<"whole">>
            BY <4>1
      <4>2. CASE parts = <<"first", "second">>
            BY <4>2
      <4>3. QED
            BY <4>1, <4>2
    <3>2. a \in Mcp!Asker
          BY <1>1 DEF Mcp!TypeOK
    <3>3. \A n \in 1..Len(parts) : parts[n] \in {"whole", "first", "second"}
          BY <3>1
    <3>4. \A n \in 1..Len(parts) : new[n] \in Mcp!Piece
          BY <3>2, <3>3 DEF Mcp!Piece
    <3>5. Len(parts) \in Nat
          BY <3>1
    <3>6. QED
          BY <3>4, <3>5
  <2> HIDE DEF new
  <2>4. told' = [told EXCEPT ![p] = @ \o new]
        BY <2>1 DEF new
  <2>5. told' \in [Mcp!Servers -> Seq(Mcp!Piece)]
    <3>1. told[p] \o new \in Seq(Mcp!Piece)
          BY <1>1, <2>3 DEF Mcp!TypeOK
    <3>2. QED
          BY <1>1, <2>4, <3>1 DEF Mcp!TypeOK
  <2>6. asked' \in [Mcp!Servers -> SUBSET Mcp!Asker]
        BY <1>1, <2>1 DEF Mcp!TypeOK
  <2>7. Mcp!TypeOK'
        BY <1>1, <2>2, <2>5, <2>6 DEF Mcp!TypeOK
  <2>8. QED
        BY <1>1, <2>2, <2>7 DEF McpIInv, Mcp!McpInv, Mcp!OwnAnswer, Mcp!NobodyWaitsForTheGone,
             McpPresent,
                                Mcp!Waiting, Mcp!With
<1>7. ASSUME NEW p \in Mcp!Servers, Mcp!Exits(p) PROVE McpIInv'
  <2>1. /\ server[p] = "up" /\ server' = [server EXCEPT ![p] = "dead"]
        /\ UNCHANGED <<tool, got, proc, hand, asked, buffer, closes, crashed, eaten>>
        BY <1>7 DEF Mcp!Exits
  <2>2. told' \in [Mcp!Servers -> Seq(Mcp!Piece)]
    <3>1. CASE UNCHANGED told
          BY <1>1, <3>1 DEF Mcp!TypeOK
    <3>2. CASE told[p] # <<>> /\ told' = [told EXCEPT ![p] = Mcp!Front(@)]
      <4>1. Mcp!Front(told[p]) \in Seq(Mcp!Piece)
            BY <1>1, <3>2 DEF Mcp!TypeOK, Mcp!Front
      <4>2. QED
            BY <1>1, <3>2, <4>1 DEF Mcp!TypeOK
    <3>3. QED
          BY <1>7, <3>1, <3>2 DEF Mcp!Exits
  <2>3. /\ server' \in [Mcp!Servers -> {"none", "up", "dead", "gone"}]
        /\ \A q \in Mcp!Servers : server'[q] = server[q]
             \/ (server[q] = "up" /\ server'[q] = "dead")
        BY <1>1, <2>1 DEF Mcp!TypeOK
  <2>4. Mcp!TypeOK'
        BY <1>1, <2>1, <2>2, <2>3 DEF Mcp!TypeOK
  <2>5. Mcp!NobodyWaitsForTheGone' /\ McpPresent' /\ Mcp!OwnAnswer'
        BY <1>1, <2>1, <2>3 DEF Mcp!OwnAnswer, Mcp!NobodyWaitsForTheGone, McpPresent, Mcp!Waiting,
             Mcp!With, Mcp!TypeOK
  <2>6. QED
        BY <2>4, <2>5 DEF McpIInv, Mcp!McpInv
<1>8. CASE UNCHANGED mcp
      BY <1>1, <1>8 DEF mcp, McpIInv, Mcp!McpInv, Mcp!TypeOK, Mcp!OwnAnswer,
           Mcp!NobodyWaitsForTheGone,
                        McpPresent, Mcp!Waiting, Mcp!With
<1>9. QED
      BY <1>2, <1>3, <1>4, <1>5, <1>6, <1>7, <1>8 DEF Mcp!Next

-----------------------------------------------------------------------------
(* The MCP client over HTTP *)

\* What the code has of its values: no epoch is the absent one
HttpValues == HttpCloses \in Nat /\ HttpForgets \in Nat /\ None \notin Http!Epochs

\* The promise is of the time since the last close, and of that time there was no
\* handshake unless there is a promise
HttpCurrent ==
    /\ epoch = None => posts <= httpCloses /\ httpHand[httpCloses + 1] = "none"
    /\ epoch # None => posts <= httpCloses + 1 /\ epoch = httpCloses + 1
         /\ httpHand[epoch] # "none"
    /\ \A e \in Http!Epochs : e > httpCloses + 1 => httpHand[e] = "none"

\* A call has a handshake it awaits, and one that asks has one that succeeded
HttpAwaited ==
    \A t \in HttpCalls :
        /\ httpTool[t] \in {"shaking", "asking", "done"} => awaits[t] \in Http!Epochs
        /\ httpTool[t] = "shaking" => httpHand[awaits[t]] \in {"initialize", "notify"}
        /\ httpTool[t] \in {"asking", "done"} => httpHand[awaits[t]] = "ok"

\* Until something crosses a close, what the handshake opened is what the client names
HttpNamed ==
    ~crossed =>
        /\ session # None => session = epoch
        /\ epoch # None /\ httpHand[epoch] \in {"notify", "ok"} => session = epoch
        /\ \A t \in HttpCalls : httpTool[t] = "asking" => carried[t] = awaits[t]

HttpIInv == Http!TypeOK /\ HttpCurrent /\ HttpAwaited /\ HttpNamed

\* The types are kept
LEMMA HttpTypes ==
    ASSUME HttpValues, Http!TypeOK, Http!Next \/ UNCHANGED http
    PROVE  Http!TypeOK'
<1> USE DEF Http!TypeOK, HttpValues, Http!Epochs
<1> httpCloses + 1 \in Http!Epochs
    OBVIOUS
<1>1. ASSUME NEW t \in HttpCalls, Http!CallTool(t) PROVE Http!TypeOK'
  <2>1. CASE Http!Open(t)
        BY <1>1, <2>1 DEF Http!CallTool, Http!Open, Http!Kept
  <2>2. CASE Http!Join(t)
        BY <1>1, <2>2 DEF Http!CallTool, Http!Join, Http!Kept, Http!Post, Http!Fail
  <2>3. QED
        BY <1>1, <2>1, <2>2 DEF Http!CallTool
<1>2. ASSUME NEW e \in Http!Epochs, Http!Initialized(e) PROVE Http!TypeOK'
      BY <1>2 DEF Http!Initialized, Http!Fail
<1>3. ASSUME NEW e \in Http!Epochs, Http!Notified(e) PROVE Http!TypeOK'
      BY <1>3 DEF Http!Notified, Http!Post, Http!Fail
<1>4. ASSUME NEW t \in HttpCalls, Http!Answered(t) PROVE Http!TypeOK'
      BY <1>4 DEF Http!Answered
<1>5. CASE Http!close
      BY <1>5 DEF Http!close
<1>6. CASE Http!Forget
      BY <1>6 DEF Http!Forget
<1>7. CASE UNCHANGED http
      BY <1>7 DEF http
<1>8. QED
      BY <1>1, <1>2, <1>3, <1>4, <1>5, <1>6, <1>7 DEF Http!Next, Http!Step

\* Promise and handshakes stay of the same time
LEMMA HttpCurrentStep ==
    ASSUME HttpValues, Http!TypeOK, HttpCurrent, HttpAwaited, Http!Next \/ UNCHANGED http
    PROVE  HttpCurrent'
<1> USE DEF Http!TypeOK, HttpValues, Http!Epochs, HttpCurrent
<1>1. ASSUME NEW t \in HttpCalls, Http!CallTool(t) PROVE HttpCurrent'
      BY <1>1 DEF Http!CallTool, Http!Open, Http!Join, Http!Kept
<1>2. ASSUME NEW e \in Http!Epochs, Http!Initialized(e) PROVE HttpCurrent'
      BY <1>2 DEF Http!Initialized
<1>3. ASSUME NEW e \in Http!Epochs, Http!Notified(e) PROVE HttpCurrent'
      BY <1>3 DEF Http!Notified
<1>4. ASSUME NEW t \in HttpCalls, Http!Answered(t) PROVE HttpCurrent'
      BY <1>4 DEF Http!Answered
<1>5. CASE Http!close
      BY <1>5 DEF Http!close
<1>6. CASE Http!Forget \/ UNCHANGED http
      BY <1>6 DEF Http!Forget, http
<1>7. QED
      BY <1>1, <1>2, <1>3, <1>4, <1>5, <1>6 DEF Http!Next, Http!Step

\* A call that asks has its handshake behind it, and no handshake is taken back
LEMMA HttpAwaitedStep ==
    ASSUME HttpValues, Http!TypeOK, HttpCurrent, HttpAwaited, Http!Next \/ UNCHANGED http
    PROVE  HttpAwaited'
<1> USE DEF Http!TypeOK, HttpValues, Http!Epochs, HttpAwaited
<1>1. ASSUME NEW t \in HttpCalls, Http!CallTool(t) PROVE HttpAwaited'
  <2>1. CASE Http!Open(t)
    <3>1. httpHand[httpCloses + 1] = "none"
          BY <2>1 DEF Http!Open, Http!Kept, HttpCurrent
    <3>2. QED
          BY <1>1, <2>1, <3>1 DEF Http!CallTool, Http!Open
  <2>2. CASE Http!Join(t)
    <3>1. epoch \in Http!Epochs /\ httpHand[epoch] # "none" /\ httpHand' = httpHand
          /\ awaits' = [awaits EXCEPT ![t] = epoch]
          BY <2>2 DEF Http!Join, Http!Kept, HttpCurrent
    <3>2. CASE httpHand[epoch] = "ok"
          BY <1>1, <2>2, <3>1, <3>2 DEF Http!CallTool, Http!Join, Http!Kept, Http!Post
    <3>3. CASE httpHand[epoch] = "failed"
          BY <1>1, <2>2, <3>1, <3>3 DEF Http!CallTool, Http!Join, Http!Kept, Http!Fail
    <3>4. CASE httpHand[epoch] \in {"initialize", "notify"}
          BY <1>1, <2>2, <3>1, <3>4 DEF Http!CallTool, Http!Join, Http!Kept
    <3>5. QED
          BY <3>1, <3>2, <3>3, <3>4
  <2>3. QED
        BY <1>1, <2>1, <2>2 DEF Http!CallTool
<1>2. ASSUME NEW e \in Http!Epochs, Http!Initialized(e) PROVE HttpAwaited'
      BY <1>2 DEF Http!Initialized, Http!Fail, Http!Shaking
<1>3. ASSUME NEW e \in Http!Epochs, Http!Notified(e) PROVE HttpAwaited'
      BY <1>3 DEF Http!Notified, Http!Post, Http!Fail, Http!Shaking
<1>4. ASSUME NEW t \in HttpCalls, Http!Answered(t) PROVE HttpAwaited'
      BY <1>4 DEF Http!Answered
<1>5. CASE Http!close \/ Http!Forget \/ UNCHANGED http
      BY <1>5 DEF Http!close, Http!Forget, http
<1>6. QED
      BY <1>1, <1>2, <1>3, <1>4, <1>5 DEF Http!Next, Http!Step

\* A response names the session of its handshake, unless it crossed a close
LEMMA HttpNamedStep ==
    ASSUME HttpValues, Http!TypeOK, HttpCurrent, HttpAwaited, HttpNamed, Http!Next
             \/ UNCHANGED http
    PROVE  HttpNamed'
<1> USE DEF Http!TypeOK, HttpValues, Http!Epochs, HttpNamed
<1>1. ASSUME NEW t \in HttpCalls, Http!CallTool(t) PROVE HttpNamed'
  <2>1. CASE Http!Open(t)
    <3>1. httpHand[httpCloses + 1] = "none" /\ epoch = None
          BY <2>1 DEF Http!Open, Http!Kept, HttpCurrent
    <3>2. QED
          BY <1>1, <2>1, <3>1 DEF Http!CallTool, Http!Open, HttpAwaited
  <2>2. CASE Http!Join(t)
        BY <1>1, <2>2 DEF Http!CallTool, Http!Join, Http!Kept, Http!Post, Http!Fail
  <2>3. QED
        BY <1>1, <2>1, <2>2 DEF Http!CallTool
<1>2. ASSUME NEW e \in Http!Epochs, Http!Initialized(e) PROVE HttpNamed'
  <2>1. ASSUME ~crossed' PROVE ~crossed /\ e = epoch
        BY <1>2, <2>1 DEF Http!Initialized
  <2>2. \A t \in HttpCalls : httpTool'[t] = "asking" => httpTool[t] = "asking"
        BY <1>2 DEF Http!Initialized, Http!Fail
  <2>3. QED
        BY <1>2, <2>1, <2>2 DEF Http!Initialized, Http!Fail
<1>3. ASSUME NEW e \in Http!Epochs, Http!Notified(e) PROVE HttpNamed'
  <2>1. ASSUME ~crossed' PROVE ~crossed /\ e = epoch /\ session = e /\ epoch # None
        BY <1>3, <2>1 DEF Http!Notified
  <2>2. ASSUME NEW t \in HttpCalls, ~crossed', httpTool'[t] = "asking"
        PROVE  carried'[t] = awaits'[t]
        BY <1>3, <2>1, <2>2 DEF Http!Notified, Http!Post, Http!Fail, Http!Shaking
  <2>3. QED
        BY <1>3, <2>1, <2>2 DEF Http!Notified
<1>4. ASSUME NEW t \in HttpCalls, Http!Answered(t) PROVE HttpNamed'
      BY <1>4 DEF Http!Answered
<1>5. CASE Http!close
      BY <1>5 DEF Http!close
<1>6. CASE Http!Forget \/ UNCHANGED http
      BY <1>6 DEF Http!Forget, http
<1>7. QED
      BY <1>1, <1>2, <1>3, <1>4, <1>5, <1>6 DEF Http!Next, Http!Step

\* The client starts so
LEMMA HttpInit == ASSUME HttpValues, Http!Init PROVE HttpIInv
<1>1. httpCloses + 1 \in Http!Epochs /\ httpCloses + 1 = 1
      BY DEF Http!Init, HttpValues, Http!Epochs
<1>2. Http!TypeOK
  <2>1. /\ httpTool \in [HttpCalls -> {"new", "shaking", "asking", "done", "failed"}]
        /\ awaits \in [HttpCalls -> Http!Epochs \cup {None}]
             /\ carried \in [HttpCalls -> Http!Epochs \cup {None}]
        /\ httpHand \in [Http!Epochs -> {"none", "initialize", "notify", "ok", "failed"}]
        BY DEF Http!Init
  <2>2. /\ epoch \in Http!Epochs \cup {None} /\ session \in Http!Epochs \cup {None}
        /\ alive \subseteq Http!Epochs /\ crossed \in BOOLEAN
        BY DEF Http!Init
  <2>3. posts \in Nat /\ httpCloses \in 0..HttpCloses /\ forgets \in 0..HttpForgets
        BY DEF Http!Init, HttpValues
  <2>4. QED
        BY <2>1, <2>2, <2>3 DEF Http!TypeOK
<1>3. HttpCurrent
      BY <1>1 DEF Http!Init, HttpCurrent
<1>4. HttpAwaited /\ HttpNamed
      BY DEF Http!Init, HttpAwaited, HttpNamed
<1>5. QED
      BY <1>2, <1>3, <1>4 DEF HttpIInv

\* A step of a call, a close, or a restart of the server keeps it
LEMMA HttpStepLemma == ASSUME HttpValues, HttpIInv, Http!Next \/ UNCHANGED http PROVE HttpIInv'
<1>1. Http!TypeOK /\ HttpCurrent /\ HttpAwaited /\ HttpNamed
      BY DEF HttpIInv
<1>2. Http!TypeOK'
      BY <1>1, HttpTypes
<1>3. HttpCurrent'
      BY <1>1, HttpCurrentStep
<1>4. HttpAwaited'
      BY <1>1, HttpAwaitedStep
<1>5. HttpNamed'
      BY <1>1, HttpNamedStep
<1>6. QED
      BY <1>2, <1>3, <1>4, <1>5 DEF HttpIInv

\* It holds what the runs check
LEMMA HttpInvLemma == ASSUME HttpValues, HttpIInv PROVE Http!HttpInv
<1>1. Http!HandshakeFirst
      BY DEF HttpIInv, Http!TypeOK, HttpCurrent, HttpAwaited, Http!HandshakeFirst
<1>2. Http!OwnSession /\ Http!SessionOfEpoch
      BY DEF HttpIInv, HttpNamed, Http!OwnSession, Http!SessionOfEpoch
<1>3. QED
      BY <1>1, <1>2 DEF HttpIInv, Http!HttpInv

-----------------------------------------------------------------------------
(* The enrichment of boards *)

EnrichValues == CacheTicks \in Nat /\ LookupLimit \in Nat /\ CacheTtl \in Nat
  /\ None \notin Enrich!Entry

\* Where an issue of a board is: waiting, looked up, or answered for
EnrichAsked(b, i) == i \in misses[b] \/ \E w \in worker[b] : w.issue = i

\* What is cached or found is of its own brain, and no clock runs ahead
EnrichOwn ==
    /\ \A b \in Boards : started[b] <= now
    /\ \A k \in Enrich!Brains, i \in BoardIssues :
         cache[<<k, i>>] # None => cache[<<k, i>>].value \in {None, k}
    /\ \A b \in Boards : \A w \in worker[b] : w.found \in {None, BrainOf[b]}

\* Every issue of a board that runs is at one place
EnrichPlaces ==
    \A b \in Boards :
       /\ IsFiniteSet(worker[b]) /\ Cardinality(worker[b]) <= LookupLimit
       /\ phase[b] = "new" => worker[b] = {} /\ misses[b] = {}
       /\ phase[b] = "done" => worker[b] = {} /\ misses[b] = {}
       /\ \A v, w \in worker[b] : v.issue = w.issue => v = w
       /\ \A w \in worker[b] : w.issue \notin misses[b]
       /\ \A i \in BoardIssues : EnrichAsked(b, i) => out[b][i] = None /\ i \notin blank[b]
       /\ phase[b] # "new" =>
            \A i \in BoardIssues : ~EnrichAsked(b, i) => (out[b][i] = None <=> i \in blank[b])

EnrichIInv == Enrich!TypeOK /\ Enrich!FreshAndOwn /\ EnrichOwn /\ EnrichPlaces

\* What a part counts is what FiniteSets counts
LEMMA EnrichCount == ASSUME NEW S PROVE Enrich!Cardinality(S) = Cardinality(S)
BY DEF Cardinality, Enrich!Cardinality

\* What the runs check
LEMMA EnrichInvLemma == ASSUME EnrichIInv PROVE Enrich!EnrichmentInv
<1>1. Enrich!EveryIssueOnce
  <2>1. SUFFICES ASSUME NEW b \in Boards
                 PROVE  /\ Cardinality(worker[b]) <= LookupLimit
                        /\ phase[b] = "done" =>
                             \A i \in BoardIssues : (out[b][i] = None) <=> (i \in blank[b])
        BY EnrichCount DEF Enrich!EveryIssueOnce
  <2>2. phase[b] = "done" => \A i \in BoardIssues : ~EnrichAsked(b, i)
        BY DEF EnrichIInv, EnrichPlaces, EnrichAsked
  <2>3. QED
        BY <2>2 DEF EnrichIInv, EnrichPlaces
<1>2. QED
      BY <1>1 DEF EnrichIInv, Enrich!EnrichmentInv

\* The enrichment starts so
LEMMA EnrichInit == ASSUME EnrichValues, Enrich!Init PROVE EnrichIInv
<1>1. Enrich!TypeOK
  <2>1. 0 \in 0..CacheTicks
        BY DEF EnrichValues
  <2>2. QED
        BY <2>1 DEF Enrich!Init, Enrich!TypeOK
<1>2. Enrich!FreshAndOwn /\ EnrichOwn
      BY DEF Enrich!Init, Enrich!FreshAndOwn, EnrichOwn, EnrichValues
<1>3. EnrichPlaces
      BY FS_EmptySet DEF Enrich!Init, EnrichPlaces, EnrichAsked, EnrichValues
<1>4. QED
      BY <1>1, <1>2, <1>3 DEF EnrichIInv

\* A call of the board, a worker, an answer or the clock keeps it
LEMMA EnrichStep ==
    ASSUME EnrichValues, EnrichIInv, Enrich!Next \/ UNCHANGED enrich
    PROVE  EnrichIInv'
<1>1. Enrich!TypeOK /\ Enrich!FreshAndOwn /\ EnrichOwn /\ EnrichPlaces
      BY DEF EnrichIInv
<1>2. ASSUME NEW b \in Boards, Enrich!FetchForBoard(b) PROVE EnrichIInv'
  <2> DEFINE brain == BrainOf[b]
             hit == [i \in BoardIssues |-> Enrich!readCache(brain, i)]
  <2>1. brain \in Enrich!Brains /\ phase[b] = "new"
        BY <1>2 DEF Enrich!Brains, Enrich!FetchForBoard
  <2>2. ASSUME NEW i \in BoardIssues
        PROVE  /\ hit[i] \in Enrich!Entry \cup {None}
               /\ hit[i] # None => /\ hit[i].value \in {None, brain}
                                        /\ hit[i].at \in 0..CacheTicks
                                   /\ now < hit[i].at + CacheTtl
    <3>1. PICK e \in Enrich!Entry \cup {None} : e = cache[<<brain, i>>]
          BY <1>1, <2>1 DEF Enrich!TypeOK
    <3>2. e # None => e.value \in {None, brain} /\ e.at \in 0..CacheTicks
          BY <1>1, <2>1, <3>1 DEF EnrichOwn, Enrich!Entry
    <3>3. hit[i] = IF CacheTtl = 0 \/ e = None \/ now >= e.at + CacheTtl THEN None ELSE e
          BY <3>1 DEF Enrich!readCache, Enrich!cacheKey
    <3>4. hit[i] # None => hit[i] = e /\ e # None /\ ~(now >= e.at + CacheTtl)
          BY <3>3
    <3>5. now \in Nat /\ CacheTtl \in Nat /\ (e # None => e.at + CacheTtl \in Nat)
          BY <1>1, <3>2 DEF Enrich!TypeOK, EnrichValues
    <3>6. QED
          BY <3>1, <3>2, <3>4, <3>5
  <2>3. /\ phase' = [phase EXCEPT ![b] = "running"] /\ started' = [started EXCEPT ![b] = now]
        /\ misses' = [misses EXCEPT ![b] = {i \in BoardIssues : hit[i] = None}]
        /\ out' = [out EXCEPT ![b] = [i \in BoardIssues |->
                     IF hit[i] = None \/ hit[i].value = None THEN None ELSE hit[i]]]
        /\ blank' = [blank EXCEPT ![b] = {i \in BoardIssues : hit[i] # None
             /\ hit[i].value = None}]
        /\ cache' = [k \in Enrich!Brains \X BoardIssues |->
                       IF k[1] = brain /\ CacheTtl > 0 THEN hit[k[2]] ELSE cache[k]]
        /\ UNCHANGED <<now, worker>>
        BY <1>2 DEF Enrich!FetchForBoard
  <2> HIDE DEF hit, brain
  <2>4. /\ misses' \in [Boards -> SUBSET BoardIssues]
             /\ misses'[b] = {i \in BoardIssues : hit[i] = None}
        /\ blank' \in [Boards -> SUBSET BoardIssues]
        /\ blank'[b] = {i \in BoardIssues : hit[i] # None /\ hit[i].value = None}
        /\ \A o \in Boards \ {b} : misses'[o] = misses[o] /\ blank'[o] = blank[o]
        BY <1>1, <2>3 DEF Enrich!TypeOK
  <2>5. /\ out' \in [Boards -> [BoardIssues -> Enrich!Entry \cup {None}]]
        /\ \A i \in BoardIssues :
             out'[b][i] = IF hit[i] = None \/ hit[i].value = None THEN None ELSE hit[i]
        /\ \A o \in Boards \ {b} : out'[o] = out[o]
        BY <1>1, <2>2, <2>3 DEF Enrich!TypeOK
  <2>6. /\ cache' \in [Enrich!Brains \X BoardIssues -> Enrich!Entry \cup {None}]
        /\ \A k \in Enrich!Brains, i \in BoardIssues :
             cache'[<<k, i>>] = IF k = brain /\ CacheTtl > 0 THEN hit[i] ELSE cache[<<k, i>>]
        BY <1>1, <2>2, <2>3 DEF Enrich!TypeOK
  <2>7. /\ phase' \in [Boards -> {"new", "running", "done"}] /\ phase'[b] = "running"
        /\ started' \in [Boards -> 0..CacheTicks] /\ started'[b] = now
        /\ \A o \in Boards \ {b} : phase'[o] = phase[o] /\ started'[o] = started[o]
        BY <1>1, <2>3 DEF Enrich!TypeOK
  <2>8. Enrich!TypeOK'
        BY <1>1, <2>3, <2>4, <2>5, <2>6, <2>7 DEF Enrich!TypeOK
  <2>9. Enrich!FreshAndOwn'
    <3>1. SUFFICES ASSUME NEW o \in Boards, NEW i \in BoardIssues, out'[o][i] # None
                   PROVE  /\ out'[o][i].value = BrainOf[o]
                          /\ \/ out'[o][i].at >= started'[o]
                             \/ started'[o] - out'[o][i].at < CacheTtl
          BY DEF Enrich!FreshAndOwn
    <3>2. CASE o = b
          BY <1>1, <2>2, <2>5, <2>7, <3>1, <3>2 DEF Enrich!TypeOK, EnrichValues, brain
    <3>3. CASE o # b
          BY <1>1, <2>5, <2>7, <3>1, <3>3 DEF Enrich!FreshAndOwn
    <3>4. QED
          BY <3>2, <3>3
  <2>10. EnrichOwn'
    <3>1. \A o \in Boards : started'[o] <= now'
          BY <1>1, <2>3, <2>7 DEF EnrichOwn, Enrich!TypeOK
    <3>2. \A k \in Enrich!Brains, i \in BoardIssues : cache'[<<k, i>>] # None
            => cache'[<<k, i>>].value \in {None, k}
          BY <1>1, <2>2, <2>6 DEF EnrichOwn
    <3>3. QED
          BY <1>1, <2>3, <3>1, <3>2 DEF EnrichOwn
  <2>11. EnrichPlaces'
    <3>1. SUFFICES ASSUME NEW o \in Boards
                   PROVE  /\ IsFiniteSet(worker'[o]) /\ Cardinality(worker'[o]) <= LookupLimit
                          /\ phase'[o] = "new" => worker'[o] = {} /\ misses'[o] = {}
                          /\ phase'[o] = "done" => worker'[o] = {} /\ misses'[o] = {}
                          /\ \A v, w \in worker'[o] : v.issue = w.issue => v = w
                          /\ \A w \in worker'[o] : w.issue \notin misses'[o]
                          /\ \A i \in BoardIssues : EnrichAsked(o, i)'
                               => out'[o][i] = None /\ i \notin blank'[o]
                          /\ phase'[o] # "new" =>
                               \A i \in BoardIssues : ~EnrichAsked(o, i)'
                                 => (out'[o][i] = None <=> i \in blank'[o])
          BY DEF EnrichPlaces
    <3>2. CASE o = b
      <4>1. worker'[b] = {} /\ \A i \in BoardIssues : EnrichAsked(b, i)' <=> hit[i] = None
            BY <1>1, <2>1, <2>3, <2>4 DEF EnrichPlaces, EnrichAsked
      <4>2. QED
            BY <1>1, <2>4, <2>5, <2>7, <2>3, <3>2, <4>1 DEF EnrichPlaces
    <3>3. CASE o # b
          BY <1>1, <2>3, <2>4, <2>5, <2>7, <3>3 DEF EnrichPlaces, EnrichAsked
    <3>4. QED
          BY <3>2, <3>3
  <2>12. QED
        BY <2>8, <2>9, <2>10, <2>11 DEF EnrichIInv
<1>3. ASSUME NEW b \in Boards, Enrich!Take(b) PROVE EnrichIInv'
  <2>1. PICK i \in misses[b] :
          /\ misses' = [misses EXCEPT ![b] = @ \ {i}]
          /\ worker' = [worker EXCEPT ![b] =
                         @ \cup {[issue |-> i, found |-> None, answered |-> FALSE]}]
        BY <1>3, EnrichCount DEF Enrich!Take
  <2>2. /\ phase[b] = "running" /\ Cardinality(worker[b]) < LookupLimit /\ i \in BoardIssues
        /\ UNCHANGED <<now, cache, phase, started, out, blank>>
        BY <1>1, <1>3, EnrichCount DEF Enrich!Take, Enrich!Free, Enrich!TypeOK
  <2> DEFINE w == [issue |-> i, found |-> None, answered |-> FALSE]
  <2>3. /\ w \in [issue : BoardIssues, found : Enrich!Brains \cup {None}, answered : BOOLEAN]
        /\ w.issue = i /\ w.found = None
        BY <2>2
  <2> HIDE DEF w
  <2>4. worker' = [worker EXCEPT ![b] = @ \cup {w}]
        BY <2>1 DEF w
  <2>5. /\ worker' \in [Boards -> SUBSET [issue : BoardIssues, found : Enrich!Brains \cup {None},
             answered : BOOLEAN]]
        /\ worker'[b] = worker[b] \cup {w} /\ \A o \in Boards \ {b} : worker'[o] = worker[o]
        /\ misses' \in [Boards -> SUBSET BoardIssues]
        /\ misses'[b] = misses[b] \ {i} /\ \A o \in Boards \ {b} : misses'[o] = misses[o]
        BY <1>1, <2>1, <2>3, <2>4 DEF Enrich!TypeOK
  <2>6. Enrich!TypeOK'
        BY <1>1, <2>2, <2>5 DEF Enrich!TypeOK
  <2>7. Enrich!FreshAndOwn'
        BY <1>1, <2>2 DEF Enrich!FreshAndOwn
  <2>8. EnrichOwn'
        BY <1>1, <2>2, <2>3, <2>5 DEF EnrichOwn
  <2>9. IsFiniteSet(worker'[b]) /\ Cardinality(worker'[b]) <= LookupLimit
    <3>1. IsFiniteSet(worker[b])
          BY <1>1 DEF EnrichPlaces
    <3>2. Cardinality(worker[b]) \in Nat
          BY <3>1, FS_CardinalityType
    <3>3. /\ IsFiniteSet(worker[b] \cup {w})
          /\ \/ Cardinality(worker[b] \cup {w}) = Cardinality(worker[b])
             \/ Cardinality(worker[b] \cup {w}) = Cardinality(worker[b]) + 1
          BY <3>1, FS_AddElement
    <3>4. QED
          BY <2>2, <2>5, <3>2, <3>3 DEF EnrichValues
  <2>10. EnrichPlaces'
    <3>1. ASSUME NEW o \in Boards, o # b
          PROVE  /\ worker'[o] = worker[o] /\ misses'[o] = misses[o]
                 /\ \A j \in BoardIssues : EnrichAsked(o, j)' <=> EnrichAsked(o, j)
          BY <2>5, <3>1 DEF EnrichAsked
    <3>2. \A j \in BoardIssues : EnrichAsked(b, j)' <=> EnrichAsked(b, j)
          BY <2>3, <2>5, <2>2 DEF EnrichAsked
    <3>3. \A v \in worker[b] : v.issue # i
          BY <1>1 DEF EnrichPlaces
    <3>4. /\ \A v, u \in worker'[b] : v.issue = u.issue => v = u
          /\ \A v \in worker'[b] : v.issue \notin misses'[b]
          BY <1>1, <2>3, <2>5, <3>3 DEF EnrichPlaces
    <3>5. QED
          BY <1>1, <2>2, <2>9, <3>1, <3>2, <3>4 DEF EnrichPlaces
  <2>11. QED
        BY <2>6, <2>7, <2>8, <2>10 DEF EnrichIInv
<1>4. ASSUME NEW b \in Boards, NEW w \in worker[b], Enrich!Answer(b, w) PROVE EnrichIInv'
  <2>1. PICK found \in {None, BrainOf[b]} :
          worker' = [worker EXCEPT ![b] = (@ \ {w}) \cup
                       {[w EXCEPT !.found = found, !.answered = TRUE]}]
        BY <1>4 DEF Enrich!Answer
  <2>2. UNCHANGED <<now, cache, phase, started, misses, out, blank>>
        BY <1>4 DEF Enrich!Answer
  <2> DEFINE u == [w EXCEPT !.found = found, !.answered = TRUE]
  <2>3. /\ u \in [issue : BoardIssues, found : Enrich!Brains \cup {None}, answered : BOOLEAN]
        /\ u.issue = w.issue /\ u.found = found
    <3>1. w \in [issue : BoardIssues, found : Enrich!Brains \cup {None}, answered : BOOLEAN]
          BY <1>1 DEF Enrich!TypeOK
    <3>2. found \in Enrich!Brains \cup {None}
          BY DEF Enrich!Brains
    <3>3. QED
          BY <3>1, <3>2
  <2> HIDE DEF u
  <2>4. worker' = [worker EXCEPT ![b] = (@ \ {w}) \cup {u}]
        BY <2>1 DEF u
  <2>5. /\ worker' \in [Boards -> SUBSET [issue : BoardIssues, found : Enrich!Brains \cup {None},
             answered : BOOLEAN]]
        /\ worker'[b] = (worker[b] \ {w}) \cup {u}
             /\ \A o \in Boards \ {b} : worker'[o] = worker[o]
        BY <1>1, <2>3, <2>4 DEF Enrich!TypeOK
  <2>6. Enrich!TypeOK'
        BY <1>1, <2>2, <2>5 DEF Enrich!TypeOK
  <2>7. Enrich!FreshAndOwn'
        BY <1>1, <2>2 DEF Enrich!FreshAndOwn
  <2>8. EnrichOwn'
        BY <1>1, <2>2, <2>3, <2>5 DEF EnrichOwn
  <2>9. IsFiniteSet(worker'[b]) /\ Cardinality(worker'[b]) <= LookupLimit
    <3>1. IsFiniteSet(worker[b]) /\ Cardinality(worker[b]) <= LookupLimit
          BY <1>1 DEF EnrichPlaces
    <3>2. /\ IsFiniteSet(worker[b] \ {w})
               /\ Cardinality(worker[b] \ {w}) = Cardinality(worker[b]) - 1
          BY <3>1, FS_RemoveElement
    <3>3. Cardinality(worker[b]) \in Nat /\ Cardinality(worker[b] \ {w}) \in Nat
          BY <3>1, <3>2, FS_CardinalityType
    <3>4. /\ IsFiniteSet((worker[b] \ {w}) \cup {u})
          /\ \/ Cardinality((worker[b] \ {w}) \cup {u}) = Cardinality(worker[b] \ {w})
             \/ Cardinality((worker[b] \ {w}) \cup {u}) = Cardinality(worker[b] \ {w}) + 1
          BY <3>2, FS_AddElement
    <3>5. QED
          BY <2>5, <3>1, <3>2, <3>3, <3>4 DEF EnrichValues
  <2>10. EnrichPlaces'
    <3>1. ASSUME NEW o \in Boards, o # b
          PROVE  worker'[o] = worker[o] /\ \A j \in BoardIssues : EnrichAsked(o, j)'
                   <=> EnrichAsked(o, j)
          BY <2>2, <2>5, <3>1 DEF EnrichAsked
    <3>2. \A j \in BoardIssues : EnrichAsked(b, j)' <=> EnrichAsked(b, j)
          BY <2>3, <2>5, <2>2 DEF EnrichAsked
    <3>3. worker[b] # {} /\ \A v \in worker[b] : v.issue = w.issue => v = w
          BY <1>1 DEF EnrichPlaces
    <3>4. /\ \A v, x \in worker'[b] : v.issue = x.issue => v = x
          /\ \A v \in worker'[b] : v.issue \notin misses'[b]
          BY <1>1, <2>2, <2>3, <2>5, <3>3 DEF EnrichPlaces
    <3>5. QED
          BY <1>1, <2>2, <2>9, <3>1, <3>2, <3>3, <3>4 DEF EnrichPlaces
  <2>11. QED
        BY <2>6, <2>7, <2>8, <2>10 DEF EnrichIInv
<1>5. ASSUME NEW b \in Boards, NEW w \in worker[b], Enrich!Fetched(b, w) PROVE EnrichIInv'
  <2> DEFINE e == [value |-> w.found, at |-> now]
             i == w.issue
  <2>1. /\ worker' = [worker EXCEPT ![b] = @ \ {w}]
        /\ cache' = IF CacheTtl = 0 THEN cache ELSE [cache EXCEPT ![<<BrainOf[b], i>>] = e]
        /\ out' = IF w.found = None THEN out ELSE [out EXCEPT ![b][i] = e]
        /\ blank' = IF w.found = None THEN [blank EXCEPT ![b] = @ \cup {i}] ELSE blank
        /\ UNCHANGED <<now, phase, started, misses>>
        BY <1>5 DEF Enrich!Fetched, Enrich!cacheKey
  <2>2. /\ w \in [issue : BoardIssues, found : Enrich!Brains \cup {None}, answered : BOOLEAN]
        /\ i \in BoardIssues /\ BrainOf[b] \in Enrich!Brains /\ w.found \in {None, BrainOf[b]}
        BY <1>1 DEF Enrich!TypeOK, EnrichOwn, Enrich!Brains
  <2>3. e \in Enrich!Entry /\ e # None /\ e.value = w.found /\ e.at = now
        BY <1>1, <2>2 DEF Enrich!TypeOK, Enrich!Entry, EnrichValues
  <2> HIDE DEF e, i
  <2>4. /\ worker' \in [Boards -> SUBSET [issue : BoardIssues, found : Enrich!Brains \cup {None},
             answered : BOOLEAN]]
        /\ worker'[b] = worker[b] \ {w} /\ \A o \in Boards \ {b} : worker'[o] = worker[o]
        BY <1>1, <2>1 DEF Enrich!TypeOK
  <2>5. /\ cache' \in [Enrich!Brains \X BoardIssues -> Enrich!Entry \cup {None}]
        /\ \A k \in Enrich!Brains, j \in BoardIssues :
             cache'[<<k, j>>] = cache[<<k, j>>] \/ (k = BrainOf[b] /\ cache'[<<k, j>>] = e)
    <3>1. CASE CacheTtl = 0
          BY <1>1, <2>1, <3>1 DEF Enrich!TypeOK
    <3>2. CASE CacheTtl # 0
          BY <1>1, <2>1, <2>2, <2>3, <3>2 DEF Enrich!TypeOK
    <3>3. QED
          BY <3>1, <3>2
  <2>6. /\ out' \in [Boards -> [BoardIssues -> Enrich!Entry \cup {None}]]
        /\ out'[b][i] = IF w.found = None THEN out[b][i] ELSE e
        /\ \A j \in BoardIssues \ {i} : out'[b][j] = out[b][j]
        /\ \A o \in Boards \ {b} : out'[o] = out[o]
    <3>1. CASE w.found = None
          BY <1>1, <2>1, <3>1 DEF Enrich!TypeOK
    <3>2. CASE w.found # None
          BY <1>1, <2>1, <2>2, <2>3, <3>2 DEF Enrich!TypeOK
    <3>3. QED
          BY <3>1, <3>2
  <2>7. /\ blank' \in [Boards -> SUBSET BoardIssues]
        /\ blank'[b] = IF w.found = None THEN blank[b] \cup {i} ELSE blank[b]
        /\ \A o \in Boards \ {b} : blank'[o] = blank[o]
        BY <1>1, <2>1, <2>2 DEF Enrich!TypeOK
  <2>8. Enrich!TypeOK'
        BY <1>1, <2>1, <2>4, <2>5, <2>6, <2>7 DEF Enrich!TypeOK
  <2>9. Enrich!FreshAndOwn'
    <3>1. SUFFICES ASSUME NEW o \in Boards, NEW j \in BoardIssues, out'[o][j] # None
                   PROVE  /\ out'[o][j].value = BrainOf[o]
                          /\ \/ out'[o][j].at >= started'[o]
                             \/ started'[o] - out'[o][j].at < CacheTtl
          BY DEF Enrich!FreshAndOwn
    <3>2. CASE o = b /\ j = i /\ w.found # None
          BY <1>1, <2>1, <2>2, <2>3, <2>6, <3>2 DEF EnrichOwn, Enrich!TypeOK
    <3>3. CASE ~(o = b /\ j = i /\ w.found # None)
          BY <1>1, <2>1, <2>6, <3>1, <3>3 DEF Enrich!FreshAndOwn
    <3>4. QED
          BY <3>2, <3>3
  <2>10. EnrichOwn'
    <3>1. \A k \in Enrich!Brains, j \in BoardIssues : cache'[<<k, j>>] # None
            => cache'[<<k, j>>].value \in {None, k}
          BY <1>1, <2>2, <2>3, <2>5 DEF EnrichOwn
    <3>2. QED
          BY <1>1, <2>1, <2>4, <3>1 DEF EnrichOwn
  <2>11. IsFiniteSet(worker'[b]) /\ Cardinality(worker'[b]) <= LookupLimit
    <3>1. IsFiniteSet(worker[b]) /\ Cardinality(worker[b]) <= LookupLimit
          BY <1>1 DEF EnrichPlaces
    <3>2. /\ IsFiniteSet(worker[b] \ {w})
               /\ Cardinality(worker[b] \ {w}) = Cardinality(worker[b]) - 1
          BY <3>1, FS_RemoveElement
    <3>3. Cardinality(worker[b]) \in Nat
          BY <3>1, FS_CardinalityType
    <3>4. QED
          BY <2>4, <3>1, <3>2, <3>3 DEF EnrichValues
  <2>12. EnrichPlaces'
    <3>1. ASSUME NEW o \in Boards, o # b
          PROVE  worker'[o] = worker[o] /\ \A j \in BoardIssues : EnrichAsked(o, j)'
                   <=> EnrichAsked(o, j)
          BY <2>1, <2>4, <3>1 DEF EnrichAsked
    <3>2. /\ worker[b] # {} /\ \A v \in worker[b] : v.issue = i => v = w
          /\ EnrichAsked(b, i) /\ i \notin misses[b]
          BY <1>1 DEF EnrichPlaces, EnrichAsked, i
    <3>3. \A j \in BoardIssues : EnrichAsked(b, j)' <=> EnrichAsked(b, j) /\ j # i
          BY <2>1, <2>4, <3>2 DEF EnrichAsked, i
    <3>4. /\ \A v, x \in worker'[b] : v.issue = x.issue => v = x
          /\ \A v \in worker'[b] : v.issue \notin misses'[b]
          BY <1>1, <2>1, <2>4 DEF EnrichPlaces
    <3>5. out[b][i] = None /\ i \notin blank[b] /\ phase[b] = "running"
          BY <1>1, <2>2, <3>2 DEF EnrichPlaces, Enrich!TypeOK, i
    <3>6. /\ \A j \in BoardIssues : EnrichAsked(b, j)' => out'[b][j] = None /\ j \notin blank'[b]
          /\ \A j \in BoardIssues : ~EnrichAsked(b, j)' => (out'[b][j] = None <=> j \in blank'[b])
          BY <1>1, <2>2, <2>3, <2>6, <2>7, <3>3, <3>5 DEF EnrichPlaces
    <3>7. ASSUME NEW o \in Boards
          PROVE  /\ phase'[o] = phase[o] /\ misses'[o] = misses[o]
                 /\ o # b => out'[o] = out[o] /\ blank'[o] = blank[o]
          BY <2>1, <2>6, <2>7
    <3>8. QED
          BY <1>1, <2>11, <3>1, <3>4, <3>5, <3>6, <3>7 DEF EnrichPlaces
  <2>13. QED
        BY <2>8, <2>9, <2>10, <2>12 DEF EnrichIInv
<1>6. ASSUME NEW b \in Boards, Enrich!Done(b) PROVE EnrichIInv'
  <2>1. /\ misses[b] = {} /\ worker[b] = {} /\ phase' = [phase EXCEPT ![b] = "done"]
        /\ UNCHANGED <<now, cache, started, misses, worker, out, blank>>
        BY <1>6 DEF Enrich!Done
  <2>2. Enrich!TypeOK'
        BY <1>1, <2>1 DEF Enrich!TypeOK
  <2>3. Enrich!FreshAndOwn' /\ EnrichOwn'
        BY <1>1, <2>1 DEF Enrich!FreshAndOwn, EnrichOwn
  <2>4. EnrichPlaces'
    <3>1. /\ phase[b] # "new" /\ phase'[b] = "done"
               /\ \A o \in Boards \ {b} : phase'[o] = phase[o]
          BY <1>1, <1>6, <2>1 DEF Enrich!Done, Enrich!TypeOK
    <3>2. QED
          BY <1>1, <2>1, <3>1 DEF EnrichPlaces, EnrichAsked
  <2>5. QED
        BY <2>2, <2>3, <2>4 DEF EnrichIInv
<1>7. CASE Enrich!Tick
  <2>1. /\ now' = now + 1 /\ now' \in 0..CacheTicks
        /\ UNCHANGED <<cache, phase, started, misses, worker, out, blank>>
        BY <1>1, <1>7 DEF Enrich!Tick, Enrich!TypeOK, EnrichValues
  <2>2. Enrich!TypeOK' /\ Enrich!FreshAndOwn'
        BY <1>1, <2>1 DEF Enrich!TypeOK, Enrich!FreshAndOwn
  <2>3. EnrichOwn'
        BY <1>1, <2>1 DEF EnrichOwn, Enrich!TypeOK
  <2>4. EnrichPlaces'
        BY <1>1, <2>1 DEF EnrichPlaces, EnrichAsked
  <2>5. QED
        BY <2>2, <2>3, <2>4 DEF EnrichIInv
<1>8. CASE UNCHANGED enrich
      BY <1>1, <1>8 DEF enrich, EnrichIInv, Enrich!TypeOK, Enrich!FreshAndOwn, EnrichOwn,
           EnrichPlaces, EnrichAsked
<1>9. QED
      BY <1>2, <1>3, <1>4, <1>5, <1>6, <1>7, <1>8 DEF Enrich!Next

-----------------------------------------------------------------------------
(* The rules and listeners of a move *)

PolicyValues == /\ IsFiniteSet(Rules) /\ IsFiniteSet(Listeners) /\ RuleChanges \in Nat
                /\ \A r \in Rules : RuleMatches[r].action \in {"enter", "exit"}

\* Where a move is, what it has run and has still to run
PolicyRuns(m) ==
    /\ Policy!IsInjective(ran[m]) /\ Policy!IsInjective(todo[m])
         /\ Policy!ToSet(todo[m]) \cap Policy!ToSet(ran[m]) = {}
    /\ \A k \in Policy!Leavers(ran[m]), j \in Policy!Enterers(ran[m]) : k < j
    /\ movePc[m] = "new" => todo[m] = <<>> /\ ran[m] = <<>> /\ owed[m] = {}
    /\ movePc[m] = "exit" => Policy!Enterers(todo[m]) = {} /\ Policy!Enterers(ran[m]) = {}
    /\ movePc[m] = "enter" => Policy!Leavers(todo[m]) = {}
    /\ movePc[m] \in {"done", "threw"} => todo[m] = <<>>
    /\ owed[m] \subseteq Policy!ToSet(todo[m]) \cup Policy!ToSet(ran[m])

\* Who was there when it began, and who heard of it
PolicyHears(m) ==
    /\ movePc[m] = "new" => attending[m] = {}
    /\ movePc[m] \in {"exit", "enter"} => attending[m] \subseteq Policy!ToSet(bus)
    /\ \A l \in Listeners : /\ movePc[m] # "done" => heard[l][m] = 0
                            /\ movePc[m] = "done" => heard[l][m] \in {0, 1}
                            /\ movePc[m] = "done" /\ l \in attending[m] => heard[l][m] = 1

\* What was written of it
PolicyWrites(m) ==
    m \in written =>
       /\ Policy!Accepted(m) /\ Policy!Changed(m) /\ movePc[m] # "new"
       /\ movePc[m] = "threw" => \/ NoteMoves[m].type = "epic" /\ Policy!Enterers(ran[m]) = {}
                                 \/ ~NoteMoves[m].parses /\ ran[m] = <<>>

PolicyOf(m) == PolicyRuns(m) /\ PolicyHears(m) /\ PolicyWrites(m)

PolicyIInv == Policy!TypeOK /\ Policy!IsInjective(rules) /\ \A m \in Moves : PolicyOf(m)

\* Every list of rules or listeners can be filtered: no step of a move or of the lists of
\* rules and listeners is disabled for want of what a filter returns
LEMMA PolicyFilteredExists ==
    ASSUME NEW X PROVE \A s \in Seq(X) : \A S \in SUBSET Policy!ToSet(s) : Policy!Filtered(s, S) # {}
<1>. DEFINE Fails(s, S) == S \subseteq Policy!ToSet(s) /\ Policy!Filtered(s, S) = {}
            T == {n \in Nat : \E s \in Seq(X) : Len(s) = n /\ \E S \in SUBSET Policy!ToSet(s) : Fails(s, S)}
<1>1. SUFFICES ASSUME T # {} PROVE FALSE
  <2>1. ASSUME NEW s \in Seq(X), NEW S \in SUBSET Policy!ToSet(s), Policy!Filtered(s, S) = {}
        PROVE  Len(s) \in T
        BY <2>1
  <2>2. QED
        BY <2>1
<1>2. PICK n \in T : \A k \in T : n <= k
      BY <1>1, LeastNumber
<1>3. PICK s \in Seq(X) : Len(s) = n /\ \E S \in SUBSET Policy!ToSet(s) : Fails(s, S)
      BY <1>2
<1>4. PICK S \in SUBSET Policy!ToSet(s) : Fails(s, S)
      BY <1>3
<1>5. n \in Nat \ {0}
  <2>1. SUFFICES ASSUME n = 0 PROVE FALSE
        BY <1>2
  <2>2. s = <<>> /\ Policy!ToSet(s) = {} /\ S = {}
        BY <2>1, <1>3 DEF Policy!ToSet
  <2>3. <<>> \in Policy!Filtered(<<>>, {})
    <3>1. <<>> \in [1..0 -> {}] /\ 0 \in 0..Len(<<>>)
          OBVIOUS
    <3>2. Policy!ToSet(<<>>) = {} /\ DOMAIN <<>> = {}
          BY DEF Policy!ToSet
    <3>3. QED
          BY <3>1, <3>2 DEF Policy!Filtered
  <2>4. QED
        BY <1>4, <2>2, <2>3
<1>. DEFINE t == SubSeq(s, 1, n - 1)
            R == S \cap Policy!ToSet(t)
<1>6. /\ t \in Seq(X) /\ Len(t) = n - 1 /\ \A k \in 1..n - 1 : t[k] = s[k]
      /\ DOMAIN t = 1..n - 1 /\ DOMAIN s = 1..n
      BY <1>3, <1>5
<1>7. Policy!ToSet(t) = {s[k] : k \in 1..n - 1} /\ Policy!ToSet(s) = {s[k] : k \in 1..n}
      BY <1>6 DEF Policy!ToSet
<1>. HIDE DEF t
<1>8. Policy!Filtered(t, R) # {}
  <2>1. n - 1 \notin T
        BY <1>2, <1>5
  <2>2. QED
        BY <2>1, <1>5, <1>6
<1>9. PICK q : q \in Policy!Filtered(t, R)
      BY <1>8
<1>. HIDE DEF T
<1>10. PICK m \in 0..n - 1 : q \in [1..m -> R]
      BY <1>6, <1>9 DEF Policy!Filtered
<1>11. /\ Policy!ToSet(q) = R /\ DOMAIN q = 1..m
       /\ \A j, k \in 1..m : j < k => \E a, b \in 1..n - 1 : a < b /\ s[a] = q[j] /\ s[b] = q[k]
  <2>1. DOMAIN q = 1..m
        BY <1>10
  <2>2. Policy!ToSet(q) = R
        BY <1>9 DEF Policy!Filtered
  <2>3. ASSUME NEW j \in 1..m, NEW k \in 1..m, j < k
        PROVE  \E a, b \in 1..n - 1 : a < b /\ s[a] = q[j] /\ s[b] = q[k]
    <3>0. \A i, l \in DOMAIN q : i < l => \E a, b \in DOMAIN t : a < b /\ t[a] = q[i] /\ t[b] = q[l]
          BY <1>9 DEF Policy!Filtered
    <3>1. PICK a, b \in DOMAIN t : a < b /\ t[a] = q[j] /\ t[b] = q[k]
          BY <2>1, <2>3, <3>0, <1>5, <1>10
    <3>2. a \in 1..n - 1 /\ b \in 1..n - 1 /\ t[a] = s[a] /\ t[b] = s[b]
          BY <3>1, <1>6
    <3>3. QED
          BY <3>1, <3>2
  <2>4. QED
        BY <2>1, <2>2, <2>3
<1>12. CASE S = R
  <2>1. m \in 0..n /\ q \in [1..m -> S]
        BY <1>10, <1>12, <1>5
  <2>2. ASSUME NEW j \in DOMAIN q, NEW k \in DOMAIN q, j < k
        PROVE  \E a, b \in DOMAIN s : a < b /\ s[a] = q[j] /\ s[b] = q[k]
    <3>1. PICK a, b \in 1..n - 1 : a < b /\ s[a] = q[j] /\ s[b] = q[k]
          BY <2>2, <1>11, <1>5, <1>10
    <3>2. a \in DOMAIN s /\ b \in DOMAIN s
          BY <3>1, <1>5, <1>6
    <3>3. QED
          BY <3>1, <3>2
  <2>3. q \in Policy!Filtered(s, S)
        BY <2>1, <2>2, <1>3, <1>11, <1>12 DEF Policy!Filtered
  <2>4. QED
        BY <2>3, <1>4
<1>13. CASE S # R
  <2>1. S = R \cup {s[n]}
        BY <1>7, <1>13, <1>4, <1>5
  <2>. DEFINE w == [k \in 1..m + 1 |-> IF k = m + 1 THEN s[n] ELSE q[k]]
  <2>2. m + 1 \in 0..n /\ w \in [1..m + 1 -> S]
        BY <1>10, <2>1, <1>5
  <2>3. Policy!ToSet(w) = S
    <3>1. Policy!ToSet(w) = {w[k] : k \in 1..m + 1} /\ Policy!ToSet(q) = {q[k] : k \in 1..m}
          BY <1>11 DEF Policy!ToSet
    <3>2. {w[k] : k \in 1..m + 1} = {q[k] : k \in 1..m} \cup {s[n]}
          BY <1>10
    <3>3. QED
          BY <3>1, <3>2, <2>1, <1>11
  <2>4. ASSUME NEW j \in 1..m + 1, NEW k \in 1..m + 1, j < k
        PROVE  \E a, b \in 1..n : a < b /\ s[a] = w[j] /\ s[b] = w[k]
    <3>1. CASE k # m + 1
      <4>1. j \in 1..m /\ k \in 1..m /\ w[j] = q[j] /\ w[k] = q[k]
            BY <3>1, <2>4, <1>10
      <4>2. PICK a, b \in 1..n - 1 : a < b /\ s[a] = q[j] /\ s[b] = q[k]
            BY <4>1, <2>4, <1>11
      <4>3. a \in 1..n /\ b \in 1..n
            BY <4>2, <1>5
      <4>4. s[a] = w[j] /\ s[b] = w[k]
            BY <4>1, <4>2
      <4>5. QED
            BY <4>2, <4>3, <4>4
    <3>2. CASE k = m + 1
      <4>1. j \in 1..m /\ w[j] = q[j] /\ w[k] = s[n]
            BY <3>2, <2>4, <1>10
      <4>2. q[j] \in R
            BY <4>1, <1>10
      <4>3. PICK a \in 1..n - 1 : s[a] = q[j]
            BY <4>2, <1>7
      <4>4. a < n /\ a \in 1..n /\ n \in 1..n
            BY <4>3, <1>5
      <4>5. QED
            BY <4>1, <4>3, <4>4
    <3>3. QED
          BY <3>1, <3>2
  <2>5. DOMAIN w = 1..m + 1
        OBVIOUS
  <2>. HIDE DEF w
  <2>6. ASSUME NEW j \in DOMAIN w, NEW k \in DOMAIN w, j < k
        PROVE  \E a, b \in DOMAIN s : a < b /\ s[a] = w[j] /\ s[b] = w[k]
    <3>1. j \in 1..m + 1 /\ k \in 1..m + 1
          BY <2>5
    <3>2. PICK a, b \in 1..n : a < b /\ s[a] = w[j] /\ s[b] = w[k]
          BY <3>1, <2>4, <2>6
    <3>3. a \in DOMAIN s /\ b \in DOMAIN s
          BY <3>2, <1>6
    <3>4. QED
          BY <3>2, <3>3
  <2>7. w \in UNION {[1..l -> S] : l \in 0..Len(s)}
        BY <2>2, <1>3
  <2>8. w \in Policy!Filtered(s, S)
        BY <2>3, <2>6, <2>7 DEF Policy!Filtered
  <2>9. QED
        BY <2>8, <1>4
<1>14. QED
       BY <1>12, <1>13

\* What a part counts is what FiniteSets counts
LEMMA PolicyCount == ASSUME NEW S PROVE Policy!Cardinality(S) = Cardinality(S)
BY DEF Cardinality, Policy!Cardinality

\* What the runs check
LEMMA PolicyInvLemma == ASSUME PolicyIInv PROVE Policy!PolicyInv
<1>1. Policy!RulesRun
  <2>1. SUFFICES ASSUME NEW m \in Moves
                 PROVE  /\ Policy!IsInjective(ran[m])
                        /\ \A k \in Policy!Leavers(ran[m]), j \in Policy!Enterers(ran[m]) : k < j
                        /\ movePc[m] \in {"done", "threw"}
                             => owed[m] \subseteq Policy!ToSet(ran[m])
        BY DEF Policy!RulesRun
  <2>2. Policy!ToSet(<<>>) = {}
        BY DEF Policy!ToSet
  <2>3. QED
        BY <2>2 DEF PolicyIInv, PolicyOf, PolicyRuns
<1>2. Policy!MovesHeard
      BY DEF PolicyIInv, PolicyOf, PolicyRuns, PolicyHears, PolicyWrites, Policy!MovesHeard,
           Policy!TypeOK
<1>3. Policy!ThrowsUnwritten
      BY DEF PolicyIInv, PolicyOf, PolicyRuns, PolicyHears, PolicyWrites, Policy!ThrowsUnwritten
<1>4. QED
      BY <1>1, <1>2, <1>3 DEF PolicyIInv, Policy!PolicyInv

\* The members of a sequence are of its type
LEMMA PolicyMembers == ASSUME NEW S, NEW s \in Seq(S) PROVE Policy!ToSet(s) \subseteq S
BY DEF Policy!ToSet

\* A finite set can be put in a sequence, each element once
LEMMA PolicyList ==
    ASSUME NEW S, IsFiniteSet(S) PROVE Policy!SetToSeq(S) \in Seq(S)
             /\ Policy!IsInjective(Policy!SetToSeq(S))
<1>1. Cardinality(S) \in Nat
      BY FS_CardinalityType
<1>2. IsFiniteSet(1..Cardinality(S)) /\ Cardinality(1..Cardinality(S)) = Cardinality(S)
      BY <1>1, FS_Interval
<1>3. ExistsBijection(1..Cardinality(S), S)
      BY <1>2, FS_SameCardinalityBij
<1>4. PICK f \in [1..Cardinality(S) -> S] : Policy!IsInjective(f)
      BY <1>3 DEF ExistsBijection, Bijection, Injection, IsInjective, Policy!IsInjective
<1>5. Policy!SetToSeq(S) \in [1..Cardinality(S) -> S] /\ Policy!IsInjective(Policy!SetToSeq(S))
      BY <1>4, PolicyCount DEF Policy!SetToSeq
<1>6. QED
      BY <1>1, <1>5

\* A filter keeps each of its elements once
LEMMA PolicyFiltered ==
    ASSUME NEW T, NEW s \in Seq(T), Policy!IsInjective(s), NEW S \in SUBSET T,
             NEW q \in Policy!Filtered(s, S)
    PROVE  q \in Seq(S) /\ q \in Seq(T) /\ Policy!ToSet(q) = S /\ Policy!IsInjective(q)
<1>1. PICK n \in 0..Len(s) : q \in [1..n -> S]
      BY DEF Policy!Filtered
<1>2. q \in Seq(S) /\ q \in Seq(T) /\ DOMAIN q = 1..n /\ n \in Nat
      BY <1>1
<1>3. ASSUME NEW j \in DOMAIN q, NEW k \in DOMAIN q, q[j] = q[k], j < k PROVE FALSE
  <2>1. PICK a \in DOMAIN s, b \in DOMAIN s : a < b /\ s[a] = q[j] /\ s[b] = q[k]
        BY <1>3 DEF Policy!Filtered
  <2>2. a = b
        BY <1>3, <2>1 DEF Policy!IsInjective
  <2>3. QED
        BY <2>1, <2>2
<1>4. ASSUME NEW j \in DOMAIN q, NEW k \in DOMAIN q, q[j] = q[k] PROVE j = k
      BY <1>2, <1>3, <1>4
<1>5. QED
      BY <1>2, <1>4 DEF Policy!Filtered, Policy!IsInjective

\* What is run next leaves what is to be run
LEMMA PolicyNext ==
    ASSUME NEW T, NEW s \in Seq(T), s # <<>>, Policy!IsInjective(s)
    PROVE  /\ Head(s) \in T /\ Tail(s) \in Seq(T) /\ Policy!IsInjective(Tail(s))
           /\ Head(s) \notin Policy!ToSet(Tail(s))
                /\ Policy!ToSet(s) = Policy!ToSet(Tail(s)) \cup {Head(s)}
<1>1. /\ Head(s) = s[1] /\ Tail(s) \in Seq(T) /\ Len(Tail(s)) = Len(s) - 1 /\ Len(s) \in Nat \ {0}
      /\ \A k \in 1..Len(Tail(s)) : Tail(s)[k] = s[k + 1]
      OBVIOUS
<1>2. DOMAIN s = 1..Len(s) /\ DOMAIN Tail(s) = 1..Len(Tail(s)) /\ s[1] \in T
      BY <1>1
<1>3. Policy!IsInjective(Tail(s))
  <2>1. SUFFICES ASSUME NEW j \in DOMAIN Tail(s), NEW k \in DOMAIN Tail(s),
                          Tail(s)[j] = Tail(s)[k]
                 PROVE  j = k
        BY DEF Policy!IsInjective
  <2>2. s[j + 1] = s[k + 1] /\ j + 1 \in DOMAIN s /\ k + 1 \in DOMAIN s /\ j \in Nat /\ k \in Nat
        BY <1>1, <1>2, <2>1
  <2>3. QED
        BY <2>2 DEF Policy!IsInjective
<1>4. Head(s) \notin Policy!ToSet(Tail(s))
  <2>1. SUFFICES ASSUME NEW j \in DOMAIN Tail(s), Tail(s)[j] = s[1] PROVE FALSE
        BY <1>1 DEF Policy!ToSet
  <2>2. s[j + 1] = s[1] /\ j + 1 \in DOMAIN s /\ 1 \in DOMAIN s /\ j \in Nat \ {0}
        BY <1>1, <1>2, <2>1
  <2>3. QED
        BY <2>2 DEF Policy!IsInjective
<1>5. ASSUME NEW x \in Policy!ToSet(s) PROVE x \in Policy!ToSet(Tail(s)) \cup {Head(s)}
  <2>1. PICK k \in DOMAIN s : s[k] = x
        BY DEF Policy!ToSet
  <2>2. CASE k = 1
        BY <1>1, <2>1, <2>2
  <2>3. CASE k # 1
    <3>1. k - 1 \in 1..Len(Tail(s)) /\ Tail(s)[k - 1] = x
          BY <1>1, <1>2, <2>1, <2>3
    <3>2. QED
          BY <1>2, <3>1 DEF Policy!ToSet
  <2>4. QED
        BY <2>2, <2>3
<1>6. ASSUME NEW x \in Policy!ToSet(Tail(s)) \cup {Head(s)} PROVE x \in Policy!ToSet(s)
  <2>1. CASE x = Head(s)
        BY <1>1, <1>2, <2>1 DEF Policy!ToSet
  <2>2. CASE x \in Policy!ToSet(Tail(s))
    <3>1. PICK k \in 1..Len(Tail(s)) : Tail(s)[k] = x
          BY <1>2, <2>2 DEF Policy!ToSet
    <3>2. k + 1 \in DOMAIN s /\ s[k + 1] = x
          BY <1>1, <1>2, <3>1
    <3>3. QED
          BY <3>2 DEF Policy!ToSet
  <2>3. QED
        BY <1>6, <2>1, <2>2
<1>7. QED
      BY <1>1, <1>2, <1>3, <1>4, <1>5, <1>6

\* What was run last comes after the rest
LEMMA PolicyLast ==
    ASSUME NEW T, NEW s \in Seq(T), NEW x \in T
    PROVE  /\ Append(s, x) \in Seq(T) /\ Policy!ToSet(Append(s, x)) = Policy!ToSet(s) \cup {x}
           /\ Policy!IsInjective(s) /\ x \notin Policy!ToSet(s) => Policy!IsInjective(Append(s,
                x))
           /\ DOMAIN s = 1..Len(s) /\ Len(s) \in Nat /\ DOMAIN Append(s, x) = 1..(Len(s) + 1)
           /\ \A k \in 1..Len(s) : Append(s, x)[k] = s[k]
           /\ Append(s, x)[Len(s) + 1] = x
<1>1. /\ Append(s, x) \in Seq(T) /\ Len(Append(s, x)) = Len(s) + 1 /\ Len(s) \in Nat
      /\ \A k \in 1..Len(s) : Append(s, x)[k] = s[k]
      /\ Append(s, x)[Len(s) + 1] = x
      /\ DOMAIN s = 1..Len(s) /\ DOMAIN Append(s, x) = 1..(Len(s) + 1)
      OBVIOUS
<1>2. Policy!ToSet(Append(s, x)) = Policy!ToSet(s) \cup {x}
  <2>1. \A y : y \in Policy!ToSet(s) <=> \E k \in 1..Len(s) : y = s[k]
        BY <1>1 DEF Policy!ToSet
  <2>2. \A y : y \in Policy!ToSet(Append(s, x)) <=> \E k \in 1..(Len(s) + 1) : y = Append(s, x)[k]
        BY <1>1 DEF Policy!ToSet
  <2>3. ASSUME NEW y \in Policy!ToSet(Append(s, x)) PROVE y \in Policy!ToSet(s) \cup {x}
        BY <1>1, <2>1, <2>2
  <2>4. ASSUME NEW y \in Policy!ToSet(s) PROVE y \in Policy!ToSet(Append(s, x))
        BY <1>1, <2>1, <2>2
  <2>5. x \in Policy!ToSet(Append(s, x))
        BY <1>1, <2>2
  <2>6. QED
        BY <2>3, <2>4, <2>5
<1>3. ASSUME Policy!IsInjective(s), x \notin Policy!ToSet(s)
      PROVE Policy!IsInjective(Append(s, x))
  <2>1. SUFFICES ASSUME NEW j \in 1..(Len(s) + 1), NEW k \in 1..(Len(s) + 1),
                        Append(s, x)[j] = Append(s, x)[k]
                 PROVE  j = k
        BY <1>1 DEF Policy!IsInjective
  <2>2. \A i \in 1..Len(s) : Append(s, x)[i] # x
        BY <1>1, <1>3 DEF Policy!ToSet
  <2>3. \A i, l \in 1..Len(s) : s[i] = s[l] => i = l
        BY <1>1, <1>3 DEF Policy!IsInjective
  <2>4. QED
        BY <1>1, <2>1, <2>2, <2>3
<1>4. QED
      BY <1>1, <1>2, <1>3

\* The policies start so
LEMMA PolicyInit == ASSUME PolicyValues, Policy!Init PROVE PolicyIInv
<1>1. /\ rules \in Seq(Rules) /\ Policy!IsInjective(rules) /\ bus \in Seq(Listeners)
      BY PolicyList DEF Policy!Init, PolicyValues
<1>2. Policy!TypeOK
  <2>1. <<>> \in Seq(Rules) /\ 0 \in 0..RuleChanges
        BY DEF PolicyValues
  <2>2. QED
        BY <1>1, <2>1 DEF Policy!Init, Policy!TypeOK
<1>3. Policy!IsInjective(<<>>) /\ Policy!ToSet(<<>>) = {} /\ Policy!Leavers(<<>>) = {}
        /\ Policy!Enterers(<<>>) = {}
      BY DEF Policy!IsInjective, Policy!ToSet, Policy!Leavers, Policy!Enterers
<1>4. ASSUME NEW m \in Moves PROVE PolicyOf(m)
      BY <1>3 DEF Policy!Init, PolicyOf, PolicyRuns, PolicyHears, PolicyWrites
<1>5. QED
      BY <1>1, <1>2, <1>4 DEF PolicyIInv

\* What matches is a sequence of rules for the action
LEMMA PolicyMatched ==
    ASSUME Policy!TypeOK, Policy!IsInjective(rules), NEW action, NEW m,
             NEW q \in Policy!matchRules(action, m)
    PROVE  /\ q \in Seq(Rules) /\ Policy!IsInjective(q)
           /\ \A k \in DOMAIN q : RuleMatches[q[k]].action = action
<1> DEFINE S == {r \in Policy!ToSet(rules) : Policy!Applies(r, action, m)}
<1>1. rules \in Seq(Rules)
      BY DEF Policy!TypeOK
<1>2. S \in SUBSET Rules
      BY <1>1, PolicyMembers
<1>3. q \in Policy!Filtered(rules, S)
      BY DEF Policy!matchRules
<1>4. \A r \in S : RuleMatches[r].action = action
      BY DEF Policy!Applies
<1> HIDE DEF S
<1>5. q \in Seq(Rules) /\ Policy!ToSet(q) = S /\ Policy!IsInjective(q)
      BY <1>1, <1>2, <1>3, PolicyFiltered
<1>6. QED
      BY <1>4, <1>5 DEF Policy!ToSet

\* What a step leaves of a move that it is not about
LEMMA PolicyOther ==
    ASSUME NEW m \in Moves, PolicyOf(m),
           movePc'[m] = movePc[m], todo'[m] = todo[m], ran'[m] = ran[m],
             owed'[m] \subseteq owed[m],
           attending'[m] \subseteq attending[m], m \in written' => m \in written,
           \A l \in Listeners : heard'[l][m] = heard[l][m],
           movePc[m] \in {"exit", "enter"} => attending'[m] \subseteq Policy!ToSet(bus')
    PROVE  PolicyOf(m)'
<1>1. PICK r, t : r = ran[m] /\ t = todo[m]
      OBVIOUS
<1>2. ran'[m] = r /\ todo'[m] = t
      BY <1>1
<1>3. PolicyRuns(m)'
  <2>1. PolicyRuns(m)
        BY DEF PolicyOf
  <2>2. QED
        BY <1>1, <1>2, <2>1 DEF PolicyRuns, Policy!IsInjective, Policy!ToSet, Policy!Leavers,
             Policy!Enterers
<1>4. PolicyHears(m)'
      BY DEF PolicyOf, PolicyHears, Policy!ToSet
<1>5. PolicyWrites(m)'
      BY DEF PolicyOf, PolicyWrites
<1>6. QED
      BY <1>3, <1>4, <1>5 DEF PolicyOf

\* A move, a handler, an announcement or a change of the rules keeps it
LEMMA PolicyStep ==
    ASSUME PolicyValues, PolicyIInv, Policy!Next \/ UNCHANGED policy
    PROVE  PolicyIInv'
<1>1. Policy!TypeOK /\ Policy!IsInjective(rules) /\ \A m \in Moves : PolicyOf(m)
      BY DEF PolicyIInv
<1> DEFINE Steps == {"new", "exit", "enter", "done", "threw"}
<1>2. CASE Policy!Change
  <2>1. /\ ruleChanges' = ruleChanges + 1 /\ ruleChanges < RuleChanges
        /\ UNCHANGED <<bus, movePc, written, todo, ran, attending, heard>>
        BY <1>2 DEF Policy!Change
  <2>2. PICK r \in Rules : Policy!addRule(r) \/ Policy!removeRule(r)
        BY <1>2 DEF Policy!Change
  <2>3. rules' \in Seq(Rules) /\ Policy!IsInjective(rules')
    <3>1. CASE Policy!addRule(r)
          BY <1>1, <3>1, PolicyLast DEF Policy!addRule, Policy!TypeOK
    <3>2. CASE Policy!removeRule(r)
      <4>1. Policy!ToSet(rules) \ {r} \in SUBSET Rules /\ rules \in Seq(Rules)
            BY <1>1, PolicyMembers DEF Policy!TypeOK
      <4>2. rules' \in Policy!Filtered(rules, Policy!ToSet(rules) \ {r})
            BY <3>2 DEF Policy!removeRule
      <4>3. QED
            BY <1>1, <4>1, <4>2, PolicyFiltered
    <3>3. QED
          BY <2>2, <3>1, <3>2
  <2>4. /\ owed' \in [Moves -> SUBSET Rules]
        /\ \A m \in Moves : owed'[m] \subseteq owed[m]
    <3>1. CASE Policy!addRule(r)
          BY <1>1, <3>1 DEF Policy!addRule, Policy!TypeOK
    <3>2. CASE Policy!removeRule(r)
          BY <1>1, <3>2 DEF Policy!removeRule, Policy!TypeOK
    <3>3. QED
          BY <2>2, <3>1, <3>2
  <2>5. ruleChanges' \in 0..RuleChanges
        BY <1>1, <2>1 DEF Policy!TypeOK, PolicyValues
  <2>6. Policy!TypeOK'
        BY <1>1, <2>1, <2>3, <2>4, <2>5 DEF Policy!TypeOK
  <2>7. ASSUME NEW m \in Moves PROVE PolicyOf(m)'
    <3>1. movePc[m] \in {"exit", "enter"} => attending'[m] \subseteq Policy!ToSet(bus')
          BY <1>1, <2>1 DEF PolicyOf, PolicyHears, Policy!ToSet
    <3>2. QED
          BY <1>1, <2>1, <2>4, <3>1, PolicyOther
  <2>8. QED
        BY <2>3, <2>6, <2>7 DEF PolicyIInv
<1>3. ASSUME NEW m \in Moves, Policy!Transition(m) PROVE PolicyIInv'
  <2>1. movePc[m] = "new" /\ UNCHANGED <<rules, bus, ran, heard, ruleChanges>>
        BY <1>3 DEF Policy!Transition
  <2>2. \A n \in Moves : movePc[n] \in {"exit", "enter"}
          => attending[n] \subseteq Policy!ToSet(bus')
        BY <1>1, <2>1 DEF PolicyOf, PolicyHears, Policy!ToSet
  <2> DEFINE Begins == /\ Policy!Accepted(m) /\ Policy!Changed(m) /\ NoteMoves[m].parses
                       /\ written' = written \cup {m} /\ movePc' = [movePc EXCEPT ![m] = "exit"]
                       /\ \E matched \in Policy!matchRules("exit", m) :
                            /\ todo' = [todo EXCEPT ![m] = matched]
                            /\ owed' = [owed EXCEPT ![m] = Policy!ToSet(matched)]
                       /\ attending' = [attending EXCEPT ![m] = Policy!ToSet(bus)]
             Refuses == /\ Policy!Accepted(m) /\ Policy!Changed(m) /\ ~NoteMoves[m].parses
                        /\ written' = written \cup {m} /\ movePc' = [movePc EXCEPT ![m] = "threw"]
                        /\ UNCHANGED <<todo, owed, attending>>
             Ends == \E place \in {"done", "threw"} :
                        /\ movePc' = [movePc EXCEPT ![m] = place]
                        /\ UNCHANGED <<written, todo, owed, attending>>
  <2>3. CASE Begins
    <3>1. PICK matched \in Policy!matchRules("exit", m) :
            /\ todo' = [todo EXCEPT ![m] = matched]
                 /\ owed' = [owed EXCEPT ![m] = Policy!ToSet(matched)]
          BY <2>3
    <3>2. /\ written' = written \cup {m} /\ movePc' = [movePc EXCEPT ![m] = "exit"]
          /\ attending' = [attending EXCEPT ![m] = Policy!ToSet(bus)]
          BY <2>3
    <3>3. /\ matched \in Seq(Rules) /\ Policy!IsInjective(matched)
          /\ \A k \in DOMAIN matched : RuleMatches[matched[k]].action = "exit"
          BY <1>1, PolicyMatched
    <3>4. Policy!ToSet(matched) \subseteq Rules /\ Policy!ToSet(bus) \subseteq Listeners
          BY <1>1, <3>3, PolicyMembers DEF Policy!TypeOK
    <3>5. /\ todo' \in [Moves -> Seq(Rules)] /\ todo'[m] = matched
          /\ owed' \in [Moves -> SUBSET Rules] /\ owed'[m] = Policy!ToSet(matched)
          /\ movePc' \in [Moves -> Steps] /\ movePc'[m] = "exit"
          /\ attending' \in [Moves -> SUBSET Listeners] /\ attending'[m] = Policy!ToSet(bus)
          /\ \A n \in Moves \ {m} : /\ todo'[n] = todo[n] /\ owed'[n] = owed[n]
                                         /\ movePc'[n] = movePc[n]
                                    /\ attending'[n] = attending[n]
          BY <1>1, <3>1, <3>2, <3>3, <3>4 DEF Policy!TypeOK
    <3>6. Policy!TypeOK'
          BY <1>1, <2>1, <3>2, <3>5 DEF Policy!TypeOK
    <3>7. ASSUME NEW n \in Moves, n # m PROVE PolicyOf(n)'
          BY <1>1, <2>1, <2>2, <3>2, <3>5, <3>7, PolicyOther
    <3>8. PolicyOf(m)'
      <4>1. /\ ran'[m] = <<>> /\ todo'[m] = matched /\ owed'[m] = Policy!ToSet(matched)
            /\ attending'[m] = Policy!ToSet(bus) /\ bus' = bus /\ movePc'[m] = "exit"
            /\ \A l \in Listeners : heard'[l][m] = 0
            BY <1>1, <2>1, <3>5 DEF PolicyOf, PolicyRuns, PolicyHears, PolicyWrites
      <4>2. PolicyRuns(m)'
            BY <3>3, <4>1 DEF PolicyRuns, Policy!IsInjective, Policy!ToSet, Policy!Leavers,
                 Policy!Enterers
      <4>3. PolicyHears(m)'
            BY <4>1 DEF PolicyHears
      <4>4. Policy!Accepted(m) /\ Policy!Changed(m)
            BY <2>3
      <4>5. PolicyWrites(m)'
            BY <4>1, <4>4 DEF PolicyWrites, Policy!Accepted, Policy!Changed
      <4>6. QED
            BY <4>2, <4>3, <4>5 DEF PolicyOf
    <3>9. QED
          BY <1>1, <2>1, <3>6, <3>7, <3>8 DEF PolicyIInv, Policy!IsInjective
  <2>4. CASE Refuses \/ Ends
    <3>1. PICK place \in {"done", "threw"} : movePc' = [movePc EXCEPT ![m] = place]
          BY <2>4
    <3>2. /\ written' \subseteq written \cup {m} /\ UNCHANGED <<todo, owed, attending>>
          /\ m \in written' => \/ m \in written
                               \/ /\ Policy!Accepted(m) /\ Policy!Changed(m)
                                  /\ ~NoteMoves[m].parses
          BY <2>4
    <3>3. /\ movePc' \in [Moves -> Steps] /\ movePc'[m] = place
          /\ \A n \in Moves \ {m} : movePc'[n] = movePc[n]
          BY <1>1, <3>1 DEF Policy!TypeOK
    <3>4. Policy!TypeOK'
          BY <1>1, <2>1, <3>2, <3>3 DEF Policy!TypeOK
    <3>5. ASSUME NEW n \in Moves, n # m PROVE PolicyOf(n)'
          BY <1>1, <2>1, <2>2, <3>2, <3>3, <3>5, PolicyOther
    <3>6. PolicyOf(m)'
      <4>1. /\ ran'[m] = <<>> /\ todo'[m] = <<>> /\ owed'[m] = {} /\ attending'[m] = {}
            /\ m \notin written /\ \A l \in Listeners : heard'[l][m] = 0
            BY <1>1, <2>1, <3>2 DEF PolicyOf, PolicyRuns, PolicyHears, PolicyWrites
      <4>2. PolicyWrites(m)'
            BY <3>2, <3>3, <4>1 DEF PolicyWrites, Policy!Accepted, Policy!Changed
      <4>3. QED
            BY <3>3, <4>1, <4>2 DEF PolicyOf, PolicyRuns, PolicyHears, Policy!IsInjective,
                 Policy!ToSet, Policy!Leavers, Policy!Enterers
    <3>7. QED
          BY <1>1, <2>1, <3>4, <3>5, <3>6 DEF PolicyIInv, Policy!IsInjective
  <2>5. Begins \/ Refuses \/ Ends
        BY <1>3 DEF Policy!Transition
  <2>6. QED
        BY <2>3, <2>4, <2>5
<1>4. ASSUME NEW m \in Moves, Policy!Run(m) PROVE PolicyIInv'
  <2>1. /\ movePc[m] \in {"exit", "enter"} /\ todo[m] # <<>>
        /\ todo' = [todo EXCEPT ![m] = Tail(todo[m])]
        /\ ran' = [ran EXCEPT ![m] = Append(ran[m], Head(todo[m]))]
        /\ UNCHANGED <<rules, bus, movePc, written, owed, attending, heard, ruleChanges>>
        BY <1>4 DEF Policy!Run
  <2>2. PICK t \in Seq(Rules), r \in Seq(Rules) : t = todo[m] /\ r = ran[m]
        BY <1>1 DEF Policy!TypeOK
  <2>3. PICK x : x = Head(t)
        OBVIOUS
  <2>4. t # <<>> /\ Policy!IsInjective(t)
        BY <1>1, <2>1, <2>2 DEF PolicyOf, PolicyRuns, PolicyHears, PolicyWrites
  <2>5. PICK rest : rest = Tail(t)
        OBVIOUS
  <2>6. /\ x \in Rules /\ rest \in Seq(Rules) /\ Policy!IsInjective(rest)
             /\ x \notin Policy!ToSet(rest)
        /\ Policy!ToSet(t) = Policy!ToSet(rest) \cup {x}
        BY <2>3, <2>4, <2>5, PolicyNext
  <2>7. PICK all : all = Append(r, x)
        OBVIOUS
  <2>8. /\ all \in Seq(Rules) /\ Policy!ToSet(all) = Policy!ToSet(r) \cup {x}
        /\ Policy!IsInjective(r) /\ x \notin Policy!ToSet(r) => Policy!IsInjective(all)
        /\ DOMAIN r = 1..Len(r) /\ Len(r) \in Nat /\ DOMAIN all = 1..(Len(r) + 1)
        /\ \A k \in 1..Len(r) : all[k] = r[k]
        /\ all[Len(r) + 1] = x
        BY <2>6, <2>7, PolicyLast
  <2>9. /\ todo' \in [Moves -> Seq(Rules)] /\ todo'[m] = rest
        /\ ran' \in [Moves -> Seq(Rules)] /\ ran'[m] = all
        /\ \A n \in Moves \ {m} : todo'[n] = todo[n] /\ ran'[n] = ran[n]
        BY <1>1, <2>1, <2>2, <2>3, <2>5, <2>6, <2>7, <2>8 DEF Policy!TypeOK
  <2>10. Policy!TypeOK'
        BY <1>1, <2>1, <2>9 DEF Policy!TypeOK
  <2>11. ASSUME NEW n \in Moves, n # m PROVE PolicyOf(n)'
    <3>1. movePc[n] \in {"exit", "enter"} => attending'[n] \subseteq Policy!ToSet(bus')
          BY <1>1, <2>1 DEF PolicyOf, PolicyHears, Policy!ToSet
    <3>2. QED
          BY <1>1, <2>1, <2>9, <2>11, <3>1, PolicyOther
  <2>12. PolicyOf(m)'
    <3>1. /\ Policy!IsInjective(r) /\ Policy!ToSet(t) \cap Policy!ToSet(r) = {}
               /\ owed[m] \subseteq Policy!ToSet(t) \cup Policy!ToSet(r)
          /\ \A k \in Policy!Leavers(r), j \in Policy!Enterers(r) : k < j
          /\ movePc[m] = "exit" => Policy!Enterers(t) = {} /\ Policy!Enterers(r) = {}
          /\ movePc[m] = "enter" => Policy!Leavers(t) = {}
          BY <1>1, <2>2 DEF PolicyOf, PolicyRuns, PolicyHears, PolicyWrites
    <3>2. Policy!IsInjective(all) /\ Policy!ToSet(rest) \cap Policy!ToSet(all) = {}
            /\ owed[m] \subseteq Policy!ToSet(rest) \cup Policy!ToSet(all)
          BY <2>6, <2>8, <3>1
    <3>3. PICK k \in DOMAIN t : t[k] = x
          BY <2>6 DEF Policy!ToSet
    <3>4. \A j \in DOMAIN rest : \E i \in DOMAIN t : rest[j] = t[i]
          BY <2>6 DEF Policy!ToSet
    <3>5. /\ movePc[m] = "exit" => Policy!Enterers(rest) = {} /\ Policy!Enterers(all) = {}
          /\ movePc[m] = "enter" => Policy!Leavers(rest) = {}
          BY <2>8, <3>1, <3>3, <3>4 DEF Policy!Leavers, Policy!Enterers
    <3>6. \A i \in Policy!Leavers(all), j \in Policy!Enterers(all) : i < j
      <4>1. CASE movePc[m] = "exit"
            BY <3>5, <4>1
      <4>2. CASE movePc[m] = "enter"
        <5>1. SUFFICES ASSUME NEW i \in Policy!Leavers(all), NEW j \in Policy!Enterers(all)
              PROVE i < j
              OBVIOUS
        <5>2. RuleMatches[x].action # "exit"
              BY <3>1, <3>3, <4>2 DEF Policy!Leavers
        <5>3. i \in 1..Len(r) /\ i \in Policy!Leavers(r)
              BY <2>8, <5>1, <5>2 DEF Policy!Leavers
        <5>4. j \in 1..(Len(r) + 1) /\ (j # Len(r) + 1 => j \in Policy!Enterers(r))
              BY <2>8, <5>1 DEF Policy!Enterers
        <5>5. QED
              BY <2>8, <3>1, <5>3, <5>4
      <4>3. QED
            BY <2>1, <4>1, <4>2
    <3>7. /\ movePc'[m] = movePc[m] /\ owed'[m] = owed[m] /\ attending'[m] = attending[m]
               /\ bus' = bus
          /\ written' = written /\ heard' = heard
          BY <2>1
    <3>8. PolicyRuns(m)'
      <4>1. Policy!IsInjective(ran[m])' /\ Policy!IsInjective(todo[m])'
            BY <2>6, <2>9, <3>2 DEF Policy!IsInjective
      <4>2. Policy!ToSet(ran[m])' = Policy!ToSet(all)
              /\ Policy!ToSet(todo[m])' = Policy!ToSet(rest)
            BY <2>9 DEF Policy!ToSet
      <4>3. /\ Policy!Leavers(ran[m])' = Policy!Leavers(all)
                 /\ Policy!Enterers(ran[m])' = Policy!Enterers(all)
            /\ Policy!Leavers(todo[m])' = Policy!Leavers(rest)
                 /\ Policy!Enterers(todo[m])' = Policy!Enterers(rest)
            BY <2>9 DEF Policy!Leavers, Policy!Enterers
      <4>4. movePc'[m] = movePc[m] /\ owed'[m] = owed[m] /\ movePc[m] \in {"exit", "enter"}
            BY <2>1
      <4>5. QED
            BY <3>2, <3>5, <3>6, <4>1, <4>2, <4>3, <4>4 DEF PolicyRuns
    <3>9. PolicyHears(m)'
          BY <1>1, <3>7 DEF PolicyOf, PolicyHears, Policy!ToSet
    <3>10. PolicyWrites(m)'
          BY <1>1, <2>1 DEF PolicyOf, PolicyWrites, Policy!Accepted, Policy!Changed
    <3>11. QED
          BY <3>8, <3>9, <3>10 DEF PolicyOf
  <2>13. QED
        BY <1>1, <2>1, <2>10, <2>11, <2>12 DEF PolicyIInv, Policy!IsInjective
<1>5. ASSUME NEW m \in Moves, Policy!Enter(m) PROVE PolicyIInv'
  <2>1. /\ movePc[m] = "exit" /\ todo[m] = <<>>
        /\ UNCHANGED <<rules, bus, written, ran, attending, heard, ruleChanges>>
        BY <1>5 DEF Policy!Enter
  <2>2. \A n \in Moves : movePc[n] \in {"exit", "enter"}
          => attending[n] \subseteq Policy!ToSet(bus')
        BY <1>1, <2>1 DEF PolicyOf, PolicyHears, Policy!ToSet
  <2>3. PICK r, w : r = ran[m] /\ w = owed[m]
        OBVIOUS
  <2>4. /\ Policy!IsInjective(r) /\ Policy!Enterers(r) = {} /\ w \subseteq Policy!ToSet(r)
    <3>1. Policy!ToSet(<<>>) = {}
          BY DEF Policy!ToSet
    <3>2. QED
          BY <1>1, <2>1, <2>3, <3>1 DEF PolicyOf, PolicyRuns, PolicyHears, PolicyWrites
  <2>5. CASE Policy!CanTransition(NoteMoves[m].from, NoteMoves[m].to)
    <3>1. PICK matched \in Policy!matchRules("enter", m) :
            /\ todo' = [todo EXCEPT ![m] = matched]
            /\ owed' = [owed EXCEPT ![m] = owed[m] \cup Policy!ToSet(matched)]
          BY <1>5, <2>5 DEF Policy!Enter
    <3>2. movePc' = [movePc EXCEPT ![m] = "enter"]
          BY <1>5, <2>5 DEF Policy!Enter
    <3>3. /\ matched \in Seq(Rules) /\ Policy!IsInjective(matched)
          /\ \A k \in DOMAIN matched : RuleMatches[matched[k]].action = "enter"
          BY <1>1, PolicyMatched
    <3>4. Policy!ToSet(matched) \subseteq Rules
          BY <3>3, PolicyMembers
    <3>5. /\ todo' \in [Moves -> Seq(Rules)] /\ todo'[m] = matched
          /\ owed' \in [Moves -> SUBSET Rules] /\ owed'[m] = w \cup Policy!ToSet(matched)
          /\ movePc' \in [Moves -> Steps] /\ movePc'[m] = "enter"
          /\ \A n \in Moves \ {m} : todo'[n] = todo[n] /\ owed'[n] = owed[n]
               /\ movePc'[n] = movePc[n]
          BY <1>1, <2>3, <3>1, <3>2, <3>3, <3>4 DEF Policy!TypeOK
    <3>6. Policy!TypeOK'
          BY <1>1, <2>1, <3>5 DEF Policy!TypeOK
    <3>7. ASSUME NEW n \in Moves, n # m PROVE PolicyOf(n)'
          BY <1>1, <2>1, <2>2, <3>5, <3>7, PolicyOther
    <3>8. PolicyOf(m)'
      <4>1. /\ ran'[m] = r /\ attending'[m] = attending[m] /\ bus' = bus /\ written' = written
            /\ heard' = heard
            BY <2>1, <2>3
      <4>2. \A k \in DOMAIN r : RuleMatches[r[k]].action # "enter"
            BY <2>4 DEF Policy!Enterers
      <4>3. Policy!ToSet(matched) \cap Policy!ToSet(r) = {}
            BY <3>3, <4>2 DEF Policy!ToSet
      <4>4. Policy!Leavers(matched) = {} /\ \A k \in Policy!Leavers(r),
              j \in Policy!Enterers(r) : k < j
            BY <2>4, <3>3 DEF Policy!Leavers
      <4>5. QED
            BY <1>1, <2>1, <2>2, <2>4, <3>3, <3>5, <4>1, <4>3, <4>4
               DEF PolicyOf, PolicyRuns, PolicyHears, PolicyWrites, Policy!IsInjective,
                 Policy!ToSet, Policy!Leavers, Policy!Enterers
    <3>9. QED
          BY <1>1, <2>1, <3>6, <3>7, <3>8 DEF PolicyIInv, Policy!IsInjective
  <2>6. CASE ~Policy!CanTransition(NoteMoves[m].from, NoteMoves[m].to)
    <3>1. movePc' = [movePc EXCEPT ![m] = "threw"] /\ UNCHANGED <<todo, owed>>
          BY <1>5, <2>6 DEF Policy!Enter
    <3>2. /\ movePc' \in [Moves -> Steps] /\ movePc'[m] = "threw"
          /\ \A n \in Moves \ {m} : movePc'[n] = movePc[n]
          BY <1>1, <3>1 DEF Policy!TypeOK
    <3>3. Policy!TypeOK'
          BY <1>1, <2>1, <3>1, <3>2 DEF Policy!TypeOK
    <3>4. ASSUME NEW n \in Moves, n # m PROVE PolicyOf(n)'
          BY <1>1, <2>1, <2>2, <3>1, <3>2, <3>4, PolicyOther
    <3>5. m \in written => NoteMoves[m].type = "epic"
          BY <1>1, <2>6 DEF PolicyOf, PolicyWrites, Policy!Accepted, Policy!Changed,
               Policy!EngineAccepts
    <3>6. PolicyOf(m)'
      <4>1. /\ ran'[m] = r /\ todo'[m] = <<>> /\ owed'[m] = w /\ written' = written
                 /\ heard' = heard
            BY <2>1, <2>3, <3>1
      <4>2. QED
            BY <1>1, <2>1, <2>4, <3>2, <3>5, <4>1 DEF PolicyOf, PolicyRuns, PolicyHears,
                 PolicyWrites, Policy!IsInjective, Policy!ToSet, Policy!Leavers, Policy!Enterers
    <3>7. QED
          BY <1>1, <2>1, <3>3, <3>4, <3>6 DEF PolicyIInv, Policy!IsInjective
  <2>7. QED
        BY <2>5, <2>6
<1>6. ASSUME NEW m \in Moves, Policy!Announce(m) PROVE PolicyIInv'
  <2>1. /\ movePc[m] = "enter" /\ todo[m] = <<>> /\ movePc' = [movePc EXCEPT ![m] = "done"]
        /\ UNCHANGED <<rules, written, todo, ran, owed, ruleChanges>>
        BY <1>6 DEF Policy!Announce
  <2> DEFINE hearers == Policy!ToSet(bus)
  <2>2. PICK leaving \in SUBSET hearers :
          /\ heard' = [l \in Listeners |-> IF l \in hearers
                                           THEN [heard[l] EXCEPT ![m] = @ + 1] ELSE heard[l]]
          /\ bus' \in Policy!Filtered(bus, hearers \ leaving)
          /\ attending' = [n \in Moves |-> IF n = m THEN attending[n] ELSE attending[n] \ leaving]
        BY <1>6 DEF Policy!Announce, Policy!Hearers
  <2>3. hearers \subseteq Listeners /\ bus \in Seq(Listeners)
        BY <1>1, PolicyMembers DEF Policy!TypeOK
  <2> HIDE DEF hearers
  <2>4. bus' \in Seq(Listeners) /\ Policy!ToSet(bus') = hearers \ leaving
    <3>1. PICK b : b = bus'
          OBVIOUS
    <3>2. b \in UNION {[1..n -> hearers \ leaving] : n \in 0..Len(bus)}
            /\ Policy!ToSet(b) = hearers \ leaving
          BY <2>2, <3>1 DEF Policy!Filtered
    <3>3. PICK n \in 0..Len(bus) : b \in [1..n -> hearers \ leaving]
          BY <3>2
    <3>4. b \in Seq(Listeners)
          BY <2>3, <3>3
    <3>5. QED
          BY <3>1, <3>2, <3>4 DEF Policy!ToSet
  <2>5. /\ movePc' \in [Moves -> Steps] /\ movePc'[m] = "done"
             /\ \A n \in Moves \ {m} : movePc'[n] = movePc[n]
        /\ attending' \in [Moves -> SUBSET Listeners] /\ attending'[m] = attending[m]
        /\ \A n \in Moves \ {m} : attending'[n] = attending[n] \ leaving
        BY <1>1, <2>1, <2>2 DEF Policy!TypeOK
  <2>6. /\ heard' \in [Listeners -> [Moves -> Nat]]
        /\ \A l \in Listeners : heard'[l][m] = IF l \in hearers
             THEN heard[l][m] + 1 ELSE heard[l][m]
        /\ \A l \in Listeners : \A n \in Moves \ {m} : heard'[l][n] = heard[l][n]
        BY <1>1, <2>2 DEF Policy!TypeOK
  <2>7. Policy!TypeOK'
        BY <1>1, <2>1, <2>4, <2>5, <2>6 DEF Policy!TypeOK
  <2>8. ASSUME NEW n \in Moves, n # m PROVE PolicyOf(n)'
    <3>1. movePc[n] \in {"exit", "enter"} => attending'[n] \subseteq Policy!ToSet(bus')
          BY <1>1, <2>4, <2>5, <2>8 DEF PolicyOf, PolicyHears, hearers
    <3>2. QED
          BY <1>1, <2>1, <2>5, <2>6, <2>8, <3>1, PolicyOther
  <2>9. PolicyOf(m)'
    <3>1. PICK r, w : r = ran[m] /\ w = owed[m]
          OBVIOUS
    <3>2. ran'[m] = r /\ todo'[m] = <<>> /\ owed'[m] = w
          BY <2>1, <3>1
    <3>3. Policy!IsInjective(r) /\ w \subseteq Policy!ToSet(r) /\ \A k \in Policy!Leavers(r),
            j \in Policy!Enterers(r) : k < j
      <4>1. Policy!ToSet(<<>>) = {}
            BY DEF Policy!ToSet
      <4>2. QED
            BY <1>1, <2>1, <3>1, <4>1 DEF PolicyOf, PolicyRuns, PolicyHears, PolicyWrites
    <3>4. /\ attending[m] \subseteq hearers /\ \A l \in Listeners : heard[l][m] = 0
          BY <1>1, <2>1 DEF PolicyOf, PolicyHears, hearers
    <3>5. PolicyRuns(m)'
      <4>1. Policy!IsInjective(<<>>) /\ Policy!ToSet(<<>>) = {}
            BY DEF Policy!IsInjective, Policy!ToSet
      <4>2. QED
            BY <2>5, <3>2, <3>3, <4>1 DEF PolicyRuns, Policy!IsInjective, Policy!ToSet,
                 Policy!Leavers, Policy!Enterers
    <3>6. PolicyHears(m)'
      <4>1. \A l \in Listeners : heard'[l][m] = IF l \in hearers THEN 1 ELSE 0
            BY <2>6, <3>4
      <4>2. QED
            BY <2>5, <3>4, <4>1 DEF PolicyHears
    <3>7. PolicyWrites(m)'
          BY <1>1, <2>1, <2>5 DEF PolicyOf, PolicyWrites
    <3>8. QED
          BY <3>5, <3>6, <3>7 DEF PolicyOf
  <2>10. QED
        BY <1>1, <2>1, <2>7, <2>8, <2>9 DEF PolicyIInv, Policy!IsInjective
<1>7. CASE UNCHANGED policy
  <2>1. UNCHANGED <<rules, bus, movePc, written, todo, ran, owed, attending, heard, ruleChanges>>
        BY <1>7 DEF policy
  <2>2. ASSUME NEW m \in Moves PROVE PolicyOf(m)'
    <3>1. movePc[m] \in {"exit", "enter"} => attending'[m] \subseteq Policy!ToSet(bus')
          BY <1>1, <2>1 DEF PolicyOf, PolicyHears, Policy!ToSet
    <3>2. QED
          BY <1>1, <2>1, <3>1, PolicyOther
  <2>3. Policy!TypeOK'
        BY <1>1, <2>1 DEF Policy!TypeOK
  <2>4. QED
        BY <1>1, <2>1, <2>2, <2>3 DEF PolicyIInv, Policy!IsInjective
<1>8. QED
      BY <1>2, <1>3, <1>4, <1>5, <1>6, <1>7 DEF Policy!Next

-----------------------------------------------------------------------------
\* What each part has of its values follows from what they all have
LEMMA QueuesValues == DlqValues /\ RlValues /\ RunnerValues
BY ServicesAssumption DEF ServicesAssumption, DlqValues, RlValues, RunnerValues

\* Whichever queue is active has its own
QueuesIInv ==
    /\ active = "dlq" => DlqIInv
    /\ active = "rl" => RlIInv
    /\ active = "runner" => RunnerIInv

\* Every part starts with it
LEMMA QueuesInit == ASSUME Init PROVE QueuesIInv
<1>1. DlqIInv
      BY QueuesValues, DlqInit DEF Init
<1>2. RlIInv
      BY QueuesValues, RlInit DEF Init
<1>3. RunnerIInv
      BY QueuesValues, RunnerInit DEF Init
<1>4. QED
      BY <1>1, <1>2, <1>3 DEF QueuesIInv

\* The part that is active keeps it, and the others do not move
LEMMA QueuesStep == ASSUME QueuesIInv, [Next]_vars PROVE QueuesIInv'
<1>1. active' = active
      BY DEF Next, Others, vars
<1>2. ASSUME active = "dlq" PROVE DlqIInv'
  <2>1. Dlq!Next \/ UNCHANGED dlq
        BY <1>2 DEF Next, vars
  <2>2. DlqIInv
        BY <1>2 DEF QueuesIInv
  <2>3. QED
        BY <2>1, <2>2, QueuesValues, DlqStep
<1>3. ASSUME active = "rl" PROVE RlIInv'
  <2>1. Rl!Next \/ UNCHANGED rl
        BY <1>3 DEF Next, vars
  <2>2. RlIInv
        BY <1>3 DEF QueuesIInv
  <2>3. QED
        BY <2>1, <2>2, QueuesValues, RlStep
<1>4. ASSUME active = "runner" PROVE RunnerIInv'
  <2>1. Runner!Next \/ UNCHANGED runner
        BY <1>4 DEF Next, vars
  <2>2. RunnerIInv
        BY <1>4 DEF QueuesIInv
  <2>3. QED
        BY <2>1, <2>2, QueuesValues, RunnerStep
<1>5. QED
      BY <1>1, <1>2, <1>3, <1>4 DEF QueuesIInv

\* A letter that is accepted stays until it is removed, however often the process dies,
\* unless a load came late or a write was cut off (dead-letter-queue.ts). The rate-limit
\* queue stays within its limit and in its order, and, with the same exceptions, keeps a task
\* until a dequeue takes it and never hands it out again (rate-limit-queue.ts). A line of the
\* audit file is written once, for an issue that was moved, and a run that succeeds has its
\* line in the repository's head unless its own `git add` failed (module-runner.ts,
\* git-checkpoint-module.ts).
THEOREM QueuesKeepAlways == Spec => []QueuesKeep
<1>1. QueuesIInv => QueuesKeep
      BY QueuesValues, RlInv DEF QueuesIInv, QueuesKeep, DlqIInv, RunnerIInv, Runner!RunnerInv
<1>2. QED
      BY <1>1, QueuesInit, QueuesStep, PTL DEF Spec

\* What each part has of its values follows from what they all have
LEMMA NotesValues == NoteValues
BY ServicesAssumption DEF ServicesAssumption, NoteValues, NoteHolding

\* Active or not
NotesIInv ==
    /\ active = "notes" => NoteIInv

\* Every part starts with it
LEMMA NotesInit == ASSUME Init PROVE NotesIInv
<1>1. NoteIInv
      BY NotesValues, NoteInit DEF Init
<1>2. QED
      BY <1>1 DEF NotesIInv

\* The part that is active keeps it, and the others do not move
LEMMA NotesStep == ASSUME NotesIInv, [Next]_vars PROVE NotesIInv'
<1>1. active' = active
      BY DEF Next, Others, vars
<1>2. ASSUME active = "notes" PROVE NoteIInv'
  <2>1. Notes!Next \/ UNCHANGED notes
        BY <1>2 DEF Next, vars
  <2>2. NoteIInv
        BY <1>2 DEF NotesIInv
  <2>3. QED
        BY <2>1, <2>2, NotesValues, NoteStep
<1>3. QED
      BY <1>1, <1>2 DEF NotesIInv

\* However the engine, the CLI, the normaliser and the store open, fill and rename their files
\* at once: an issue note is found empty only while a program has it open or after one was cut
\* off; otherwise, as long as nobody edited it and the store never saved it, it stays one the
\* registry reads; the engine
\* makes no note unreadable that it read well, whatever people changed since it loaded the
\* record, and dates the completion of exactly the notes that are done; the normaliser
\* marks nothing ready that has placeholders, and keeps the note's id and project
\* (workflow-engine.ts, normalize-issue.ts, vault.ts, mapper.ts).
THEOREM NotesKeptAlways == Spec => []NotesKept
<1>1. NotesIInv => NotesKept
      BY NotesValues, NoteInvLemma DEF NotesIInv, NotesKept
<1>2. QED
      BY <1>1, NotesInit, NotesStep, PTL DEF Spec

\* The rules are three, and each is for leaving a status or for entering one
LEMMA RulesFew ==
    IsFiniteSet(Rules) /\ \A r \in Rules : RuleMatches[r].action \in {"enter", "exit"}
<1>1. Rules = {"leave"} \cup ({"leaveTodo"} \cup {"ready"})
      BY DEF Rules, RuleMatches
<1>2. IsFiniteSet(Rules)
      BY <1>1, FS_Singleton, FS_Union
<1>3. \A r \in Rules : RuleMatches[r].action \in {"enter", "exit"}
      BY DEF Rules, RuleMatches
<1>4. QED
      BY <1>2, <1>3

\* What each part has of its values follows from what they all have
LEMMA CallsValues == SessionsValues /\ McpValues /\ HttpValues /\ EnrichValues /\ PolicyValues
BY ServicesAssumption, RulesFew DEF ServicesAssumption, SessionsValues, McpValues, HttpValues,
     EnrichValues, PolicyValues

\* Whichever part is active has its own
CallsIInv ==
    /\ active = "cli" => SessionsIInv
    /\ active = "mcp" => McpIInv
    /\ active = "http" => HttpIInv
    /\ active = "enrich" => EnrichIInv
    /\ active = "policy" => PolicyIInv

\* Every part starts with it
LEMMA CallsInit == ASSUME Init PROVE CallsIInv
<1>1. SessionsIInv
      BY CallsValues, SessionsInit DEF Init
<1>2. McpIInv
      BY CallsValues, McpInit DEF Init
<1>3. HttpIInv
      BY CallsValues, HttpInit DEF Init
<1>4. EnrichIInv
      BY CallsValues, EnrichInit DEF Init
<1>5. PolicyIInv
      BY CallsValues, PolicyInit DEF Init
<1>6. QED
      BY <1>1, <1>2, <1>3, <1>4, <1>5 DEF CallsIInv

\* The part that is active keeps it, and the others do not move
LEMMA CallsStep == ASSUME CallsIInv, [Next]_vars PROVE CallsIInv'
<1>1. active' = active
      BY DEF Next, Others, vars
<1>2. ASSUME active = "cli" PROVE SessionsIInv'
  <2>1. Cli!Next \/ UNCHANGED cli
        BY <1>2 DEF Next, vars
  <2>2. SessionsIInv
        BY <1>2 DEF CallsIInv
  <2>3. QED
        BY <2>1, <2>2, CallsValues, SessionsStep
<1>3. ASSUME active = "mcp" PROVE McpIInv'
  <2>1. Mcp!Next \/ UNCHANGED mcp
        BY <1>3 DEF Next, vars
  <2>2. McpIInv
        BY <1>3 DEF CallsIInv
  <2>3. QED
        BY <2>1, <2>2, CallsValues, McpStepLemma
<1>4. ASSUME active = "http" PROVE HttpIInv'
  <2>1. Http!Next \/ UNCHANGED http
        BY <1>4 DEF Next, vars
  <2>2. HttpIInv
        BY <1>4 DEF CallsIInv
  <2>3. QED
        BY <2>1, <2>2, CallsValues, HttpStepLemma
<1>5. ASSUME active = "enrich" PROVE EnrichIInv'
  <2>1. Enrich!Next \/ UNCHANGED enrich
        BY <1>5 DEF Next, vars
  <2>2. EnrichIInv
        BY <1>5 DEF CallsIInv
  <2>3. QED
        BY <2>1, <2>2, CallsValues, EnrichStep
<1>6. ASSUME active = "policy" PROVE PolicyIInv'
  <2>1. Policy!Next \/ UNCHANGED policy
        BY <1>6 DEF Next, vars
  <2>2. PolicyIInv
        BY <1>6 DEF CallsIInv
  <2>3. QED
        BY <2>1, <2>2, CallsValues, PolicyStep
<1>7. QED
      BY <1>1, <1>2, <1>3, <1>4, <1>5, <1>6 DEF CallsIInv

\* Once a CLI call has returned, its process has ended or was signalled, and its session tells
\* its result; besides those that a timeout ended no more finished sessions are kept than the
\* limit (session-manager.ts). A tool call over stdio gets its own answer and waits for no
\* process whose exit was reported (mcp-stdio-client.ts); one over HTTP is not sent before the
\* handshake it awaits has succeeded, and names that handshake's session until a response
\* crosses a close (http-mcp-client.ts). A board shows what its own brain answered, not older
\* than the time to live, with no more lookups at once than the limit (provider.ts). A rule
\* that matches a move and stays runs once for it, leaving before entering, and who listened
\* all along hears of it once (policy-engine.ts, event-bus.ts); a call that throws has written
\* its note only if that is an epic, or one the store's parser refuses (workflow-engine.ts).
THEOREM CallsAnsweredAlways == Spec => []CallsAnswered
<1>1. CallsIInv => CallsAnswered
      BY CallsValues, SessionsInvLemma, HttpInvLemma, EnrichInvLemma,
           PolicyInvLemma DEF CallsIInv, CallsAnswered, McpIInv
<1>2. QED
      BY <1>1, CallsInit, CallsStep, PTL DEF Spec
=============================================================================
