--------------------------- MODULE RateLimitQueue ---------------------------
(***************************************************************************)
(* packages/adapter-openclaw: OpenClawAdapter.execute sends a task to the    *)
(* gateway and, told 429, puts it in a PersistentRateLimitQueue: a list in    *)
(* memory, sorted by priority, and in a JSON file.  Unlike the dead letter     *)
(* queue nothing orders the calls: each loads, changes and writes the file     *)
(* when it gets there.  The process may die at any point.                      *)
(***************************************************************************)
EXTENDS Naturals, Sequences, Functions

CONSTANTS Tasks, Urgent,  \* Urgent: those of the higher of two priorities
          Slots,          \* calls that may be under way at once
          MaxSize,        \* options.maxSize
          MaxCalls, MaxFaults,
          Torn, None

VARIABLES
    file,        \* the entries in the file, or Torn
    queue, loaded, processing,
    call,        \* slot -> the call's local variables
    sent,        \* tasks that execute was called with
    kept,        \* tasks whose enqueue ended well and that no later call took
    handed,      \* tasks that a dequeue returned
    late,        \* a load was assigned when the queue was loaded already
    damaged,     \* a write was cut off or crossed another
    calls, faults

vars == <<file, queue, loaded, processing, call, sent, kept, handed, late, damaged,
          calls, faults>>

Entry == [task : Tasks, high : BOOLEAN]
Kinds == {"execute", "dequeue", "clear", "stats", "restore"}
Labels == {"idle", "credentials", "asking", "load", "loading", "mkdir", "writing"}
Calls == [kind : Kinds, task : Tasks \cup {None}, buf : Seq(Entry), pc : Labels]
TasksOf(q) == {q[k].task : k \in DOMAIN q}

TypeOK ==
    /\ file = Torn \/ file \in Seq(Entry)
    /\ queue \in Seq(Entry) /\ loaded \in BOOLEAN /\ processing \subseteq Tasks
    /\ call \in [Slots -> Calls]
    /\ sent \subseteq Tasks /\ kept \subseteq sent /\ handed \subseteq sent
    /\ late \in BOOLEAN /\ damaged \in BOOLEAN
    /\ calls \in 0..MaxCalls /\ faults \in 0..MaxFaults

Idle == [kind |-> "stats", task |-> None, buf |-> <<>>, pc |-> "idle"]

Init == /\ file = <<>> /\ queue = <<>> /\ loaded = FALSE /\ processing = {}
        /\ call = [s \in Slots |-> Idle]
        /\ sent = {} /\ kept = {} /\ handed = {} /\ late = FALSE /\ damaged = FALSE
        /\ calls = 0 /\ faults = 0

At(s, label) == call[s].pc = label
Goes(s, label) == call' = [call EXCEPT ![s].pc = label]
Ends(s) == call' = [call EXCEPT ![s] = Idle]

\* readFile and JSON.parse; whatever is wrong with the file, it is an empty queue
Parsed == IF file = Torn THEN <<>> ELSE file

\* A slip: a task that is more urgent waits behind those that came first
BeforeByAge(q, a, b) == a < b

\* queue.sort, which keeps the order of equal priorities: the one queue that it returns
Before(q, a, b) == (q[a].high /\ ~q[b].high) \/ (q[a].high = q[b].high /\ a < b)
Sorted(q) == {[k \in DOMAIN q |-> q[place[k]]] :
                 place \in {p \in Surjection(DOMAIN q, DOMAIN q) :
                              \A a, b \in DOMAIN q : a < b => Before(q, p[a], p[b])}}

\* execute, or one of the queue's own operations
Begin(s, kind, t) ==
    /\ At(s, "idle") /\ calls < MaxCalls /\ calls' = calls + 1
    /\ (kind = "execute") = (t # None) /\ t \notin sent
    /\ sent' = IF t = None THEN sent ELSE sent \cup {t}
    /\ call' = [call EXCEPT ![s] = [Idle EXCEPT !.kind = kind, !.task = t,
                  !.pc = IF kind = "execute" THEN "credentials" ELSE "load"]]
    /\ UNCHANGED <<file, queue, loaded, processing, kept, handed, late, damaged, faults>>

\* getCredentials: the cache, the file or the environment has a valid token, or
\* it throws.  An expired one throws here, outside the try that would refresh it.
Credentials(s) ==
    /\ At(s, "credentials") /\ (Goes(s, "asking") \/ Ends(s))
    /\ UNCHANGED <<file, queue, loaded, processing, sent, kept, handed, late, damaged,
                   calls, faults>>

\* sendRequest: 429 queues the task; any other answer, or none, ends the call
Answer(s) ==
    /\ At(s, "asking") /\ (Goes(s, "load") \/ Ends(s))
    /\ UNCHANGED <<file, queue, loaded, processing, sent, kept, handed, late, damaged,
                   calls, faults>>

\* ensureLoaded and restore: the file is read ...
StartLoad(s) ==
    /\ At(s, "load") /\ call[s].kind # "clear" /\ (~loaded \/ call[s].kind = "restore")
    /\ call' = [call EXCEPT ![s].pc = "loading", ![s].buf = Parsed]
    /\ UNCHANGED <<file, queue, loaded, processing, sent, kept, handed, late, damaged,
                   calls, faults>>

\* ... and assigned, whatever happened to the queue in between
Assign(s) ==
    /\ At(s, "loading")
    /\ queue' = call[s].buf /\ loaded' = TRUE /\ late' = (late \/ loaded)
    /\ IF call[s].kind = "restore" THEN Ends(s)
       ELSE call' = [call EXCEPT ![s].pc = "load", ![s].buf = <<>>]
    /\ UNCHANGED <<file, processing, sent, kept, handed, damaged, calls, faults>>

\* A slip: the size is looked at before the load
EnqueueUnloaded(s) ==
    /\ At(s, "load") /\ call[s].kind = "execute"
    /\ LET t == call[s].task
           old == IF loaded THEN queue ELSE Parsed
       IN IF Len(queue) >= MaxSize THEN Ends(s) /\ UNCHANGED <<queue, loaded>>
          ELSE /\ queue' \in Sorted(Append(old, [task |-> t, high |-> t \in Urgent]))
               /\ loaded' = TRUE /\ Goes(s, "mkdir")
    /\ UNCHANGED <<file, processing, sent, kept, handed, late, damaged, calls, faults>>

\* enqueue
Enqueue(s) ==
    /\ At(s, "load") /\ call[s].kind = "execute" /\ loaded
    /\ LET t == call[s].task
       IN IF Len(queue) >= MaxSize THEN Ends(s) /\ UNCHANGED queue
          ELSE /\ queue' \in Sorted(Append(queue, [task |-> t, high |-> t \in Urgent]))
               /\ Goes(s, "mkdir")
    /\ UNCHANGED <<file, loaded, processing, sent, kept, handed, late, damaged, calls, faults>>

\* A slip: the task is returned before the file says so
DequeueEarly(s) ==
    /\ At(s, "load") /\ call[s].kind = "dequeue" /\ loaded
    /\ IF queue = <<>> THEN Ends(s) /\ UNCHANGED <<queue, processing, kept, handed>>
       ELSE LET t == Head(queue).task
            IN /\ queue' = Tail(queue) /\ processing' = processing \cup {t}
               /\ kept' = kept \ {t} /\ handed' = handed \cup {t}
               /\ call' = [call EXCEPT ![s].pc = "mkdir", ![s].task = t]
    /\ UNCHANGED <<file, loaded, sent, late, damaged, calls, faults>>

\* dequeue; nothing ever takes the task out of `processing` but clear
Dequeue(s) ==
    /\ At(s, "load") /\ call[s].kind = "dequeue" /\ loaded
    /\ IF queue = <<>> THEN Ends(s) /\ UNCHANGED <<queue, processing, kept>>
       ELSE LET t == Head(queue).task
            IN /\ queue' = Tail(queue) /\ processing' = processing \cup {t}
               /\ kept' = kept \ {t}
               /\ call' = [call EXCEPT ![s].pc = "mkdir", ![s].task = t]
    /\ UNCHANGED <<file, loaded, sent, handed, late, damaged, calls, faults>>

Clear(s) ==
    /\ At(s, "load") /\ call[s].kind = "clear"
    /\ queue' = <<>> /\ processing' = {} /\ loaded' = TRUE /\ kept' = {}
    /\ Goes(s, "mkdir")
    /\ UNCHANGED <<file, sent, handed, late, damaged, calls, faults>>

\* getQueueStats
Stats(s) == /\ At(s, "load") /\ call[s].kind = "stats" /\ loaded /\ Ends(s)
            /\ UNCHANGED <<file, queue, loaded, processing, sent, kept, handed, late, damaged,
                           calls, faults>>

\* setPriority: sorts again, and does not write
SetPriority(t) ==
    /\ calls < MaxCalls /\ calls' = calls + 1 /\ t \in TasksOf(queue)
    /\ \E high \in BOOLEAN :
         queue' \in Sorted([k \in DOMAIN queue |->
                            IF queue[k].task = t THEN [queue[k] EXCEPT !.high = high]
                            ELSE queue[k]])
    /\ UNCHANGED <<file, loaded, processing, call, sent, kept, handed, late, damaged, faults>>

\* persist, after the mkdir: writeFile truncates the file ...
Truncate(s) ==
    /\ At(s, "mkdir")
    /\ call' = [call EXCEPT ![s].pc = "writing", ![s].buf = queue]
    /\ file' = Torn
    /\ damaged' = (damaged \/ \E r \in Slots : At(r, "writing"))
    /\ UNCHANGED <<queue, loaded, processing, sent, kept, handed, late, calls, faults>>

\* ... and writes what the queue was then.  Two at once may mix their texts.
Written(s) ==
    /\ At(s, "writing")
    /\ file' \in {call[s].buf} \cup IF damaged THEN {Torn} ELSE {}
    /\ kept' = IF call[s].kind = "execute" /\ call[s].task \in TasksOf(queue)
               THEN kept \cup {call[s].task} ELSE kept
    /\ handed' = IF call[s].kind = "dequeue" THEN handed \cup {call[s].task} ELSE handed
    /\ Ends(s)
    /\ UNCHANGED <<queue, loaded, processing, sent, late, damaged, calls, faults>>

\* The mkdir or the write fails
Fails(s) ==
    /\ call[s].pc \in {"mkdir", "writing"} /\ faults < MaxFaults /\ faults' = faults + 1
    /\ damaged' = (damaged \/ At(s, "writing"))
    /\ Ends(s)
    /\ UNCHANGED <<file, queue, loaded, processing, sent, kept, handed, late, calls>>

\* The process dies; the next one starts on the file
Dies ==
    /\ faults < MaxFaults /\ faults' = faults + 1
    /\ damaged' = (damaged \/ \E s \in Slots : At(s, "writing"))
    /\ queue' = <<>> /\ loaded' = FALSE /\ processing' = {}
    /\ call' = [s \in Slots |-> Idle]
    /\ UNCHANGED <<file, sent, kept, handed, late, calls>>

Step(s) == \/ Credentials(s) \/ Answer(s) \/ StartLoad(s) \/ Assign(s) \/ Enqueue(s)
           \/ Dequeue(s) \/ Clear(s) \/ Stats(s) \/ Truncate(s) \/ Written(s)

Next == \/ \E s \in Slots : Step(s) \/ Fails(s)
        \/ \E s \in Slots, kind \in Kinds, t \in Tasks \cup {None} : Begin(s, kind, t)
        \/ \E t \in Tasks : SetPriority(t)
        \/ Dies

Spec == Init /\ [][Next]_vars

-----------------------------------------------------------------------------
\* The queue never holds more than it may, and is in order of priority
Bounded == /\ Len(queue) <= MaxSize
           /\ \A k \in 1..Len(queue) - 1 : queue[k + 1].high => queue[k].high

\* A task whose enqueue ended well stays, in the file and once loaded in memory,
\* until a dequeue takes it; one that a dequeue returned is never returned again,
\* not even after the process died.  What breaks it is a load assigned over a
\* loaded queue, and writes that cross or are cut off.
TakenOnce ==
    ~late /\ ~damaged =>
        /\ file # Torn => kept \subseteq TasksOf(file) /\ TasksOf(file) \cap handed = {}
        /\ loaded => kept \subseteq TasksOf(queue)
        /\ TasksOf(queue) \cap handed = {}

RateLimitInv == TypeOK /\ Bounded /\ TakenOnce
=============================================================================
