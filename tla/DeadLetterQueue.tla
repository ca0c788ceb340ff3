--------------------------- MODULE DeadLetterQueue ---------------------------
(***************************************************************************)
(* packages/core/src/dead-letter-queue.ts: a list of failed notes in memory  *)
(* and in a JSON file.  add, remove and clear hang on one promise chain;      *)
(* getAll, getByError and size load the file outside of it.  The process may  *)
(* die at any point and the queue is opened again on what the file holds.      *)
(***************************************************************************)
EXTENDS Naturals, Sequences

CONSTANTS Letters,    \* entries, each of a note of its own
          MaxCalls,   \* bound on add, remove and clear
          MaxLoads,   \* bound on loads by the reading calls
          MaxFaults,  \* bound on writes that fail and on deaths
          Torn,       \* a file that was truncated and not yet rewritten
          None        \* no load under way

VARIABLES
    file,      \* the entries in the file, or Torn
    entries, loaded,
    chain,     \* persistPromise: the calls that are not settled, in order
    stage,     \* how far the first of them is
    read,      \* the file as the load of that call found it
    poisoned,  \* persistPromise is rejected
    reader,    \* a load of getAll, getByError or size: what it found, or None
    accepted,  \* entries whose add was fulfilled and that nobody removed since
    late,      \* a load was assigned when the queue was loaded already
    torn,      \* a write was cut off half-way
    calls, loads, faults

vars == <<file, entries, loaded, chain, stage, read, poisoned, reader, accepted, late, torn,
          calls, loads, faults>>

Calls == [op : {"add", "remove"}, letter : Letters] \cup [op : {"clear"}]

TypeOK ==
    /\ file \in (SUBSET Letters) \cup {Torn}
    /\ entries \subseteq Letters /\ loaded \in BOOLEAN
    /\ chain \in Seq(Calls) /\ stage \in {"start", "loading", "mkdir", "writing"}
    /\ read \subseteq Letters
    /\ poisoned \in BOOLEAN
    /\ reader \in (SUBSET Letters) \cup {None}
    /\ accepted \subseteq Letters /\ late \in BOOLEAN /\ torn \in BOOLEAN
    /\ calls \in 0..MaxCalls /\ loads \in 0..MaxLoads /\ faults \in 0..MaxFaults

Init == /\ file = {} /\ entries = {} /\ loaded = FALSE
        /\ chain = <<>> /\ stage = "start" /\ read = {} /\ poisoned = FALSE
        /\ reader = None /\ accepted = {} /\ late = FALSE /\ torn = FALSE
        /\ calls = 0 /\ loads = 0 /\ faults = 0

\* readFile and JSON.parse: no file, and one that is not JSON, are an empty list
Parsed == IF file = Torn THEN {} ELSE file

\* add, remove, clear: a link of the chain.  On a rejected chain it never runs
\* and its caller gets the old error.
Call(c) == /\ calls < MaxCalls /\ calls' = calls + 1
           /\ c.op = "add" => \A k \in DOMAIN chain : chain[k] # c
           /\ chain' = IF poisoned THEN chain ELSE Append(chain, c)
           /\ UNCHANGED <<file, entries, loaded, stage, read, poisoned, reader, accepted, late,
                          torn, loads, faults>>

Busy == chain # <<>>

\* ensureLoaded of the first link: clear needs none
StartLoad == /\ Busy /\ stage = "start" /\ ~loaded /\ Head(chain).op # "clear"
             /\ read' = Parsed /\ stage' = "loading"
             /\ UNCHANGED <<file, entries, loaded, chain, poisoned, reader, accepted, late, torn,
                            calls, loads, faults>>

Changed(c, list) == CASE c.op = "add"    -> list \cup {c.letter}
                      [] c.op = "remove" -> list \ {c.letter}
                      [] OTHER           -> {}

\* A slip: an add does not wait for the load
ApplyUnloaded ==
    /\ Busy /\ stage = "start" /\ ~loaded
    /\ entries' = Changed(Head(chain), entries) /\ loaded' = TRUE
    /\ accepted' = accepted \cap Changed(Head(chain), accepted)
    /\ stage' = "mkdir"
    /\ UNCHANGED <<file, chain, read, poisoned, reader, late, torn, calls, loads, faults>>

\* The change itself, once loaded, and the mkdir before the write
Apply ==
    /\ Busy
    /\ \/ stage = "loading" /\ entries' = Changed(Head(chain), read)
       \/ /\ stage = "start" /\ (loaded \/ Head(chain).op = "clear")
          /\ entries' = Changed(Head(chain), entries)
    /\ late' = (late \/ (stage = "loading" /\ loaded))
    /\ loaded' = TRUE /\ stage' = "mkdir"
    /\ accepted' = accepted \cap Changed(Head(chain), accepted)
    /\ UNCHANGED <<file, chain, read, poisoned, reader, torn, calls, loads, faults>>

\* writeFile of what the list is by now: the file is truncated ...
Truncate == /\ stage = "mkdir" /\ file' = Torn /\ read' = entries /\ stage' = "writing"
            /\ UNCHANGED <<entries, loaded, chain, poisoned, reader, accepted, late, torn, calls,
                           loads, faults>>

\* ... and written; the call is fulfilled
Written ==
    /\ stage = "writing" /\ file' = read
    /\ accepted' = IF Head(chain).op = "add" THEN accepted \cup {Head(chain).letter} ELSE accepted
    /\ chain' = Tail(chain) /\ stage' = "start" /\ read' = {}
    /\ UNCHANGED <<entries, loaded, poisoned, reader, late, torn, calls, loads, faults>>

\* A slip: a failed write does not reject the links behind it
FailsForOne ==
    /\ Busy /\ faults < MaxFaults /\ faults' = faults + 1
    /\ torn' = (torn \/ stage = "writing")
    /\ accepted' = IF Head(chain).op = "add" THEN accepted \cup {Head(chain).letter} ELSE accepted
    /\ chain' = Tail(chain) /\ stage' = "start" /\ read' = {}
    /\ UNCHANGED <<file, entries, loaded, poisoned, reader, late, calls, loads>>

\* A read, mkdir or write fails: every link behind is rejected, now and later
Fails == /\ Busy /\ faults < MaxFaults /\ faults' = faults + 1
         /\ torn' = (torn \/ stage = "writing")
         /\ poisoned' = TRUE /\ chain' = <<>> /\ stage' = "start" /\ read' = {}
         /\ UNCHANGED <<file, entries, loaded, reader, accepted, late, calls, loads>>

\* The process dies; the next one opens the file
Dies == /\ faults < MaxFaults /\ faults' = faults + 1
        /\ torn' = (torn \/ stage = "writing")
        /\ entries' = {} /\ loaded' = FALSE /\ chain' = <<>> /\ stage' = "start" /\ read' = {}
        /\ poisoned' = FALSE /\ reader' = None
        /\ UNCHANGED <<file, accepted, late, calls, loads>>

\* getAll, getByError, size: ensureLoaded beside the chain
ReaderLoads == /\ reader = None /\ ~loaded /\ loads < MaxLoads /\ loads' = loads + 1
               /\ reader' = Parsed
               /\ UNCHANGED <<file, entries, loaded, chain, stage, read, poisoned, accepted, late,
                              torn, calls, faults>>
ReaderAssigns == /\ reader # None /\ reader' = None
                 /\ entries' = reader /\ late' = (late \/ loaded) /\ loaded' = TRUE
                 /\ UNCHANGED <<file, chain, stage, read, poisoned, accepted, torn, calls, loads,
                                faults>>

Next == \/ \E c \in Calls : Call(c)
        \/ StartLoad \/ Apply \/ Truncate \/ Written \/ Fails \/ Dies
        \/ ReaderLoads \/ ReaderAssigns

Spec == Init /\ [][Next]_vars

-----------------------------------------------------------------------------
\* A letter whose add was fulfilled is there until it is removed: in the file
\* between writes, and in memory once loaded, whatever other calls failed and
\* however often the process died.  Two things break it: a load that is assigned
\* over a loaded list, and a write cut off half-way.
AcceptedIsKept ==
    ~late /\ ~torn => /\ file # Torn => accepted \subseteq file
                      /\ loaded => accepted \subseteq entries

DeadLetterInv == TypeOK /\ AcceptedIsKept
=============================================================================
