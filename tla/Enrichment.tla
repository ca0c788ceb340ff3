----------------------------- MODULE Enrichment -----------------------------
(***************************************************************************)
(* packages/neurons-enrichment/src/provider.ts, as applyBoardEnrichment of      *)
(* boards/board-projection.ts uses it: what a brain knows of the issues of a      *)
(* board is looked up, a few issues at once, through the tools of an MCP client,   *)
(* and cached for a while.  The client and what the brain knows are external: a    *)
(* lookup finds what its brain knows or, all its calls failing, nothing.            *)
(***************************************************************************)
EXTENDS Naturals, FiniteSets

CONSTANTS Boards, BrainOf,  \* calls of fetchForBoard, each with its brainSlug
          Issues,           \* numbers: every board asks for all of them, in their order
          Limit, Ttl,       \* concurrency and cacheTtlMs
          MaxTicks,
          None

Brains == {BrainOf[b] : b \in Boards}

VARIABLES
    now,
    cache,     \* brain and issue -> the entry: what of which brain, or nothing, and when
    phase,     \* board -> "new", "running" or "done"
    started,   \* board -> when it was asked for
    misses,    \* board -> issues no worker has taken yet
    worker,    \* board -> the lookups under way: issue, what was found, whether it was
    out,       \* board -> issue -> what it shows, or None
    blank      \* board -> issues it was told nothing is found of

vars == <<now, cache, phase, started, misses, worker, out, blank>>

Entry == [value : Brains \cup {None}, at : 0..MaxTicks]

TypeOK ==
    /\ now \in 0..MaxTicks
    /\ cache \in [Brains \X Issues -> Entry \cup {None}]
    /\ phase \in [Boards -> {"new", "running", "done"}] /\ started \in [Boards -> 0..MaxTicks]
    /\ misses \in [Boards -> SUBSET Issues]
    /\ worker \in [Boards ->
         SUBSET [issue : Issues, found : Brains \cup {None}, answered : BOOLEAN]]
    /\ out \in [Boards -> [Issues -> Entry \cup {None}]] /\ blank \in [Boards -> SUBSET Issues]

Init == /\ now = 0
        /\ cache = [k \in Brains \X Issues |-> None]
        /\ phase = [b \in Boards |-> "new"] /\ started = [b \in Boards |-> 0]
        /\ misses = [b \in Boards |-> {}] /\ worker = [b \in Boards |-> {}]
        /\ out = [b \in Boards |-> [i \in Issues |-> None]] /\ blank = [b \in Boards |-> {}]

\* A slip: two brains share an entry
CacheKeyOfIssue(brain, i) == <<CHOOSE k \in Brains : TRUE, i>>

cacheKey(brain, i) == <<brain, i>>

\* A slip: an entry is good for one moment more
ReadCacheLate(brain, i) ==
    LET e == cache[cacheKey(brain, i)]
    IN IF Ttl = 0 \/ e = None \/ now > e.at + Ttl THEN None ELSE e

readCache(brain, i) ==
    LET e == cache[cacheKey(brain, i)]
    IN IF Ttl = 0 \/ e = None \/ now >= e.at + Ttl THEN None ELSE e

\* applyBoardEnrichment of one board, once the one before is done: fetchForBoard, up to
\* its first await, with what is in the cache and what is not
FetchForBoard(b) ==
    /\ phase[b] = "new" /\ \A o \in Boards : phase[o] # "running"
    /\ phase' = [phase EXCEPT ![b] = "running"]
    /\ started' = [started EXCEPT ![b] = now]
    /\ LET hit == [i \in Issues |-> readCache(BrainOf[b], i)]
       IN /\ misses' = [misses EXCEPT ![b] = {i \in Issues : hit[i] = None}]
          /\ out' = [out EXCEPT ![b] = [i \in Issues |->
                       IF hit[i] = None \/ hit[i].value = None THEN None ELSE hit[i]]]
          /\ blank' = [blank EXCEPT ![b] = {i \in Issues : hit[i] # None /\ hit[i].value = None}]
          /\ cache' = [k \in Brains \X Issues |->
                         IF k[1] = BrainOf[b] /\ Ttl > 0 THEN hit[k[2]] ELSE cache[k]]
    /\ UNCHANGED <<now, worker>>

\* A slip: every miss is looked up at once
Unlimited(b) == TRUE

\* runWithLimit has no more workers than its limit
Free(b) == Cardinality(worker[b]) < Limit

\* A worker takes the next issue, and fetchOne calls the tools
Take(b) ==
    /\ phase[b] = "running" /\ Free(b)
    /\ \E i \in misses[b] :
         /\ \A j \in misses[b] : i <= j
         /\ misses' = [misses EXCEPT ![b] = @ \ {i}]
         /\ worker' = [worker EXCEPT ![b] =
                         @ \cup {[issue |-> i, found |-> None, answered |-> FALSE]}]
    /\ UNCHANGED <<now, cache, phase, started, out, blank>>

\* The tools answer, or safeCall swallows why none of them does
Answer(b, w) ==
    /\ w \in worker[b] /\ ~w.answered
    /\ \E found \in {None, BrainOf[b]} :
         worker' = [worker EXCEPT ![b] = (@ \ {w}) \cup
                      {[w EXCEPT !.found = found, !.answered = TRUE]}]
    /\ UNCHANGED <<now, cache, phase, started, misses, out, blank>>

\* writeCache, also of nothing, and the board's own result
Fetched(b, w) ==
    /\ w \in worker[b] /\ w.answered /\ worker' = [worker EXCEPT ![b] = @ \ {w}]
    /\ LET e == [value |-> w.found, at |-> now]
       IN /\ cache' = IF Ttl = 0 THEN cache
                      ELSE [cache EXCEPT ![cacheKey(BrainOf[b], w.issue)] = e]
          /\ out' = IF w.found = None THEN out ELSE [out EXCEPT ![b][w.issue] = e]
          /\ blank' = IF w.found = None THEN [blank EXCEPT ![b] = @ \cup {w.issue}] ELSE blank
    /\ UNCHANGED <<now, phase, started, misses>>

\* A slip: the first worker without an issue to take ends the call
DoneEarly(b) ==
    /\ phase[b] = "running" /\ misses[b] = {} /\ phase' = [phase EXCEPT ![b] = "done"]
    /\ UNCHANGED <<now, cache, started, misses, worker, out, blank>>

\* All workers have ended: the board has its result
Done(b) ==
    /\ phase[b] = "running" /\ misses[b] = {} /\ worker[b] = {}
    /\ phase' = [phase EXCEPT ![b] = "done"]
    /\ UNCHANGED <<now, cache, started, misses, worker, out, blank>>

Tick == /\ now < MaxTicks /\ now' = now + 1
        /\ UNCHANGED <<cache, phase, started, misses, worker, out, blank>>

Next == \/ \E b \in Boards : \/ FetchForBoard(b) \/ Take(b) \/ Done(b)
                             \/ \E w \in worker[b] : Answer(b, w) \/ Fetched(b, w)
        \/ Tick

Spec == Init /\ [][Next]_vars

-----------------------------------------------------------------------------
\* What a board shows is of its own brain, and when the board was asked for it was
\* cached for less than the time to live
FreshAndOwn ==
    \A b \in Boards, i \in Issues : LET e == out[b][i] IN
       e # None => e.value = BrainOf[b] /\ (e.at >= started[b] \/ started[b] - e.at < Ttl)

\* No board has more lookups under way than the limit, and one that is done has, of
\* every issue, what was found or that nothing was, never both
EveryIssueOnce ==
    \A b \in Boards :
       /\ Cardinality(worker[b]) <= Limit
       /\ phase[b] = "done" => \A i \in Issues : (out[b][i] = None) <=> (i \in blank[b])

EnrichmentInv == TypeOK /\ FreshAndOwn /\ EveryIssueOnce
=============================================================================
