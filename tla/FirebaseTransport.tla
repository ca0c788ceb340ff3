------------------------- MODULE FirebaseTransport -------------------------
(***************************************************************************)
(* packages/adapter-firebase: changes of status are published as documents of a  *)
(* collection, and a listener on it tells the handlers that have subscribed, each   *)
(* of them a SyncCoordinator.handleRemoteEvent.  Firestore is external: it reports    *)
(* to a new listener all documents there are, later those that change, with what      *)
(* they say when it reports them; after an error it reports nothing more.            *)
(***************************************************************************)
EXTENDS IssueStatus, Naturals

CONSTANTS Docs, Handlers, Published,  \* Published: the statuses that are published
          MaxPublishes, MaxSubscribes, MaxFaults,
          None

VARIABLES
    docs,      \* document -> what it says, or None
    handlers,  \* this.handlers: each of them is told, in an order nothing depends on
    listener,  \* "none", "live" or "dead": its error was logged
    feed,      \* documents the listener has still to report
    view,      \* handler -> document -> the status of the last event it was told
    noted,     \* handler -> document -> the last event was a STATUS_CHANGE
    due,       \* handler -> documents it is to know of since it subscribed
    publishes, subscribes, faults

vars == <<docs, handlers, listener, feed, view, noted, due, publishes, subscribes, faults>>

TypeOK ==
    /\ docs \in [Docs -> [status : Statuses, prev : Statuses] \cup {None}]
    /\ handlers \subseteq Handlers /\ listener \in {"none", "live", "dead"} /\ feed \subseteq Docs
    /\ view \in [Handlers -> [Docs -> Statuses \cup {None}]]
    /\ noted \in [Handlers -> SUBSET Docs] /\ due \in [Handlers -> SUBSET Docs]
    /\ publishes \in 0..MaxPublishes /\ subscribes \in 0..MaxSubscribes /\ faults \in 0..MaxFaults

Init == /\ docs = [d \in Docs |-> None] /\ handlers = {} /\ listener = "none" /\ feed = {}
        /\ view = [h \in Handlers |-> [d \in Docs |-> None]]
        /\ noted = [h \in Handlers |-> {}] /\ due = [h \in Handlers |-> {}]
        /\ publishes = 0 /\ subscribes = 0 /\ faults = 0

There == {d \in Docs : docs[d] # None}

\* The handlers are now hs; those that have left are to know of nothing
Now(hs) == /\ handlers' = hs
           /\ due' = [h \in Handlers |-> IF h \in hs THEN due[h] ELSE {}]

\* subscribe: the first handler starts a listener
subscribe(h) ==
    /\ h \notin handlers /\ subscribes < MaxSubscribes /\ subscribes' = subscribes + 1
    /\ handlers' = handlers \cup {h}
    /\ IF listener = "none" THEN listener' = "live" /\ feed' = There
                            ELSE UNCHANGED <<listener, feed>>
    /\ due' = [due EXCEPT ![h] = IF handlers = {} THEN There ELSE {}]
    /\ UNCHANGED <<docs, view, noted, publishes, faults>>

\* A slip: the listener is stopped, and kept
UnsubscribeKeeping(h) ==
    /\ h \in handlers /\ Now(handlers \ {h})
    /\ IF handlers' = {} /\ listener # "none" THEN listener' = "dead" /\ feed' = {}
                                               ELSE UNCHANGED <<listener, feed>>
    /\ UNCHANGED <<docs, view, noted, publishes, subscribes, faults>>

\* unsubscribe: the last one stops it
unsubscribe(h) ==
    /\ h \in handlers /\ Now(handlers \ {h})
    /\ IF handlers' = {} THEN listener' = "none" /\ feed' = {} ELSE UNCHANGED <<listener, feed>>
    /\ UNCHANGED <<docs, view, noted, publishes, subscribes, faults>>

disconnect ==
    /\ handlers # {} /\ Now({}) /\ listener' = "none" /\ feed' = {}
    /\ UNCHANGED <<docs, view, noted, publishes, subscribes, faults>>

\* publish: the document is merged, whoever else has published meanwhile
publish(d, s) ==
    /\ publishes < MaxPublishes /\ publishes' = publishes + 1
    /\ docs' = [docs EXCEPT ![d] = [status |-> s,
                                   prev |-> IF docs[d] = None THEN "TODO" ELSE docs[d].status]]
    /\ feed' = IF listener = "live" THEN feed \cup {d} ELSE feed
    /\ due' = [h \in Handlers |-> IF h \in handlers THEN due[h] \cup {d} ELSE due[h]]
    /\ UNCHANGED <<handlers, listener, view, noted, subscribes, faults>>

\* firebase-mapper.ts reads a document's status as it was published
firestoreDocToCanonical(s) == s

\* A slip: a status nobody thought of
NormalizeNoReview(s) == IF s \in {"TODO", "REVIEW"} THEN "READY" ELSE s

\* The listener's own reading takes todo for READY
normalizeStatus(s) == IF s = "TODO" THEN "READY" ELSE s

\* The handler of onSnapshot: every handler there is now is told of the event, whichever
\* of them throw or unsubscribe at that
Report(d) ==
    /\ listener = "live" /\ d \in feed
    /\ LET new  == normalizeStatus(docs[d].status)
           prev == normalizeStatus(docs[d].prev)
           told == handlers
       IN /\ view' = [h \in Handlers |-> IF h \in told THEN [view[h] EXCEPT ![d] = new] ELSE view[h]]
          /\ noted' = [h \in Handlers |->
                         CASE h \in told /\ prev # new -> noted[h] \cup {d}
                           [] h \in told /\ prev = new -> noted[h] \ {d}
                           [] OTHER -> noted[h]]
    /\ \E leaving \in SUBSET handlers :
         /\ Now(handlers \ leaving)
         /\ IF handlers' = {} THEN listener' = "none" /\ feed' = {}
                                ELSE feed' = feed \ {d} /\ UNCHANGED listener
    /\ UNCHANGED <<docs, publishes, subscribes, faults>>

\* The listener's error is logged; Firestore has dropped it
ListenerFails ==
    /\ listener = "live" /\ faults < MaxFaults /\ faults' = faults + 1
    /\ listener' = "dead" /\ feed' = {}
    /\ UNCHANGED <<docs, handlers, view, noted, due, publishes, subscribes>>

Next == \/ \E h \in Handlers : subscribe(h) \/ unsubscribe(h)
        \/ \E d \in Docs : Report(d) \/ \E s \in Published : publish(d, s)
        \/ disconnect \/ ListenerFails

Spec == Init /\ [][Next]_vars

-----------------------------------------------------------------------------
\* Told of a document and not about to be told again, a handler has the status the
\* document says, but READY for TODO; unless the listener has failed
Known(h, d) == d \in due[h] /\ d \notin feed

ViewsCatchUp ==
    faults = 0 => \A h \in Handlers, d \in Docs : Known(h, d) =>
       view[h][d] = LET s == firestoreDocToCanonical(docs[d].status)
                    IN IF s = "TODO" THEN "READY" ELSE s

\* A document that says it has changed is a STATUS_CHANGE to all of them, but for a
\* change from TODO to READY or back, which reads as none
ChangesNoted ==
    faults = 0 => \A h \in Handlers, d \in Docs : Known(h, d) =>
       (d \in noted[h] <=> /\ docs[d].prev # docs[d].status
                           /\ {docs[d].prev, docs[d].status} # {"TODO", "READY"})

\* As long as anybody listens there is one listener, failed or not
ListenerKept == handlers = {} <=> listener = "none"

TransportInv == TypeOK /\ ViewsCatchUp /\ ChangesNoted /\ ListenerKept
=============================================================================
