------------------------------ MODULE Sessions ------------------------------
(***************************************************************************)
(* packages/adapter-cli/src/session-manager.ts: the commands an adapter runs, *)
(* the sessions kept about them, cancelling and timeouts.  A call is one run of *)
(* startSession; its session is kept under an id the caller chooses (the task,   *)
(* the status and the millisecond), so two calls may come to share one.         *)
(***************************************************************************)
EXTENDS Naturals, FiniteSets

CONSTANTS SessionCalls, Ids,
          MaxSessions,   \* maxSessions
          MaxCancels,    \* bound on calls of cancelSession
          None

VARIABLES
    sessions,   \* the map: id -> its session, or None
    call,       \* call -> "new", "running", "succeeded" or "failed"
    id,         \* call -> the id it was started with
    child,      \* call -> its process: "none", "unborn", "alive", "exited" or "closed"
    code,       \* call -> whether its process exited with 0
    sent,       \* call -> the signals that reached its process
    timer,      \* calls whose timeout has not been cleared
    late,       \* calls the timeout ended
    cancels

vars == <<sessions, call, id, child, code, sent, timer, late, cancels>>

\* A map keeps the order in which its keys were first set: place
Session == [process : SessionCalls \cup {None}, place : Nat,
            status : {"running", "completed", "failed", "cancelled"}]

TypeOK ==
    /\ sessions \in [Ids -> Session \cup {None}]
    /\ call \in [SessionCalls -> {"new", "running", "succeeded", "failed"}]
    /\ id \in [SessionCalls -> Ids \cup {None}]
    /\ child \in [SessionCalls -> {"none", "unborn", "alive", "exited", "closed"}]
    /\ code \in [SessionCalls -> BOOLEAN]
    /\ sent \in [SessionCalls -> SUBSET {"TERM", "KILL"}]
    /\ timer \subseteq SessionCalls /\ late \subseteq SessionCalls
    /\ cancels \in 0..MaxCancels

Init == /\ sessions = [i \in Ids |-> None] /\ call = [c \in SessionCalls |-> "new"]
        /\ id = [c \in SessionCalls |-> None] /\ child = [c \in SessionCalls |-> "none"]
        /\ code = [c \in SessionCalls |-> FALSE] /\ sent = [c \in SessionCalls |-> {}]
        /\ timer = {} /\ late = {} /\ cancels = 0

Has(i)      == sessions[i] # None
Finished(s) == s # None /\ s.status # "running"

\* A handler of call c makes s of the session now kept under its id, if any
Of(c) == sessions[id[c]]
OfSession(c, s) == IF Has(id[c]) THEN [sessions EXCEPT ![id[c]] = s] ELSE sessions

Size(kept) == Cardinality({i \in Ids : kept[i] # None})

\* cleanupCompletedSessions: beyond the limit, the finished ones go, the oldest
\* first, until four fifths of the limit are left
Older(kept, i) == {j \in Ids : Finished(kept[j]) /\ kept[j].place < kept[i].place}
Goes(kept, i)  == /\ Finished(kept[i])
                  /\ 10 * (Size(kept) - Cardinality(Older(kept, i))) > 8 * MaxSessions
Swept(kept) == [i \in Ids |-> IF Goes(kept, i) THEN None ELSE kept[i]]

cleanup(kept) == IF Size(kept) <= MaxSessions THEN kept ELSE Swept(kept)

-----------------------------------------------------------------------------
\* startSession: the session is put under its id, in the place an earlier one of
\* that id had, and the command is spawned, which may fail
Start(c) ==
    /\ call[c] = "new" /\ call' = [call EXCEPT ![c] = "running"]
    /\ \E i \in Ids, born \in {"unborn", "alive"} :
         LET place == IF Has(i) THEN sessions[i].place
                      ELSE Cardinality({d \in SessionCalls : call[d] # "new"})
         IN /\ sessions' = [sessions EXCEPT ![i] =
                             [process |-> c, place |-> place, status |-> "running"]]
            /\ id' = [id EXCEPT ![c] = i] /\ child' = [child EXCEPT ![c] = born]
    /\ timer' = timer \cup {c}
    /\ UNCHANGED <<code, sent, late, cancels>>

\* The command exits, of its own will or because of a signal.  The SIGTERM may be
\* ignored, the SIGKILL may not.
Exit(c) ==
    /\ child[c] = "alive" /\ child' = [child EXCEPT ![c] = "exited"]
    /\ \E ok \in BOOLEAN : code' = [code EXCEPT ![c] = ok]
    /\ UNCHANGED <<sessions, call, id, sent, timer, late, cancels>>

\* A slip: a cancelled session keeps its status
SettleUncancelled(s, how) == [s EXCEPT !.status = IF @ = "cancelled" THEN @ ELSE how]

Settle(s, how) == [s EXCEPT !.status = how]

Released(s) == [s EXCEPT !.process = None]

\* 'close', or 'error' of a command that could not be spawned.  startSession goes on
\* at once, unless the timeout has ended it.
Close(c) ==
    /\ child[c] \in {"exited", "unborn"} /\ child' = [child EXCEPT ![c] = "closed"]
    /\ timer' = timer \ {c}
    /\ IF c \in late
       THEN sessions' = OfSession(c, Released(Of(c))) /\ UNCHANGED call
       ELSE LET how == IF code[c] THEN "completed" ELSE "failed"
            IN /\ sessions' = cleanup(OfSession(c, Settle(Released(Of(c)), how)))
               /\ call' = [call EXCEPT ![c] = IF code[c] THEN "succeeded" ELSE "failed"]
    /\ UNCHANGED <<id, code, sent, late, cancels>>

\* What kill does: a process that has exited is not reached, and not `killed`
Signalled(c, signal) ==
    IF child[c] = "alive" THEN [sent EXCEPT ![c] = @ \cup {signal}] ELSE sent

\* A slip: the timeout only ends the call
TimeoutOfCall(c) ==
    /\ c \in timer /\ timer' = timer \ {c} /\ late' = late \cup {c}
    /\ sessions' = OfSession(c, Settle(Of(c), "failed"))
    /\ call' = [call EXCEPT ![c] = "failed"]
    /\ UNCHANGED <<id, child, code, sent, cancels>>

\* The timeout: a SIGKILL, unless a signal was already sent; no cleanup
Timeout(c) ==
    /\ c \in timer /\ timer' = timer \ {c} /\ late' = late \cup {c}
    /\ sent' = IF sent[c] = {} THEN Signalled(c, "KILL") ELSE sent
    /\ sessions' = OfSession(c, Settle(Of(c), "failed"))
    /\ call' = [call EXCEPT ![c] = "failed"]
    /\ UNCHANGED <<id, child, code, cancels>>

\* cancelSession.  The timer it starts for a SIGKILL five seconds later finds the
\* process closed or `killed`, and does nothing.
Cancel(i) ==
    /\ cancels < MaxCancels /\ cancels' = cancels + 1 /\ Has(i)
    /\ LET c == sessions[i].process
           stop == c # None /\ child[c] # "unborn" /\ sent[c] = {}
       IN /\ sent' = IF stop THEN Signalled(c, "TERM") ELSE sent
          /\ sessions' = cleanup(IF stop THEN [sessions EXCEPT ![i].status = "cancelled"]
                                 ELSE sessions)
    /\ UNCHANGED <<call, id, child, code, timer, late>>

\* The processes and timers: what happens without a caller
Step == \E c \in SessionCalls : Close(c) \/ Timeout(c) \/ (Exit(c) /\ "KILL" \in sent[c])

Next == \/ \E c \in SessionCalls : Start(c) \/ Exit(c) \/ Close(c) \/ Timeout(c)
        \/ \E i \in Ids : Cancel(i)

-----------------------------------------------------------------------------
Returned(c) == call[c] \in {"succeeded", "failed"}

\* No other call was given the id of c
Alone(c) == \A d \in SessionCalls \ {c} : id[d] # id[c]

\* Once a call has returned its process has ended, or a signal is on its way to it.
\* A SIGTERM it ignores may leave it running: nothing is sent after that.
NoneLeftBehind ==
    \A c \in SessionCalls : Returned(c) /\ child[c] = "alive" => sent[c] # {}

\* The session of a call whose id is its own is there, with its process, while it
\* runs, and afterwards tells the call's result, whether or not it was cancelled in
\* the meantime
SessionsTell ==
    \A c \in SessionCalls : id[c] # None /\ Alone(c) =>
       /\ call[c] = "running" => Has(id[c]) \/ sent[c] # {} \/ child[c] = "exited"
       /\ Has(id[c]) => LET s == sessions[id[c]] IN
            /\ s.process = IF child[c] = "closed" THEN None ELSE c
            /\ call[c] = "running" => s.status \in {"running", "cancelled"}
            /\ Returned(c) => \/ s.status = IF call[c] = "succeeded" THEN "completed" ELSE "failed"
                              \/ c \in late /\ s.status = "cancelled"

\* Besides the calls a timeout ended, no more finished sessions are kept than the
\* limit allows
FinishedAreFew ==
    Cardinality({i \in Ids : Finished(sessions[i])}) <= MaxSessions + Cardinality(late)

SessionsInv == TypeOK /\ NoneLeftBehind /\ SessionsTell /\ FinishedAreFew

\* No call is running, and every process has ended unless a SIGTERM was all it was sent
Quiet == \A c \in SessionCalls :
           /\ call[c] # "running"
           /\ child[c] = "alive" => "TERM" \in sent[c]
=============================================================================
