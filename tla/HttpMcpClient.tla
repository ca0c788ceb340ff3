--------------------------- MODULE HttpMcpClient ---------------------------
(***************************************************************************)
(* packages/neurons-enrichment/src/http-mcp-client.ts: calls of tools over HTTP. *)
(* A session is opened by a handshake before the first call, and its name, taken   *)
(* from whatever response carries one, goes with each request; the client may be    *)
(* closed and used again while requests are under way.  The server is external: it   *)
(* opens sessions, answers within those it knows, and may forget them or fail.       *)
(***************************************************************************)
EXTENDS Naturals

CONSTANTS Calls, MaxCloses, MaxForgets,
          None

Epochs == 1..(MaxCloses + 1)   \* each has the one `initialized` of its time

VARIABLES
    tool,      \* call -> "new", "shaking", "asking", "done" or "failed"
    awaits,    \* call -> the epoch whose handshake it awaits or has awaited
    carried,   \* call -> the session its request named
    epoch,     \* whose promise `initialized` is, or None
    hand,      \* epoch -> "none", "initialize", "notify", "ok" or "failed"
    session,   \* this.sessionId
    alive,     \* sessions the server knows; an epoch's handshake opens the one of its number
    posts,     \* how often `initialize` was posted
    crossed,   \* a call or a response of an earlier epoch met a later one
    closes, forgets

vars == <<tool, awaits, carried, epoch, hand, session, alive, posts, crossed, closes, forgets>>

TypeOK ==
    /\ tool \in [Calls -> {"new", "shaking", "asking", "done", "failed"}]
    /\ awaits \in [Calls -> Epochs \cup {None}] /\ carried \in [Calls -> Epochs \cup {None}]
    /\ epoch \in Epochs \cup {None}
    /\ hand \in [Epochs -> {"none", "initialize", "notify", "ok", "failed"}]
    /\ session \in Epochs \cup {None} /\ alive \subseteq Epochs /\ posts \in Nat
    /\ crossed \in BOOLEAN /\ closes \in 0..MaxCloses /\ forgets \in 0..MaxForgets

Init == /\ tool = [t \in Calls |-> "new"] /\ awaits = [t \in Calls |-> None]
        /\ carried = [t \in Calls |-> None] /\ epoch = None
        /\ hand = [e \in Epochs |-> "none"] /\ session = None /\ alive = {} /\ posts = 0
        /\ crossed = FALSE /\ closes = 0 /\ forgets = 0

Shaking(e) == {t \in Calls : tool[t] = "shaking" /\ awaits[t] = e}

\* Those of ts go on to post tools/call, with the session of the moment
Post(ts) == /\ tool' = [t \in Calls |-> IF t \in ts THEN "asking" ELSE tool[t]]
            /\ carried' = [t \in Calls |-> IF t \in ts THEN session' ELSE carried[t]]
Fail(ts) == /\ tool' = [t \in Calls |-> IF t \in ts THEN "failed" ELSE tool[t]]
            /\ UNCHANGED carried

\* A slip: the promise is kept when the handshake has ended
KeptLate == IF epoch # None /\ hand[epoch] \in {"ok", "failed"} THEN epoch ELSE None

\* this.initialized
Kept == epoch

\* ensureInitialized: the first call of an epoch posts `initialize`
Open(t) ==
    /\ Kept = None /\ epoch' = closes + 1 /\ posts' = posts + 1
    /\ hand' = [hand EXCEPT ![closes + 1] = "initialize"]
    /\ tool' = [tool EXCEPT ![t] = "shaking"] /\ awaits' = [awaits EXCEPT ![t] = closes + 1]
    /\ UNCHANGED carried

\* ... and the others await it, have it, or fail as it did
Join(t) ==
    /\ Kept # None /\ awaits' = [awaits EXCEPT ![t] = Kept]
    /\ CASE hand[Kept] = "ok"     -> Post({t})
         [] hand[Kept] = "failed" -> Fail({t})
         [] OTHER -> tool' = [tool EXCEPT ![t] = "shaking"] /\ UNCHANGED carried
    /\ UNCHANGED <<epoch, hand, posts>>

CallTool(t) == /\ tool[t] = "new" /\ UNCHANGED session /\ (Open(t) \/ Join(t))
               /\ UNCHANGED <<alive, crossed, closes, forgets>>

\* The response to `initialize` names a new session, or it failed: for good, within
\* this epoch
Initialized(e) ==
    /\ hand[e] = "initialize"
    /\ \/ /\ alive' = alive \cup {e} /\ session' = e
          /\ hand' = [hand EXCEPT ![e] = "notify"] /\ UNCHANGED <<tool, carried>>
       \/ /\ hand' = [hand EXCEPT ![e] = "failed"] /\ Fail(Shaking(e))
          /\ UNCHANGED <<alive, session>>
    /\ crossed' = (crossed \/ e # epoch)
    /\ UNCHANGED <<awaits, epoch, posts, closes, forgets>>

\* notifications/initialized: any response will do, so it fails with the network only
Notified(e) ==
    /\ hand[e] = "notify" /\ UNCHANGED session
    /\ \/ hand' = [hand EXCEPT ![e] = "ok"] /\ Post(Shaking(e))
       \/ hand' = [hand EXCEPT ![e] = "failed"] /\ Fail(Shaking(e))
    /\ crossed' = (crossed \/ e # epoch)
    /\ UNCHANGED <<awaits, epoch, alive, posts, closes, forgets>>

\* The response of a tool: an answer, if the server knows the session, or a failure.
\* It may name its session again.
Answered(t) ==
    /\ tool[t] = "asking"
    /\ \/ carried[t] \in alive /\ tool' = [tool EXCEPT ![t] = "done"]
       \/ tool' = [tool EXCEPT ![t] = "failed"]
    /\ session' \in {session} \cup ({carried[t]} \cap alive)
    /\ crossed' = (crossed \/ awaits[t] # epoch)
    /\ UNCHANGED <<awaits, carried, epoch, hand, alive, posts, closes, forgets>>

\* A slip: the session outlives the client that is closed
CloseKeepingSession ==
    /\ closes < MaxCloses /\ epoch # None /\ closes' = closes + 1 /\ epoch' = None
    /\ UNCHANGED <<tool, awaits, carried, hand, session, alive, posts, crossed, forgets>>

close == /\ closes < MaxCloses /\ epoch # None /\ closes' = closes + 1
         /\ epoch' = None /\ session' = None
         /\ UNCHANGED <<tool, awaits, carried, hand, alive, posts, crossed, forgets>>

\* The server restarts
Forget == /\ forgets < MaxForgets /\ alive # {} /\ forgets' = forgets + 1 /\ alive' = {}
          /\ UNCHANGED <<tool, awaits, carried, epoch, hand, session, posts, crossed, closes>>

Step == \/ \E e \in Epochs : Initialized(e) \/ Notified(e)
        \/ \E t \in Calls : Answered(t)

Next == Step \/ (\E t \in Calls : CallTool(t)) \/ close \/ Forget

Spec == Init /\ [][Next]_vars

-----------------------------------------------------------------------------
\* However many calls come at once, there is one handshake from one close to the next,
\* and no call asks before the one it awaits has succeeded
HandshakeFirst ==
    /\ posts <= closes + 1
    /\ \A t \in Calls : tool[t] \in {"asking", "done"} => hand[awaits[t]] = "ok"

\* A call names the session of its own handshake, unless the client was closed and used
\* again with requests under way: the late response's session is then everybody's
OwnSession ==
    \A t \in Calls : tool[t] = "asking" => carried[t] = awaits[t] \/ crossed

\* Until a request is under way across a close, the client names no session but the one
\* its handshake opened
SessionOfEpoch == session # None => session = epoch \/ crossed

HttpInv == TypeOK /\ HandshakeFirst /\ OwnSession /\ SessionOfEpoch

\* No call waits
Quiet == \A t \in Calls : tool[t] \notin {"shaking", "asking"}
=============================================================================
