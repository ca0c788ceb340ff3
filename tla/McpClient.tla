----------------------------- MODULE McpClient -----------------------------
(***************************************************************************)
(* packages/neurons-enrichment/src/mcp-stdio-client.ts: calls of tools over the *)
(* standard input and output of a process that is started on demand, a handshake *)
(* before the first of them, and a client that may be closed and used again.     *)
(* The process is external: it answers what it reads, or exits.  Numbers are     *)
(* never used again, so a request is known by who asks and of which process; it   *)
(* is pending while its call asks, or its handshake waits.                       *)
(***************************************************************************)
EXTENDS Naturals, Sequences, SequencesExt

CONSTANTS ToolCalls,
          MaxCloses,   \* bound on calls of close
          None

Servers == 1..(MaxCloses + 1)   \* each has the one `initialized` of its time

VARIABLES
    tool,     \* call -> "new", "shaking" (awaits the handshake), "asking", "done", "failed"
    got,      \* call -> whose answer it was resolved with
    proc,     \* this.proc, or None
    server,   \* server -> "none", "up", "dead" or "gone" (its exit was reported)
    hand,     \* server -> its handshake: "none", "waiting", "ok" or "failed"
    asked,    \* server -> who waits for its answer
    told,     \* server -> its output, in pieces of lines
    buffer,   \* the pieces onData has kept
    closes,
    crashed,  \* a write found the pipe broken, and nothing listens to the pipe's errors
    eaten     \* a line was lost to what an earlier process had left in the buffer

vars == <<tool, got, proc, server, hand, asked, told, buffer, closes, crashed, eaten>>

Asker == ToolCalls \cup {None}      \* None: the client, its handshake
Piece == [to : Asker, from : Servers, ok : BOOLEAN, part : {"whole", "first", "second"}]

TypeOK ==
    /\ tool \in [ToolCalls -> {"new", "shaking", "asking", "done", "failed"}]
    /\ got \in [ToolCalls -> Asker]
    /\ proc \in Servers \cup {None} /\ server \in [Servers -> {"none", "up", "dead", "gone"}]
    /\ hand \in [Servers -> {"none", "waiting", "ok", "failed"}]
    /\ asked \in [Servers -> SUBSET Asker]
    /\ told \in [Servers -> Seq(Piece)] /\ buffer \in Seq(Piece)
    /\ closes \in 0..MaxCloses /\ crashed \in BOOLEAN /\ eaten \in BOOLEAN

Init ==
    /\ tool = [t \in ToolCalls |-> "new"] /\ got = [t \in ToolCalls |-> None]
    /\ proc = None /\ server = [p \in Servers |-> "none"] /\ hand = [p \in Servers |-> "none"]
    /\ asked = [p \in Servers |-> {}] /\ told = [p \in Servers |-> <<>>] /\ buffer = <<>>
    /\ closes = 0 /\ crashed = FALSE /\ eaten = FALSE

With(state) == {t \in ToolCalls : tool[t] = state}
Set(ts, state) == [t \in ToolCalls |-> IF t \in ts THEN state ELSE tool[t]]

-----------------------------------------------------------------------------
(* Requests *)

\* A write to p, whose state is s, for those who ask.  To a process that has exited
\* and was not reported it is lost, or finds the pipe broken; afterwards the pipe is
\* destroyed, and the write's callback rejects.
Write(p, s, askers) ==
    /\ asked' = IF s = "up" THEN [asked EXCEPT ![p] = @ \cup askers] ELSE asked
    /\ IF s = "dead" THEN crashed' \in BOOLEAN ELSE UNCHANGED crashed

\* callTool while there is no process: ensureStarted, which may fail to, and the
\* handshake
Start(t) ==
    /\ proc = None
    /\ LET p == closes + 1
       IN \E s \in {"up", "dead"} :
            /\ server' = [server EXCEPT ![p] = s] /\ proc' = p
            /\ hand' = [hand EXCEPT ![p] = "waiting"] /\ Write(p, s, {None})
    /\ tool' = Set({t}, "shaking")

\* callTool while there is one, dead or not: it awaits the handshake, fails as the
\* handshake did, or asks
Ask(t) ==
    /\ proc # None
    /\ CASE hand[proc] = "waiting" -> tool' = Set({t}, "shaking") /\ UNCHANGED <<asked, crashed>>
         [] hand[proc] = "failed"  -> tool' = Set({t}, "failed") /\ UNCHANGED <<asked, crashed>>
         [] hand[proc] = "ok" /\ server[proc] = "gone" ->
              tool' = Set({t}, "failed") /\ UNCHANGED <<asked, crashed>>
         [] OTHER -> tool' = Set({t}, "asking") /\ Write(proc, server[proc], {t})
    /\ UNCHANGED <<proc, server, hand>>

CallTool(t) ==
    /\ tool[t] = "new" /\ (Start(t) \/ Ask(t))
    /\ UNCHANGED <<got, told, buffer, closes, eaten>>

\* What failAll does to the calls: those that ask are rejected, and so are those
\* that await a handshake it rejects
FailAll == Set(With("asking") \cup With("shaking"), "failed")
Unshaken == [p \in Servers |-> IF hand[p] = "waiting" THEN "failed" ELSE hand[p]]

-----------------------------------------------------------------------------
(* Answers *)

\* A slip: an answer goes to whoever asks
AnyAsker(m) == IF With("asking") = {} THEN m.to ELSE CHOOSE t \in With("asking") : TRUE

\* Answers are told apart by their number
Receiver(m) == m.to

\* A message: the request it answers, if still pending, is resolved or rejected.
\* With the handshake's, everyone who awaits it goes on at once.
Handle(m) ==
    CASE m.to \in ToolCalls /\ tool[Receiver(m)] = "asking" ->
           /\ tool' = Set({Receiver(m)}, IF m.ok THEN "done" ELSE "failed")
           /\ got' = IF m.ok THEN [got EXCEPT ![Receiver(m)] = m.to] ELSE got
           /\ UNCHANGED <<hand, asked, crashed>>
      [] m.to = None /\ hand[m.from] = "waiting" /\ m.ok ->
           /\ hand' = [hand EXCEPT ![m.from] = "ok"] /\ tool' = Set(With("shaking"), "asking")
           /\ Write(proc, server[proc], With("shaking")) /\ UNCHANGED got
      [] m.to = None /\ hand[m.from] = "waiting" /\ ~m.ok ->
           /\ hand' = [hand EXCEPT ![m.from] = "failed"]
           /\ tool' = Set(With("shaking"), "failed") /\ UNCHANGED <<got, asked, crashed>>
      [] OTHER -> UNCHANGED <<tool, got, hand, asked, crashed>>

\* onData.  Of a line, only what is contiguous can be parsed; other lines are skipped.
Data(p) ==
    /\ told[p] # <<>> /\ told' = [told EXCEPT ![p] = Tail(@)]
    /\ LET m == Head(told[p])
           line == \/ buffer = <<>> /\ m.part = "whole"
                   \/ buffer = <<[m EXCEPT !.part = "first"]>> /\ m.part = "second"
       IN /\ buffer' = IF m.part = "first" THEN Append(buffer, m) ELSE <<>>
          /\ IF line THEN Handle(m) ELSE UNCHANGED <<tool, got, hand, asked, crashed>>
          /\ eaten' = (eaten \/ (p = proc /\ ~line /\ m.part # "first"))
    /\ UNCHANGED <<proc, server, closes>>

\* A slip: only an 'error' fails the calls
ReportUnheard(p) ==
    /\ server[p] = "dead" /\ server' = [server EXCEPT ![p] = "gone"]
    /\ UNCHANGED <<tool, got, proc, hand, asked, told, buffer, closes, crashed, eaten>>

\* 'exit', or 'error' of a process that could not be started.  It fails all calls,
\* also those of a later process; the process stays in its place.
Report(p) ==
    /\ server[p] = "dead" /\ server' = [server EXCEPT ![p] = "gone"]
    /\ tool' = FailAll /\ hand' = Unshaken
    /\ UNCHANGED <<got, proc, asked, told, buffer, closes, crashed, eaten>>

close ==
    /\ closes < MaxCloses /\ proc # None /\ closes' = closes + 1
    /\ tool' = FailAll /\ hand' = Unshaken /\ proc' = None
    /\ UNCHANGED <<got, server, asked, told, buffer, crashed, eaten>>

-----------------------------------------------------------------------------
(* The processes *)

\* An answer, in one piece or two
Serve(p) ==
    /\ server[p] = "up"
    /\ \E a \in asked[p], ok \in BOOLEAN, parts \in {<<"whole">>, <<"first", "second">>} :
         /\ asked' = [asked EXCEPT ![p] = @ \ {a}]
         /\ told' = [told EXCEPT ![p] =
                       @ \o [n \in 1..Len(parts) |->
                               [to |-> a, from |-> p, ok |-> ok, part |-> parts[n]]]]
    /\ UNCHANGED <<tool, got, proc, server, hand, buffer, closes, crashed, eaten>>

\* It exits, maybe in the middle of a line: when closed, its input ended and it was
\* killed
Exits(p) ==
    /\ server[p] = "up" /\ server' = [server EXCEPT ![p] = "dead"]
    /\ \/ UNCHANGED told
       \/ /\ told[p] # <<>> /\ Last(told[p]).part = "second"
          /\ told' = [told EXCEPT ![p] = Front(@)]
    /\ UNCHANGED <<tool, got, proc, hand, asked, buffer, closes, crashed, eaten>>

Step == /\ ~crashed
        /\ \E p \in Servers : Serve(p) \/ Data(p) \/ Report(p) \/ (Exits(p) /\ p # proc)

Next == /\ ~crashed
        /\ \/ \E t \in ToolCalls : CallTool(t)
           \/ \E p \in Servers : Data(p) \/ Report(p) \/ Serve(p) \/ Exits(p)
           \/ close

-----------------------------------------------------------------------------
Waiting == With("shaking") \cup With("asking")

\* Every call is resolved with its own answer
OwnAnswer == \A t \in ToolCalls : got[t] \in {None, t}

\* Whoever waits, waits for the client's present process, of which no exit was
\* reported, and which has the request or will be reported
NobodyWaitsForTheGone ==
    Waiting # {} => /\ proc # None /\ server[proc] \in {"up", "dead"}
                    /\ With("shaking") # {} => hand[proc] = "waiting"

McpInv == TypeOK /\ OwnAnswer /\ NobodyWaitsForTheGone

\* No call waits, the program has crashed, or an answer was lost to a half-read line of
\* a closed process
Quiet == Waiting = {} \/ crashed \/ eaten
=============================================================================
