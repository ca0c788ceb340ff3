---------------------------- MODULE AgentProcess ----------------------------
(***************************************************************************)
(* packages/core/src/executor/agent-process.ts: one call of                 *)
(* spawnAgentProcess, from the spawn of the agent to the result the run      *)
(* waits for.  Node's events (timers, 'error', 'close', an error of stdin)   *)
(* are handlers that run one at a time, in any order the operating system     *)
(* produces; the agent leads a process group and starts helpers in it, which   *)
(* may outlive it and may hold the pipes that 'close' waits for.               *)
(***************************************************************************)
EXTENDS Naturals

CONSTANT Helpers    \* processes the agent may start in its group

VARIABLES
    agent,          \* the agent process: not spawned, running, exited
    code,           \* its exit code, once it has exited
    helper,         \* each helper
    timeout,        \* the timer of timeoutMs
    killTimer,      \* the timer of killGraceMs
    timedOut, childClosed, killEscalated, stdinFailed,
    sent,           \* signals sent to the group
    errored,        \* the 'error' event was emitted
    result,         \* what the promise resolved to
    engine          \* the process that waits for it

processes == <<agent, code, helper>>
timers    == <<timeout, killTimer>>
flags     == <<timedOut, childClosed, killEscalated, stdinFailed, errored>>
vars      == <<processes, timers, flags, sent, result, engine>>

ExitCodes == {0, 1, 124, 127}
Results   == [exitCode : ExitCodes, timedOut : BOOLEAN]
Unsettled == [exitCode |-> 256, timedOut |-> FALSE]    \* not an exit code

TypeOK == /\ agent \in {"unspawned", "running", "exited"}
          /\ code \in {0, 1}
          /\ helper \in [Helpers -> {"none", "quiet", "holding", "gone"}]
          /\ timeout \in {"armed", "fired", "cleared"}
          /\ killTimer \in {"none", "armed", "fired", "cleared"}
          /\ timedOut \in BOOLEAN /\ childClosed \in BOOLEAN
          /\ killEscalated \in BOOLEAN /\ stdinFailed \in BOOLEAN
          /\ errored \in BOOLEAN
          /\ sent \subseteq {"SIGTERM", "SIGKILL"}
          /\ result \in Results \cup {Unsettled}
          /\ engine \in {"up", "gone"}

Init == /\ agent \in {"unspawned", "running"} /\ code = 0
        /\ helper = [h \in Helpers |-> "none"]
        /\ timeout = "armed" /\ killTimer = "none"
        /\ timedOut = FALSE /\ childClosed = FALSE /\ killEscalated = FALSE
        /\ stdinFailed = FALSE /\ errored = FALSE
        /\ sent = {} /\ result = Unsettled /\ engine = "up"

Settled == result # Unsettled
Alive(h) == helper[h] \in {"quiet", "holding"}

-----------------------------------------------------------------------------
(* The agent and its helpers *)

AgentStarts(h) ==
    /\ agent = "running" /\ helper[h] = "none"
    /\ \E s \in {"quiet", "holding"} : helper' = [helper EXCEPT ![h] = s]
    /\ UNCHANGED <<agent, code, timers, flags, sent, result, engine>>

\* By itself, or because of a SIGTERM; a signal death counts as code 1
AgentExits ==
    /\ agent = "running" /\ agent' = "exited"
    /\ code' \in {0, 1}
    /\ UNCHANGED <<helper, timers, flags, sent, result, engine>>

HelperExits(h) ==
    /\ Alive(h) /\ helper' = [helper EXCEPT ![h] = "gone"]
    /\ UNCHANGED <<agent, code, timers, flags, sent, result, engine>>

-----------------------------------------------------------------------------
(* The handlers *)

\* terminateAgentProcess: a signal for the whole group.  Only SIGKILL cannot
\* be ignored.
Terminate(signal) ==
    /\ sent' = sent \cup {signal}
    /\ IF signal = "SIGKILL"
       THEN /\ helper' = [h \in Helpers |-> IF Alive(h) THEN "gone" ELSE helper[h]]
            /\ IF agent = "running" THEN agent' = "exited" /\ code' = 1
                                    ELSE UNCHANGED <<agent, code>>
       ELSE UNCHANGED processes

\* A slip: the timeout is not cleared
FinishKeepsTimer(exitCode, late) ==
    IF Settled THEN UNCHANGED <<timers, result>>
    ELSE result' = [exitCode |-> exitCode, timedOut |-> late] /\ UNCHANGED timers

\* finish: the first result counts; the timers are cleared, the kill timer only
\* if it has nothing left to do
Finish(exitCode, late) ==
    IF Settled THEN UNCHANGED <<timers, result>>
    ELSE /\ result' = [exitCode |-> exitCode, timedOut |-> late]
         /\ timeout' = "cleared"
         /\ killTimer' = IF killTimer # "none" /\ (~timedOut \/ killEscalated)
                         THEN "cleared" ELSE killTimer

Timeout ==
    /\ engine = "up" /\ timeout = "armed" /\ agent # "unspawned"
    /\ timeout' = "fired" /\ killTimer' = "armed" /\ timedOut' = TRUE
    /\ Terminate("SIGTERM")
    /\ UNCHANGED <<childClosed, killEscalated, stdinFailed, errored, result, engine>>

\* A slip: the kill timer leaves the settling to 'close', which has come already
KillTimerOnlyKills ==
    /\ engine = "up" /\ killTimer = "armed"
    /\ killTimer' = "fired" /\ killEscalated' = TRUE
    /\ Terminate("SIGKILL")
    /\ UNCHANGED <<timeout, timedOut, childClosed, stdinFailed, errored, result, engine>>

KillTimer ==
    /\ engine = "up" /\ killTimer = "armed"
    /\ killEscalated' = TRUE /\ Terminate("SIGKILL")
    /\ IF childClosed /\ ~Settled THEN result' = [exitCode |-> 124, timedOut |-> TRUE]
                                  ELSE UNCHANGED result
    /\ killTimer' = IF childClosed THEN "cleared" ELSE "fired"
    /\ timeout' = IF childClosed THEN "cleared" ELSE timeout
    /\ UNCHANGED <<timedOut, childClosed, stdinFailed, errored, engine>>

\* 'error': the spawn failed, or a signal could not be sent
ErrorEvent ==
    /\ engine = "up" /\ ~errored /\ errored' = TRUE
    /\ agent = "unspawned" \/ (agent = "running" /\ sent # {})
    /\ IF timedOut THEN UNCHANGED <<timers, result>>
       ELSE \E exitCode \in (IF agent = "unspawned" THEN {1, 127} ELSE {1}) :
               Finish(exitCode, FALSE)
    /\ UNCHANGED <<processes, timedOut, childClosed, killEscalated, stdinFailed, sent, engine>>

\* The agent is gone, and every process that held its pipes
Closed == /\ ~childClosed
          /\ \/ agent = "exited" /\ \A h \in Helpers : helper[h] # "holding"
             \/ agent = "unspawned" /\ errored

\* A slip: a timed out agent that closes early settles at once
CloseAtOnce ==
    /\ engine = "up" /\ Closed /\ childClosed' = TRUE
    /\ Finish(IF timedOut THEN 124 ELSE IF stdinFailed THEN 1 ELSE code, timedOut)
    /\ UNCHANGED <<processes, timedOut, killEscalated, stdinFailed, errored, sent, engine>>

\* A slip: the exit code alone decides
CloseIgnoresStdin ==
    /\ engine = "up" /\ Closed /\ childClosed' = TRUE
    /\ IF timedOut /\ ~killEscalated THEN UNCHANGED <<timers, result>>
       ELSE Finish(IF timedOut THEN 124 ELSE code, timedOut)
    /\ UNCHANGED <<processes, timedOut, killEscalated, stdinFailed, errored, sent, engine>>

\* 'close': a timed out agent waits for the kill timer first
CloseEvent ==
    /\ engine = "up" /\ Closed /\ childClosed' = TRUE
    /\ IF timedOut /\ ~killEscalated THEN UNCHANGED <<timers, result>>
       ELSE Finish(IF timedOut THEN 124 ELSE IF stdinFailed THEN 1 ELSE code, timedOut)
    /\ UNCHANGED <<processes, timedOut, killEscalated, stdinFailed, errored, sent, engine>>

\* handleStdinError: the prompt could not be written (after the timeout, or once
\* settled, the error changes nothing)
StdinError ==
    /\ engine = "up" /\ agent # "unspawned" /\ ~stdinFailed
    /\ ~Settled /\ ~timedOut
    /\ stdinFailed' = TRUE /\ Terminate("SIGTERM")
    /\ UNCHANGED <<timers, timedOut, childClosed, killEscalated, errored, result, engine>>

\* Both timers are unref'd: once the agent is closed nothing keeps Node waiting
\* for the kill timer, and bin.ts ends with its top-level await unsettled (unless
\* something else, a test runner for one, keeps the event loop alive)
EngineExits ==
    /\ engine = "up" /\ childClosed /\ ~Settled
    /\ engine' = "gone"
    /\ UNCHANGED <<processes, timers, flags, sent, result>>

-----------------------------------------------------------------------------
Handler == Timeout \/ KillTimer \/ ErrorEvent \/ CloseEvent \/ StdinError

Ended == (Settled \/ engine = "gone") /\ UNCHANGED vars

Next == \/ \E h \in Helpers : AgentStarts(h) \/ HelperExits(h)
        \/ AgentExits \/ Handler \/ EngineExits \/ Ended

Spec == Init /\ [][Next]_vars

\* Timers expire and Node delivers the events that are due.  Nothing is assumed
\* of the agent: it may never exit by itself, and may ignore SIGTERM.
FairSpec == /\ Spec
            /\ WF_vars(Timeout) /\ WF_vars(KillTimer) /\ WF_vars(CloseEvent)
            /\ WF_vars(ErrorEvent /\ agent = "unspawned")

-----------------------------------------------------------------------------
\* Exit code 0 is what the agent itself returned, with its whole prompt and
\* untouched by a signal (agent-process.ts:116-134); anything else would let
\* the run be checkpointed.
SuccessIsEarned ==
    Settled /\ result.exitCode = 0 =>
        agent = "exited" /\ code = 0 /\ sent = {} /\ ~stdinFailed

\* A result that says "timed out" comes after the whole group is dead, so that
\* the run does not release the lock under a process that still writes in the
\* worktree (2026-04-24-agent-runner-codex-eval-loop.md:214).
TimeoutEndsGroup ==
    Settled /\ result.timedOut =>
        /\ agent = "exited" /\ \A h \in Helpers : ~Alive(h)
        /\ result.exitCode = 124

\* Once the call returned, nothing is signalled any more: the pid may belong to
\* somebody else by then (agent-process.ts:77-78).
QuietOnceSettled == [][Settled => sent' = sent]_vars

\* The call returns, whatever the agent does: at the latest a timeout returns
\* (2026-04-30-agent-runner-codex-target-design.md:282).
Returns == <>Settled

\* ... or else the process that waits for it is gone: no order of exits, timers and
\* events leaves `kanban run` waiting with nothing to wait for.
Ends == <>(Settled \/ engine = "gone")

\* Why: what the flags and timers say of each other
AgentInv ==
    /\ TypeOK
    /\ timedOut <=> killTimer # "none"
    /\ timedOut => "SIGTERM" \in sent
    /\ ~timedOut /\ ~stdinFailed => sent = {}
    /\ killEscalated <=> "SIGKILL" \in sent
    /\ killEscalated => agent = "exited" /\ \A h \in Helpers : ~Alive(h)
    /\ childClosed => agent # "running"
    /\ agent = "unspawned" => ~timedOut /\ ~stdinFailed /\ (errored \/ childClosed => Settled)
    /\ Settled => timeout = "cleared" /\ killTimer # "armed"
    /\ Settled /\ result.timedOut => killEscalated
    /\ SuccessIsEarned /\ TimeoutEndsGroup
=============================================================================
