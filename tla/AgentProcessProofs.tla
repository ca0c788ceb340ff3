------------------------- MODULE AgentProcessProofs -------------------------
(***************************************************************************)
(* Theorems about AgentProcess, for any number of helpers in the agent's      *)
(* group.                                                                    *)
(***************************************************************************)
EXTENDS AgentProcess, TLAPS

(***************************************************************************)
(* Finish settles with the result it is given, and only once.               *)
(***************************************************************************)
LEMMA FinishOnce ==
    ASSUME TypeOK, NEW x \in ExitCodes, NEW late \in BOOLEAN, Finish(x, late)
    PROVE  /\ timeout' \in {"armed", "fired", "cleared"}
           /\ killTimer' \in {"none", "armed", "fired", "cleared"}
           /\ result' \in Results \cup {Unsettled}
<1>1. [exitCode |-> x, timedOut |-> late] \in Results
  BY DEF Results
<1>2. CASE Settled
  BY <1>2 DEF Finish, TypeOK, timers
<1>3. CASE ~Settled
  BY <1>1, <1>3 DEF Finish, TypeOK
<1> QED
  BY <1>2, <1>3

(***************************************************************************)
(* The types are kept by every step.                                        *)
(***************************************************************************)
LEMMA AgentTypes == TypeOK /\ [Next]_vars => TypeOK'
<1> SUFFICES ASSUME TypeOK, [Next]_vars PROVE TypeOK'
  OBVIOUS
<1> USE DEF TypeOK, Results, ExitCodes, Unsettled
<1>1. ASSUME NEW h \in Helpers, AgentStarts(h) \/ HelperExits(h) PROVE TypeOK'
  <2>1. helper' \in [Helpers -> {"none", "quiet", "holding", "gone"}]
    BY <1>1 DEF AgentStarts, HelperExits
  <2>2. UNCHANGED <<agent, code, timers, flags, sent, result, engine>>
    BY <1>1 DEF AgentStarts, HelperExits
  <2> QED
    BY <2>1, <2>2 DEF timers, flags
<1>2. CASE AgentExits
  BY <1>2 DEF AgentExits, timers, flags
<1>3. CASE Timeout
  BY <1>3 DEF Timeout, Terminate, processes
<1>4. CASE KillTimer
  <2>1. [exitCode |-> 124, timedOut |-> TRUE] \in Results
    OBVIOUS
  <2>2. result' \in Results \cup {Unsettled}
    <3> HIDE DEF Results, Unsettled
    <3>1. CASE childClosed /\ ~Settled
      BY <1>4, <2>1, <3>1 DEF KillTimer
    <3>2. CASE ~(childClosed /\ ~Settled)
      BY <1>4, <3>2 DEF KillTimer
    <3> QED
      BY <3>1, <3>2
  <2>3. helper' \in [Helpers -> {"none", "quiet", "holding", "gone"}]
    BY <1>4 DEF KillTimer, Terminate
  <2>4. agent' \in {"unspawned", "running", "exited"} /\ code' \in {0, 1}
    BY <1>4 DEF KillTimer, Terminate
  <2> QED
    BY <1>4, <2>2, <2>3, <2>4 DEF KillTimer, Terminate
<1>5. CASE ErrorEvent
  <2>1. CASE timedOut
    BY <1>5, <2>1 DEF ErrorEvent, processes, timers
  <2>2. CASE ~timedOut
    <3>1. PICK x \in ExitCodes : Finish(x, FALSE)
      BY <1>5, <2>2 DEF ErrorEvent
    <3>a. FALSE \in BOOLEAN
      OBVIOUS
    <3>2. /\ timeout' \in {"armed", "fired", "cleared"}
          /\ killTimer' \in {"none", "armed", "fired", "cleared"}
          /\ result' \in Results \cup {Unsettled}
      BY <3>1, <3>a, FinishOnce
    <3>3. /\ UNCHANGED <<agent, code, helper, timedOut, childClosed, killEscalated,
                         stdinFailed, sent, engine>>
          /\ errored' = TRUE
      BY <1>5 DEF ErrorEvent, processes
    <3> HIDE DEF Results, ExitCodes, Unsettled
    <3> QED
      BY <3>2, <3>3
  <2> QED
    BY <2>1, <2>2
<1>6. CASE CloseEvent
  <2> DEFINE x == IF timedOut THEN 124 ELSE IF stdinFailed THEN 1 ELSE code
  <2>1. CASE timedOut /\ ~killEscalated
    BY <1>6, <2>1 DEF CloseEvent, processes, timers
  <2>2. CASE ~(timedOut /\ ~killEscalated)
    <3>1. Finish(x, timedOut) /\ x \in ExitCodes /\ timedOut \in BOOLEAN
      BY <1>6, <2>2 DEF CloseEvent
    <3> HIDE DEF x
    <3>2. /\ timeout' \in {"armed", "fired", "cleared"}
          /\ killTimer' \in {"none", "armed", "fired", "cleared"}
          /\ result' \in Results \cup {Unsettled}
      BY <3>1, FinishOnce
    <3>3. /\ UNCHANGED <<agent, code, helper, timedOut, killEscalated, stdinFailed,
                         errored, sent, engine>>
          /\ childClosed' = TRUE
      BY <1>6 DEF CloseEvent, processes
    <3> HIDE DEF Results, ExitCodes, Unsettled
    <3> QED
      BY <3>2, <3>3
  <2> QED
    BY <2>1, <2>2
<1>7. CASE StdinError
  BY <1>7 DEF StdinError, Terminate, processes, timers
<1>8. CASE EngineExits
  BY <1>8 DEF EngineExits, processes, timers, flags
<1>9. CASE UNCHANGED vars
  BY <1>9 DEF vars, processes, timers, flags
<1> QED
  BY <1>1, <1>2, <1>3, <1>4, <1>5, <1>6, <1>7, <1>8, <1>9 DEF Next, Handler, Ended

(***************************************************************************)
(* The invariant is kept by every step.                                     *)
(***************************************************************************)
LEMMA AgentInductive == AgentInv /\ [Next]_vars => AgentInv'
<1> SUFFICES ASSUME AgentInv, [Next]_vars PROVE AgentInv'
  OBVIOUS
<1>0. TypeOK /\ TypeOK'
  BY AgentTypes DEF AgentInv
<1> USE DEF AgentInv, SuccessIsEarned, TimeoutEndsGroup, Settled
<1>1. ASSUME NEW h \in Helpers, AgentStarts(h) \/ HelperExits(h) PROVE AgentInv'
  BY <1>0, <1>1 DEF AgentStarts, HelperExits, Alive, timers, flags, TypeOK
<1>2. CASE AgentExits
  BY <1>0, <1>2 DEF AgentExits, Alive, timers, flags, TypeOK
<1>3. CASE Timeout
  BY <1>0, <1>3 DEF Timeout, Terminate, Alive, processes, TypeOK
<1>4. CASE KillTimer
  BY <1>0, <1>4 DEF KillTimer, Terminate, Alive, TypeOK, Unsettled
<1>5. CASE ErrorEvent
  BY <1>0, <1>5 DEF ErrorEvent, Finish, Alive, processes, timers, TypeOK, Unsettled
<1>6. CASE CloseEvent
  <2>1. /\ TypeOK' /\ childClosed' = TRUE
        /\ UNCHANGED <<processes, timedOut, killEscalated, stdinFailed, errored, sent>>
        /\ agent # "running"
    BY <1>0, <1>6 DEF CloseEvent, Closed
  <2>2. CASE timedOut /\ ~killEscalated
    BY <1>0, <1>6, <2>1, <2>2 DEF CloseEvent, Closed, Alive, processes, timers
  <2>3. CASE Settled
    BY <1>0, <1>6, <2>1, <2>3 DEF CloseEvent, Finish, Alive, processes, timers
  <2>4. CASE ~Settled /\ ~(timedOut /\ ~killEscalated)
    <3> DEFINE x == IF timedOut THEN 124 ELSE IF stdinFailed THEN 1 ELSE code
    <3>1. Finish(x, timedOut) /\ agent = "exited"
      BY <1>6, <2>4 DEF CloseEvent, Closed
    <3>2. /\ result'.exitCode = x /\ result'.timedOut = timedOut
          /\ timeout' = "cleared" /\ killTimer' # "armed"
          /\ killTimer' = "none" <=> killTimer = "none"
      BY <1>0, <2>4, <3>1 DEF Finish, TypeOK
    <3> QED
      BY <1>0, <2>1, <2>4, <3>1, <3>2 DEF Alive, processes, TypeOK
  <2> QED
    BY <2>2, <2>3, <2>4
<1>7. CASE StdinError
  BY <1>0, <1>7 DEF StdinError, Terminate, Alive, processes, timers, TypeOK
<1>8. CASE EngineExits
  BY <1>0, <1>8 DEF EngineExits, Alive, processes, timers, flags
<1>9. CASE UNCHANGED vars
  BY <1>0, <1>9 DEF vars, Alive, processes, timers, flags
<1> QED
  BY <1>1, <1>2, <1>3, <1>4, <1>5, <1>6, <1>7, <1>8, <1>9 DEF Next, Handler, Ended

(***************************************************************************)
(* The flags, the timers and the group agree in every reachable state.      *)
(***************************************************************************)
THEOREM AgentInvariance == Spec => []AgentInv
<1>1. Init => AgentInv
  BY DEF Init, AgentInv, TypeOK, SuccessIsEarned, TimeoutEndsGroup, Settled, Alive
<1>2. QED
  BY <1>1, AgentInductive, PTL DEF Spec

(***************************************************************************)
(* A result that says "timed out" comes after the whole group is dead.      *)
(***************************************************************************)
THEOREM TimeoutsEndTheGroup == Spec => []TimeoutEndsGroup
<1>1. AgentInv => TimeoutEndsGroup
  BY DEF AgentInv
<1>2. QED
  BY <1>1, AgentInvariance, PTL

(***************************************************************************)
(* Exit code 0 is the agent's own, with its whole prompt and no signal.     *)
(***************************************************************************)
THEOREM SuccessesAreEarned == Spec => []SuccessIsEarned
<1>1. AgentInv => SuccessIsEarned
  BY DEF AgentInv
<1>2. QED
  BY <1>1, AgentInvariance, PTL

(***************************************************************************)
(* Nothing is signalled once the call returned.                             *)
(***************************************************************************)
THEOREM QuietAfterReturn == Spec => QuietOnceSettled
<1>1. AgentInv /\ [Next]_vars => [Settled => sent' = sent]_vars
  <2> SUFFICES ASSUME AgentInv, Next, Settled PROVE sent' = sent
    OBVIOUS
  <2>1. timeout = "cleared" /\ killTimer # "armed"
    BY DEF AgentInv
  <2>2. ~Timeout /\ ~KillTimer /\ ~StdinError
    BY <2>1 DEF Timeout, KillTimer, StdinError
  <2> QED
    BY <2>2 DEF Next, Handler, AgentStarts, HelperExits, AgentExits, ErrorEvent, CloseEvent,
                EngineExits, Ended, vars
<1>2. QED
  BY <1>1, AgentInvariance, PTL DEF Spec, QuietOnceSettled
=============================================================================
