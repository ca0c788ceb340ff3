---------------------------- MODULE IssueStatus ----------------------------
(***************************************************************************)
(* The status vocabulary of an issue note and the two rules that guard a   *)
(* change of it: the table VALID_ISSUE_TRANSITIONS of packages/schema and   *)
(* the stricter rule for epics.  A pure module, shared by every module in   *)
(* which a component writes a status.                                       *)
(***************************************************************************)

\* ISSUE_STATUSES
Statuses == {"TODO", "READY", "RUNNING", "REVIEW", "DONE", "FAILED"}

\* VALID_ISSUE_TRANSITIONS
ValidTransitions ==
    { <<"TODO", "READY">>, <<"READY", "RUNNING">>, <<"READY", "TODO">>,
      <<"RUNNING", "REVIEW">>, <<"RUNNING", "FAILED">>,
      <<"REVIEW", "DONE">>, <<"REVIEW", "RUNNING">>,
      <<"FAILED", "READY">> }

\* StateMachine.canTransition
CanTransition(from, to) == <<from, to>> \in ValidTransitions

\* EPIC_BLOCKED_STATUSES: an epic is never executed
EpicBlocked == {"READY", "RUNNING", "REVIEW", "FAILED"}

\* WorkflowEngine.validateEpicTransition does not throw
EpicTransition(from, to) ==
    /\ to \notin EpicBlocked
    /\ from = to \/ <<from, to>> = <<"TODO", "DONE">>

\* The validation at the head of WorkflowEngine.transition: a change to the
\* status a task already has is accepted (and is then a no-op).
EngineAccepts(type, from, to) ==
    IF type = "epic" THEN EpicTransition(from, to)
                     ELSE from = to \/ CanTransition(from, to)
=============================================================================
