---------------------------- MODULE PolicyEngine ----------------------------
(***************************************************************************)
(* packages/core/src/policy-engine.ts and event-bus.ts under the last part of  *)
(* WorkflowEngine.transition: once a note is written and parsed, the rules for    *)
(* leaving its old status and for entering the new one are run, one awaited        *)
(* handler after the other, and the move is announced.  Rules come and go and other notes move   *)
(* while a handler is awaited; a listener may leave while it is told.             *)
(***************************************************************************)
EXTENDS IssueStatus, Naturals, Sequences, SequencesExt

CONSTANTS Rules, Matched,  \* rule -> its action and its status, or None for any
          Listeners,       \* of POLICY_EVENTS.TRANSITION
          Moves,           \* the calls of the engine's transition
          MoveOf,          \* move -> the note's type, its status, the one wanted, and
                           \* whether the store's parser accepts what is written
          MaxChanges,      \* bound on rules added and removed
          None

VARIABLES
    rules,     \* this.rules
    bus,       \* this.handlers of TRANSITION
    pc,        \* move -> where its call is; "threw" and "done" at the end
    written,   \* moves whose note was written
    todo,      \* move -> the rules its loop has still to run
    ran,       \* move -> the rules run for it, in order
    owed,      \* move -> rules that match and were there since their loop began
    attending, \* move -> listeners that were there since it began
    heard,     \* listener -> how often it heard of each move
    changes

vars == <<rules, bus, pc, written, todo, ran, owed, attending, heard, changes>>

TypeOK ==
    /\ rules \in Seq(Rules) /\ bus \in Seq(Listeners)
    /\ pc \in [Moves -> {"new", "exit", "enter", "done", "threw"}] /\ written \subseteq Moves
    /\ todo \in [Moves -> Seq(Rules)] /\ ran \in [Moves -> Seq(Rules)]
    /\ owed \in [Moves -> SUBSET Rules] /\ attending \in [Moves -> SUBSET Listeners]
    /\ heard \in [Listeners -> [Moves -> Nat]] /\ changes \in 0..MaxChanges

Init == /\ rules = SetToSeq(Rules) /\ bus = SetToSeq(Listeners)
        /\ pc = [m \in Moves |-> "new"] /\ written = {}
        /\ todo = [m \in Moves |-> <<>>] /\ ran = [m \in Moves |-> <<>>]
        /\ owed = [m \in Moves |-> {}] /\ attending = [m \in Moves |-> {}]
        /\ heard = [l \in Listeners |-> [m \in Moves |-> 0]] /\ changes = 0

Applies(r, action, m) ==
    /\ Matched[r].action = action
    /\ Matched[r].status \in {None, IF action = "enter" THEN MoveOf[m].to ELSE MoveOf[m].from}

\* What a filter leaves of s: the elements of S, in the order they have in s.  As s, a
\* list of rules or listeners, has nothing twice, there is one such sequence.
Filtered(s, S) ==
    {q \in UNION {[1..n -> S] : n \in 0..Len(s)} :
       /\ ToSet(q) = S
       /\ \A j, k \in DOMAIN q : j < k =>
            \E a, b \in DOMAIN s : a < b /\ s[a] = q[j] /\ s[b] = q[k]}

matchRules(action, m) == Filtered(rules, {r \in ToSet(rules) : Applies(r, action, m)})

Accepted(m) == EngineAccepts(MoveOf[m].type, MoveOf[m].from, MoveOf[m].to)
Changed(m)  == MoveOf[m].from # MoveOf[m].to

\* WorkflowEngine.transition and onTransition's first matchRules.  The same status again
\* is no move, and vault.process throws when the note is another than was loaded, or cannot
\* be written.  Only then is what was written parsed, by markdownIssueToCanonical, which
\* asks more of a note than the engine did: a task of a single space has no project.
Transition(m) ==
    /\ pc[m] = "new"
    /\ \/ /\ Accepted(m) /\ Changed(m) /\ MoveOf[m].parses
          /\ written' = written \cup {m} /\ pc' = [pc EXCEPT ![m] = "exit"]
          /\ \E matched \in matchRules("exit", m) :
               /\ todo' = [todo EXCEPT ![m] = matched]
               /\ owed' = [owed EXCEPT ![m] = ToSet(matched)]
          /\ attending' = [attending EXCEPT ![m] = ToSet(bus)]
       \/ /\ Accepted(m) /\ Changed(m) /\ ~MoveOf[m].parses
          /\ written' = written \cup {m} /\ pc' = [pc EXCEPT ![m] = "threw"]
          /\ UNCHANGED <<todo, owed, attending>>
       \/ /\ pc' = [pc EXCEPT ![m] = IF Accepted(m) /\ ~Changed(m) THEN "done" ELSE "threw"]
          /\ UNCHANGED <<written, todo, owed, attending>>
    /\ UNCHANGED <<rules, bus, ran, heard, changes>>

\* A slip: a handler that throws ends the loop
RunUncaught(m) ==
    /\ pc[m] \in {"exit", "enter"} /\ todo[m] # <<>>
    /\ \E ok \in BOOLEAN : todo' = [todo EXCEPT ![m] = IF ok THEN Tail(@) ELSE <<>>]
    /\ ran' = [ran EXCEPT ![m] = Append(@, Head(todo[m]))]
    /\ UNCHANGED <<rules, bus, pc, written, owed, attending, heard, changes>>

\* A handler ends, or throws, which is reported and no more
Run(m) ==
    /\ pc[m] \in {"exit", "enter"} /\ todo[m] # <<>>
    /\ todo' = [todo EXCEPT ![m] = Tail(@)]
    /\ ran' = [ran EXCEPT ![m] = Append(@, Head(todo[m]))]
    /\ UNCHANGED <<rules, bus, pc, written, owed, attending, heard, changes>>

\* The rules for leaving are done: stateMachine.transition, which knows nothing of
\* epics, and the rules for entering that there are by now
Enter(m) ==
    /\ pc[m] = "exit" /\ todo[m] = <<>>
    /\ IF CanTransition(MoveOf[m].from, MoveOf[m].to)
       THEN /\ pc' = [pc EXCEPT ![m] = "enter"]
            /\ \E matched \in matchRules("enter", m) :
                 /\ todo' = [todo EXCEPT ![m] = matched]
                 /\ owed' = [owed EXCEPT ![m] = @ \cup ToSet(matched)]
       ELSE pc' = [pc EXCEPT ![m] = "threw"] /\ UNCHANGED <<todo, owed>>
    /\ UNCHANGED <<rules, bus, written, ran, attending, heard, changes>>

\* A slip: the list is iterated while listeners leave it
HearersLive(leaving) ==
    {l \in ToSet(bus) : ~\E k \in 1..Len(bus) - 1 : bus[k] \in leaving /\ bus[k + 1] = l}

\* Who is told is settled before anyone is
Hearers(leaving) == ToSet(bus)

\* emit of TRANSITION: of those it tells, some call off
Announce(m) ==
    /\ pc[m] = "enter" /\ todo[m] = <<>> /\ pc' = [pc EXCEPT ![m] = "done"]
    /\ \E leaving \in SUBSET ToSet(bus) :
         /\ heard' = [l \in Listeners |-> IF l \in Hearers(leaving)
                                          THEN [heard[l] EXCEPT ![m] = @ + 1] ELSE heard[l]]
         /\ bus' \in Filtered(bus, ToSet(bus) \ leaving)
         /\ attending' = [n \in Moves |-> IF n = m THEN attending[n] ELSE attending[n] \ leaving]
    /\ UNCHANGED <<rules, written, todo, ran, owed, changes>>

addRule(r) == /\ r \notin ToSet(rules) /\ rules' = Append(rules, r)
              /\ UNCHANGED owed

\* A loop that has the rule already goes on with it
removeRule(r) == /\ r \in ToSet(rules) /\ rules' \in Filtered(rules, ToSet(rules) \ {r})
                 /\ owed' = [m \in Moves |-> IF pc[m] \in {"done", "threw"} THEN owed[m]
                                             ELSE owed[m] \ {r}]

Change == /\ changes < MaxChanges /\ changes' = changes + 1
          /\ \E r \in Rules : addRule(r) \/ removeRule(r)
          /\ UNCHANGED <<bus, pc, written, todo, ran, attending, heard>>

Next == Change \/ \E m \in Moves : Transition(m) \/ Run(m) \/ Enter(m) \/ Announce(m)

Spec == Init /\ [][Next]_vars

-----------------------------------------------------------------------------
Leavers(s)  == {k \in DOMAIN s : Matched[s[k]].action = "exit"}
Enterers(s) == {k \in DOMAIN s : Matched[s[k]].action = "enter"}

\* Whichever handlers throw, and whatever is added and removed meanwhile, a rule that
\* matches and stays is run for the move, once, and leaving comes before entering
RulesRun ==
    \A m \in Moves :
       /\ IsInjective(ran[m])
       /\ \A k \in Leavers(ran[m]), j \in Enterers(ran[m]) : k < j
       /\ pc[m] \in {"done", "threw"} => owed[m] \subseteq ToSet(ran[m])

\* Who listened before a move began and has not left hears of it once, and of no move
\* that threw
MovesHeard ==
    \A m \in Moves, l \in Listeners :
       /\ heard[l][m] = 0 \/ (pc[m] = "done" /\ heard[l][m] = 1)
       /\ pc[m] = "done" /\ l \in attending[m] => heard[l][m] = 1

\* A call that throws has written nothing, but for two kinds of note: an epic that is closed,
\* whose rules for leaving are run before the state machine refuses, and a note the store's
\* parser refuses, for which no rule is run
ThrowsUnwritten ==
    \A m \in Moves : pc[m] = "threw" /\ m \in written =>
       \/ MoveOf[m].type = "epic" /\ Enterers(ran[m]) = {}
       \/ ~MoveOf[m].parses /\ ran[m] = <<>>

PolicyInv == TypeOK /\ RulesRun /\ MovesHeard /\ ThrowsUnwritten
=============================================================================
