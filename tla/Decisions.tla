------------------------------ MODULE Decisions ------------------------------
(***************************************************************************)
(* Questions to the user that do not stop the world: the NeedsYouQueue     *)
(* (model/queues.py), the question tool (kernel/question.py), what governs *)
(* and defers (kernel/governance_hook.py), and the step-boundary hook that *)
(* hands answers to the model (kernel/steering.py).                        *)
(*                                                                         *)
(* Two threads use the queue, so each call of it is a step of its own; its *)
(* listeners run with the call that notifies them.                         *)
(***************************************************************************)
EXTENDS Naturals, FiniteSets

CONSTANTS Asks,      \* executions of the question tool
          AutoAsks,  \* those in Auto mode: they return at once
          NoAsk,
          Decs,      \* decisions
          AskOf,     \* the execution that asks it, NoAsk: parked by governance
          Cap        \* _MAX_DECISIONS

ASSUME DecisionsAssumption ==
  /\ AutoAsks \subseteq Asks /\ NoAsk \notin Asks
  /\ AskOf \in [Decs -> Asks \cup {NoAsk}]
  /\ Cap \in Nat

VARIABLES
  status,     \* of each decision
  tool,       \* where each execution is
  heard,      \* an execution's `answers': what it noted for each decision
  woken,      \* executions whose event is set
  result,     \* decisions a tool result carried, with what it said
  injected    \* how often the model was handed each answer at a boundary

decisionVars == <<status, tool, heard, woken, result, injected>>

Of(a) == {d \in Decs : AskOf[d] = a}
Active == {d \in Decs : status[d] \in {"pending", "answered"}}

DecisionsTypeOK ==
  /\ status \in [Decs -> {"none", "pending", "answered", "consumed", "dismissed"}]
  /\ tool \in [Asks -> {"idle", "asking", "waiting", "done", "failed", "cancelled"}]
  /\ heard \in [Decs -> {"none", "answer", "empty"}]
  /\ woken \subseteq Asks
  /\ result \subseteq Decs \X {"answer", "empty"}
  /\ injected \in [Decs -> Nat]
  /\ Cardinality(Active) <= Cap

-----------------------------------------------------------------------------

\* Mutant: whatever is not answered is unanswered.
NotedEarly(h, st) == IF h # "none" THEN h
                     ELSE IF st = "answered" THEN "answer" ELSE "empty"

\* _resolve, for one decision.
Noted(h, st) ==
  CASE h = "none" /\ st = "answered"                 -> "answer"
    [] h = "none" /\ st \in {"dismissed", "consumed"} -> "empty"
    [] OTHER                                         -> h

\* The listeners of the waiting executions, after the queue changed to st.
Listeners(st, ts) ==
  /\ heard' = [d \in Decs |->
       IF AskOf[d] \in Asks /\ ts[AskOf[d]] = "waiting" THEN Noted(heard[d], st[d]) ELSE heard[d]]
  /\ woken' = woken \cup
       {a \in Asks : ts[a] = "waiting" /\ \A d \in Of(a) : heard'[d] # "none"}

\* The classifier's denial or a deferred approval parks a decision.
Parks(d) ==
  /\ AskOf[d] = NoAsk /\ status[d] = "none"
  /\ Cardinality(Active) < Cap
  /\ status' = [status EXCEPT ![d] = "pending"]
  /\ UNCHANGED <<tool, heard, woken, result, injected>>

AsksQuestion(d) ==
  /\ AskOf[d] \in Asks /\ status[d] = "none"
  /\ tool[AskOf[d]] \in {"idle", "asking"}
  /\ Cardinality(Active) < Cap
  /\ status' = [status EXCEPT ![d] = "pending"]
  /\ tool' = [tool EXCEPT ![AskOf[d]] = "asking"]
  /\ UNCHANGED <<heard, woken, result, injected>>

\* The questions asked so far are dismissed, unless they are answered by now.
Withdrawn(a) == [d \in Decs |-> IF d \in Of(a) /\ status[d] = "pending" THEN "dismissed"
                                ELSE status[d]]

\* The queue is full: the tool fails.
AskFails(d) ==
  /\ AskOf[d] \in Asks /\ status[d] = "none"
  /\ tool[AskOf[d]] \in {"idle", "asking"}
  /\ Cardinality(Active) >= Cap
  /\ status' = Withdrawn(AskOf[d])
  /\ tool' = [tool EXCEPT ![AskOf[d]] = "failed"]
  /\ UNCHANGED <<heard, woken, result, injected>>

\* Mutant: the listener is added without a first look.
ListensOnly(a, ts) == UNCHANGED <<heard, woken>>

\* add_listener, and a first look for answers that raced in.
FirstLook(a, ts) == Listeners(status, ts)

Asked(a) == tool[a] = "asking" /\ \A d \in Of(a) : status[d] # "none"

Waits(a) ==
  /\ Asked(a) /\ a \notin AutoAsks
  /\ tool' = [tool EXCEPT ![a] = "waiting"]
  /\ FirstLook(a, tool')
  /\ UNCHANGED <<status, result, injected>>

\* consume, for every decision of the execution.
Consumed(a) == [d \in Decs |-> IF d \in Of(a) /\ status[d] = "answered" THEN "consumed"
                               ELSE status[d]]

AutoLeaves(a) == status

\* In Auto mode the questions stay pending.
Continues(a) ==
  /\ Asked(a) /\ a \in AutoAsks
  /\ tool' = [tool EXCEPT ![a] = "done"]
  /\ status' = AutoLeaves(a)
  /\ UNCHANGED <<heard, woken, result, injected>>

\* answer and dismiss: the user acts on a pending decision.
Acts(d, st) ==
  /\ status[d] = "pending"
  /\ status' = [status EXCEPT ![d] = st]
  /\ Listeners(status', tool)
  /\ UNCHANGED <<tool, result, injected>>

Answers(d) == Acts(d, "answered")
Dismisses(d) == Acts(d, "dismissed")

\* Mutant: the answers delivered here stay answered.
NotConsumed(a) == status

Delivered(a) == Consumed(a)

\* done.wait returns: the finally clause, then the result.
Returns(a) ==
  /\ tool[a] = "waiting" /\ a \in woken
  /\ status' = Delivered(a)
  /\ result' = result \cup {<<d, heard[d]>> : d \in Of(a)}
  /\ tool' = [tool EXCEPT ![a] = "done"]
  /\ UNCHANGED <<heard, woken, injected>>

\* The turn is interrupted: only the finally clause.
Interrupts(a) ==
  /\ tool[a] = "waiting"
  /\ status' = Consumed(a)
  /\ tool' = [tool EXCEPT ![a] = "cancelled"]
  /\ UNCHANGED <<heard, woken, result, injected>>

\* No provider:request runs while a tool executes (the orchestrator, external).
AtBoundary == \A a \in Asks : tool[a] \notin {"asking", "waiting"}

\* consume_answered at the root's next provider:request.
Boundary ==
  /\ AtBoundary
  /\ \E d \in Decs : status[d] = "answered"
  /\ status' = [d \in Decs |-> IF status[d] = "answered" THEN "consumed" ELSE status[d]]
  /\ injected' = [d \in Decs |-> injected[d] + IF status[d] = "answered" THEN 1 ELSE 0]
  /\ UNCHANGED <<tool, heard, woken, result>>

Idle ==
  /\ \A d \in Decs : status[d] \in {"none", "consumed", "dismissed"}
  /\ \A a \in Asks : tool[a] \notin {"waiting"}
  /\ UNCHANGED decisionVars

DecisionsInit ==
  /\ status = [d \in Decs |-> "none"]
  /\ tool = [a \in Asks |-> "idle"]
  /\ heard = [d \in Decs |-> "none"]
  /\ woken = {} /\ result = {}
  /\ injected = [d \in Decs |-> 0]

DecisionsNext ==
  \/ \E d \in Decs : Parks(d) \/ AsksQuestion(d) \/ AskFails(d) \/ Answers(d) \/ Dismisses(d)
  \/ \E a \in Asks : Waits(a) \/ Continues(a) \/ Returns(a) \/ Interrupts(a)
  \/ Boundary \/ Idle

DecisionsSpec == DecisionsInit /\ [][DecisionsNext]_decisionVars

\* The tool's loop runs a waiter whose event is set; nobody has to answer.
FairDecisions == DecisionsSpec /\ \A a \in Asks : WF_decisionVars(Returns(a))

-----------------------------------------------------------------------------
(***************************************************************************)
(* Properties.                                                             *)
(***************************************************************************)

\* An answer reaches the model once: in a tool result or at a boundary.
DeliveredOnce ==
  \A d \in Decs : /\ injected[d] <= 1
                  /\ ~(injected[d] = 1 /\ <<d, "answer">> \in result)

\* A result says "Unanswered" only of a question the user dismissed, and
\* carries an answer only when there was one.
ResultsAreTrue ==
  \A d \in Decs : /\ <<d, "empty">> \in result => status[d] = "dismissed"
                  /\ <<d, "answer">> \in result => status[d] = "consumed"

\* An answer that is gone from the queue was delivered, unless the execution
\* that asked was interrupted.
AnswerNotLost ==
  \A d \in Decs :
    status[d] = "consumed" =>
      \/ injected[d] = 1 \/ <<d, "answer">> \in result
      \/ AskOf[d] \in {a \in Asks : tool[a] = "cancelled"}

ReachedOnce == DeliveredOnce /\ AnswerNotLost
ResultsSound == DecisionsTypeOK /\ ResultsAreTrue

\* An execution whose questions are all decided returns: no answer is missed,
\* not even one that came before the tool listened.
NoMissedAnswer ==
  \A a \in Asks : (tool[a] = "waiting" /\ \A d \in Of(a) : status[d] \in {"answered", "dismissed"})
                    ~> tool[a] # "waiting"
=============================================================================
