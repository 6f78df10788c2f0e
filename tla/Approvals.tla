------------------------------ MODULE Approvals ------------------------------
(***************************************************************************)
(* The approval broker (kernel/approval.py), the hook that stages details  *)
(* for it (kernel/governance_hook.py) and the `approve' op that answers it *)
(* (kernel/serve.py).                                                      *)
(*                                                                         *)
(* All of it runs on one event loop: an action is what runs between two    *)
(* awaits.  A waiter whose future was resolved resumes later, and until    *)
(* then its deadline may still fire: asyncio cancels the waiting task even *)
(* though the answer is already in its future, and the answer is lost.     *)
(* The two "Allow" choices differ only for the asker and are one here.     *)
(***************************************************************************)
EXTENDS Naturals, Sequences, FiniteSets, SequencesExt

CONSTANTS Calls,      \* tool calls that ask for approval
          NoCall,
          Prompts, PromptOf,  \* calls of one action have the same prompt
          DefaultOf,  \* what an expired call resolves to
          Slots       \* free places in the needs-you queue

ASSUME ApprovalsAssumption ==
  /\ NoCall \notin Calls
  /\ PromptOf \in [Calls -> Prompts]
  /\ DefaultOf \in [Calls -> {"allow", "deny"}]
  /\ Slots \in Nat

VARIABLES
  place,      \* where each call is
  staged,     \* details waiting for their request, by prompt
  tickets,    \* unresolved and unreaped tickets, in order of arrival
  detail,     \* the call whose detail the ticket carries
  future,     \* the ticket's future
  expired,    \* calls whose deadline fired while they waited
  deferred, parked,  \* tickets deferred, those with a needs-you decision
  outcome,    \* what request_approval returned
  denials,    \* DenialLog entries of this broker
  announced,  \* tickets the serve loop surfaced as approval.required
  told        \* history variable: the choice answer() put into the future

vars == <<place, staged, tickets, detail, future, expired, deferred, parked, outcome,
          denials, announced, told>>

Verdicts == {"allow", "deny"}

TypeOK ==
  /\ place \in [Calls -> {"tool", "hooked", "waiting", "done"}]
  /\ staged \in [Prompts -> Seq(Calls)]
  /\ tickets \in Seq(Calls)
  /\ \A c \in Calls : c \in Range(tickets) <=> place[c] = "waiting"
  /\ detail \in [Calls -> Calls \cup {NoCall}]
  /\ future \in [Calls -> Verdicts \cup {"open", "cancelled"}]
  /\ expired \subseteq Calls /\ deferred \subseteq Calls /\ parked \subseteq deferred
  /\ outcome \in [Calls -> Verdicts \cup {"none"}]
  /\ denials \subseteq Calls \X {"timeout", "deferral"}
  /\ announced \subseteq Calls
  /\ told \in [Calls -> Verdicts \cup {"none"}]

\* head: the oldest ticket neither deferred nor resolved.
IsHead(c, ts, fut, def) ==
  \E i \in DOMAIN ts :
    /\ ts[i] = c /\ c \notin def /\ fut[c] = "open"
    /\ \A j \in 1 .. (i - 1) : ts[j] \in def \/ fut[ts[j]] # "open"

\* _on_broker_change: announce the head, once.
Notifies(ts, fut, def) ==
  announced' = announced \cup {c \in Calls : IsHead(c, ts, fut, def)}

-----------------------------------------------------------------------------

\* _ask: the hook stages the detail and asks the kernel to ask.
Stages(c) ==
  /\ place[c] = "tool"
  /\ place' = [place EXCEPT ![c] = "hooked"]
  /\ staged' = [staged EXCEPT ![PromptOf[c]] = Append(@, c)]
  /\ UNCHANGED <<tickets, detail, future, expired, deferred, parked, outcome, denials,
                 announced, told>>

\* The kernel calls request_approval after the hook, in the hooks' order for
\* one prompt (amplifier-core, external).
KernelAsks(c) ==
  /\ place[c] = "hooked"
  /\ \A i \in DOMAIN staged[PromptOf[c]] :
       staged[PromptOf[c]][i] = c =>
         \A j \in 1 .. (i - 1) : place[staged[PromptOf[c]][j]] # "hooked"

\* Mutant: the newest detail is taken.
TakenNewest(p) == IF staged[p] = << >> THEN << >>
                  ELSE <<Last(staged[p]), Front(staged[p])>>

\* _pop_staged: the oldest detail for the prompt and what is left.
Taken(p) == IF staged[p] = << >> THEN << >> ELSE <<Head(staged[p]), Tail(staged[p])>>

RequestApproval(c) ==
  /\ KernelAsks(c)
  /\ place' = [place EXCEPT ![c] = "waiting"]
  /\ LET t == Taken(PromptOf[c]) IN
       /\ detail' = [detail EXCEPT ![c] = IF t = << >> THEN NoCall ELSE t[1]]
       /\ staged' = [staged EXCEPT ![PromptOf[c]] = IF t = << >> THEN @ ELSE t[2]]
  /\ tickets' = Append(tickets, c)
  /\ Notifies(tickets', future, deferred)
  /\ UNCHANGED <<future, expired, deferred, parked, outcome, denials, told>>

\* answer: a choice for a ticket that is still listed.  A future that is done
\* already is left alone without an error.
Answer(c, choice) ==
  /\ c \in Range(tickets)
  /\ IF future[c] = "open"
       THEN /\ future' = [future EXCEPT ![c] = choice]
            /\ told' = [told EXCEPT ![c] = choice]
       ELSE UNCHANGED <<future, told>>
  /\ UNCHANGED <<place, staged, tickets, detail, expired, deferred, parked, outcome,
                 denials, announced>>

\* The `approve' op: with the id a client learned, or without one for the head.
Approve(c, choice) == c \in announced /\ Answer(c, choice)
ApproveHead(c, choice) == IsHead(c, tickets, future, deferred) /\ Answer(c, choice)

\* _record_deferral
Deferral(c) == {<<c, "deferral">>}

\* defer: park the decision if the queue has room, deny the call.
Defer(c) ==
  /\ c \in Range(tickets) \ deferred
  /\ deferred' = deferred \cup {c}
  /\ parked' = IF Cardinality(parked) < Slots THEN parked \cup {c} ELSE parked
  /\ denials' = denials \cup Deferral(c)
  /\ future' = IF future[c] = "open" THEN [future EXCEPT ![c] = "deny"] ELSE future
  /\ Notifies(tickets, future', deferred')
  /\ UNCHANGED <<place, staged, tickets, detail, expired, outcome, told>>

\* asyncio.timeout cancels the waiting task.
Fires(c) ==
  /\ place[c] = "waiting" /\ c \notin expired
  /\ expired' = expired \cup {c}
  /\ future' = IF future[c] = "open" THEN [future EXCEPT ![c] = "cancelled"] ELSE future
  /\ UNCHANGED <<place, staged, tickets, detail, deferred, parked, outcome, denials,
                 announced, told>>

\* Mutants: only a resolved future wakes the waiter; expiry allows.
WakesResolved(c) == future[c] \in Verdicts
AllowsExpired(c) == IF c \in expired THEN "allow" ELSE future[c]

Wakes(c) == future[c] # "open"
Choice(c) == IF c \in expired THEN DefaultOf[c] ELSE future[c]

\* The waiter resumes: TimeoutError or the choice, then the finally clause.
Resumes(c) ==
  /\ place[c] = "waiting" /\ Wakes(c)
  /\ outcome' = [outcome EXCEPT ![c] = Choice(c)]
  /\ denials' = IF c \in expired /\ Choice(c) = "deny"
                  THEN denials \cup {<<c, "timeout">>} ELSE denials
  /\ place' = [place EXCEPT ![c] = "done"]
  /\ tickets' = RemoveFirst(tickets, c)
  /\ Notifies(tickets', future, deferred)
  /\ UNCHANGED <<staged, detail, future, expired, deferred, parked, told>>

Finished == /\ \A c \in Calls : place[c] = "done"
            /\ UNCHANGED vars

Init ==
  /\ place = [c \in Calls |-> "tool"]
  /\ staged = [p \in Prompts |-> << >>]
  /\ tickets = << >>
  /\ detail = [c \in Calls |-> NoCall]
  /\ future = [c \in Calls |-> "open"]
  /\ expired = {} /\ deferred = {} /\ parked = {} /\ denials = {} /\ announced = {}
  /\ outcome = [c \in Calls |-> "none"]
  /\ told = [c \in Calls |-> "none"]

Next ==
  \/ \E c \in Calls : Stages(c) \/ RequestApproval(c) \/ Defer(c) \/ Fires(c) \/ Resumes(c)
  \/ \E c \in Calls, choice \in Verdicts : Approve(c, choice) \/ ApproveHead(c, choice)
  \/ Finished

Spec == Init /\ [][Next]_vars

\* The loop's clock reaches every deadline and the loop runs what is ready;
\* nobody has to answer.
FairSpec == /\ Spec
            /\ \A c \in Calls : WF_vars(Fires(c)) /\ WF_vars(Resumes(c))

-----------------------------------------------------------------------------
(***************************************************************************)
(* Properties.                                                             *)
(***************************************************************************)

\* A call is allowed only because a human said so or because it expired with
\* the default to allow, whatever was deferred, repeated or late.
FailClosed ==
  \A c \in Calls : outcome[c] = "allow" =>
    told[c] = "allow" \/ (c \in expired /\ DefaultOf[c] = "allow")

\* A denial that no human chose is in the denial log, room to park it or not.
DenialsLogged ==
  \A c \in Calls : outcome[c] = "deny" /\ told[c] # "deny" =>
    <<c, "timeout">> \in denials \/ <<c, "deferral">> \in denials

FailsClosedAloud == FailClosed /\ DenialsLogged

\* "Concurrent identical prompts pair with their details in request order".
DetailIsOwn == \A c \in Calls : detail[c] \in {c, NoCall}

\* When no waiter is about to resume, the ticket that blocks the others is the
\* one the client was shown.
HeadShown ==
  (\A c \in Range(tickets) : future[c] = "open") =>
    \A c \in Calls : IsHead(c, tickets, future, deferred) => c \in announced

TicketsTrue == TypeOK /\ DetailIsOwn /\ HeadShown

\* "Never raises to the kernel", and never keeps it waiting for ever.
EveryAskReturns == \A c \in Calls : place[c] = "waiting" ~> place[c] = "done"
=============================================================================
