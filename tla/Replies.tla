------------------------------- MODULE Replies -------------------------------
(***************************************************************************)
(* The inbound reply channel and the attention records it settles          *)
(* (kernel/ambient/reply.py, kernel/attention_store.py).  A notification   *)
(* names an event; a signed reply to it is verified, its nonce reserved,   *)
(* the event's handoff claimed, the text submitted to the event's          *)
(* decision, and the event acknowledged.  Replies come over HTTP, each in  *)
(* a thread of its own, maybe twice, and maybe at two views of the session *)
(* at once; the person may meanwhile answer in a client.                   *)
(*                                                                         *)
(* The device, correlation and delivery files are written under the file   *)
(* lock, which is ControlFile's, and here always had; the attention file's *)
(* is not waited for, and a change is given up without it.  The handoff is *)
(* SessionControl's and the decision Decisions': here is what the channel  *)
(* can make of them.                                                       *)
(***************************************************************************)
EXTENDS Naturals, Sequences, SequencesExt, FiniteSets

CONSTANTS Handlers, Events, Nonces,
          EventOf, SecretOf,        \* what each nonce's envelope answers and is signed with
          WithHandoff, WithDecision,
          NoOne, Elsewhere, NoEvent,
          RingLimit,                \* MAX_NONCES
          MaxEnrols, MaxOutside     \* bounds; on everything else that happens, together

RepliesAssumption ==
  /\ EventOf \in [Nonces -> Events] /\ SecretOf \in [Nonces -> 1 .. MaxEnrols]
  /\ WithHandoff \cup WithDecision \subseteq Events
  /\ {NoOne, Elsewhere} \cap Handlers = {} /\ NoOne # Elsewhere /\ NoEvent \notin Events
  /\ RingLimit \in Nat \ {0} /\ {MaxEnrols, MaxOutside} \subseteq Nat

VARIABLES
  secret, enrols,  \* the device's secret, 0 once revoked
  old,             \* envelopes older than the freshness window
  nonces,          \* the ring of spent nonces
  outcomes,        \* the delivery outcomes
  bound,           \* events in the correlation table
  handoff,         \* who claimed each event's handoff
  decision,        \* "none" before it is asked, "open", or who settled it
  row, current,    \* attention.json: by_id, current
  pc, env, snap,   \* each handler's progress, envelope, and what it read of attention.json
  verdict,         \* what it answered
  views,           \* ghost: how many times record() said it inserted an event
  overwritten,     \* ghost: a snapshot has been saved over somebody's change
  spoken,          \* ghost: events acknowledged by a submitted prompt
  outside

device == <<secret, enrols>>
store  == <<row, current>>
thread == <<pc, env, snap, verdict>>
ghosts == <<views, overwritten, spoken>>
world  == <<bound, handoff, decision>>
vars   == <<device, old, nonces, outcomes, world, store, thread, ghosts, outside>>

Init ==
  /\ secret = 1 /\ enrols = 1 /\ old = {} /\ nonces = << >> /\ outcomes = {}
  /\ bound = {} /\ handoff = [e \in Events |-> NoOne] /\ decision = [e \in Events |-> "none"]
  /\ row = [e \in Events |-> "absent"] /\ current = NoEvent
  /\ pc = [h \in Handlers |-> "idle"] /\ env = [h \in Handlers |-> CHOOSE n \in Nonces : TRUE]
  /\ snap = [h \in Handlers |-> << >>] /\ verdict = [h \in Handlers |-> "none"]
  /\ views = [e \in Events |-> 0] /\ overwritten = FALSE /\ spoken = {}
  /\ outside = 0

-----------------------------------------------------------------------------
(***************************************************************************)
(* accept, by one handler.                                                 *)
(***************************************************************************)

Happens == outside < MaxOutside /\ outside' = outside + 1

Event(h) == EventOf[env[h]]
Goes(h, to) == pc' = [pc EXCEPT ![h] = to]
Says(h, what) == verdict' = [verdict EXCEPT ![h] = what] /\ Goes(h, "done")
Outcome(h, ok) == outcomes' = outcomes \cup {[nonce |-> env[h], by |-> h, accepted |-> ok]}

\* verify, and what accept reads of the correlation before it spends the nonce.
Verified(n) ==
  /\ secret = SecretOf[n] /\ n \notin old /\ n \notin ToSet(nonces)
  /\ EventOf[n] \in bound \cap (WithHandoff \cup WithDecision)

Receive(h, n) ==
  /\ pc[h] = "idle"
  /\ env' = [env EXCEPT ![h] = n]
  /\ IF Verified(n) THEN Goes(h, "verified") /\ UNCHANGED verdict ELSE Says(h, "refused")
  /\ UNCHANGED <<device, old, nonces, outcomes, world, store, snap, ghosts, outside>>

Pushed(n) == LET all == Append(nonces, n) IN
  IF Len(all) > RingLimit THEN Tail(all) ELSE all
\* ReplyDeliveryStore.reserve.
Reserve(h) ==
  /\ pc[h] = "verified"
  /\ IF env[h] \in ToSet(nonces) THEN Says(h, "refused") /\ UNCHANGED nonces
       ELSE nonces' = Pushed(env[h]) /\ Goes(h, "reserved") /\ UNCHANGED verdict
  /\ UNCHANGED <<device, old, outcomes, world, store, env, snap, ghosts, outside>>

Identify(h) ==
  /\ pc[h] = "reserved"
  /\ IF secret # 0 THEN Goes(h, "known") /\ UNCHANGED <<outcomes, verdict>>
       ELSE Outcome(h, FALSE) /\ Says(h, "refused")
  /\ UNCHANGED <<device, old, nonces, world, store, env, snap, ghosts, outside>>

\* claim_handoff: granted, or refused because it is claimed already or the pen is held by
\* somebody who ranks higher.
ClaimGranted(h) == handoff[Event(h)] = NoOne
Claim(h) ==
  /\ pc[h] = "known"
  /\ \/ Event(h) \notin WithHandoff /\ Goes(h, "claimed") /\ UNCHANGED <<handoff, outcomes, verdict>>
     \/ /\ Event(h) \in WithHandoff /\ ClaimGranted(h)
        /\ handoff' = [handoff EXCEPT ![Event(h)] = h]
        /\ Goes(h, "claimed") /\ UNCHANGED <<outcomes, verdict>>
     \/ /\ Event(h) \in WithHandoff
        /\ Outcome(h, FALSE) /\ Says(h, "refused") /\ UNCHANGED handoff
  /\ UNCHANGED <<device, old, nonces, bound, decision, store, env, snap, ghosts, outside>>

\* NeedsYouReplySubmissionPort.submit_reply: only an open decision takes an answer.
Answerable(h) == Event(h) \in WithDecision /\ decision[Event(h)] = "open"
Settles(e, who) == decision' = [decision EXCEPT ![e] = who]
\* Mutant: what the queue says to the answer is ignored.
SubmitsAnyway(h) ==
  /\ pc[h] = "claimed"
  /\ IF Answerable(h) THEN Settles(Event(h), h) ELSE UNCHANGED decision
  /\ Goes(h, "submitted")
  /\ UNCHANGED <<device, old, nonces, outcomes, bound, handoff, store, env, snap, verdict, ghosts, outside>>
Submit(h) ==
  /\ pc[h] = "claimed"
  /\ \/ Answerable(h) /\ Settles(Event(h), h) /\ Goes(h, "submitted") /\ UNCHANGED <<outside, verdict, outcomes>>
     \* The queue takes the answer and a listener raises: reported as a failure.
     \/ /\ Answerable(h) /\ Happens
        /\ Settles(Event(h), h) /\ Outcome(h, FALSE) /\ Says(h, "failed")
     \/ /\ ~Answerable(h)
        /\ Outcome(h, FALSE) /\ Says(h, "refused") /\ UNCHANGED <<decision, outside>>
  /\ UNCHANGED <<device, old, nonces, bound, handoff, store, env, snap, ghosts>>

RecordAccepted(h) ==
  /\ pc[h] = "submitted"
  /\ Outcome(h, TRUE) /\ Goes(h, "recorded")
  /\ UNCHANGED <<device, old, nonces, world, store, env, snap, verdict, ghosts, outside>>

\* _acknowledge_attention: the file is read without the lock ...
ReadAttention(h) ==
  /\ pc[h] = "recorded"
  /\ IF row[Event(h)] = "open"
       THEN /\ snap' = [snap EXCEPT ![h] = [row |-> row, current |-> current]]
            /\ Goes(h, "acknowledging") /\ UNCHANGED verdict
       ELSE Says(h, "accepted") /\ UNCHANGED snap
  /\ UNCHANGED <<device, old, nonces, outcomes, world, store, env, ghosts, outside>>

\* ... and written under it, or not at all.
SaveAttention(h) ==
  /\ pc[h] = "acknowledging"
  /\ \/ /\ row' = [snap[h].row EXCEPT ![Event(h)] = "acked"]
        /\ current' = IF snap[h].current = NoEvent THEN Event(h) ELSE snap[h].current
        /\ overwritten' = (overwritten \/ [row |-> row, current |-> current] # snap[h])
     \/ UNCHANGED <<row, current, overwritten>>
  /\ Says(h, "accepted") /\ snap' = [snap EXCEPT ![h] = << >>]
  /\ UNCHANGED <<device, old, nonces, outcomes, world, env, views, spoken, outside>>

\* The listener answers and the thread is free for another request.
Respond(h) ==
  /\ pc[h] = "done" /\ verdict[h] = "refused"
  /\ Goes(h, "idle") /\ verdict' = [verdict EXCEPT ![h] = "none"]
  /\ UNCHANGED <<device, old, nonces, outcomes, world, store, env, snap, ghosts, outside>>

-----------------------------------------------------------------------------
(***************************************************************************)
(* Everybody else.                                                         *)
(***************************************************************************)

Revoke ==
  /\ Happens /\ secret # 0 /\ secret' = 0
  /\ UNCHANGED <<enrols, old, nonces, outcomes, world, store, thread, ghosts>>
Enrol ==
  /\ Happens /\ enrols < MaxEnrols /\ enrols' = enrols + 1 /\ secret' = enrols + 1
  /\ UNCHANGED <<old, nonces, outcomes, world, store, thread, ghosts>>
GrowOld(n) ==
  /\ Happens /\ n \notin old /\ old' = old \cup {n}
  /\ UNCHANGED <<device, nonces, outcomes, world, store, thread, ghosts>>

\* The session asks: the decision is deferred, the session paused if it has a handoff, and
\* the event bound to both.
Ask(e) ==
  /\ e \notin bound /\ bound' = bound \cup {e}
  /\ decision' = [decision EXCEPT ![e] = IF e \in WithDecision THEN "open" ELSE "none"]
  /\ UNCHANGED <<device, old, nonces, outcomes, handoff, store, thread, ghosts, outside>>

\* AttentionStore.record, by any view of the session.
Record(e) ==
  /\ e \in bound /\ row[e] = "absent"
  /\ row' = [row EXCEPT ![e] = "open"] /\ current' = e
  /\ views' = [views EXCEPT ![e] = IF @ < 2 THEN @ + 1 ELSE @]
  /\ UNCHANGED <<device, old, nonces, outcomes, world, thread, overwritten, spoken, outside>>

\* A prompt is submitted (_resolve_pending_attention): the current event is acknowledged.
Prompt ==
  /\ Happens
  /\ current # NoEvent /\ row[current] = "open"
  /\ row' = [row EXCEPT ![current] = "acked"] /\ spoken' = spoken \cup {current}
  /\ UNCHANGED <<device, old, nonces, outcomes, world, current, thread, views, overwritten>>

\* In a client: the decision is answered or dismissed, the handoff claimed.
AnswerInline(e) ==
  /\ Happens /\ decision[e] = "open" /\ Settles(e, Elsewhere)
  /\ UNCHANGED <<device, old, nonces, outcomes, bound, handoff, store, thread, ghosts>>
ClaimElsewhere(e) ==
  /\ Happens /\ e \in bound \cap WithHandoff /\ handoff[e] = NoOne
  /\ handoff' = [handoff EXCEPT ![e] = Elsewhere]
  /\ UNCHANGED <<device, old, nonces, outcomes, bound, decision, store, thread, ghosts>>

Next ==
  \/ \E h \in Handlers :
       \/ \E n \in Nonces : Receive(h, n)
       \/ Reserve(h) \/ Identify(h) \/ Claim(h) \/ Submit(h) \/ RecordAccepted(h)
       \/ ReadAttention(h) \/ SaveAttention(h) \/ Respond(h)
  \/ Revoke \/ Enrol \/ \E n \in Nonces : GrowOld(n)
  \/ \E e \in Events : Ask(e) \/ Record(e) \/ AnswerInline(e) \/ ClaimElsewhere(e)
  \/ Prompt

Spec == Init /\ [][Next]_vars

-----------------------------------------------------------------------------
(***************************************************************************)
(* Properties.                                                             *)
(***************************************************************************)

TypeOK ==
  /\ secret \in 0 .. MaxEnrols /\ old \subseteq Nonces /\ ToSet(nonces) \subseteq Nonces
  /\ outcomes \subseteq [nonce : Nonces, by : Handlers, accepted : BOOLEAN]
  /\ handoff \in [Events -> Handlers \cup {NoOne, Elsewhere}]
  /\ decision \in [Events -> Handlers \cup {"none", "open", Elsewhere}]
  /\ row \in [Events -> {"absent", "open", "acked"}] /\ current \in Events \cup {NoEvent}
  /\ env \in [Handlers -> Nonces]

\* What a handler reports is so, and nobody else's: accepted means that its text settled
\* the decision, and that it held the handoff if there is one; refused that it did not.
VerdictTrue == \A h \in Handlers :
  /\ verdict[h] = "accepted" =>
       /\ decision[Event(h)] = h
       /\ Event(h) \in WithHandoff => handoff[Event(h)] = h
       /\ [nonce |-> env[h], by |-> h, accepted |-> TRUE] \in outcomes
  /\ verdict[h] = "refused" => \A e \in Events : decision[e] # h

\* An event is acknowledged only once it was answered or the person spoke: a reply that
\* failed leaves the question waiting.
NoQuestionLost == \A e \in Events : row[e] = "acked" =>
  e \in spoken \/ decision[e] \in Handlers

\* An event is inserted once, so pushed once, as long as no reply's acknowledgement has
\* been saved over somebody else's change.
InsertedOnce == overwritten \/ \A e \in Events : views[e] <= 1

\* What the channel and the attention file say is true (ReplyChannel.accept,
\* AttentionStore.record).
RepliesSound == TypeOK /\ VerdictTrue /\ NoQuestionLost /\ InsertedOnce

=============================================================================
