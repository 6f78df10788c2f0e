---------------------------- MODULE AttentionPush ----------------------------
(***************************************************************************)
(* The push destination of attention records (kernel/attention_push.py):   *)
(* hook events are put on two queues, clears on one of their own, and one  *)
(* worker task sends them to the notification service in order.  A request *)
(* may fail, or outlive the worker that is cancelled while it is sent: it  *)
(* is made by a thread nobody can stop.                                    *)
(***************************************************************************)
EXTENDS Naturals, Sequences, SequencesExt, FiniteSets

CONSTANTS Notices,      \* the events notified
          QueueLimit,   \* _QUEUE_LIMIT
          MaxHooks      \* bound on hook events

PushAssumption == QueueLimit \in Nat \ {0} /\ MaxHooks \in Nat

VARIABLES
  pending, clears,   \* _pending, _pending_clears
  final,             \* _cleared
  wakeup, drained,   \* the two events
  worker,            \* "none", "waiting", "looping", "sending", "stopped"
  sending,           \* what is being sent
  closing,           \* "open", "draining", "closed"
  seen,              \* what the service shows of each event
  hooked,            \* bound
  tried              \* ghost: clears that were sent, with or without success

queues == <<pending, clears, final>>
vars == <<queues, wakeup, drained, worker, sending, closing, seen, hooked, tried>>

Nothing == [op |-> "none", notice |-> "none"]
Empty == pending = << >> /\ clears = << >>

Init ==
  /\ pending = << >> /\ clears = << >> /\ final = {}
  /\ wakeup = FALSE /\ drained = TRUE /\ worker = "none" /\ sending = Nothing
  /\ closing = "open" /\ seen = [n \in Notices |-> "nothing"] /\ hooked = 0 /\ tried = {}

-----------------------------------------------------------------------------
Hooked == closing = "open" /\ hooked < MaxHooks /\ hooked' = hooked + 1
Wakes ==
  /\ wakeup' = TRUE /\ drained' = FALSE
  /\ worker' = IF worker = "none" THEN "waiting" ELSE worker

\* handle_recorded.
Recorded(n) ==
  /\ Hooked
  /\ IF n \in final \/ Len(pending) >= QueueLimit
       THEN UNCHANGED <<pending, wakeup, drained, worker>>
       ELSE pending' = Append(pending, n) /\ Wakes
  /\ UNCHANGED <<clears, final, sending, closing, seen, tried>>

\* Mutant: a publish already queued is sent after the clear.
StillQueued(n) == pending
\* handle_acknowledged: terminal, whatever of the event is queued.
Superseded(n) == SelectSeq(pending, LAMBDA p : p # n)
Acknowledged(n) ==
  /\ Hooked
  /\ final' = final \cup {n}
  /\ pending' = Superseded(n)
  /\ clears' = IF n \in ToSet(clears) THEN clears ELSE Append(clears, n)
  /\ Wakes
  /\ UNCHANGED <<sending, closing, seen, tried>>

\* _run: the worker waits for the wakeup, then goes on as long as something is queued,
\* clears first.
Take(op, n, p, c) ==
  /\ sending' = [op |-> op, notice |-> n]
  /\ pending' = p /\ clears' = c
  /\ wakeup' = (wakeup /\ (p # << >> \/ c # << >>))
Send ==
  /\ (worker = "waiting" /\ wakeup) \/ worker = "looping"
  /\ ~Empty
  /\ IF clears # << >> THEN Take("clear", Head(clears), pending, Tail(clears))
       ELSE Take("publish", Head(pending), Tail(pending), clears)
  /\ worker' = "sending"
  /\ UNCHANGED <<final, drained, closing, seen, hooked, tried>>

\* _deliver: the service does as it is asked, whether or not that is what the answer says,
\* or does not.
Arrives ==
  /\ LET n == sending.notice IN
       seen' \in {seen, [seen EXCEPT ![n] = IF sending.op = "clear" THEN "cleared" ELSE "shown"]}
  /\ tried' = IF sending.op = "clear" THEN tried \cup {sending.notice} ELSE tried
  /\ sending' = Nothing
Sent ==
  /\ worker = "sending" /\ Arrives
  /\ worker' = IF Empty THEN "waiting" ELSE "looping"
  /\ drained' = (drained \/ Empty)
  /\ UNCHANGED <<queues, wakeup, closing, hooked>>

\* cleanup: no more events; what is queued may go out in a second, then the worker is
\* cancelled.
Cleanup ==
  /\ closing = "open"
  /\ closing' = IF worker = "none" THEN "closed" ELSE "draining"
  /\ UNCHANGED <<queues, wakeup, drained, worker, sending, seen, hooked, tried>>
Stop ==
  /\ closing = "draining"
  /\ closing' = "closed" /\ worker' = "stopped"
  /\ UNCHANGED <<queues, wakeup, drained, sending, seen, hooked, tried>>

\* The thread of a cancelled delivery.
ArrivesLate ==
  /\ worker = "stopped" /\ sending # Nothing /\ Arrives
  /\ UNCHANGED <<queues, wakeup, drained, worker, closing, hooked>>

Next ==
  \/ \E n \in Notices : Recorded(n) \/ Acknowledged(n)
  \/ Send \/ Sent \/ Cleanup \/ Stop \/ ArrivesLate

Spec == Init /\ [][Next]_vars

-----------------------------------------------------------------------------
(***************************************************************************)
(* Properties.                                                             *)
(***************************************************************************)

TypeOK ==
  /\ pending \in Seq(Notices) /\ Len(pending) <= QueueLimit
  /\ clears \in Seq(Notices) /\ Len(clears) <= Cardinality(Notices)
  /\ worker \in {"none", "waiting", "looping", "sending", "stopped"}
  /\ seen \in [Notices -> {"nothing", "shown", "cleared"}]

\* An acknowledgement is terminal: from then on the event's clear is queued, being sent or
\* sent, and no publish of it is made after that, so no replay brings back a notification
\* that was cleared.
ClearIsLast == \A n \in final :
  /\ n \in ToSet(clears) \cup tried \/ sending = [op |-> "clear", notice |-> n]
  /\ n \notin ToSet(pending)
  /\ sending = [op |-> "publish", notice |-> n] => n \in ToSet(clears) \ tried

\* The worker sleeps exactly when nothing is queued: no lost wakeup, and no wakeup left
\* set, on which the loop would spin without ever yielding.
SleepsWhenIdle == worker = "waiting" => (wakeup <=> ~Empty)

\* drain returns exactly when everything queued has gone out.
DrainedIsTrue == worker # "stopped" => (drained <=> (Empty /\ sending = Nothing))

\* What the destination does with its two queues and two events (_enqueue, _run).
PushSound == TypeOK /\ ClearIsLast /\ SleepsWhenIdle /\ DrainedIsTrue

=============================================================================
