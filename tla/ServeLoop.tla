------------------------------ MODULE ServeLoop ------------------------------
(***************************************************************************)
(* The protocol loop of kernel/serve.py with its turn slot, the root       *)
(* SteeringQueue (model/queues.py) drained by the StepBoundaryBridge       *)
(* (kernel/steering.py), and the durable idempotency keys of               *)
(* kernel/session_control.py.                                              *)
(*                                                                         *)
(* One process serves at a time.  The loop handles an op without awaiting, *)
(* so Handles is one step; the turn is a task of its own.  Whether the     *)
(* lease gate lets an op through is SessionControl's matter: here any op   *)
(* may be refused.                                                         *)
(***************************************************************************)
EXTENDS Naturals, Sequences, FiniteSets, Functions

CONSTANTS SubmitOps, SteerOps, DecisionOps,   \* ops clients send
          Keyed,      \* ops with an idempotency key of their own: retried until answered
          MaxSends,   \* bound: how often one op is sent
          MaxQueue,   \* MAX_QUEUE_ITEMS
          MaxKeys,    \* MAX_IDEMPOTENCY_ENTRIES
          Eof

Ops == SubmitOps \cup SteerOps \cup DecisionOps
ASSUME ServeLoopAssumption ==
  /\ Eof \notin Ops /\ Keyed \subseteq Ops
  /\ SubmitOps \cap SteerOps = {} /\ DecisionOps \cap (SubmitOps \cup SteerOps) = {}
  /\ MaxSends \in Nat \ {0} /\ MaxQueue \in Nat \ {0} /\ MaxKeys \in Nat \ {0}

VARIABLES
  life,      \* the serving process
  sends,     \* how often each op was sent
  closed,    \* stdin was closed
  inbox,     \* the op queue
  keys,      \* remembered keys, oldest first: on disk
  prompts,   \* the turn task's prompts, the first one executing; none: no turn
  steering,  \* queued steers
  asking,    \* the turn waits for an answer
  log,       \* what reached the model: <<how, op>>, in order
  acked,     \* ops the client was told were accepted
  lost       \* instructions a dead process had taken

vars == <<life, sends, closed, inbox, keys, prompts, steering, asking, log, acked, lost>>

Instr == SubmitOps \cup SteerOps

TypeOK ==
  /\ life \in {"up", "ending", "exited", "down"}
  /\ sends \in [Ops -> 0 .. MaxSends] /\ closed \in BOOLEAN
  /\ inbox \in Seq(Ops \cup {Eof})
  /\ keys \in Seq(Keyed) /\ Len(keys) <= MaxKeys
  /\ prompts \in Seq(Instr)
  /\ steering \in Seq(Instr) /\ Len(steering) <= MaxQueue
  /\ steering # << >> \/ asking => prompts # << >>
  /\ log \in Seq({"turn", "steer"} \X Instr)
  /\ acked \subseteq Ops /\ lost \subseteq Instr

Busy == prompts # << >>
Turn(o) == log' = Append(log, <<"turn", o>>)

-----------------------------------------------------------------------------
(***************************************************************************)
(* Clients.                                                                *)
(***************************************************************************)

\* A client sends an op, and sends one with a key again when it likes.
Sends(o) ==
  /\ life = "up" /\ ~closed
  /\ sends[o] < IF o \in Keyed THEN MaxSends ELSE 1
  /\ sends' = [sends EXCEPT ![o] = @ + 1]
  /\ inbox' = Append(inbox, o)
  /\ UNCHANGED <<life, closed, keys, prompts, steering, asking, log, acked, lost>>

Closes ==
  /\ life = "up" /\ ~closed
  /\ closed' = TRUE
  /\ inbox' = Append(inbox, Eof)
  /\ UNCHANGED <<life, sends, keys, prompts, steering, asking, log, acked, lost>>

-----------------------------------------------------------------------------
(***************************************************************************)
(* The loop.                                                               *)
(***************************************************************************)

Takes(o) == life = "up" /\ inbox # << >> /\ Head(inbox) = o /\ inbox' = Tail(inbox)

\* Mutant: end of input while a turn runs is read over.
EndsIfIdle == IF Busy THEN "up" ELSE "ending"

Ends == "ending"

HandlesEof ==
  /\ Takes(Eof)
  /\ life' = Ends
  /\ UNCHANGED <<sends, closed, keys, prompts, steering, asking, log, acked, lost>>

\* control.replay: the key is known, the first answer is sent again.
Replays(o) ==
  /\ Takes(o)
  /\ o \in Range(keys)
  /\ UNCHANGED <<life, sends, closed, keys, prompts, steering, asking, log, acked, lost>>

\* The gate refuses; a refusal is not remembered.
Refuses(o) ==
  /\ Takes(o)
  /\ o \notin Range(keys)
  /\ UNCHANGED <<life, sends, closed, keys, prompts, steering, asking, log, acked, lost>>

\* The oldest keys are evicted.
Newest(ks) == IF Len(ks) > MaxKeys THEN SubSeq(ks, Len(ks) - MaxKeys + 1, Len(ks)) ELSE ks

\* Mutant: the answer is sent and not remembered.
AcksOnly(o) == /\ acked' = acked \cup ({o} \cap Keyed)
               /\ UNCHANGED keys

\* control.ack and control.remember, before the op is dispatched.
Acks(o) == IF o \in Keyed THEN /\ keys' = Newest(Append(keys, o))
                               /\ acked' = acked \cup {o}
                          ELSE UNCHANGED <<keys, acked>>

Admits(o) ==
  /\ Takes(o)
  /\ o \notin Range(keys)
  /\ Acks(o)
  /\ UNCHANGED <<life, sends, closed, lost>>

Starts(o) ==
  /\ prompts' = <<o>>
  /\ Turn(o)
  /\ UNCHANGED <<steering, asking>>

\* submit: a turn of its own, or nothing while one runs.  goal.set likewise, but
\* for the orchestrator's goal (external) that it arms while a turn runs.
Submits(o) ==
  /\ o \in SubmitOps /\ Admits(o)
  /\ IF Busy THEN UNCHANGED <<prompts, steering, asking, log>> ELSE Starts(o)

\* Without a turn the steer becomes one.
SteersIdle(o) == Starts(o)

\* steer: into the queue of the running turn, dropped when that is full.
Steers(o) ==
  /\ o \in SteerOps /\ Admits(o)
  /\ IF ~Busy THEN SteersIdle(o)
     ELSE /\ steering' = IF Len(steering) < MaxQueue THEN Append(steering, o) ELSE steering
          /\ UNCHANGED <<prompts, asking, log>>

\* decision or approve: the waiting tool gets its answer.
Answers(o) ==
  /\ o \in DecisionOps /\ Admits(o)
  /\ asking' = FALSE
  /\ UNCHANGED <<prompts, steering, log>>

-----------------------------------------------------------------------------
(***************************************************************************)
(* The turn task: _run_turn and _run_goal.                                 *)
(***************************************************************************)

\* Mutant: the newest steer goes first.
BoundaryNewest ==
  /\ life \in {"up", "ending"} /\ Busy /\ ~asking /\ steering # << >>
  /\ log' = Append(log, <<"steer", steering[Len(steering)]>>)
  /\ steering' = SubSeq(steering, 1, Len(steering) - 1)
  /\ UNCHANGED <<life, sends, closed, inbox, keys, prompts, asking, acked, lost>>

\* The step-boundary hook hands the model the oldest steer.
Boundary ==
  /\ life \in {"up", "ending"} /\ Busy /\ ~asking /\ steering # << >>
  /\ log' = Append(log, <<"steer", Head(steering)>>)
  /\ steering' = Tail(steering)
  /\ UNCHANGED <<life, sends, closed, inbox, keys, prompts, asking, acked, lost>>

\* A tool waits for the user: the question tool without a deadline.
Asks ==
  /\ life \in {"up", "ending"} /\ Busy /\ ~asking
  /\ asking' = TRUE
  /\ UNCHANGED <<life, sends, closed, inbox, keys, prompts, steering, log, acked, lost>>

\* Mutant: steers the turn did not take are discarded.
Discards == << >>

\* drain_steers
Leftovers == steering

\* runtime.submit returned or raised: leftover steers become prompts, and the
\* next prompt starts or the turn is over.
ExecutionEnds ==
  /\ life \in {"up", "ending"} /\ Busy /\ ~asking
  /\ prompts' = Tail(prompts) \o Leftovers
  /\ steering' = << >>
  /\ IF prompts' = << >> THEN UNCHANGED log ELSE Turn(Head(prompts'))
  /\ UNCHANGED <<life, sends, closed, inbox, keys, asking, acked, lost>>

\* serve_loop's finally: the turn finishes, then the process ends.
Exits ==
  /\ life = "ending" /\ ~Busy
  /\ life' = "exited"
  /\ UNCHANGED <<sends, closed, inbox, keys, prompts, steering, asking, log, acked, lost>>

-----------------------------------------------------------------------------

LogOps == {log[i][2] : i \in DOMAIN log}

\* The process dies; control.json stays.
Crashes ==
  /\ life \in {"up", "ending"}
  /\ life' = "down"
  /\ lost' = lost \cup ((Range(prompts) \cup Range(steering)) \ LogOps)
  /\ inbox' = << >> /\ prompts' = << >> /\ steering' = << >> /\ asking' = FALSE
  /\ UNCHANGED <<sends, closed, keys, log, acked>>

\* Mutant: the keys die with the process.
KeysForgotten == << >>

KeysRead == keys

Restarts ==
  /\ life = "down" /\ ~closed
  /\ life' = "up"
  /\ keys' = KeysRead
  /\ UNCHANGED <<sends, closed, inbox, prompts, steering, asking, log, acked, lost>>

Done == (life = "exited" \/ (life = "down" /\ closed)) /\ UNCHANGED vars

Init ==
  /\ life = "up" /\ sends = [o \in Ops |-> 0] /\ closed = FALSE /\ inbox = << >>
  /\ keys = << >> /\ prompts = << >> /\ steering = << >> /\ asking = FALSE
  /\ log = << >> /\ acked = {} /\ lost = {}

Handles == HandlesEof \/ \E o \in Ops : \/ Replays(o) \/ Refuses(o)
                                        \/ Submits(o) \/ Steers(o) \/ Answers(o)

Next == \/ Handles \/ Boundary \/ Asks \/ ExecutionEnds \/ Exits
        \/ Closes \/ \E o \in Ops : Sends(o)
        \/ Crashes \/ Restarts \/ Done

Spec == Init /\ [][Next]_vars

\* The event loop runs the op queue and the turn; an execution that waits for
\* nobody ends, for the model's turn is bounded.
FairSpec == Spec /\ WF_vars(Handles) /\ WF_vars(ExecutionEnds) /\ WF_vars(Exits)

-----------------------------------------------------------------------------
(***************************************************************************)
(* Properties.                                                             *)
(***************************************************************************)

Pending == (Range(prompts) \cup Range(steering)) \ LogOps
Promise == INSTANCE Instructions WITH taken <- Pending, done <- LogOps

\* Every instruction the loop takes reaches the model once, as a steer or as a
\* turn, however the end of a turn and the next steer interleave; what a dead
\* process had taken is not taken again.
ImplementsInstructions == Promise!Spec

\* "do NOT act twice": an op with a key reaches the model at most once, over
\* retries, crashes and restarts.
AtMostOnce ==
  \A i, j \in DOMAIN log : log[i][2] = log[j][2] => i = j

ActsOnce == TypeOK /\ AtMostOnce

\* No steer leaves the queue for the model before the ones queued ahead of it.
SteersInOrder ==
  [][\A i \in DOMAIN steering : \A j \in 1 .. (i - 1) :
       steering[i] \in {log'[k][2] : k \in DOMAIN log'} =>
         steering[j] \in {log'[k][2] : k \in DOMAIN log'}]_vars

\* "completes cleanly on stdin EOF": after the end of input the process ends,
\* its running turn and that turn's leftover steers done, unless it dies or the
\* turn waits for an answer (which nobody can send any more).
EofEnds ==
  (Eof \in Range(inbox)) ~>
    \/ life = "exited" /\ steering = << >> /\ prompts = << >>
    \/ life = "down" \/ asking
=============================================================================
