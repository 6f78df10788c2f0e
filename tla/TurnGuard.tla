------------------------------ MODULE TurnGuard ------------------------------
(***************************************************************************)
(* One live session's turns (submit, interrupt, fork, restore_checkpoint   *)
(* and manage_goal of kernel/runtime.py, and the goal state of             *)
(* kernel/goal.py): coroutines of one event loop, which interleave where   *)
(* they await.  What a restore does, and the recovery retried before a     *)
(* submit, is Rewind's; what the orchestrator does in a turn is left out   *)
(* but for when it stops: a cancellation is seen at a step boundary, so it *)
(* may come too late for the turn.                                         *)
(***************************************************************************)
EXTENDS Naturals, Sequences, FiniteSets

CONSTANTS Callers, NoOne,
          MaxTurns, MaxStops, MaxFaults   \* bounds: calls, interrupts, steps that fail

TurnAssumption == NoOne \notin Callers /\ {MaxTurns, MaxStops, MaxFaults} \subseteq Nat

VARIABLES
  executing, restoring, requested,   \* _executing, _restoring_checkpoint, _interrupt_requested
  token,                             \* the coordinator's cancellation, kernel-owned
  pc, call,                          \* each caller's progress and what it called
  goal,                              \* session_state["goal"]
  opened, closed,                    \* turns opened (PromptSubmit) and closed (PromptComplete)
  calls, stops, faults,              \* bounds
  slipped,    \* ghost: another call passed the check while a submit awaited the attention store
  overlapped, \* ghost: a call was admitted before an earlier one had returned
  fresh,      \* ghost: the token was set since the caller was admitted
  early,      \* ghost: ... before its turn was the one executing
  stopped, marked, unmarked   \* ghosts: the turn was cut short, got its marker, could not

flags  == <<executing, restoring, requested, token>>
record == <<opened, closed>>
bounds == <<calls, stops, faults>>
ghosts == <<slipped, overlapped, fresh, early, stopped, marked, unmarked>>
vars   == <<flags, pc, call, goal, record, bounds, ghosts>>

NoGoal == [by |-> NoOne, used |-> FALSE]
InTurn == {"beginning", "opening", "running"}
Busy == {c \in Callers : pc[c] # "idle"}

Init ==
  /\ executing = FALSE /\ restoring = FALSE /\ requested = FALSE /\ token = FALSE
  /\ pc = [c \in Callers |-> "idle"] /\ call = [c \in Callers |-> "turn"] /\ goal = NoGoal
  /\ opened = << >> /\ closed = << >>
  /\ calls = 0 /\ stops = 0 /\ faults = 0
  /\ slipped = FALSE /\ overlapped = FALSE
  /\ fresh = {} /\ early = {} /\ stopped = {} /\ marked = {} /\ unmarked = {}

-----------------------------------------------------------------------------
Goes(c, to) == pc' = [pc EXCEPT ![c] = to]
Fault == faults < MaxFaults /\ faults' = faults + 1
Called(c, what) ==
  /\ pc[c] = "idle" /\ calls < MaxTurns /\ calls' = calls + 1
  /\ call' = [call EXCEPT ![c] = what]
MayStart == ~restoring /\ ~executing
Slips == slipped' = (slipped \/ \E c \in Callers : pc[c] = "asking")
Overlaps == overlapped' = (overlapped \/ Busy # {})

\* configure_goal sets a goal; clear_matching_goal takes back the one just set, unless it
\* has been worked on.
Armed(c, what) == IF what = "goal" THEN [by |-> c, used |-> FALSE] ELSE goal
Disarmed(c, g) == IF g.by = c /\ ~g.used THEN NoGoal ELSE g
\* submit raises before its turn is open.
Rejected(c, g) == goal' = IF call'[c] = "goal" THEN Disarmed(c, g) ELSE g

\* What an earlier turn, or an interrupt between turns, left in the token.
ClearStaleCancellation == token' = FALSE

Submit(c, what) ==
  /\ Called(c, what)
  /\ IF ~MayStart
       THEN /\ Rejected(c, Armed(c, what))
            /\ UNCHANGED <<flags, pc, slipped, overlapped, fresh, early>>
       ELSE /\ goal' = Armed(c, what)
            /\ requested' = FALSE
            /\ ClearStaleCancellation
            \* The attention store is waited for only if a record is open.
            /\ fresh' = fresh \ {c} /\ early' = early \ {c}
            /\ Slips /\ Overlaps
            /\ \/ Goes(c, "asking") /\ UNCHANGED executing
               \/ Goes(c, "beginning") /\ executing' = TRUE
            /\ UNCHANGED restoring
  /\ stopped' = stopped \ {c} /\ marked' = marked \ {c} /\ unmarked' = unmarked \ {c}
  /\ UNCHANGED <<record, stops, faults>>

Answered(c) ==
  /\ pc[c] = "asking"
  /\ executing' = TRUE /\ Goes(c, "beginning")
  /\ UNCHANGED <<restoring, requested, token, call, goal, record, bounds, ghosts>>

\* The workspace checkpoint cannot be cut: the message is not sent.
BeginFails(c) ==
  /\ pc[c] = "beginning" /\ Fault
  /\ executing' = FALSE /\ Goes(c, "idle")
  /\ UNCHANGED call /\ Rejected(c, goal)
  /\ UNCHANGED <<restoring, requested, token, record, calls, stops, ghosts>>

Open(c) ==
  /\ pc[c] = "beginning"
  /\ opened' = Append(opened, c) /\ Goes(c, "opening")
  /\ UNCHANGED <<flags, call, goal, closed, bounds, ghosts>>

Execute(c) ==
  /\ pc[c] = "opening" /\ Goes(c, "running")
  /\ UNCHANGED <<flags, call, goal, record, bounds, ghosts>>

\* The orchestrator works towards the goal, whoever set it.
Pursue(c) ==
  /\ pc[c] = "running" /\ goal # NoGoal /\ goal' = [goal EXCEPT !.used = TRUE]
  /\ UNCHANGED <<flags, pc, call, record, bounds, ghosts>>

\* The turn ends, with or without an answer, or is cut short by the token; before the
\* model is called it can only fail.
End(c) ==
  /\ \/ pc[c] = "opening" /\ Fault /\ UNCHANGED stopped
     \/ pc[c] = "running" /\ stopped' \in {stopped} \cup {stopped \cup {x} : x \in {c} \cap {y \in Callers : token}}
        /\ UNCHANGED faults
  /\ executing' = FALSE /\ Goes(c, "finishing")
  /\ UNCHANGED <<restoring, requested, token, call, goal, record, calls, stops,
                 slipped, overlapped, fresh, early, marked, unmarked>>

\* The checkpoint is finished; an interrupted turn gets its marker in the context.
Finish(c) ==
  /\ pc[c] = "finishing"
  /\ IF requested
       THEN /\ requested' = FALSE
            /\ \/ marked' = marked \cup {c} /\ UNCHANGED <<unmarked, faults>>
               \/ unmarked' = unmarked \cup {c} /\ Fault /\ UNCHANGED marked
       ELSE UNCHANGED <<requested, marked, unmarked, faults>>
  /\ Goes(c, "saving")
  /\ UNCHANGED <<executing, restoring, token, call, goal, record, calls, stops,
                 slipped, overlapped, fresh, early, stopped>>

\* maybe_save, whatever comes of it, and the close-out.
CloseOut(c) ==
  /\ pc[c] = "saving"
  /\ closed' = Append(closed, c) /\ Goes(c, "idle")
  /\ UNCHANGED <<flags, call, goal, opened, bounds, ghosts>>

-----------------------------------------------------------------------------
\* Interrupts: request_graceful does not wait.
Reaches == {c \in Callers : pc[c] \in InTurn \cup {"asking"}}
\* Mutant: an interrupt is noted only if one was noted before.
NotNoted == requested' = requested
Noted == requested' = (requested \/ executing)
Interrupt ==
  /\ stops < MaxStops /\ stops' = stops + 1
  /\ token' = TRUE
  /\ Noted
  /\ fresh' = fresh \cup Reaches
  /\ early' = IF executing THEN early ELSE early \cup Reaches
  /\ UNCHANGED <<executing, restoring, pc, call, goal, record, calls, faults,
                 slipped, overlapped, stopped, marked, unmarked>>

\* restore_checkpoint, and a fork, refuse while a turn runs.
Rewrite(c, what) ==
  /\ Called(c, what)
  /\ IF (what = "restore" /\ restoring) \/ executing
       THEN UNCHANGED <<restoring, pc, slipped, overlapped>>
       ELSE /\ restoring' = (restoring \/ what = "restore")
            /\ Goes(c, "rewriting") /\ Slips /\ Overlaps
  /\ UNCHANGED <<executing, requested, token, goal, record, stops, faults,
                 fresh, early, stopped, marked, unmarked>>
Rewritten(c) ==
  /\ pc[c] = "rewriting"
  /\ restoring' = (restoring /\ call[c] # "restore") /\ Goes(c, "idle")
  /\ UNCHANGED <<executing, requested, token, call, goal, record, bounds, ghosts>>

Next ==
  \/ \E c \in Callers, what \in {"turn", "goal"} : Submit(c, what)
  \/ \E c \in Callers :
       \/ Answered(c) \/ BeginFails(c) \/ Open(c) \/ Execute(c) \/ Pursue(c)
       \/ End(c) \/ Finish(c) \/ CloseOut(c) \/ Rewritten(c)
  \/ \E c \in Callers, what \in {"fork", "restore"} : Rewrite(c, what)
  \/ Interrupt

Spec == Init /\ [][Next]_vars

-----------------------------------------------------------------------------
(***************************************************************************)
(* Properties.                                                             *)
(***************************************************************************)

TypeOK ==
  /\ {executing, restoring, requested, token} \subseteq BOOLEAN
  /\ pc \in [Callers -> InTurn \cup {"idle", "asking", "finishing", "saving", "rewriting"}]
  /\ goal \in [by : Callers \cup {NoOne}, used : BOOLEAN]
  /\ opened \in Seq(Callers) /\ closed \in Seq(Callers)

\* A turn runs alone: no other turn, no restore and no fork is under way, unless a call
\* slipped through while a submit waited for the attention store.
Alone == slipped \/
  /\ Cardinality({c \in Callers : pc[c] \in InTurn}) = IF executing THEN 1 ELSE 0
  /\ executing => \A c \in Callers : pc[c] = "rewriting" => call[c] = "fork" /\ overlapped

\* A cancellation stops the turn it was meant for: a turn cut short was interrupted after
\* it was admitted, never by what an earlier turn left in the token.
StopsOwnTurn == stopped \subseteq fresh

\* A turn cut short is marked as such in the context before it is saved and closed, unless
\* the marker cannot be written, the interrupt came before the turn was the one executing,
\* or a later call was admitted before this one had returned.
StoppedIsMarked == overlapped \/ \A c \in stopped :
  pc[c] \in {"idle", "saving"} => c \in marked \cup unmarked \cup early

\* Every turn that was opened is closed once.
ClosedOut == Busy = {} =>
  \A c \in Callers : Cardinality({i \in DOMAIN opened : opened[i] = c})
                   = Cardinality({i \in DOMAIN closed : closed[i] = c})

\* A goal whose first turn was not admitted does not stay armed.
NoInvisibleGoal == slipped \/ goal = NoGoal \/ goal.used \/ pc[goal.by] # "idle"
                   \/ \E i \in DOMAIN opened : opened[i] = goal.by

\* What submit, interrupt and manage_goal promise, together.
TurnSound == TypeOK /\ Alone /\ StopsOwnTurn /\ StoppedIsMarked /\ ClosedOut /\ NoInvisibleGoal

=============================================================================
