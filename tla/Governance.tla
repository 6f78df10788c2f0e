------------------------------ MODULE Governance ------------------------------
(***************************************************************************)
(* The trust gate on tool calls (kernel/governance_hook.py), with the      *)
(* postures it applies (model/trust.py), the directories it guards         *)
(* (kernel/safety.py, kernel/directory_permissions.py), its denial log     *)
(* and the decisions it parks in the needs-you queue.                      *)
(*                                                                         *)
(* Calls are concurrent: those of the root session and of the children     *)
(* pass the same hook.  A call is governed in one step but for the         *)
(* classifier, which is awaited, and the person, who is asked; meanwhile   *)
(* the mode changes and other calls park decisions.                        *)
(***************************************************************************)
EXTENDS Naturals, Sequences, FiniteSets

CONSTANTS Calls, Keys,               \* concurrent calls; dependency keys, an action being one
          Modes, Kinds,              \* the postures and the capabilities considered
          StreakLimit, TotalLimit,   \* consecutive_threshold, total_threshold
          DeskLimit,                 \* _MAX_DECISIONS
          MaxCalls                   \* bound on the calls ever made

\* What a review is parked for: it has no dependency, and blocks nothing.
Review == "review"

GovernanceAssumption ==
  /\ Modes \subseteq {"chat", "plan", "brainstorm", "build", "auto"}
  /\ Kinds \subseteq {"read", "write", "test", "exec", "net", "spend"}
  /\ {StreakLimit, TotalLimit, DeskLimit} \subseteq Nat \ {0} /\ MaxCalls \in Nat
  /\ Review \notin Keys

VARIABLES
  mode,
  gated,      \* gate_auto: the posture "auto" is gated too
  guarded,    \* write_boundary: writes outside the project are gated
  call,       \* what each call is at
  parked,     \* the decisions ever parked: the key each blocks, and its status
  streak, total,   \* the denial log's counters
  made,
  history,    \* ghost: the outcomes that the log was told, in order
  unasked,    \* ghost: reviews that found no room on the desk
  jumped      \* ghost: a call ran although a decision pending when it began blocked it

setting == <<gated, guarded>>
vars == <<mode, setting, call, parked, streak, total, made, history, unasked, jumped>>

NoCall == [at |-> "idle"]
Places == {"inside", "outside", "denied", "hidden"}   \* hidden: named inside a shell command

Init ==
  /\ mode \in Modes /\ gated \in BOOLEAN /\ guarded \in BOOLEAN
  /\ call = [c \in Calls |-> NoCall]
  /\ parked = << >> /\ streak = 0 /\ total = 0 /\ made = 0
  /\ history = << >> /\ unasked = 0 /\ jumped = FALSE

-----------------------------------------------------------------------------
(***************************************************************************)
(* The policy.                                                             *)
(***************************************************************************)

Posture(m, kind) ==
  CASE m = "auto"       -> IF kind \in {"read", "write", "test"} THEN "allow" ELSE "classify"
    [] m = "build"      -> IF kind \in {"read", "test"} THEN "allow" ELSE "ask"
    [] m = "plan"       -> IF kind = "read" THEN "allow" ELSE "deny"
    [] m = "brainstorm" -> "deny"
    [] m = "chat"       -> IF kind = "read" THEN "allow" ELSE "ask"

\* A denied path blocks what names it; writes keep to the project when that is guarded, and a
\* shell command that escapes it, or hides a protected path, is resolved as such.
Resolved(m, kind, place) ==
  IF kind \in {"read", "write", "exec"} /\ place = "denied" THEN "deny"
  ELSE IF kind = "write" /\ place = "outside" /\ guarded THEN "deny"
  ELSE IF kind = "exec" /\ (place = "hidden" \/ (place = "outside" /\ guarded))
    THEN Posture(m, "outside")
  ELSE Posture(m, kind)

Pending == {d \in DOMAIN parked : parked[d].status = "pending"}
\* Mutant: a decision blocks only until the agent has heard of it.
BlocksUnheard(key) == {d \in DOMAIN parked : parked[d].key = key /\ parked[d].status = "answered"}
Blocking(key) == {d \in Pending : parked[d].key = key}

Active(desk) == {d \in DOMAIN desk : desk[d].status \in {"pending", "answered"}}
Parked(desk, key) ==
  IF Cardinality(Active(desk)) >= DeskLimit THEN desk
  ELSE Append(desk, [key |-> key, status |-> "pending"])

-----------------------------------------------------------------------------
(***************************************************************************)
(* Outcomes.  A call that is settled leaves nothing behind but these.      *)
(***************************************************************************)

\* A call that waits: its key, and the decisions that had been parked when it began.
Waiting(at, key) == [at |-> at, key |-> key, before |-> Len(parked)]
Settled(c) == call' = [call EXCEPT ![c] = NoCall]
Runs(c, key, before) ==
  /\ Settled(c)
  /\ jumped' = (jumped \/ \E d \in Pending : parked[d].key = key /\ d <= before)

\* record_denial, and the review that a threshold asks for; desk is the queue as it is by then.
Denied(c, desk) ==
  LET due == streak + 1 = StreakLimit \/ total + 1 = TotalLimit
      asked == IF due THEN Parked(desk, Review) ELSE desk IN
  /\ streak' = streak + 1 /\ total' = total + 1
  /\ parked' = asked
  /\ unasked' = IF due /\ asked = desk THEN unasked + 1 ELSE unasked
  /\ history' = Append(history, "denied")
  /\ Settled(c) /\ UNCHANGED jumped

\* record_non_denial: the streak ends.
Allowed ==
  /\ streak' = 0 /\ history' = Append(history, "allowed")
  /\ UNCHANGED <<parked, total, unasked>>
Unlogged == UNCHANGED <<parked, streak, total, history, unasked>>

-----------------------------------------------------------------------------
(***************************************************************************)
(* _govern_tool.                                                           *)
(***************************************************************************)

PassesAll == ~gated /\ mode = "auto"

\* A call begins: what it may do, where, on what it depends, and whether the native mode
\* declares its tool safe.
Govern(c, kind, place, key, safe) ==
  /\ call[c] = NoCall /\ made < MaxCalls /\ made' = made + 1
  /\ LET verdict == IF safe THEN "allow" ELSE Resolved(mode, kind, place) IN
     IF PassesAll THEN Settled(c) /\ Allowed /\ UNCHANGED jumped
     ELSE IF Blocking(key) # {} THEN Settled(c) /\ Unlogged /\ UNCHANGED jumped
     ELSE \/ verdict = "allow" /\ Runs(c, key, Len(parked)) /\ Allowed
          \/ verdict = "deny" /\ Denied(c, parked)
          \/ /\ verdict \in {"classify", "ask"} /\ Unlogged /\ UNCHANGED jumped
             /\ call' = [call EXCEPT ![c] = Waiting(verdict, key)]
  /\ UNCHANGED <<mode, setting>>

\* The classifier answers; a failure is a no, and the decision is parked.
Classify(c, yes) ==
  /\ call[c].at = "classify"
  /\ \/ yes /\ Runs(c, call[c].key, call[c].before) /\ Allowed
     \/ ~yes /\ Denied(c, Parked(parked, call[c].key))
  /\ UNCHANGED <<mode, setting, made>>

\* The person answers the approval; nothing is logged.
Approve(c, yes) ==
  /\ call[c].at = "ask" /\ Unlogged
  /\ \/ yes /\ Runs(c, call[c].key, call[c].before)
     \/ ~yes /\ Settled(c) /\ UNCHANGED jumped
  /\ UNCHANGED <<mode, setting, made>>

SetMode(m) ==
  /\ m # mode /\ mode' = m
  /\ UNCHANGED <<setting, call, parked, streak, total, made, history, unasked, jumped>>

\* A parked decision is answered, then consumed at a step boundary; or dismissed.
Settle(d) ==
  /\ parked[d].status \in {"pending", "answered"}
  /\ \E to \in {"answered", "settled"} :
       to # parked[d].status /\ parked' = [parked EXCEPT ![d].status = to]
  /\ UNCHANGED <<mode, setting, call, streak, total, made, history, unasked, jumped>>

Next ==
  \/ \E c \in Calls :
       \/ \E kind \in Kinds, place \in Places, key \in Keys, safe \in BOOLEAN :
            Govern(c, kind, place, key, safe)
       \/ \E yes \in BOOLEAN : Classify(c, yes) \/ Approve(c, yes)
  \/ \E m \in Modes : SetMode(m)
  \/ \E d \in DOMAIN parked : Settle(d)

Spec == Init /\ [][Next]_vars

-----------------------------------------------------------------------------
(***************************************************************************)
(* Properties.                                                             *)
(***************************************************************************)

\* A call does not run while a decision on what it depends on is pending, unless that was
\* parked while the call was classified or asked about, or everything passes.
Waited == ~jumped

\* The third denial in a row that no allowed call interrupts (one that is asked about does not),
\* and the twentieth of all, bring
\* one review each, if there is room: counted from the outcomes, in their order.
InARow(i) == \E from \in 1 .. i :
  /\ i - from + 1 = StreakLimit
  /\ \A j \in from .. i : history[j] = "denied"
  /\ from > 1 => history[from - 1] # "denied"
AllInAll(i) == Cardinality({j \in 1 .. i : history[j] = "denied"}) = TotalLimit
Due == {i \in DOMAIN history : history[i] = "denied" /\ (InARow(i) \/ AllInAll(i))}
Reviewed ==
  Cardinality(Due) = Cardinality({d \in DOMAIN parked : parked[d].key = Review}) + unasked

GovernanceSound == Waited /\ Reviewed

=============================================================================
