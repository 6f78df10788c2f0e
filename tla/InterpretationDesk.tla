-------------------------- MODULE InterpretationDesk --------------------------
(***************************************************************************)
(* The interpretation desk (kernel/ambient/interpretation.py): a spoken    *)
(* request is echoed as a proposal, the session is paused behind a handoff *)
(* until somebody amends, confirms or cancels the proposal or it expires.  *)
(*                                                                         *)
(* Each operation reads its row without the lock and writes it under the   *)
(* lock in another step; the pause, the claim and the resume are           *)
(* SessionControl's, each one transaction between them.  A failing read or *)
(* write of the file is swallowed; the lock is taken as exclusive (what a  *)
(* lock that times out does is ControlFile's).  What a proposal says is    *)
(* left out: rows differ by their number, also of rows the file has lost.  *)
(***************************************************************************)
EXTENDS Naturals, Sequences, SequencesExt, FiniteSets

CONSTANTS Speakers, Nobody, Elsewhere,
          MaxOps, MaxRows,     \* bounds on operations begun, rows ever written,
          MaxFaults            \* and kills, reads and saves that fail, others stepping in

DeskAssumption ==
  /\ {Nobody, Elsewhere} \cap Speakers = {} /\ Nobody # Elsewhere
  /\ {MaxOps, MaxRows, MaxFaults} \subseteq Nat

VARIABLES
  rows,      \* interpretations.json, and the rows it has lost
  due,       \* rows whose time is over
  paused,    \* SessionControl's pause
  claimer,   \* who claimed each handoff
  at,        \* what each speaker is in the middle of
  agreed,    \* ghost: [row, by] of every confirmation reported
  stranded,  \* ghost: what went wrong in this pause (Causes)
  ops, faults

vars == <<rows, due, paused, claimer, at, agreed, stranded, ops, faults>>

Ids == 1 .. MaxRows
Idle == [pc |-> "idle"]
Row(h, of) == [state |-> "pending", handoff |-> h, supersedes |-> of]
States == {"pending", "confirmed", "cancelled", "expired", "superseded", "lost"}
\* A proposal that paused the session was never written; a closed one's session was not
\* resumed; the file could not be read and was overwritten.
Causes == {"unwritten", "unresumed", "unread"}

Init ==
  /\ rows = << >> /\ due = {} /\ paused = FALSE /\ claimer = << >>
  /\ at = [s \in Speakers |-> Idle]
  /\ agreed = {} /\ stranded = {} /\ ops = 0 /\ faults = 0

-----------------------------------------------------------------------------
Doing(s, pc) == at[s].pc = pc
Does(s, what) == at' = [at EXCEPT ![s] = what]
Begin(s) == Doing(s, "idle") /\ ops < MaxOps /\ ops' = ops + 1
Fault == faults < MaxFaults /\ faults' = faults + 1

Strands(causes) == stranded' = IF paused THEN stranded \cup causes ELSE stranded

\* The rows of S that the file has, rewritten.
Marked(S, state) ==
  [i \in DOMAIN rows |->
     IF i \in S /\ rows[i].state # "lost" THEN [rows[i] EXCEPT !.state = state] ELSE rows[i]]
NoRows == Marked(DOMAIN rows, "lost")

\* _load and _save, under the lock: a failing write is swallowed, and a failing read is
\* answered with no rows, which the save writes.
Save(new, afresh, unsaved) ==
  \/ rows' = new /\ UNCHANGED <<stranded, faults>>
  \/ Fault /\ rows' = rows /\ Strands(unsaved)
  \/ Fault /\ rows' = afresh /\ Strands({"unread"})
\* _replace_row.
Replace(i, state) == Save(Marked({i}, state), NoRows, {})

\* _require_pending, outside the lock.
Pending(i) == i \in DOMAIN rows /\ rows[i].state = "pending" /\ i \notin due
MayResume == paused' = FALSE /\ stranded' = {}

\* propose: the session is paused and a handoff minted ...
Propose(s) ==
  /\ Begin(s) /\ Len(claimer) < MaxRows
  /\ paused' = TRUE /\ claimer' = Append(claimer, Nobody)
  /\ Does(s, [pc |-> "append", row |-> Row(Len(claimer) + 1, 0)])
  /\ UNCHANGED <<rows, due, agreed, stranded, faults>>

\* ... and the row appended.
AppendRow(s) ==
  /\ Doing(s, "append") /\ Len(rows) < MaxRows
  /\ Save(Append(rows, at[s].row), Append(NoRows, at[s].row), {"unwritten"})
  /\ Does(s, Idle)
  /\ UNCHANGED <<due, paused, claimer, agreed, ops>>

\* amend, confirm and cancel begin with the same read.
Take(s, i, pc) ==
  /\ Begin(s) /\ Pending(i)
  /\ Does(s, [pc |-> pc, id |-> i])
  /\ UNCHANGED <<rows, due, paused, claimer, agreed, stranded, faults>>

\* amend: the row is retired and its successor appended, whatever the row is by now.
Amend(s) ==
  /\ Doing(s, "amend") /\ Len(rows) < MaxRows
  /\ LET i == at[s].id
         successor == Row(rows[i].handoff, i)
     IN  Save(Append(Marked({i}, "superseded"), successor), Append(NoRows, successor), {})
  /\ Does(s, Idle)
  /\ UNCHANGED <<due, paused, claimer, agreed, ops>>

\* confirm: claim_handoff lifts the pause, or conflicts and nothing is written ...
Claim(s) ==
  /\ Doing(s, "confirm")
  /\ LET h == rows[at[s].id].handoff IN
     \/ /\ claimer[h] = Nobody
        /\ claimer' = [claimer EXCEPT ![h] = s] /\ MayResume
        /\ Does(s, [pc |-> "write", id |-> at[s].id])
     \/ Does(s, Idle) /\ UNCHANGED <<paused, claimer, stranded>>
  /\ UNCHANGED <<rows, due, agreed, ops, faults>>

\* ... and the row is replaced by the one read at the start, confirmed.
WriteConfirmed(s) ==
  /\ Doing(s, "write")
  /\ Replace(at[s].id, "confirmed")
  /\ agreed' = agreed \cup {[row |-> at[s].id, by |-> s]}
  /\ Does(s, Idle)
  /\ UNCHANGED <<due, paused, claimer, ops>>

\* cancel: the row, then the session.
Cancel(s) ==
  /\ Doing(s, "cancel")
  /\ Replace(at[s].id, "cancelled")
  /\ Does(s, [pc |-> "resume", times |-> 1])
  /\ UNCHANGED <<due, paused, claimer, agreed, ops>>

\* expire_due: every overdue row in one transaction, then one resume for each; with nothing
\* overdue, or a file that cannot be read, nothing.
Overdue == {i \in due : rows[i].state = "pending"}
Expire(s) ==
  /\ Begin(s) /\ Overdue # {}
  /\ \/ rows' = Marked(Overdue, "expired") /\ UNCHANGED faults
     \/ Fault /\ rows' = rows
  /\ Does(s, [pc |-> "resume", times |-> Cardinality(Overdue)])
  /\ UNCHANGED <<due, paused, claimer, agreed, stranded>>

\* Mutant: declining leaves the session parked.
LeftParked == UNCHANGED <<paused, stranded>>
\* _resume_session.
Resumed == MayResume
Resume(s) ==
  /\ Doing(s, "resume")
  /\ Resumed
  /\ Does(s, IF at[s].times = 1 THEN Idle ELSE [at[s] EXCEPT !.times = @ - 1])
  /\ UNCHANGED <<rows, due, claimer, agreed, faults, ops>>

\* Ten minutes later (of a row that is still pending).
FallDue(i) ==
  /\ Pending(i) /\ due' = due \cup {i}
  /\ UNCHANGED <<rows, paused, claimer, at, agreed, stranded, faults, ops>>

\* The handoff is claimed, or the session resumed, by another surface of the session.
ClaimElsewhere(h) ==
  /\ h \in DOMAIN claimer /\ claimer[h] = Nobody
  /\ Fault /\ claimer' = [claimer EXCEPT ![h] = Elsewhere] /\ MayResume
  /\ UNCHANGED <<rows, due, at, agreed, ops>>
ResumeElsewhere ==
  /\ Fault /\ paused /\ MayResume
  /\ UNCHANGED <<rows, due, claimer, at, agreed, ops>>

\* The speaker's process is killed.
Undone(s) ==
  CASE Doing(s, "append") -> {"unwritten"}
    [] Doing(s, "resume") -> {"unresumed"}
    [] OTHER -> {}
Kill(s) ==
  /\ Fault /\ ~Doing(s, "idle")
  /\ Strands(Undone(s))
  /\ Does(s, Idle)
  /\ UNCHANGED <<rows, due, paused, claimer, agreed, ops>>

Next ==
  \/ \E s \in Speakers : Propose(s) \/ AppendRow(s) \/ Amend(s) \/ Claim(s) \/ WriteConfirmed(s)
  \/ \E s \in Speakers : Cancel(s) \/ Expire(s) \/ Resume(s) \/ Kill(s)
  \/ \E s \in Speakers, i \in Ids, pc \in {"amend", "confirm", "cancel"} : Take(s, i, pc)
  \/ \E i \in Ids : FallDue(i) \/ ClaimElsewhere(i)
  \/ ResumeElsewhere

Spec == Init /\ [][Next]_vars

-----------------------------------------------------------------------------
(***************************************************************************)
(* Properties.                                                             *)
(***************************************************************************)

TypeOK ==
  /\ rows \in Seq([state : States, handoff : Ids, supersedes : 0 .. MaxRows])
  /\ Len(rows) <= MaxRows /\ due \subseteq DOMAIN rows
  /\ claimer \in Seq(Speakers \cup {Nobody, Elsewhere})
  /\ stranded \subseteq Causes

\* A second "yes" conflicts rather than executing twice: of all the rows behind one
\* handoff, amended ones included, at most one confirmation is ever reported, to the
\* speaker whose claim was granted.
OneYes == \A a, b \in agreed :
  /\ claimer[rows[a.row].handoff] = a.by
  /\ rows[a.row].handoff = rows[b.row].handoff => a = b

\* A session that is paused, with nobody in the middle of an operation, has a proposal that
\* lifts the pause when it is answered or expires, unless during this pause the process
\* died, or its save failed, before the proposal was on file; or the process died after
\* the proposal was closed and before the session was resumed (cancel, expire_due); or the
\* file could not be read and was overwritten.  Then the session stays paused until
\* somebody resumes it by another way.
NotWedged ==
  paused /\ stranded = {} /\ (\A s \in Speakers : Doing(s, "idle")) =>
    \E i \in DOMAIN rows : rows[i].state = "pending"

\* The desk's promises (confirm, cancel, expire_due): OneYes and NotWedged.
DeskSound == TypeOK /\ OneYes /\ NotWedged

=============================================================================
