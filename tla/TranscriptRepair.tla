--------------------------- MODULE TranscriptRepair ---------------------------
(***************************************************************************)
(* The stored transcript of a session that is opened again                 *)
(* (kernel/session_integrity.py, called by kernel/runtime.py's start): an  *)
(* assistant's tool calls whose results never arrived, or arrived after    *)
(* something else was said, are completed with placeholders, and the       *)
(* repaired transcript is stored before the next request.                  *)
(*                                                                         *)
(* What is stored grows entry by entry, and the process may end between    *)
(* any two.  The shared diagnosis is not part of the repository: it is     *)
(* modelled as it is used, and may fail, which only leaves results where   *)
(* they are.  Texts and tool names are left out, as are blocks without id. *)
(***************************************************************************)
EXTENDS Naturals, Sequences, FiniteSets, SequencesExt

CONSTANTS
  MaxToolCalls,  \* bound on calls, which are named by the order in which they are made
  MaxEntries,    \* bound on entries that are said
  MaxResumes     \* bound on resumes

RepairAssumption == {MaxToolCalls, MaxEntries, MaxResumes} \subseteq Nat

VARIABLES
  stored,    \* the transcript on file
  context,   \* the messages of the running session
  said,      \* entries said so far
  resumes,   \* resumes so far
  opened     \* the latest resume: what it read, whether the diagnosis worked, whether it wrote
vars == <<stored, context, said, resumes, opened>>

\* An entry: who speaks, the calls an assistant makes, the results it carries and the first of
\* these; a placeholder is an entry of a tool that the repair made.
Nothing == 0
Entry(role, calls, results, first, real) ==
  [role |-> role, calls |-> calls, results |-> results, first |-> first, real |-> real]
Closed == [is |-> "none", before |-> << >>, works |-> TRUE, wrote |-> FALSE]

Init == stored = << >> /\ context = << >> /\ said = 0 /\ resumes = 0 /\ opened = Closed

CallsOf(t) == UNION {ToSet(t[i].calls) : i \in DOMAIN t}
ResultsOf(t) == UNION {t[i].results : i \in DOMAIN t}

-----------------------------------------------------------------------------
\* What is said: by the person, by the assistant with calls of its own, by a tool or by a
\* person's entry that carries results; a result comes once, after its call.  The whole context
\* is saved each time.
Spoken ==
  LET open == CallsOf(context) \ ResultsOf(context)
      made == Cardinality(CallsOf(context))
      fresh == {<< >>, <<made + 1>>, <<made + 1, made + 2>>}
  IN {Entry("user", << >>, {}, Nothing, TRUE)}
     \cup {Entry("assistant", calls, {}, Nothing, TRUE) :
             calls \in {c \in fresh : made + Len(c) <= MaxToolCalls}}
     \cup UNION {{Entry(role, << >>, results, first, TRUE) :
                    role \in {"user", "tool"}, first \in results} : results \in SUBSET open}
Say ==
  /\ said < MaxEntries /\ said' = said + 1
  /\ \E entry \in Spoken : context' = Append(context, entry)
  /\ stored' = context'
  /\ opened' = Closed
  /\ UNCHANGED resumes

\* _shadow_for_diagnosis: one id per entry is shown, the first of several.
Shown(entry) == {entry.first} \ {Nothing}
\* diagnose_transcript: a result that is not among the results right after its call.
InPlace(t, i, j) == \A k \in (i + 1)..j : t[k].results # {}
OutOfPlace(t, r, j) == \E i \in 1..(j - 1) : r \in ToSet(t[i].calls) /\ ~InPlace(t, i, j)
Misplaced(t) == {r \in CallsOf(t) : \E j \in DOMAIN t : r \in Shown(t[j]) /\ OutOfPlace(t, r, j)}

\* repair_resumed_transcript: entries of a tool that carry a misplaced result are dropped, and
\* each call that then has no result gets a placeholder right after the entry that makes it.
Dropped(entry, misplaced) == entry.role = "tool" /\ entry.results \cap misplaced # {}
Placeholders(calls, answered) ==
  LET missing == SelectSeq(calls, LAMBDA c : c \notin answered)
  IN [i \in DOMAIN missing |-> Entry("tool", << >>, {missing[i]}, missing[i], FALSE)]
\* Mutant: what had a result before the drop counts as answered.
Unanswered(t, misplaced) ==
  LET staged == SelectSeq(t, LAMBDA entry : ~Dropped(entry, misplaced))
  IN FlattenSeq([i \in DOMAIN staged |->
                   <<staged[i]>> \o Placeholders(staged[i].calls, ResultsOf(t))])
Repaired(t, misplaced) ==
  LET staged == SelectSeq(t, LAMBDA entry : ~Dropped(entry, misplaced))
  IN FlattenSeq([i \in DOMAIN staged |->
                   <<staged[i]>> \o Placeholders(staged[i].calls, ResultsOf(staged))])

\* start: the transcript is read, repaired, and written if anything was repaired; a write that
\* fails is passed over, and the repair counts for this process alone.
Resume ==
  \E works, writes \in BOOLEAN :
    LET misplaced == IF works THEN Misplaced(stored) ELSE {}
        repaired == Repaired(stored, misplaced)
        dirty == misplaced # {} \/ repaired # stored
    IN /\ resumes < MaxResumes /\ resumes' = resumes + 1
       /\ context' = repaired
       /\ stored' = IF dirty /\ writes THEN repaired ELSE stored
       /\ opened' = [is |-> "resumed", before |-> stored, works |-> works, wrote |-> dirty /\ writes]
       /\ UNCHANGED said

Next == Say \/ Resume

Spec == Init /\ [][Next]_vars

-----------------------------------------------------------------------------
(***************************************************************************)
(* Properties.                                                             *)
(***************************************************************************)

\* A result out of place that the repair leaves where it is: it came on an entry of the person
\* (and is reported as repaired at every resume), or behind another result of its entry, the
\* only one that the diagnosis is shown (kernel/session_integrity.py:190-198, 227-231).
Rides(t) == \E j \in DOMAIN t : \E r \in t[j].results :
  OutOfPlace(t, r, j) /\ ~Dropped(t[j], Misplaced(t))
Made == opened.wrote

\* After a repair, every call is answered in the place a provider requires: by an entry of the
\* unbroken run of results that follows it.
ProviderValid ==
  Made /\ opened.works /\ ~Rides(opened.before) =>
    \A i \in DOMAIN stored : \A c \in ToSet(stored[i].calls) :
      \E j \in DOMAIN stored : i < j /\ c \in stored[j].results /\ InPlace(stored, i, j)
\* No call ends with two results, whatever arrived late.
AnsweredOnce ==
  \A i, j \in DOMAIN stored : i # j => stored[i].results \cap stored[j].results = {}
\* Nothing real is lost but the entries of a tool that carry a result which the diagnosis was
\* shown out of place, with all they carry: a result in place that shares its entry with such
\* a one is replaced by a placeholder too.  And nothing moves.
RealStays ==
  Made =>
    SelectSeq(stored, LAMBDA entry : entry.real) =
      SelectSeq(opened.before, LAMBDA entry :
        entry.real /\ ~(opened.works /\ Dropped(entry, Misplaced(opened.before))))
\* A repaired transcript is stable: opening it again finds nothing to repair.
Stable ==
  Made /\ opened.works /\ ~Rides(opened.before) =>
    Misplaced(stored) = {} /\ Repaired(stored, {}) = stored
RepairSound == ProviderValid /\ AnsweredOnce /\ RealStays /\ Stable
=============================================================================
