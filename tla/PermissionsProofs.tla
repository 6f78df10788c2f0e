--------------------------- MODULE PermissionsProofs ---------------------------
(***************************************************************************)
(* What each part in Permissions keeps: an inductive invariant, which its  *)
(* first states and its steps satisfy, and from which its promises follow. *)
(* v1, v2, ... are variables of the part that a section is about, which    *)
(* begins by saying which.  ServicesProofs concludes for behaviours.       *)
(***************************************************************************)
EXTENDS Permissions, SequenceTheorems, FiniteSetTheorems, WellFoundedInduction, TLAPS

-----------------------------------------------------------------------------
(***************************************************************************)
(* InterpretationDesk: rows is v1, due v2, paused v3, claimer v4, at v5,   *)
(* agreed v6, stranded v7.                                                 *)
(***************************************************************************)

DeskRow == [state : Desk!States, handoff : Desk!Ids, supersedes : 0 .. MaxRows]
DeskJob == [pc : {"idle"}] \cup [pc : {"append"}, row : DeskRow]
           \cup [pc : {"amend", "confirm", "cancel", "write"}, id : Desk!Ids]
           \cup [pc : {"resume"}, times : Nat \ {0}]
Handles == {"amend", "confirm", "cancel", "write"}

\* Rows and the operations under way name handoffs that were minted, and rows that are there.
DeskTyped ==
  /\ v1 \in Seq(DeskRow) /\ Len(v1) <= MaxRows /\ v2 \subseteq DOMAIN v1
  /\ v3 \in BOOLEAN /\ v7 \subseteq Desk!Causes
  /\ v4 \in Seq(Speakers \cup {Nobody, Elsewhere}) /\ Len(v4) <= MaxRows
  /\ v5 \in [Speakers -> DeskJob]
  /\ v6 \subseteq [row : DOMAIN v1, by : Speakers]
  /\ \A i \in DOMAIN v1 : v1[i].handoff \in DOMAIN v4
  /\ \A s \in Speakers :
       /\ v5[s].pc = "append" => v5[s].row.state = "pending" /\ v5[s].row.handoff \in DOMAIN v4
       /\ v5[s].pc \in Handles => v5[s].id \in DOMAIN v1

\* Whoever is about to write a confirmation holds the claim, and nobody reported one before.
OneClaim ==
  /\ \A a \in v6 : v4[v1[a.row].handoff] = a.by
  /\ \A a \in v6, b \in v6 : v1[a.row].handoff = v1[b.row].handoff => a = b
  /\ \A s \in Speakers : v5[s].pc = "write" =>
       /\ v4[v1[v5[s].id].handoff] = s
       /\ \A a \in v6 : v1[a.row].handoff # v1[v5[s].id].handoff

\* A pause is being lifted, or its handoff is unclaimed and its row pending or about to be.
WayOn ==
  v3 /\ v7 = {} =>
    \/ \E s \in Speakers : v5[s].pc = "resume"
    \/ \E s \in Speakers : v5[s].pc = "append" /\ v4[v5[s].row.handoff] = Nobody
    \/ \E i \in DOMAIN v1 : v1[i].state = "pending" /\ v4[v1[i].handoff] = Nobody

DeskInv == DeskTyped /\ OneClaim /\ WayOn

\* What the operations do to the file: no row is lost, and none changes its handoff.
RowsKept ==
  /\ v1' \in Seq(DeskRow) /\ Len(v1') <= MaxRows /\ DOMAIN v1 \subseteq DOMAIN v1'
  /\ \A i \in DOMAIN v1 : v1'[i].handoff = v1[i].handoff
  /\ \A i \in DOMAIN v1' : v1'[i].handoff \in DOMAIN v4

LEMMA DeskBounds == MaxRows \in Nat /\ Nobody \notin Speakers /\ Elsewhere \notin Speakers
                    /\ Nobody # Elsewhere
  BY PermissionsAssumption DEF Desk!DeskAssumption

LEMMA SameRows ==
  ASSUME DeskTyped, UNCHANGED v1
  PROVE  RowsKept
  BY DEF DeskTyped, RowsKept

\* A rewrite of the rows keeps their number and their handoffs.
LEMMA MarkedRows ==
  ASSUME DeskTyped, NEW S, NEW state \in Desk!States, NEW marked, marked = Desk!Marked(S, state)
  PROVE  /\ marked \in Seq(DeskRow) /\ Len(marked) = Len(v1) /\ DOMAIN marked = DOMAIN v1
         /\ \A j \in DOMAIN v1 : marked[j].handoff = v1[j].handoff
         /\ \A j \in DOMAIN v1 : j \notin S => marked[j] = v1[j]
<1> DEFINE as(j) == IF j \in S /\ v1[j].state # "lost" THEN [v1[j] EXCEPT !.state = state] ELSE v1[j]
<1>1. v1 \in Seq(DeskRow) /\ DOMAIN v1 = 1 .. Len(v1) /\ Len(v1) \in Nat
  BY DEF DeskTyped
<1>2. marked = [j \in DOMAIN v1 |-> as(j)]
  BY DEF Desk!Marked
<1>3. ASSUME NEW j \in DOMAIN v1
      PROVE  as(j) \in DeskRow /\ as(j).handoff = v1[j].handoff /\ (j \notin S => as(j) = v1[j])
  <2>1. v1[j] \in DeskRow
    BY <1>1
  <2>2. [v1[j] EXCEPT !.state = state] \in DeskRow
        /\ [v1[j] EXCEPT !.state = state].handoff = v1[j].handoff
    BY <2>1 DEF DeskRow
  <2> QED BY <2>1, <2>2
<1> HIDE DEF as
<1>4. marked \in [1 .. Len(v1) -> DeskRow]
  BY <1>1, <1>2, <1>3
<1>5. marked \in Seq(DeskRow) /\ Len(marked) = Len(v1)
  BY <1>1, <1>4
<1>6. \A j \in DOMAIN v1 : marked[j] = as(j)
  BY <1>2
<1> QED BY <1>1, <1>2, <1>3, <1>5, <1>6

LEMMA LostRows ==
  ASSUME DeskTyped, NEW lost, lost = Desk!NoRows
  PROVE  /\ lost \in Seq(DeskRow) /\ Len(lost) = Len(v1)
         /\ \A j \in DOMAIN v1 : lost[j].handoff = v1[j].handoff
<1>1. "lost" \in Desk!States
  BY DEF Desk!States
<1>2. lost = Desk!Marked(DOMAIN v1, "lost")
  BY DEF Desk!NoRows
<1> QED BY <1>1, <1>2, MarkedRows

LEMMA RewrittenRows ==
  ASSUME DeskTyped, NEW S, NEW state \in Desk!States, v1' = Desk!Marked(S, state)
  PROVE  /\ RowsKept /\ DOMAIN v1' = DOMAIN v1
         /\ \A j \in DOMAIN v1 : j \notin S => v1'[j] = v1[j]
<1>1. /\ v1' \in Seq(DeskRow) /\ Len(v1') = Len(v1) /\ DOMAIN v1' = DOMAIN v1
      /\ \A j \in DOMAIN v1 : v1'[j].handoff = v1[j].handoff
      /\ \A j \in DOMAIN v1 : j \notin S => v1'[j] = v1[j]
  BY MarkedRows
<1>2. Len(v1) <= MaxRows /\ \A j \in DOMAIN v1 : v1[j].handoff \in DOMAIN v4
  BY DEF DeskTyped
<1> QED BY <1>1, <1>2 DEF RowsKept

LEMMA MoreRows ==
  ASSUME NEW rows \in Seq(DeskRow), NEW row \in DeskRow
  PROVE  /\ Append(rows, row) \in Seq(DeskRow) /\ Len(Append(rows, row)) = Len(rows) + 1
         /\ DOMAIN rows \subseteq DOMAIN Append(rows, row)
         /\ \A j \in DOMAIN Append(rows, row) : j \in DOMAIN rows \/ j = Len(rows) + 1
         /\ \A j \in DOMAIN rows : Append(rows, row)[j] = rows[j]
         /\ Append(rows, row)[Len(rows) + 1] = row
         /\ Len(rows) + 1 \in DOMAIN Append(rows, row)
<1>1. Len(rows) \in Nat /\ DOMAIN rows = 1 .. Len(rows)
  OBVIOUS
<1>2. Append(rows, row) \in Seq(DeskRow) /\ Len(Append(rows, row)) = Len(rows) + 1
      /\ DOMAIN Append(rows, row) = 1 .. Len(rows) + 1
  OBVIOUS
<1>3. /\ \A j \in DOMAIN rows : Append(rows, row)[j] = rows[j]
      /\ Append(rows, row)[Len(rows) + 1] = row
  OBVIOUS
<1> QED BY <1>1, <1>2, <1>3

\* propose and amend: the file as it is by then, and one row more.
LEMMA AppendedRows ==
  ASSUME DeskTyped, Len(v1) < MaxRows, NEW file \in Seq(DeskRow), Len(file) = Len(v1),
         \A j \in DOMAIN v1 : file[j].handoff = v1[j].handoff,
         NEW row \in DeskRow, row.handoff \in DOMAIN v4, v1' = Append(file, row)
  PROVE  /\ RowsKept /\ Len(v1) + 1 \in DOMAIN v1' /\ v1'[Len(v1) + 1] = row
         /\ \A j \in DOMAIN v1 : j \in DOMAIN v1' /\ v1'[j] = file[j]
<1>1. /\ v1 \in Seq(DeskRow) /\ Len(v1) \in Nat /\ DOMAIN file = DOMAIN v1
      /\ \A j \in DOMAIN v1 : v1[j].handoff \in DOMAIN v4
  BY DEF DeskTyped
<1>2. /\ v1' \in Seq(DeskRow) /\ Len(v1') = Len(v1) + 1
      /\ DOMAIN v1 \subseteq DOMAIN v1'
      /\ \A j \in DOMAIN v1' : j \in DOMAIN v1 \/ j = Len(v1) + 1
      /\ \A j \in DOMAIN v1 : v1'[j] = file[j]
      /\ v1'[Len(v1) + 1] = row /\ Len(v1) + 1 \in DOMAIN v1'
  BY <1>1, MoreRows
<1>3. Len(v1') <= MaxRows
  BY <1>1, <1>2, DeskBounds
<1>4. \A j \in DOMAIN v1' : v1'[j].handoff \in DOMAIN v4
  BY <1>1, <1>2
<1>5. RowsKept
  BY <1>1, <1>2, <1>3, <1>4 DEF RowsKept
<1> QED BY <1>2, <1>5

\* What went wrong in a pause stays known until it is lifted.
LEMMA Strandings ==
  ASSUME DeskTyped, NEW causes \in SUBSET Desk!Causes, Desk!Strands(causes)
  PROVE  v7' \subseteq Desk!Causes /\ (v3 /\ v7' = {} => v7 = {} /\ causes = {})
  BY DEF DeskTyped, Desk!Strands

\* A save that nothing went wrong with, as far as the pause is concerned, wrote what it
\* should, or changed nothing and was not needed.
LEMMA Saves ==
  ASSUME DeskTyped, NEW new, NEW afresh, NEW unsaved \in SUBSET Desk!Causes,
         Desk!Save(new, afresh, unsaved)
  PROVE  /\ v7' \subseteq Desk!Causes
         /\ v1' = new \/ v1' = v1 \/ v1' = afresh
         /\ v3 /\ v7' = {} => v7 = {} /\ (v1' = new \/ (v1' = v1 /\ unsaved = {}))
<1>1. CASE v1' = new /\ v7' = v7
  BY <1>1 DEF DeskTyped
<1>2. CASE v1' = v1 /\ Desk!Strands(unsaved)
  BY <1>2, Strandings
<1>3. CASE v1' = afresh /\ Desk!Strands({"unread"})
  <2>1. {"unread"} \in SUBSET Desk!Causes /\ {"unread"} # {}
    BY DEF Desk!Causes
  <2> QED BY <1>3, <2>1, Strandings
<1> QED BY <1>1, <1>2, <1>3 DEF Desk!Save

LEMMA Replaces ==
  ASSUME DeskTyped, NEW i \in DOMAIN v1, NEW state \in Desk!States, Desk!Replace(i, state)
  PROVE  /\ v7' \subseteq Desk!Causes
         /\ RowsKept /\ DOMAIN v1' = DOMAIN v1
         /\ v3 /\ v7' = {} => v7 = {} /\ \A j \in DOMAIN v1 : j # i => v1'[j] = v1[j]
<1> DEFINE new == Desk!Marked({i}, state)
<1>1. Desk!Save(new, Desk!NoRows, {}) /\ {} \in SUBSET Desk!Causes /\ "lost" \in Desk!States
  BY DEF Desk!Replace, Desk!States
<1> HIDE DEF new
<1>2. /\ v7' \subseteq Desk!Causes
      /\ v1' = new \/ v1' = v1 \/ v1' = Desk!NoRows
      /\ v3 /\ v7' = {} => v7 = {} /\ (v1' = new \/ v1' = v1)
  BY <1>1, Saves
<1>3. CASE v1' = new
  BY <1>2, <1>3, RewrittenRows DEF new
<1>4. CASE v1' = v1
  BY <1>2, <1>4, SameRows
<1>5. CASE v1' = Desk!NoRows /\ v1' # new /\ v1' # v1
  BY <1>1, <1>2, <1>5, RewrittenRows DEF Desk!NoRows
<1> QED BY <1>2, <1>3, <1>4, <1>5

\* One operation goes on.
LEMMA JobsAfter ==
  ASSUME DeskTyped, NEW s \in Speakers, NEW what \in DeskJob, v5' = [v5 EXCEPT ![s] = what]
  PROVE  /\ v5' \in [Speakers -> DeskJob] /\ v5'[s] = what
         /\ \A t \in Speakers : t # s => v5'[t] = v5[t]
  BY DEF DeskTyped

LEMMA TypedAfter ==
  ASSUME DeskTyped, RowsKept, v2' \subseteq DOMAIN v1', v3' \in BOOLEAN, v7' \subseteq Desk!Causes,
         v4' \in Seq(Speakers \cup {Nobody, Elsewhere}), Len(v4') <= MaxRows,
         DOMAIN v4 \subseteq DOMAIN v4', v6' \subseteq [row : DOMAIN v1', by : Speakers],
         v5' \in [Speakers -> DeskJob],
         \A t \in Speakers : \/ v5'[t] = v5[t]
                             \/ v5'[t].pc \notin {"append"} \cup Handles
                             \/ v5'[t].pc = "append" /\ v5'[t].row.state = "pending"
                                /\ v5'[t].row.handoff \in DOMAIN v4'
                             \/ v5'[t].pc \in Handles /\ v5'[t].id \in DOMAIN v1'
  PROVE  DeskTyped'
<1>1. \A t \in Speakers :
        /\ v5'[t].pc = "append" => v5'[t].row.state = "pending" /\ v5'[t].row.handoff \in DOMAIN v4'
        /\ v5'[t].pc \in Handles => v5'[t].id \in DOMAIN v1'
  BY DEF DeskTyped, RowsKept, Handles
<1>2. \A i \in DOMAIN v1' : v1'[i].handoff \in DOMAIN v4'
  BY DEF RowsKept
<1> QED BY <1>1, <1>2 DEF DeskTyped, RowsKept

\* The steps that neither claim nor report.
LEMMA ClaimsAfter ==
  ASSUME DeskTyped, OneClaim, RowsKept, v6' = v6,
         \A h \in DOMAIN v4 : v4[h] \in Speakers => v4'[h] = v4[h],
         \A t \in Speakers : v5'[t].pc = "write" => v5'[t] = v5[t]
  PROVE  OneClaim'
<1>1. \A a \in v6 : /\ a.row \in DOMAIN v1 /\ a.by \in Speakers
                    /\ v1'[a.row].handoff = v1[a.row].handoff
                    /\ v1[a.row].handoff \in DOMAIN v4
  BY DEF DeskTyped, RowsKept
<1>2. \A a \in v6 : v4'[v1'[a.row].handoff] = a.by
  BY <1>1 DEF OneClaim
<1>3. \A a \in v6, b \in v6 : v1'[a.row].handoff = v1'[b.row].handoff => a = b
  BY <1>1 DEF OneClaim
<1>4. ASSUME NEW t \in Speakers, v5'[t].pc = "write"
      PROVE  /\ v4'[v1'[v5'[t].id].handoff] = t
             /\ \A a \in v6 : v1'[a.row].handoff # v1'[v5'[t].id].handoff
  <2>1. v5'[t] = v5[t] /\ v5[t].pc \in Handles
    BY <1>4 DEF Handles
  <2>2. v5[t].id \in DOMAIN v1 /\ v1[v5[t].id].handoff \in DOMAIN v4
        /\ v1'[v5[t].id].handoff = v1[v5[t].id].handoff
    BY <2>1 DEF DeskTyped, RowsKept
  <2> QED BY <1>1, <1>4, <2>1, <2>2 DEF OneClaim
<1> QED BY <1>2, <1>3, <1>4 DEF OneClaim

LEMMA DeskPropose ==
  ASSUME DeskInv, NEW s \in Speakers, Desk!Propose(s)
  PROVE  DeskInv'
<1> DEFINE h == Len(v4) + 1
           what == [pc |-> "append", row |-> Desk!Row(h, 0)]
<1>1. /\ DeskTyped /\ OneClaim /\ Len(v4) < MaxRows /\ v5[s].pc = "idle"
      /\ v3' = TRUE /\ v4' = Append(v4, Nobody) /\ v5' = [v5 EXCEPT ![s] = what]
      /\ UNCHANGED <<v1, v2, v6, v7>>
  BY DEF DeskInv, Desk!Propose, Desk!Begin, Desk!Doing, Desk!Does
<1>2. v4 \in Seq(Speakers \cup {Nobody, Elsewhere}) /\ Len(v4) \in Nat /\ DOMAIN v4 = 1 .. Len(v4)
  BY <1>1 DEF DeskTyped
<1>3. /\ v4' \in Seq(Speakers \cup {Nobody, Elsewhere}) /\ Len(v4') <= MaxRows
      /\ DOMAIN v4 \subseteq DOMAIN v4' /\ h \in DOMAIN v4' /\ v4'[h] = Nobody
      /\ \A g \in DOMAIN v4 : v4'[g] = v4[g]
  BY <1>1, <1>2, DeskBounds
<1>4. what \in DeskJob /\ what.pc = "append" /\ what.row.state = "pending" /\ what.row.handoff = h
  <2>1. h \in Desk!Ids /\ 0 \in 0 .. MaxRows
    BY <1>1, <1>2, DeskBounds DEF Desk!Ids
  <2>2. Desk!Row(h, 0) \in DeskRow
    BY <2>1 DEF Desk!Row, DeskRow, Desk!States
  <2> QED BY <2>2 DEF DeskJob, Desk!Row
<1> HIDE DEF what, h
<1>5. v5' \in [Speakers -> DeskJob] /\ v5'[s] = what /\ \A t \in Speakers : t # s => v5'[t] = v5[t]
  BY <1>1, <1>4, JobsAfter
<1>6. RowsKept
  BY <1>1, SameRows
<1>7. DeskTyped'
  <2>1. v2' \subseteq DOMAIN v1' /\ v3' \in BOOLEAN /\ v7' \subseteq Desk!Causes
        /\ v6' \subseteq [row : DOMAIN v1', by : Speakers]
    BY <1>1 DEF DeskTyped
  <2> QED BY <1>1, <1>3, <1>4, <1>5, <1>6, <2>1, TypedAfter
<1>8. OneClaim'
  <2>1. \A t \in Speakers : v5'[t].pc = "write" => v5'[t] = v5[t]
    BY <1>4, <1>5
  <2> QED BY <1>1, <1>3, <1>6, <2>1, ClaimsAfter
<1>9. WayOn'
  BY <1>3, <1>4, <1>5 DEF WayOn
<1> QED BY <1>7, <1>8, <1>9 DEF DeskInv

LEMMA DeskAppendRow ==
  ASSUME DeskInv, NEW s \in Speakers, Desk!AppendRow(s)
  PROVE  DeskInv'
<1>1. /\ DeskTyped /\ OneClaim /\ WayOn /\ v5[s].pc = "append" /\ Len(v1) < MaxRows
      /\ Desk!Save(Append(v1, v5[s].row), Append(Desk!NoRows, v5[s].row), {"unwritten"})
      /\ v5' = [v5 EXCEPT ![s] = Desk!Idle]
      /\ UNCHANGED <<v2, v3, v4, v6>>
  BY DEF DeskInv, Desk!AppendRow, Desk!Doing, Desk!Does
<1>a. /\ v7' \subseteq Desk!Causes
      /\ \/ v1' = Append(v1, v5[s].row) \/ v1' = v1
         \/ v1' = Append(Desk!NoRows, v5[s].row)
      /\ v3 /\ v7' = {} => v7 = {} /\ v1' = Append(v1, v5[s].row)
  <2>1. {"unwritten"} \in SUBSET Desk!Causes /\ {"unwritten"} # {}
    BY DEF Desk!Causes
  <2> QED BY <1>1, <2>1, Saves
<1>2. v5[s].row \in DeskRow /\ v5[s].row.state = "pending" /\ v5[s].row.handoff \in DOMAIN v4
  <2>1. v5[s] \in DeskJob
    BY <1>1 DEF DeskTyped
  <2>2. v5[s].row \in DeskRow
    BY <1>1, <2>1 DEF DeskJob
  <2> QED BY <1>1, <2>2 DEF DeskTyped
<1>3. Desk!Idle \in DeskJob /\ Desk!Idle.pc = "idle"
  BY DEF DeskJob, Desk!Idle
<1>4. v5' \in [Speakers -> DeskJob] /\ v5'[s] = Desk!Idle /\ \A t \in Speakers : t # s => v5'[t] = v5[t]
  BY <1>1, <1>3, JobsAfter
<1>5. v1 \in Seq(DeskRow) /\ Len(v1) \in Nat
  BY <1>1 DEF DeskTyped
<1>6. RowsKept
  <2>1. CASE v1' = v1
    BY <1>1, <2>1, SameRows
  <2>2. CASE v1' = Append(v1, v5[s].row)
    BY <1>1, <1>2, <1>5, <2>2, AppendedRows
  <2>3. CASE v1' = Append(Desk!NoRows, v5[s].row)
    <3> QED BY <1>1, <1>2, <2>3, LostRows, AppendedRows
  <2> QED BY <1>a, <2>1, <2>2, <2>3
<1>7. DeskTyped'
  <2>1. v2' \subseteq DOMAIN v1' /\ v3' \in BOOLEAN /\ v6' \subseteq [row : DOMAIN v1', by : Speakers]
        /\ v4' \in Seq(Speakers \cup {Nobody, Elsewhere}) /\ Len(v4') <= MaxRows
        /\ DOMAIN v4 \subseteq DOMAIN v4'
    BY <1>1, <1>6 DEF DeskTyped, RowsKept
  <2>2. v7' \subseteq Desk!Causes
    BY <1>a
  <2>3. v5'[s].pc \notin {"append"} \cup Handles
    BY <1>3, <1>4 DEF Handles
  <2> QED BY <1>1, <1>4, <1>6, <2>1, <2>2, <2>3, TypedAfter
<1>8. OneClaim'
  <2>1. \A t \in Speakers : v5'[t].pc = "write" => v5'[t] = v5[t]
    BY <1>3, <1>4
  <2> QED BY <1>1, <1>6, <2>1, ClaimsAfter
<1>9. WayOn'
  <2> SUFFICES ASSUME v3', v7' = {}
               PROVE
        \/ \E t \in Speakers : v5'[t].pc = "resume"
        \/ \E t \in Speakers : v5'[t].pc = "append" /\ v4'[v5'[t].row.handoff] = Nobody
        \/ \E i \in DOMAIN v1' : v1'[i].state = "pending" /\ v4'[v1'[i].handoff] = Nobody
    BY DEF WayOn
  <2>2. v3
    BY <1>1
  <2>1. v1' = Append(v1, v5[s].row) /\ v7 = {}
    BY <1>a, <2>2
  <2>3. /\ \A j \in DOMAIN v1 : j \in DOMAIN v1' /\ v1'[j] = v1[j]
        /\ v1'[Len(v1) + 1] = v5[s].row /\ Len(v1) + 1 \in DOMAIN v1'
    BY <1>1, <1>2, <1>5, <2>1, MoreRows
  <2>4. CASE \E t \in Speakers : v5[t].pc = "resume"
    BY <1>1, <1>4, <2>4
  <2>5. CASE \E t \in Speakers : v5[t].pc = "append" /\ v4[v5[t].row.handoff] = Nobody
    BY <1>1, <1>2, <1>4, <2>3, <2>5
  <2>6. CASE \E i \in DOMAIN v1 : v1[i].state = "pending" /\ v4[v1[i].handoff] = Nobody
    BY <1>1, <2>3, <2>6
  <2> QED BY <1>1, <2>1, <2>2, <2>4, <2>5, <2>6 DEF WayOn
<1> QED BY <1>7, <1>8, <1>9 DEF DeskInv

\* A speaker takes a pending row in hand.
LEMMA DeskTake ==
  ASSUME DeskInv, NEW s \in Speakers, NEW i \in Desk!Ids, NEW pc \in {"amend", "confirm", "cancel"},
         Desk!Take(s, i, pc)
  PROVE  DeskInv'
<1> DEFINE what == [pc |-> pc, id |-> i]
<1>1. /\ DeskTyped /\ OneClaim /\ WayOn /\ v5[s].pc = "idle" /\ i \in DOMAIN v1
      /\ v5' = [v5 EXCEPT ![s] = what] /\ UNCHANGED <<v1, v2, v3, v4, v6, v7>>
  BY DEF DeskInv, Desk!Take, Desk!Begin, Desk!Doing, Desk!Does, Desk!Pending
<1>2. what \in DeskJob /\ what.pc = pc /\ what.id = i
  BY DEF DeskJob
<1> HIDE DEF what
<1>3. v5' \in [Speakers -> DeskJob] /\ v5'[s] = what /\ \A t \in Speakers : t # s => v5'[t] = v5[t]
  BY <1>1, <1>2, JobsAfter
<1>4. RowsKept
  BY <1>1, SameRows
<1>5. DeskTyped'
  <2>1. v2' \subseteq DOMAIN v1' /\ v3' \in BOOLEAN /\ v7' \subseteq Desk!Causes
        /\ v6' \subseteq [row : DOMAIN v1', by : Speakers]
        /\ v4' \in Seq(Speakers \cup {Nobody, Elsewhere}) /\ Len(v4') <= MaxRows
        /\ DOMAIN v4 \subseteq DOMAIN v4'
    BY <1>1 DEF DeskTyped
  <2>2. v5'[s].pc \in Handles /\ v5'[s].id \in DOMAIN v1'
    BY <1>1, <1>2, <1>3 DEF Handles
  <2> QED BY <1>1, <1>3, <1>4, <2>1, <2>2, TypedAfter
<1>6. OneClaim'
  <2>1. \A t \in Speakers : v5'[t].pc = "write" => v5'[t] = v5[t]
    BY <1>2, <1>3
  <2> QED BY <1>1, <1>4, <2>1, ClaimsAfter
<1>7. WayOn'
  <2>1. \A t \in Speakers : v5[t].pc \in {"append", "resume"} => v5'[t] = v5[t]
    BY <1>1, <1>3
  <2> QED BY <1>1, <2>1 DEF WayOn
<1> QED BY <1>5, <1>6, <1>7 DEF DeskInv

LEMMA DeskAmend ==
  ASSUME DeskInv, NEW s \in Speakers, Desk!Amend(s)
  PROVE  DeskInv'
<1> DEFINE i == v5[s].id
           new == Desk!Marked({i}, "superseded")
           row == Desk!Row(v1[i].handoff, i)
<1>1. /\ DeskTyped /\ OneClaim /\ WayOn /\ v5[s].pc = "amend" /\ Len(v1) < MaxRows
      /\ Desk!Save(Append(new, row), Append(Desk!NoRows, row), {})
      /\ v5' = [v5 EXCEPT ![s] = Desk!Idle]
      /\ UNCHANGED <<v2, v3, v4, v6>>
  BY DEF DeskInv, Desk!Amend, Desk!Doing, Desk!Does
<1>2. i \in DOMAIN v1
  BY <1>1 DEF DeskTyped, Handles
<1>a. row \in DeskRow /\ row.handoff = v1[i].handoff /\ row.state = "pending"
      /\ row.handoff \in DOMAIN v4
  <2>1. v1[i].handoff \in Desk!Ids /\ i \in 0 .. MaxRows /\ v1[i].handoff \in DOMAIN v4
    <3>1. v1[i] \in DeskRow /\ v1[i].handoff \in DOMAIN v4
      BY <1>1, <1>2 DEF DeskTyped
    <3>2. i \in 1 .. Len(v1) /\ Len(v1) <= MaxRows /\ Len(v1) \in Nat
      BY <1>1, <1>2 DEF DeskTyped
    <3> QED BY <3>1, <3>2, DeskBounds DEF DeskRow
  <2> QED BY <2>1 DEF Desk!Row, DeskRow, Desk!States
<1>b. /\ new \in Seq(DeskRow) /\ Len(new) = Len(v1)
      /\ \A j \in DOMAIN v1 : new[j].handoff = v1[j].handoff
      /\ \A j \in DOMAIN v1 : j # i => new[j] = v1[j]
  <2>1. "superseded" \in Desk!States
    BY DEF Desk!States
  <2>2. \A j \in DOMAIN v1 : j # i => j \notin {i}
    OBVIOUS
  <2>3. new = Desk!Marked({i}, "superseded")
    OBVIOUS
  <2> HIDE DEF new
  <2> QED BY <1>1, <2>1, <2>2, <2>3, MarkedRows
<1> HIDE DEF new, row
<1>c. /\ v7' \subseteq Desk!Causes
      /\ v1' = Append(new, row) \/ v1' = v1 \/ v1' = Append(Desk!NoRows, row)
      /\ v3 /\ v7' = {} => v7 = {} /\ (v1' = Append(new, row) \/ v1' = v1)
  <2>1. {} \in SUBSET Desk!Causes
    OBVIOUS
  <2> QED BY <1>1, <2>1, Saves
<1> HIDE DEF i
<1>3. Desk!Idle \in DeskJob /\ Desk!Idle.pc = "idle"
  BY DEF DeskJob, Desk!Idle
<1>4. v5' \in [Speakers -> DeskJob] /\ v5'[s] = Desk!Idle /\ \A t \in Speakers : t # s => v5'[t] = v5[t]
  BY <1>1, <1>3, JobsAfter
<1>5. RowsKept
  <2>1. CASE v1' = v1
    BY <1>1, <2>1, SameRows
  <2>2. CASE v1' = Append(new, row)
    BY <1>1, <1>a, <1>b, <2>2, AppendedRows
  <2>3. CASE v1' = Append(Desk!NoRows, row)
    BY <1>1, <1>a, <2>3, LostRows, AppendedRows
  <2> QED BY <1>c, <2>1, <2>2, <2>3
<1>6. DeskTyped'
  <2>1. v2' \subseteq DOMAIN v1' /\ v3' \in BOOLEAN /\ v7' \subseteq Desk!Causes
        /\ v6' \subseteq [row : DOMAIN v1', by : Speakers]
        /\ v4' \in Seq(Speakers \cup {Nobody, Elsewhere}) /\ Len(v4') <= MaxRows
        /\ DOMAIN v4 \subseteq DOMAIN v4'
    BY <1>1, <1>c, <1>5 DEF DeskTyped, RowsKept
  <2>2. v5'[s].pc \notin {"append"} \cup Handles
    BY <1>3, <1>4 DEF Handles
  <2> QED BY <1>1, <1>4, <1>5, <2>1, <2>2, TypedAfter
<1>7. OneClaim'
  <2>1. \A t \in Speakers : v5'[t].pc = "write" => v5'[t] = v5[t]
    BY <1>3, <1>4
  <2> QED BY <1>1, <1>5, <2>1, ClaimsAfter
<1>8. WayOn'
  <2> SUFFICES ASSUME v3', v7' = {}
               PROVE
        \/ \E t \in Speakers : v5'[t].pc = "resume"
        \/ \E t \in Speakers : v5'[t].pc = "append" /\ v4'[v5'[t].row.handoff] = Nobody
        \/ \E k \in DOMAIN v1' : v1'[k].state = "pending" /\ v4'[v1'[k].handoff] = Nobody
    BY DEF WayOn
  <2>1. \A t \in Speakers : v5[t].pc \in {"append", "resume"} => v5'[t] = v5[t]
    BY <1>1, <1>4
  <2>2. v3 /\ v7 = {} /\ (v1' = Append(new, row) \/ v1' = v1)
    BY <1>1, <1>c
  <2>3. CASE v1' = v1
    BY <1>1, <2>1, <2>2, <2>3 DEF WayOn
  <2>4. CASE v1' = Append(new, row)
    <3>1. /\ Len(v1) + 1 \in DOMAIN v1' /\ v1'[Len(v1) + 1] = row
          /\ \A j \in DOMAIN v1 : j \in DOMAIN v1' /\ v1'[j] = new[j]
      BY <1>1, <1>a, <1>b, <2>4, AppendedRows
    <3>2. ASSUME NEW j \in DOMAIN v1, v1[j].state = "pending", v4[v1[j].handoff] = Nobody
          PROVE  \E k \in DOMAIN v1' : v1'[k].state = "pending" /\ v4'[v1'[k].handoff] = Nobody
      BY <1>1, <1>a, <1>b, <3>1, <3>2
    <3> QED BY <1>1, <2>1, <2>2, <3>2 DEF WayOn
  <2> QED BY <2>2, <2>3, <2>4
<1> QED BY <1>6, <1>7, <1>8 DEF DeskInv

\* The claim, which is granted once, and lifts the pause.
LEMMA DeskClaim ==
  ASSUME DeskInv, NEW s \in Speakers, Desk!Claim(s)
  PROVE  DeskInv'
<1> DEFINE i == v5[s].id
           h == v1[i].handoff
           write == [pc |-> "write", id |-> i]
<1>1. /\ DeskTyped /\ OneClaim /\ WayOn /\ v5[s].pc = "confirm"
      /\ UNCHANGED <<v1, v2, v6>> /\ v7' \subseteq Desk!Causes
  BY DEF DeskInv, DeskTyped, Desk!Claim, Desk!Doing, Desk!MayResume
<1>2. \/ /\ v4[h] = Nobody /\ v4' = [v4 EXCEPT ![h] = s] /\ v3' = FALSE
         /\ v5' = [v5 EXCEPT ![s] = write]
      \/ v5' = [v5 EXCEPT ![s] = Desk!Idle] /\ UNCHANGED <<v3, v4, v7>>
  BY DEF Desk!Claim, Desk!Does, Desk!MayResume
<1>3. i \in DOMAIN v1 /\ h \in DOMAIN v4
  BY <1>1 DEF DeskTyped, Handles
<1>4. Desk!Idle \in DeskJob /\ Desk!Idle.pc = "idle" /\ write \in DeskJob
      /\ write.pc = "write" /\ write.id = i
  <2>1. i \in Desk!Ids
    BY <1>1, <1>3, DeskBounds DEF DeskTyped, Desk!Ids
  <2> QED BY <2>1 DEF DeskJob, Desk!Idle
<1> HIDE DEF i, h, write
<1>5. RowsKept
  BY <1>1, SameRows
<1>6. CASE v5' = [v5 EXCEPT ![s] = Desk!Idle] /\ UNCHANGED <<v3, v4, v7>>
  <2>1. v5' \in [Speakers -> DeskJob] /\ v5'[s] = Desk!Idle /\ \A t \in Speakers : t # s => v5'[t] = v5[t]
    BY <1>1, <1>4, <1>6, JobsAfter
  <2>2. DeskTyped'
    <3>1. v2' \subseteq DOMAIN v1' /\ v3' \in BOOLEAN /\ v7' \subseteq Desk!Causes
          /\ v6' \subseteq [row : DOMAIN v1', by : Speakers]
          /\ v4' \in Seq(Speakers \cup {Nobody, Elsewhere}) /\ Len(v4') <= MaxRows
          /\ DOMAIN v4 \subseteq DOMAIN v4'
      BY <1>1, <1>6 DEF DeskTyped
    <3>2. v5'[s].pc \notin {"append"} \cup Handles
      BY <1>4, <2>1 DEF Handles
    <3> QED BY <1>1, <1>5, <2>1, <3>1, <3>2, TypedAfter
  <2>3. OneClaim'
    <3>1. \A t \in Speakers : v5'[t].pc = "write" => v5'[t] = v5[t]
      BY <1>4, <2>1
    <3> QED BY <1>1, <1>5, <1>6, <3>1, ClaimsAfter
  <2>4. WayOn'
    <3>1. \A t \in Speakers : v5[t].pc \in {"append", "resume"} => v5'[t] = v5[t]
      BY <1>1, <2>1
    <3> QED BY <1>1, <1>6, <3>1 DEF WayOn
  <2> QED BY <2>2, <2>3, <2>4 DEF DeskInv
<1>7. CASE /\ v4[h] = Nobody /\ v4' = [v4 EXCEPT ![h] = s] /\ v3' = FALSE
           /\ v5' = [v5 EXCEPT ![s] = write]
  <2>1. v5' \in [Speakers -> DeskJob] /\ v5'[s] = write /\ \A t \in Speakers : t # s => v5'[t] = v5[t]
    BY <1>1, <1>4, <1>7, JobsAfter
  <2>2. /\ v4' \in Seq(Speakers \cup {Nobody, Elsewhere}) /\ Len(v4') = Len(v4)
        /\ DOMAIN v4' = DOMAIN v4 /\ v4'[h] = s
        /\ \A g \in DOMAIN v4 : g # h => v4'[g] = v4[g]
    <3>1. v4 \in Seq(Speakers \cup {Nobody, Elsewhere}) /\ h \in 1 .. Len(v4)
      BY <1>1, <1>3 DEF DeskTyped
    <3> QED BY <1>7, <3>1, ExceptSeq
  <2>3. DeskTyped'
    <3>1. v2' \subseteq DOMAIN v1' /\ v3' \in BOOLEAN /\ v7' \subseteq Desk!Causes
          /\ v6' \subseteq [row : DOMAIN v1', by : Speakers] /\ Len(v4') <= MaxRows
      BY <1>1, <1>7, <2>2 DEF DeskTyped
    <3>2. v5'[s].pc \in Handles /\ v5'[s].id \in DOMAIN v1'
      BY <1>1, <1>3, <1>4, <2>1 DEF Handles
    <3> QED BY <1>1, <1>5, <2>1, <2>2, <3>1, <3>2, TypedAfter
  <2>4. \A a \in v6 : /\ a.by \in Speakers /\ v1[a.row].handoff # h
                      /\ v1[a.row].handoff \in DOMAIN v4
    <3> SUFFICES ASSUME NEW a \in v6
                 PROVE  /\ a.by \in Speakers /\ v1[a.row].handoff # h
                        /\ v1[a.row].handoff \in DOMAIN v4
      OBVIOUS
    <3>1. a.by \in Speakers /\ a.row \in DOMAIN v1 /\ v4[v1[a.row].handoff] = a.by
      BY <1>1 DEF DeskTyped, OneClaim
    <3> QED BY <1>1, <1>7, <3>1, DeskBounds DEF DeskTyped
  <2>5. OneClaim'
    <3>1. \A a \in v6' : v4'[v1'[a.row].handoff] = a.by
      BY <1>1, <2>2, <2>4 DEF OneClaim
    <3>2. \A a \in v6', b \in v6' : v1'[a.row].handoff = v1'[b.row].handoff => a = b
      BY <1>1 DEF OneClaim
    <3>3. ASSUME NEW t \in Speakers, v5'[t].pc = "write"
          PROVE  /\ v4'[v1'[v5'[t].id].handoff] = t
                 /\ \A a \in v6' : v1'[a.row].handoff # v1'[v5'[t].id].handoff
      <4>1. CASE t = s
        <5>1. v1'[v5'[t].id].handoff = h
          BY <1>1, <1>4, <2>1, <4>1 DEF h
        <5> QED BY <1>1, <2>2, <2>4, <4>1, <5>1
      <4>2. CASE t # s
        <5>1. v5'[t] = v5[t] /\ v5[t].pc = "write"
          BY <2>1, <3>3, <4>2
        <5>2. v5[t].id \in DOMAIN v1 /\ v1[v5[t].id].handoff \in DOMAIN v4
          BY <1>1, <5>1 DEF DeskTyped, Handles
        <5>3. v4[v1[v5[t].id].handoff] = t /\ \A a \in v6 : v1[a.row].handoff # v1[v5[t].id].handoff
          BY <1>1, <5>1 DEF OneClaim
        <5>4. v1[v5[t].id].handoff # h
          BY <1>7, <5>3, DeskBounds
        <5> QED BY <1>1, <2>2, <5>1, <5>2, <5>3, <5>4
      <4> QED BY <4>1, <4>2
    <3> QED BY <3>1, <3>2, <3>3 DEF OneClaim
  <2>6. WayOn'
    BY <1>7 DEF WayOn
  <2> QED BY <2>3, <2>5, <2>6 DEF DeskInv
<1> QED BY <1>2, <1>6, <1>7

\* The confirmation is written and reported.
LEMMA DeskWriteConfirmed ==
  ASSUME DeskInv, NEW s \in Speakers, Desk!WriteConfirmed(s)
  PROVE  DeskInv'
<1> DEFINE i == v5[s].id
           h == v1[i].handoff
           yes == [row |-> i, by |-> s]
<1>1. /\ DeskTyped /\ OneClaim /\ WayOn /\ v5[s].pc = "write"
      /\ Desk!Replace(i, "confirmed")
      /\ v6' = v6 \cup {yes} /\ v5' = [v5 EXCEPT ![s] = Desk!Idle]
      /\ UNCHANGED <<v2, v3, v4>>
  BY DEF DeskInv, Desk!WriteConfirmed, Desk!Doing, Desk!Does
<1>2. i \in DOMAIN v1 /\ h \in DOMAIN v4 /\ v4[h] = s
      /\ \A a \in v6 : v1[a.row].handoff # h
  BY <1>1 DEF DeskTyped, Handles, OneClaim
<1> HIDE DEF i, h
<1>3. Desk!Idle \in DeskJob /\ Desk!Idle.pc = "idle" /\ "confirmed" \in Desk!States
  BY DEF DeskJob, Desk!Idle, Desk!States
<1>4. v5' \in [Speakers -> DeskJob] /\ v5'[s] = Desk!Idle /\ \A t \in Speakers : t # s => v5'[t] = v5[t]
  BY <1>1, <1>3, JobsAfter
<1>5. /\ RowsKept /\ DOMAIN v1' = DOMAIN v1 /\ v7' \subseteq Desk!Causes
      /\ v3 /\ v7' = {} => v7 = {} /\ \A j \in DOMAIN v1 : j # i => v1'[j] = v1[j]
  BY <1>1, <1>2, <1>3, Replaces
<1>6. DeskTyped'
  <2>1. v2' \subseteq DOMAIN v1' /\ v3' \in BOOLEAN /\ v7' \subseteq Desk!Causes
        /\ v4' \in Seq(Speakers \cup {Nobody, Elsewhere}) /\ Len(v4') <= MaxRows
        /\ DOMAIN v4 \subseteq DOMAIN v4'
    BY <1>1, <1>5 DEF DeskTyped
  <2>2. v6' \subseteq [row : DOMAIN v1', by : Speakers]
    BY <1>1, <1>2, <1>5 DEF DeskTyped
  <2>3. v5'[s].pc \notin {"append"} \cup Handles
    BY <1>3, <1>4 DEF Handles
  <2> QED BY <1>1, <1>4, <1>5, <2>1, <2>2, <2>3, TypedAfter
<1>7. OneClaim'
  <2>1. \A a \in v6 : a.row \in DOMAIN v1 /\ v1'[a.row].handoff = v1[a.row].handoff
    BY <1>1, <1>5 DEF DeskTyped, RowsKept
  <2>2. v1'[i].handoff = h
    BY <1>2, <1>5 DEF RowsKept, h
  <2>3. \A a \in v6' : v4'[v1'[a.row].handoff] = a.by
    BY <1>1, <1>2, <2>1, <2>2 DEF OneClaim
  <2>4. \A a \in v6', b \in v6' : v1'[a.row].handoff = v1'[b.row].handoff => a = b
    BY <1>1, <1>2, <2>1, <2>2 DEF OneClaim
  <2>5. ASSUME NEW t \in Speakers, v5'[t].pc = "write"
        PROVE  /\ v4'[v1'[v5'[t].id].handoff] = t
               /\ \A a \in v6' : v1'[a.row].handoff # v1'[v5'[t].id].handoff
    <3>1. t # s /\ v5'[t] = v5[t] /\ v5[t].pc = "write"
      BY <1>3, <1>4, <2>5
    <3>2. v5[t].id \in DOMAIN v1
      BY <1>1, <3>1 DEF DeskTyped, Handles
    <3>3. v1'[v5'[t].id].handoff = v1[v5[t].id].handoff
      BY <1>5, <3>1, <3>2 DEF RowsKept
    <3>4. v4[v1[v5[t].id].handoff] = t /\ \A a \in v6 : v1[a.row].handoff # v1[v5[t].id].handoff
      BY <1>1, <3>1 DEF OneClaim
    <3>5. v1[v5[t].id].handoff # h
      BY <1>2, <3>1, <3>4
    <3> QED BY <1>1, <2>1, <2>2, <3>3, <3>4, <3>5
  <2> QED BY <2>3, <2>4, <2>5 DEF OneClaim
<1>8. WayOn'
  <2>1. \A t \in Speakers : v5[t].pc \in {"append", "resume"} => v5'[t] = v5[t]
    BY <1>1, <1>4
  <2>2. ASSUME v3', v7' = {}
        PROVE  v7 = {} /\ \A j \in DOMAIN v1 : v4[v1[j].handoff] = Nobody => v1'[j] = v1[j]
    BY <1>1, <1>2, <1>5, <2>2, DeskBounds DEF h
  <2> QED BY <1>1, <1>5, <2>1, <2>2 DEF WayOn
<1> QED BY <1>6, <1>7, <1>8 DEF DeskInv

\* What declining and expiring leave to do.
LEMMA DeskResumes ==
  ASSUME DeskInv, NEW s \in Speakers, NEW n \in Nat \ {0}, RowsKept, DOMAIN v1' = DOMAIN v1,
         v5' = [v5 EXCEPT ![s] = [pc |-> "resume", times |-> n]], UNCHANGED <<v2, v3, v4, v6>>,
         v7' \subseteq Desk!Causes
  PROVE  DeskInv'
<1> DEFINE what == [pc |-> "resume", times |-> n]
<1>1. DeskTyped /\ OneClaim
  BY DEF DeskInv
<1>2. what \in DeskJob /\ what.pc = "resume"
  BY DEF DeskJob
<1> HIDE DEF what
<1>3. v5' \in [Speakers -> DeskJob] /\ v5'[s] = what /\ \A t \in Speakers : t # s => v5'[t] = v5[t]
  BY <1>1, <1>2, JobsAfter DEF what
<1>4. DeskTyped'
  <2>1. v2' \subseteq DOMAIN v1' /\ v3' \in BOOLEAN /\ v7' \subseteq Desk!Causes
        /\ v6' \subseteq [row : DOMAIN v1', by : Speakers]
        /\ v4' \in Seq(Speakers \cup {Nobody, Elsewhere}) /\ Len(v4') <= MaxRows
        /\ DOMAIN v4 \subseteq DOMAIN v4'
    BY <1>1 DEF DeskTyped
  <2>2. v5'[s].pc \notin {"append"} \cup Handles
    BY <1>2, <1>3 DEF Handles
  <2> QED BY <1>1, <1>3, <2>1, <2>2, TypedAfter
<1>5. OneClaim'
  <2>1. \A t \in Speakers : v5'[t].pc = "write" => v5'[t] = v5[t]
    BY <1>2, <1>3
  <2> QED BY <1>1, <2>1, ClaimsAfter
<1>6. WayOn'
  BY <1>2, <1>3 DEF WayOn
<1> QED BY <1>4, <1>5, <1>6 DEF DeskInv

LEMMA DeskCancel ==
  ASSUME DeskInv, NEW s \in Speakers, Desk!Cancel(s)
  PROVE  DeskInv'
<1>1. /\ DeskTyped /\ v5[s].pc = "cancel"
      /\ Desk!Replace(v5[s].id, "cancelled")
      /\ v5' = [v5 EXCEPT ![s] = [pc |-> "resume", times |-> 1]]
      /\ UNCHANGED <<v2, v3, v4, v6>>
  BY DEF DeskInv, Desk!Cancel, Desk!Doing, Desk!Does
<1>2. v5[s].id \in DOMAIN v1 /\ "cancelled" \in Desk!States
  BY <1>1 DEF DeskTyped, Handles, Desk!States
<1>3. RowsKept /\ DOMAIN v1' = DOMAIN v1 /\ v7' \subseteq Desk!Causes
  BY <1>1, <1>2, Replaces
<1>4. 1 \in Nat \ {0}
  OBVIOUS
<1> QED BY <1>1, <1>3, <1>4, DeskResumes

\* The part's copy of the library's operator.
LEMMA DeskCounts == \A S : Desk!Cardinality(S) = Cardinality(S)
  BY Zenon DEF Desk!Cardinality, Cardinality

LEMMA DeskExpire ==
  ASSUME DeskInv, NEW s \in Speakers, Desk!Expire(s)
  PROVE  DeskInv'
<1> DEFINE n == Cardinality(Desk!Overdue)
           expired == Desk!Marked(Desk!Overdue, "expired")
<1>1. DeskTyped /\ Desk!Overdue # {} /\ UNCHANGED <<v2, v3, v4, v6, v7>>
      /\ v7' \subseteq Desk!Causes
  BY DEF DeskInv, DeskTyped, Desk!Expire
<1>2. v1' = expired \/ v1' = v1
  BY DEF Desk!Expire
<1>3. v5' = [v5 EXCEPT ![s] = [pc |-> "resume", times |-> n]]
  BY DeskCounts DEF Desk!Expire, Desk!Does
<1> HIDE DEF expired
<1>4. DeskTyped /\ Desk!Overdue # {} /\ (v1' = expired \/ v1' = v1)
  BY <1>1, <1>2
<1>5. n \in Nat \ {0}
  <2>1. Desk!Overdue \subseteq 1 .. Len(v1) /\ Len(v1) \in Nat
    BY <1>4 DEF DeskTyped, Desk!Overdue
  <2>2. IsFiniteSet(1 .. Len(v1))
    BY <2>1, FS_Interval
  <2>3. IsFiniteSet(Desk!Overdue)
    BY <2>1, <2>2, FS_Subset
  <2> QED BY <1>4, <2>3, FS_CardinalityType, FS_EmptySet
<1>6. RowsKept /\ DOMAIN v1' = DOMAIN v1
  <2>1. "expired" \in Desk!States
    BY DEF Desk!States
  <2> QED BY <1>4, <2>1, SameRows, RewrittenRows DEF expired
<1> HIDE DEF n
<1> QED BY <1>1, <1>3, <1>5, <1>6, DeskResumes

LEMMA DeskResume ==
  ASSUME DeskInv, NEW s \in Speakers, Desk!Resume(s)
  PROVE  DeskInv'
<1> DEFINE what == IF v5[s].times = 1 THEN Desk!Idle ELSE [v5[s] EXCEPT !.times = @ - 1]
<1>1. /\ DeskTyped /\ OneClaim /\ v5[s].pc = "resume" /\ v3' = FALSE /\ v7' = {}
      /\ v5' = [v5 EXCEPT ![s] = what] /\ UNCHANGED <<v1, v2, v4, v6>>
  BY DEF DeskInv, Desk!Resume, Desk!Resumed, Desk!MayResume, Desk!Doing, Desk!Does
<1>2. what \in DeskJob /\ what.pc \in {"idle", "resume"}
  <2>1. v5[s] \in DeskJob
    BY <1>1 DEF DeskTyped
  <2>2. v5[s] \in [pc : {"resume"}, times : Nat \ {0}]
    BY <1>1, <2>1 DEF DeskJob
  <2>3. CASE v5[s].times = 1
    BY <2>3 DEF DeskJob, Desk!Idle
  <2>4. CASE v5[s].times # 1
    <3>1. v5[s].times - 1 \in Nat \ {0}
      BY <2>2, <2>4
    <3>2. [v5[s] EXCEPT !.times = @ - 1] \in [pc : {"resume"}, times : Nat \ {0}]
      BY <2>2, <3>1
    <3> QED BY <2>4, <3>2 DEF DeskJob
  <2> QED BY <2>3, <2>4
<1> HIDE DEF what
<1>3. v5' \in [Speakers -> DeskJob] /\ v5'[s] = what /\ \A t \in Speakers : t # s => v5'[t] = v5[t]
  BY <1>1, <1>2, JobsAfter
<1>4. RowsKept
  BY <1>1, SameRows
<1>5. DeskTyped'
  <2>1. v2' \subseteq DOMAIN v1' /\ v3' \in BOOLEAN /\ v7' \subseteq Desk!Causes
        /\ v6' \subseteq [row : DOMAIN v1', by : Speakers]
        /\ v4' \in Seq(Speakers \cup {Nobody, Elsewhere}) /\ Len(v4') <= MaxRows
        /\ DOMAIN v4 \subseteq DOMAIN v4'
    BY <1>1 DEF DeskTyped
  <2>2. v5'[s].pc \notin {"append"} \cup Handles
    BY <1>2, <1>3 DEF Handles
  <2> QED BY <1>1, <1>3, <1>4, <2>1, <2>2, TypedAfter
<1>6. OneClaim'
  <2>1. \A t \in Speakers : v5'[t].pc = "write" => v5'[t] = v5[t]
    BY <1>2, <1>3
  <2> QED BY <1>1, <1>4, <2>1, ClaimsAfter
<1>7. WayOn'
  BY <1>1 DEF WayOn
<1> QED BY <1>5, <1>6, <1>7 DEF DeskInv

\* The speaker's process dies.
LEMMA DeskKill ==
  ASSUME DeskInv, NEW s \in Speakers, Desk!Kill(s)
  PROVE  DeskInv'
<1>1. /\ DeskTyped /\ OneClaim /\ WayOn
      /\ Desk!Strands(Desk!Undone(s))
      /\ v5' = [v5 EXCEPT ![s] = Desk!Idle] /\ UNCHANGED <<v1, v2, v3, v4, v6>>
  BY DEF DeskInv, Desk!Kill, Desk!Doing, Desk!Does
<1>a. /\ Desk!Undone(s) \in SUBSET Desk!Causes
      /\ Desk!Undone(s) = {} => v5[s].pc # "append" /\ v5[s].pc # "resume"
  BY DEF Desk!Undone, Desk!Doing, Desk!Causes
<1>b. /\ v7' \subseteq Desk!Causes
      /\ v3 /\ v7' = {} => v7 = {} /\ Desk!Undone(s) = {}
  BY <1>1, <1>a, Strandings
<1>2. Desk!Idle \in DeskJob /\ Desk!Idle.pc = "idle"
  BY DEF DeskJob, Desk!Idle
<1>3. v5' \in [Speakers -> DeskJob] /\ v5'[s] = Desk!Idle /\ \A t \in Speakers : t # s => v5'[t] = v5[t]
  BY <1>1, <1>2, JobsAfter
<1>4. RowsKept
  BY <1>1, SameRows
<1>5. DeskTyped'
  <2>1. v2' \subseteq DOMAIN v1' /\ v3' \in BOOLEAN
        /\ v6' \subseteq [row : DOMAIN v1', by : Speakers]
        /\ v4' \in Seq(Speakers \cup {Nobody, Elsewhere}) /\ Len(v4') <= MaxRows
        /\ DOMAIN v4 \subseteq DOMAIN v4'
    BY <1>1 DEF DeskTyped
  <2>2. v7' \subseteq Desk!Causes
    BY <1>b
  <2>3. v5'[s].pc \notin {"append"} \cup Handles
    BY <1>2, <1>3 DEF Handles
  <2> QED BY <1>1, <1>3, <1>4, <2>1, <2>2, <2>3, TypedAfter
<1>6. OneClaim'
  <2>1. \A t \in Speakers : v5'[t].pc = "write" => v5'[t] = v5[t]
    BY <1>2, <1>3
  <2> QED BY <1>1, <1>4, <2>1, ClaimsAfter
<1>7. WayOn'
  <2>1. CASE ~v3 \/ v7' # {}
    BY <1>1, <2>1 DEF WayOn
  <2>2. CASE v3 /\ v7' = {}
    <3>1. v7 = {} /\ v5[s].pc # "append" /\ v5[s].pc # "resume"
      BY <1>a, <1>b, <2>2
    <3>2. \A t \in Speakers : v5[t].pc \in {"append", "resume"} => v5'[t] = v5[t]
      BY <1>3, <3>1
    <3> QED BY <1>1, <3>1, <3>2 DEF WayOn
  <2> QED BY <2>1, <2>2
<1> QED BY <1>5, <1>6, <1>7 DEF DeskInv

\* Time, and the other surfaces of the session.
LEMMA DeskOutside ==
  ASSUME DeskInv, \/ \E i \in Desk!Ids : Desk!FallDue(i) \/ Desk!ClaimElsewhere(i)
                  \/ Desk!ResumeElsewhere
  PROVE  DeskInv'
<1>1. /\ DeskTyped /\ OneClaim /\ WayOn /\ UNCHANGED <<v1, v5, v6>>
      /\ v2' \subseteq DOMAIN v1 /\ v7' \subseteq Desk!Causes
      /\ v3' = FALSE \/ UNCHANGED <<v3, v4, v7>>
      /\ \/ v4' = v4
         \/ \E h \in DOMAIN v4 : v4[h] = Nobody /\ v4' = [v4 EXCEPT ![h] = Elsewhere]
  BY DEF DeskInv, DeskTyped, Desk!FallDue, Desk!ClaimElsewhere, Desk!ResumeElsewhere, Desk!MayResume,
         Desk!Pending
<1>2. v4 \in Seq(Speakers \cup {Nobody, Elsewhere}) /\ DOMAIN v4 = 1 .. Len(v4)
  BY <1>1 DEF DeskTyped
<1>3. /\ v4' \in Seq(Speakers \cup {Nobody, Elsewhere}) /\ Len(v4') = Len(v4) /\ DOMAIN v4' = DOMAIN v4
      /\ \A g \in DOMAIN v4 : v4[g] \in Speakers => v4'[g] = v4[g]
  <2>1. CASE v4' = v4
    BY <1>2, <2>1
  <2>2. ASSUME NEW h \in DOMAIN v4, v4[h] = Nobody, v4' = [v4 EXCEPT ![h] = Elsewhere]
        PROVE  /\ v4' \in Seq(Speakers \cup {Nobody, Elsewhere}) /\ Len(v4') = Len(v4)
               /\ DOMAIN v4' = DOMAIN v4
               /\ \A g \in DOMAIN v4 : v4[g] \in Speakers => v4'[g] = v4[g]
    BY <1>2, <2>2, ExceptSeq, DeskBounds
  <2> QED BY <1>1, <2>1, <2>2
<1>4. RowsKept
  BY <1>1, SameRows
<1>5. DeskTyped'
  BY <1>1, <1>3, <1>4, TypedAfter DEF DeskTyped
<1>6. OneClaim'
  BY <1>1, <1>3, <1>4, ClaimsAfter
<1>7. WayOn'
  BY <1>1 DEF WayOn
<1> QED BY <1>5, <1>6, <1>7 DEF DeskInv

LEMMA DeskNext == DeskInv /\ Desk!Next => DeskInv'
  BY DeskPropose, DeskAppendRow, DeskAmend, DeskClaim, DeskWriteConfirmed, DeskCancel, DeskExpire,
     DeskResume, DeskKill, DeskTake, DeskOutside DEF Desk!Next

LEMMA DeskInit == Desk!Init => DeskInv
<1> SUFFICES ASSUME Desk!Init PROVE DeskInv
  OBVIOUS
<1>1. /\ v1 = << >> /\ v2 = {} /\ v3 = FALSE /\ v4 = << >> /\ v6 = {} /\ v7 = {}
      /\ v5 = [s \in Speakers |-> Desk!Idle]
  BY DEF Desk!Init
<1>2. Desk!Idle \in DeskJob /\ Desk!Idle.pc = "idle"
  BY DEF DeskJob, Desk!Idle
<1>3. v5 \in [Speakers -> DeskJob] /\ \A s \in Speakers : v5[s].pc = "idle"
  BY <1>1, <1>2
<1>4. DeskTyped
  <2>1. /\ v1 \in Seq(DeskRow) /\ Len(v1) = 0 /\ DOMAIN v1 = {}
        /\ v4 \in Seq(Speakers \cup {Nobody, Elsewhere}) /\ Len(v4) = 0
    BY <1>1
  <2>2. Len(v1) <= MaxRows /\ Len(v4) <= MaxRows
    BY <2>1, DeskBounds
  <2> QED BY <1>1, <1>3, <2>1, <2>2 DEF DeskTyped, Handles
<1>5. OneClaim /\ WayOn
  BY <1>1, <1>3 DEF OneClaim, WayOn
<1> QED BY <1>4, <1>5 DEF DeskInv

LEMMA DeskSame == DeskInv /\ UNCHANGED <<v1, v2, v3, v4, v5, v6, v7>> => DeskInv'
  BY DEF DeskInv, DeskTyped, OneClaim, WayOn

LEMMA DeskPromises == DeskInv => Desk!DeskSound
<1> SUFFICES ASSUME DeskInv PROVE Desk!DeskSound
  OBVIOUS
<1>1. Desk!TypeOK
  BY DEF DeskInv, DeskTyped, DeskRow, Desk!TypeOK
<1>2. Desk!OneYes
  BY DEF DeskInv, OneClaim, Desk!OneYes
<1>3. Desk!NotWedged
  BY DEF DeskInv, WayOn, Desk!NotWedged, Desk!Doing
<1> QED BY <1>1, <1>2, <1>3 DEF Desk!DeskSound


-----------------------------------------------------------------------------
(***************************************************************************)
(* Access: book is v1, issued v3, lapsed v4, subject v5, job v6, link v7,  *)
(* trail v8, answer v9, back v10, gone v11, crossed v12, damaged v13.      *)
(***************************************************************************)

RowMap == UNION {[rows -> {"live", "revoked"}] : rows \in SUBSET (1 .. MaxIssues)}
AccessJob ==
  [at : {"idle", "enter", "load", "save", "saved", "unknown", "ask", "attribute", "deny", "fetch"},
   what : {"none", "issue", "revoke", "read", "send"}, store : Grant!Stores, row : 0 .. MaxIssues,
   why : {"none", "no_grant", "granted", "revoked", "expired", "selector_mismatch"},
   copy : RowMap, gone : SUBSET (1 .. MaxIssues), back : SUBSET (1 .. MaxIssues)]
Updating == {"enter", "load", "save", "saved", "unknown"}
Book == v1[v5].rows

\* Rows are numbered by their issue, all of them in the one store.
BookTyped ==
  /\ v1 \in [Grant!Stores -> [is : {"none", "bad", "rows"}, rows : RowMap]]
  /\ v1[v5].is # "rows" => Book = << >>
  /\ v5 \in Grant!Stores
  /\ v3 \in Seq(Grant!Sort) /\ Len(v3) <= MaxIssues /\ \A r \in DOMAIN v3 : v3[r].store = v5
  /\ DOMAIN Book \subseteq DOMAIN v3
  /\ v11 \subseteq v10 /\ v10 \subseteq DOMAIN v3

\* Nobody else has heard of a row whose issue is under way; what is revoked has been issued.
Updates(a, j) ==
  /\ j.at \in Updating => j.what \in {"issue", "revoke"} /\ j.row # 0
  /\ j.at = "unknown" => j.what = "revoke"
  /\ j.at \in Updating /\ j.what = "revoke" => j.row \in v10
  /\ j.at \in Updating /\ j.what = "issue" =>
       /\ j.row \notin v10
       /\ \A b \in Actors \ {a} :
            v6[b].at \in Updating /\ v6[b].what = "issue" => v6[b].row # j.row

\* What was decided about a source, and will be told.
Decides(j) ==
  /\ j.at \in {"ask", "attribute", "deny", "fetch"} => v5 = "grants"
  /\ j.at \in {"attribute", "fetch"} =>
       /\ j.row # 0 /\ Grant!Fits(j.row, j.what)
       /\ j.row \in j.gone => v5 \in v12
  /\ j.at = "deny" /\ j.why \in {"no_grant", "selector_mismatch"} =>
       v5 \in v12 \cup v13 \/ \A r \in j.back : ~Grant!Fits(r, j.what)

JobFits(a, j) ==
  /\ j \in AccessJob /\ j.row \in DOMAIN v3 \cup {0} /\ DOMAIN j.copy \subseteq DOMAIN v3
  /\ j.at # "idle" => j.store = v5
  /\ j.gone \subseteq v11 /\ j.back \subseteq v10
  /\ Updates(a, j) /\ Decides(j)
JobsFit == DOMAIN v6 = Actors /\ v6 = [a \in Actors |-> v6[a]] /\ \A a \in Actors : JobFits(a, v6[a])

\* A revocation, or an issue, that is on file, whether or not its call has returned.
Saved(what, r) == \E a \in Actors : v6[a].at = "saved" /\ v6[a].what = what /\ v6[a].row = r
IsOut(r) == r \in v11 \/ Saved("revoke", r)
IsIn(r) == r \in v10 \/ Saved("issue", r)

\* Unless updates crossed: no file, and none about to be written, revives a revoked row ...
StaysOut ==
  v5 \notin v12 => \A r \in DOMAIN v3 : IsOut(r) =>
    /\ r \in DOMAIN Book => Book[r] = "revoked"
    /\ \A a \in Actors : v6[a].at = "save" /\ r \in DOMAIN v6[a].copy => v6[a].copy[r] = "revoked"
\* ... and none forgets an issued one.
StaysIn ==
  v5 \notin v12 \cup v13 => \A r \in DOMAIN v3 : IsIn(r) =>
    /\ r \in DOMAIN Book
    /\ \A a \in Actors : v6[a].at = "save" => r \in DOMAIN v6[a].copy
\* Before the first update there is no file.
NoFileYet == v1[v5].is = "none" => v10 = {} /\ \A a \in Actors : v6[a].at # "saved"
OnTrail == \A a \in Actors : v6[a].at = "fetch" => v6[a].row \in v8
Answers == /\ Grant!RevokedStaysOut /\ Grant!DenialIsTrue /\ Grant!TrustedUntilIssued
           /\ Grant!Attributed

AccessInv == BookTyped /\ JobsFit /\ StaysOut /\ StaysIn /\ NoFileYet /\ OnTrail /\ Answers

LEMMA AccessBounds == MaxIssues \in Nat /\ Sorts \subseteq Grant!Sort
  BY PermissionsAssumption DEF Grant!AccessAssumption

LEMMA NoRowsYet == << >> \in RowMap /\ DOMAIN << >> = {}
<1>1. << >> \in [{} -> {"live", "revoked"}] /\ DOMAIN << >> = {}
  OBVIOUS
<1>2. {} \in SUBSET (1 .. MaxIssues)
  OBVIOUS
<1> QED BY <1>1, <1>2 DEF RowMap

\* What a store has on file.
LEMMA FileIsBook ==
  ASSUME BookTyped
  PROVE  Grant!OnFile(v5) = Book
  BY NoRowsYet DEF BookTyped, Grant!OnFile, Grant!NoRows, Book

LEMMA QuietAnswers ==
  ASSUME v9' = Grant!NoAnswer
  PROVE  Answers'
  BY DEF Grant!NoAnswer, Answers, Grant!RevokedStaysOut, Grant!DenialIsTrue, Grant!TrustedUntilIssued,
         Grant!Attributed

LEMMA IdleFits ==
  ASSUME NEW a
  PROVE  JobFits(a, Grant!Idle) /\ Grant!Idle.at = "idle" /\ Grant!Idle \in AccessJob
<1>1. Grant!Idle \in AccessJob
  BY NoRowsYet, AccessBounds DEF Grant!Idle, AccessJob, Grant!Stores, Grant!NoRows
<1> QED BY <1>1, NoRowsYet DEF JobFits, Grant!Idle, Updates, Decides, Updating, Grant!NoRows

\* One actor goes on, and neither file nor ghosts change.
LEMMA JobMoves ==
  ASSUME AccessInv, NEW a \in Actors, NEW j, JobFits(a, j), v6' = [v6 EXCEPT ![a] = j],
         UNCHANGED <<v1, v3, v5, v10, v11, v12, v13>>, v8 \subseteq v8', j.at # "saved",
         j.at = "save" => j.copy = Book, j.at = "fetch" => j.row \in v8', Answers'
  PROVE  AccessInv'
<1>1. DOMAIN v6' = Actors /\ v6'[a] = j /\ \A b \in Actors : b # a => v6'[b] = v6[b]
  BY DEF AccessInv, JobsFit
<1>2. BookTyped'
  BY DEF AccessInv, BookTyped, Book
<1>3. JobsFit'
  <2>1. JobFits(a, v6[a])'
    BY <1>1 DEF JobFits, Updates, Decides, Grant!Fits
  <2>2. ASSUME NEW b \in Actors, b # a PROVE JobFits(b, v6[b])'
    <3>1. JobFits(b, v6[b]) /\ v6'[b] = v6[b]
      BY <1>1, <2>2 DEF AccessInv, JobsFit
    <3>2. ASSUME v6[b].at \in Updating, v6[b].what = "issue",
                 NEW c \in Actors \ {b}, v6'[c].at \in Updating, v6'[c].what = "issue"
          PROVE  v6'[c].row # v6[b].row
      <4>1. CASE c = a
        BY <1>1, <2>2, <3>2, <4>1 DEF JobFits, Updates
      <4>2. CASE c # a
        BY <1>1, <3>1, <3>2, <4>2 DEF JobFits, Updates
      <4> QED BY <4>1, <4>2
    <3>3. Updates(b, v6[b])'
      BY <3>1, <3>2 DEF JobFits, Updates
    <3>4. Decides(v6[b])'
      BY <3>1 DEF JobFits, Decides, Grant!Fits
    <3> QED BY <3>1, <3>3, <3>4 DEF JobFits
  <2>3. v6' = [b \in Actors |-> v6'[b]]
    BY DEF AccessInv, JobsFit
  <2> QED BY <1>1, <2>1, <2>2, <2>3 DEF JobsFit
<1>4. \A what, r : Saved(what, r)' => Saved(what, r)
  BY <1>1 DEF Saved
<1>5. StaysOut'
  <2> SUFFICES ASSUME v5 \notin v12, NEW r \in DOMAIN v3, IsOut(r)'
               PROVE  /\ r \in DOMAIN Book => Book[r] = "revoked"
                      /\ \A b \in Actors : v6'[b].at = "save" /\ r \in DOMAIN v6'[b].copy =>
                           v6'[b].copy[r] = "revoked"
    BY DEF StaysOut, Book
  <2>1. IsOut(r)
    BY <1>4 DEF IsOut
  <2> QED BY <1>1, <2>1 DEF AccessInv, StaysOut
<1>6. StaysIn'
  <2> SUFFICES ASSUME v5 \notin v12 \cup v13, NEW r \in DOMAIN v3, IsIn(r)'
               PROVE  /\ r \in DOMAIN Book
                      /\ \A b \in Actors : v6'[b].at = "save" => r \in DOMAIN v6'[b].copy
    BY DEF StaysIn, Book
  <2>1. IsIn(r)
    BY <1>4 DEF IsIn
  <2> QED BY <1>1, <2>1 DEF AccessInv, StaysIn
<1>7. NoFileYet' /\ OnTrail'
  BY <1>1 DEF AccessInv, NoFileYet, OnTrail
<1> QED BY <1>2, <1>3, <1>5, <1>6, <1>7 DEF AccessInv

\* The record of a job under way.
LEMMA JobShape ==
  ASSUME AccessInv, NEW a \in Actors
  PROVE  /\ v6[a] \in AccessJob /\ JobFits(a, v6[a])
         /\ v6[a].at # "idle" => v6[a].store = v5
         /\ \A at \in {"idle", "enter", "load", "save", "saved", "unknown", "ask", "attribute",
                       "deny", "fetch"} :
              [v6 EXCEPT ![a].at = at] = [v6 EXCEPT ![a] = [v6[a] EXCEPT !.at = at]]
  BY DEF AccessInv, JobsFit, JobFits

LEMMA AccessRevoke ==
  ASSUME AccessInv, v5' = v5, NEW a \in Actors, NEW r \in Grant!Rows, Grant!Revoke(a, r)
  PROVE  AccessInv'
<1> DEFINE j == [Grant!Idle EXCEPT !.at = "enter", !.what = "revoke", !.store = v3[r].store, !.row = r]
<1>1. /\ r \in v10 /\ v6' = [v6 EXCEPT ![a] = j] /\ v9' = Grant!NoAnswer
      /\ UNCHANGED <<v1, v3, v5, v8, v10, v11, v12, v13>>
  BY DEF Grant!Revoke, Grant!Begin, Grant!Quiet, Grant!Books, Grant!Ghosts
<1>2. r \in DOMAIN v3 /\ v3[r].store = v5 /\ v5 \in Grant!Stores /\ r \in 0 .. MaxIssues
  BY <1>1, AccessBounds DEF AccessInv, BookTyped
<1>3. j \in AccessJob /\ j.at = "enter" /\ j.what = "revoke" /\ j.row = r /\ j.store = v5
      /\ j.copy = << >> /\ j.gone = {} /\ j.back = {}
  BY <1>2, NoRowsYet DEF Grant!Idle, AccessJob, Grant!NoRows
<1> HIDE DEF j
<1>4. JobFits(a, j)
  BY <1>1, <1>2, <1>3, NoRowsYet DEF JobFits, Updates, Decides, Updating
<1> QED BY <1>1, <1>3, <1>4, QuietAnswers, JobMoves

LEMMA AccessAsk ==
  ASSUME AccessInv, v5' = v5, NEW a \in Actors, NEW verb \in {"read", "send"}, Grant!Ask(a, verb)
  PROVE  AccessInv'
<1> DEFINE j == [Grant!Idle EXCEPT !.at = "ask", !.what = verb, !.store = "grants",
                                   !.gone = v11, !.back = v10]
<1>1. /\ v5 = "grants" /\ v6' = [v6 EXCEPT ![a] = j] /\ v9' = Grant!NoAnswer
      /\ UNCHANGED <<v1, v3, v5, v8, v10, v11, v12, v13>>
  BY DEF Grant!Ask, Grant!Quiet, Grant!Books, Grant!Ghosts
<1>2. v10 \in SUBSET (1 .. MaxIssues) /\ v11 \in SUBSET (1 .. MaxIssues)
  <2>1. DOMAIN v3 \subseteq 1 .. MaxIssues
    BY AccessBounds DEF AccessInv, BookTyped
  <2> QED BY <2>1 DEF AccessInv, BookTyped
<1>3. j \in AccessJob /\ j.at = "ask" /\ j.row = 0 /\ j.store = v5
      /\ j.copy = << >> /\ j.gone = v11 /\ j.back = v10
  <2> DEFINE i == [Grant!Idle EXCEPT !.at = "ask", !.what = verb, !.store = "grants"]
  <2>1. i \in AccessJob /\ i.at = "ask" /\ i.row = 0 /\ i.store = "grants" /\ i.copy = << >>
    <3>1. Grant!Idle \in AccessJob /\ Grant!Idle.row = 0 /\ Grant!Idle.copy = << >>
      BY IdleFits DEF Grant!Idle, Grant!NoRows
    <3>2. "grants" \in Grant!Stores
      BY DEF Grant!Stores
    <3> QED BY <3>1, <3>2 DEF AccessJob
  <2>2. j = [i EXCEPT !.gone = v11, !.back = v10]
    OBVIOUS
  <2> HIDE DEF i, j
  <2> QED BY <1>1, <1>2, <2>1, <2>2 DEF AccessJob
<1> HIDE DEF j
<1>4. JobFits(a, j)
  BY <1>1, <1>3, NoRowsYet DEF JobFits, Updates, Decides, Updating
<1> QED BY <1>1, <1>3, <1>4, QuietAnswers, JobMoves

\* The lock, whatever it says, and the read under it.
LEMMA AccessEnter ==
  ASSUME AccessInv, v5' = v5, NEW a \in Actors, Grant!Enter(a) \/ Grant!EnterLate(a)
  PROVE  AccessInv'
<1> DEFINE j == [v6[a] EXCEPT !.at = "load"]
<1>1. /\ v6[a].at = "enter" /\ v6' = [v6 EXCEPT ![a].at = "load"] /\ v9' = Grant!NoAnswer
      /\ UNCHANGED <<v1, v3, v5, v8, v10, v11, v12, v13>>
  BY DEF Grant!Enter, Grant!EnterLate, Grant!Move, Grant!Quiet, Grant!Books, Grant!Ghosts
<1>2. v6' = [v6 EXCEPT ![a] = j] /\ v6[a] \in AccessJob /\ JobFits(a, v6[a]) /\ v6[a].store = v5
  BY <1>1, JobShape
<1>3. j \in AccessJob /\ j.at = "load" /\ j.what = v6[a].what /\ j.row = v6[a].row
      /\ j.store = v6[a].store /\ j.copy = v6[a].copy /\ j.gone = v6[a].gone /\ j.back = v6[a].back
  BY <1>2 DEF AccessJob
<1> HIDE DEF j
<1>4. JobFits(a, j)
  BY <1>1, <1>2, <1>3 DEF JobFits, Updates, Decides, Updating
<1> QED BY <1>1, <1>2, <1>3, <1>4, QuietAnswers, JobMoves

LEMMA AccessLoad ==
  ASSUME AccessInv, v5' = v5, NEW a \in Actors, Grant!Load(a)
  PROVE  AccessInv'
<1> DEFINE known == v6[a].row \in DOMAIN Book /\ Book[v6[a].row] = "live"
           next == IF v6[a].what = "issue" \/ known THEN "save" ELSE "unknown"
           j == [v6[a] EXCEPT !.at = next, !.copy = Book]
<1>1. v6[a] \in AccessJob /\ JobFits(a, v6[a]) /\ v6[a].at = "load" /\ v6[a].store = v5
  BY JobShape DEF Grant!Load
<1>2. Grant!OnFile(v6[a].store) = Book
  BY <1>1, FileIsBook DEF AccessInv
<1>3. v9' = Grant!NoAnswer /\ UNCHANGED <<v1, v3, v5, v8, v10, v11, v12, v13>>
  BY <1>2 DEF Grant!Load, Grant!Quiet, Grant!Books, Grant!Ghosts
<1>5. v6' = [v6 EXCEPT ![a] = j]
  BY <1>2 DEF Grant!Load, AccessInv, JobsFit
<1>4. next \in {"save", "unknown"} /\ (next = "unknown" => v6[a].what # "issue")
      /\ Book \in RowMap /\ DOMAIN Book \subseteq DOMAIN v3
  BY DEF AccessInv, BookTyped, Book
<1> HIDE DEF next
<1>6. j \in AccessJob /\ j.at = next /\ j.what = v6[a].what /\ j.row = v6[a].row
      /\ j.store = v6[a].store /\ j.copy = Book /\ j.gone = v6[a].gone /\ j.back = v6[a].back
  BY <1>1, <1>4 DEF AccessJob
<1> HIDE DEF j
<1>7. JobFits(a, j)
  BY <1>1, <1>4, <1>6 DEF JobFits, Updates, Decides, Updating
<1> QED BY <1>3, <1>4, <1>5, <1>6, <1>7, QuietAnswers, JobMoves

\* A job ends without a change: the write fails, the actor is killed.
LEMMA AccessStops ==
  ASSUME AccessInv, v5' = v5, NEW a \in Actors, Grant!SaveFails(a) \/ Grant!Kill(a)
  PROVE  AccessInv'
<1>1. /\ v6' = [v6 EXCEPT ![a] = Grant!Idle] /\ v9' = Grant!NoAnswer
      /\ UNCHANGED <<v1, v3, v5, v8, v10, v11, v12, v13>>
  BY DEF Grant!SaveFails, Grant!Kill, Grant!Done, Grant!Quiet, Grant!Ghosts
<1> QED BY <1>1, IdleFits, QuietAnswers, JobMoves

\* What was found for a request, as the first of the reasons that some row gives.
LEMMA VerdictIs ==
  ASSUME BookTyped, v5 = "grants", NEW verb
  PROVE  /\ Grant!Verdict(verb) \in
              {"no_grant", "granted", "revoked", "expired", "selector_mismatch"}
         /\ Grant!Verdict(verb) # "no_grant" =>
              \E r \in Grant!Candidates(verb) : Grant!Against(r) = Grant!Verdict(verb)
         /\ Grant!Verdict(verb) = "no_grant" => Grant!Candidates(verb) = {}
         /\ Grant!Verdict(verb) = "selector_mismatch" =>
              \A r \in Grant!Candidates(verb) : Grant!Against(r) = "selector_mismatch"
<1> DEFINE C == Grant!Candidates(verb)
           found == {i \in DOMAIN Grant!Reasons : \E r \in C : Grant!Against(r) = Grant!Reasons[i]}
           first == CHOOSE i \in found : \A j \in found : i <= j
<1>1. /\ DOMAIN Grant!Reasons = 1 .. 4
      /\ Grant!Reasons[1] = "granted" /\ Grant!Reasons[2] = "revoked"
      /\ Grant!Reasons[3] = "expired" /\ Grant!Reasons[4] = "selector_mismatch"
  BY DEF Grant!Reasons
<1>2. \A r : Grant!Against(r) \in {"granted", "revoked", "expired", "selector_mismatch"}
  BY DEF Grant!Against
<1>3. Grant!Verdict(verb) = IF found = {} THEN "no_grant" ELSE Grant!Reasons[first]
  BY DEF Grant!Verdict
<1>4. \A i : i \in found <=> i \in 1 .. 4 /\ \E r \in C : Grant!Against(r) = Grant!Reasons[i]
  BY <1>1
<1>5. \A r \in C : \E i \in found : Grant!Against(r) = Grant!Reasons[i]
  BY <1>1, <1>2, <1>4
<1>6. ASSUME found # {} PROVE first \in found /\ \A j \in found : first <= j
  <2>1. \E i \in found : \A j \in found : i <= j
    <3>1. CASE 1 \in found BY <3>1, <1>4
    <3>2. CASE 1 \notin found /\ 2 \in found BY <3>2, <1>4
    <3>3. CASE 1 \notin found /\ 2 \notin found /\ 3 \in found BY <3>3, <1>4
    <3>4. CASE 1 \notin found /\ 2 \notin found /\ 3 \notin found BY <3>4, <1>4, <1>6
    <3> QED BY <3>1, <3>2, <3>3, <3>4
  <2> QED BY <2>1
<1> HIDE DEF found, first, C
<1>7. CASE found = {}
  BY <1>3, <1>5, <1>7 DEF C
<1>8. CASE found # {}
  <2>1. first \in 1 .. 4 /\ \E r \in C : Grant!Against(r) = Grant!Reasons[first]
    BY <1>4, <1>6, <1>8
  <2>2. Grant!Verdict(verb) = Grant!Reasons[first]
    BY <1>3, <1>8
  <2>3. Grant!Reasons[first] \in {"granted", "revoked", "expired", "selector_mismatch"}
    BY <1>1, <2>1
  <2>4. ASSUME Grant!Reasons[first] = "selector_mismatch", NEW r \in C
        PROVE  Grant!Against(r) = "selector_mismatch"
    <3>1. first = 4
      BY <1>1, <2>1, <2>4
    <3>2. PICK i \in found : Grant!Against(r) = Grant!Reasons[i]
      BY <1>5
    <3>3. i = 4
      BY <1>4, <1>6, <1>8, <3>1, <3>2
    <3> QED BY <1>1, <3>2, <3>3
  <2> QED BY <2>1, <2>2, <2>3, <2>4 DEF C
<1> QED BY <1>7, <1>8

\* A row a request for a verb could rest on, and what stands against it.
LEMMA CandidateIs ==
  ASSUME BookTyped, v5 = "grants"
  PROVE  /\ \A verb : Grant!Candidates(verb) = {r \in DOMAIN Book : v3[r].verb = verb}
         /\ \A r : Grant!Against(r) = "granted" => Book[r] # "revoked" /\ v3[r].only = "mine"
         /\ \A r \in DOMAIN v3 : Grant!Against(r) = "selector_mismatch" => v3[r].only = "other"
<1>1. Grant!OnFile("grants") = Book
  BY FileIsBook
<1>2. ASSUME NEW r \in DOMAIN v3, v3[r].only # "mine" PROVE v3[r].only = "other"
  <2>1. v3[r] \in Grant!Sort /\ v3[r].store = "grants"
    BY DEF BookTyped
  <2> QED BY <1>2, <2>1 DEF Grant!Sort
<1> QED BY <1>1, <1>2 DEF Grant!Candidates, Grant!Against

LEMMA AccessDecide ==
  ASSUME AccessInv, v5' = v5, NEW a \in Actors, Grant!Decide(a)
  PROVE  AccessInv'
<1> DEFINE verb == v6[a].what
           why == Grant!Verdict(v6[a].what)
           at == IF why = "granted" THEN "attribute" ELSE "deny"
           cited == {r \in Grant!Candidates(verb) : Grant!Against(r) = why} \cup {0}
<1>1. v6[a] \in AccessJob /\ JobFits(a, v6[a]) /\ v6[a].at = "ask" /\ v6[a].store = v5 /\ v5 = "grants"
  BY JobShape DEF Grant!Decide, JobFits, Decides
<1>2. PICK r \in cited :
        /\ r = 0 => cited = {0}
        /\ v6' = [v6 EXCEPT ![a] = [v6[a] EXCEPT !.at = at, !.row = r, !.why = why]]
  BY <1>1 DEF Grant!Decide, AccessInv, JobsFit
<1>3. v9' = Grant!NoAnswer /\ UNCHANGED <<v1, v3, v5, v8, v10, v11, v12, v13>>
  BY DEF Grant!Decide, Grant!Quiet, Grant!Books, Grant!Ghosts
<1> DEFINE j == [v6[a] EXCEPT !.at = at, !.row = r, !.why = why]
<1>4. v6' = [v6 EXCEPT ![a] = j]
  BY <1>2
<1>5. /\ why \in {"no_grant", "granted", "revoked", "expired", "selector_mismatch"}
      /\ why # "no_grant" => \E q \in Grant!Candidates(verb) : Grant!Against(q) = why
      /\ why = "no_grant" => Grant!Candidates(verb) = {}
      /\ why = "selector_mismatch" =>
           \A q \in Grant!Candidates(verb) : Grant!Against(q) = "selector_mismatch"
  BY <1>1, VerdictIs DEF AccessInv
<1> HIDE DEF why
<1>6. DOMAIN Book \subseteq DOMAIN v3 /\ DOMAIN v3 \subseteq 1 .. MaxIssues
  BY AccessBounds DEF AccessInv, BookTyped
<1>7. \A q : q \in Grant!Candidates(verb) <=> q \in DOMAIN Book /\ v3[q].verb = verb
  BY <1>1, CandidateIs DEF AccessInv
<1>8. r \in DOMAIN v3 \cup {0} /\ r \in 0 .. MaxIssues
  BY <1>2, <1>6, <1>7, AccessBounds
<1>9. at \in {"attribute", "deny"} /\ (at = "attribute" <=> why = "granted")
  OBVIOUS
<1> HIDE DEF at
<1>10. j \in AccessJob /\ j.at = at /\ j.what = verb /\ j.row = r /\ j.why = why
       /\ j.store = v6[a].store /\ j.copy = v6[a].copy /\ j.gone = v6[a].gone /\ j.back = v6[a].back
  BY <1>1, <1>5, <1>8, <1>9 DEF AccessJob
<1> HIDE DEF j
<1>11. ASSUME why = "granted"
       PROVE  r # 0 /\ Grant!Fits(r, verb) /\ (r \in v6[a].gone => v5 \in v12)
  <2>1. r # 0
    <3>1. PICK q \in Grant!Candidates(verb) : Grant!Against(q) = why
      BY <1>5, <1>11
    <3>2. q \in cited /\ q # 0
      BY <3>1, <1>6, <1>7
    <3> QED BY <3>2, <1>2
  <2>2. r \in Grant!Candidates(verb) /\ Grant!Against(r) = "granted"
    BY <1>2, <1>11, <2>1
  <2>3. r \in DOMAIN Book /\ v3[r].verb = verb /\ Book[r] # "revoked" /\ v3[r].only = "mine"
    BY <2>2, <1>1, <1>7, CandidateIs DEF AccessInv
  <2>4. r \in v6[a].gone => v5 \in v12
    BY <2>3, <1>1, <1>6 DEF AccessInv, StaysOut, IsOut, JobFits
  <2> QED BY <2>1, <2>3, <2>4 DEF Grant!Fits
<1>12. ASSUME why \in {"no_grant", "selector_mismatch"}, v5 \notin v12 \cup v13, NEW q \in v6[a].back
       PROVE  ~Grant!Fits(q, verb)
  <2>1. q \in DOMAIN v3 /\ q \in DOMAIN Book
    BY <1>1, <1>12 DEF AccessInv, BookTyped, StaysIn, IsIn, JobFits
  <2>2. CASE v3[q].verb # verb
    BY <2>2 DEF Grant!Fits
  <2>3. CASE v3[q].verb = verb
    <3>1. q \in Grant!Candidates(verb)
      BY <2>1, <2>3, <1>7
    <3>2. Grant!Against(q) = "selector_mismatch"
      BY <3>1, <1>5, <1>12
    <3>3. v3[q].only = "other"
      BY <3>2, <2>1, <1>1, CandidateIs DEF AccessInv
    <3> QED BY <3>3 DEF Grant!Fits
  <2> QED BY <2>2, <2>3
<1>13. Decides(j)
  BY <1>1, <1>9, <1>10, <1>11, <1>12 DEF Decides
<1>14. JobFits(a, j)
  BY <1>1, <1>8, <1>9, <1>10, <1>13 DEF JobFits, Updates, Updating
<1> QED BY <1>3, <1>4, <1>9, <1>10, <1>14, QuietAnswers, JobMoves

LEMMA AccessAttribute ==
  ASSUME AccessInv, v5' = v5, NEW a \in Actors, Grant!Attribute(a)
  PROVE  AccessInv'
<1>1. v6[a] \in AccessJob /\ JobFits(a, v6[a]) /\ v6[a].at \in {"attribute", "deny"} /\ v5 = "grants"
  BY JobShape DEF Grant!Attribute, JobFits, Decides
<1>2. UNCHANGED <<v1, v3, v5, v10, v11, v12, v13>>
  BY DEF Grant!Attribute, Grant!Books, Grant!Ghosts
<1>3. CASE v6[a].at = "deny"
  <2>1. /\ v6' = [v6 EXCEPT ![a] = Grant!Idle] /\ v8' = v8
        /\ v9' = [is |-> "denied", verb |-> v6[a].what, row |-> v6[a].row, why |-> v6[a].why,
                  gone |-> v6[a].gone, back |-> v6[a].back]
    BY <1>3 DEF Grant!Attribute, Grant!Done, Grant!Reply
  <2>2. Grant!DenialIsTrue'
    BY <1>1, <1>2, <1>3, <2>1 DEF JobFits, Decides, Grant!DenialIsTrue, Grant!Fits
  <2>3. Answers'
    BY <2>1, <2>2 DEF Answers, Grant!RevokedStaysOut, Grant!TrustedUntilIssued, Grant!Attributed
  <2> QED BY <1>2, <2>1, <2>3, IdleFits, JobMoves
<1>4. CASE v6[a].at = "attribute"
  <2> DEFINE j == [v6[a] EXCEPT !.at = "fetch"]
  <2>1. v6' = [v6 EXCEPT ![a].at = "fetch"] /\ v8' = v8 \cup {v6[a].row} /\ v9' = Grant!NoAnswer
    BY <1>4 DEF Grant!Attribute, Grant!Move, Grant!Quiet
  <2>2. v6' = [v6 EXCEPT ![a] = j]
    BY <2>1, JobShape
  <2>3. j \in AccessJob /\ j.at = "fetch" /\ j.what = v6[a].what /\ j.row = v6[a].row
        /\ j.store = v6[a].store /\ j.copy = v6[a].copy /\ j.gone = v6[a].gone
        /\ j.back = v6[a].back
    BY <1>1 DEF AccessJob
  <2> HIDE DEF j
  <2>4. JobFits(a, j)
    BY <1>1, <1>4, <2>3 DEF JobFits, Updates, Decides, Updating
  <2> QED BY <1>2, <2>1, <2>2, <2>3, <2>4, QuietAnswers, JobMoves
<1> QED BY <1>1, <1>3, <1>4

LEMMA AccessFetch ==
  ASSUME AccessInv, v5' = v5, NEW a \in Actors, Grant!Fetch(a)
  PROVE  AccessInv'
<1>1. v6[a] \in AccessJob /\ JobFits(a, v6[a]) /\ v6[a].at = "fetch" /\ v5 = "grants"
  BY JobShape DEF Grant!Fetch, JobFits, Decides
<1>2. /\ UNCHANGED <<v1, v3, v5, v8, v10, v11, v12, v13>>
      /\ v6' = [v6 EXCEPT ![a] = Grant!Idle]
      /\ v9' = [is |-> "used", verb |-> v6[a].what, row |-> v6[a].row, why |-> "granted",
                gone |-> v6[a].gone, back |-> v6[a].back]
  BY DEF Grant!Fetch, Grant!Books, Grant!Ghosts, Grant!Done, Grant!Reply
<1>3. v6[a].row \in DOMAIN v3 /\ v3[v6[a].row].store = v5
  BY <1>1 DEF AccessInv, BookTyped, JobFits, Decides
<1>4. Grant!RevokedStaysOut'
  BY <1>1, <1>2, <1>3 DEF JobFits, Decides, Grant!RevokedStaysOut, Grant!StoreOf
<1>5. Grant!Attributed'
  BY <1>1, <1>2 DEF AccessInv, OnTrail, JobFits, Decides, Grant!Attributed, Grant!Fits
<1>6. Answers'
  BY <1>2, <1>4, <1>5 DEF Answers, Grant!DenialIsTrue, Grant!TrustedUntilIssued
<1> QED BY <1>2, <1>6, IdleFits, JobMoves

\* Files, jobs and ghosts stay, and what is said fits them.
LEMMA AccessSame ==
  ASSUME AccessInv, UNCHANGED <<v1, v3, v5, v6, v8, v10, v11, v12, v13>>, Answers'
  PROVE  AccessInv'
<1>1. BookTyped' /\ NoFileYet' /\ OnTrail'
  BY DEF AccessInv, BookTyped, NoFileYet, OnTrail, Book
<1>2. ASSUME NEW b \in Actors PROVE JobFits(b, v6[b])'
  BY DEF AccessInv, JobsFit, JobFits, Updates, Decides, Grant!Fits
<1>3. JobsFit'
  BY <1>2 DEF AccessInv, JobsFit
<1>4. StaysOut' /\ StaysIn'
  BY DEF AccessInv, StaysOut, StaysIn, IsOut, IsIn, Saved, Book
<1> QED BY <1>1, <1>3, <1>4 DEF AccessInv

LEMMA AccessConnect ==
  ASSUME AccessInv, v5' = v5, NEW a \in Actors, Grant!Connect(a) \/ Grant!Disconnect(a)
  PROVE  AccessInv'
<1>1. UNCHANGED <<v1, v3, v5, v6, v8, v10, v11, v12, v13>>
  BY DEF Grant!Connect, Grant!Disconnect, Grant!Books, Grant!Ghosts
<1>2. CASE Grant!Disconnect(a)
  BY <1>1, <1>2, QuietAnswers, AccessSame DEF Grant!Disconnect, Grant!Quiet
<1>3. CASE Grant!Connect(a)
  <2>1. v9' = [is |-> "linked", verb |-> "none", row |-> 0, why |-> Grant!Implied, gone |-> {},
               back |-> v10] /\ v5 = "tokens"
    BY <1>3 DEF Grant!Connect, Grant!NoAnswer
  <2>2. Grant!Implied = "trusted" => v10 = {}
    BY <2>1 DEF Grant!Implied, AccessInv, NoFileYet
  <2>3. Answers'
    BY <2>1, <2>2 DEF Answers, Grant!RevokedStaysOut, Grant!DenialIsTrue,
                      Grant!TrustedUntilIssued, Grant!Attributed
  <2> QED BY <1>1, <2>3, AccessSame
<1> QED BY <1>2, <1>3

LEMMA AccessInstruct ==
  ASSUME AccessInv, v5' = v5, NEW a \in Actors, NEW r, NEW verb, NEW honest,
         Grant!Instruct(a, r, verb, honest)
  PROVE  AccessInv'
<1> DEFINE why == Grant!Refusal(a, r, verb, honest)
           row == IF v7[a] = "trusted" THEN 0 ELSE r
<1>1. /\ UNCHANGED <<v1, v3, v5, v6, v8, v10, v11, v12, v13>>
      /\ r # 0 => r \in v10 /\ v3[r].store = "tokens"
      /\ v9' = [is |-> IF why = "none" THEN "admitted" ELSE "refused", verb |-> verb, row |-> row,
                why |-> why, gone |-> v11, back |-> v10]
  BY DEF Grant!Instruct, Grant!Books, Grant!Ghosts
<1>2. ASSUME why = "none", row \in v11 PROVE v3[row].store \in v12
  <2>1. v11 \subseteq DOMAIN v3 /\ 0 \notin DOMAIN v3 /\ v11 \subseteq v10
    BY DEF AccessInv, BookTyped
  <2>2. row = r /\ r # 0 /\ v7[a] # "trusted"
    BY <1>2, <2>1
  <2>3. v3[r].store = v5 /\ v5 = "tokens" /\ r \in DOMAIN v3
    BY <1>1, <1>2, <2>1, <2>2 DEF AccessInv, BookTyped
  <2>4. Grant!Lives("tokens", r)
    BY <1>2, <2>2 DEF Grant!Refusal
  <2>5. Grant!OnFile("tokens") = Book
    BY <2>3, FileIsBook DEF AccessInv
  <2>6. r \in DOMAIN Book /\ Book[r] = "live"
    BY <2>4, <2>5 DEF Grant!Lives
  <2>7. v5 \in v12
    BY <1>2, <2>2, <2>3, <2>6 DEF AccessInv, StaysOut, IsOut
  <2> QED BY <2>2, <2>3, <2>7
<1> HIDE DEF why, row
<1>3. Grant!RevokedStaysOut'
  BY <1>1, <1>2 DEF Grant!RevokedStaysOut, Grant!StoreOf
<1>4. Grant!DenialIsTrue' /\ Grant!TrustedUntilIssued' /\ Grant!Attributed'
  BY <1>1 DEF Grant!DenialIsTrue, Grant!TrustedUntilIssued, Grant!Attributed
<1> QED BY <1>1, <1>3, <1>4, AccessSame DEF Answers

\* A step of another actor takes nothing from what a job rests on.
LEMMA OthersFit ==
  ASSUME AccessInv, v5' = v5, NEW a \in Actors, NEW b \in Actors, b # a,
         \A c \in Actors : c # a => v6'[c] = v6[c],
         DOMAIN v3 \subseteq DOMAIN v3', \A r \in DOMAIN v3 : v3'[r] = v3[r],
         v10 \subseteq v10', v11 \subseteq v11', v12 \subseteq v12', v13 \subseteq v13',
         v6[b].at \in Updating /\ v6[b].what = "issue" =>
           /\ v6[b].row \notin v10'
           /\ v6'[a].at \in Updating /\ v6'[a].what = "issue" => v6'[a].row # v6[b].row
  PROVE  JobFits(b, v6[b])'
<1>1. JobFits(b, v6[b]) /\ v6'[b] = v6[b]
  BY DEF AccessInv, JobsFit
<1>2. Updates(b, v6[b])'
  <2> SUFFICES ASSUME v6[b].at \in Updating, v6[b].what = "issue",
                      NEW c \in Actors \ {b}, v6'[c].at \in Updating, v6'[c].what = "issue"
               PROVE  v6'[c].row # v6[b].row
    BY <1>1 DEF JobFits, Updates
  <2>1. CASE c = a
    BY <2>1
  <2>2. CASE c # a
    BY <1>1, <2>2 DEF JobFits, Updates
  <2> QED BY <2>1, <2>2
<1>3. Decides(v6[b])'
  <2>1. v6[b].back \subseteq DOMAIN v3 /\ v6[b].row \in DOMAIN v3 \cup {0}
    BY <1>1 DEF AccessInv, BookTyped, JobFits
  <2> QED BY <1>1, <2>1 DEF JobFits, Decides, Grant!Fits
<1> QED BY <1>1, <1>2, <1>3 DEF JobFits

LEMMA AccessIssue ==
  ASSUME AccessInv, v5' = v5, NEW a \in Actors, NEW sort \in Sorts, Grant!Issue(a, sort)
  PROVE  AccessInv'
<1> DEFINE n == Len(v3) + 1
           j == [Grant!Idle EXCEPT !.at = "enter", !.what = "issue", !.store = sort.store, !.row = n]
<1>1. /\ Len(v3) < MaxIssues /\ sort.store = v5 /\ v3' = Append(v3, sort)
      /\ v6' = [v6 EXCEPT ![a] = j] /\ v9' = Grant!NoAnswer
      /\ UNCHANGED <<v1, v5, v8, v10, v11, v12, v13>>
  BY DEF Grant!Issue, Grant!Begin, Grant!Quiet, Grant!Ghosts
<1>2. sort \in Grant!Sort /\ v3 \in Seq(Grant!Sort) /\ MaxIssues \in Nat
  BY AccessBounds DEF AccessInv, BookTyped
<1>3. /\ Len(v3) \in Nat /\ n \in 1 .. MaxIssues /\ v3' \in Seq(Grant!Sort) /\ Len(v3') = n
      /\ DOMAIN v3 = 1 .. Len(v3) /\ DOMAIN v3' = DOMAIN v3 \cup {n} /\ n \notin DOMAIN v3 /\ n # 0
      /\ v3'[n] = sort /\ \A r \in DOMAIN v3 : v3'[r] = v3[r]
  BY <1>1, <1>2
<1> HIDE DEF n
<1>4. j \in AccessJob /\ j.at = "enter" /\ j.what = "issue" /\ j.row = n /\ j.store = v5
      /\ j.copy = << >> /\ j.gone = {} /\ j.back = {}
  <2>1. Grant!Idle \in AccessJob /\ Grant!Idle.copy = << >> /\ Grant!Idle.gone = {}
        /\ Grant!Idle.back = {}
    BY IdleFits DEF Grant!Idle, Grant!NoRows
  <2>2. v5 \in Grant!Stores
    BY DEF AccessInv, BookTyped
  <2>3. n \in 0 .. MaxIssues /\ sort.store \in Grant!Stores
    BY <1>1, <1>2, <1>3, <2>2
  <2>4. j \in AccessJob
    BY <2>1, <2>3 DEF AccessJob
  <2> QED BY <1>1, <2>1, <2>4 DEF AccessJob
<1> HIDE DEF j
<1>5. DOMAIN v6' = Actors /\ v6'[a] = j /\ \A b \in Actors : b # a => v6'[b] = v6[b]
  BY <1>1 DEF AccessInv, JobsFit
<1>6. \A b \in Actors : v6[b].row \in DOMAIN v3 \cup {0} /\ v6[b].row # n
  BY <1>3 DEF AccessInv, JobsFit, JobFits
<1>7. v10 \subseteq DOMAIN v3 /\ v11 \subseteq DOMAIN v3 /\ DOMAIN Book \subseteq DOMAIN v3
  BY DEF AccessInv, BookTyped
<1>8. BookTyped'
  <2>1. \A r \in DOMAIN v3' : v3'[r].store = v5
    BY <1>1, <1>3 DEF AccessInv, BookTyped
  <2> QED BY <1>1, <1>2, <1>3, <2>1 DEF AccessInv, BookTyped, Book
<1>9. JobFits(a, v6[a])'
  BY <1>1, <1>3, <1>4, <1>5, <1>6, <1>7, NoRowsYet DEF JobFits, Updates, Decides, Updating
<1>10. ASSUME NEW b \in Actors, b # a PROVE JobFits(b, v6[b])'
  <2>1. JobFits(b, v6[b])
    BY DEF AccessInv, JobsFit
  <2>2. v6[b].at \in Updating /\ v6[b].what = "issue" => v6[b].row \notin v10
    BY <2>1 DEF JobFits, Updates
  <2> QED BY <1>1, <1>3, <1>4, <1>5, <1>6, <1>10, <2>2, OthersFit
<1>11. JobsFit'
  <2>1. v6' = [b \in Actors |-> v6'[b]]
    BY <1>1 DEF AccessInv, JobsFit
  <2> QED BY <1>5, <1>9, <1>10, <2>1 DEF JobsFit
<1>12. \A what, r : Saved(what, r)' => Saved(what, r) /\ r # n
  BY <1>4, <1>5, <1>6 DEF Saved
<1>13. \A r \in DOMAIN v3' : (IsOut(r)' => IsOut(r) /\ r \in DOMAIN v3) /\ (IsIn(r)' => IsIn(r) /\ r \in DOMAIN v3)
  BY <1>1, <1>3, <1>7, <1>12 DEF IsOut, IsIn
<1>14. StaysOut'
  <2> SUFFICES ASSUME v5 \notin v12, NEW r \in DOMAIN v3, IsOut(r)
               PROVE  /\ r \in DOMAIN Book => Book[r] = "revoked"
                      /\ \A b \in Actors : v6'[b].at = "save" /\ r \in DOMAIN v6'[b].copy =>
                           v6'[b].copy[r] = "revoked"
    BY <1>1, <1>13 DEF StaysOut, Book
  <2> QED BY <1>4, <1>5 DEF AccessInv, StaysOut
<1>15. StaysIn'
  <2> SUFFICES ASSUME v5 \notin v12 \cup v13, NEW r \in DOMAIN v3, IsIn(r)
               PROVE  /\ r \in DOMAIN Book
                      /\ \A b \in Actors : v6'[b].at = "save" => r \in DOMAIN v6'[b].copy
    BY <1>1, <1>13 DEF StaysIn, Book
  <2> QED BY <1>4, <1>5 DEF AccessInv, StaysIn
<1>16. NoFileYet' /\ OnTrail'
  BY <1>1, <1>4, <1>5 DEF AccessInv, NoFileYet, OnTrail
<1> QED BY <1>1, <1>8, <1>11, <1>14, <1>15, <1>16, QuietAnswers DEF AccessInv

LEMMA AccessReturn ==
  ASSUME AccessInv, v5' = v5, NEW a \in Actors, Grant!Return(a)
  PROVE  AccessInv'
<1> DEFINE r == v6[a].row
<1>1. /\ v6[a].at \in {"saved", "unknown"} /\ v6' = [v6 EXCEPT ![a] = Grant!Idle]
      /\ v9' = Grant!NoAnswer /\ UNCHANGED <<v1, v3, v5, v8, v12, v13>>
      /\ v10' = IF v6[a].at = "saved" /\ v6[a].what = "issue" THEN v10 \cup {r} ELSE v10
      /\ v11' = IF v6[a].at = "saved" /\ v6[a].what = "revoke" THEN v11 \cup {r} ELSE v11
  BY DEF Grant!Return, Grant!Done, Grant!Quiet
<1>2. DOMAIN v6' = Actors /\ v6'[a] = Grant!Idle /\ \A b \in Actors : b # a => v6'[b] = v6[b]
  BY <1>1 DEF AccessInv, JobsFit
<1>3. JobFits(a, v6[a]) /\ v6[a].at \in Updating /\ r \in DOMAIN v3 /\ (v6[a].what = "revoke" => r \in v10)
  BY <1>1, JobShape DEF JobFits, Updates, Updating
<1>4. v10 \subseteq v10' /\ v11 \subseteq v11' /\ v10' \subseteq DOMAIN v3 /\ v11' \subseteq v10'
  BY <1>1, <1>3 DEF AccessInv, BookTyped
<1>5. BookTyped'
  BY <1>1, <1>4 DEF AccessInv, BookTyped, Book
<1>6. JobFits(a, v6[a])'
  BY <1>1, <1>2, <1>4, IdleFits, NoRowsYet
     DEF JobFits, Updates, Decides, Updating, Grant!Idle, Grant!NoRows
<1>7. ASSUME NEW b \in Actors, b # a PROVE JobFits(b, v6[b])'
  <2>1. v6[b].at \in Updating /\ v6[b].what = "issue" => v6[b].row \notin v10'
    <3>1. JobFits(b, v6[b])
      BY DEF AccessInv, JobsFit
    <3> QED BY <1>1, <1>3, <1>7, <3>1 DEF JobFits, Updates
  <2>2. v6'[a].at \notin Updating
    BY <1>2 DEF Grant!Idle, Updating
  <2> QED BY <1>1, <1>2, <1>4, <1>7, <2>1, <2>2, OthersFit
<1>8. JobsFit'
  <2>1. v6' = [b \in Actors |-> v6'[b]]
    BY <1>1 DEF AccessInv, JobsFit
  <2> QED BY <1>2, <1>6, <1>7, <2>1 DEF JobsFit
<1>9. \A what, q : Saved(what, q)' => Saved(what, q)
  BY <1>2 DEF Saved, Grant!Idle
<1>10. \A q : (IsOut(q)' => IsOut(q)) /\ (IsIn(q)' => IsIn(q))
  <2>1. \A q : q \in v11' => IsOut(q)
    BY <1>1 DEF IsOut, Saved
  <2>2. \A q : q \in v10' => IsIn(q)
    BY <1>1 DEF IsIn, Saved
  <2> QED BY <1>9, <2>1, <2>2 DEF IsOut, IsIn
<1>11. StaysOut'
  <2> SUFFICES ASSUME v5 \notin v12, NEW q \in DOMAIN v3, IsOut(q)
               PROVE  /\ q \in DOMAIN Book => Book[q] = "revoked"
                      /\ \A b \in Actors : v6'[b].at = "save" /\ q \in DOMAIN v6'[b].copy =>
                           v6'[b].copy[q] = "revoked"
    BY <1>1, <1>10 DEF StaysOut, Book
  <2> QED BY <1>2 DEF AccessInv, StaysOut, Grant!Idle
<1>12. StaysIn'
  <2> SUFFICES ASSUME v5 \notin v12 \cup v13, NEW q \in DOMAIN v3, IsIn(q)
               PROVE  /\ q \in DOMAIN Book
                      /\ \A b \in Actors : v6'[b].at = "save" => q \in DOMAIN v6'[b].copy
    BY <1>1, <1>10 DEF StaysIn, Book
  <2> QED BY <1>2 DEF AccessInv, StaysIn, Grant!Idle
<1>13. NoFileYet' /\ OnTrail'
  <2>1. v1[v5].is = "none" => v10' = {}
    BY <1>1, <1>3 DEF AccessInv, NoFileYet
  <2> QED BY <1>1, <1>2, <2>1 DEF AccessInv, NoFileYet, OnTrail, Grant!Idle
<1> QED BY <1>1, <1>5, <1>8, <1>11, <1>12, <1>13, QuietAnswers DEF AccessInv

\* The file as it was read, with the row of the job: what no other update was under way
\* to forget.
LEMMA AccessSave ==
  ASSUME AccessInv, v5' = v5, NEW a \in Actors, Grant!Save(a)
  PROVE  AccessInv'
<1> DEFINE r == v6[a].row
           copy == v6[a].copy
           next == [q \in DOMAIN copy \cup {r} |->
                      IF q = r THEN IF v6[a].what = "issue" THEN "live" ELSE "revoked" ELSE copy[q]]
           j == [v6[a] EXCEPT !.at = "saved", !.copy = << >>]
           overtaken == \E b \in Actors \ {a} : v6[b].at = "save" /\ v6[b].store = v5
<1>1. /\ v6[a] \in AccessJob /\ JobFits(a, v6[a]) /\ v6[a].at = "save" /\ v6[a].store = v5
      /\ r \in DOMAIN v3 /\ DOMAIN copy \subseteq DOMAIN v3
      /\ v6[a].what \in {"issue", "revoke"}
      /\ v6[a].what = "revoke" => r \in v10
      /\ v6[a].what = "issue" => r \notin v10
  BY JobShape DEF Grant!Save, JobFits, Updates, Updating
<1>2. /\ v1' = [v1 EXCEPT ![v5] = [is |-> "rows", rows |-> next]]
      /\ v12' = IF overtaken THEN v12 \cup {v5} ELSE v12
  BY <1>1 DEF Grant!Save, Grant!Written
<1>3. v9' = Grant!NoAnswer /\ UNCHANGED <<v3, v5, v8, v10, v11, v13>>
  BY DEF Grant!Save, Grant!Quiet
<1>4. v6' = [v6 EXCEPT ![a] = j]
  BY DEF Grant!Save, Grant!NoRows, AccessInv, JobsFit
<1>5. /\ j \in AccessJob /\ j.at = "saved" /\ j.what = v6[a].what /\ j.row = r /\ j.store = v6[a].store
      /\ j.copy = << >> /\ j.gone = v6[a].gone /\ j.back = v6[a].back
  BY <1>1, NoRowsYet DEF AccessJob
<1> HIDE DEF j
<1>6. DOMAIN v6' = Actors /\ v6'[a] = j /\ \A b \in Actors : b # a => v6'[b] = v6[b]
  BY <1>4 DEF AccessInv, JobsFit
<1>7. /\ DOMAIN next = DOMAIN copy \cup {r} /\ DOMAIN next \subseteq DOMAIN v3
      /\ next[r] = (IF v6[a].what = "issue" THEN "live" ELSE "revoked")
      /\ \A q \in DOMAIN copy : q # r => next[q] = copy[q]
  BY <1>1
<1>8. next \in RowMap
  <2>1. DOMAIN v3 \subseteq 1 .. MaxIssues
    BY AccessBounds DEF AccessInv, BookTyped
  <2>2. copy \in RowMap
    BY <1>1 DEF AccessJob
  <2>3. \A q \in DOMAIN copy : copy[q] \in {"live", "revoked"}
    BY <2>2 DEF RowMap
  <2>4. next \in [DOMAIN copy \cup {r} -> {"live", "revoked"}]
    BY <2>3
  <2>5. DOMAIN copy \cup {r} \in SUBSET (1 .. MaxIssues)
    BY <1>1, <2>1
  <2> QED BY <2>4, <2>5 DEF RowMap
<1> HIDE DEF next, copy
<1>9. v1'[v5] = [is |-> "rows", rows |-> next] /\ Book' = next
  BY <1>2, <1>3 DEF AccessInv, BookTyped, Book
<1>10. BookTyped'
  <2>1. v1' \in [Grant!Stores -> [is : {"none", "bad", "rows"}, rows : RowMap]]
    BY <1>2, <1>8 DEF AccessInv, BookTyped
  <2> QED BY <1>3, <1>7, <1>9, <2>1 DEF AccessInv, BookTyped
<1>11. JobFits(a, v6[a])'
  BY <1>1, <1>2, <1>3, <1>5, <1>6, NoRowsYet DEF JobFits, Updates, Decides, Updating
<1>12. ASSUME NEW b \in Actors, b # a PROVE JobFits(b, v6[b])'
  <2>1. JobFits(b, v6[b])
    BY DEF AccessInv, JobsFit
  <2>2. v6[b].at \in Updating /\ v6[b].what = "issue" =>
          v6[b].row \notin v10 /\ (v6[a].what = "issue" => r # v6[b].row)
    BY <1>1, <1>12, <2>1 DEF JobFits, Updates, Updating
  <2>3. v12 \subseteq v12'
    BY <1>2
  <2> QED BY <1>3, <1>5, <1>6, <1>12, <2>2, <2>3, OthersFit
<1>13. JobsFit'
  <2>1. v6' = [b \in Actors |-> v6'[b]]
    BY <1>4 DEF AccessInv, JobsFit
  <2> QED BY <1>6, <1>11, <1>12, <2>1 DEF JobsFit
<1>14. \A what, q : Saved(what, q)' => Saved(what, q) \/ (what = v6[a].what /\ q = r)
  BY <1>5, <1>6 DEF Saved
<1>15. v5 \notin v12' => v5 \notin v12 /\ \A b \in Actors : v6'[b].at # "save"
  <2>1. ASSUME v5 \notin v12', NEW b \in Actors, v6'[b].at = "save" PROVE FALSE
    <3>1. b # a /\ v6[b].at = "save"
      BY <1>5, <1>6, <2>1
    <3>2. v6[b].store = v5
      BY <3>1, JobShape
    <3> QED BY <1>2, <2>1, <3>1, <3>2
  <2> QED BY <1>2, <2>1
<1>16. StaysOut'
  <2> SUFFICES ASSUME v5 \notin v12', NEW q \in DOMAIN v3, IsOut(q)', q \in DOMAIN next
               PROVE  next[q] = "revoked"
    BY <1>3, <1>9, <1>15 DEF StaysOut
  <2>1. CASE q = r
    <3>1. CASE v6[a].what = "revoke"
      BY <1>7, <2>1, <3>1
    <3>2. CASE v6[a].what = "issue"
      <4>1. r \in v11 \/ Saved("revoke", r)
        BY <1>3, <1>14, <2>1, <3>2 DEF IsOut
      <4>2. r \in v11 => r \in v10
        BY DEF AccessInv, BookTyped
      <4>3. Saved("revoke", r) => r \in v10
        BY DEF Saved, AccessInv, JobsFit, JobFits, Updates, Updating
      <4> QED BY <1>1, <3>2, <4>1, <4>2, <4>3
    <3> QED BY <1>1, <3>1, <3>2
  <2>2. CASE q # r
    <3>1. IsOut(q)
      BY <1>3, <1>14, <2>2 DEF IsOut
    <3>2. q \in DOMAIN copy
      BY <1>7, <2>2
    <3>3. copy[q] = "revoked"
      BY <1>1, <1>15, <3>1, <3>2 DEF AccessInv, StaysOut, copy
    <3> QED BY <1>7, <2>2, <3>2, <3>3
  <2> QED BY <2>1, <2>2
<1>17. StaysIn'
  <2> SUFFICES ASSUME v5 \notin v12' \cup v13, NEW q \in DOMAIN v3, IsIn(q)', q # r
               PROVE  q \in DOMAIN next
    BY <1>3, <1>7, <1>9, <1>15 DEF StaysIn
  <2>1. IsIn(q)
    BY <1>3, <1>14 DEF IsIn
  <2>2. q \in DOMAIN copy
    BY <1>1, <1>15, <2>1 DEF AccessInv, StaysIn, copy
  <2> QED BY <1>7, <2>2
<1>18. NoFileYet' /\ OnTrail'
  BY <1>3, <1>5, <1>6, <1>9 DEF AccessInv, NoFileYet, OnTrail
<1> QED BY <1>3, <1>10, <1>13, <1>16, <1>17, <1>18, QuietAnswers DEF AccessInv

LEMMA AccessDamage ==
  ASSUME AccessInv, v5' = v5, NEW s \in Grant!Stores, Grant!Damage(s)
  PROVE  AccessInv'
<1>1. /\ v1[s].is = "rows" /\ v1' = [v1 EXCEPT ![s] = [is |-> "bad", rows |-> << >>]]
      /\ v13' = v13 \cup {s} /\ v9' = Grant!NoAnswer /\ UNCHANGED <<v3, v5, v6, v8, v10, v11, v12>>
  BY DEF Grant!Damage, Grant!Quiet, Grant!NoRows
<1>2. v1' \in [Grant!Stores -> [is : {"none", "bad", "rows"}, rows : RowMap]]
  BY <1>1, NoRowsYet DEF AccessInv, BookTyped
<1>3. IF s = v5 THEN v1'[v5].is = "bad" /\ Book' = << >> ELSE v1'[v5] = v1[v5] /\ Book' = Book
  BY <1>1 DEF AccessInv, BookTyped, Book
<1>4. BookTyped'
  BY <1>1, <1>2, <1>3, NoRowsYet DEF AccessInv, BookTyped, Book
<1>5. ASSUME NEW b \in Actors PROVE JobFits(b, v6[b])'
  <2>1. JobFits(b, v6[b])
    BY DEF AccessInv, JobsFit
  <2>2. Updates(b, v6[b])'
    BY <1>1, <2>1 DEF JobFits, Updates
  <2>3. Decides(v6[b])'
    BY <1>1, <2>1 DEF JobFits, Decides, Grant!Fits
  <2> QED BY <1>1, <2>1, <2>2, <2>3 DEF JobFits
<1>6. JobsFit'
  BY <1>1, <1>5 DEF AccessInv, JobsFit
<1>7. StaysOut' /\ StaysIn'
  BY <1>1, <1>3, NoRowsYet DEF AccessInv, StaysOut, StaysIn, IsOut, IsIn, Saved
<1>8. NoFileYet' /\ OnTrail'
  BY <1>1, <1>3 DEF AccessInv, NoFileYet, OnTrail
<1> QED BY <1>1, <1>4, <1>6, <1>7, <1>8, QuietAnswers DEF AccessInv

LEMMA AccessLapse ==
  ASSUME AccessInv, v5' = v5, NEW r, Grant!Lapse(r)
  PROVE  AccessInv'
<1>1. v9' = Grant!NoAnswer /\ UNCHANGED <<v1, v3, v5, v6, v8, v10, v11, v12, v13>>
  BY DEF Grant!Lapse, Grant!Quiet, Grant!Ghosts
<1> QED BY <1>1, QuietAnswers, AccessSame

LEMMA AccessNext == AccessInv /\ Grant!Next => AccessInv'
<1> SUFFICES ASSUME AccessInv, v5' = v5, Grant!Moves PROVE AccessInv'
  BY DEF Grant!Next
<1>1. ASSUME NEW a \in Actors, NEW sort \in Sorts, Grant!Issue(a, sort) PROVE AccessInv'
  BY <1>1, AccessIssue
<1>2. ASSUME NEW a \in Actors, NEW r \in Grant!Rows, Grant!Revoke(a, r) PROVE AccessInv'
  BY <1>2, AccessRevoke
<1>3. ASSUME NEW a \in Actors,
             \/ Grant!Enter(a) \/ Grant!EnterLate(a) \/ Grant!Load(a)
             \/ Grant!Save(a) \/ Grant!SaveFails(a) \/ Grant!Return(a)
      PROVE  AccessInv'
  BY <1>3, AccessEnter, AccessLoad, AccessSave, AccessStops, AccessReturn
<1>4. ASSUME NEW a \in Actors, NEW r, NEW verb, NEW honest,
             Grant!Connect(a) \/ Grant!Disconnect(a) \/ Grant!Instruct(a, r, verb, honest)
      PROVE  AccessInv'
  BY <1>4, AccessConnect, AccessInstruct
<1>5. ASSUME NEW a \in Actors, NEW verb \in {"read", "send"}, Grant!Ask(a, verb) PROVE AccessInv'
  BY <1>5, AccessAsk
<1>6. ASSUME NEW a \in Actors,
             Grant!Decide(a) \/ Grant!Attribute(a) \/ Grant!Fetch(a) \/ Grant!Kill(a)
      PROVE  AccessInv'
  BY <1>6, AccessDecide, AccessAttribute, AccessFetch, AccessStops
<1>7. ASSUME NEW r, Grant!Lapse(r) PROVE AccessInv'
  BY <1>7, AccessLapse
<1>8. ASSUME NEW s \in Grant!Stores, Grant!Damage(s) PROVE AccessInv'
  BY <1>8, AccessDamage
<1> QED BY <1>1, <1>2, <1>3, <1>4, <1>5, <1>6, <1>7, <1>8 DEF Grant!Moves

LEMMA AccessInit == Grant!Init => AccessInv
<1> SUFFICES ASSUME Grant!Init PROVE AccessInv
  OBVIOUS
<1>1. /\ v1 = [s \in Grant!Stores |-> [is |-> "none", rows |-> << >>]] /\ v3 = << >> /\ v5 \in Grant!Stores
      /\ v6 = [a \in Actors |-> Grant!Idle] /\ v9 = Grant!NoAnswer /\ v10 = {} /\ v11 = {}
  BY DEF Grant!Init, Grant!NoRows
<1>2. v1[v5] = [is |-> "none", rows |-> << >>] /\ Book = << >> /\ DOMAIN v3 = {} /\ Len(v3) = 0
  BY <1>1 DEF Book
<1>3. BookTyped
  BY <1>1, <1>2, NoRowsYet, AccessBounds DEF BookTyped
<1>4. \A a \in Actors : JobFits(a, v6[a]) /\ v6[a].at = "idle"
  BY <1>1, IdleFits
<1>5. JobsFit
  BY <1>1, <1>4 DEF JobsFit
<1>6. StaysOut /\ StaysIn /\ NoFileYet /\ OnTrail
  BY <1>1, <1>2, <1>4 DEF StaysOut, StaysIn, NoFileYet, OnTrail
<1>7. Answers
  BY <1>1 DEF Grant!NoAnswer, Answers, Grant!RevokedStaysOut, Grant!DenialIsTrue,
              Grant!TrustedUntilIssued, Grant!Attributed
<1> QED BY <1>3, <1>5, <1>6, <1>7 DEF AccessInv

LEMMA AccessRests ==
  ASSUME AccessInv, UNCHANGED <<v1, v3, v5, v6, v8, v9, v10, v11, v12, v13>>
  PROVE  AccessInv'
<1>1. Answers'
  BY DEF AccessInv, Answers, Grant!RevokedStaysOut, Grant!DenialIsTrue,
         Grant!TrustedUntilIssued, Grant!Attributed, Grant!StoreOf, Grant!Fits
<1> QED BY <1>1, AccessSame

LEMMA AccessPromises == AccessInv => Grant!AccessSound
<1> SUFFICES ASSUME AccessInv PROVE Grant!AccessSound
  OBVIOUS
<1>1. Grant!IssuedStays
  <2> SUFFICES ASSUME NEW r \in v10, v3[r].store \notin v12 \cup v13
               PROVE  r \in DOMAIN Grant!OnFile(v3[r].store)
    BY DEF Grant!IssuedStays, Grant!StoreOf
  <2>1. r \in DOMAIN v3 /\ v3[r].store = v5
    BY DEF AccessInv, BookTyped
  <2>2. r \in DOMAIN Book
    BY <2>1 DEF AccessInv, StaysIn, IsIn
  <2> QED BY <2>1, <2>2, FileIsBook DEF AccessInv
<1> QED BY <1>1 DEF AccessInv, Answers, Grant!AccessSound

-----------------------------------------------------------------------------
(***************************************************************************)
(* Governance: call is v4, parked v5, streak v6, total v7, history v9,     *)
(* unasked v10, jumped v11.                                                *)
(***************************************************************************)

ParkedRow == [key : Keys \cup {"review"}, status : {"pending", "answered", "settled"}]
CallAt == [at : {"idle"}] \cup [at : {"classify", "ask"}, key : Keys, before : Nat]
Outcome == {"denied", "allowed"}

TrustTyped ==
  /\ v4 \in [Calls -> CallAt] /\ v5 \in Seq(ParkedRow) /\ v9 \in Seq(Outcome)
  /\ v6 \in Nat /\ v7 \in Nat /\ v10 \in Nat

\* Of the decisions that were there when a call began, none that is pending blocks it.
CallWaited(c) ==
  v4[c].at # "idle" =>
    /\ v4[c].before <= Len(v5)
    /\ \A d \in 1 .. v4[c].before : v5[d].key = v4[c].key => v5[d].status # "pending"
CallsWaited == \A c \in Calls : CallWaited(c)

\* The counters are those of the outcomes: the streak is the run of denials they end with.
DeniedIn(n) == {j \in 1 .. n : v9[j] = "denied"}
LogFits ==
  /\ v6 <= Len(v9)
  /\ \A j \in 1 .. Len(v9) : j > Len(v9) - v6 => v9[j] = "denied"
  /\ v6 < Len(v9) => v9[Len(v9) - v6] # "denied"
  /\ v7 = Cardinality(DeniedIn(Len(v9)))

\* Every threshold that was passed brought a review, or found no room for one.
ReviewsOn(desk) == {d \in DOMAIN desk : desk[d].key = "review"}
ReviewsFit == Cardinality(Trust!Due) = Cardinality(ReviewsOn(v5)) + v10

TrustInv == TrustTyped /\ CallsWaited /\ LogFits /\ ReviewsFit /\ v11 = FALSE

LEMMA TrustBounds == StreakLimit \in Nat \ {0} /\ TotalLimit \in Nat \ {0} /\ "review" \notin Keys
  BY PermissionsAssumption DEF Trust!GovernanceAssumption, Trust!Review

LEMMA TrustCounts == \A S : Trust!Cardinality(S) = Cardinality(S)
  BY Zenon DEF Trust!Cardinality, Cardinality

\* No decision is lost, or pending again.
DeskKept ==
  /\ v5' \in Seq(ParkedRow) /\ Len(v5) <= Len(v5')
  /\ \A d \in 1 .. Len(v5) : v5'[d].key = v5[d].key
                             /\ (v5'[d].status = "pending" => v5[d].status = "pending")

LEMMA OneMoreParked ==
  ASSUME NEW desk \in Seq(ParkedRow), NEW row \in ParkedRow, NEW next, next = Append(desk, row)
  PROVE  /\ next \in Seq(ParkedRow) /\ Len(next) = Len(desk) + 1
         /\ \A d \in 1 .. Len(desk) : next[d] = desk[d]
         /\ next[Len(desk) + 1] = row
         /\ next # desk /\ Len(desk) \in Nat
         /\ DOMAIN next = DOMAIN desk \cup {Len(desk) + 1} /\ DOMAIN desk = 1 .. Len(desk)
<1>1. /\ next \in Seq(ParkedRow) /\ Len(next) = Len(desk) + 1
      /\ (\A d \in 1 .. Len(desk) : next[d] = desk[d]) /\ next[Len(desk) + 1] = row
  BY AppendProperties
<1>2. Len(desk) \in Nat /\ DOMAIN desk = 1 .. Len(desk)
  OBVIOUS
<1>3. DOMAIN next = 1 .. Len(next)
  BY <1>1
<1>4. next # desk
  <2>1. \A a \in Nat : \A b : b = a + 1 => b # a
    OBVIOUS
  <2>2. Len(next) # Len(desk)
    BY <1>1, <1>2, <2>1, Zenon
  <2> QED BY <2>2, Zenon
<1>5. DOMAIN next = DOMAIN desk \cup {Len(desk) + 1}
  BY <1>1, <1>2, <1>3
<1> QED BY <1>1, <1>2, <1>4, <1>5

\* A row that is parked is one.
LEMMA ParkedIs ==
  ASSUME NEW key \in Keys \cup {"review"}
  PROVE  /\ [key |-> key, status |-> "pending"] \in ParkedRow
         /\ [key |-> key, status |-> "pending"].key = key
  BY DEF ParkedRow

\* A call that goes on waits as it did; one that begins to wait was not blocked.
LEMMA CallsKept ==
  ASSUME TrustTyped, CallsWaited, DeskKept, NEW c \in Calls,
         \/ v4' = v4
         \/ v4' = [v4 EXCEPT ![c] = Trust!NoCall]
         \/ \E at \in {"classify", "ask"}, key \in Keys :
              /\ v4' = [v4 EXCEPT ![c] = Trust!Waiting(at, key)] /\ v5' = v5
              /\ \A d \in 1 .. Len(v5) : v5[d].key = key => v5[d].status # "pending"
  PROVE  v4' \in [Calls -> CallAt] /\ CallsWaited'
<1>0. Len(v5) \in Nat /\ Len(v5') \in Nat
  BY DEF TrustTyped, DeskKept
<1>1. ASSUME NEW b \in Calls, v4'[b] = v4[b] PROVE CallWaited(b)'
  <2>1. CASE v4[b].at = "idle"
    BY <1>1, <2>1 DEF CallWaited
  <2>2. CASE v4[b].at # "idle"
    <3>1. v4[b] \in CallAt
      BY DEF TrustTyped
    <3>2. v4[b].before \in Nat
      BY <2>2, <3>1 DEF CallAt
    <3>3. /\ v4[b].before <= Len(v5)
          /\ \A d \in 1 .. v4[b].before : v5[d].key = v4[b].key => v5[d].status # "pending"
      BY <2>2 DEF CallsWaited, CallWaited
    <3>4. v4[b].before <= Len(v5')
      BY <1>0, <3>2, <3>3 DEF DeskKept
    <3>5. \A d \in 1 .. v4[b].before : d \in 1 .. Len(v5)
      BY <1>0, <3>2, <3>3
    <3>6. \A d \in 1 .. v4[b].before : v5'[d].key = v4[b].key => v5'[d].status # "pending"
      BY <3>3, <3>5 DEF DeskKept
    <3> QED BY <1>1, <3>4, <3>6 DEF CallWaited
  <2> QED BY <2>1, <2>2
<1>2. CASE v4' = v4
  BY <1>1, <1>2 DEF TrustTyped, CallsWaited
<1>3. CASE v4' = [v4 EXCEPT ![c] = Trust!NoCall]
  <2>1. Trust!NoCall \in CallAt /\ Trust!NoCall.at = "idle"
    BY DEF Trust!NoCall, CallAt
  <2>2. v4' \in [Calls -> CallAt] /\ v4'[c] = Trust!NoCall /\ \A b \in Calls : b # c => v4'[b] = v4[b]
    BY <1>3, <2>1 DEF TrustTyped
  <2>3. CallWaited(c)'
    BY <2>1, <2>2 DEF CallWaited
  <2> QED BY <1>1, <2>2, <2>3 DEF CallsWaited
<1>4. ASSUME NEW at \in {"classify", "ask"}, NEW key \in Keys,
             v4' = [v4 EXCEPT ![c] = Trust!Waiting(at, key)], v5' = v5,
             \A d \in 1 .. Len(v5) : v5[d].key = key => v5[d].status # "pending"
      PROVE  v4' \in [Calls -> CallAt] /\ CallsWaited'
  <2> DEFINE w == Trust!Waiting(at, key)
  <2>1. w \in CallAt /\ w.key = key /\ w.before = Len(v5) /\ w.at # "idle"
    BY <1>0 DEF Trust!Waiting, CallAt
  <2> HIDE DEF w
  <2>2. v4' \in [Calls -> CallAt] /\ v4'[c] = w /\ \A b \in Calls : b # c => v4'[b] = v4[b]
    BY <1>4, <2>1 DEF TrustTyped, w
  <2>3. CallWaited(c)'
    BY <1>0, <1>4, <2>1, <2>2 DEF CallWaited
  <2> QED BY <1>1, <2>2, <2>3 DEF CallsWaited
<1> QED BY <1>2, <1>3, <1>4

\* What was due stays due: it depends on the outcomes until then.
LEMMA DueKept ==
  ASSUME TrustTyped, NEW outcome \in Outcome, v9' = Append(v9, outcome)
  PROVE  /\ v9' \in Seq(Outcome) /\ Len(v9') = Len(v9) + 1 /\ Len(v9) \in Nat
         /\ DOMAIN v9 = 1 .. Len(v9) /\ DOMAIN v9' = 1 .. Len(v9) + 1
         /\ (\A j \in 1 .. Len(v9) : v9'[j] = v9[j]) /\ v9'[Len(v9) + 1] = outcome
         /\ \A i \in DOMAIN v9 : i \in Trust!Due' <=> i \in Trust!Due
<1>1. /\ v9' \in Seq(Outcome) /\ Len(v9') = Len(v9) + 1 /\ Len(v9) \in Nat
      /\ DOMAIN v9 = 1 .. Len(v9)
      /\ (\A j \in 1 .. Len(v9) : v9'[j] = v9[j]) /\ v9'[Len(v9) + 1] = outcome
  BY AppendProperties DEF TrustTyped
<1>2. DOMAIN v9' = 1 .. Len(v9) + 1
  BY <1>1
<1>3. ASSUME NEW i \in DOMAIN v9 PROVE i \in Trust!Due' <=> i \in Trust!Due
  <2>1. i \in DOMAIN v9' /\ v9'[i] = v9[i]
    BY <1>1, <1>2
  <2>2. \A j \in 1 .. i : v9'[j] = v9[j]
    BY <1>1
  <2>3. Trust!InARow(i)' <=> Trust!InARow(i)
    <3>1. ASSUME NEW from \in 1 .. i
          PROVE  /\ (\A j \in from .. i : v9'[j] = "denied") <=> (\A j \in from .. i : v9[j] = "denied")
                 /\ (from > 1 => v9'[from - 1] # "denied") <=> (from > 1 => v9[from - 1] # "denied")
      <4>1. \A j \in from .. i : v9'[j] = v9[j]
        BY <1>1, <2>2
      <4>2. from > 1 => v9'[from - 1] = v9[from - 1]
        BY <1>1, <2>2
      <4> QED BY <4>1, <4>2
    <3> QED BY <3>1 DEF Trust!InARow
  <2>4. Trust!AllInAll(i)' <=> Trust!AllInAll(i)
    <3>1. {j \in 1 .. i : v9'[j] = "denied"} = {j \in 1 .. i : v9[j] = "denied"}
      BY <2>2
    <3> QED BY <3>1 DEF Trust!AllInAll
  <2> QED BY <2>1, <2>3, <2>4 DEF Trust!Due
<1> QED BY <1>1, <1>2, <1>3

LEMMA DueFinite ==
  ASSUME TrustTyped
  PROVE  /\ IsFiniteSet(Trust!Due) /\ Cardinality(Trust!Due) \in Nat
         /\ IsFiniteSet(ReviewsOn(v5)) /\ Cardinality(ReviewsOn(v5)) \in Nat
         /\ \A n \in 0 .. Len(v9) : IsFiniteSet(DeniedIn(n)) /\ Cardinality(DeniedIn(n)) \in Nat
<1>1. Len(v9) \in Nat /\ DOMAIN v9 = 1 .. Len(v9) /\ Len(v5) \in Nat /\ DOMAIN v5 = 1 .. Len(v5)
  BY DEF TrustTyped
<1>2. \A n \in Nat : IsFiniteSet(1 .. n)
  BY FS_Interval
<1>3. IsFiniteSet(Trust!Due)
  <2>1. Trust!Due \in SUBSET (1 .. Len(v9))
    BY <1>1 DEF Trust!Due
  <2> QED BY <1>1, <1>2, <2>1, FS_Subset
<1>4. IsFiniteSet(ReviewsOn(v5))
  <2>1. ReviewsOn(v5) \in SUBSET (1 .. Len(v5))
    BY <1>1 DEF ReviewsOn
  <2> QED BY <1>1, <1>2, <2>1, FS_Subset
<1>5. ASSUME NEW n \in 0 .. Len(v9) PROVE IsFiniteSet(DeniedIn(n))
  <2>1. DeniedIn(n) \in SUBSET (1 .. n)
    BY DEF DeniedIn
  <2>2. IsFiniteSet(1 .. n)
    BY <1>1, <1>2
  <2> QED BY <2>1, <2>2, FS_Subset
<1> QED BY <1>3, <1>4, <1>5, FS_CardinalityType

\* An outcome that is no denial brings nothing, and ends the streak.
LEMMA LogAllowed ==
  ASSUME TrustTyped, LogFits, v9' = Append(v9, "allowed"), v6' = 0, v7' = v7
  PROVE  LogFits' /\ Trust!Due' = Trust!Due /\ v9' \in Seq(Outcome)
<1>1. /\ v9' \in Seq(Outcome) /\ Len(v9') = Len(v9) + 1 /\ Len(v9) \in Nat
      /\ DOMAIN v9 = 1 .. Len(v9) /\ DOMAIN v9' = 1 .. Len(v9) + 1
      /\ (\A j \in 1 .. Len(v9) : v9'[j] = v9[j]) /\ v9'[Len(v9) + 1] = "allowed"
      /\ \A i \in DOMAIN v9 : i \in Trust!Due' <=> i \in Trust!Due
  BY DueKept DEF Outcome
<1>2. Trust!Due' = Trust!Due
  <2>1. \A i \in Trust!Due' : i \in DOMAIN v9' /\ v9'[i] = "denied"
    BY DEF Trust!Due
  <2>2. \A i \in Trust!Due' : i \in DOMAIN v9
    BY <1>1, <2>1
  <2>3. \A i \in Trust!Due : i \in DOMAIN v9
    BY DEF Trust!Due
  <2> QED BY <1>1, <2>2, <2>3
<1>3. DeniedIn(Len(v9))' = DeniedIn(Len(v9))
  BY <1>1 DEF DeniedIn
<1> QED BY <1>1, <1>2, <1>3 DEF LogFits

\* A denial brings a review just when it completes a streak, or the number of all.
LEMMA LogDenied ==
  ASSUME TrustTyped, LogFits, v9' = Append(v9, "denied"), v6' = v6 + 1, v7' = v7 + 1,
         NEW n, n = Len(v9) + 1
  PROVE  /\ LogFits' /\ v9' \in Seq(Outcome) /\ n \notin Trust!Due
         /\ Trust!Due' = IF v6 + 1 = StreakLimit \/ v7 + 1 = TotalLimit
                         THEN Trust!Due \cup {n} ELSE Trust!Due
<1>1. /\ v9' \in Seq(Outcome) /\ Len(v9') = n /\ Len(v9) \in Nat
      /\ DOMAIN v9 = 1 .. Len(v9) /\ DOMAIN v9' = 1 .. n
      /\ (\A j \in 1 .. Len(v9) : v9'[j] = v9[j]) /\ v9'[n] = "denied"
      /\ \A i \in DOMAIN v9 : i \in Trust!Due' <=> i \in Trust!Due
  BY DueKept DEF Outcome
<1>2. v6 \in Nat /\ v7 \in Nat /\ v6 <= Len(v9)
  BY DEF TrustTyped, LogFits
<1>3. Cardinality({j \in 1 .. n : v9'[j] = "denied"}) = v7 + 1
  <2>1. {j \in 1 .. n : v9'[j] = "denied"} = DeniedIn(Len(v9)) \cup {n} /\ n \notin DeniedIn(Len(v9))
    BY <1>1 DEF DeniedIn
  <2>2. IsFiniteSet(DeniedIn(Len(v9)))
    BY <1>1, DueFinite
  <2> QED BY <2>1, <2>2, FS_AddElement DEF LogFits
<1>4. LogFits'
  <2>1. Cardinality(DeniedIn(Len(v9)))' = v7 + 1
    BY <1>1, <1>3 DEF DeniedIn
  <2>2. \A j \in 1 .. n : j > n - (v6 + 1) => v9'[j] = "denied"
    BY <1>1, <1>2 DEF LogFits
  <2>3. v6 + 1 < n => v9'[n - (v6 + 1)] # "denied"
    <3>1. n - (v6 + 1) = Len(v9) - v6
      BY <1>1, <1>2
    <3>2. v6 + 1 < n => Len(v9) - v6 \in 1 .. Len(v9)
      BY <1>1, <1>2
    <3> QED BY <1>1, <1>2, <3>1, <3>2 DEF LogFits
  <2> QED BY <1>1, <1>2, <2>1, <2>2, <2>3 DEF LogFits
<1>5. Trust!AllInAll(n)' <=> v7 + 1 = TotalLimit
  BY <1>3, TrustCounts DEF Trust!AllInAll
<1>6. Trust!InARow(n)' <=> v6 + 1 = StreakLimit
  <2>1. Trust!InARow(n)' <=>
          \E from \in 1 .. n : /\ n - from + 1 = StreakLimit
                               /\ \A j \in from .. n : v9'[j] = "denied"
                               /\ from > 1 => v9'[from - 1] # "denied"
    BY <1>1 DEF Trust!InARow
  <2>2. /\ \A j \in 1 .. n : j > n - (v6 + 1) => v9'[j] = "denied"
        /\ v6 + 1 < n => v9'[n - (v6 + 1)] # "denied"
    BY <1>1, <1>4 DEF LogFits
  <2>3. ASSUME v6 + 1 = StreakLimit PROVE Trust!InARow(n)'
    <3> DEFINE from == n - v6
    <3>1. from \in 1 .. n /\ n - from + 1 = StreakLimit /\ from - 1 = n - (v6 + 1)
      BY <1>1, <1>2, <2>3
    <3>2. from > 1 => v6 + 1 < n
      BY <1>1, <1>2
    <3>3. \A j \in from .. n : j \in 1 .. n /\ j > n - (v6 + 1)
      BY <1>1, <1>2
    <3> HIDE DEF from
    <3> QED BY <2>1, <2>2, <3>1, <3>2, <3>3
  <2>4. ASSUME Trust!InARow(n)' PROVE v6 + 1 = StreakLimit
    <3>1. PICK from \in 1 .. n : /\ n - from + 1 = StreakLimit
                                 /\ \A j \in from .. n : v9'[j] = "denied"
                                 /\ from > 1 => v9'[from - 1] # "denied"
      BY <2>1, <2>4
    <3>2. ~(v6 + 1 < StreakLimit)
      <4> SUFFICES ASSUME v6 + 1 < StreakLimit PROVE FALSE
        OBVIOUS
      <4>1. v6 + 1 < n /\ n - (v6 + 1) \in from .. n
        BY <1>1, <1>2, <3>1
      <4> QED BY <2>2, <3>1, <4>1
    <3>3. ~(v6 + 1 > StreakLimit)
      <4> SUFFICES ASSUME v6 + 1 > StreakLimit PROVE FALSE
        OBVIOUS
      <4>1. from > 1 /\ from - 1 \in 1 .. n /\ from - 1 > n - (v6 + 1)
        BY <1>1, <1>2, <3>1
      <4> QED BY <2>2, <3>1, <4>1
    <3>4. StreakLimit \in Nat
      BY TrustBounds
    <3> QED BY <1>2, <3>2, <3>3, <3>4
  <2> QED BY <2>3, <2>4
<1>7. n \notin Trust!Due
  <2>1. \A i \in Trust!Due : i \in DOMAIN v9
    BY DEF Trust!Due
  <2> QED BY <1>1, <2>1
<1>8. Trust!Due' = IF v6 + 1 = StreakLimit \/ v7 + 1 = TotalLimit
                   THEN Trust!Due \cup {n} ELSE Trust!Due
  <2>1. n \in Trust!Due' <=> v6 + 1 = StreakLimit \/ v7 + 1 = TotalLimit
    <3>1. n \in Trust!Due' <=> Trust!InARow(n)' \/ Trust!AllInAll(n)'
      BY <1>1 DEF Trust!Due
    <3> QED BY <1>5, <1>6, <3>1
  <2>2. \A i \in Trust!Due' : i \in DOMAIN v9 \/ i = n
    <3>1. \A i \in Trust!Due' : i \in 1 .. n
      BY <1>1 DEF Trust!Due
    <3> QED BY <1>1, <3>1
  <2>3. \A i \in Trust!Due : i \in DOMAIN v9
    BY DEF Trust!Due
  <2>4. CASE v6 + 1 = StreakLimit \/ v7 + 1 = TotalLimit
    <3>1. \A i : i \in Trust!Due' <=> i \in Trust!Due \cup {n}
      BY <1>1, <2>1, <2>2, <2>3, <2>4
    <3> QED BY <2>4, <3>1
  <2>5. CASE ~(v6 + 1 = StreakLimit \/ v7 + 1 = TotalLimit)
    <3>1. \A i : i \in Trust!Due' <=> i \in Trust!Due
      BY <1>1, <2>1, <2>2, <2>3, <2>5
    <3> QED BY <2>5, <3>1
  <2> QED BY <2>4, <2>5
<1> QED BY <1>1, <1>4, <1>7, <1>8

\* What a desk holds of reviews grows by what is parked for one.
LEMMA MoreReviews ==
  ASSUME NEW desk \in Seq(ParkedRow), NEW row \in ParkedRow
  PROVE  /\ Append(desk, row) \in Seq(ParkedRow) /\ Len(Append(desk, row)) = Len(desk) + 1
         /\ Len(desk) \in Nat /\ (\A d \in 1 .. Len(desk) : Append(desk, row)[d] = desk[d])
         /\ Append(desk, row) # desk /\ Len(desk) + 1 \notin ReviewsOn(desk)
         /\ row.key = "review" => ReviewsOn(Append(desk, row)) = ReviewsOn(desk) \cup {Len(desk) + 1}
         /\ row.key # "review" => ReviewsOn(Append(desk, row)) = ReviewsOn(desk)
<1>0. PICK next : next = Append(desk, row)
  OBVIOUS
<1>1. /\ next \in Seq(ParkedRow) /\ Len(next) = Len(desk) + 1
      /\ \A d \in 1 .. Len(desk) : next[d] = desk[d]
      /\ next[Len(desk) + 1] = row
      /\ next # desk /\ Len(desk) \in Nat
      /\ DOMAIN next = DOMAIN desk \cup {Len(desk) + 1} /\ DOMAIN desk = 1 .. Len(desk)
  BY <1>0, OneMoreParked
<1>2. Len(desk) + 1 \notin DOMAIN desk
  <2>1. \A a \in Nat : a + 1 \notin 1 .. a
    OBVIOUS
  <2> QED BY <1>1, <2>1, Zenon
<1>3. /\ row.key = "review" => ReviewsOn(next) = ReviewsOn(desk) \cup {Len(desk) + 1}
      /\ row.key # "review" => ReviewsOn(next) = ReviewsOn(desk)
  <2>1. \A d : d \in ReviewsOn(next) <=> d \in ReviewsOn(desk) \/ (d = Len(desk) + 1 /\ row.key = "review")
    BY <1>1, <1>2 DEF ReviewsOn
  <2>2. CASE row.key = "review"
    <3>1. \A d : d \in ReviewsOn(next) <=> d \in ReviewsOn(desk) \cup {Len(desk) + 1}
      BY <2>1, <2>2
    <3> QED BY <2>2, <3>1
  <2>3. CASE row.key # "review"
    <3>1. \A d : d \in ReviewsOn(next) <=> d \in ReviewsOn(desk)
      BY <2>1, <2>3
    <3> QED BY <2>3, <3>1 DEF ReviewsOn
  <2> QED BY <2>2, <2>3
<1> QED BY <1>0, <1>1, <1>2, <1>3 DEF ReviewsOn

\* A denial, after the queue was told of what it blocks or not.
LEMMA TrustDenied ==
  ASSUME TrustInv, NEW c \in Calls, NEW desk, Trust!Denied(c, desk),
         desk = v5 \/ \E key \in Keys : desk = Append(v5, [key |-> key, status |-> "pending"])
  PROVE  TrustInv'
<1> DEFINE due == v6 + 1 = StreakLimit \/ v7 + 1 = TotalLimit
           asked == IF due THEN Trust!Parked(desk, "review") ELSE desk
<1>1. /\ v6' = v6 + 1 /\ v7' = v7 + 1 /\ v5' = asked
      /\ v10' = IF due /\ asked = desk THEN v10 + 1 ELSE v10
      /\ v9' = Append(v9, "denied") /\ v4' = [v4 EXCEPT ![c] = Trust!NoCall] /\ v11' = v11
  BY DEF Trust!Denied, Trust!Settled, Trust!Review
<1>2. v5 \in Seq(ParkedRow) /\ Len(v5) \in Nat /\ v6 \in Nat /\ v7 \in Nat /\ v10 \in Nat
  BY DEF TrustInv, TrustTyped
<1>3. /\ desk \in Seq(ParkedRow) /\ Len(v5) <= Len(desk) /\ Len(desk) \in Nat
      /\ (\A d \in 1 .. Len(v5) : desk[d] = v5[d]) /\ ReviewsOn(desk) = ReviewsOn(v5)
  <2>1. CASE desk = v5
    BY <1>2, <2>1
  <2>2. ASSUME NEW key \in Keys, desk = Append(v5, [key |-> key, status |-> "pending"])
        PROVE  /\ desk \in Seq(ParkedRow) /\ Len(v5) <= Len(desk) /\ Len(desk) \in Nat
               /\ (\A d \in 1 .. Len(v5) : desk[d] = v5[d]) /\ ReviewsOn(desk) = ReviewsOn(v5)
    <3> DEFINE row == [key |-> key, status |-> "pending"]
    <3>1. row.key # "review" /\ row \in ParkedRow
      BY TrustBounds, ParkedIs
    <3> HIDE DEF asked, due, row
    <3>0. desk = Append(v5, row)
      BY <2>2 DEF row
    <3>2. /\ desk \in Seq(ParkedRow) /\ Len(desk) = Len(v5) + 1
          /\ (\A d \in 1 .. Len(v5) : desk[d] = v5[d])
          /\ (row.key # "review" => ReviewsOn(desk) = ReviewsOn(v5))
      BY <1>2, <3>0, <3>1, MoreReviews
    <3> QED BY <1>2, <3>1, <3>2
  <2> QED BY <2>1, <2>2
<1>4. /\ asked \in Seq(ParkedRow) /\ Len(desk) <= Len(asked) /\ Len(asked) \in Nat
      /\ \A d \in 1 .. Len(desk) : asked[d] = desk[d]
      /\ IF asked = desk THEN ReviewsOn(asked) = ReviewsOn(v5)
         ELSE due /\ ReviewsOn(asked) = ReviewsOn(v5) \cup {Len(desk) + 1}
              /\ Len(desk) + 1 \notin ReviewsOn(v5)
  <2>1. CASE asked = desk
    BY <1>3, <2>1
  <2>2. CASE asked # desk
    <3> DEFINE row == [key |-> "review", status |-> "pending"]
    <3>1. due /\ asked = Append(desk, row)
      BY <2>2 DEF Trust!Parked
    <3>3. row \in ParkedRow /\ row.key = "review"
      BY ParkedIs
    <3> HIDE DEF asked, due, row
    <3>2. /\ asked \in Seq(ParkedRow) /\ Len(asked) = Len(desk) + 1
          /\ \A d \in 1 .. Len(desk) : asked[d] = desk[d]
          /\ (row.key = "review" => ReviewsOn(asked) = ReviewsOn(desk) \cup {Len(desk) + 1})
          /\ Len(desk) + 1 \notin ReviewsOn(desk)
      BY <1>3, <3>1, <3>3, MoreReviews
    <3> QED BY <1>3, <2>2, <3>1, <3>2, <3>3
  <2> QED BY <2>1, <2>2
<1> HIDE DEF asked
<1>5. DeskKept
  <2>1. \A d \in 1 .. Len(v5) : d \in 1 .. Len(desk)
    BY <1>2, <1>3
  <2>2. \A d \in 1 .. Len(v5) : asked[d] = v5[d]
    BY <1>3, <1>4, <2>1
  <2>3. Len(v5) <= Len(asked)
    BY <1>2, <1>3, <1>4
  <2> QED BY <1>1, <1>4, <2>2, <2>3 DEF DeskKept
<1>6. v4' \in [Calls -> CallAt] /\ CallsWaited'
  BY <1>1, <1>5, CallsKept DEF TrustInv
<1>7. PICK n : n = Len(v9) + 1
  OBVIOUS
<1>8. /\ LogFits' /\ v9' \in Seq(Outcome) /\ n \notin Trust!Due
      /\ Trust!Due' = IF due THEN Trust!Due \cup {n} ELSE Trust!Due
  BY <1>1, <1>7, LogDenied DEF TrustInv
<1>9. v10' \in Nat
  <2>1. v10 + 1 \in Nat
    BY <1>2
  <2> QED BY <1>1, <1>2, <2>1
<1>10. TrustTyped'
  <2>1. v6' \in Nat /\ v7' \in Nat
    BY <1>1, <1>2
  <2> QED BY <1>1, <1>4, <1>6, <1>8, <1>9, <2>1 DEF TrustTyped
<1>11. ReviewsFit'
  <2>1. /\ IsFiniteSet(Trust!Due) /\ Cardinality(Trust!Due) \in Nat
        /\ IsFiniteSet(ReviewsOn(v5)) /\ Cardinality(ReviewsOn(v5)) \in Nat
    BY DueFinite DEF TrustInv
  <2>2. Cardinality(Trust!Due') = IF due THEN Cardinality(Trust!Due) + 1 ELSE Cardinality(Trust!Due)
    BY <1>8, <2>1, FS_AddElement
  <2>3. Cardinality(ReviewsOn(v5')) =
          IF asked = desk THEN Cardinality(ReviewsOn(v5)) ELSE Cardinality(ReviewsOn(v5)) + 1
    BY <1>1, <1>4, <2>1, FS_AddElement
  <2>4. Cardinality(Trust!Due) = Cardinality(ReviewsOn(v5)) + v10
    BY DEF TrustInv, ReviewsFit
  <2>5. asked # desk => due
    BY <1>4
  <2>6. v10' = IF due /\ asked = desk THEN v10 + 1 ELSE v10
    BY <1>1
  <2> HIDE DEF due
  <2>7. Cardinality(Trust!Due') = Cardinality(ReviewsOn(v5')) + v10'
    BY <1>2, <2>1, <2>2, <2>3, <2>4, <2>5, <2>6
  <2> QED BY <2>7 DEF ReviewsFit
<1> QED BY <1>1, <1>6, <1>8, <1>10, <1>11 DEF TrustInv

\* An outcome that is none for the queue.
LEMMA TrustPasses ==
  ASSUME TrustInv, NEW c \in Calls, v5' = v5, v11' = v11,
         \/ v4' = [v4 EXCEPT ![c] = Trust!NoCall]
         \/ \E at \in {"classify", "ask"}, key \in Keys :
              /\ v4' = [v4 EXCEPT ![c] = Trust!Waiting(at, key)]
              /\ \A d \in 1 .. Len(v5) : v5[d].key = key => v5[d].status # "pending",
         Trust!Allowed \/ Trust!Unlogged
  PROVE  TrustInv'
<1>1. DeskKept
  BY DEF DeskKept, TrustInv, TrustTyped
<1>2. v4' \in [Calls -> CallAt] /\ CallsWaited'
  BY <1>1, CallsKept DEF TrustInv
<1>3. CASE Trust!Allowed
  <2>1. v9' = Append(v9, "allowed") /\ v6' = 0 /\ v7' = v7 /\ v10' = v10
    BY <1>3 DEF Trust!Allowed
  <2>2. LogFits' /\ Trust!Due' = Trust!Due /\ v9' \in Seq(Outcome)
    BY <2>1, LogAllowed DEF TrustInv
  <2>3. ReviewsFit'
    BY <2>1, <2>2 DEF TrustInv, ReviewsFit
  <2> QED BY <1>2, <2>1, <2>2, <2>3 DEF TrustInv, TrustTyped
<1>4. CASE Trust!Unlogged
  <2>1. UNCHANGED <<v5, v6, v7, v9, v10>>
    BY <1>4 DEF Trust!Unlogged
  <2>2. LogFits'
    BY <2>1 DEF TrustInv, LogFits, DeniedIn
  <2>3. Trust!Due' = Trust!Due
    BY <2>1 DEF Trust!Due, Trust!InARow, Trust!AllInAll
  <2>4. ReviewsFit'
    BY <2>1, <2>3 DEF TrustInv, ReviewsFit
  <2> QED BY <1>2, <2>1, <2>2, <2>4 DEF TrustInv, TrustTyped
<1> QED BY <1>3, <1>4

\* A call that waited, or was not blocked, jumps nothing.
LEMMA NothingJumped ==
  ASSUME TrustInv, NEW c, NEW key, NEW before \in Nat, before <= Len(v5), Trust!Runs(c, key, before),
         \A d \in 1 .. before : v5[d].key = key => v5[d].status # "pending"
  PROVE  v11' = v11 /\ v4' = [v4 EXCEPT ![c] = Trust!NoCall]
<1>1. Len(v5) \in Nat /\ DOMAIN v5 = 1 .. Len(v5)
  BY DEF TrustInv, TrustTyped
<1>2. ~\E d \in Trust!Pending : v5[d].key = key /\ d <= before
  BY <1>1 DEF Trust!Pending
<1>3. v11' = (v11 \/ \E d \in Trust!Pending : v5[d].key = key /\ d <= before)
  BY DEF Trust!Runs
<1> QED BY <1>2, <1>3 DEF Trust!Runs, Trust!Settled, TrustInv

LEMMA TrustGovern ==
  ASSUME TrustInv, NEW c \in Calls, NEW kind, NEW place, NEW key \in Keys, NEW safe,
         Trust!Govern(c, kind, place, key, safe)
  PROVE  TrustInv'
<1>1. Len(v5) \in Nat /\ DOMAIN v5 = 1 .. Len(v5)
  BY DEF TrustInv, TrustTyped
<1>2. CASE Trust!Settled(c) /\ (Trust!Allowed \/ Trust!Unlogged) /\ UNCHANGED v11
  <2>1. v4' = [v4 EXCEPT ![c] = Trust!NoCall] /\ v5' = v5 /\ v11' = v11
    BY <1>2 DEF Trust!Settled, Trust!Allowed, Trust!Unlogged
  <2> QED BY <1>2, <2>1, TrustPasses
<1>3. ASSUME Trust!Blocking(key) = {}
      PROVE  \A d \in 1 .. Len(v5) : v5[d].key = key => v5[d].status # "pending"
  BY <1>1, <1>3 DEF Trust!Blocking, Trust!Pending
<1>4. CASE Trust!Blocking(key) = {} /\ Trust!Runs(c, key, Len(v5)) /\ Trust!Allowed
  <2>1. v11' = v11 /\ v4' = [v4 EXCEPT ![c] = Trust!NoCall] /\ v5' = v5
    BY <1>1, <1>3, <1>4, NothingJumped DEF Trust!Allowed
  <2> QED BY <1>4, <2>1, TrustPasses
<1>5. CASE Trust!Denied(c, v5)
  BY <1>5, TrustDenied
<1>6. ASSUME Trust!Blocking(key) = {}, Trust!Unlogged, UNCHANGED v11, NEW at \in {"classify", "ask"},
             v4' = [v4 EXCEPT ![c] = Trust!Waiting(at, key)]
      PROVE  TrustInv'
  <2>1. v5' = v5
    BY <1>6 DEF Trust!Unlogged
  <2> QED BY <1>3, <1>6, <2>1, TrustPasses
<1>7. \/ Trust!Settled(c) /\ (Trust!Allowed \/ Trust!Unlogged) /\ UNCHANGED v11
      \/ Trust!Blocking(key) = {} /\ Trust!Runs(c, key, Len(v5)) /\ Trust!Allowed
      \/ Trust!Denied(c, v5)
      \/ /\ Trust!Blocking(key) = {} /\ Trust!Unlogged /\ UNCHANGED v11
         /\ \E at \in {"classify", "ask"} : v4' = [v4 EXCEPT ![c] = Trust!Waiting(at, key)]
  BY DEF Trust!Govern
<1> QED BY <1>2, <1>4, <1>5, <1>6, <1>7

\* What a call that waits may do when it is answered.
LEMMA CallMayRun ==
  ASSUME TrustInv, NEW c \in Calls, v4[c].at \in {"classify", "ask"}
  PROVE  /\ v4[c].key \in Keys /\ v4[c].before \in Nat /\ v4[c].before <= Len(v5)
         /\ \A d \in 1 .. v4[c].before : v5[d].key = v4[c].key => v5[d].status # "pending"
<1>1. v4[c] \in CallAt /\ v4[c].at # "idle"
  BY DEF TrustInv, TrustTyped
<1>2. v4[c].key \in Keys /\ v4[c].before \in Nat
  BY <1>1 DEF CallAt
<1> QED BY <1>1, <1>2 DEF TrustInv, CallsWaited, CallWaited

LEMMA TrustClassify ==
  ASSUME TrustInv, NEW c \in Calls, NEW yes, Trust!Classify(c, yes)
  PROVE  TrustInv'
<1>1. /\ v4[c].key \in Keys /\ v4[c].before \in Nat /\ v4[c].before <= Len(v5)
      /\ \A d \in 1 .. v4[c].before : v5[d].key = v4[c].key => v5[d].status # "pending"
  BY CallMayRun DEF Trust!Classify
<1>2. CASE Trust!Runs(c, v4[c].key, v4[c].before) /\ Trust!Allowed
  <2>1. v11' = v11 /\ v4' = [v4 EXCEPT ![c] = Trust!NoCall] /\ v5' = v5
    BY <1>1, <1>2, NothingJumped DEF Trust!Allowed
  <2> QED BY <1>2, <2>1, TrustPasses
<1>3. CASE Trust!Denied(c, Trust!Parked(v5, v4[c].key))
  <2> DEFINE desk == Trust!Parked(v5, v4[c].key)
  <2>1. desk = v5 \/ \E key \in Keys : desk = Append(v5, [key |-> key, status |-> "pending"])
    BY <1>1 DEF Trust!Parked
  <2> HIDE DEF desk
  <2>2. Trust!Denied(c, desk)
    BY <1>3 DEF desk
  <2> QED BY <2>1, <2>2, TrustDenied
<1> QED BY <1>2, <1>3 DEF Trust!Classify

LEMMA TrustApprove ==
  ASSUME TrustInv, NEW c \in Calls, NEW yes, Trust!Approve(c, yes)
  PROVE  TrustInv'
<1>1. /\ v4[c].key \in Keys /\ v4[c].before \in Nat /\ v4[c].before <= Len(v5)
      /\ \A d \in 1 .. v4[c].before : v5[d].key = v4[c].key => v5[d].status # "pending"
  BY CallMayRun DEF Trust!Approve
<1>2. Trust!Unlogged /\ v5' = v5
  BY DEF Trust!Approve, Trust!Unlogged
<1>3. CASE Trust!Runs(c, v4[c].key, v4[c].before)
  <2>1. v11' = v11 /\ v4' = [v4 EXCEPT ![c] = Trust!NoCall]
    BY <1>1, <1>3, NothingJumped
  <2> QED BY <1>2, <2>1, TrustPasses
<1>4. CASE Trust!Settled(c) /\ UNCHANGED v11
  <2>1. v4' = [v4 EXCEPT ![c] = Trust!NoCall]
    BY <1>4 DEF Trust!Settled
  <2> QED BY <1>2, <1>4, <2>1, TrustPasses
<1> QED BY <1>3, <1>4 DEF Trust!Approve

\* Only decisions change, and none becomes pending.
LEMMA TrustRests ==
  ASSUME TrustInv, DeskKept, ReviewsOn(v5') = ReviewsOn(v5), UNCHANGED <<v4, v6, v7, v9, v10, v11>>
  PROVE  TrustInv'
<1>1. CallsWaited'
  <2> SUFFICES ASSUME NEW c \in Calls PROVE CallWaited(c)'
    BY DEF CallsWaited
  <2>1. CASE v4[c].at = "idle"
    BY <2>1 DEF CallWaited
  <2>2. CASE v4[c].at # "idle"
    <3>1. v4[c] \in CallAt
      BY DEF TrustInv, TrustTyped
    <3>2. v4[c].before \in Nat
      BY <2>2, <3>1 DEF CallAt
    <3>3. /\ v4[c].before <= Len(v5)
          /\ \A d \in 1 .. v4[c].before : v5[d].key = v4[c].key => v5[d].status # "pending"
      BY <2>2 DEF TrustInv, CallsWaited, CallWaited
    <3>4. Len(v5) \in Nat /\ Len(v5') \in Nat /\ Len(v5) <= Len(v5')
      BY DEF TrustInv, TrustTyped, DeskKept
    <3>5. v4[c].before <= Len(v5') /\ \A d \in 1 .. v4[c].before : d \in 1 .. Len(v5)
      BY <3>2, <3>3, <3>4
    <3>6. \A d \in 1 .. v4[c].before : v5'[d].key = v4[c].key => v5'[d].status # "pending"
      BY <3>3, <3>5 DEF DeskKept
    <3> QED BY <3>5, <3>6 DEF CallWaited
  <2> QED BY <2>1, <2>2
<1>2. LogFits'
  BY DEF TrustInv, LogFits, DeniedIn
<1>3. Trust!Due' = Trust!Due
  BY DEF Trust!Due, Trust!InARow, Trust!AllInAll
<1>4. ReviewsFit'
  BY <1>3 DEF TrustInv, ReviewsFit
<1> QED BY <1>1, <1>2, <1>4 DEF TrustInv, TrustTyped, DeskKept

LEMMA TrustSame ==
  ASSUME TrustInv, UNCHANGED <<v4, v5, v6, v7, v9, v10, v11>>
  PROVE  TrustInv'
<1>1. DeskKept
  BY DEF DeskKept, TrustInv, TrustTyped
<1> QED BY <1>1, TrustRests

LEMMA TrustSettle ==
  ASSUME TrustInv, NEW d \in DOMAIN v5, Trust!Settle(d)
  PROVE  TrustInv'
<1>1. PICK to \in {"answered", "settled"} : v5' = [v5 EXCEPT ![d] = [v5[d] EXCEPT !.status = to]]
  BY DEF Trust!Settle
<1> DEFINE k == [v5[d] EXCEPT !.status = to]
<1>2. k \in ParkedRow /\ k.key = v5[d].key /\ k.status # "pending"
  <2>1. v5[d] \in ParkedRow
    BY DEF TrustInv, TrustTyped
  <2> QED BY <2>1 DEF ParkedRow
<1>3. v5' = [v5 EXCEPT ![d] = k]
  BY <1>1
<1> HIDE DEF k
<1>4. v5 \in Seq(ParkedRow) /\ d \in 1 .. Len(v5) /\ DOMAIN v5 = 1 .. Len(v5) /\ Len(v5) \in Nat
  BY DEF TrustInv, TrustTyped
<1>5. /\ v5' \in Seq(ParkedRow) /\ Len(v5') = Len(v5)
      /\ \A e \in 1 .. Len(v5) : v5'[e] = IF e = d THEN k ELSE v5[e]
  BY <1>2, <1>3, <1>4, ExceptSeq
<1>6. DeskKept
  BY <1>2, <1>4, <1>5 DEF DeskKept
<1>7. ReviewsOn(v5') = ReviewsOn(v5)
  <2>1. DOMAIN v5' = DOMAIN v5
    BY <1>4, <1>5
  <2>2. \A e \in DOMAIN v5 : v5'[e].key = v5[e].key
    BY <1>2, <1>4, <1>5
  <2> QED BY <2>1, <2>2 DEF ReviewsOn
<1> QED BY <1>6, <1>7, TrustRests DEF Trust!Settle

LEMMA TrustNext == TrustInv /\ Trust!Next => TrustInv'
<1> SUFFICES ASSUME TrustInv, Trust!Next PROVE TrustInv'
  OBVIOUS
<1>1. ASSUME NEW c \in Calls, NEW kind, NEW place, NEW key \in Keys, NEW safe,
             Trust!Govern(c, kind, place, key, safe)
      PROVE  TrustInv'
  BY <1>1, TrustGovern
<1>2. ASSUME NEW c \in Calls, NEW yes, Trust!Classify(c, yes) \/ Trust!Approve(c, yes)
      PROVE  TrustInv'
  BY <1>2, TrustClassify, TrustApprove
<1>3. ASSUME NEW m, Trust!SetMode(m) PROVE TrustInv'
  BY <1>3, TrustSame DEF Trust!SetMode
<1>4. ASSUME NEW d \in DOMAIN v5, Trust!Settle(d) PROVE TrustInv'
  BY <1>4, TrustSettle
<1> QED BY <1>1, <1>2, <1>3, <1>4 DEF Trust!Next

LEMMA TrustInit == Trust!Init => TrustInv
<1> SUFFICES ASSUME Trust!Init PROVE TrustInv
  OBVIOUS
<1>1. /\ v4 = [c \in Calls |-> Trust!NoCall] /\ v5 = << >> /\ v6 = 0 /\ v7 = 0 /\ v9 = << >>
      /\ v10 = 0 /\ v11 = FALSE
  BY DEF Trust!Init
<1>2. TrustTyped /\ CallsWaited
  BY <1>1 DEF TrustTyped, CallsWaited, CallWaited, Trust!NoCall, CallAt
<1>3. DeniedIn(0) = {} /\ ReviewsOn(v5) = {} /\ Trust!Due = {}
  BY <1>1 DEF DeniedIn, ReviewsOn, Trust!Due
<1>4. LogFits
  BY <1>1, <1>3, FS_EmptySet DEF LogFits
<1>5. ReviewsFit
  BY <1>1, <1>3, FS_EmptySet DEF ReviewsFit
<1> QED BY <1>1, <1>2, <1>4, <1>5 DEF TrustInv

LEMMA TrustPromises == TrustInv => Trust!GovernanceSound
<1> SUFFICES ASSUME TrustInv PROVE Trust!GovernanceSound
  OBVIOUS
<1>1. Trust!Reviewed
  BY TrustCounts DEF TrustInv, ReviewsFit, ReviewsOn, Trust!Reviewed, Trust!Review
<1> QED BY <1>1 DEF TrustInv, Trust!Waited, Trust!GovernanceSound

-----------------------------------------------------------------------------
(***************************************************************************)
(* RecipeGates: flow is v1, runners v2, listed v3, inTurn v4, settling v6, *)
(* notes v7, crowded v8, mixed v9.                                         *)
(***************************************************************************)

GateTask ==
  [at : {"ask", "route", "act", "idle", "resuming", "done"}, allow : BOOLEAN, for : Recipes,
   entry : [of : Recipes \cup {"none"}, outer : BOOLEAN]]
Asked == {t \in DOMAIN v6 : v6[t].at \in {"ask", "route", "act"}}
Stopped == {r \in Recipes : v1[r] = "waiting"}

GatesTyped ==
  /\ v1 \in [Recipes -> {"new", "running", "waiting", "approved", "ended"}]
  /\ v2 \in [Recipes -> SUBSET ({0} \cup DOMAIN v6)]
  /\ v4 \in BOOLEAN /\ v6 \in Seq(GateTask) /\ v8 \subseteq Recipes /\ v9 \subseteq Recipes

\* A task that acts for a recipe chose what was stored for the outermost.
TaskFits(t) ==
  v6[t].at \in {"act", "idle", "resuming"} => v6[t].entry.of \in Recipes /\ v6[t].entry.outer
TasksFit == \A t \in DOMAIN v6 : TaskFits(t)

\* A gate is one recipe's, it is stored for the outermost at least, and the recipe waits just
\* as long as something is stored for it.
ListFits ==
  /\ \A x \in v3 : x.of \in Recipes /\ x.outer \in BOOLEAN /\ x.gate \in 1 .. Len(v6)
  /\ \A x \in v3 : \E y \in v3 : y.of = x.of /\ y.gate = x.gate /\ y.outer
  /\ \A x \in v3, y \in v3 : x.gate = y.gate => x.of = y.of
  /\ \A r \in Recipes : v1[r] = "waiting" <=> \E x \in v3 : x.of = r

\* Who runs a recipe is the turn, or a task that resumed it.
RunnersFit ==
  \A r \in Recipes : \A t \in v2[r] : t # 0 => v6[t].at = "resuming" /\ v6[t].entry.of = r
TurnsFit ==
  \A r \in Recipes : IF v4 THEN r \in v8 \/ v2[r] \subseteq {0} ELSE 0 \notin v2[r]

\* What is running has its one executor; what a task is about to resume waits for it alone.
OneRunner ==
  \A r \in Recipes \ v8 :
    /\ v1[r] = "running" <=> v2[r] # {}
    /\ \A x \in v2[r], y \in v2[r] : x = y
    /\ \A t \in DOMAIN v6 : v6[t].at = "idle" /\ v6[t].entry.of = r =>
         /\ v1[r] = "approved"
         /\ \A u \in DOMAIN v6 : v6[u].at = "idle" /\ v6[u].entry.of = r => t = u

\* Unless the person was told, there is a task that asks for every recipe that waits.
AskedForAll == v7 = {} => Cardinality(Stopped) <= Cardinality(Asked)

\* What a task chose, or may still choose, is of the recipe it asked about, or mixed.
OwnOrMixed ==
  \A t \in DOMAIN v6 :
    /\ v6[t].at \in {"act", "idle", "resuming"} => v6[t].entry.of \in {v6[t].for} \cup v9
    /\ v6[t].at \in {"ask", "route"} => \A x \in v3 : x.of \in {v6[t].for} \cup v9

GatesInv ==
  /\ GatesTyped /\ TasksFit /\ ListFits /\ RunnersFit /\ TurnsFit /\ OneRunner /\ AskedForAll
  /\ OwnOrMixed

LEMMA GatesFinite ==
  ASSUME v6 \in Seq(GateTask)
  PROVE  /\ IsFiniteSet(Stopped) /\ IsFiniteSet(Asked)
         /\ Cardinality(Stopped) \in Nat /\ Cardinality(Asked) \in Nat
<1>0. IsFiniteSet(Recipes)
  <2>1. Gate!IsFiniteSet(Recipes)
    BY PermissionsAssumption DEF Gate!RecipesAssumption
  <2> QED BY <2>1 DEF Gate!IsFiniteSet, IsFiniteSet
<1>1. IsFiniteSet(Stopped)
  <2>1. Stopped \in SUBSET Recipes
    BY DEF Stopped
  <2> QED BY <1>0, <2>1, FS_Subset
<1>2. IsFiniteSet(Asked)
  <2>1. DOMAIN v6 = 1 .. Len(v6) /\ Len(v6) \in Nat
    OBVIOUS
  <2>2. Asked \in SUBSET (1 .. Len(v6))
    BY <2>1 DEF Asked
  <2>3. IsFiniteSet(1 .. Len(v6))
    BY <2>1, FS_Interval
  <2> QED BY <2>2, <2>3, FS_Subset
<1> QED BY <1>1, <1>2, FS_CardinalityType

\* A task moves: it alone changes.
LEMMA TaskMoves ==
  ASSUME v6 \in Seq(GateTask), NEW t \in DOMAIN v6, NEW k \in GateTask, v6' = [v6 EXCEPT ![t] = k]
  PROVE  /\ v6' \in Seq(GateTask) /\ Len(v6') = Len(v6) /\ DOMAIN v6' = DOMAIN v6
         /\ v6'[t] = k /\ \A u \in DOMAIN v6 : u # t => v6'[u] = v6[u]
<1>1. t \in 1 .. Len(v6) /\ DOMAIN v6 = 1 .. Len(v6)
  OBVIOUS
<1>2. v6' \in Seq(GateTask) /\ Len(v6') = Len(v6) /\ DOMAIN v6' = DOMAIN v6
  BY <1>1, ExceptSeq
<1> QED BY <1>1, <1>2

LEMMA TaskIs ==
  ASSUME v6 \in Seq(GateTask), NEW t \in DOMAIN v6
  PROVE  v6[t] \in GateTask
  OBVIOUS

LEMMA TaskEnds ==
  ASSUME NEW k \in GateTask
  PROVE  /\ [k EXCEPT !.at = "done"] \in GateTask /\ [k EXCEPT !.at = "idle"] \in GateTask
         /\ [k EXCEPT !.at = "resuming"] \in GateTask
         /\ [k EXCEPT !.at = "done"].at = "done" /\ [k EXCEPT !.at = "idle"].at = "idle"
         /\ [k EXCEPT !.at = "resuming"].at = "resuming"
         /\ [k EXCEPT !.at = "idle"].entry = k.entry /\ [k EXCEPT !.at = "idle"].for = k.for
         /\ [k EXCEPT !.at = "resuming"].entry = k.entry
         /\ [k EXCEPT !.at = "resuming"].for = k.for
  BY DEF GateTask

LEMMA GatesTurnBegins == GatesInv /\ Gate!TurnBegins => GatesInv'
<1> SUFFICES ASSUME GatesInv, Gate!TurnBegins PROVE GatesInv'
  OBVIOUS
<1>1. /\ v4' = TRUE /\ v8' = v8 \cup {r \in Recipes : v2[r] # {}}
      /\ UNCHANGED <<v1, v2, v3, v6, v7, v9>>
  BY DEF Gate!TurnBegins
<1>2. GatesTyped' /\ TasksFit' /\ ListFits'
  BY <1>1 DEF GatesInv, GatesTyped, TasksFit, TaskFits, ListFits
<1>3. RunnersFit' /\ TurnsFit'
  BY <1>1 DEF GatesInv, RunnersFit, TurnsFit
<1>4. OneRunner'
  BY <1>1 DEF GatesInv, OneRunner
<1>5. AskedForAll' /\ OwnOrMixed'
  BY <1>1 DEF GatesInv, AskedForAll, Stopped, Asked, OwnOrMixed
<1> QED BY <1>2, <1>3, <1>4, <1>5 DEF GatesInv

LEMMA GatesTurnEnds == GatesInv /\ Gate!TurnEnds => GatesInv'
<1> SUFFICES ASSUME GatesInv, Gate!TurnEnds PROVE GatesInv'
  OBVIOUS
<1>1. v4' = FALSE /\ (\A r \in Recipes : 0 \notin v2[r]) /\ UNCHANGED <<v1, v2, v3, v6, v7, v8, v9>>
  BY DEF Gate!TurnEnds, Gate!Turn
<1>2. GatesTyped' /\ TasksFit' /\ ListFits'
  BY <1>1 DEF GatesInv, GatesTyped, TasksFit, TaskFits, ListFits
<1>3. RunnersFit' /\ TurnsFit' /\ OneRunner'
  BY <1>1 DEF GatesInv, RunnersFit, TurnsFit, OneRunner
<1>4. AskedForAll' /\ OwnOrMixed'
  BY <1>1 DEF GatesInv, AskedForAll, Stopped, Asked, OwnOrMixed
<1> QED BY <1>2, <1>3, <1>4 DEF GatesInv

\* A recipe that did not wait still does not: nobody has to be asked for more.
LEMMA NoneStops ==
  ASSUME GatesTyped, NEW r \in Recipes, v1[r] # "waiting", NEW to, to # "waiting",
         v1' = [v1 EXCEPT ![r] = to]
  PROVE  Stopped' = Stopped
  BY DEF GatesTyped, Stopped

LEMMA GatesModelRuns ==
  ASSUME GatesInv, NEW r \in Recipes, Gate!ModelRuns(r)
  PROVE  GatesInv'
<1>1. /\ v4 /\ v1[r] \in {"new", "approved", "running"} /\ 0 \notin v2[r]
      /\ v1' = [v1 EXCEPT ![r] = "running"] /\ v2' = [v2 EXCEPT ![r] = v2[r] \cup {0}]
      /\ v8' = IF \E t \in DOMAIN v6 : v6[t].at = "idle" /\ v6[t].entry.of = r
               THEN v8 \cup {r} ELSE v8
      /\ UNCHANGED <<v3, v4, v6, v7, v9>>
  BY DEF Gate!ModelRuns, Gate!Runs, Gate!Turn, Gate!Tasks
<1>2. \A q \in Recipes : v1'[q] = IF q = r THEN "running" ELSE v1[q]
  BY <1>1 DEF GatesInv, GatesTyped
<1>3. \A q \in Recipes : v2'[q] = IF q = r THEN v2[r] \cup {0} ELSE v2[q]
  BY <1>1 DEF GatesInv, GatesTyped
<1>4. GatesTyped'
  BY <1>1 DEF GatesInv, GatesTyped
<1>5. TasksFit' /\ OwnOrMixed'
  BY <1>1 DEF GatesInv, TasksFit, TaskFits, OwnOrMixed
<1>6. ListFits'
  BY <1>1, <1>2 DEF GatesInv, ListFits
<1>7. RunnersFit' /\ TurnsFit'
  BY <1>1, <1>3 DEF GatesInv, RunnersFit, TurnsFit
<1>8. OneRunner'
  <2> SUFFICES ASSUME NEW q \in Recipes \ v8'
               PROVE  /\ v1'[q] = "running" <=> v2'[q] # {}
                      /\ \A x \in v2'[q], y \in v2'[q] : x = y
                      /\ \A t \in DOMAIN v6 : v6[t].at = "idle" /\ v6[t].entry.of = q =>
                           /\ v1'[q] = "approved"
                           /\ \A u \in DOMAIN v6 : v6[u].at = "idle" /\ v6[u].entry.of = q => t = u
    BY <1>1 DEF OneRunner
  <2>1. q \notin v8
    BY <1>1
  <2>2. CASE q = r
    <3>1. v2[r] = {} /\ \A t \in DOMAIN v6 : ~(v6[t].at = "idle" /\ v6[t].entry.of = r)
      BY <1>1, <2>1, <2>2 DEF GatesInv, TurnsFit
    <3> QED BY <1>2, <1>3, <2>2, <3>1
  <2>3. CASE q # r
    BY <1>2, <1>3, <2>1, <2>3 DEF GatesInv, OneRunner
  <2> QED BY <2>2, <2>3
<1>9. AskedForAll'
  <2>1. Stopped' = Stopped /\ Asked' = Asked
    BY <1>1, NoneStops DEF GatesInv, Asked
  <2> QED BY <1>1, <2>1 DEF GatesInv, AskedForAll
<1> QED BY <1>4, <1>5, <1>6, <1>7, <1>8, <1>9 DEF GatesInv

\* What is stored for the outermost recipe is decided: nothing more is stored for it, and it
\* waits no longer.
LEMMA GateDecided ==
  ASSUME GatesTyped, ListFits, NEW r \in Recipes, NEW e, e.of = r, e.outer, Gate!Waits(e),
         NEW to \in {"approved", "ended"}, Gate!Decided(e, to)
  PROVE  /\ v3' = {x \in v3 : x.of # r} /\ v1[r] = "waiting" /\ v1' = [v1 EXCEPT ![r] = to]
<1>1. v3' = {x \in v3 : x.of # r}
  BY DEF Gate!Decided, Gate!Left
<1>2. v1' = [v1 EXCEPT ![r] = to]
  BY <1>1 DEF Gate!Decided, Gate!Left
<1>3. v1[r] = "waiting"
  BY DEF Gate!Waits, ListFits
<1> QED BY <1>1, <1>2, <1>3

LEMMA DecidedFits ==
  ASSUME GatesTyped, ListFits, NEW r \in Recipes, NEW to \in {"approved", "ended"},
         v3' = {x \in v3 : x.of # r}, v1[r] = "waiting", v1' = [v1 EXCEPT ![r] = to],
         Len(v6') = Len(v6)
  PROVE  /\ ListFits' /\ Stopped' = Stopped \ {r} /\ r \in Stopped
         /\ \A q \in Recipes : v1'[q] = IF q = r THEN to ELSE v1[q]
<1>1. \A q \in Recipes : v1'[q] = IF q = r THEN to ELSE v1[q]
  BY DEF GatesTyped
<1>2. Stopped' = Stopped \ {r} /\ r \in Stopped
  BY <1>1 DEF Stopped
<1>3. \A x \in v3' : x \in v3 /\ x.of # r
  OBVIOUS
<1>4. \A x \in v3 : x.of # r => x \in v3'
  OBVIOUS
<1>5. (\A x \in v3 : x.of \in Recipes /\ x.outer \in BOOLEAN /\ x.gate \in 1 .. Len(v6))'
  BY <1>3 DEF ListFits
<1>6. (\A x \in v3 : \E y \in v3 : y.of = x.of /\ y.gate = x.gate /\ y.outer)'
  <2> SUFFICES ASSUME NEW x \in v3' PROVE \E y \in v3' : y.of = x.of /\ y.gate = x.gate /\ y.outer
    OBVIOUS
  <2>1. PICK y \in v3 : y.of = x.of /\ y.gate = x.gate /\ y.outer
    BY <1>3 DEF ListFits
  <2> QED BY <1>3, <1>4, <2>1
<1>7. (\A x \in v3, y \in v3 : x.gate = y.gate => x.of = y.of)'
  BY <1>3 DEF ListFits
<1>8. (\A q \in Recipes : v1[q] = "waiting" <=> \E x \in v3 : x.of = q)'
  BY <1>1, <1>3, <1>4 DEF ListFits
<1> QED BY <1>1, <1>2, <1>5, <1>6, <1>7, <1>8 DEF ListFits

LEMMA FewerStop ==
  ASSUME GatesTyped, AskedForAll, v7' = v7, NEW r \in Stopped, Stopped' = Stopped \ {r},
         NEW t, Asked' \in {Asked, Asked \ {t}}
  PROVE  AskedForAll'
<1>1. /\ IsFiniteSet(Stopped) /\ IsFiniteSet(Asked)
      /\ Cardinality(Stopped) \in Nat /\ Cardinality(Asked) \in Nat
  BY GatesFinite DEF GatesTyped
<1>2. Cardinality(Stopped \ {r}) = Cardinality(Stopped) - 1
  BY <1>1, FS_RemoveElement
<1>3. Cardinality(Asked \ {t}) >= Cardinality(Asked) - 1
  <2>1. Cardinality(Asked \ {t}) = IF t \in Asked THEN Cardinality(Asked) - 1 ELSE Cardinality(Asked)
    BY <1>1, FS_RemoveElement
  <2> QED BY <1>1, <2>1
<1>4. Cardinality(Asked') >= Cardinality(Asked) - 1
  BY <1>1, <1>3
<1> HIDE DEF AskedForAll
<1>5. Cardinality(Stopped') = Cardinality(Stopped) - 1
  BY <1>2
<1>6. Cardinality(Asked') \in Nat
  <2>1. IsFiniteSet(Asked \ {t})
    BY <1>1, FS_RemoveElement
  <2> QED BY <1>1, <2>1, FS_CardinalityType
<1> QED BY <1>1, <1>4, <1>5, <1>6 DEF AskedForAll

LEMMA GatesModelDecides ==
  ASSUME GatesInv, NEW r \in Recipes, NEW to \in {"approved", "ended"}, Gate!ModelDecides(r, to)
  PROVE  GatesInv'
<1> DEFINE e == [of |-> r, outer |-> TRUE]
<1>1. Gate!Waits(e) /\ Gate!Decided(e, to) /\ UNCHANGED <<v2, v4, v6, v7, v8, v9>>
  BY DEF Gate!ModelDecides
<1>2. e.of = r /\ e.outer
  OBVIOUS
<1> HIDE DEF e
<1>3. v3' = {x \in v3 : x.of # r} /\ v1[r] = "waiting" /\ v1' = [v1 EXCEPT ![r] = to]
  BY <1>1, <1>2, GateDecided DEF GatesInv
<1>4. /\ ListFits' /\ Stopped' = Stopped \ {r} /\ r \in Stopped
      /\ \A q \in Recipes : v1'[q] = IF q = r THEN to ELSE v1[q]
  BY <1>1, <1>3, DecidedFits DEF GatesInv
<1>5. GatesTyped' /\ TasksFit' /\ RunnersFit' /\ TurnsFit'
  BY <1>1, <1>3 DEF GatesInv, GatesTyped, TasksFit, TaskFits, RunnersFit, TurnsFit
<1>6. OneRunner'
  BY <1>1, <1>3, <1>4 DEF GatesInv, OneRunner
<1>7. AskedForAll'
  <2>1. Asked' = Asked
    BY <1>1 DEF Asked
  <2> QED BY <1>1, <1>4, <2>1, FewerStop DEF GatesInv
<1>8. OwnOrMixed'
  BY <1>1, <1>3 DEF GatesInv, OwnOrMixed
<1> QED BY <1>4, <1>5, <1>6, <1>7, <1>8 DEF GatesInv

\* Whose run stops is done with it.
Finished(by) ==
  [t \in DOMAIN v6 |-> IF t = by THEN [v6[t] EXCEPT !.at = "done"] ELSE v6[t]]

LEMMA FinishedTasks ==
  ASSUME v6 \in Seq(GateTask), NEW by
  PROVE  /\ Finished(by) \in Seq(GateTask) /\ Len(Finished(by)) = Len(v6)
         /\ DOMAIN Finished(by) = DOMAIN v6
         /\ \A t \in DOMAIN v6 : t # by => Finished(by)[t] = v6[t]
         /\ by \in DOMAIN v6 => Finished(by)[by].at = "done"
<1>1. DOMAIN v6 = 1 .. Len(v6) /\ Len(v6) \in Nat
  OBVIOUS
<1>2. ASSUME NEW t \in DOMAIN v6 PROVE [v6[t] EXCEPT !.at = "done"] \in GateTask
                                       /\ [v6[t] EXCEPT !.at = "done"].at = "done"
  BY TaskEnds, TaskIs
<1>3. Finished(by) \in [1 .. Len(v6) -> GateTask]
  BY <1>1, <1>2, TaskIs DEF Finished
<1>4. Finished(by) \in Seq(GateTask) /\ Len(Finished(by)) = Len(v6)
  BY <1>1, <1>3
<1>5. \A t \in DOMAIN v6 : t # by => Finished(by)[t] = v6[t]
  BY DEF Finished
<1>6. by \in DOMAIN v6 => Finished(by)[by].at = "done"
  BY <1>2 DEF Finished
<1> QED BY <1>1, <1>3, <1>4, <1>5, <1>6

\* Whose run stops no longer runs it; nothing that asks or is idle changes.
LEMMA RunStops ==
  ASSUME GatesInv, NEW r \in Recipes, NEW by \in v2[r], v1[r] = "running",
         NEW to \in {"waiting", "ended"}, v1' = [v1 EXCEPT ![r] = to],
         v2' = [v2 EXCEPT ![r] = v2[r] \ {by}], UNCHANGED <<v4, v8>>,
         v6' \in Seq(GateTask), DOMAIN v6 \subseteq DOMAIN v6',
         \A t \in DOMAIN v6 : t # by => v6'[t] = v6[t],
         by \in DOMAIN v6 => v6'[by].at = "done",
         \A t \in DOMAIN v6' \ DOMAIN v6 : v6'[t].at = "ask"
  PROVE  /\ \A q \in Recipes : v1'[q] = IF q = r THEN to ELSE v1[q]
         /\ v1' \in [Recipes -> {"new", "running", "waiting", "approved", "ended"}]
         /\ v2' \in [Recipes -> SUBSET ({0} \cup DOMAIN v6')]
         /\ by \in DOMAIN v6 => v6[by].at = "resuming" /\ v6[by].entry.of = r
         /\ TasksFit' /\ RunnersFit' /\ TurnsFit' /\ OneRunner'
<1>1. \A q \in Recipes : v1'[q] = IF q = r THEN to ELSE v1[q]
  BY DEF GatesInv, GatesTyped
<1>2. \A q \in Recipes : v2'[q] = IF q = r THEN v2[r] \ {by} ELSE v2[q]
  BY DEF GatesInv, GatesTyped
<1>3. v1' \in [Recipes -> {"new", "running", "waiting", "approved", "ended"}]
  BY DEF GatesInv, GatesTyped
<1>4. v2' \in [Recipes -> SUBSET ({0} \cup DOMAIN v6')]
  BY DEF GatesInv, GatesTyped
<1>5. 0 \notin DOMAIN v6
  BY DEF GatesInv, GatesTyped
<1>6. by \in DOMAIN v6 => v6[by].at = "resuming" /\ v6[by].entry.of = r
  BY <1>5 DEF GatesInv, RunnersFit
<1>7. TasksFit'
  <2> SUFFICES ASSUME NEW t \in DOMAIN v6' PROVE TaskFits(t)'
    BY DEF TasksFit
  <2>1. CASE t \in DOMAIN v6 /\ t # by
    BY <2>1 DEF GatesInv, TasksFit, TaskFits
  <2>2. CASE ~(t \in DOMAIN v6 /\ t # by)
    BY <2>2 DEF TaskFits
  <2> QED BY <2>1, <2>2
<1>8. RunnersFit'
  <2> SUFFICES ASSUME NEW q \in Recipes, NEW t \in v2'[q], t # 0
               PROVE  v6'[t].at = "resuming" /\ v6'[t].entry.of = q
    BY DEF RunnersFit
  <2>1. t \in v2[q] /\ t \in DOMAIN v6 /\ v6[t].at = "resuming" /\ v6[t].entry.of = q
    BY <1>2 DEF GatesInv, GatesTyped, RunnersFit
  <2>2. t # by
    BY <1>2, <1>6, <2>1
  <2> QED BY <2>1, <2>2
<1>9. TurnsFit'
  BY <1>2 DEF GatesInv, TurnsFit
<1>10. OneRunner'
  <2> SUFFICES ASSUME NEW q \in Recipes \ v8
               PROVE  /\ v1'[q] = "running" <=> v2'[q] # {}
                      /\ \A x \in v2'[q], y \in v2'[q] : x = y
                      /\ \A t \in DOMAIN v6' : v6'[t].at = "idle" /\ v6'[t].entry.of = q =>
                           /\ v1'[q] = "approved"
                           /\ \A u \in DOMAIN v6' : v6'[u].at = "idle" /\ v6'[u].entry.of = q => t = u
    BY DEF OneRunner
  <2>1. ASSUME NEW t \in DOMAIN v6', v6'[t].at = "idle"
        PROVE  t \in DOMAIN v6 /\ v6'[t] = v6[t]
    BY <2>1
  <2>2. CASE q = r
    <3>1. v2'[q] = {}
      BY <1>2, <2>2 DEF GatesInv, OneRunner
    <3>2. \A t \in DOMAIN v6' : ~(v6'[t].at = "idle" /\ v6'[t].entry.of = q)
      BY <2>1, <2>2 DEF GatesInv, OneRunner
    <3> QED BY <1>1, <2>2, <3>1, <3>2
  <2>3. CASE q # r
    <3>1. v1'[q] = v1[q] /\ v2'[q] = v2[q]
      BY <1>1, <1>2, <2>3
    <3> QED BY <2>1, <3>1 DEF GatesInv, OneRunner
  <2> QED BY <2>2, <2>3
<1> QED BY <1>1, <1>3, <1>4, <1>6, <1>7, <1>8, <1>9, <1>10

LEMMA GatesEnds ==
  ASSUME GatesInv, NEW r \in Recipes, Gate!Ends(r)
  PROVE  GatesInv'
<1>1. PICK by \in v2[r] : /\ v2' = [v2 EXCEPT ![r] = v2[r] \ {by}]
                          /\ v6' = Finished(by) /\ v7' = v7 \cup ({by} \ {0})
  BY DEF Gate!Ends, Gate!Tasks, Gate!Turn, Finished
<1>2. /\ v1[r] = "running" /\ v1' = [v1 EXCEPT ![r] = "ended"]
      /\ UNCHANGED <<v3, v4, v8, v9>>
  BY DEF Gate!Ends
<1>3. /\ v6' \in Seq(GateTask) /\ Len(v6') = Len(v6) /\ DOMAIN v6' = DOMAIN v6
      /\ \A t \in DOMAIN v6 : t # by => v6'[t] = v6[t]
      /\ by \in DOMAIN v6 => v6'[by].at = "done"
  BY <1>1, FinishedTasks DEF GatesInv, GatesTyped
<1>4. /\ \A q \in Recipes : v1'[q] = IF q = r THEN "ended" ELSE v1[q]
      /\ v1' \in [Recipes -> {"new", "running", "waiting", "approved", "ended"}]
      /\ v2' \in [Recipes -> SUBSET ({0} \cup DOMAIN v6')]
      /\ by \in DOMAIN v6 => v6[by].at = "resuming" /\ v6[by].entry.of = r
      /\ TasksFit' /\ RunnersFit' /\ TurnsFit' /\ OneRunner'
  BY <1>1, <1>2, <1>3, RunStops
<1>5. GatesTyped'
  BY <1>2, <1>3, <1>4 DEF GatesInv, GatesTyped
<1>6. ListFits'
  BY <1>2, <1>3, <1>4 DEF GatesInv, ListFits
<1>7. AskedForAll'
  <2>1. Stopped' = Stopped
    BY <1>2, NoneStops DEF GatesInv
  <2>2. Asked' = Asked
    BY <1>3, <1>4 DEF Asked
  <2>3. v7' = {} => v7 = {}
    BY <1>1
  <2> QED BY <2>1, <2>2, <2>3 DEF GatesInv, AskedForAll
<1>8. OwnOrMixed'
  BY <1>2, <1>3, <1>4 DEF GatesInv, OwnOrMixed
<1> QED BY <1>4, <1>5, <1>6, <1>7, <1>8 DEF GatesInv

LEMMA GateReached ==
  ASSUME NEW r \in Recipes, v6 \in Seq(GateTask)
  PROVE  /\ [Gate!NewTask EXCEPT !.for = r] \in GateTask
         /\ [Gate!NewTask EXCEPT !.for = r].at = "ask" /\ [Gate!NewTask EXCEPT !.for = r].for = r
         /\ \A x \in Gate!Entries(r) : x.of = r /\ x.outer \in BOOLEAN /\ x.gate = Len(v6) + 1
         /\ \E x \in Gate!Entries(r) : x.outer
<1>1. /\ [Gate!NewTask EXCEPT !.for = r] \in GateTask
      /\ [Gate!NewTask EXCEPT !.for = r].at = "ask" /\ [Gate!NewTask EXCEPT !.for = r].for = r
  BY DEF Gate!NewTask, GateTask
<1>2. \A x \in Gate!Entries(r) : x.of = r /\ x.outer \in BOOLEAN /\ x.gate = Len(v6) + 1
  BY DEF Gate!Entries
<1>3. [of |-> r, outer |-> TRUE, gate |-> Len(v6) + 1] \in Gate!Entries(r)
  BY DEF Gate!Entries
<1> QED BY <1>1, <1>2, <1>3

LEMMA GatesPause ==
  ASSUME GatesInv, NEW r \in Recipes, Gate!Pause(r)
  PROVE  GatesInv'
<1> DEFINE task == [Gate!NewTask EXCEPT !.for = r]
           open == {v6[t].for : t \in {t \in DOMAIN v6 : v6[t].at # "done"}}
           others == (open \cup {e.of : e \in v3}) \ {r}
<1>1. PICK by \in v2[r] : /\ v2' = [v2 EXCEPT ![r] = v2[r] \ {by}]
                          /\ v6' = Append(Finished(by), task)
  BY DEF Gate!Pause, Gate!Tasks, Finished
<1>2. /\ v1[r] = "running" /\ v1' = [v1 EXCEPT ![r] = "waiting"]
      /\ v3' = v3 \cup Gate!Entries(r)
      /\ v9' = IF others = {} THEN v9 ELSE v9 \cup others \cup {r}
      /\ UNCHANGED <<v4, v7, v8>>
  BY DEF Gate!Pause, Gate!Tasks
<1>3. /\ task \in GateTask /\ task.at = "ask" /\ task.for = r
      /\ \A x \in Gate!Entries(r) : x.of = r /\ x.outer \in BOOLEAN /\ x.gate = Len(v6) + 1
      /\ \E x \in Gate!Entries(r) : x.outer
  BY GateReached DEF GatesInv, GatesTyped
<1> HIDE DEF task
<1>4. /\ Finished(by) \in Seq(GateTask) /\ Len(Finished(by)) = Len(v6)
      /\ DOMAIN Finished(by) = DOMAIN v6
      /\ \A t \in DOMAIN v6 : t # by => Finished(by)[t] = v6[t]
      /\ by \in DOMAIN v6 => Finished(by)[by].at = "done"
  BY FinishedTasks DEF GatesInv, GatesTyped
<1>5. /\ v6' \in Seq(GateTask) /\ Len(v6') = Len(v6) + 1 /\ DOMAIN v6' = DOMAIN v6 \cup {Len(v6) + 1}
      /\ \A t \in DOMAIN v6 : v6'[t] = Finished(by)[t]
      /\ v6'[Len(v6) + 1] = task
      /\ Len(v6) \in Nat /\ DOMAIN v6 = 1 .. Len(v6)
  <2>1. Len(v6) \in Nat /\ DOMAIN v6 = 1 .. Len(v6)
    BY DEF GatesInv, GatesTyped
  <2>2. v6' \in Seq(GateTask) /\ Len(v6') = Len(v6) + 1
    BY <1>1, <1>3, <1>4, AppendProperties
  <2>3. DOMAIN v6' = DOMAIN v6 \cup {Len(v6) + 1}
    BY <2>1, <2>2
  <2> QED BY <1>1, <1>3, <1>4, <2>1, <2>2, <2>3, AppendProperties
<1>6. /\ \A t \in DOMAIN v6 : t # by => v6'[t] = v6[t]
      /\ by \in DOMAIN v6 => v6'[by].at = "done"
      /\ \A t \in DOMAIN v6' \ DOMAIN v6 : v6'[t] = task /\ v6'[t].at = "ask"
      /\ DOMAIN v6 \subseteq DOMAIN v6'
  BY <1>3, <1>4, <1>5
<1>7. /\ \A q \in Recipes : v1'[q] = IF q = r THEN "waiting" ELSE v1[q]
      /\ v1' \in [Recipes -> {"new", "running", "waiting", "approved", "ended"}]
      /\ v2' \in [Recipes -> SUBSET ({0} \cup DOMAIN v6')]
      /\ by \in DOMAIN v6 => v6[by].at = "resuming" /\ v6[by].entry.of = r
      /\ TasksFit' /\ RunnersFit' /\ TurnsFit' /\ OneRunner'
  <2>1. v6' \in Seq(GateTask) /\ \A t \in DOMAIN v6' \ DOMAIN v6 : v6'[t].at = "ask"
    BY <1>5, <1>6
  <2>2. v2' = [v2 EXCEPT ![r] = v2[r] \ {by}] /\ UNCHANGED <<v4, v8>>
    BY <1>1, <1>2
  <2> HIDE DEF others
  <2> QED BY <1>2, <1>6, <2>1, <2>2, RunStops
<1>8. GatesTyped'
  <2>1. others \subseteq Recipes
    <3>1. \A t \in DOMAIN v6 : v6[t].for \in Recipes
      BY TaskIs DEF GatesInv, GatesTyped, GateTask
    <3> QED BY <3>1 DEF GatesInv, ListFits
  <2> HIDE DEF others
  <2>2. v9' \subseteq Recipes
    BY <1>2, <2>1 DEF GatesInv, GatesTyped
  <2> QED BY <1>2, <1>5, <1>7, <2>2 DEF GatesInv, GatesTyped
<1>9. ListFits'
  <2>1. \A x \in v3' : x \in v3 \/ x \in Gate!Entries(r)
    BY <1>2
  <2>2. \A x \in v3 : x \in v3' /\ x.gate \in 1 .. Len(v6)
    BY <1>2 DEF GatesInv, ListFits
  <2>3. (\A x \in v3 : x.of \in Recipes /\ x.outer \in BOOLEAN /\ x.gate \in 1 .. Len(v6))'
    BY <1>3, <1>5, <2>1, <2>2 DEF GatesInv, ListFits
  <2>4. (\A x \in v3 : \E y \in v3 : y.of = x.of /\ y.gate = x.gate /\ y.outer)'
    <3> SUFFICES ASSUME NEW x \in v3'
                 PROVE  \E y \in v3' : y.of = x.of /\ y.gate = x.gate /\ y.outer
      OBVIOUS
    <3>1. CASE x \in v3
      BY <2>2, <3>1 DEF GatesInv, ListFits
    <3>2. CASE x \in Gate!Entries(r)
      BY <1>2, <1>3, <3>2
    <3> QED BY <2>1, <3>1, <3>2
  <2>5. (\A x \in v3, y \in v3 : x.gate = y.gate => x.of = y.of)'
    <3> SUFFICES ASSUME NEW x \in v3', NEW y \in v3', x.gate = y.gate PROVE x.of = y.of
      OBVIOUS
    <3>1. CASE x \in v3 /\ y \in v3
      BY <3>1 DEF GatesInv, ListFits
    <3>2. CASE x \in Gate!Entries(r) /\ y \in Gate!Entries(r)
      BY <1>3, <3>2
    <3>3. CASE (x \in v3 /\ y \in Gate!Entries(r)) \/ (y \in v3 /\ x \in Gate!Entries(r))
      BY <1>3, <1>5, <2>2, <3>3
    <3> QED BY <2>1, <3>1, <3>2, <3>3
  <2>6. (\A q \in Recipes : v1[q] = "waiting" <=> \E x \in v3 : x.of = q)'
    <3> SUFFICES ASSUME NEW q \in Recipes PROVE v1'[q] = "waiting" <=> \E x \in v3' : x.of = q
      OBVIOUS
    <3>1. CASE q = r
      BY <1>2, <1>3, <1>7, <3>1
    <3>2. CASE q # r
      <4>1. (\E x \in v3' : x.of = q) <=> \E x \in v3 : x.of = q
        BY <1>3, <2>1, <2>2, <3>2
      <4> QED BY <1>7, <3>2, <4>1 DEF GatesInv, ListFits
    <3> QED BY <3>1, <3>2
  <2> QED BY <2>3, <2>4, <2>5, <2>6 DEF ListFits
<1>10. AskedForAll'
  <2>1. Stopped' = Stopped \cup {r} /\ r \notin Stopped
    BY <1>2, <1>7 DEF Stopped
  <2>2. Asked' = Asked \cup {Len(v6) + 1} /\ Len(v6) + 1 \notin Asked
    BY <1>3, <1>5, <1>6, <1>7 DEF Asked
  <2>3. /\ IsFiniteSet(Stopped) /\ IsFiniteSet(Asked)
        /\ Cardinality(Stopped) \in Nat /\ Cardinality(Asked) \in Nat
    BY GatesFinite DEF GatesInv, GatesTyped
  <2>4. Cardinality(Stopped') = Cardinality(Stopped) + 1
    BY <2>1, <2>3, FS_AddElement
  <2>5. Cardinality(Asked') = Cardinality(Asked) + 1
    BY <2>2, <2>3, FS_AddElement
  <2> QED BY <1>2, <2>3, <2>4, <2>5 DEF GatesInv, AskedForAll
<1>11. OwnOrMixed'
  <2> SUFFICES ASSUME NEW t \in DOMAIN v6'
               PROVE  /\ v6'[t].at \in {"act", "idle", "resuming"} =>
                           v6'[t].entry.of \in {v6'[t].for} \cup v9'
                      /\ v6'[t].at \in {"ask", "route"} =>
                           \A x \in v3' : x.of \in {v6'[t].for} \cup v9'
    BY DEF OwnOrMixed
  <2>1. v9 \subseteq v9'
    BY <1>2
  <2>2. \A x \in v3' : x \in v3 \/ x.of = r
    BY <1>2, <1>3
  <2>3. CASE t \in DOMAIN v6 /\ t # by
    <3>1. v6'[t] = v6[t]
      BY <1>6, <2>3
    <3>2. v6[t].at \in {"act", "idle", "resuming"} => v6[t].entry.of \in {v6[t].for} \cup v9'
      BY <2>1, <2>3 DEF GatesInv, OwnOrMixed
    <3>3. ASSUME v6[t].at \in {"ask", "route"} PROVE r \in {v6[t].for} \cup v9'
      <4>1. v6[t].for \in open
        BY <2>3, <3>3
      <4>2. CASE v6[t].for = r
        BY <4>2
      <4>3. CASE v6[t].for # r
        <5>1. others # {}
          BY <4>1, <4>3
        <5> QED BY <1>2, <5>1
      <4> QED BY <4>2, <4>3
    <3>4. v6[t].at \in {"ask", "route"} => \A x \in v3' : x.of \in {v6[t].for} \cup v9'
      BY <2>1, <2>2, <2>3, <3>3 DEF GatesInv, OwnOrMixed
    <3> QED BY <3>1, <3>2, <3>4
  <2>4. CASE t \in DOMAIN v6 /\ t = by
    BY <1>6, <2>4
  <2>5. CASE t \notin DOMAIN v6
    <3>1. v6'[t].at = "ask" /\ v6'[t].for = r
      BY <1>3, <1>6, <2>5
    <3>2. ASSUME NEW x \in v3, x.of # r PROVE x.of \in v9'
      <4>1. x.of \in others
        BY <3>2
      <4> QED BY <1>2, <4>1
    <3> QED BY <2>2, <3>1, <3>2
  <2> QED BY <2>3, <2>4, <2>5
<1> QED BY <1>7, <1>8, <1>9, <1>10, <1>11 DEF GatesInv

\* A task that has nothing chosen and runs nothing moves on, or ends: what it may choose is
\* all that counts.
LEMMA TaskSteps ==
  ASSUME GatesInv, NEW t \in DOMAIN v6, v6[t].at \in {"ask", "route"}, NEW k \in GateTask,
         v6' = [v6 EXCEPT ![t] = k], k.for = v6[t].for,
         \/ v6[t].at = "ask" /\ k.at = "route" /\ v7' = v7
         \/ k.at = "act" /\ v7' = v7 /\ k.entry.outer /\ \E x \in v3 : x.of = k.entry.of
         \/ k.at = "done" /\ v7' = v7 \cup {t},
         UNCHANGED <<v1, v2, v3, v4, v8, v9>>
  PROVE  GatesInv'
<1>1. /\ v6' \in Seq(GateTask) /\ Len(v6') = Len(v6) /\ DOMAIN v6' = DOMAIN v6
      /\ v6'[t] = k /\ \A u \in DOMAIN v6 : u # t => v6'[u] = v6[u]
  BY TaskMoves DEF GatesInv, GatesTyped
<1>2. k.at \in {"route", "act", "done"}
  OBVIOUS
<1>3. k.at = "act" => k.entry.of \in Recipes /\ k.entry.outer
  BY DEF GatesInv, ListFits
<1>4. GatesTyped'
  BY <1>1 DEF GatesInv, GatesTyped
<1>5. TasksFit'
  <2> SUFFICES ASSUME NEW u \in DOMAIN v6 PROVE TaskFits(u)'
    BY <1>1 DEF TasksFit
  <2> QED BY <1>1, <1>2, <1>3 DEF GatesInv, TasksFit, TaskFits
<1>6. ListFits'
  BY <1>1 DEF GatesInv, ListFits
<1>7. RunnersFit'
  <2> SUFFICES ASSUME NEW r \in Recipes, NEW u \in v2[r], u # 0
               PROVE  v6'[u].at = "resuming" /\ v6'[u].entry.of = r
    BY DEF RunnersFit
  <2>1. v6[u].at = "resuming" /\ v6[u].entry.of = r /\ u \in DOMAIN v6
    BY DEF GatesInv, GatesTyped, RunnersFit
  <2> QED BY <1>1, <2>1
<1>8. TurnsFit'
  BY DEF GatesInv, TurnsFit
<1>9. OneRunner'
  <2>1. \A u \in DOMAIN v6' : v6'[u].at = "idle" => u \in DOMAIN v6 /\ v6'[u] = v6[u]
    BY <1>1, <1>2
  <2> QED BY <2>1 DEF GatesInv, OneRunner
<1>10. AskedForAll'
  <2>1. Stopped' = Stopped
    BY DEF Stopped
  <2>2. CASE k.at = "done"
    BY <2>2 DEF AskedForAll
  <2>3. CASE k.at # "done"
    <3>1. Asked' = Asked
      BY <1>1, <1>2, <2>3 DEF Asked
    <3> QED BY <2>1, <2>3, <3>1 DEF GatesInv, AskedForAll
  <2> QED BY <2>2, <2>3
<1>11. OwnOrMixed'
  <2> SUFFICES ASSUME NEW u \in DOMAIN v6
               PROVE  /\ v6'[u].at \in {"act", "idle", "resuming"} =>
                           v6'[u].entry.of \in {v6'[u].for} \cup v9
                      /\ v6'[u].at \in {"ask", "route"} =>
                           \A x \in v3 : x.of \in {v6'[u].for} \cup v9
    BY <1>1 DEF OwnOrMixed
  <2>1. CASE u # t
    BY <1>1, <2>1 DEF GatesInv, OwnOrMixed
  <2>2. CASE u = t
    <3>1. \A x \in v3 : x.of \in {k.for} \cup v9
      BY DEF GatesInv, OwnOrMixed
    <3> QED BY <1>1, <1>2, <2>2, <3>1
  <2> QED BY <2>1, <2>2
<1> QED BY <1>4, <1>5, <1>6, <1>7, <1>8, <1>9, <1>10, <1>11 DEF GatesInv

LEMMA GatesAnswer ==
  ASSUME GatesInv, NEW t \in DOMAIN v6, NEW allow \in BOOLEAN, Gate!Answer(t, allow)
  PROVE  GatesInv'
<1> DEFINE k == [v6[t] EXCEPT !.at = "route", !.allow = allow]
<1>1. /\ v6[t].at = "ask" /\ v6' = [v6 EXCEPT ![t] = k]
      /\ UNCHANGED <<v1, v2, v3, v4, v7, v8, v9>>
  BY DEF Gate!Answer
<1>2. k \in GateTask /\ k.for = v6[t].for /\ k.at = "route"
  BY TaskIs DEF GatesInv, GatesTyped, GateTask
<1> HIDE DEF k
<1> QED BY <1>1, <1>2, TaskSteps

\* Something is stored for an outermost recipe when anything is, and the newest is such.
LEMMA NewestIs ==
  ASSUME GatesTyped, ListFits, v3 # {}
  PROVE  Gate!Newest \in v3 /\ Gate!Newest.outer
<1> DEFINE ages == {Len(v6) - x.gate : x \in v3}
           least(n) == \A m \in ages : ~(<<m, n>> \in OpToRel(<, Nat))
<1>1. Len(v6) \in Nat /\ \A x \in v3 : x.gate \in 1 .. Len(v6)
  BY DEF GatesTyped, ListFits
<1>2. ages \subseteq Nat /\ ages # {}
  BY <1>1
<1>3. PICK n \in ages : least(n)
  BY <1>2, WFMin, NatLessThanWellFounded
<1>4. \A m \in ages : ~(m < n)
  BY <1>2, <1>3 DEF OpToRel
<1>5. PICK a \in v3 : n = Len(v6) - a.gate
  BY <1>3
<1>6. ASSUME NEW x \in v3 PROVE x.gate < a.gate \/ x.gate = a.gate
  <2>1. ~(Len(v6) - x.gate < Len(v6) - a.gate)
    BY <1>4, <1>5
  <2>2. x.gate \in Int /\ a.gate \in Int
    BY <1>1
  <2> HIDE DEF ages, least
  <2> QED BY <1>1, <2>1, <2>2
<1>7. PICK e \in v3 : e.of = a.of /\ e.gate = a.gate /\ e.outer
  BY DEF ListFits
<1>8. \A x \in v3 : x.gate < e.gate \/ (x.gate = e.gate /\ (x.outer => e.outer))
  BY <1>6, <1>7
<1> DEFINE best == Gate!Newest
<1>9. best \in v3 /\ \A x \in v3 : x.gate < best.gate \/ (x.gate = best.gate /\ (x.outer => best.outer))
  BY <1>8 DEF Gate!Newest
<1> HIDE DEF best
<1>10. best.outer
  <2>1. best.gate \in Int /\ e.gate \in Int /\ ~(best.gate < e.gate /\ e.gate < best.gate)
    BY <1>1, <1>7, <1>9
  <2>2. best.gate < e.gate \/ best.gate = e.gate
    BY <1>8, <1>9
  <2>3. e.gate < best.gate \/ best.outer
    BY <1>7, <1>9
  <2>4. e.gate < best.gate => ~(best.gate < e.gate \/ best.gate = e.gate)
    BY <2>1
  <2> QED BY <2>2, <2>3, <2>4
<1> QED BY <1>9, <1>10 DEF best

LEMMA GatesRoute ==
  ASSUME GatesInv, NEW t \in DOMAIN v6, Gate!Route(t)
  PROVE  GatesInv'
<1> DEFINE entry == [of |-> Gate!Newest.of, outer |-> Gate!Newest.outer]
           chosen == [v6[t] EXCEPT !.at = "act", !.entry = entry]
           over == [v6[t] EXCEPT !.at = "done"]
<1>1. /\ v6[t].at = "route" /\ UNCHANGED <<v1, v2, v3, v4, v8, v9>>
      /\ \/ v3 # {} /\ v6' = [v6 EXCEPT ![t] = chosen] /\ v7' = v7
         \/ v6' = [v6 EXCEPT ![t] = over] /\ v7' = v7 \cup {t}
  BY DEF Gate!Route, Gate!Done
<1>2. v6[t] \in GateTask
  BY TaskIs DEF GatesInv, GatesTyped
<1>3. over \in GateTask /\ over.at = "done" /\ over.for = v6[t].for
  BY <1>2, TaskEnds DEF GateTask
<1> HIDE DEF over
<1>4. CASE v3 # {} /\ v6' = [v6 EXCEPT ![t] = chosen] /\ v7' = v7
  <2>1. Gate!Newest \in v3 /\ Gate!Newest.outer
    BY <1>4, NewestIs DEF GatesInv
  <2>2. Gate!Newest.of \in Recipes /\ Gate!Newest.outer \in BOOLEAN
    BY <2>1 DEF GatesInv, ListFits
  <2>3. entry \in [of : Recipes \cup {"none"}, outer : BOOLEAN] /\ entry.outer
        /\ entry.of = Gate!Newest.of
    BY <2>1, <2>2
  <2> HIDE DEF entry
  <2>4. /\ chosen \in GateTask /\ chosen.at = "act" /\ chosen.for = v6[t].for
        /\ chosen.entry = entry
    BY <1>2, <2>3 DEF GateTask
  <2> HIDE DEF chosen
  <2>5. chosen.entry.outer /\ \E x \in v3 : x.of = chosen.entry.of
    BY <2>1, <2>3, <2>4
  <2> QED BY <1>1, <1>4, <2>4, <2>5, TaskSteps
<1>5. CASE v6' = [v6 EXCEPT ![t] = over] /\ v7' = v7 \cup {t}
  BY <1>1, <1>3, <1>5, TaskSteps
<1> QED BY <1>1, <1>4, <1>5

\* The bridge has nothing to resume: the person is told.
LEMMA TaskGivesUp ==
  ASSUME GatesInv, NEW t \in DOMAIN v6, v6[t].at \in {"act", "idle"},
         v6' = [v6 EXCEPT ![t] = [v6[t] EXCEPT !.at = "done"]], v7' = v7 \cup {t},
         UNCHANGED <<v1, v2, v3, v4, v8, v9>>
  PROVE  GatesInv'
<1> DEFINE over == [v6[t] EXCEPT !.at = "done"]
<1>0. over \in GateTask /\ over.at = "done"
  BY TaskIs, TaskEnds DEF GatesInv, GatesTyped
<1> HIDE DEF over
<1>1. /\ v6' \in Seq(GateTask) /\ Len(v6') = Len(v6) /\ DOMAIN v6' = DOMAIN v6
      /\ v6'[t].at = "done" /\ \A u \in DOMAIN v6 : u # t => v6'[u] = v6[u]
  <2>1. v6' = [v6 EXCEPT ![t] = over]
    BY DEF over
  <2> QED BY <1>0, <2>1, TaskMoves DEF GatesInv, GatesTyped
<1>2. \A u \in DOMAIN v6 : v6'[u].at # "done" => v6'[u] = v6[u]
  BY <1>1
<1>3. GatesTyped' /\ ListFits' /\ TurnsFit'
  BY <1>1 DEF GatesInv, GatesTyped, ListFits, TurnsFit
<1>4. TasksFit'
  <2> SUFFICES ASSUME NEW u \in DOMAIN v6 PROVE TaskFits(u)'
    BY <1>1 DEF TasksFit
  <2> QED BY <1>2 DEF GatesInv, TasksFit, TaskFits
<1>5. RunnersFit'
  <2> SUFFICES ASSUME NEW r \in Recipes, NEW u \in v2[r], u # 0
               PROVE  v6'[u].at = "resuming" /\ v6'[u].entry.of = r
    BY DEF RunnersFit
  <2>1. v6[u].at = "resuming" /\ v6[u].entry.of = r /\ u \in DOMAIN v6
    BY DEF GatesInv, GatesTyped, RunnersFit
  <2> QED BY <1>1, <2>1
<1>6. OneRunner'
  BY <1>1, <1>2 DEF GatesInv, OneRunner
<1>7. AskedForAll'
  BY DEF AskedForAll
<1>8. OwnOrMixed'
  BY <1>1, <1>2 DEF GatesInv, OwnOrMixed
<1> QED BY <1>3, <1>4, <1>5, <1>6, <1>7, <1>8 DEF GatesInv

\* The bridge has the recipe approved, and waits for a turn to end; or has it denied.
LEMMA TaskDecides ==
  ASSUME GatesInv, NEW t \in DOMAIN v6, v6[t].at = "act", Gate!Waits(v6[t].entry),
         NEW to \in {"approved", "ended"}, Gate!Decided(v6[t].entry, to),
         NEW at, at = IF to = "approved" THEN "idle" ELSE "done",
         v6' = [v6 EXCEPT ![t] = [v6[t] EXCEPT !.at = at]],
         v7' = IF to = "approved" THEN v7 ELSE v7 \cup {t},
         UNCHANGED <<v2, v4, v8, v9>>
  PROVE  GatesInv'
<1> DEFINE k == [v6[t] EXCEPT !.at = at]
           r == v6[t].entry.of
<1>0. k \in GateTask /\ k.at = at /\ k.entry = v6[t].entry /\ k.for = v6[t].for
  <2>1. v6[t] \in GateTask
    BY TaskIs DEF GatesInv, GatesTyped
  <2> QED BY <2>1 DEF GateTask
<1> HIDE DEF k
<1>1. /\ v6' \in Seq(GateTask) /\ Len(v6') = Len(v6) /\ DOMAIN v6' = DOMAIN v6
      /\ v6'[t] = k /\ \A u \in DOMAIN v6 : u # t => v6'[u] = v6[u]
  <2>1. v6' = [v6 EXCEPT ![t] = k]
    BY DEF k
  <2> QED BY <1>0, <2>1, TaskMoves DEF GatesInv, GatesTyped
<1>2. r \in Recipes /\ v6[t].entry.outer
  BY DEF GatesInv, TasksFit, TaskFits
<1>3. v3' = {x \in v3 : x.of # r} /\ v1[r] = "waiting" /\ v1' = [v1 EXCEPT ![r] = to]
  BY <1>2, GateDecided DEF GatesInv
<1> HIDE DEF r
<1>4. /\ ListFits' /\ Stopped' = Stopped \ {r} /\ r \in Stopped
      /\ \A q \in Recipes : v1'[q] = IF q = r THEN to ELSE v1[q]
  BY <1>1, <1>2, <1>3, DecidedFits DEF GatesInv
<1>5. GatesTyped' /\ TurnsFit'
  BY <1>1, <1>3 DEF GatesInv, GatesTyped, TurnsFit
<1>6. TasksFit'
  <2> SUFFICES ASSUME NEW u \in DOMAIN v6 PROVE TaskFits(u)'
    BY <1>1 DEF TasksFit
  <2> QED BY <1>0, <1>1, <1>2 DEF GatesInv, TasksFit, TaskFits, r
<1>7. RunnersFit'
  <2> SUFFICES ASSUME NEW q \in Recipes, NEW u \in v2[q], u # 0
               PROVE  v6'[u].at = "resuming" /\ v6'[u].entry.of = q
    BY DEF RunnersFit
  <2>1. v6[u].at = "resuming" /\ v6[u].entry.of = q /\ u \in DOMAIN v6
    BY DEF GatesInv, GatesTyped, RunnersFit
  <2> QED BY <1>1, <2>1
<1>8. OneRunner'
  <2> SUFFICES ASSUME NEW q \in Recipes \ v8
               PROVE  /\ v1'[q] = "running" <=> v2[q] # {}
                      /\ \A x \in v2[q], y \in v2[q] : x = y
                      /\ \A u \in DOMAIN v6 : v6'[u].at = "idle" /\ v6'[u].entry.of = q =>
                           /\ v1'[q] = "approved"
                           /\ \A w \in DOMAIN v6 : v6'[w].at = "idle" /\ v6'[w].entry.of = q => u = w
    BY <1>1 DEF OneRunner
  <2>1. CASE q = r
    <3>1. \A u \in DOMAIN v6 : ~(v6[u].at = "idle" /\ v6[u].entry.of = r)
      BY <1>3, <2>1 DEF GatesInv, OneRunner
    <3>2. \A u \in DOMAIN v6 : v6'[u].at = "idle" /\ v6'[u].entry.of = r => u = t /\ at = "idle"
      BY <1>0, <1>1, <3>1
    <3> QED BY <1>3, <1>4, <2>1, <3>2 DEF GatesInv, OneRunner
  <2>2. CASE q # r
    <3>1. \A u \in DOMAIN v6 : v6'[u].at = "idle" /\ v6'[u].entry.of = q => v6'[u] = v6[u]
      BY <1>0, <1>1, <2>2 DEF r
    <3> QED BY <1>4, <2>2, <3>1 DEF GatesInv, OneRunner
  <2> QED BY <2>1, <2>2
<1>9. AskedForAll'
  <2>1. CASE to = "approved"
    <3>1. Asked' = Asked \ {t}
      BY <1>0, <1>1, <2>1 DEF Asked
    <3> QED BY <1>4, <2>1, <3>1, FewerStop DEF GatesInv
  <2>2. CASE to = "ended"
    BY <2>2 DEF AskedForAll
  <2> QED BY <2>1, <2>2
<1>10. OwnOrMixed'
  <2> SUFFICES ASSUME NEW u \in DOMAIN v6
               PROVE  /\ v6'[u].at \in {"act", "idle", "resuming"} =>
                           v6'[u].entry.of \in {v6'[u].for} \cup v9
                      /\ v6'[u].at \in {"ask", "route"} =>
                           \A x \in v3' : x.of \in {v6'[u].for} \cup v9
    BY <1>1 DEF OwnOrMixed
  <2> QED BY <1>0, <1>1, <1>3 DEF GatesInv, OwnOrMixed
<1> QED BY <1>4, <1>5, <1>6, <1>7, <1>8, <1>9, <1>10 DEF GatesInv

LEMMA GatesAct ==
  ASSUME GatesInv, NEW t \in DOMAIN v6, Gate!Act(t)
  PROVE  GatesInv'
<1>1. v6[t].at = "act" /\ UNCHANGED <<v2, v4, v8, v9>>
  BY DEF Gate!Act
<1>2. CASE /\ Gate!Waits(v6[t].entry)
           /\ Gate!Decided(v6[t].entry, IF v6[t].allow THEN "approved" ELSE "ended")
           /\ IF v6[t].allow THEN Gate!Step(t, "idle") /\ UNCHANGED v7 ELSE Gate!Done(t)
  <2>1. CASE v6[t].allow
    <3>1. Gate!Decided(v6[t].entry, "approved") /\ v7' = v7
          /\ v6' = [v6 EXCEPT ![t] = [v6[t] EXCEPT !.at = "idle"]]
      BY <1>2, <2>1 DEF Gate!Step
    <3> QED BY <1>1, <1>2, <3>1, TaskDecides
  <2>2. CASE ~v6[t].allow
    <3>1. Gate!Decided(v6[t].entry, "ended") /\ v7' = v7 \cup {t}
          /\ v6' = [v6 EXCEPT ![t] = [v6[t] EXCEPT !.at = "done"]]
      BY <1>2, <2>2 DEF Gate!Done
    <3> QED BY <1>1, <1>2, <3>1, TaskDecides
  <2> QED BY <2>1, <2>2
<1>3. CASE UNCHANGED <<v1, v3>> /\ Gate!Done(t)
  BY <1>1, <1>3, TaskGivesUp DEF Gate!Done
<1> QED BY <1>2, <1>3 DEF Gate!Act

LEMMA GatesResume ==
  ASSUME GatesInv, NEW t \in DOMAIN v6, Gate!Resume(t)
  PROVE  GatesInv'
<1> DEFINE r == v6[t].entry.of
           k == [v6[t] EXCEPT !.at = "resuming"]
<1>1. v6[t].at = "idle" /\ ~v4 /\ UNCHANGED <<v3, v4, v8, v9>>
  BY DEF Gate!Resume, Gate!MayResume
<1>2. CASE UNCHANGED <<v1, v2>> /\ Gate!Done(t)
  BY <1>1, <1>2, TaskGivesUp DEF Gate!Done
<1>3. CASE v1[r] \in {"approved", "running"} /\ Gate!Runs(r, t) /\ Gate!Step(t, "resuming") /\ v7' = v7
  <2>1. /\ v1' = [v1 EXCEPT ![r] = "running"] /\ v2' = [v2 EXCEPT ![r] = v2[r] \cup {t}]
        /\ v6' = [v6 EXCEPT ![t] = k]
    BY <1>3 DEF Gate!Runs, Gate!Step
  <2>2. k \in GateTask /\ k.at = "resuming" /\ k.entry = v6[t].entry /\ k.for = v6[t].for
    BY TaskIs, TaskEnds DEF GatesInv, GatesTyped
  <2> HIDE DEF k
  <2>3. /\ v6' \in Seq(GateTask) /\ Len(v6') = Len(v6) /\ DOMAIN v6' = DOMAIN v6
        /\ v6'[t] = k /\ \A u \in DOMAIN v6 : u # t => v6'[u] = v6[u]
    BY <2>1, <2>2, TaskMoves DEF GatesInv, GatesTyped
  <2>4. r \in Recipes /\ v6[t].entry.outer /\ t # 0
    BY <1>1 DEF GatesInv, GatesTyped, TasksFit, TaskFits
  <2>5. \A q \in Recipes : /\ v1'[q] = IF q = r THEN "running" ELSE v1[q]
                           /\ v2'[q] = IF q = r THEN v2[r] \cup {t} ELSE v2[q]
    BY <2>1 DEF GatesInv, GatesTyped
  <2> HIDE DEF r
  <2>6. GatesTyped'
    <3>1. v1' \in [Recipes -> {"new", "running", "waiting", "approved", "ended"}]
      BY <2>1 DEF GatesInv, GatesTyped
    <3>2. v2' \in [Recipes -> SUBSET ({0} \cup DOMAIN v6)]
      BY <2>1 DEF GatesInv, GatesTyped
    <3> QED BY <1>1, <2>3, <3>1, <3>2 DEF GatesInv, GatesTyped
  <2>7. TasksFit'
    <3> SUFFICES ASSUME NEW u \in DOMAIN v6 PROVE TaskFits(u)'
      BY <2>3 DEF TasksFit
    <3> QED BY <2>2, <2>3, <2>4 DEF GatesInv, TasksFit, TaskFits, r
  <2>8. ListFits'
    BY <1>1, <1>3, <2>3, <2>5 DEF GatesInv, ListFits
  <2>9. RunnersFit'
    <3> SUFFICES ASSUME NEW q \in Recipes, NEW u \in v2'[q], u # 0
                 PROVE  v6'[u].at = "resuming" /\ v6'[u].entry.of = q
      BY DEF RunnersFit
    <3>1. CASE u = t /\ q = r
      BY <2>2, <2>3, <3>1 DEF r
    <3>2. CASE ~(u = t /\ q = r)
      <4>1. u \in v2[q] /\ v6[u].at = "resuming" /\ v6[u].entry.of = q /\ u \in DOMAIN v6
        BY <2>5, <3>2 DEF GatesInv, GatesTyped, RunnersFit
      <4> QED BY <1>1, <2>3, <4>1
    <3> QED BY <3>1, <3>2
  <2>10. TurnsFit'
    BY <1>1, <2>4, <2>5 DEF GatesInv, TurnsFit
  <2>11. OneRunner'
    <3> SUFFICES ASSUME NEW q \in Recipes \ v8
                 PROVE  /\ v1'[q] = "running" <=> v2'[q] # {}
                        /\ \A x \in v2'[q], y \in v2'[q] : x = y
                        /\ \A u \in DOMAIN v6 : v6'[u].at = "idle" /\ v6'[u].entry.of = q =>
                             /\ v1'[q] = "approved"
                             /\ \A w \in DOMAIN v6 : v6'[w].at = "idle" /\ v6'[w].entry.of = q => u = w
      BY <1>1, <2>3 DEF OneRunner
    <3>1. \A u \in DOMAIN v6 : v6'[u].at = "idle" => v6'[u] = v6[u] /\ u # t
      BY <2>2, <2>3
    <3>2. CASE q = r
      <4>1. v1[r] = "approved" /\ \A u \in DOMAIN v6 : v6[u].at = "idle" /\ v6[u].entry.of = r => u = t
        BY <1>1, <3>2 DEF GatesInv, OneRunner, r
      <4>2. v2[r] = {}
        BY <3>2, <4>1 DEF GatesInv, OneRunner
      <4> QED BY <2>5, <3>1, <3>2, <4>1, <4>2
    <3>3. CASE q # r
      BY <2>5, <3>1, <3>3 DEF GatesInv, OneRunner
    <3> QED BY <3>2, <3>3
  <2>12. AskedForAll'
    <3>1. Stopped' = Stopped
      BY <1>3, <2>5 DEF Stopped, r
    <3>2. Asked' = Asked
      BY <1>1, <2>2, <2>3 DEF Asked
    <3> QED BY <1>3, <3>1, <3>2 DEF GatesInv, AskedForAll
  <2>13. OwnOrMixed'
    <3> SUFFICES ASSUME NEW u \in DOMAIN v6
                 PROVE  /\ v6'[u].at \in {"act", "idle", "resuming"} =>
                             v6'[u].entry.of \in {v6'[u].for} \cup v9
                        /\ v6'[u].at \in {"ask", "route"} =>
                             \A x \in v3 : x.of \in {v6'[u].for} \cup v9
      BY <1>1, <2>3 DEF OwnOrMixed
    <3> QED BY <1>1, <2>2, <2>3 DEF GatesInv, OwnOrMixed
  <2> QED BY <2>6, <2>7, <2>8, <2>9, <2>10, <2>11, <2>12, <2>13 DEF GatesInv
<1> QED BY <1>2, <1>3 DEF Gate!Resume

LEMMA GatesNext == GatesInv /\ Gate!Next => GatesInv'
<1> SUFFICES ASSUME GatesInv, Gate!Next PROVE GatesInv'
  OBVIOUS
<1>1. CASE Gate!TurnBegins \/ Gate!TurnEnds
  BY <1>1, GatesTurnBegins, GatesTurnEnds
<1>2. ASSUME NEW r \in Recipes,
             \/ Gate!ModelRuns(r) \/ Gate!Pause(r) \/ Gate!Ends(r)
             \/ \E to \in {"approved", "ended"} : Gate!ModelDecides(r, to)
      PROVE  GatesInv'
  BY <1>2, GatesModelRuns, GatesPause, GatesEnds, GatesModelDecides
<1>3. ASSUME NEW t \in DOMAIN v6,
             \/ Gate!Answer(t, TRUE) \/ Gate!Answer(t, FALSE)
             \/ Gate!Route(t) \/ Gate!Act(t) \/ Gate!Resume(t)
      PROVE  GatesInv'
  BY <1>3, GatesAnswer, GatesRoute, GatesAct, GatesResume
<1> QED BY <1>1, <1>2, <1>3 DEF Gate!Next, Gate!Tasks

LEMMA GatesInit == Gate!Init => GatesInv
<1> SUFFICES ASSUME Gate!Init PROVE GatesInv
  OBVIOUS
<1>1. /\ v1 = [r \in Recipes |-> "new"] /\ v2 = [r \in Recipes |-> {}] /\ v3 = {} /\ v4 = FALSE
      /\ v6 = << >> /\ v8 = {} /\ v9 = {}
  BY DEF Gate!Init
<1>2. DOMAIN v6 = {} /\ v6 \in Seq(GateTask)
  BY <1>1
<1>3. GatesTyped /\ TasksFit /\ ListFits
  BY <1>1, <1>2 DEF GatesTyped, TasksFit, ListFits
<1>4. RunnersFit /\ TurnsFit /\ OneRunner /\ OwnOrMixed
  BY <1>1, <1>2 DEF RunnersFit, TurnsFit, OneRunner, OwnOrMixed
<1>5. AskedForAll
  <2>1. Stopped = {}
    BY <1>1 DEF Stopped
  <2>2. Asked = {}
    BY <1>2 DEF Asked
  <2> QED BY <2>1, <2>2, FS_EmptySet DEF AskedForAll
<1> QED BY <1>3, <1>4, <1>5 DEF GatesInv

LEMMA GatesRest ==
  ASSUME GatesInv, UNCHANGED <<v1, v2, v3, v4, v6, v7, v8, v9>>
  PROVE  GatesInv'
<1>1. GatesTyped' /\ TasksFit' /\ ListFits'
  BY DEF GatesInv, GatesTyped, TasksFit, TaskFits, ListFits
<1>2. RunnersFit' /\ TurnsFit' /\ OneRunner'
  BY DEF GatesInv, RunnersFit, TurnsFit, OneRunner
<1>3. AskedForAll' /\ OwnOrMixed'
  BY DEF GatesInv, AskedForAll, Stopped, Asked, OwnOrMixed
<1> QED BY <1>1, <1>2, <1>3 DEF GatesInv

LEMMA GateCounts == \A S : Gate!Cardinality(S) = Cardinality(S)
  BY Zenon DEF Gate!Cardinality, Cardinality

LEMMA GatesPromise == GatesInv => Gate!GatesSound
<1> SUFFICES ASSUME GatesInv PROVE Gate!GatesSound
  OBVIOUS
<1>1. Gate!RunsOnce
  <2>1. ASSUME NEW r \in Recipes \ v8 PROVE Gate!Cardinality(v2[r]) <= 1
    <3>1. v2[r] = {} \/ \E x : v2[r] = {x}
      <4>1. \A x \in v2[r], y \in v2[r] : x = y
        BY DEF GatesInv, OneRunner
      <4> QED BY <4>1
    <3>2. CASE v2[r] = {}
      <4>1. Gate!Cardinality(v2[r]) = 0
        BY <3>2, GateCounts, FS_EmptySet
      <4> QED BY <4>1
    <3>3. CASE \E x : v2[r] = {x}
      <4>1. Gate!Cardinality(v2[r]) = 1
        BY <3>3, GateCounts, FS_Singleton
      <4> QED BY <4>1
    <3> QED BY <3>1, <3>2, <3>3
  <2> QED BY <2>1 DEF Gate!RunsOnce
<1>2. Gate!NeverSilent
  <2> SUFFICES ASSUME v3 # {}, v7 = {}
               PROVE  \E t \in DOMAIN v6 : v6[t].at \in {"ask", "route", "act"}
    BY DEF Gate!NeverSilent, Gate!Tasks
  <2>1. Stopped # {}
    BY DEF GatesInv, ListFits, Stopped
  <2>2. /\ IsFiniteSet(Stopped) /\ IsFiniteSet(Asked)
        /\ Cardinality(Stopped) \in Nat /\ Cardinality(Asked) \in Nat
    BY GatesFinite DEF GatesInv, GatesTyped
  <2>3. Cardinality(Stopped) # 0
    BY <2>1, <2>2, FS_EmptySet
  <2>4. Cardinality(Asked) # 0
    BY <2>2, <2>3 DEF GatesInv, AskedForAll
  <2>5. Asked # {}
    BY <2>4, FS_EmptySet
  <2> QED BY <2>5 DEF Asked
<1>3. Gate!AnswersItsOwn
  BY DEF GatesInv, OwnOrMixed, Gate!AnswersItsOwn, Gate!Tasks
<1> QED BY <1>1, <1>2, <1>3 DEF Gate!GatesSound

-----------------------------------------------------------------------------
(***************************************************************************)
(* TurnGuard: executing is v1, restoring v2, requested v3, token v4, pc    *)
(* v5, call v6, goal v7, opened v8, closed v9, slipped v13, overlapped     *)
(* v14, fresh v15, early v16, stopped v17, marked v18, unmarked v19.       *)
(***************************************************************************)

Places == Turn!InTurn \cup {"idle", "asking", "finishing", "saving", "rewriting"}
Admitted == Turn!InTurn \cup {"asking"}
OpenAt == {"opening", "running", "finishing", "saving"}
TurnTyped ==
  /\ v1 \in BOOLEAN /\ v2 \in BOOLEAN /\ v3 \in BOOLEAN /\ v4 \in BOOLEAN
  /\ v13 \in BOOLEAN /\ v14 \in BOOLEAN
  /\ v5 \in [Callers -> Places]
  /\ v6 \in [Callers -> {"turn", "goal", "fork", "restore"}]
  /\ \A c \in Callers : v5[c] = "rewriting" => v6[c] \in {"fork", "restore"}
  /\ v7 \in [by : Callers \cup {NoOne}, used : BOOLEAN]
  /\ v8 \in Seq(Callers) /\ v9 \in Seq(Callers)

\* Unless a call slipped through, one turn is admitted, executing says whether it has begun,
\* and nothing is rewritten meanwhile but by a fork that was there first.
RunsAlone ==
  v13 = FALSE =>
    /\ \A c \in Callers, d \in Callers : v5[c] \in Admitted /\ v5[d] \in Admitted => c = d
    /\ v1 = TRUE <=> \E c \in Callers : v5[c] \in Turn!InTurn
    /\ \A c \in Callers, d \in Callers :
         v5[c] \in Admitted /\ v5[d] = "rewriting" => v6[d] = "fork" /\ v14 = TRUE
\* Of the restores under way there is one, and the session says so.
OneRestore ==
  \A c \in Callers : v5[c] = "rewriting" /\ v6[c] = "restore" =>
    /\ v2 = TRUE
    /\ \A d \in Callers : v5[d] = "rewriting" /\ v6[d] = "restore" => c = d
\* Unless calls overlapped, one caller at most is busy, and no call slipped through.
OneAtATime ==
  v14 = FALSE =>
    v13 = FALSE /\ \A c \in Callers, d \in Callers : v5[c] # "idle" /\ v5[d] # "idle" => c = d
\* The token is never older than the turn that is admitted: whoever stops, was meant.
Tokened == v4 = TRUE => \A c \in Callers : v5[c] \in Admitted => c \in v15
StopsFit == \A c \in v17 : c \in Callers /\ c \in v15 /\ v5[c] \notin Admitted
\* An interrupt that came in time is remembered until the turn has its marker.
MarksFit ==
  v14 = FALSE =>
    \A c \in Callers :
      /\ v5[c] \in Admitted \cup {"finishing"} /\ c \in v15 /\ c \notin v16 => v3 = TRUE
      /\ c \in v17 /\ v5[c] # "finishing" => c \in v18 \cup v19 \cup v16
\* Turns opened and closed differ by the one that is open.
Times(s, c) == Cardinality({i \in DOMAIN s : s[i] = c})
Counted ==
  \A c \in Callers : Times(v8, c) = Times(v9, c) + (IF v5[c] \in OpenAt THEN 1 ELSE 0)
\* A goal was worked on, or its turn was opened, or is about to be.
GoalFits ==
  v7 # Turn!NoGoal =>
    /\ v7.by \in Callers
    /\ \/ v7.used = TRUE
       \/ \E i \in DOMAIN v8 : v8[i] = v7.by
       \/ v5[v7.by] \in {"asking", "beginning"} /\ v6[v7.by] = "goal"
TurnInv == /\ TurnTyped /\ RunsAlone /\ OneRestore /\ OneAtATime /\ Tokened /\ StopsFit /\ MarksFit
           /\ Counted /\ GoalFits

LEMMA TurnCounts == \A S : Turn!Cardinality(S) = Cardinality(S)
  BY Zenon DEF Turn!Cardinality, Cardinality

\* One caller goes on.
LEMMA CallerGoes ==
  ASSUME TurnTyped, NEW c \in Callers, NEW to \in Places, Turn!Goes(c, to)
  PROVE  /\ v5' \in [Callers -> Places] /\ v5'[c] = to
         /\ \A d \in Callers : d # c => v5'[d] = v5[d]
  BY DEF TurnTyped, Turn!Goes

LEMMA TimesFinite ==
  ASSUME NEW s \in Seq(Callers), NEW c
  PROVE  IsFiniteSet({i \in DOMAIN s : s[i] = c}) /\ Times(s, c) \in Nat
<1>1. IsFiniteSet(1 .. Len(s))
  BY FS_Interval
<1>2. {i \in DOMAIN s : s[i] = c} \subseteq 1 .. Len(s)
  OBVIOUS
<1> QED BY <1>1, <1>2, FS_Subset, FS_CardinalityType DEF Times

LEMMA OneMoreTime ==
  ASSUME NEW s \in Seq(Callers), NEW c \in Callers, NEW d \in Callers
  PROVE  Times(Append(s, d), c) = Times(s, c) + (IF c = d THEN 1 ELSE 0)
<1> DEFINE at == {i \in DOMAIN s : s[i] = c}
           after == {i \in DOMAIN Append(s, d) : Append(s, d)[i] = c}
           n == Len(s) + 1
<1>1. /\ Append(s, d) \in Seq(Callers) /\ DOMAIN Append(s, d) = 1 .. n /\ DOMAIN s = 1 .. Len(s)
      /\ Len(s) \in Nat /\ Append(s, d)[n] = d
      /\ \A i \in DOMAIN s : Append(s, d)[i] = s[i]
  OBVIOUS
<1>2. IsFiniteSet(at) /\ Cardinality(at) \in Nat
  BY TimesFinite DEF Times
<1>3. n \notin at
  BY <1>1
<1>4. Times(s, c) = Cardinality(at) /\ Times(Append(s, d), c) = Cardinality(after)
  BY DEF Times
<1>5. CASE c = d
  <2>1. \A i : i \in after <=> i \in at \cup {n}
    BY <1>1, <1>5
  <2>2. after = at \cup {n}
    BY <2>1
  <2>3. Cardinality(at \cup {n}) = Cardinality(at) + 1
    BY <1>2, <1>3, FS_AddElement
  <2> HIDE DEF at, after
  <2> QED BY <1>4, <1>5, <2>2, <2>3
<1>6. CASE c # d
  <2>1. \A i : i \in after <=> i \in at
    BY <1>1, <1>6
  <2>2. after = at
    BY <2>1
  <2> HIDE DEF at, after
  <2> QED BY <1>2, <1>4, <1>6, <2>2
<1> QED BY <1>5, <1>6

\* The turn of c goes on within the same part of it: nothing is counted.
LEMMA SameCount ==
  ASSUME TurnTyped, Counted, NEW c \in Callers, UNCHANGED Turn!record,
         v5'[c] \in OpenAt <=> v5[c] \in OpenAt,
         \A d \in Callers : d # c => v5'[d] = v5[d]
  PROVE  Counted'
<1>1. ASSUME NEW d \in Callers
      PROVE  Times(v8', d) = Times(v9', d) + (IF v5'[d] \in OpenAt THEN 1 ELSE 0)
  <2>1. v8' = v8 /\ v9' = v9
    BY DEF Turn!record
  <2>2. v5'[d] \in OpenAt <=> v5[d] \in OpenAt
    OBVIOUS
  <2> QED BY <2>1, <2>2 DEF Counted
<1> QED BY <1>1 DEF Counted, Times

LEMMA TurnRefused ==
  ASSUME TurnInv, NEW c \in Callers, NEW what \in {"turn", "goal"}, Turn!Submit(c, what), ~Turn!MayStart
  PROVE  TurnInv'
<1>1. /\ v5[c] = "idle" /\ v6' = [v6 EXCEPT ![c] = what]
      /\ v7' = IF v6'[c] = "goal" THEN Turn!Disarmed(c, Turn!Armed(c, what)) ELSE Turn!Armed(c, what)
      /\ UNCHANGED <<Turn!flags, Turn!record, v5, v13, v14, v15, v16>>
      /\ v17' = v17 \ {c} /\ v18' = v18 \ {c} /\ v19' = v19 \ {c}
  BY Zenon DEF Turn!Submit, Turn!ClearStaleCancellation, Turn!Called, Turn!Rejected
<1>2. /\ v1' = v1 /\ v2' = v2 /\ v3' = v3
      /\ v4' = v4 /\ v8' = v8 /\ v9' = v9 /\ v5' = v5
      /\ v13' = v13 /\ v14' = v14 /\ v15' = v15 /\ v16' = v16
  BY <1>1 DEF Turn!flags, Turn!record
<1>3. /\ TurnTyped /\ RunsAlone /\ OneRestore /\ OneAtATime /\ Tokened /\ StopsFit /\ MarksFit
      /\ Counted /\ GoalFits
  BY DEF TurnInv
<1>4. v6' \in [Callers -> {"turn", "goal", "fork", "restore"}] /\ v6'[c] = what
      /\ \A d \in Callers : d # c => v6'[d] = v6[d]
  BY <1>1, <1>3 DEF TurnTyped
<1>5. v7' = IF what = "goal" THEN Turn!NoGoal ELSE v7
  <2>1. CASE what = "goal"
    <3>1. Turn!Armed(c, what) = [by |-> c, used |-> FALSE]
      BY <2>1 DEF Turn!Armed
    <3> QED BY <1>1, <1>4, <2>1, <3>1 DEF Turn!Disarmed
  <2>2. CASE what = "turn"
    BY <1>1, <1>4, <2>2 DEF Turn!Armed
  <2> QED BY <2>1, <2>2
<1>6. TurnTyped'
  <2>1. Turn!NoGoal \in [by : Callers \cup {NoOne}, used : BOOLEAN]
    BY DEF Turn!NoGoal
  <2> QED BY <1>1, <1>2, <1>3, <1>4, <1>5, <2>1 DEF TurnTyped
<1>7. RunsAlone' /\ OneRestore'
  BY <1>1, <1>2, <1>3, <1>4 DEF RunsAlone, OneRestore
<1>8. OneAtATime' /\ Tokened' /\ StopsFit' /\ MarksFit' /\ Counted'
  <2>1. StopsFit' /\ MarksFit'
    BY <1>1, <1>2, <1>3 DEF StopsFit, MarksFit
  <2>2. OneAtATime' /\ Tokened'
    BY <1>1, <1>2, <1>3 DEF OneAtATime, Tokened
  <2>3. Counted'
    BY <1>2, <1>3 DEF Counted, Times
  <2> QED BY <2>1, <2>2, <2>3
<1>9. GoalFits'
  BY <1>1, <1>2, <1>3, <1>4, <1>5 DEF GoalFits
<1> QED BY <1>6, <1>7, <1>8, <1>9 DEF TurnInv

\* A call that is let in after another passed its check while it awaited, or before an earlier
\* one had returned.
LEMMA LetIn ==
  ASSUME TurnInv, Turn!Slips, Turn!Overlaps
  PROVE  /\ v13' \in BOOLEAN /\ v14' \in BOOLEAN
         /\ v13' = FALSE => v13 = FALSE /\ \A d \in Callers : v5[d] # "asking"
         /\ v14' = FALSE => v13 = FALSE /\ \A d \in Callers : v5[d] = "idle"
         /\ v14' = FALSE => v13' = FALSE
<1>1. v13 \in BOOLEAN /\ v14 \in BOOLEAN
  BY DEF TurnInv, TurnTyped
<1>2. v13' \in BOOLEAN /\ v14' \in BOOLEAN
  BY <1>1, Zenon DEF Turn!Slips, Turn!Overlaps
<1>3. v13' = FALSE => v13 = FALSE /\ \A d \in Callers : v5[d] # "asking"
  BY <1>1, Zenon DEF Turn!Slips
<1>4. v14' = FALSE => v14 = FALSE /\ \A d \in Callers : v5[d] = "idle"
  <2>1. v14' = FALSE => v14 = FALSE /\ Turn!Busy = {}
    BY <1>1, Zenon DEF Turn!Overlaps
  <2> QED BY <2>1 DEF Turn!Busy
<1>5. v14' = FALSE => v13 = FALSE
  BY <1>4 DEF TurnInv, OneAtATime
<1>6. v13 = FALSE /\ (\A d \in Callers : v5[d] # "asking") => v13' = FALSE
  BY <1>1, Zenon DEF Turn!Slips
<1> QED BY <1>2, <1>3, <1>4, <1>5, <1>6

LEMMA TurnLetIn ==
  ASSUME TurnInv, NEW c \in Callers, NEW what \in {"turn", "goal"}, Turn!Submit(c, what), Turn!MayStart
  PROVE  TurnInv'
<1>1. /\ v5[c] = "idle" /\ v6' = [v6 EXCEPT ![c] = what]
      /\ v7' = Turn!Armed(c, what) /\ v3' = FALSE /\ v4' = FALSE
      /\ v15' = v15 \ {c} /\ v16' = v16 \ {c} /\ Turn!Slips /\ Turn!Overlaps
      /\ \/ Turn!Goes(c, "asking") /\ UNCHANGED v1
         \/ Turn!Goes(c, "beginning") /\ v1' = TRUE
      /\ UNCHANGED <<v2, Turn!record>>
      /\ v17' = v17 \ {c} /\ v18' = v18 \ {c} /\ v19' = v19 \ {c}
      /\ v2 # TRUE /\ v1 # TRUE
  BY Zenon DEF Turn!Submit, Turn!ClearStaleCancellation, Turn!Called, Turn!MayStart
<1>2. v2' = v2 /\ v8' = v8 /\ v9' = v9
  BY <1>1 DEF Turn!record
<1>3. /\ TurnTyped /\ RunsAlone /\ OneRestore /\ OneAtATime /\ Tokened /\ StopsFit /\ MarksFit
      /\ Counted /\ GoalFits
  BY DEF TurnInv
<1>4. v6' \in [Callers -> {"turn", "goal", "fork", "restore"}] /\ v6'[c] = what
      /\ \A d \in Callers : d # c => v6'[d] = v6[d]
  BY <1>1, <1>3 DEF TurnTyped
<1>5. /\ v5' \in [Callers -> Places] /\ v5'[c] \in {"asking", "beginning"}
      /\ \A d \in Callers : d # c => v5'[d] = v5[d]
      /\ IF v5'[c] = "asking" THEN v1' = v1 ELSE v1' = TRUE
  <2>1. CASE Turn!Goes(c, "asking") /\ UNCHANGED v1
    <3>1. "asking" \in Places
      BY DEF Places
    <3> QED BY <1>3, <2>1, <3>1, CallerGoes
  <2>2. CASE Turn!Goes(c, "beginning") /\ v1' = TRUE
    <3>1. "beginning" \in Places
      BY DEF Places, Turn!InTurn
    <3>2. v5' \in [Callers -> Places] /\ v5'[c] = "beginning"
          /\ \A d \in Callers : d # c => v5'[d] = v5[d]
      BY <1>3, <2>2, <3>1, CallerGoes
    <3> QED BY <2>2, <3>2
  <2> QED BY <1>1, <2>1, <2>2
<1>6. /\ v13' \in BOOLEAN /\ v14' \in BOOLEAN
      /\ v13' = FALSE => v13 = FALSE /\ \A d \in Callers : v5[d] # "asking"
      /\ v14' = FALSE => \A d \in Callers : v5[d] = "idle"
      /\ v14' = FALSE => v13' = FALSE
  BY <1>1, LetIn
<1>7. \/ v7' = [by |-> c, used |-> FALSE] /\ what = "goal"
      \/ v7' = v7 /\ what = "turn"
  <2>1. CASE what = "goal"
    BY <1>1, <2>1 DEF Turn!Armed
  <2>2. CASE what = "turn"
    BY <1>1, <2>2 DEF Turn!Armed
  <2> QED BY <2>1, <2>2
<1>8. TurnTyped'
  <2>1. v7' \in [by : Callers \cup {NoOne}, used : BOOLEAN]
    <3>1. [by |-> c, used |-> FALSE] \in [by : Callers \cup {NoOne}, used : BOOLEAN]
      OBVIOUS
    <3>2. v7 \in [by : Callers \cup {NoOne}, used : BOOLEAN]
      BY <1>3 DEF TurnTyped
    <3> QED BY <1>7, <3>1, <3>2
  <2>2. v1' \in BOOLEAN /\ v2' \in BOOLEAN /\ v3' \in BOOLEAN
        /\ v4' \in BOOLEAN
    BY <1>1, <1>2, <1>3, <1>5 DEF TurnTyped
  <2>3. \A d \in Callers : v5'[d] = "rewriting" => v6'[d] \in {"fork", "restore"}
    BY <1>3, <1>4, <1>5 DEF TurnTyped
  <2> QED BY <1>2, <1>3, <1>4, <1>5, <1>6, <2>1, <2>2, <2>3 DEF TurnTyped
<1>9. RunsAlone'
  <2> SUFFICES ASSUME v13' = FALSE
               PROVE  /\ \A a \in Callers, d \in Callers :
                           v5'[a] \in Admitted /\ v5'[d] \in Admitted => a = d
                      /\ v1' = TRUE <=> \E a \in Callers : v5'[a] \in Turn!InTurn
                      /\ \A a \in Callers, d \in Callers :
                           v5'[a] \in Admitted /\ v5'[d] = "rewriting"
                              => v6'[d] = "fork" /\ v14' = TRUE
    BY DEF RunsAlone
  <2>1. \A d \in Callers : v5[d] \notin Admitted
    BY <1>1, <1>3, <1>6 DEF RunsAlone, Admitted
  <2>2. \A d \in Callers : v5'[d] \in Admitted => d = c
    BY <1>5, <2>1
  <2>3. v1' = TRUE <=> v5'[c] \in Turn!InTurn
    BY <1>1, <1>5 DEF Turn!InTurn
  <2>4. v1' = TRUE <=> \E a \in Callers : v5'[a] \in Turn!InTurn
    BY <2>2, <2>3 DEF Admitted
  <2>5. ASSUME NEW d \in Callers, v5'[d] = "rewriting" PROVE v6'[d] = "fork" /\ v14' = TRUE
    <3>1. d # c /\ v5[d] = "rewriting"
      BY <1>5, <2>5
    <3>2. v6[d] = "fork"
      BY <1>1, <1>3, <3>1 DEF OneRestore, TurnTyped
    <3> QED BY <1>4, <1>6, <3>1, <3>2
  <2> QED BY <2>2, <2>4, <2>5
<1>10. OneRestore'
  BY <1>1, <1>2, <1>3, <1>4, <1>5 DEF OneRestore
<1>11. OneAtATime'
  BY <1>5, <1>6 DEF OneAtATime
<1>12. Tokened' /\ StopsFit'
  BY <1>1, <1>3, <1>5 DEF Tokened, StopsFit
<1>13. MarksFit'
  <2> SUFFICES ASSUME v14' = FALSE, NEW d \in Callers
               PROVE  /\ v5'[d] \in Admitted \cup {"finishing"} /\ d \in v15' /\ d \notin v16'
                           => v3' = TRUE
                      /\ d \in v17' /\ v5'[d] # "finishing"
                           => d \in v18' \cup v19' \cup v16'
    BY DEF MarksFit
  <2>1. CASE d = c
    BY <1>1, <2>1
  <2>2. CASE d # c
    <3>1. v5'[d] = "idle" /\ v5[d] = "idle"
      BY <1>5, <1>6, <2>2
    <3>2. v14 = FALSE
      BY <1>1, <1>3, Zenon DEF Turn!Overlaps, TurnTyped
    <3>3. d \in v17 => d \in v18 \cup v19 \cup v16
      BY <1>3, <3>1, <3>2 DEF MarksFit
    <3> QED BY <1>1, <2>2, <3>1, <3>3 DEF Admitted, Turn!InTurn
  <2> QED BY <2>1, <2>2
<1>14. Counted'
  <2>1. ~(v5'[c] \in OpenAt) /\ ~(v5[c] \in OpenAt)
    BY <1>1, <1>5 DEF OpenAt
  <2> QED BY <1>1, <1>3, <1>5, <2>1, SameCount
<1>15. GoalFits'
  BY <1>1, <1>2, <1>3, <1>4, <1>5, <1>7 DEF GoalFits
<1> QED BY <1>8, <1>9, <1>10, <1>11, <1>12, <1>13, <1>14, <1>15 DEF TurnInv

LEMMA TurnAnswered ==
  ASSUME TurnInv, NEW c \in Callers, Turn!Answered(c)
  PROVE  TurnInv'
<1>1. /\ v5[c] = "asking" /\ v1' = TRUE /\ Turn!Goes(c, "beginning") /\ v2' = v2
      /\ v3' = v3 /\ v4' = v4 /\ v6' = v6 /\ v7' = v7
      /\ v8' = v8 /\ v9' = v9 /\ UNCHANGED Turn!record
      /\ v13' = v13 /\ v14' = v14 /\ v15' = v15 /\ v16' = v16
      /\ v17' = v17 /\ v18' = v18 /\ v19' = v19
  BY DEF Turn!Answered, Turn!record, Turn!ghosts
<1>2. /\ TurnTyped /\ RunsAlone /\ OneRestore /\ OneAtATime /\ Tokened /\ StopsFit /\ MarksFit
      /\ Counted /\ GoalFits
  BY DEF TurnInv
<1>3. /\ v5' \in [Callers -> Places] /\ v5'[c] = "beginning"
      /\ \A d \in Callers : d # c => v5'[d] = v5[d]
  <2>1. "beginning" \in Places
    BY DEF Places, Turn!InTurn
  <2> QED BY <1>1, <1>2, <2>1, CallerGoes
<1>4. TurnTyped'
  BY <1>1, <1>2, <1>3 DEF TurnTyped
<1>5. RunsAlone'
  BY <1>1, <1>2, <1>3 DEF RunsAlone, Admitted, Turn!InTurn
<1>6. OneRestore' /\ OneAtATime'
  BY <1>1, <1>2, <1>3 DEF OneRestore, OneAtATime
<1>7. Tokened' /\ StopsFit'
  BY <1>1, <1>2, <1>3 DEF Tokened, StopsFit, Admitted
<1>8. MarksFit'
  BY <1>1, <1>2, <1>3 DEF MarksFit, Admitted
<1>9. Counted'
  BY <1>1, <1>2, <1>3, SameCount DEF OpenAt
<1>10. GoalFits'
  BY <1>1, <1>2, <1>3 DEF GoalFits
<1> QED BY <1>4, <1>5, <1>6, <1>7, <1>8, <1>9, <1>10 DEF TurnInv

LEMMA TurnBeginFails ==
  ASSUME TurnInv, NEW c \in Callers, Turn!BeginFails(c)
  PROVE  TurnInv'
<1>1. /\ v5[c] = "beginning" /\ v1' = FALSE /\ Turn!Goes(c, "idle") /\ v2' = v2
      /\ v3' = v3 /\ v4' = v4 /\ v6' = v6
      /\ v7' = IF v6[c] = "goal" THEN Turn!Disarmed(c, v7) ELSE v7
      /\ v8' = v8 /\ v9' = v9 /\ UNCHANGED Turn!record
      /\ v13' = v13 /\ v14' = v14 /\ v15' = v15 /\ v16' = v16
      /\ v17' = v17 /\ v18' = v18 /\ v19' = v19
  BY DEF Turn!BeginFails, Turn!Rejected, Turn!record, Turn!ghosts
<1>2. /\ TurnTyped /\ RunsAlone /\ OneRestore /\ OneAtATime /\ Tokened /\ StopsFit /\ MarksFit
      /\ Counted /\ GoalFits
  BY DEF TurnInv
<1>3. /\ v5' \in [Callers -> Places] /\ v5'[c] = "idle"
      /\ \A d \in Callers : d # c => v5'[d] = v5[d]
  <2>1. "idle" \in Places
    BY DEF Places
  <2> QED BY <1>1, <1>2, <2>1, CallerGoes
<1>4. \/ v7' = v7 /\ (v6[c] # "goal" \/ v7.by # c \/ v7.used = TRUE)
      \/ v7' = Turn!NoGoal
  BY <1>1, <1>2 DEF Turn!Disarmed, TurnTyped
<1>5. TurnTyped'
  <2>1. Turn!NoGoal \in [by : Callers \cup {NoOne}, used : BOOLEAN]
    BY DEF Turn!NoGoal
  <2> QED BY <1>1, <1>2, <1>3, <1>4, <2>1 DEF TurnTyped
<1>6. RunsAlone'
  BY <1>1, <1>2, <1>3 DEF RunsAlone, Admitted, Turn!InTurn
<1>7. OneRestore' /\ OneAtATime'
  BY <1>1, <1>2, <1>3 DEF OneRestore, OneAtATime
<1>8. Tokened' /\ StopsFit'
  BY <1>1, <1>2, <1>3 DEF Tokened, StopsFit, Admitted, Turn!InTurn
<1>9. MarksFit'
  BY <1>1, <1>2, <1>3 DEF MarksFit, StopsFit, Admitted, Turn!InTurn
<1>10. Counted'
  BY <1>1, <1>2, <1>3, SameCount DEF OpenAt
<1>11. GoalFits'
  <2>1. CASE v7' = v7 /\ (v6[c] # "goal" \/ v7.by # c \/ v7.used = TRUE)
    BY <1>1, <1>2, <1>3, <2>1 DEF GoalFits
  <2>2. CASE v7' = Turn!NoGoal
    BY <2>2 DEF GoalFits, Turn!NoGoal
  <2> QED BY <1>4, <2>1, <2>2
<1> QED BY <1>5, <1>6, <1>7, <1>8, <1>9, <1>10, <1>11 DEF TurnInv

LEMMA TurnOpen ==
  ASSUME TurnInv, NEW c \in Callers, Turn!Open(c)
  PROVE  TurnInv'
<1>1. /\ v5[c] = "beginning" /\ Turn!Goes(c, "opening") /\ v1' = v1
      /\ v2' = v2
      /\ v3' = v3 /\ v4' = v4 /\ v6' = v6 /\ v7' = v7
      /\ v8' = Append(v8, c) /\ v9' = v9
      /\ v13' = v13 /\ v14' = v14 /\ v15' = v15 /\ v16' = v16
      /\ v17' = v17 /\ v18' = v18 /\ v19' = v19
  BY DEF Turn!Open, Turn!flags, Turn!ghosts
<1>2. /\ TurnTyped /\ RunsAlone /\ OneRestore /\ OneAtATime /\ Tokened /\ StopsFit /\ MarksFit
      /\ Counted /\ GoalFits
  BY DEF TurnInv
<1>3. /\ v5' \in [Callers -> Places] /\ v5'[c] = "opening"
      /\ \A d \in Callers : d # c => v5'[d] = v5[d]
  <2>1. "opening" \in Places
    BY DEF Places, Turn!InTurn
  <2> QED BY <1>1, <1>2, <2>1, CallerGoes
<1>4. /\ v8 \in Seq(Callers) /\ v8' \in Seq(Callers)
      /\ \E i \in DOMAIN v8' : v8'[i] = c
      /\ \A i \in DOMAIN v8 : i \in DOMAIN v8' /\ v8'[i] = v8[i]
  <2>1. v8 \in Seq(Callers)
    BY <1>2 DEF TurnTyped
  <2>2. /\ Append(v8, c) \in Seq(Callers) /\ Append(v8, c)[Len(v8) + 1] = c
        /\ Len(v8) + 1 \in DOMAIN Append(v8, c)
        /\ \A i \in DOMAIN v8 :
             i \in DOMAIN Append(v8, c) /\ Append(v8, c)[i] = v8[i]
    BY <2>1
  <2> QED BY <1>1, <2>1, <2>2
<1>5. TurnTyped'
  BY <1>1, <1>2, <1>3, <1>4 DEF TurnTyped
<1>6. RunsAlone'
  BY <1>1, <1>2, <1>3 DEF RunsAlone, Admitted, Turn!InTurn
<1>7. OneRestore' /\ OneAtATime'
  BY <1>1, <1>2, <1>3 DEF OneRestore, OneAtATime
<1>8. Tokened' /\ StopsFit'
  BY <1>1, <1>2, <1>3 DEF Tokened, StopsFit, Admitted, Turn!InTurn
<1>9. MarksFit'
  BY <1>1, <1>2, <1>3 DEF MarksFit, Admitted, Turn!InTurn
<1>10. Counted'
  <2>1. ASSUME NEW d \in Callers
        PROVE  Times(v8', d) = Times(v9', d) + (IF v5'[d] \in OpenAt THEN 1 ELSE 0)
    <3>1. Times(Append(v8, c), d) = Times(v8, d) + (IF d = c THEN 1 ELSE 0)
      BY <1>4, OneMoreTime
    <3>2. Times(v8', d) = Times(v8, d) + (IF d = c THEN 1 ELSE 0)
          /\ Times(v9', d) = Times(v9, d)
      BY <1>1, <3>1
    <3>3. Times(v8, d) = Times(v9, d) + (IF v5[d] \in OpenAt THEN 1 ELSE 0)
          /\ Times(v9, d) \in Nat
      BY <1>2, TimesFinite DEF Counted, TurnTyped
    <3>4. IF d = c THEN v5[d] \notin OpenAt /\ v5'[d] \in OpenAt ELSE v5'[d] = v5[d]
      BY <1>1, <1>3 DEF OpenAt
    <3> QED BY <3>2, <3>3, <3>4
  <2> QED BY <2>1 DEF Counted, Times
<1>11. GoalFits'
  BY <1>1, <1>2, <1>3, <1>4 DEF GoalFits
<1> QED BY <1>5, <1>6, <1>7, <1>8, <1>9, <1>10, <1>11 DEF TurnInv

LEMMA TurnExecute ==
  ASSUME TurnInv, NEW c \in Callers, Turn!Execute(c)
  PROVE  TurnInv'
<1>1. /\ v5[c] = "opening" /\ Turn!Goes(c, "running") /\ v1' = v1
      /\ v2' = v2
      /\ v3' = v3 /\ v4' = v4 /\ v6' = v6 /\ v7' = v7
      /\ v8' = v8 /\ v9' = v9 /\ UNCHANGED Turn!record
      /\ v13' = v13 /\ v14' = v14 /\ v15' = v15 /\ v16' = v16
      /\ v17' = v17 /\ v18' = v18 /\ v19' = v19
  BY DEF Turn!Execute, Turn!flags, Turn!record, Turn!ghosts
<1>2. /\ TurnTyped /\ RunsAlone /\ OneRestore /\ OneAtATime /\ Tokened /\ StopsFit /\ MarksFit
      /\ Counted /\ GoalFits
  BY DEF TurnInv
<1>3. /\ v5' \in [Callers -> Places] /\ v5'[c] = "running"
      /\ \A d \in Callers : d # c => v5'[d] = v5[d]
  <2>1. "running" \in Places
    BY DEF Places, Turn!InTurn
  <2> QED BY <1>1, <1>2, <2>1, CallerGoes
<1>4. TurnTyped'
  BY <1>1, <1>2, <1>3 DEF TurnTyped
<1>5. RunsAlone'
  BY <1>1, <1>2, <1>3 DEF RunsAlone, Admitted, Turn!InTurn
<1>6. OneRestore' /\ OneAtATime'
  BY <1>1, <1>2, <1>3 DEF OneRestore, OneAtATime
<1>7. Tokened' /\ StopsFit'
  BY <1>1, <1>2, <1>3 DEF Tokened, StopsFit, Admitted, Turn!InTurn
<1>8. MarksFit'
  BY <1>1, <1>2, <1>3 DEF MarksFit, Admitted, Turn!InTurn
<1>9. Counted'
  BY <1>1, <1>2, <1>3, SameCount DEF OpenAt
<1>10. GoalFits'
  BY <1>1, <1>2, <1>3 DEF GoalFits
<1> QED BY <1>4, <1>5, <1>6, <1>7, <1>8, <1>9, <1>10 DEF TurnInv

LEMMA TurnPursue ==
  ASSUME TurnInv, NEW c \in Callers, Turn!Pursue(c)
  PROVE  TurnInv'
<1>1. /\ v7 # Turn!NoGoal /\ v7' = [v7 EXCEPT !.used = TRUE] /\ v1' = v1
      /\ v2' = v2 /\ v5' = v5
      /\ v3' = v3 /\ v4' = v4 /\ v6' = v6
      /\ v8' = v8 /\ v9' = v9 /\ UNCHANGED Turn!record
      /\ v13' = v13 /\ v14' = v14 /\ v15' = v15 /\ v16' = v16
      /\ v17' = v17 /\ v18' = v18 /\ v19' = v19
  BY DEF Turn!Pursue, Turn!flags, Turn!record, Turn!ghosts
<1>2. /\ TurnTyped /\ RunsAlone /\ OneRestore /\ OneAtATime /\ Tokened /\ StopsFit /\ MarksFit
      /\ Counted /\ GoalFits
  BY DEF TurnInv
<1>3. v7' \in [by : Callers \cup {NoOne}, used : BOOLEAN] /\ v7'.by = v7.by
      /\ v7'.used = TRUE
  BY <1>1, <1>2 DEF TurnTyped
<1>4. TurnTyped'
  BY <1>1, <1>2, <1>3 DEF TurnTyped
<1>5. RunsAlone' /\ OneRestore' /\ OneAtATime'
  BY <1>1, <1>2 DEF RunsAlone, OneRestore, OneAtATime
<1>6. Tokened' /\ StopsFit' /\ MarksFit'
  BY <1>1, <1>2 DEF Tokened, StopsFit, MarksFit
<1>7. Counted'
  BY <1>1, <1>2, SameCount
<1>8. GoalFits'
  BY <1>1, <1>2, <1>3 DEF GoalFits
<1> QED BY <1>4, <1>5, <1>6, <1>7, <1>8 DEF TurnInv

LEMMA TurnEnd ==
  ASSUME TurnInv, NEW c \in Callers, Turn!End(c)
  PROVE  TurnInv'
<1>1. /\ v5[c] \in {"opening", "running"} /\ Turn!Goes(c, "finishing") /\ v1' = FALSE
      /\ \/ v17' = v17
         \/ v17' = v17 \cup {c} /\ v4 = TRUE
      /\ v2' = v2
      /\ v3' = v3 /\ v4' = v4 /\ v6' = v6 /\ v7' = v7
      /\ v8' = v8 /\ v9' = v9 /\ UNCHANGED Turn!record
      /\ v13' = v13 /\ v14' = v14 /\ v15' = v15 /\ v16' = v16
      /\ v18' = v18 /\ v19' = v19
  <2>1. ASSUME v17' \in {v17} \cup {v17 \cup {x} : x \in {c} \cap {y \in Callers : v4}}
        PROVE  \/ v17' = v17
               \/ v17' = v17 \cup {c} /\ v4 = TRUE
    <3>1. CASE v4 = TRUE
      BY <2>1, <3>1
    <3>2. CASE v4 = FALSE
      BY <2>1, <3>2
    <3> QED BY <3>1, <3>2 DEF TurnInv, TurnTyped
  <2> QED BY <2>1 DEF Turn!End, Turn!record
<1>2. /\ TurnTyped /\ RunsAlone /\ OneRestore /\ OneAtATime /\ Tokened /\ StopsFit /\ MarksFit
      /\ Counted /\ GoalFits
  BY DEF TurnInv
<1>3. /\ v5' \in [Callers -> Places] /\ v5'[c] = "finishing"
      /\ \A d \in Callers : d # c => v5'[d] = v5[d]
  <2>1. "finishing" \in Places
    BY DEF Places
  <2> QED BY <1>1, <1>2, <2>1, CallerGoes
<1>4. v5[c] \in Admitted /\ v5[c] \in Turn!InTurn
  BY <1>1 DEF Admitted, Turn!InTurn
<1>5. TurnTyped'
  BY <1>1, <1>2, <1>3 DEF TurnTyped
<1>6. RunsAlone'
  BY <1>1, <1>2, <1>3, <1>4 DEF RunsAlone, Admitted, Turn!InTurn
<1>7. OneRestore' /\ OneAtATime'
  BY <1>1, <1>2, <1>3 DEF OneRestore, OneAtATime
<1>8. Tokened' /\ StopsFit'
  BY <1>1, <1>2, <1>3, <1>4 DEF Tokened, StopsFit, Admitted, Turn!InTurn
<1>9. MarksFit'
  BY <1>1, <1>2, <1>3, <1>4 DEF MarksFit
<1>10. Counted'
  BY <1>1, <1>2, <1>3, SameCount DEF OpenAt
<1>11. GoalFits'
  BY <1>1, <1>2, <1>3 DEF GoalFits
<1> QED BY <1>5, <1>6, <1>7, <1>8, <1>9, <1>10, <1>11 DEF TurnInv

LEMMA TurnFinish ==
  ASSUME TurnInv, NEW c \in Callers, Turn!Finish(c)
  PROVE  TurnInv'
<1>1. /\ v5[c] = "finishing" /\ Turn!Goes(c, "saving") /\ v1' = v1
      /\ IF v3 = TRUE
           THEN /\ v3' = FALSE /\ v18 \subseteq v18' /\ v19 \subseteq v19'
                /\ c \in v18' \cup v19'
           ELSE v3' = v3 /\ v18' = v18 /\ v19' = v19
      /\ v2' = v2 /\ v17' = v17
      /\ v4' = v4 /\ v6' = v6 /\ v7' = v7
      /\ v8' = v8 /\ v9' = v9 /\ UNCHANGED Turn!record
      /\ v13' = v13 /\ v14' = v14 /\ v15' = v15 /\ v16' = v16
  <2>1. v3 \in BOOLEAN
    BY DEF TurnInv, TurnTyped
  <2>2. CASE v3 = TRUE
    BY <2>2 DEF Turn!Finish, Turn!record
  <2>3. CASE v3 = FALSE
    BY <2>3 DEF Turn!Finish, Turn!record
  <2> QED BY <2>1, <2>2, <2>3
<1>2. /\ TurnTyped /\ RunsAlone /\ OneRestore /\ OneAtATime /\ Tokened /\ StopsFit /\ MarksFit
      /\ Counted /\ GoalFits
  BY DEF TurnInv
<1>3. /\ v5' \in [Callers -> Places] /\ v5'[c] = "saving"
      /\ \A d \in Callers : d # c => v5'[d] = v5[d]
  <2>1. "saving" \in Places
    BY DEF Places
  <2> QED BY <1>1, <1>2, <2>1, CallerGoes
<1>4. v3' \in BOOLEAN
  BY <1>1, <1>2 DEF TurnTyped
<1>5. TurnTyped'
  BY <1>1, <1>2, <1>3, <1>4 DEF TurnTyped
<1>6. RunsAlone'
  BY <1>1, <1>2, <1>3 DEF RunsAlone, Admitted, Turn!InTurn
<1>7. OneRestore' /\ OneAtATime'
  BY <1>1, <1>2, <1>3 DEF OneRestore, OneAtATime
<1>8. Tokened' /\ StopsFit'
  BY <1>1, <1>2, <1>3 DEF Tokened, StopsFit, Admitted, Turn!InTurn
<1>9. MarksFit'
  <2> SUFFICES ASSUME v14' = FALSE, NEW d \in Callers
               PROVE  /\ v5'[d] \in Admitted \cup {"finishing"} /\ d \in v15' /\ d \notin v16'
                           => v3' = TRUE
                      /\ d \in v17' /\ v5'[d] # "finishing"
                           => d \in v18' \cup v19' \cup v16'
    BY DEF MarksFit
  <2>1. CASE d # c
    <3>1. v5'[d] = "idle" /\ v5[d] = "idle"
      BY <1>1, <1>2, <1>3, <2>1 DEF OneAtATime
    <3> QED BY <1>1, <1>2, <3>1 DEF MarksFit, Admitted, Turn!InTurn
  <2>2. CASE d = c
    <3>1. v5'[d] \notin Admitted \cup {"finishing"}
      BY <1>3, <2>2 DEF Admitted, Turn!InTurn
    <3>2. CASE v3 = TRUE
      BY <1>1, <2>2, <3>1, <3>2
    <3>3. CASE v3 # TRUE
      BY <1>1, <1>2, <2>2, <3>1, <3>3 DEF MarksFit, StopsFit
    <3> QED BY <3>2, <3>3
  <2> QED BY <2>1, <2>2
<1>10. Counted'
  BY <1>1, <1>2, <1>3, SameCount DEF OpenAt
<1>11. GoalFits'
  BY <1>1, <1>2, <1>3 DEF GoalFits
<1> QED BY <1>5, <1>6, <1>7, <1>8, <1>9, <1>10, <1>11 DEF TurnInv

LEMMA TurnCloseOut ==
  ASSUME TurnInv, NEW c \in Callers, Turn!CloseOut(c)
  PROVE  TurnInv'
<1>1. /\ v5[c] = "saving" /\ Turn!Goes(c, "idle") /\ v1' = v1
      /\ v2' = v2
      /\ v3' = v3 /\ v4' = v4 /\ v6' = v6 /\ v7' = v7
      /\ v9' = Append(v9, c) /\ v8' = v8
      /\ v13' = v13 /\ v14' = v14 /\ v15' = v15 /\ v16' = v16
      /\ v17' = v17 /\ v18' = v18 /\ v19' = v19
  BY DEF Turn!CloseOut, Turn!flags, Turn!ghosts
<1>2. /\ TurnTyped /\ RunsAlone /\ OneRestore /\ OneAtATime /\ Tokened /\ StopsFit /\ MarksFit
      /\ Counted /\ GoalFits
  BY DEF TurnInv
<1>3. /\ v5' \in [Callers -> Places] /\ v5'[c] = "idle"
      /\ \A d \in Callers : d # c => v5'[d] = v5[d]
  <2>1. "idle" \in Places
    BY DEF Places
  <2> QED BY <1>1, <1>2, <2>1, CallerGoes
<1>4. v9 \in Seq(Callers) /\ v9' \in Seq(Callers)
  BY <1>1, <1>2 DEF TurnTyped
<1>5. TurnTyped'
  BY <1>1, <1>2, <1>3, <1>4 DEF TurnTyped
<1>6. RunsAlone'
  BY <1>1, <1>2, <1>3 DEF RunsAlone, Admitted, Turn!InTurn
<1>7. OneRestore' /\ OneAtATime'
  BY <1>1, <1>2, <1>3 DEF OneRestore, OneAtATime
<1>8. Tokened' /\ StopsFit'
  BY <1>1, <1>2, <1>3 DEF Tokened, StopsFit, Admitted, Turn!InTurn
<1>9. MarksFit'
  BY <1>1, <1>2, <1>3 DEF MarksFit, Admitted, Turn!InTurn
<1>10. Counted'
  <2>1. ASSUME NEW d \in Callers
        PROVE  Times(v8', d) = Times(v9', d) + (IF v5'[d] \in OpenAt THEN 1 ELSE 0)
    <3>1. Times(Append(v9, c), d) = Times(v9, d) + (IF d = c THEN 1 ELSE 0)
      BY <1>4, OneMoreTime
    <3>2. Times(v9', d) = Times(v9, d) + (IF d = c THEN 1 ELSE 0)
          /\ Times(v8', d) = Times(v8, d)
      BY <1>1, <3>1
    <3>3. Times(v8, d) = Times(v9, d) + (IF v5[d] \in OpenAt THEN 1 ELSE 0)
          /\ Times(v9, d) \in Nat
      BY <1>2, TimesFinite DEF Counted, TurnTyped
    <3>4. IF d = c THEN v5'[d] \notin OpenAt /\ v5[d] \in OpenAt ELSE v5'[d] = v5[d]
      BY <1>1, <1>3 DEF OpenAt
    <3> QED BY <3>2, <3>3, <3>4
  <2> QED BY <2>1 DEF Counted, Times
<1>11. GoalFits'
  BY <1>1, <1>2, <1>3 DEF GoalFits
<1> QED BY <1>5, <1>6, <1>7, <1>8, <1>9, <1>10, <1>11 DEF TurnInv

LEMMA TurnInterrupt ==
  ASSUME TurnInv, Turn!Interrupt
  PROVE  TurnInv'
<1>1. /\ v4' = TRUE /\ v15' = v15 \cup Turn!Reaches
      /\ v3' = (v3 \/ v1)
      /\ v16' = IF v1 = TRUE THEN v16 ELSE v16 \cup Turn!Reaches
      /\ v1' = v1 /\ v2' = v2 /\ v5' = v5
      /\ v6' = v6 /\ v7' = v7
      /\ v8' = v8 /\ v9' = v9 /\ UNCHANGED Turn!record
      /\ v13' = v13 /\ v14' = v14
      /\ v17' = v17 /\ v18' = v18 /\ v19' = v19
  <2>1. v1 \in BOOLEAN
    BY DEF TurnInv, TurnTyped
  <2>2. v16' = IF v1 = TRUE THEN v16 ELSE v16 \cup Turn!Reaches
    BY <2>1, Zenon DEF Turn!Interrupt
  <2> QED BY <2>2 DEF Turn!Interrupt, Turn!Noted, Turn!record
<1>2. /\ TurnTyped /\ RunsAlone /\ OneRestore /\ OneAtATime /\ Tokened /\ StopsFit /\ MarksFit
      /\ Counted /\ GoalFits
  BY DEF TurnInv
<1>3. /\ v3' \in BOOLEAN /\ (v3 = TRUE => v3' = TRUE)
      /\ (v1 = TRUE => v3' = TRUE)
  <2>1. v3 \in BOOLEAN /\ v1 \in BOOLEAN
    BY <1>2 DEF TurnTyped
  <2> QED BY <1>1, <2>1, Zenon
<1>4. TurnTyped'
  BY <1>1, <1>2, <1>3 DEF TurnTyped
<1>5. RunsAlone' /\ OneRestore' /\ OneAtATime'
  BY <1>1, <1>2 DEF RunsAlone, OneRestore, OneAtATime
<1>6. \A d \in Callers : d \in Turn!Reaches <=> v5[d] \in Admitted
  BY DEF Turn!Reaches, Admitted
<1>7. Tokened' /\ StopsFit'
  BY <1>1, <1>2, <1>6 DEF Tokened, StopsFit
<1>8. MarksFit'
  <2> SUFFICES ASSUME v14' = FALSE, NEW d \in Callers
               PROVE  /\ v5'[d] \in Admitted \cup {"finishing"} /\ d \in v15' /\ d \notin v16'
                           => v3' = TRUE
                      /\ d \in v17' /\ v5'[d] # "finishing"
                           => d \in v18' \cup v19' \cup v16'
    BY DEF MarksFit
  <2>1. v16 \subseteq v16' /\ (v1 = FALSE => Turn!Reaches \subseteq v16')
    BY <1>1
  <2>2. ASSUME v5'[d] \in Admitted \cup {"finishing"}, d \in v15', d \notin v16'
        PROVE  v3' = TRUE
    <3>1. CASE d \in Turn!Reaches
      BY <1>2, <1>3, <2>1, <2>2, <3>1 DEF TurnTyped
    <3>2. CASE d \notin Turn!Reaches
      BY <1>1, <1>2, <1>3, <2>1, <2>2, <3>2 DEF MarksFit
    <3> QED BY <3>1, <3>2
  <2>3. d \in v17' /\ v5'[d] # "finishing" => d \in v18' \cup v19' \cup v16'
    BY <1>1, <1>2, <2>1 DEF MarksFit
  <2> QED BY <2>2, <2>3
<1>9. Counted'
  BY <1>1, <1>2 DEF Counted, Times
<1>10. GoalFits'
  BY <1>1, <1>2 DEF GoalFits
<1> QED BY <1>4, <1>5, <1>7, <1>8, <1>9, <1>10 DEF TurnInv

LEMMA TurnRewrite ==
  ASSUME TurnInv, NEW c \in Callers, NEW what \in {"fork", "restore"}, Turn!Rewrite(c, what)
  PROVE  TurnInv'
<1>1. /\ v5[c] = "idle" /\ v6' = [v6 EXCEPT ![c] = what] /\ v1' = v1
      /\ \/ UNCHANGED <<v2, v5, v13, v14>>
         \/ /\ ~(what = "restore" /\ v2) /\ v1 # TRUE
            /\ v2' = (v2 \/ what = "restore")
            /\ Turn!Goes(c, "rewriting") /\ Turn!Slips /\ Turn!Overlaps
      /\ v3' = v3 /\ v4' = v4 /\ v7' = v7
      /\ v8' = v8 /\ v9' = v9 /\ UNCHANGED Turn!record
      /\ v15' = v15 /\ v16' = v16
      /\ v17' = v17 /\ v18' = v18 /\ v19' = v19
  <2>1. v1 \in BOOLEAN
    BY DEF TurnInv, TurnTyped
  <2> QED BY <2>1, Zenon DEF Turn!Rewrite, Turn!Called, Turn!record
<1>2. /\ TurnTyped /\ RunsAlone /\ OneRestore /\ OneAtATime /\ Tokened /\ StopsFit /\ MarksFit
      /\ Counted /\ GoalFits
  BY DEF TurnInv
<1>3. v6' \in [Callers -> {"turn", "goal", "fork", "restore"}] /\ v6'[c] = what
      /\ \A d \in Callers : d # c => v6'[d] = v6[d]
  BY <1>1, <1>2 DEF TurnTyped
<1>4. CASE UNCHANGED <<v2, v5, v13, v14>>
  <2>1. v2' = v2 /\ v5' = v5 /\ v13' = v13 /\ v14' = v14
    BY <1>4
  <2>2. TurnTyped'
    BY <1>1, <1>2, <1>3, <2>1 DEF TurnTyped
  <2>3. RunsAlone' /\ OneRestore' /\ OneAtATime'
    BY <1>1, <1>2, <1>3, <2>1 DEF RunsAlone, OneRestore, OneAtATime
  <2>4. Tokened' /\ StopsFit' /\ MarksFit'
    BY <1>1, <1>2, <2>1 DEF Tokened, StopsFit, MarksFit
  <2>5. Counted'
    BY <1>1, <1>2, <2>1, SameCount
  <2>6. GoalFits'
    BY <1>1, <1>2, <1>3, <2>1 DEF GoalFits
  <2> QED BY <2>2, <2>3, <2>4, <2>5, <2>6 DEF TurnInv
<1>5. CASE /\ ~(what = "restore" /\ v2) /\ v1 # TRUE
           /\ v2' = (v2 \/ what = "restore")
           /\ Turn!Goes(c, "rewriting") /\ Turn!Slips /\ Turn!Overlaps
  <2>1. /\ v5' \in [Callers -> Places] /\ v5'[c] = "rewriting"
        /\ \A d \in Callers : d # c => v5'[d] = v5[d]
    <3>1. "rewriting" \in Places
      BY DEF Places
    <3> QED BY <1>2, <1>5, <3>1, CallerGoes
  <2>2. /\ v13' \in BOOLEAN /\ v14' \in BOOLEAN
        /\ v13' = FALSE => v13 = FALSE /\ \A d \in Callers : v5[d] # "asking"
        /\ v14' = FALSE => \A d \in Callers : v5[d] = "idle"
        /\ v14' = FALSE => v13' = FALSE
    BY <1>5, LetIn
  <2>3. /\ v2' \in BOOLEAN /\ (v2 = TRUE => v2' = TRUE)
        /\ (what = "restore" => v2' = TRUE /\ v2 = FALSE)
    <3>1. v2 \in BOOLEAN
      BY <1>2 DEF TurnTyped
    <3> QED BY <1>5, <3>1, Zenon
  <2>4. TurnTyped'
    BY <1>1, <1>2, <1>3, <2>1, <2>2, <2>3 DEF TurnTyped
  <2>5. RunsAlone'
    <3>1. v13' = FALSE => \A d \in Callers : v5'[d] \notin Admitted
      BY <1>2, <1>5, <2>1, <2>2 DEF RunsAlone, Admitted, Turn!InTurn
    <3> QED BY <1>1, <1>5, <3>1 DEF RunsAlone, Admitted
  <2>6. OneRestore'
    <3>1. what = "restore" => \A d \in Callers : ~(v5[d] = "rewriting" /\ v6[d] = "restore")
      BY <1>2, <2>3 DEF OneRestore
    <3> QED BY <1>2, <1>3, <2>1, <2>3, <3>1 DEF OneRestore
  <2>7. OneAtATime'
    BY <2>1, <2>2 DEF OneAtATime
  <2>8. Tokened' /\ StopsFit'
    BY <1>1, <1>2, <2>1 DEF Tokened, StopsFit, Admitted, Turn!InTurn
  <2>9. MarksFit'
    <3>1. v14' = FALSE => v14 = FALSE
      BY <1>2, <1>5, Zenon DEF Turn!Overlaps, TurnTyped
    <3> QED BY <1>1, <1>2, <2>1, <3>1 DEF MarksFit, Admitted, Turn!InTurn
  <2>10. Counted'
    BY <1>1, <1>2, <2>1, SameCount DEF OpenAt
  <2>11. GoalFits'
    BY <1>1, <1>2, <1>3, <2>1 DEF GoalFits
  <2> QED BY <2>4, <2>5, <2>6, <2>7, <2>8, <2>9, <2>10, <2>11 DEF TurnInv
<1> QED BY <1>1, <1>4, <1>5

LEMMA TurnRewritten ==
  ASSUME TurnInv, NEW c \in Callers, Turn!Rewritten(c)
  PROVE  TurnInv'
<1>1. /\ v5[c] = "rewriting" /\ Turn!Goes(c, "idle") /\ v1' = v1
      /\ v2' = (v2 /\ v6[c] # "restore")
      /\ v3' = v3 /\ v4' = v4 /\ v6' = v6 /\ v7' = v7
      /\ v8' = v8 /\ v9' = v9 /\ UNCHANGED Turn!record
      /\ v13' = v13 /\ v14' = v14 /\ v15' = v15 /\ v16' = v16
      /\ v17' = v17 /\ v18' = v18 /\ v19' = v19
  BY DEF Turn!Rewritten, Turn!record, Turn!ghosts
<1>2. /\ TurnTyped /\ RunsAlone /\ OneRestore /\ OneAtATime /\ Tokened /\ StopsFit /\ MarksFit
      /\ Counted /\ GoalFits
  BY DEF TurnInv
<1>3. /\ v5' \in [Callers -> Places] /\ v5'[c] = "idle"
      /\ \A d \in Callers : d # c => v5'[d] = v5[d]
  <2>1. "idle" \in Places
    BY DEF Places
  <2> QED BY <1>1, <1>2, <2>1, CallerGoes
<1>4. v2' \in BOOLEAN /\ (v2 = TRUE /\ v6[c] # "restore" => v2' = TRUE)
  <2>1. v2 \in BOOLEAN
    BY <1>2 DEF TurnTyped
  <2> QED BY <1>1, <2>1, Zenon
<1>5. TurnTyped'
  BY <1>1, <1>2, <1>3, <1>4 DEF TurnTyped
<1>6. RunsAlone'
  BY <1>1, <1>2, <1>3 DEF RunsAlone, Admitted, Turn!InTurn
<1>7. OneRestore' /\ OneAtATime'
  BY <1>1, <1>2, <1>3, <1>4 DEF OneRestore, OneAtATime
<1>8. Tokened' /\ StopsFit'
  BY <1>1, <1>2, <1>3 DEF Tokened, StopsFit, Admitted, Turn!InTurn
<1>9. MarksFit'
  BY <1>1, <1>2, <1>3 DEF MarksFit, Admitted, Turn!InTurn
<1>10. Counted'
  BY <1>1, <1>2, <1>3, SameCount DEF OpenAt
<1>11. GoalFits'
  BY <1>1, <1>2, <1>3 DEF GoalFits
<1> QED BY <1>5, <1>6, <1>7, <1>8, <1>9, <1>10, <1>11 DEF TurnInv

LEMMA TurnNext == TurnInv /\ Turn!Next => TurnInv'
<1>1. ASSUME NEW c \in Callers, NEW what \in {"turn", "goal"}, Turn!Submit(c, what), TurnInv
      PROVE  TurnInv'
  BY <1>1, TurnRefused, TurnLetIn
<1> QED BY <1>1, TurnAnswered, TurnBeginFails, TurnOpen, TurnExecute, TurnPursue, TurnEnd, TurnFinish,
           TurnCloseOut, TurnRewritten, TurnRewrite, TurnInterrupt DEF Turn!Next

LEMMA TurnInit == Turn!Init => TurnInv
<1> SUFFICES ASSUME Turn!Init PROVE TurnInv
  OBVIOUS
<1>1. TurnTyped
  <2>1. Turn!NoGoal \in [by : Callers \cup {NoOne}, used : BOOLEAN]
    BY DEF Turn!NoGoal
  <2>2. << >> \in Seq(Callers)
    OBVIOUS
  <2>3. v5 \in [Callers -> Places] /\ v6 \in [Callers -> {"turn", "goal", "fork", "restore"}]
        /\ \A c \in Callers : v5[c] = "idle"
    BY DEF Turn!Init, Places
  <2> QED BY <2>1, <2>2, <2>3 DEF Turn!Init, TurnTyped
<1>2. RunsAlone /\ OneRestore /\ OneAtATime /\ Tokened /\ StopsFit
  BY DEF Turn!Init, RunsAlone, OneRestore, OneAtATime, Tokened, StopsFit, Admitted, Turn!InTurn
<1>3. MarksFit
  BY DEF Turn!Init, MarksFit
<1>4. Counted
  <2>1. \A c \in Callers : Times(v8, c) = Times(v9, c) /\ Times(v9, c) \in Nat
    BY <1>1, TimesFinite DEF Turn!Init, TurnTyped
  <2> QED BY <2>1 DEF Turn!Init, Counted, OpenAt
<1>5. GoalFits
  BY DEF Turn!Init, GoalFits
<1> QED BY <1>1, <1>2, <1>3, <1>4, <1>5 DEF TurnInv

LEMMA TurnRests == TurnInv /\ UNCHANGED Turn!vars => TurnInv'
  BY DEF Turn!vars, Turn!flags, Turn!record, Turn!bounds, Turn!ghosts, TurnInv, TurnTyped, RunsAlone, OneRestore, OneAtATime,
         Tokened, StopsFit, MarksFit, Counted, GoalFits, Times

LEMMA TurnPromises == TurnInv => Turn!TurnSound
<1> SUFFICES ASSUME TurnInv PROVE Turn!TurnSound
  OBVIOUS
<1>1. /\ TurnTyped /\ RunsAlone /\ OneRestore /\ OneAtATime /\ Tokened /\ StopsFit /\ MarksFit
      /\ Counted /\ GoalFits
  BY DEF TurnInv
<1>2. Turn!TypeOK
  BY <1>1 DEF Turn!TypeOK, TurnTyped, Places
<1>3. Turn!Alone
  <2>1. CASE v13 = TRUE
    BY <2>1 DEF Turn!Alone
  <2>2. CASE v13 = FALSE
    <3>1. CASE v1 = TRUE
      <4>1. PICK c \in Callers : v5[c] \in Turn!InTurn
        BY <1>1, <2>2, <3>1 DEF RunsAlone
      <4>2. \A d : d \in {x \in Callers : v5[x] \in Turn!InTurn} <=> d = c
        BY <1>1, <2>2, <4>1 DEF RunsAlone, Admitted
      <4>3. {x \in Callers : v5[x] \in Turn!InTurn} = {c}
        BY <4>2
      <4>4. Cardinality({c}) = 1
        BY FS_Singleton
      <4>5. \A d \in Callers : v5[d] = "rewriting" => v6[d] = "fork" /\ v14
        BY <1>1, <2>2, <4>1 DEF RunsAlone, Admitted
      <4> QED BY <3>1, <4>3, <4>4, <4>5, TurnCounts DEF Turn!Alone
    <3>2. CASE v1 = FALSE
      <4>1. {x \in Callers : v5[x] \in Turn!InTurn} = {}
        BY <1>1, <2>2, <3>2 DEF RunsAlone
      <4>2. Cardinality({}) = 0
        BY FS_EmptySet
      <4> QED BY <3>2, <4>1, <4>2, TurnCounts DEF Turn!Alone
    <3> QED BY <1>1, <3>1, <3>2 DEF TurnTyped
  <2> QED BY <1>1, <2>1, <2>2 DEF TurnTyped
<1>4. Turn!StopsOwnTurn
  BY <1>1 DEF Turn!StopsOwnTurn, StopsFit
<1>5. Turn!StoppedIsMarked
  BY <1>1 DEF Turn!StoppedIsMarked, MarksFit, StopsFit, TurnTyped
<1>6. Turn!ClosedOut
  <2> SUFFICES ASSUME Turn!Busy = {}, NEW c \in Callers PROVE Times(v8, c) = Times(v9, c)
    BY TurnCounts DEF Turn!ClosedOut, Times
  <2>1. v5[c] \notin OpenAt
    BY DEF Turn!Busy, OpenAt
  <2>2. Times(v9, c) \in Nat
    BY <1>1, TimesFinite DEF TurnTyped
  <2> QED BY <1>1, <2>1, <2>2 DEF Counted
<1>7. Turn!NoInvisibleGoal
  BY <1>1 DEF Turn!NoInvisibleGoal, GoalFits
<1> QED BY <1>2, <1>3, <1>4, <1>5, <1>6, <1>7 DEF Turn!TurnSound

-----------------------------------------------------------------------------
(***************************************************************************)
(* Delegation: limit is v1, kids v2, step v3, governed v4, linked v5,      *)
(* nesting v6, acted v7, cut v8, status v9, lane v10, holding v11, age     *)
(* v12, heard v13, typed v14, dropped v15.                                 *)
(***************************************************************************)

Stages == Child!Busy \cup {"done", "leaked"}
Kid == [parent : {Child!Root} \cup Child!Ids, depth : 1 .. v1, builder : BOOLEAN]
Displayed == {"executing", "retrying", "unwinding"}
KidsTyped ==
  /\ v1 \in 1 .. MaxDepth
  /\ v2 \in Seq(Kid) /\ Len(v2) <= MaxChildren
  /\ v3 \in Seq(Stages) /\ Len(v3) = Len(v2)
  /\ v9 \in Seq({"none", "success", "incomplete", "error", "aborted"}) /\ Len(v9) = Len(v2)
  /\ v4 \subseteq Child!Kids /\ v5 \subseteq Child!Kids /\ v7 \subseteq Child!Kids /\ v8 \subseteq Child!Kids

\* A child runs inside its parent's turn, is governed from its wiring on and linked while it is
\* executed, and gives both up when it is done.
KidFits(c) ==
  /\ v2[c].parent \in 0 .. c - 1
  /\ v3[c] \in Child!Busy => Child!Executing(v2[c].parent)
  /\ v3[c] \in {"wired"} \cup Displayed => c \in v4
  /\ v3[c] \in Displayed => c \in v5
  /\ v3[c] = "done" => c \notin v4 /\ c \notin v5
KidsFit == \A c \in Child!Kids : KidFits(c)
InDisplay == {c \in Child!Kids : v3[c] \in Displayed}
KidsInv == KidsTyped /\ KidsFit /\ v6 = Cardinality(InDisplay)

SteersTyped ==
  /\ v10 \in [Child!Ids -> Seq(Nat)] /\ v13 \in [Child!Ids -> Seq(Nat)] /\ v12 \in [Child!Ids -> Nat]
  /\ v11 \in {Child!Nothing} \cup [lane : Child!Ids, age : Nat]
  /\ v14 \in Seq(Child!Ids)

\* What a lane was given and what it still has to hear were typed, in this order.
SteersFit ==
  /\ \A c \in Child!Ids : \A i \in DOMAIN Child!Steers(c) : Child!Steers(c)[i] \in 1 .. Len(v14)
  /\ Child!SteersKept
SteersInv == SteersTyped /\ SteersFit

ChildInv == KidsInv /\ SteersInv

\* What Executing(p) says of the state that a step leads to.
ExecutingNext(p) == p = Child!Root \/ (p \in DOMAIN v2' /\ v3'[p] \in {"executing", "retrying"})

LEMMA ChildCounts == \A S : Child!Cardinality(S) = Cardinality(S)
  BY Zenon DEF Child!Cardinality, Cardinality

LEMMA ChildBounds == MaxDepth \in Nat \ {0} /\ MaxChildren \in Nat
  BY PermissionsAssumption DEF Child!DelegationAssumption

LEMMA KidsAre ==
  ASSUME KidsTyped
  PROVE  /\ Child!Kids = 1 .. Len(v2) /\ Len(v2) \in Nat /\ Child!Kids \subseteq Child!Ids
         /\ DOMAIN v3 = Child!Kids /\ DOMAIN v9 = Child!Kids
         /\ \A c \in Child!Kids : v2[c] \in Kid /\ v3[c] \in Stages
  BY ChildBounds DEF KidsTyped, Child!Kids, Child!Ids

\* One child goes on.
LEMMA KidGoes ==
  ASSUME KidsTyped, NEW c \in Child!Kids, NEW to \in Stages, Child!Goes(c, to), UNCHANGED <<v1, v2>>,
         v9' \in Seq({"none", "success", "incomplete", "error", "aborted"}),
         Len(v9') = Len(v9),
         v4' \subseteq Child!Kids, v5' \subseteq Child!Kids, v7' \subseteq Child!Kids, v8' \subseteq Child!Kids
  PROVE  /\ KidsTyped' /\ v3'[c] = to /\ \A d \in Child!Kids : d # c => v3'[d] = v3[d]
<1>1. v3 \in Seq(Stages) /\ c \in 1 .. Len(v3) /\ Child!Kids' = Child!Kids
  BY KidsAre DEF KidsTyped, Child!Kids
<1>2. v3' \in Seq(Stages) /\ Len(v3') = Len(v3)
  BY <1>1, ExceptSeq DEF Child!Goes
<1>3. v3'[c] = to /\ \A d \in Child!Kids : d # c => v3'[d] = v3[d]
  BY <1>1, KidsAre DEF Child!Goes
<1>4. KidsTyped'
  BY <1>1, <1>2 DEF KidsTyped, Kid, Child!Ids
<1> QED BY <1>3, <1>4

\* It neither leaves a child of its own behind nor enters where it would not fit.
LEMMA KidsFitAfter ==
  ASSUME KidsTyped, KidsFit, NEW c \in Child!Kids, NEW to \in Stages, UNCHANGED v2,
         v3'[c] = to, \A d \in Child!Kids : d # c => v3'[d] = v3[d],
         \A d \in Child!Kids : d # c => (d \in v4' <=> d \in v4) /\ (d \in v5' <=> d \in v5),
         to \in Child!Busy => v3[c] \in Child!Busy,
         v3[c] \in {"executing", "retrying"} => to \in {"executing", "retrying"} \/ ~Child!Waits(c),
         to \in {"wired"} \cup Displayed => c \in v4',
         to \in Displayed => c \in v5',
         to = "done" => c \notin v4' /\ c \notin v5'
  PROVE  KidsFit'
<1>1. Child!Kids' = Child!Kids /\ Child!Kids = 1 .. Len(v2)
  BY KidsAre DEF Child!Kids
<1> SUFFICES ASSUME NEW d \in Child!Kids PROVE KidFits(d)'
  BY <1>1 DEF KidsFit
<1>2. KidFits(d) /\ v2'[d] = v2[d]
  BY DEF KidsFit
<1>3. ASSUME v3'[d] \in Child!Busy PROVE ExecutingNext(v2[d].parent)
  <2>1. PICK p : p = v2[d].parent
    OBVIOUS
  <2>2. Child!Executing(p) /\ p \in 0 .. d - 1 /\ v3[d] \in Child!Busy
    BY <1>2, <1>3, <2>1 DEF KidFits
  <2>3. CASE p = Child!Root
    BY <2>1, <2>3 DEF ExecutingNext
  <2>4. CASE p # Child!Root
    <3>1. p \in Child!Kids /\ v3[p] \in {"executing", "retrying"}
      BY <2>2, <2>4 DEF Child!Executing
    <3>2. v3'[p] \in {"executing", "retrying"}
      <4>1. CASE p # c
        BY <3>1, <4>1
      <4>2. CASE p = c
        <5>1. Child!Waits(c)
          BY <2>1, <2>2, <4>2 DEF Child!Waits, Child!Open
        <5> QED BY <3>1, <4>2, <5>1
      <4> QED BY <4>1, <4>2
    <3> QED BY <1>1, <2>1, <3>1, <3>2 DEF ExecutingNext, Child!Kids
  <2> QED BY <2>3, <2>4
<1>4. v3'[d] \in Child!Busy => Child!Executing(v2[d].parent)'
  BY <1>2, <1>3 DEF ExecutingNext, Child!Executing, Child!Kids
<1>5. CASE d = c
  BY <1>2, <1>4, <1>5 DEF KidFits
<1>6. CASE d # c
  BY <1>2, <1>4, <1>6 DEF KidFits
<1> QED BY <1>5, <1>6

LEMMA DisplayFinite ==
  ASSUME KidsTyped
  PROVE  IsFiniteSet(InDisplay) /\ Cardinality(InDisplay) \in 0 .. MaxChildren
<1>1. Child!Kids = 1 .. Len(v2) /\ Len(v2) \in Nat /\ Len(v2) <= MaxChildren
  BY KidsAre DEF KidsTyped
<1>2. IsFiniteSet(1 .. Len(v2)) /\ Cardinality(1 .. Len(v2)) = Len(v2)
  <2>1. /\ IsFiniteSet(1 .. Len(v2))
        /\ Cardinality(1 .. Len(v2)) = IF 1 > Len(v2) THEN 0 ELSE Len(v2) - 1 + 1
    BY <1>1, FS_Interval
  <2> QED BY <1>1, <2>1
<1>3. InDisplay \subseteq 1 .. Len(v2)
  BY <1>1 DEF InDisplay
<1>4. IsFiniteSet(InDisplay) /\ Cardinality(InDisplay) <= Len(v2) /\ Cardinality(InDisplay) \in Nat
  BY <1>2, <1>3, FS_Subset, FS_CardinalityType
<1> QED BY <1>1, <1>4, ChildBounds

\* Steps within what the display shows, and those that enter it or leave it.
LEMMA DisplaySame ==
  ASSUME KidsTyped, NEW c \in Child!Kids, UNCHANGED v2, \A d \in Child!Kids : d # c => v3'[d] = v3[d],
         v3'[c] \in Displayed <=> v3[c] \in Displayed
  PROVE  InDisplay' = InDisplay
<1>1. \A d : d \in InDisplay' <=> d \in InDisplay
  BY DEF InDisplay, Child!Kids
<1> QED BY <1>1

LEMMA DisplayMore ==
  ASSUME KidsTyped, NEW c \in Child!Kids, UNCHANGED v2, \A d \in Child!Kids : d # c => v3'[d] = v3[d],
         v3'[c] \in Displayed, v3[c] \notin Displayed
  PROVE  Cardinality(InDisplay') = Cardinality(InDisplay) + 1
<1>1. \A d : d \in InDisplay' <=> d \in InDisplay \cup {c}
  BY DEF InDisplay, Child!Kids
<1>2. InDisplay' = InDisplay \cup {c} /\ c \notin InDisplay
  BY <1>1 DEF InDisplay
<1> QED BY <1>2, DisplayFinite, FS_AddElement

LEMMA DisplayLess ==
  ASSUME KidsTyped, NEW c \in Child!Kids, UNCHANGED v2, \A d \in Child!Kids : d # c => v3'[d] = v3[d],
         v3'[c] \notin Displayed, v3[c] \in Displayed
  PROVE  Cardinality(InDisplay') = Cardinality(InDisplay) - 1
<1>1. \A d : d \in InDisplay' <=> d \in InDisplay \ {c}
  BY DEF InDisplay, Child!Kids
<1>2. InDisplay' = InDisplay \ {c} /\ c \in InDisplay
  BY <1>1 DEF InDisplay
<1> QED BY <1>2, DisplayFinite, FS_RemoveElement

LEMMA KidsSpawn ==
  ASSUME KidsInv, NEW s \in {Child!Root} \cup Child!Kids, NEW builder \in BOOLEAN, Child!Spawn(s, builder)
  PROVE  KidsInv'
<1> DEFINE kid == [parent |-> s, depth |-> Child!DepthOf(s) + 1, builder |-> builder]
<1>1. /\ Child!Executing(s) /\ Len(v2) < MaxChildren /\ ~Child!TooDeep(s)
      /\ v2' = Append(v2, kid) /\ v3' = Append(v3, "created")
      /\ v9' = Append(v9, "none") /\ v1' = v1 /\ v4' = v4
      /\ v5' = v5 /\ v6' = v6 /\ v7' = v7 /\ v8' = v8
  BY DEF Child!Spawn
<1>2. KidsTyped /\ KidsFit /\ v6 = Cardinality(InDisplay)
  BY DEF KidsInv
<1>3. /\ Child!Kids = 1 .. Len(v2) /\ Len(v2) \in Nat /\ Child!Kids \subseteq Child!Ids /\ DOMAIN v3 = Child!Kids
      /\ \A c \in Child!Kids : v2[c] \in Kid /\ v3[c] \in Stages
  BY <1>2, KidsAre
<1>4. kid \in Kid
  <2>1. v1 \in Nat
    BY <1>2, ChildBounds DEF KidsTyped
  <2>2. Child!DepthOf(s) \in Nat
    BY <1>3 DEF Child!DepthOf, Kid, Child!Root
  <2>3. Child!DepthOf(s) + 1 \in 1 .. v1
    BY <1>1, <2>1, <2>2 DEF Child!TooDeep
  <2>4. s \in {Child!Root} \cup Child!Ids
    BY <1>3
  <2> QED BY <2>3, <2>4 DEF Kid
<1> HIDE DEF kid
<1>5. PICK n : n = Len(v2) + 1
  OBVIOUS
<1>6. /\ v2' \in Seq(Kid) /\ Len(v2') = n /\ v2'[n] = kid
      /\ \A c \in Child!Kids : v2'[c] = v2[c]
  BY <1>1, <1>2, <1>3, <1>4, <1>5, AppendProperties DEF KidsTyped
<1>7. /\ v3' \in Seq(Stages) /\ Len(v3') = n /\ v3'[n] = "created"
      /\ \A c \in Child!Kids : v3'[c] = v3[c]
  <2>1. "created" \in Stages
    BY DEF Stages, Child!Busy
  <2> QED BY <1>1, <1>2, <1>3, <1>5, <2>1, AppendProperties DEF KidsTyped
<1>8. Child!Kids' = 1 .. n /\ Child!Kids \subseteq Child!Kids' /\ n \in Nat /\ n \notin Child!Kids
      /\ \A d \in Child!Kids' : d \in Child!Kids \/ d = n
  BY <1>3, <1>5, <1>6 DEF Child!Kids
<1>9. KidsTyped'
  <2>1. v9' \in Seq({"none", "success", "incomplete", "error", "aborted"}) /\ Len(v9') = n
    BY <1>1, <1>2, <1>5, AppendProperties DEF KidsTyped
  <2>2. n <= MaxChildren
    BY <1>1, <1>3, <1>5, ChildBounds
  <2>3. v2' \in Seq(Kid')
    BY <1>1, <1>6 DEF Kid, Child!Ids
  <2> QED BY <1>1, <1>2, <1>6, <1>7, <1>8, <2>1, <2>2, <2>3 DEF KidsTyped
<1>10. \A p \in {Child!Root} \cup Child!Kids : Child!Executing(p) => ExecutingNext(p)
  BY <1>7, <1>8 DEF Child!Executing, ExecutingNext, Child!Kids
<1>11. KidsFit'
  <2> SUFFICES ASSUME NEW d \in Child!Kids' PROVE KidFits(d)'
    BY DEF KidsFit
  <2>1. CASE d \in Child!Kids
    <3> DEFINE p == v2[d].parent
    <3>1. KidFits(d) /\ v2'[d].parent = p /\ v3'[d] = v3[d] /\ d \in Nat
      BY <1>2, <1>3, <1>6, <1>7, <2>1 DEF KidsFit
    <3>2. p \in {Child!Root} \cup Child!Kids /\ p \in 0 .. d - 1
      BY <1>3, <2>1, <3>1 DEF KidFits, Child!Root
    <3>3. v3[d] \in Child!Busy => Child!Executing(p)
      BY <3>1 DEF KidFits
    <3> HIDE DEF p
    <3>4. v3'[d] \in Child!Busy => ExecutingNext(p)
      BY <1>10, <3>1, <3>2, <3>3
    <3>5. v3'[d] \in Child!Busy => Child!Executing(v2[d].parent)'
      BY <3>1, <3>4 DEF Child!Executing, ExecutingNext, Child!Kids
    <3> QED BY <1>1, <3>1, <3>2, <3>5 DEF KidFits
  <2>2. CASE d = n
    <3>1. v3'[d] = "created" /\ v2'[d].parent = s
      BY <1>6, <1>7, <2>2 DEF kid
    <3>2. s \in 0 .. d - 1
      BY <1>3, <1>5, <2>2 DEF Child!Root
    <3>3. ExecutingNext(s)
      BY <1>1, <1>10
    <3>4. Child!Executing(v2[d].parent)'
      BY <3>1, <3>3 DEF Child!Executing, ExecutingNext, Child!Kids
    <3> QED BY <3>1, <3>2, <3>4 DEF KidFits, Displayed
  <2> QED BY <1>8, <2>1, <2>2
<1>12. InDisplay' = InDisplay
  <2>1. \A d : d \in InDisplay' <=> d \in InDisplay
    BY <1>7, <1>8 DEF InDisplay, Displayed
  <2> QED BY <2>1
<1> QED BY <1>1, <1>2, <1>9, <1>11, <1>12 DEF KidsInv

LEMMA KidsWire ==
  ASSUME KidsInv, NEW c \in Child!Kids, Child!Wire(c) \/ Child!Start(c) \/ Child!SetUpFails(c)
  PROVE  KidsInv'
<1>1. KidsTyped /\ KidsFit /\ v6 = Cardinality(InDisplay) /\ KidFits(c)
  BY DEF KidsInv, KidsFit
<1>2. v9 \in Seq({"none", "success", "incomplete", "error", "aborted"})
      /\ v4 \subseteq Child!Kids /\ v5 \subseteq Child!Kids /\ v7 \subseteq Child!Kids /\ v8 \subseteq Child!Kids
  BY <1>1 DEF KidsTyped
<1>3. CASE Child!Wire(c)
  <2>1. /\ v3[c] = "created" /\ v4' = v4 \cup {c} /\ Child!Goes(c, "wired")
        /\ v1' = v1 /\ v2' = v2 /\ v5' = v5 /\ v6' = v6
        /\ v7' = v7 /\ v8' = v8 /\ v9' = v9
    BY <1>3 DEF Child!Wire
  <2>2. KidsTyped' /\ v3'[c] = "wired" /\ \A d \in Child!Kids : d # c => v3'[d] = v3[d]
    BY <1>1, <1>2, <2>1, KidGoes DEF Stages, Child!Busy
  <2>3. KidsFit'
    BY <1>1, <2>1, <2>2, KidsFitAfter DEF Stages, Child!Busy, Displayed
  <2>4. InDisplay' = InDisplay
    BY <1>1, <2>1, <2>2, DisplaySame DEF Displayed
  <2> QED BY <1>1, <2>1, <2>2, <2>3, <2>4 DEF KidsInv
<1>4. CASE Child!Start(c)
  <2>1. /\ v3[c] = "wired" /\ v5' = v5 \cup {c} /\ Child!Goes(c, "executing")
        /\ v1' = v1 /\ v2' = v2 /\ v4' = v4 /\ v6' = v6 + 1
        /\ v7' = v7 /\ v8' = v8 /\ v9' = v9
    BY <1>4 DEF Child!Start
  <2>2. KidsTyped' /\ v3'[c] = "executing" /\ \A d \in Child!Kids : d # c => v3'[d] = v3[d]
    BY <1>1, <1>2, <2>1, KidGoes DEF Stages, Child!Busy
  <2>3. c \in v4
    BY <1>1, <2>1 DEF KidFits
  <2>4. KidsFit'
    BY <1>1, <2>1, <2>2, <2>3, KidsFitAfter DEF Stages, Child!Busy, Displayed
  <2>5. Cardinality(InDisplay') = Cardinality(InDisplay) + 1
    BY <1>1, <2>1, <2>2, DisplayMore DEF Displayed
  <2> QED BY <1>1, <2>1, <2>2, <2>4, <2>5 DEF KidsInv
<1>5. CASE Child!SetUpFails(c)
  <2>1. /\ v3[c] \in {"created", "wired"} /\ Child!Goes(c, "leaked")
        /\ v1' = v1 /\ v2' = v2 /\ v4' = v4 /\ v5' = v5
        /\ v6' = v6 /\ v7' = v7 /\ v8' = v8 /\ v9' = v9
    BY <1>5 DEF Child!SetUpFails
  <2>2. KidsTyped' /\ v3'[c] = "leaked" /\ \A d \in Child!Kids : d # c => v3'[d] = v3[d]
    BY <1>1, <1>2, <2>1, KidGoes DEF Stages, Child!Busy
  <2>3. KidsFit'
    BY <1>1, <2>1, <2>2, KidsFitAfter DEF Stages, Child!Busy, Displayed
  <2>4. InDisplay' = InDisplay
    BY <1>1, <2>1, <2>2, DisplaySame DEF Displayed
  <2> QED BY <1>1, <2>1, <2>2, <2>3, <2>4 DEF KidsInv
<1> QED BY <1>3, <1>4, <1>5

\* Nothing but what was seen of the tools changes.
LEMMA KidsAct ==
  ASSUME KidsInv, UNCHANGED <<v1, v2, v3, v4, v5, v6, v9>>,
         v7' \subseteq Child!Kids, v8' \subseteq Child!Kids
  PROVE  KidsInv'
<1>1. KidsTyped' /\ Child!Kids' = Child!Kids /\ InDisplay' = InDisplay
  BY DEF KidsInv, KidsTyped, Child!Kids, Kid, Child!Ids, InDisplay
<1>2. KidsFit'
  BY DEF KidsInv, KidsFit, KidFits, Child!Executing, Child!Kids
<1> QED BY <1>1, <1>2 DEF KidsInv

LEMMA KidsReturn ==
  ASSUME KidsInv, NEW c \in Child!Kids, NEW what \in {"success", "incomplete", "error", "aborted"},
         Child!Executing(c), ~Child!Waits(c), Child!Returns(c, what),
         UNCHANGED <<v1, v2, v4, v5, v6, v7, v8>>
  PROVE  KidsInv'
<1>1. KidsTyped /\ KidsFit /\ v6 = Cardinality(InDisplay) /\ KidFits(c)
  BY DEF KidsInv, KidsFit
<1>2. v3[c] \in {"executing", "retrying"}
  BY <1>1, KidsAre DEF Child!Executing, Child!Root
<1>3. /\ v9' \in Seq({"none", "success", "incomplete", "error", "aborted"})
      /\ Len(v9') = Len(v9)
  <2>1. v9 \in Seq({"none", "success", "incomplete", "error", "aborted"})
        /\ c \in 1 .. Len(v9)
    BY <1>1, KidsAre DEF KidsTyped
  <2>2. v9' = [v9 EXCEPT ![c] = what]
    BY DEF Child!Returns
  <2> QED BY <2>1, <2>2, ExceptSeq
<1>4. v4 \subseteq Child!Kids /\ v5 \subseteq Child!Kids /\ v7 \subseteq Child!Kids /\ v8 \subseteq Child!Kids
  BY <1>1 DEF KidsTyped
<1>5. Child!Goes(c, "unwinding")
  BY DEF Child!Returns
<1>6. KidsTyped' /\ v3'[c] = "unwinding" /\ \A d \in Child!Kids : d # c => v3'[d] = v3[d]
  BY <1>1, <1>3, <1>4, <1>5, KidGoes DEF Stages, Child!Busy
<1>7. c \in v4 /\ c \in v5
  BY <1>1, <1>2 DEF KidFits, Displayed
<1>8. KidsFit'
  BY <1>1, <1>2, <1>6, <1>7, KidsFitAfter DEF Stages, Child!Busy, Displayed
<1>9. InDisplay' = InDisplay
  BY <1>1, <1>2, <1>6, DisplaySame DEF Displayed
<1> QED BY <1>1, <1>6, <1>8, <1>9 DEF KidsInv

LEMMA KidsAnswer ==
  ASSUME KidsInv, NEW c \in Child!Kids, Child!Answer(c)
  PROVE  KidsInv'
<1>1. KidsTyped /\ KidsFit /\ v6 = Cardinality(InDisplay) /\ KidFits(c)
  BY DEF KidsInv, KidsFit
<1>2. /\ Child!Executing(c) /\ ~Child!Waits(c)
      /\ UNCHANGED <<v1, v2, v4, v5, v6, v7, v8>>
      /\ \/ Child!MustRetry(c) /\ Child!Goes(c, "retrying") /\ UNCHANGED v9
         \/ Child!Returns(c, Child!Outcome(c))
  BY Zenon DEF Child!Answer
<1>3. CASE Child!MustRetry(c) /\ Child!Goes(c, "retrying") /\ UNCHANGED v9
  <2>1. v3[c] = "executing" /\ c \in v4 /\ c \in v5
    BY <1>1, <1>3 DEF Child!MustRetry, KidFits, Displayed
  <2>2. v9 \in Seq({"none", "success", "incomplete", "error", "aborted"})
        /\ v4 \subseteq Child!Kids /\ v5 \subseteq Child!Kids /\ v7 \subseteq Child!Kids /\ v8 \subseteq Child!Kids
    BY <1>1 DEF KidsTyped
  <2>3. KidsTyped' /\ v3'[c] = "retrying" /\ \A d \in Child!Kids : d # c => v3'[d] = v3[d]
    BY <1>1, <1>2, <1>3, <2>2, KidGoes DEF Stages, Child!Busy
  <2>4. KidsFit'
    BY <1>1, <1>2, <2>1, <2>3, KidsFitAfter DEF Stages, Child!Busy, Displayed
  <2>5. InDisplay' = InDisplay
    BY <1>1, <1>2, <2>1, <2>3, DisplaySame DEF Displayed
  <2> QED BY <1>1, <1>2, <2>3, <2>4, <2>5 DEF KidsInv
<1>4. CASE Child!Returns(c, Child!Outcome(c))
  <2>1. Child!Outcome(c) \in {"success", "incomplete", "error", "aborted"}
    BY DEF Child!Outcome
  <2> QED BY <1>2, <1>4, <2>1, KidsReturn
<1> QED BY <1>2, <1>3, <1>4

LEMMA KidsUnwind ==
  ASSUME KidsInv, NEW c \in Child!Kids, Child!Unwind(c)
  PROVE  KidsInv'
<1>1. KidsTyped /\ KidsFit /\ v6 = Cardinality(InDisplay) /\ KidFits(c)
  BY DEF KidsInv, KidsFit
<1>2. /\ v3[c] = "unwinding" /\ v4' = v4 \ {c} /\ v5' = v5 \ {c}
      /\ v6' = v6 - 1 /\ Child!Goes(c, "done")
      /\ UNCHANGED <<v1, v2, v7, v8, v9>>
  BY DEF Child!Unwind, Child!Unlink
<1>3. v9 \in Seq({"none", "success", "incomplete", "error", "aborted"})
      /\ v4 \subseteq Child!Kids /\ v5 \subseteq Child!Kids /\ v7 \subseteq Child!Kids /\ v8 \subseteq Child!Kids
  BY <1>1 DEF KidsTyped
<1>4. KidsTyped' /\ v3'[c] = "done" /\ \A d \in Child!Kids : d # c => v3'[d] = v3[d]
  BY <1>1, <1>2, <1>3, KidGoes DEF Stages, Child!Busy
<1>5. KidsFit'
  BY <1>1, <1>2, <1>4, KidsFitAfter DEF Stages, Child!Busy, Displayed
<1>6. Cardinality(InDisplay') = Cardinality(InDisplay) - 1
  BY <1>1, <1>2, <1>4, DisplayLess DEF Displayed
<1> QED BY <1>1, <1>2, <1>4, <1>5, <1>6 DEF KidsInv

LEMMA KidsSame == KidsInv /\ UNCHANGED Child!childVars => KidsInv'
<1> SUFFICES ASSUME KidsInv, UNCHANGED Child!childVars PROVE KidsInv'
  OBVIOUS
<1>1. /\ v1' = v1 /\ v2' = v2 /\ v3' = v3 /\ v4' = v4
      /\ v5' = v5 /\ v7' = v7 /\ v8' = v8 /\ v9' = v9 /\ v6' = v6
  BY DEF Child!childVars
<1>2. v7' \subseteq Child!Kids /\ v8' \subseteq Child!Kids
  BY <1>1 DEF KidsInv, KidsTyped
<1> QED BY <1>1, <1>2, KidsAct

-----------------------------------------------------------------------------
\* Sequences of steers.
LEMMA SteersAre ==
  ASSUME SteersTyped, NEW c \in Child!Ids
  PROVE  /\ Child!Steers(c) \in Seq(Nat) /\ Len(Child!Steers(c)) \in Nat
         /\ DOMAIN Child!Steers(c) = 1 .. Len(Child!Steers(c))
         /\ v13[c] \in Seq(Nat) /\ v10[c] \in Seq(Nat)
<1>1. v13[c] \in Seq(Nat) /\ v10[c] \in Seq(Nat)
  BY DEF SteersTyped
<1>2. Child!Steers(c) \in Seq(Nat)
  BY <1>1, ConcatProperties DEF Child!Steers
<1> QED BY <1>1, <1>2

LEMMA AppendedSteers ==
  ASSUME NEW s \in Seq(Nat), NEW t \in Seq(Nat), NEW n \in Nat
  PROVE  s \o Append(t, n) = Append(s \o t, n)
<1>1. <<n>> \in Seq(Nat) /\ s \o t \in Seq(Nat)
  BY ConcatProperties
<1>2. Append(t, n) = t \o <<n>> /\ Append(s \o t, n) = (s \o t) \o <<n>>
  BY <1>1, AppendIsConcat
<1> QED BY <1>1, <1>2, ConcatAssociative

LEMMA MovedSteer ==
  ASSUME NEW S, NEW s \in Seq(S), NEW t \in Seq(S), t # << >>
  PROVE  Append(s, Head(t)) \o Tail(t) = s \o t
<1>1. Head(t) \in S /\ Tail(t) \in Seq(S) /\ <<Head(t)>> \in Seq(S)
  BY HeadTailProperties
<1>2. Append(s, Head(t)) = s \o <<Head(t)>>
  BY <1>1, AppendIsConcat
<1>3. <<Head(t)>> \o Tail(t) = t
  <2>1. PICK u : u = <<Head(t)>> \o Tail(t)
    OBVIOUS
  <2>2. /\ Len(Tail(t)) = Len(t) - 1 /\ Len(t) \in Nat /\ Len(t) > 0
        /\ \A i \in 1 .. Len(Tail(t)) : Tail(t)[i] = t[i + 1]
    BY HeadTailProperties
  <2>3. /\ u \in Seq(S) /\ Len(u) = Len(t)
        /\ \A i \in 1 .. Len(t) : u[i] = IF i <= 1 THEN Head(t) ELSE Tail(t)[i - 1]
    BY <1>1, <2>1, <2>2, ConcatProperties
  <2>4. \A i \in 1 .. Len(t) : u[i] = t[i]
    <3> SUFFICES ASSUME NEW i \in 1 .. Len(t) PROVE u[i] = t[i]
      OBVIOUS
    <3>1. CASE i = 1
      BY <2>3, <3>1
    <3>2. CASE i # 1
      <4>1. i - 1 \in 1 .. Len(Tail(t)) /\ i - 1 + 1 = i /\ ~(i <= 1)
        BY <2>2, <3>2
      <4> QED BY <2>2, <2>3, <4>1
    <3> QED BY <3>1, <3>2
  <2>5. u = t
    <3>1. \A i \in 1 .. Len(u) : u[i] = t[i]
      BY <2>3, <2>4
    <3> QED BY <2>3, <3>1, SeqEqual
  <2> QED BY <2>1, <2>5
<1> QED BY <1>1, <1>2, <1>3, ConcatAssociative

LEMMA SteersLookUp ==
  ASSUME SteersInv, NEW c \in Child!Ids, Child!LookUp(c)
  PROVE  SteersInv'
<1>1. /\ v11' = [lane |-> c, age |-> v12[c]] /\ v10' = v10 /\ v12' = v12
      /\ v13' = v13 /\ v14' = v14 /\ v15' = v15
  BY DEF Child!LookUp
<1>2. SteersTyped /\ SteersFit
  BY DEF SteersInv
<1>3. v12[c] \in Nat
  BY <1>2 DEF SteersTyped
<1>4. SteersTyped'
  BY <1>1, <1>2, <1>3 DEF SteersTyped
<1>5. SteersFit'
  BY <1>1, <1>2 DEF SteersFit, Child!SteersKept, Child!Steers
<1> QED BY <1>4, <1>5 DEF SteersInv

LEMMA SteersEnqueue ==
  ASSUME SteersInv, Child!Enqueue
  PROVE  SteersInv'
<1>1. PICK c : c = v11.lane
  OBVIOUS
<1>2. PICK n : n = Len(v14) + 1
  OBVIOUS
<1>3. /\ v11 # Child!Nothing /\ v14' = Append(v14, c) /\ v11' = Child!Nothing /\ v12' = v12
      /\ v13' = v13
      /\ \/ v10' = [v10 EXCEPT ![c] = Append(@, n)] /\ v15' = v15
         \/ v15' = v15 \cup {n} /\ v10' = v10
  BY <1>1, <1>2, Zenon DEF Child!Enqueue
<1>4. SteersTyped /\ SteersFit
  BY DEF SteersInv
<1>5. c \in Child!Ids
  BY <1>1, <1>3, <1>4 DEF SteersTyped
<1>6. /\ v14 \in Seq(Child!Ids) /\ Len(v14) \in Nat /\ n \in Nat /\ DOMAIN v14 = 1 .. Len(v14)
      /\ n > Len(v14)
  BY <1>2, <1>4 DEF SteersTyped
<1>7. /\ v14' \in Seq(Child!Ids) /\ Len(v14') = n /\ v14'[n] = c
      /\ DOMAIN v14' = 1 .. n
      /\ \A m \in DOMAIN v14 : v14'[m] = v14[m]
  BY <1>2, <1>3, <1>5, <1>6, AppendProperties
<1>8. \A m \in DOMAIN v14' : m = n \/ m \in DOMAIN v14
  BY <1>2, <1>6, <1>7
<1>9. CASE v10' = [v10 EXCEPT ![c] = Append(@, n)] /\ v15' = v15
  <2>1. v10[c] \in Seq(Nat) /\ v13[c] \in Seq(Nat) /\ Append(v10[c], n) \in Seq(Nat)
    BY <1>4, <1>5, <1>6, SteersAre, AppendProperties
  <2>2. /\ v10' \in [Child!Ids -> Seq(Nat)] /\ v10'[c] = Append(v10[c], n)
        /\ \A d \in Child!Ids : d # c => v10'[d] = v10[d]
    BY <1>4, <1>5, <1>9, <2>1 DEF SteersTyped
  <2>3. SteersTyped'
    BY <1>3, <1>4, <1>7, <2>2 DEF SteersTyped
  <2>4. \A d \in Child!Ids : Child!Steers(d)' = IF d = c THEN Append(Child!Steers(c), n) ELSE Child!Steers(d)
    <3>1. v13[c] \o Append(v10[c], n) = Append(v13[c] \o v10[c], n)
      BY <1>6, <2>1, AppendedSteers
    <3> QED BY <1>3, <2>2, <3>1 DEF Child!Steers
  <2>5. PICK s : s = Child!Steers(c)
    OBVIOUS
  <2>6. PICK after : after = Append(s, n)
    OBVIOUS
  <2>7. /\ s \in Seq(Nat) /\ DOMAIN s = 1 .. Len(s) /\ Len(s) \in Nat
        /\ \A i \in DOMAIN s : s[i] \in 1 .. Len(v14)
        /\ \A i, j \in DOMAIN s : i < j => s[i] < s[j]
    BY <1>4, <1>5, <2>5, SteersAre DEF SteersFit, Child!SteersKept
  <2>8. /\ after \in Seq(Nat) /\ DOMAIN after = 1 .. Len(s) + 1 /\ after[Len(s) + 1] = n
        /\ \A i \in DOMAIN s : i \in DOMAIN after /\ after[i] = s[i]
    BY <1>6, <2>6, <2>7, AppendProperties
  <2>9. \A i \in DOMAIN after : i \in DOMAIN s \/ i = Len(s) + 1
    BY <2>7, <2>8
  <2>10. \A i \in DOMAIN after : after[i] \in 1 .. n
    <3> SUFFICES ASSUME NEW i \in DOMAIN after PROVE after[i] \in 1 .. n
      OBVIOUS
    <3>1. CASE i \in DOMAIN s
      <4>1. s[i] \in 1 .. Len(v14) /\ after[i] = s[i]
        BY <2>7, <2>8, <3>1
      <4> QED BY <1>6, <4>1
    <3>2. CASE i = Len(s) + 1
      BY <1>2, <1>6, <2>8, <3>2
    <3> QED BY <2>9, <3>1, <3>2
  <2>11. \A i, j \in DOMAIN after : i < j => after[i] < after[j]
    <3> SUFFICES ASSUME NEW i \in DOMAIN after, NEW j \in DOMAIN after, i < j
                 PROVE  after[i] < after[j]
      OBVIOUS
    <3>1. i \in DOMAIN s /\ after[i] = s[i] /\ s[i] \in 1 .. Len(v14)
      BY <2>7, <2>8, <2>9
    <3>2. CASE j \in DOMAIN s
      <4>1. after[j] = s[j] /\ s[i] < s[j]
        BY <2>7, <2>8, <3>1, <3>2
      <4> QED BY <3>1, <4>1
    <3>3. CASE j = Len(s) + 1
      <4>1. after[j] = n
        BY <2>8, <3>3
      <4> QED BY <1>6, <3>1, <4>1
    <3> QED BY <2>9, <3>2, <3>3
  <2>12. Child!Steers(c)' = after
    BY <1>5, <2>4, <2>5, <2>6
  <2>13. \A d \in Child!Ids : d # c => Child!Steers(d)' = Child!Steers(d)
    BY <2>4
  <2>14. ASSUME NEW d \in Child!Ids
         PROVE  /\ \A i \in DOMAIN Child!Steers(d)' : Child!Steers(d)'[i] \in 1 .. Len(v14')
                /\ \A i, j \in DOMAIN Child!Steers(d)' : i < j => Child!Steers(d)'[i] < Child!Steers(d)'[j]
    <3>1. CASE d = c
      BY <1>7, <2>10, <2>11, <2>12, <3>1
    <3>2. CASE d # c
      <4>1. \A i \in DOMAIN Child!Steers(d) : Child!Steers(d)[i] \in 1 .. n
        <5>1. \A x \in 1 .. Len(v14) : x \in 1 .. n
          BY <1>2, <1>6
        <5> QED BY <1>4, <5>1 DEF SteersFit
      <4>2. \A i, j \in DOMAIN Child!Steers(d) : i < j => Child!Steers(d)[i] < Child!Steers(d)[j]
        BY <1>4 DEF SteersFit, Child!SteersKept
      <4>3. Child!Steers(d)' = Child!Steers(d)
        BY <2>13, <3>2
      <4> QED BY <1>7, <4>1, <4>2, <4>3
    <3> QED BY <3>1, <3>2
  <2>15. ASSUME NEW m \in DOMAIN v14'
         PROVE  m \in v15' \/ \E i \in DOMAIN Child!Steers(v14[m])' : Child!Steers(v14[m])'[i] = m
    <3>1. CASE m = n
      <4>1. Len(s) + 1 \in DOMAIN after
        BY <2>7, <2>8
      <4> QED BY <1>7, <2>8, <2>12, <3>1, <4>1 DEF Child!Steers
    <3>2. CASE m \in DOMAIN v14
      <4>1. PICK d : d = v14[m]
        OBVIOUS
      <4>2. d \in Child!Ids /\ v14'[m] = d
        BY <1>6, <1>7, <3>2, <4>1
      <4>3. m \in v15 \/ \E i \in DOMAIN Child!Steers(d) : Child!Steers(d)[i] = m
        BY <1>4, <3>2, <4>1 DEF SteersFit, Child!SteersKept
      <4>4. m \in v15 \/ \E i \in DOMAIN Child!Steers(d)' : Child!Steers(d)'[i] = m
        <5>1. CASE d = c
          BY <1>9, <2>5, <2>8, <2>12, <4>3, <5>1
        <5>2. CASE d # c
          <6>1. Child!Steers(d)' = Child!Steers(d)
            BY <2>13, <4>2, <5>2
          <6> QED BY <4>3, <6>1
        <5> QED BY <5>1, <5>2
      <4> QED BY <1>9, <4>2, <4>4 DEF Child!Steers
    <3> QED BY <1>8, <3>1, <3>2
  <2>16. SteersFit'
    BY <2>14, <2>15 DEF SteersFit, Child!SteersKept
  <2> QED BY <2>3, <2>16 DEF SteersInv
<1>10. CASE v15' = v15 \cup {n} /\ v10' = v10
  <2>1. SteersTyped'
    BY <1>3, <1>4, <1>7, <1>10 DEF SteersTyped
  <2>2. \A d : Child!Steers(d)' = Child!Steers(d)
    BY <1>3, <1>10 DEF Child!Steers
  <2>3. ASSUME NEW d \in Child!Ids
        PROVE  /\ \A i \in DOMAIN Child!Steers(d)' : Child!Steers(d)'[i] \in 1 .. Len(v14')
               /\ \A i, j \in DOMAIN Child!Steers(d)' : i < j => Child!Steers(d)'[i] < Child!Steers(d)'[j]
    <3>1. \A i \in DOMAIN Child!Steers(d) : Child!Steers(d)[i] \in 1 .. n
      <4>1. \A x \in 1 .. Len(v14) : x \in 1 .. n
        BY <1>2, <1>6
      <4> QED BY <1>4, <4>1 DEF SteersFit
    <3>2. \A i, j \in DOMAIN Child!Steers(d) : i < j => Child!Steers(d)[i] < Child!Steers(d)[j]
      BY <1>4 DEF SteersFit, Child!SteersKept
    <3> QED BY <1>7, <2>2, <3>1, <3>2
  <2>4. ASSUME NEW m \in DOMAIN v14'
        PROVE  m \in v15' \/ \E i \in DOMAIN Child!Steers(v14[m])' : Child!Steers(v14[m])'[i] = m
    <3>1. CASE m = n
      BY <1>10, <3>1
    <3>2. CASE m \in DOMAIN v14
      <4>1. v14'[m] = v14[m]
        BY <1>7, <3>2
      <4>2. m \in v15 \/ \E i \in DOMAIN Child!Steers(v14[m]) : Child!Steers(v14[m])[i] = m
        BY <1>4, <3>2 DEF SteersFit, Child!SteersKept
      <4> QED BY <1>3, <1>10, <4>1, <4>2 DEF Child!Steers
    <3> QED BY <1>8, <3>1, <3>2
  <2>5. SteersFit'
    BY <2>3, <2>4 DEF SteersFit, Child!SteersKept
  <2> QED BY <2>1, <2>5 DEF SteersInv
<1> QED BY <1>3, <1>9, <1>10

LEMMA SteersBoundary ==
  ASSUME SteersInv, NEW c \in Child!Ids, Child!Boundary(c)
  PROVE  SteersInv'
<1>1. /\ v10[c] # << >> /\ v10' = [v10 EXCEPT ![c] = Tail(@)]
      /\ v13' = [v13 EXCEPT ![c] = Append(@, Head(v10[c]))]
      /\ v12' = [v12 EXCEPT ![c] = IF Len(v10[c]) = 1 THEN @ + 1 ELSE @]
      /\ v11' = v11 /\ v14' = v14 /\ v15' = v15
  BY DEF Child!Boundary
<1>2. SteersTyped /\ SteersFit
  BY DEF SteersInv
<1>3. v10[c] \in Seq(Nat) /\ v13[c] \in Seq(Nat) /\ v12[c] \in Nat
  BY <1>2 DEF SteersTyped
<1>4. Tail(v10[c]) \in Seq(Nat) /\ Head(v10[c]) \in Nat
      /\ Append(v13[c], Head(v10[c])) \in Seq(Nat)
  BY <1>1, <1>3, HeadTailProperties, AppendProperties
<1>5. /\ v10' \in [Child!Ids -> Seq(Nat)] /\ v10'[c] = Tail(v10[c])
      /\ \A d \in Child!Ids : d # c => v10'[d] = v10[d]
  BY <1>1, <1>2, <1>4 DEF SteersTyped
<1>6. /\ v13' \in [Child!Ids -> Seq(Nat)] /\ v13'[c] = Append(v13[c], Head(v10[c]))
      /\ \A d \in Child!Ids : d # c => v13'[d] = v13[d]
  BY <1>1, <1>2, <1>4 DEF SteersTyped
<1>7. v12' \in [Child!Ids -> Nat]
  BY <1>1, <1>2, <1>3 DEF SteersTyped
<1>8. SteersTyped'
  BY <1>1, <1>2, <1>5, <1>6, <1>7 DEF SteersTyped
<1>9. \A d \in Child!Ids : Child!Steers(d)' = Child!Steers(d)
  <2>1. Append(v13[c], Head(v10[c])) \o Tail(v10[c]) = v13[c] \o v10[c]
    BY <1>1, <1>3, MovedSteer
  <2> QED BY <1>5, <1>6, <2>1 DEF Child!Steers
<1>10. SteersFit'
  <2>1. ASSUME NEW d \in Child!Ids
        PROVE  /\ \A i \in DOMAIN Child!Steers(d)' : Child!Steers(d)'[i] \in 1 .. Len(v14')
               /\ \A i, j \in DOMAIN Child!Steers(d)' : i < j => Child!Steers(d)'[i] < Child!Steers(d)'[j]
    <3>1. /\ \A i \in DOMAIN Child!Steers(d) : Child!Steers(d)[i] \in 1 .. Len(v14)
          /\ \A i, j \in DOMAIN Child!Steers(d) : i < j => Child!Steers(d)[i] < Child!Steers(d)[j]
      BY <1>2 DEF SteersFit, Child!SteersKept
    <3> QED BY <1>1, <1>9, <3>1
  <2>2. ASSUME NEW m \in DOMAIN v14'
        PROVE  m \in v15' \/ \E i \in DOMAIN Child!Steers(v14[m])' : Child!Steers(v14[m])'[i] = m
    <3>1. PICK d : d = v14[m]
      OBVIOUS
    <3>2. m \in DOMAIN v14 /\ v14'[m] = d
      BY <1>1, <3>1
    <3>3. d \in Child!Ids
      BY <1>2, <3>1, <3>2 DEF SteersTyped
    <3>4. m \in v15 \/ \E i \in DOMAIN Child!Steers(d) : Child!Steers(d)[i] = m
      BY <1>2, <3>1, <3>2 DEF SteersFit, Child!SteersKept
    <3>5. m \in v15 \/ \E i \in DOMAIN Child!Steers(d)' : Child!Steers(d)'[i] = m
      BY <1>9, <3>3, <3>4
    <3> QED BY <1>1, <3>2, <3>5 DEF Child!Steers
  <2> QED BY <2>1, <2>2 DEF SteersFit, Child!SteersKept
<1> QED BY <1>8, <1>10 DEF SteersInv

LEMMA SteersSame == SteersInv /\ UNCHANGED Child!steerVars => SteersInv'
<1> SUFFICES ASSUME SteersInv, UNCHANGED Child!steerVars PROVE SteersInv'
  OBVIOUS
<1>1. /\ v10' = v10 /\ v11' = v11 /\ v12' = v12 /\ v13' = v13 /\ v14' = v14
      /\ v15' = v15
  BY DEF Child!steerVars
<1>2. SteersTyped'
  BY <1>1 DEF SteersInv, SteersTyped
<1>3. SteersFit'
  BY <1>1 DEF SteersInv, SteersFit, Child!SteersKept, Child!Steers
<1> QED BY <1>2, <1>3 DEF SteersInv

LEMMA ChildNext == ChildInv /\ Child!Next => ChildInv'
<1> SUFFICES ASSUME ChildInv, Child!Next PROVE ChildInv'
  OBVIOUS
<1>1. KidsInv /\ SteersInv /\ KidsTyped
  BY DEF ChildInv, KidsInv
<1>2. Child!Kids \subseteq Child!Ids
  BY <1>1, KidsAre
<1>3. ASSUME NEW s \in {Child!Root} \cup Child!Kids, NEW builder \in BOOLEAN, Child!Spawn(s, builder)
      PROVE  ChildInv'
  <2>1. UNCHANGED Child!steerVars
    BY <1>3 DEF Child!Spawn
  <2> QED BY <1>1, <1>3, <2>1, KidsSpawn, SteersSame DEF ChildInv
<1>4. ASSUME NEW c \in Child!Kids, Child!Wire(c) \/ Child!Start(c) \/ Child!SetUpFails(c)
      PROVE  ChildInv'
  <2>1. UNCHANGED Child!steerVars
    BY <1>4 DEF Child!Wire, Child!Start, Child!SetUpFails
  <2> QED BY <1>1, <1>4, <2>1, KidsWire, SteersSame DEF ChildInv
<1>5. ASSUME NEW c \in Child!Kids, Child!Act(c)
      PROVE  ChildInv'
  <2>1. /\ UNCHANGED <<v1, v2, v3, v4, v5, v6, v9>> /\ UNCHANGED Child!steerVars
        /\ v7' \subseteq Child!Kids /\ v8' \subseteq Child!Kids
    BY <1>1, <1>5 DEF Child!Act, KidsTyped
  <2> QED BY <1>1, <2>1, KidsAct, SteersSame DEF ChildInv
<1>6. ASSUME Child!Edit PROVE ChildInv'
  <2>1. /\ UNCHANGED <<v1, v2, v3, v4, v5, v6, v9>> /\ UNCHANGED Child!steerVars
        /\ v7' \subseteq Child!Kids /\ v8' \subseteq Child!Kids
    BY <1>1, <1>6 DEF Child!Edit, KidsTyped
  <2> QED BY <1>1, <2>1, KidsAct, SteersSame DEF ChildInv
<1>7. ASSUME NEW c \in Child!Kids, Child!Answer(c)
      PROVE  ChildInv'
  <2>1. UNCHANGED Child!steerVars
    BY <1>7 DEF Child!Answer
  <2> QED BY <1>1, <1>7, <2>1, KidsAnswer, SteersSame DEF ChildInv
<1>8. ASSUME NEW c \in Child!Kids, NEW what \in {"error", "aborted"}, Child!Raise(c, what)
      PROVE  ChildInv'
  <2>1. /\ Child!Executing(c) /\ ~Child!Waits(c) /\ Child!Returns(c, what) /\ UNCHANGED Child!steerVars
        /\ UNCHANGED <<v1, v2, v4, v5, v6, v7, v8>>
    BY <1>8 DEF Child!Raise
  <2>2. what \in {"success", "incomplete", "error", "aborted"}
    OBVIOUS
  <2>3. KidsInv'
    BY <1>1, <2>1, <2>2, KidsReturn
  <2> QED BY <1>1, <2>1, <2>3, SteersSame DEF ChildInv
<1>9. ASSUME NEW c \in Child!Kids, Child!Unwind(c)
      PROVE  ChildInv'
  <2>1. UNCHANGED Child!steerVars
    BY <1>9 DEF Child!Unwind
  <2> QED BY <1>1, <1>9, <2>1, KidsUnwind, SteersSame DEF ChildInv
<1>10. ASSUME NEW c \in Child!Kids, Child!LookUp(c)
       PROVE  ChildInv'
  <2>1. UNCHANGED Child!childVars
    BY <1>10 DEF Child!LookUp
  <2> QED BY <1>1, <1>2, <1>10, <2>1, SteersLookUp, KidsSame DEF ChildInv
<1>11. ASSUME NEW c \in Child!Kids, Child!Boundary(c)
       PROVE  ChildInv'
  <2>1. UNCHANGED Child!childVars
    BY <1>11 DEF Child!Boundary
  <2> QED BY <1>1, <1>2, <1>11, <2>1, SteersBoundary, KidsSame DEF ChildInv
<1>12. ASSUME Child!Enqueue PROVE ChildInv'
  <2>1. UNCHANGED Child!childVars
    BY <1>12 DEF Child!Enqueue
  <2> QED BY <1>1, <1>12, <2>1, SteersEnqueue, KidsSame DEF ChildInv
<1> QED BY <1>3, <1>4, <1>5, <1>6, <1>7, <1>8, <1>9, <1>10, <1>11, <1>12 DEF Child!Next

LEMMA ChildInit == Child!Init => ChildInv
<1> SUFFICES ASSUME Child!Init PROVE ChildInv
  OBVIOUS
<1>1. v2 = << >> /\ Child!Kids = {} /\ Len(v2) = 0
  BY DEF Child!Init, Child!Kids
<1>2. KidsTyped
  BY <1>1, ChildBounds DEF Child!Init, KidsTyped
<1>3. KidsFit
  BY <1>1 DEF KidsFit
<1>4. v6 = Cardinality(InDisplay)
  <2>1. InDisplay = {} /\ v6 = 0
    BY <1>1 DEF InDisplay, Child!Init
  <2> QED BY <2>1, FS_EmptySet
<1>5. SteersTyped
  BY DEF Child!Init, SteersTyped
<1>6. \A c \in Child!Ids : Child!Steers(c) = << >>
  <2>1. << >> \in Seq(Nat) /\ << >> \o << >> = << >>
    BY ConcatEmptySeq
  <2> QED BY <2>1 DEF Child!Init, Child!Steers
<1>7. SteersFit
  <2>1. v14 = << >>
    BY DEF Child!Init
  <2> QED BY <1>6, <2>1 DEF SteersFit, Child!SteersKept
<1> QED BY <1>2, <1>3, <1>4, <1>5, <1>7 DEF ChildInv, KidsInv, SteersInv

LEMMA ChildRests == ChildInv /\ UNCHANGED Child!vars => ChildInv'
  BY KidsSame, SteersSame DEF ChildInv, Child!vars

\* An interrupt reaches whoever executes: the first that it did not reach would have a parent
\* that executes and is reached.
LEMMA ExecutingIsReached ==
  ASSUME KidsTyped, KidsFit, NEW s \in SUBSET Child!Kids, Child!LinkedTo(s) \subseteq s
  PROVE  \A c \in Child!Kids : Child!Executing(c) => c \in s
<1> DEFINE missed == {c \in Child!Kids : Child!Executing(c) /\ c \notin s}
<1> SUFFICES ASSUME missed # {} PROVE FALSE
  OBVIOUS
<1>1. missed \subseteq Nat
  BY KidsAre
<1>2. PICK c \in missed : \A d \in missed : ~(<<d, c>> \in OpToRel(<, Nat))
  BY <1>1, NatLessThanWellFounded, WFMin
<1>3. c \in Child!Kids /\ c \in Nat /\ c # Child!Root /\ v3[c] \in {"executing", "retrying"} /\ c \notin s
  <2>1. c \in Child!Kids /\ Child!Executing(c) /\ c \notin s
    BY <1>2
  <2>2. c \in Nat /\ c # 0
    BY <2>1, KidsAre
  <2> QED BY <2>1, <2>2 DEF Child!Executing, Child!Root
<1>4. KidFits(c) /\ v3[c] \in Child!Busy /\ v3[c] \in Displayed
  BY <1>3 DEF KidsFit, Child!Busy, Displayed
<1>5. PICK p : p = v2[c].parent
  OBVIOUS
<1>6. Child!Executing(p) /\ p \in 0 .. c - 1 /\ c \in v5
  BY <1>4, <1>5 DEF KidFits
<1>7. CASE p = Child!Root
  BY <1>3, <1>5, <1>6, <1>7 DEF Child!LinkedTo
<1>8. CASE p # Child!Root
  <2>1. p \in Child!Kids /\ p \in Nat /\ p < c
    BY <1>3, <1>6, <1>8, KidsAre DEF Child!Executing
  <2>2. <<p, c>> \in OpToRel(<, Nat)
    BY <1>3, <2>1 DEF OpToRel
  <2>3. p \in s
    BY <1>2, <1>6, <2>1, <2>2
  <2> QED BY <1>3, <1>5, <1>6, <2>3 DEF Child!LinkedTo
<1> QED BY <1>7, <1>8

LEMMA ChildPromises == ChildInv => Child!DelegationSound
<1> SUFFICES ASSUME ChildInv PROVE Child!DelegationSound
  OBVIOUS
<1>1. /\ KidsTyped /\ KidsFit /\ v6 = Cardinality(InDisplay) /\ SteersTyped /\ SteersFit
  BY DEF ChildInv, KidsInv, SteersInv
<1>2. Child!TypeOK
  <2>1. v6 \in 0 .. MaxChildren
    BY <1>1, DisplayFinite
  <2>2. DOMAIN v3 = Child!Kids /\ DOMAIN v9 = Child!Kids
    BY <1>1, KidsAre
  <2>3. v9 \in [Child!Kids -> {"none", "success", "incomplete", "error", "aborted"}]
    BY <1>1, <2>2 DEF KidsTyped
  <2> QED BY <1>1, <2>1, <2>2, <2>3 DEF Child!TypeOK, KidsTyped, Kid
<1>3. Child!Supervised
  <2> SUFFICES ASSUME NEW c \in Child!Kids, Child!Executing(c)
               PROVE  c \in v4 /\ Child!Executing(v2[c].parent) /\ c \in Child!Reached
    BY DEF Child!Supervised
  <2>1. c # Child!Root
    BY <1>1, KidsAre DEF Child!Root
  <2>2. KidFits(c) /\ v3[c] \in Child!Busy /\ v3[c] \in Displayed
    BY <1>1, <2>1 DEF KidsFit, Child!Executing, Child!Busy, Displayed
  <2>3. \A s \in SUBSET Child!Kids : Child!LinkedTo(s) \subseteq s => c \in s
    BY <1>1, ExecutingIsReached
  <2> QED BY <2>2, <2>3 DEF KidFits, Child!Reached
<1>4. Child!CleanedUp
  <2>1. ASSUME NEW c \in Child!Kids, v3[c] = "done"
        PROVE  c \notin v4 \cup v5 /\ ~Child!Waits(c)
    <3>1. c \notin v4 /\ c \notin v5
      BY <1>1, <2>1 DEF KidsFit, KidFits
    <3>2. ASSUME NEW d \in Child!Open, v2[d].parent = c PROVE FALSE
      <4>1. d \in Child!Kids /\ v3[d] \in Child!Busy /\ KidFits(d)
        BY <1>1 DEF Child!Open, KidsFit
      <4>2. Child!Executing(c)
        BY <3>2, <4>1 DEF KidFits
      <4>3. c # Child!Root
        BY <1>1, KidsAre DEF Child!Root
      <4> QED BY <2>1, <4>2, <4>3 DEF Child!Executing
    <3> QED BY <3>1, <3>2 DEF Child!Waits
  <2> QED BY <1>1, <2>1, ChildCounts DEF Child!CleanedUp, InDisplay, Displayed
<1> QED BY <1>1, <1>2, <1>3, <1>4 DEF Child!DelegationSound, SteersFit
===============================================================================
