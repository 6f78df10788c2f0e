----------------------------- MODULE RewindProofs -----------------------------
(***************************************************************************)
(* Proofs about Rewind, for any number of turns, forks, restores, faults   *)
(* and crashes: whatever fails and whenever the process dies, the files of *)
(* a session stay sound and a restore of its conversation is atomic        *)
(* (AtomicRewind); and until one of the causes that ReplayShowsContext     *)
(* names lapses it, a replay of the log shows the context.                 *)
(*                                                                         *)
(* Three invariants, each resting on the one before: Sound (the files and  *)
(* the gates), Follows (the context continues the transcript) and Agrees   *)
(* (the replay shows the context).                                         *)
(***************************************************************************)
EXTENDS Rewind, SequenceTheorems, FiniteSetTheorems, WellFoundedInduction, TLAPS

USE RewindAssumption

-----------------------------------------------------------------------------
(***************************************************************************)
(* Histories: sequences of turns in the order they were begun.             *)
(***************************************************************************)

Rising(s) == \A i, j \in DOMAIN s : i < j => s[i] < s[j]
Histories(n) == {s \in Seq(Ids) : Rising(s) /\ \A i \in DOMAIN s : s[i] <= n}

\* What Before and First leave of a sequence.
Beginnings(s) == {SubSeq(s, 1, k) : k \in 0 .. Len(s)}

LEMMA PrefixFacts ==
  ASSUME NEW S, NEW s \in Seq(S), NEW k \in 0 .. Len(s)
  PROVE  /\ SubSeq(s, 1, k) \in Seq(S) /\ Len(SubSeq(s, 1, k)) = k
         /\ DOMAIN SubSeq(s, 1, k) = 1 .. k
         /\ \A i \in 1 .. k : SubSeq(s, 1, k)[i] = s[i] /\ i \in DOMAIN s
  OBVIOUS

\* A prefix of a history is a history.
LEMMA PrefixIsHistory ==
  ASSUME NEW n, NEW s \in Histories(n), NEW p \in Beginnings(s)
  PROVE  /\ p \in Histories(n) /\ Len(p) <= Len(s)
         /\ Range(p) \subseteq Range(s) /\ Len(p) \in Nat
<1>1. PICK k \in 0 .. Len(s) : p = SubSeq(s, 1, k)
  BY DEF Beginnings
<1>2. s \in Seq(Ids) /\ Rising(s) /\ (\A i \in DOMAIN s : s[i] <= n) /\ Len(s) \in Nat
  BY DEF Histories
<1>3. /\ p \in Seq(Ids) /\ Len(p) = k /\ DOMAIN p = 1 .. k
      /\ \A i \in 1 .. k : p[i] = s[i] /\ i \in DOMAIN s
  BY <1>1, <1>2, PrefixFacts
<1>4. Rising(p)
  BY <1>2, <1>3 DEF Rising
<1>5. Range(p) \subseteq Range(s)
  BY <1>3 DEF Range
<1> QED BY <1>2, <1>3, <1>4, <1>5 DEF Histories

\* First and Before take a prefix.
LEMMA FirstIsPrefix ==
  ASSUME NEW S, NEW s \in Seq(S), NEW k \in Nat
  PROVE  First(s, k) \in Beginnings(s)
<1>1. Len(s) \in Nat
  OBVIOUS
<1>2. (IF k <= Len(s) THEN k ELSE Len(s)) \in 0 .. Len(s)
  BY <1>1
<1> QED BY <1>2 DEF First, Beginnings

\* The place where a turn is first found.
LEMMA Found ==
  ASSUME NEW s \in Seq(Ids), Rising(s), NEW t, NEW i \in DOMAIN s, s[i] = t
  PROVE  Before(s, t) = First(s, i - 1)
<1>1. DOMAIN s = 1 .. Len(s) /\ Len(s) \in Nat /\ \A j \in DOMAIN s : s[j] \in Nat
  BY DEF Ids
<1>2. {j \in 1 .. Len(s) : s[j] = t} = {i}
  <2> SUFFICES ASSUME NEW j \in DOMAIN s, s[j] = t PROVE j = i
    BY <1>1
  <2> QED BY <1>1 DEF Rising
<1>3. Min({i}) = i
  BY <1>1 DEF Min
<1> QED BY <1>2, <1>3 DEF Before, SelectInSeq

LEMMA BeforeIsPrefix ==
  ASSUME NEW n, NEW s \in Histories(n), NEW t
  PROVE  /\ Before(s, t) \in Beginnings(s)
         /\ \A i \in DOMAIN s : s[i] = t => Before(s, t) = SubSeq(s, 1, i - 1)
<1>1. s \in Seq(Ids) /\ Rising(s) /\ Len(s) \in Nat /\ DOMAIN s = 1 .. Len(s)
  BY DEF Histories
<1>2. ASSUME NEW i \in DOMAIN s, s[i] = t
      PROVE  Before(s, t) = SubSeq(s, 1, i - 1) /\ i - 1 \in 0 .. Len(s)
  <2>1. Before(s, t) = First(s, i - 1)
    BY <1>1, <1>2, Found
  <2>2. i \in Nat /\ i >= 1 /\ i <= Len(s)
    BY <1>1
  <2> QED BY <1>1, <2>1, <2>2 DEF First
<1>3. ASSUME \A i \in DOMAIN s : s[i] # t
      PROVE  Before(s, t) \in Beginnings(s)
  <2>1. {j \in 1 .. Len(s) : s[j] = t} = {}
    BY <1>1, <1>3
  <2>2. Before(s, t) = First(s, 0 - 1)
    BY <2>1 DEF Before, SelectInSeq
  <2>3. Before(s, t) = SubSeq(s, 1, -1)
    BY <1>1, <2>2 DEF First
  <2>4. SubSeq(s, 1, -1) = SubSeq(s, 1, 0)
    BY <1>1
  <2> QED BY <1>1, <2>3, <2>4 DEF Beginnings
<1> QED BY <1>2, <1>3 DEF Beginnings

\* A turn that comes after every one of a history extends it.
LEMMA AppendIsHistory ==
  ASSUME NEW n \in Nat, NEW m, NEW s \in Histories(n), NEW t \in Ids, n < t, m = t
  PROVE  /\ Append(s, t) \in Histories(m)
         /\ Range(Append(s, t)) = Range(s) \cup {t} /\ Len(Append(s, t)) = Len(s) + 1
<1>1. /\ s \in Seq(Ids) /\ Rising(s) /\ (\A i \in DOMAIN s : s[i] <= n)
      /\ Append(s, t) \in Seq(Ids) /\ Len(s) \in Nat
      /\ DOMAIN s = 1 .. Len(s) /\ DOMAIN Append(s, t) = 1 .. (Len(s) + 1)
      /\ Len(Append(s, t)) = Len(s) + 1
      /\ \A i \in DOMAIN s : Append(s, t)[i] = s[i] /\ s[i] \in Ids
      /\ Append(s, t)[Len(s) + 1] = t
  BY DEF Histories
<1>2. \A i \in DOMAIN Append(s, t) : i \in DOMAIN s \/ i = Len(s) + 1
  BY <1>1
<1>3. \A i \in DOMAIN Append(s, t) : Append(s, t)[i] <= m
  BY <1>1, <1>2 DEF Ids
<1>4. Rising(Append(s, t))
  <2> SUFFICES ASSUME NEW i \in DOMAIN Append(s, t), NEW j \in DOMAIN Append(s, t), i < j
               PROVE  Append(s, t)[i] < Append(s, t)[j]
    BY DEF Rising
  <2>1. i \in DOMAIN s
    BY <1>1
  <2>2. CASE j \in DOMAIN s
    BY <1>1, <2>1, <2>2 DEF Rising
  <2>3. CASE j = Len(s) + 1
    BY <1>1, <2>1, <2>3 DEF Ids
  <2> QED BY <1>2, <2>2, <2>3
<1>5. Range(Append(s, t)) = Range(s) \cup {t}
  BY <1>1, <1>2 DEF Range
<1> QED BY <1>1, <1>3, <1>4, <1>5 DEF Histories

\* The same, of the turn a history was cut before: fork keeps it.
LEMMA ForkIsHistory ==
  ASSUME NEW n, NEW s \in Histories(n), NEW t \in Range(s)
  PROVE  /\ Append(Before(s, t), t) \in Beginnings(s)
<1>1. s \in Seq(Ids) /\ Len(s) \in Nat /\ DOMAIN s = 1 .. Len(s)
  BY DEF Histories
<1>2. PICK i \in DOMAIN s : s[i] = t
  BY DEF Range
<1>3. Before(s, t) = SubSeq(s, 1, i - 1)
  BY <1>2, BeforeIsPrefix
<1>4. Append(SubSeq(s, 1, i - 1), s[i]) = SubSeq(s, 1, i)
  BY <1>1
<1> QED BY <1>1, <1>2, <1>3, <1>4 DEF Beginnings

\* Histories hold no turn twice, so none is longer than there are turns.
LEMMA HistoryIsShort ==
  ASSUME NEW n, NEW s \in Histories(n)
  PROVE  Len(s) \in 0 .. MaxTurns /\ NoRepeat(s) /\ Range(s) \subseteq Ids
<1>1. /\ s \in Seq(Ids) /\ Rising(s) /\ Len(s) \in Nat /\ DOMAIN s = 1 .. Len(s)
      /\ s \in [1 .. Len(s) -> Ids] /\ \A i \in DOMAIN s : s[i] \in Nat
  BY DEF Histories, Ids
<1>2. NoRepeat(s)
  BY <1>1 DEF Rising, NoRepeat
<1>3. s \in Injection(1 .. Len(s), Ids)
  BY <1>1, <1>2, Zenon DEF NoRepeat, Injection, IsInjective
<1>4. /\ IsFiniteSet(Ids) /\ Cardinality(Ids) = IF 1 > MaxTurns THEN 0 ELSE MaxTurns - 1 + 1
      /\ Cardinality(1 .. Len(s)) = IF 1 > Len(s) THEN 0 ELSE Len(s) - 1 + 1
  BY <1>1, FS_Interval, 1 \in Int, Len(s) \in Int, MaxTurns \in Int DEF Ids
<1>5. Cardinality(1 .. Len(s)) <= Cardinality(Ids)
  BY <1>3, <1>4, FS_Injection
<1>6. Len(s) <= MaxTurns
  BY <1>1, <1>4, <1>5
<1>7. Range(s) \subseteq Ids
  BY <1>1 DEF Range
<1> QED BY <1>1, <1>2, <1>6, <1>7

\* What was a history of earlier turns is one of later turns.
LEMMA LaterHistory ==
  ASSUME NEW n \in Nat, NEW m \in Nat, n <= m
  PROVE  Histories(n) \subseteq Histories(m)
<1> SUFFICES ASSUME NEW s \in Histories(n) PROVE s \in Histories(m)
  OBVIOUS
<1>1. s \in Seq(Ids) /\ Rising(s) /\ \A i \in DOMAIN s : s[i] <= n /\ s[i] \in Nat
  BY DEF Histories, Ids
<1> QED BY <1>1 DEF Histories

LEMMA EmptyHistory == \A n : << >> \in Histories(n)
  BY DEF Histories, Rising

-----------------------------------------------------------------------------
(***************************************************************************)
(* What the variables hold, and where a restore stands in each phase.      *)
(***************************************************************************)

Logged == {Prompt(t) : t \in Ids} \cup {Marker(n, k) : n \in 0 .. MaxRewinds, k \in 0 .. MaxTurns}
Intent == [id : 1 .. MaxRewinds, kept : 0 .. MaxTurns, messages : Seq(Ids), ready : BOOLEAN]
Staging == [id : 1 .. MaxRewinds, visible : SUBSET Ids]
Job == [id : 0 .. MaxRewinds, scope : Scopes, target : Ids, original : Seq(Ids), visible : SUBSET Ids]

Types ==
  /\ used \in 0 .. MaxTurns /\ marks \in 0 .. MaxRewinds /\ cleared \subseteq 0 .. MaxRewinds
  /\ faults \in Nat /\ mark \in 0 .. MaxTurns
  /\ lapsed \in BOOLEAN /\ torn \in BOOLEAN
  /\ recovery \in BOOLEAN /\ diskDone \in BOOLEAN /\ wsPending \in BOOLEAN
  /\ life \in {"up", "down"} /\ phase \in Phases
  /\ events \in Seq(Logged)
  /\ intent \in Intent \cup {None} /\ staged \in Staging \cup {None, Cancelled}
  /\ job \in Job \cup {None} /\ stray \subseteq 0 .. MaxRewinds

\* The turns that reached the context, and those that were closed out.
Seen == IF phase \in {"opening", "running"} THEN used - 1 ELSE used
Closed == IF phase \in TurnPhases THEN used - 1 ELSE used

Hists ==
  /\ phase \in TurnPhases => used # 0
  /\ transcript \in Histories(Seen) /\ context \in Histories(Seen)
  /\ ledger \in Histories(Closed)
  /\ order \in Histories(used) /\ Len(order) <= MaxBranch
  /\ intent # None => intent.messages \in Histories(Seen)
  /\ job # None => job.original \in Histories(Seen)

\* A restore of the conversation has its intent, ready once its code half is done.
Armed == {"staging", "committing", "saving", "reconciling"}
Stages ==
  /\ life = "down" => phase = "idle"
  /\ job = None <=> phase \in TurnPhases \cup {"idle"}
  /\ phase \in {"staging", "unstaging"} => job.scope = "conversation"
  /\ phase \in {"applying", "arming"} => job.scope = "both"
  /\ phase = "coding" => job.scope \in {"both", "code"}
  /\ phase \in {"committing", "saving", "reconciling", "branching"} => job.scope # "code"
  /\ job # None /\ job.scope # "code" => job.id # 0
  /\ phase \in Armed => intent # None /\ intent.id = job.id /\ intent.ready
  /\ phase \in {"applying", "arming"} \/ (phase = "coding" /\ job.scope = "both") =>
       intent # None /\ intent.id = job.id /\ ~intent.ready

Placed == Types /\ Hists /\ Stages

LEMMA PlacedInit == Init => Placed
<1> SUFFICES ASSUME Init PROVE Placed
  OBVIOUS
<1>1. << >> \in Seq(Logged) /\ 0 \in 0 .. MaxTurns /\ 0 \in 0 .. MaxRewinds
  BY DEF Init
<1>2. Types
  BY <1>1 DEF Init, Types, Phases, TurnPhases
<1>3. Hists
  <2>1. << >> \in Histories(Seen) /\ << >> \in Histories(Closed) /\ << >> \in Histories(used)
    BY EmptyHistory
  <2>2. phase \notin TurnPhases /\ Len(<< >>) <= MaxBranch
    BY DEF Init, TurnPhases
  <2> QED BY <2>1, <2>2 DEF Init, Hists
<1>4. Stages
  BY DEF Init, Stages, TurnPhases, Armed, None
<1> QED BY <1>2, <1>3, <1>4 DEF Placed

\* How long the sequences are that end up in a count.
LEMMA Lengths ==
  ASSUME Placed
  PROVE  /\ Len(context) \in 0 .. MaxTurns /\ Len(ledger) \in 0 .. MaxTurns
         /\ intent # None => Len(intent.messages) \in 0 .. MaxTurns
         /\ transcript \in Seq(Ids) /\ context \in Seq(Ids) /\ ledger \in Seq(Ids)
         /\ order \in Seq(Ids) /\ Len(transcript) \in 0 .. MaxTurns
         /\ \A t : /\ Before(ledger, t) \in Seq(Ids) /\ Len(Before(ledger, t)) \in 0 .. MaxTurns
                  /\ Before(context, t) \in Seq(Ids)
                  /\ Range(Before(ledger, t)) \subseteq Ids
<1>1. /\ transcript \in Histories(Seen) /\ context \in Histories(Seen)
      /\ ledger \in Histories(Closed) /\ order \in Histories(used)
      /\ intent # None => intent.messages \in Histories(Seen)
  BY DEF Placed, Hists
<1>2. \A n : \A h \in Histories(n) : h \in Seq(Ids)
  BY DEF Histories
<1>3. ASSUME NEW t PROVE /\ Before(ledger, t) \in Seq(Ids) /\ Len(Before(ledger, t)) \in 0 .. MaxTurns
                         /\ Before(context, t) \in Seq(Ids)
                         /\ Range(Before(ledger, t)) \subseteq Ids
  <2>1. Before(ledger, t) \in Beginnings(ledger) /\ Before(context, t) \in Beginnings(context)
    BY <1>1, BeforeIsPrefix
  <2>2. Before(ledger, t) \in Histories(Closed) /\ Before(context, t) \in Histories(Seen)
    BY <1>1, <2>1, PrefixIsHistory
  <2> QED BY <1>2, <2>2, HistoryIsShort
<1> QED BY <1>1, <1>2, <1>3, HistoryIsShort

\* A write to the event log adds one event or none.
LEMMA EventsTyped ==
  ASSUME Types, NEW e \in Logged, NEW astray \in BOOLEAN, Appends(e, astray)
  PROVE  events' \in Seq(Logged) /\ torn' \in BOOLEAN /\ lapsed' \in BOOLEAN
<1>1. events \in Seq(Logged)
  BY DEF Types
<1>2. events' \in Seq(Logged)
  BY <1>1 DEF Appends
<1>3. torn' \in BOOLEAN
  BY Zenon DEF Appends
<1>4. lapsed' \in BOOLEAN
  BY Zenon DEF Appends, Types
<1> QED BY <1>2, <1>3, <1>4

LEMMA ReconcilesTyped ==
  ASSUME Placed, NEW done \in 0 .. 3, intent # None, Reconciles(done)
  PROVE  /\ events' \in Seq(Logged) /\ torn' \in BOOLEAN
         /\ intent' \in {intent, None}
         /\ transcript' \in {transcript, intent.messages}
<1>1. intent \in Intent /\ events \in Seq(Logged) /\ torn \in BOOLEAN
  BY DEF Placed, Types
<1>2. Marker(intent.id, intent.kept) \in Logged
  <2>1. intent.id \in 0 .. MaxRewinds /\ intent.kept \in 0 .. MaxTurns
    BY <1>1 DEF Intent
  <2> QED BY <2>1 DEF Logged
<1>3. CASE ~intent.ready
  BY <1>1, <1>3 DEF Reconciles
<1>4. CASE intent.ready
  <2>1. torn' \in BOOLEAN
    BY <1>4, Zenon DEF Reconciles
  <2>2. /\ events' \in {events, Append(events, Marker(intent.id, intent.kept))}
        /\ intent' \in {intent, None} /\ transcript' \in {transcript, intent.messages}
    BY <1>4 DEF Reconciles
  <2> QED BY <1>1, <1>2, <2>1, <2>2
<1> QED BY <1>3, <1>4

LEMMA FaultsTyped ==
  ASSUME Types
  PROVE  /\ \A n \in Nat : Fails(n) => faults' \in Nat /\ faults' = faults + n
         /\ NoFault => faults' \in Nat /\ faults' = faults
  BY DEF Types, Fails, NoFault

\* What a restore leaves behind.
LEMMA StraysTyped ==
  ASSUME Types, job \in Job, Strays
  PROVE  stray \subseteq stray' /\ stray' \subseteq 0 .. MaxRewinds /\ stray' = stray \cup {job.id}
<1>1. job.id \in 0 .. MaxRewinds /\ stray \subseteq 0 .. MaxRewinds
  BY DEF Job, Types
<1> QED BY <1>1 DEF Strays

\* Withdrawing an intent, and rolling a combined restore back.
LEMMA CancelsTyped ==
  ASSUME Types, job \in Job, NEW n \in Nat, NEW i, Cancels(n, i)
  PROVE  /\ faults' \in Nat
         /\ (intent' = None /\ stray' = stray) \/ (intent' = i /\ stray' = stray \cup {job.id})
         /\ intent' \in {i, None} /\ stray \subseteq stray' /\ stray' \subseteq 0 .. MaxRewinds
<1>1. CASE Fails(n) /\ intent' = None /\ UNCHANGED stray
  BY <1>1, FaultsTyped DEF Types
<1>2. CASE Fails(n + 1) /\ intent' = i /\ Strays
  <2>1. faults' \in Nat
    BY <1>2, FaultsTyped, n + 1 \in Nat
  <2> QED BY <1>2, <2>1, StraysTyped
<1> QED BY <1>1, <1>2 DEF Cancels

LEMMA RollsBackTyped ==
  ASSUME Types, job \in Job, NEW n \in Nat, NEW i, RollsBack(n, i)
  PROVE  /\ faults' \in Nat
         /\ (intent' = None /\ stray' = stray) \/ (intent' = i /\ stray' = stray \cup {job.id})
         /\ intent' \in {i, None} /\ stray \subseteq stray' /\ stray' \subseteq 0 .. MaxRewinds
         /\ phase' = "idle" /\ job' = None
         /\ lapsed' \in {lapsed, TRUE}
         /\ lapsed' = TRUE \/ context' = job.original
<1>1. CASE context' = job.original /\ Cancels(n, i) /\ UNCHANGED lapsed
  BY <1>1, CancelsTyped DEF RollsBack, Leaves
<1>2. CASE Fails(n + 1) /\ intent' = i /\ UNCHANGED context /\ lapsed' = TRUE /\ Strays
  <2>1. faults' \in Nat
    BY <1>2, FaultsTyped, n + 1 \in Nat
  <2> QED BY <1>2, <2>1, StraysTyped DEF RollsBack, Leaves
<1> QED BY <1>1, <1>2 DEF RollsBack

LEMMA TypesTurns ==
  ASSUME Placed,
         \/ SubmitTurn \/ OpenTurn \/ Answer \/ SaveAfterTool \/ EndTurn
         \/ (\E t \in Ids : ForkAt(t)) \/ Crash
  PROVE  Types'
<1> USE DEF Types
<1>0. Types
  BY DEF Placed
<1>1. CASE SubmitTurn
  BY <1>0, <1>1 DEF SubmitTurn, memory, Phases, TurnPhases
<1>2. CASE OpenTurn
  <2>1. used \in Ids
    BY <1>0, <1>2 DEF OpenTurn, At, Placed, Hists, TurnPhases, Ids
  <2>2. Prompt(used) \in Logged
    BY <2>1 DEF Logged
  <2>3. Ready \in BOOLEAN
    BY <1>0 DEF Ready, Intent, None
  <2>4. events' \in Seq(Logged) /\ torn' \in BOOLEAN /\ lapsed' \in BOOLEAN
    BY <1>0, <1>2, <2>2, <2>3, EventsTyped DEF OpenTurn
  <2> QED BY <1>0, <1>2, <2>4 DEF OpenTurn, memory, Phases, TurnPhases
<1>3. CASE Answer
  BY <1>0, <1>3 DEF Answer, disk, ghosts, Phases, TurnPhases
<1>4. CASE SaveAfterTool
  BY <1>0, <1>4, Lengths, FaultsTyped DEF SaveAfterTool, MaybeSaves
<1>5. CASE EndTurn
  BY <1>0, <1>5, Lengths, FaultsTyped DEF EndTurn, MaybeSaves, Phases
<1>6. ASSUME NEW t \in Ids, ForkAt(t) PROVE Types'
  <2>1. ledger \in Histories(Closed) /\ t \in Range(ledger)
    BY <1>6 DEF ForkAt, Placed, Hists
  <2>2. Append(Before(ledger, t), t) \in Histories(Closed)
    BY <2>1, ForkIsHistory, PrefixIsHistory
  <2>3. Len(Append(Before(ledger, t), t)) \in 0 .. MaxTurns
    BY <2>2, HistoryIsShort
  <2>4. Marker(0, Len(ledger')) \in Logged
    BY <1>6, <2>3 DEF ForkAt, Logged
  <2>5. events' \in Seq(Logged) /\ torn' \in BOOLEAN /\ lapsed' \in BOOLEAN
    <3>1. (recovery \/ Stale \/ Ready) \in BOOLEAN
      BY <1>0 DEF Ready, Intent, None, Stale
    <3> QED BY <1>0, <1>6, <2>4, <3>1, EventsTyped DEF ForkAt
  <2> QED BY <1>0, <1>6, <2>5 DEF ForkAt
<1>7. CASE Crash
  <2>1. torn' \in BOOLEAN
    BY <1>0, <1>7, Zenon DEF Crash
  <2>2. /\ UNCHANGED <<events, intent, staged, used, marks, cleared, stray, faults>>
        /\ life' = "down" /\ phase' = "idle" /\ job' = None /\ mark' = 0
        /\ recovery' = FALSE /\ diskDone' = FALSE /\ wsPending' = FALSE
    BY <1>7 DEF Crash, Leaves
  <2>3. 0 \in 0 .. MaxTurns /\ "idle" \in Phases
    BY DEF Phases
  <2>4. lapsed' \in BOOLEAN
    BY <1>0, <1>7, Zenon DEF Crash
  <2> QED BY <1>0, <2>1, <2>2, <2>3, <2>4
<1> QED BY <1>1, <1>2, <1>3, <1>4, <1>5, <1>6, <1>7

LEMMA WritesTyped ==
  ASSUME Placed, NEW n \in 1 .. MaxRewinds, NEW scope, NEW t, Writes(n, scope, t)
  PROVE  intent' \in Intent
<1>1. ReadyFromStart(scope) \in BOOLEAN
  BY Zenon DEF ReadyFromStart
<1>2. /\ Before(ledger, t) \in Seq(Ids) /\ Len(Before(ledger, t)) \in 0 .. MaxTurns
      /\ Before(context, t) \in Seq(Ids)
  BY Lengths
<1> QED BY <1>1, <1>2 DEF Writes, Intent

LEMMA TypesRestore ==
  ASSUME Placed,
         \/ (\E t \in Ids, scope \in Scopes : BeginRestore(scope, t) \/ BeginFails(scope, t))
         \/ Stage \/ Apply
         \/ RestoreCode \/ CodeIncomplete \/ Arm \/ Commit \/ Reject \/ Unstage \/ Save
  PROVE  Types'
<1> USE DEF Types
<1>0. Types
  BY DEF Placed
<1>1. ASSUME NEW t \in Ids, NEW scope \in Scopes, BeginRestore(scope, t) PROVE Types'
  <2> DEFINE n == IF scope # "code" THEN marks + 1 ELSE 0
             kept == Before(ledger, t)
  <2>1. n \in 0 .. MaxRewinds /\ (scope # "code" => n \in 1 .. MaxRewinds /\ marks' = n)
        /\ (scope = "code" => marks' = marks)
    BY <1>0, <1>1 DEF BeginRestore, CanRestore
  <2>2. kept \in Seq(Ids) /\ Len(kept) \in 0 .. MaxTurns /\ Range(kept) \subseteq Ids
        /\ context \in Seq(Ids) /\ Before(context, t) \in Seq(Ids)
    BY Lengths
  <2>3. job' \in Job
    BY <1>1, <2>1, <2>2 DEF BeginRestore, Job
  <2>4. intent' \in Intent \cup {None}
    <3>1. CASE scope = "code"
      BY <1>0, <1>1, <3>1 DEF BeginRestore
    <3>2. CASE scope # "code"
      <4>1. Writes(n, scope, t) /\ n \in 1 .. MaxRewinds
        BY <1>1, <2>1, <3>2 DEF BeginRestore
      <4> QED BY <4>1, WritesTyped
    <3> QED BY <3>1, <3>2
  <2>5. cleared' \subseteq 0 .. MaxRewinds
    BY <1>0, <1>1, <2>1 DEF BeginRestore
  <2>6. lapsed' \in BOOLEAN
    BY <1>0, <1>1, Zenon DEF BeginRestore
  <2>7. phase' \in Phases
    BY <1>1 DEF BeginRestore, Phases, Scopes
  <2> QED BY <1>0, <1>1, <2>1, <2>3, <2>4, <2>5, <2>6, <2>7 DEF BeginRestore, memory
<1> USE FaultsTyped
<1>11. ASSUME NEW t \in Ids, NEW scope \in Scopes, BeginFails(scope, t) PROVE Types'
  <2>1. marks' \in 1 .. MaxRewinds
    BY <1>0, <1>11 DEF BeginFails, CanRestore
  <2>2. intent' \in Intent
    BY <1>11, <2>1, WritesTyped DEF BeginFails
  <2>3. cleared' \subseteq 0 .. MaxRewinds /\ stray' \subseteq 0 .. MaxRewinds
    BY <1>0, <1>11, <2>1 DEF BeginFails
  <2>4. lapsed' \in BOOLEAN
    BY <1>0, <1>11, Zenon DEF BeginFails
  <2> QED BY <1>0, <1>11, <2>1, <2>2, <2>3, <2>4 DEF BeginFails, memory
<1>12. job # None => job \in Job /\ job.id \in 0 .. MaxRewinds
  BY <1>0 DEF Job
<1>2. CASE Stage
  <2>0. job \in Job /\ job.id # 0
    BY <1>0, <1>2 DEF Placed, Stages, Stage, At, TurnPhases, None
  <2>1. Branch \in Staging
    BY <2>0 DEF Job, Staging, Branch
  <2>2. CASE staged' = Branch /\ phase' = "committing" /\ NoFault
             /\ wsPending' = TRUE /\ UNCHANGED <<intent, job, stray>>
    BY <1>0, <1>2, <2>1, <2>2 DEF Stage, Phases
  <2>3. CASE Cancels(1, intent) /\ Leaves /\ UNCHANGED <<staged, wsPending>>
    BY <1>0, <1>2, <2>0, <2>3, CancelsTyped DEF Stage, Leaves, Phases
  <2>4. CASE /\ staged' = Branch /\ Strays /\ Leaves /\ UNCHANGED wsPending
             /\ (Fails(1) /\ intent' = None) \/ (Fails(2) /\ UNCHANGED intent)
    <3>1. stray' \subseteq 0 .. MaxRewinds
      BY <1>0, <2>0, <2>4, StraysTyped
    <3> QED BY <1>0, <1>2, <2>1, <2>4, <3>1 DEF Stage, Leaves, Phases
  <2> QED BY <1>2, <2>2, <2>3, <2>4 DEF Stage
<1>3. CASE Apply
  <2>1. CASE phase' = "coding" /\ NoFault /\ UNCHANGED <<intent, job, stray>>
    BY <1>0, <1>3, <2>1 DEF Apply, Phases
  <2>2. CASE Cancels(1, intent) /\ Leaves
    <3>1. job # None
      BY <1>0, <1>3 DEF Placed, Stages, Apply, At, TurnPhases
    <3> QED BY <1>0, <1>3, <1>12, <2>2, <3>1, CancelsTyped DEF Apply, Leaves, Phases
  <2> QED BY <1>3, <2>1, <2>2 DEF Apply
<1>4. CASE RestoreCode
  <2>1. job \in Job
    BY <1>0, <1>4 DEF Placed, Stages, RestoreCode, At, TurnPhases
  <2>2. job.id \in 0 .. MaxRewinds
    BY <2>1 DEF Job
  <2> QED BY <1>0, <1>4, <2>2 DEF RestoreCode, Leaves, memory, Phases
<1>5. CASE CodeIncomplete
  <2>0. job \in Job
    BY <1>0, <1>5, <1>12 DEF Placed, Stages, CodeIncomplete, At, TurnPhases
  <2>1. CASE RollsBack(0, intent)
    BY <1>0, <1>5, <2>0, <2>1, RollsBackTyped DEF CodeIncomplete, Phases
  <2>2. CASE Leaves /\ NoFault /\ UNCHANGED <<context, intent, lapsed, stray>>
    BY <1>0, <1>5, <2>2 DEF CodeIncomplete, Leaves, Phases
  <2> QED BY <1>5, <2>1, <2>2 DEF CodeIncomplete
<1>6. CASE Arm
  <2> DEFINE armed == [intent EXCEPT !.ready = TRUE]
  <2>1. intent \in Intent /\ job \in Job
    BY <1>0, <1>6, <1>12 DEF Placed, Stages, Arm, At, None, TurnPhases
  <2>2. armed \in Intent
    BY <2>1 DEF Intent
  <2>5. UNCHANGED <<events, torn, staged, life, mark, recovery, diskDone, wsPending, used, marks, cleared>>
    BY <1>6 DEF Arm
  <2>3. ASSUME NEW i \in {intent, armed}, RollsBack(1, i) PROVE Types'
    <3>1. /\ faults' \in Nat /\ intent' \in {i, None} /\ stray' \subseteq 0 .. MaxRewinds
          /\ phase' = "idle" /\ job' = None /\ lapsed' \in {lapsed, TRUE}
      BY <1>0, <2>1, <2>3, RollsBackTyped, 1 \in Nat
    <3>2. i \in Intent /\ phase' \in Phases
      BY <2>1, <2>2, <3>1 DEF Phases
    <3> HIDE DEF armed
    <3> QED BY <1>0, <2>5, <3>1, <3>2
  <2>4. CASE /\ intent' = armed /\ phase' = "committing" /\ NoFault
             /\ UNCHANGED <<context, job, lapsed, stray>>
    BY <1>0, <1>6, <2>2, <2>4 DEF Arm, Phases
  <2> QED BY <1>6, <2>3, <2>4 DEF Arm
<1>7. CASE Commit
  BY <1>0, <1>7 DEF Commit, disk, ghosts, Phases
<1>8. CASE Reject
  <2>1. job # None
    BY <1>0, <1>8 DEF Placed, Stages, Reject, At, TurnPhases
  <2>2. stray' \subseteq 0 .. MaxRewinds
    BY <1>0, <1>8, <1>12, <2>1, StraysTyped DEF Reject
  <2> QED BY <1>0, <1>8, <2>2 DEF Reject, Leaves, memory, Phases
<1>9. CASE Unstage
  <2>1. job # None
    BY <1>0, <1>9 DEF Placed, Stages, Unstage, At, TurnPhases
  <2>2. stray' \subseteq 0 .. MaxRewinds
    BY <1>0, <1>9, <1>12, <2>1, StraysTyped DEF Unstage
  <2> QED BY <1>0, <1>9, <2>2 DEF Unstage, Leaves, Phases
<1>10. CASE Save
  <2>1. mark' \in 0 .. MaxTurns /\ faults' \in Nat /\ phase' \in Phases
    BY <1>0, <1>10, Lengths DEF Save, Phases
  <2> QED BY <1>0, <1>10, <2>1 DEF Save
<1> QED BY <1>1, <1>2, <1>3, <1>4, <1>5, <1>6, <1>7, <1>8, <1>9, <1>10, <1>11

\* Reconcile, FollowBranch, recovery and the start.
LEMMA TypesSettle ==
  ASSUME Placed,
         \/ Reconcile \/ FollowBranch \/ RetryRecovery \/ RetryHalf \/ RetryFails
         \/ Start \/ RefusedStart
  PROVE  Types'
<1> USE DEF Types
<1>0. Types /\ None.id = 0
  BY DEF Placed, None
<1> USE FaultsTyped
<1>1. ASSUME intent # None PROVE Len(Plan) \in 0 .. MaxTurns
  BY <1>1, Lengths DEF Plan
<1>2. CASE Reconcile
  <2>1. intent # None
    BY <1>2 DEF Reconcile, At, Placed, Stages, Armed
  <2>2. PICK done \in 0 .. 3 : Reconciles(done) /\
       IF done = 3
          THEN /\ mark' = Len(Plan)
               /\ recovery' = FALSE /\ diskDone' = FALSE
               /\ phase' = "branching"
               /\ NoFault /\ UNCHANGED job
          ELSE /\ recovery' = TRUE /\ diskDone' = FALSE
               /\ IF job.scope = "both" THEN phase' = "branching" /\ UNCHANGED job ELSE Leaves
               /\ Fails(1) /\ UNCHANGED mark
    BY <1>2 DEF Reconcile
  <2>3. events' \in Seq(Logged) /\ torn' \in BOOLEAN /\ intent' \in {intent, None}
    BY <2>1, <2>2, ReconcilesTyped
  <2>4. /\ phase' \in Phases /\ job' \in {job, None} /\ faults' \in Nat
        /\ mark' \in 0 .. MaxTurns /\ recovery' \in BOOLEAN /\ diskDone' \in BOOLEAN
    BY <1>0, <1>1, <2>1, <2>2 DEF Leaves, Phases
  <2> QED BY <1>0, <1>2, <2>3, <2>4 DEF Reconcile
<1>3. CASE FollowBranch
  <2>1. /\ faults' \in Nat /\ staged' \in {staged, None} /\ wsPending' \in BOOLEAN
        /\ recovery' \in BOOLEAN /\ diskDone' \in BOOLEAN
    BY <1>0, <1>3 DEF FollowBranch, CommitsBranch, BranchFails
  <2> QED BY <1>0, <1>3, <2>1 DEF FollowBranch, Leaves, Phases
<1>4. ASSUME SettlesDisk
      PROVE  /\ events' \in Seq(Logged) /\ torn' \in BOOLEAN /\ intent' \in {intent, None}
             /\ Len(transcript') \in 0 .. MaxTurns
  <2>1. CASE diskDone
    BY <1>0, <1>4, <2>1, Lengths DEF SettlesDisk
  <2>2. CASE ~diskDone
    <3>1. intent # None /\ Reconciles(3)
      BY <1>0, <1>4, <2>2 DEF SettlesDisk
    <3> QED BY <3>1, ReconcilesTyped, Lengths
  <2> QED BY <2>1, <2>2
<1>5. CASE RetryRecovery
  <2>1. staged' \in {staged, None}
    BY <1>5 DEF RetryRecovery, CommitsBranch
  <2> QED BY <1>0, <1>4, <1>5, <2>1 DEF RetryRecovery, ghosts
<1>6. CASE RetryHalf
  <2>1. faults' \in Nat /\ staged' \in {staged, None}
    BY <1>0, <1>6 DEF RetryHalf, BranchFails
  <2> QED BY <1>0, <1>4, <1>6, <2>1 DEF RetryHalf
<1>7. CASE RetryFails
  <2>1. intent # None
    BY <1>0, <1>7 DEF RetryFails
  <2>2. PICK done \in 0 .. 2 : Reconciles(done)
    BY <1>7 DEF RetryFails
  <2>3. events' \in Seq(Logged) /\ torn' \in BOOLEAN /\ intent' \in {intent, None}
    BY <2>1, <2>2, ReconcilesTyped
  <2> QED BY <1>0, <1>7, <2>3 DEF RetryFails, memory
<1>8. ASSUME NEW pending \in BOOLEAN, Loads(pending)
      PROVE  /\ events' \in Seq(Logged) /\ torn' \in BOOLEAN /\ intent' \in {intent, None}
             /\ faults' \in Nat
  <2>1. CASE intent.id = 0
    BY <1>0, <1>8, <2>1 DEF Loads
  <2>2. CASE intent.id # 0
    <3>1. PICK done \in 0 .. 3 : Reconciles(done) /\ (IF pending THEN Fails(1) ELSE NoFault)
      BY <1>8, <2>2 DEF Loads
    <3>2. intent # None /\ faults' \in Nat
      BY <1>0, <2>2, <3>1
    <3> QED BY <3>1, <3>2, ReconcilesTyped
  <2> QED BY <2>1, <2>2
<1>9. CASE Start
  <2>1. PICK pending \in BOOLEAN : /\ Loads(pending)
                                   /\ CommitsBranch \/ UNCHANGED <<staged, order>>
                                   /\ recovery' = ClosesGate(pending)
                                   /\ diskDone' = DiskSettled(pending)
    BY <1>9 DEF Start
  <2>2. recovery' \in BOOLEAN /\ diskDone' \in BOOLEAN
    BY <2>1, Zenon DEF ClosesGate, DiskSettled
  <2>3. wsPending' \in BOOLEAN
    BY <1>9, Zenon DEF Start
  <2>4. staged' \in {staged, None}
    BY <2>1 DEF CommitsBranch
  <2> QED BY <1>0, <1>8, <1>9, <2>1, <2>2, <2>3, <2>4 DEF Start
<1>10. CASE RefusedStart
  BY <1>0, <1>8, <1>10 DEF RefusedStart, memory
<1> QED BY <1>2, <1>3, <1>5, <1>6, <1>7, <1>9, <1>10

-----------------------------------------------------------------------------
(***************************************************************************)
(* Histories stay histories.                                               *)
(***************************************************************************)

\* All that is a history, is one of the turns begun so far.
LEMMA AllHistories ==
  ASSUME Placed
  PROVE  /\ transcript \in Histories(used) /\ context \in Histories(used)
         /\ ledger \in Histories(used) /\ order \in Histories(used)
         /\ intent # None => intent.messages \in Histories(used)
         /\ job # None => job.original \in Histories(used)
         /\ Seen \in Nat /\ Closed \in Nat /\ used \in Nat /\ Seen <= used /\ Closed <= Seen
<1>1. used \in Nat /\ (phase \in TurnPhases => used # 0)
  BY DEF Placed, Types, Hists
<1>2. Seen \in Nat /\ Closed \in Nat /\ Seen <= used /\ Closed <= used /\ Closed <= Seen
  BY <1>1 DEF Seen, Closed, TurnPhases
<1>3. Histories(Seen) \subseteq Histories(used) /\ Histories(Closed) \subseteq Histories(used)
  BY <1>1, <1>2, LaterHistory
<1> QED BY <1>1, <1>2, <1>3 DEF Placed, Hists

\* A step that neither begins a turn nor is part of one.
LEMMA OutsideTurns ==
  ASSUME Placed, used' = used, phase' \notin TurnPhases,
         transcript' \in Histories(used), context' \in Histories(used),
         ledger' \in Histories(used), order' \in Histories(used), Len(order') <= MaxBranch,
         intent' # None => intent'.messages \in Histories(used),
         job' # None => job'.original \in Histories(used)
  PROVE  Hists'
<1>1. Seen' = used /\ Closed' = used
  BY DEF Seen, Closed, TurnPhases
<1> QED BY <1>1 DEF Hists

LEMMA CutOrder ==
  ASSUME Placed, NEW visible, CutsTo(visible)
  PROVE  order' \in Histories(used) /\ Len(order') <= MaxBranch
<1>1. order \in Histories(used) /\ Len(order) <= MaxBranch
  BY DEF Placed, Hists
<1>2. order \in Seq(Ids) /\ Len(order) \in Nat
  BY <1>1 DEF Histories
<1>3. order' \in Beginnings(order)
  BY <1>2, FirstIsPrefix DEF CutsTo
<1>4. order' \in Histories(used) /\ Len(order') <= Len(order) /\ Len(order') \in Nat
  BY <1>1, <1>3, PrefixIsHistory
<1> QED BY <1>1, <1>2, <1>4

LEMMA HistsTurns ==
  ASSUME Placed,
         \/ SubmitTurn \/ OpenTurn \/ Answer \/ SaveAfterTool \/ EndTurn
         \/ (\E t \in Ids : ForkAt(t)) \/ Crash
  PROVE  Hists'
<1>0. Hists /\ used \in Nat /\ used \in 0 .. MaxTurns
  BY DEF Placed, Types
<1>1. CASE SubmitTurn
  <2>1. /\ used' = used + 1 /\ phase = "idle" /\ phase' = "opening"
        /\ UNCHANGED <<transcript, context, ledger, intent, job>> /\ used' \in Ids
    BY <1>0, <1>1 DEF SubmitTurn, Idle, memory, Ids
  <2>2. Seen' = Seen /\ Closed' = Closed /\ used' # 0
    BY <1>0, <2>1 DEF Seen, Closed, TurnPhases
  <2>3. order \in Histories(used') /\ Append(order, used') \in Histories(used')
        /\ order \in Seq(Ids) /\ Len(order) \in Nat /\ Len(Append(order, used')) = Len(order) + 1
    <3>1. order \in Histories(used) /\ order \in Seq(Ids)
      BY <1>0 DEF Hists, Histories
    <3>2. used < used' /\ used <= used' /\ used' \in Nat
      BY <1>0, <2>1
    <3>3. Append(order, used') \in Histories(used')
      BY <1>0, <2>1, <3>1, <3>2, AppendIsHistory
    <3>4. Histories(used) \subseteq Histories(used')
      BY <1>0, <3>2, LaterHistory
    <3> QED BY <1>0, <2>1, <3>1, <3>3, <3>4
  <2>4. \A h \in Histories(used') : h # << >> => Tail(h) \in Histories(used') /\ Len(Tail(h)) = Len(h) - 1
    <3> SUFFICES ASSUME NEW h \in Histories(used'), h # << >>
                 PROVE  Tail(h) \in Histories(used') /\ Len(Tail(h)) = Len(h) - 1
      OBVIOUS
    <3>1. /\ h \in Seq(Ids) /\ Rising(h) /\ (\A i \in DOMAIN h : h[i] <= used') /\ Len(h) \in Nat
          /\ Tail(h) \in Seq(Ids) /\ Len(Tail(h)) = Len(h) - 1
          /\ DOMAIN h = 1 .. Len(h) /\ DOMAIN Tail(h) = 1 .. (Len(h) - 1)
          /\ \A i \in DOMAIN Tail(h) : Tail(h)[i] = h[i + 1] /\ i + 1 \in DOMAIN h
      BY DEF Histories
    <3>2. Rising(Tail(h))
      BY <3>1 DEF Rising
    <3> QED BY <3>1, <3>2 DEF Histories
  <2> DEFINE longer == IF used' \in Untracked THEN order ELSE Append(order, used')
  <2>5. longer \in Histories(used') /\ Len(longer) \in Nat /\ Len(longer) <= MaxBranch + 1
    BY <1>0, <2>3 DEF Hists
  <2>6. order' = IF Len(longer) > MaxBranch THEN Tail(longer) ELSE longer
    BY <1>1 DEF SubmitTurn
  <2>7. order' \in Histories(used') /\ Len(order') <= MaxBranch
    <3> HIDE DEF longer
    <3>1. Len(longer) > MaxBranch => longer # << >>
      BY <2>5
    <3> QED BY <2>4, <2>5, <2>6, <3>1
  <2> QED BY <1>0, <2>1, <2>2, <2>7 DEF Hists
<1>2. CASE OpenTurn
  <2>1. /\ phase = "opening" /\ phase' = "running"
        /\ UNCHANGED <<transcript, context, ledger, intent, job, order, used>>
    BY <1>2 DEF OpenTurn, At, memory
  <2>2. Seen' = Seen /\ Closed' = Closed
    BY <2>1 DEF Seen, Closed, TurnPhases
  <2> QED BY <1>0, <2>1, <2>2 DEF Hists, TurnPhases
<1>3. CASE Answer
  <2>1. /\ phase = "running" /\ phase' = "answered" /\ context' = Append(context, used)
        /\ UNCHANGED <<transcript, ledger, intent, job, order, used>>
    BY <1>3 DEF Answer, At, disk, ghosts
  <2>2. Seen = used - 1 /\ Seen' = used /\ Closed' = Closed /\ Seen \in Nat /\ used \in Ids
    BY <1>0, <2>1 DEF Seen, Closed, TurnPhases, Hists, Ids
  <2>3. context' \in Histories(used)
    <3>1. context \in Histories(Seen) /\ Seen < used
      BY <1>0, <2>2 DEF Hists
    <3>2. Append(context, used) \in Histories(used)
      BY <2>2, <3>1, AppendIsHistory
    <3> QED BY <2>1, <3>2
  <2>4. /\ transcript' \in Histories(Seen') /\ context' \in Histories(Seen')
        /\ ledger' \in Histories(Closed')
        /\ intent' # None => intent'.messages \in Histories(Seen')
        /\ job' # None => job'.original \in Histories(Seen')
    <3>1. /\ transcript' \in Histories(used) /\ ledger' \in Histories(Closed)
          /\ intent' # None => intent'.messages \in Histories(used)
          /\ job' # None => job'.original \in Histories(used)
      BY <1>0, <2>1, AllHistories DEF Hists
    <3> QED BY <2>2, <2>3, <3>1
  <2> QED BY <1>0, <2>1, <2>4 DEF Hists, TurnPhases
<1>4. CASE SaveAfterTool
  <2>1. /\ UNCHANGED <<phase, context, ledger, intent, job, order, used>>
        /\ transcript' \in {transcript, context}
    BY <1>4 DEF SaveAfterTool, MaybeSaves
  <2>2. Seen' = Seen /\ Closed' = Closed
    BY <2>1 DEF Seen, Closed
  <2> QED BY <1>0, <2>1, <2>2 DEF Hists
<1>5. CASE EndTurn
  <2>1. /\ phase = "answered" /\ phase' = "idle" /\ ledger' = Append(ledger, used)
        /\ UNCHANGED <<context, intent, job, order, used>>
        /\ transcript' \in {transcript, context}
    BY <1>5 DEF EndTurn, At, MaybeSaves
  <2>2. Closed = used - 1 /\ used \in Ids /\ Closed \in Nat
    BY <1>0, <2>1 DEF Closed, TurnPhases, Hists, Ids
  <2>3. ledger' \in Histories(used)
    <3>1. ledger \in Histories(Closed) /\ Closed < used
      BY <1>0, <2>2 DEF Hists, Ids
    <3>2. Append(ledger, used) \in Histories(used)
      BY <2>2, <3>1, AppendIsHistory
    <3> QED BY <2>1, <3>2
  <2>4. used' = used /\ phase' \notin TurnPhases
    BY <2>1 DEF TurnPhases
  <2>5. transcript' \in Histories(used) /\ context' \in Histories(used)
    BY <2>1, AllHistories
  <2>6. /\ order' \in Histories(used) /\ Len(order') <= MaxBranch
        /\ intent' # None => intent'.messages \in Histories(used)
        /\ job' # None => job'.original \in Histories(used)
    BY <2>1, AllHistories DEF Hists, Placed
  <2> QED BY <2>3, <2>4, <2>5, <2>6, OutsideTurns
<1>6. ASSUME NEW t \in Ids, ForkAt(t) PROVE Hists'
  <2>1. /\ phase = "idle" /\ t \in Range(ledger) /\ t \in Range(context)
        /\ context' = Append(Before(context, t), t) /\ ledger' = Append(Before(ledger, t), t)
        /\ UNCHANGED <<transcript, intent, job, order, used, phase>>
    BY <1>6 DEF ForkAt, Idle
  <2>2. ledger' \in Histories(used) /\ context' \in Histories(used)
    BY <2>1, AllHistories, ForkIsHistory, PrefixIsHistory
  <2> QED BY <1>0, <2>1, <2>2, AllHistories, OutsideTurns DEF Hists, TurnPhases
<1>7. CASE Crash
  <2>1. /\ phase' = "idle" /\ context' = << >> /\ ledger' = << >> /\ job' = None
        /\ UNCHANGED <<transcript, intent, order, used>>
    BY <1>7 DEF Crash, Leaves
  <2> QED BY <1>0, <2>1, AllHistories, EmptyHistory, OutsideTurns DEF Hists, TurnPhases
<1> QED BY <1>1, <1>2, <1>3, <1>4, <1>5, <1>6, <1>7

LEMMA HistsRestore ==
  ASSUME Placed,
         \/ (\E t \in Ids, scope \in Scopes : BeginRestore(scope, t) \/ BeginFails(scope, t))
         \/ Stage \/ Apply
         \/ RestoreCode \/ CodeIncomplete \/ Arm \/ Commit \/ Reject \/ Unstage \/ Save
  PROVE  Hists'
<1>0. Hists /\ Types /\ Stages /\ order \in Histories(used) /\ Len(order) <= MaxBranch
  BY DEF Placed, Hists
<1>1. \A t : Before(ledger, t) \in Histories(used) /\ Before(context, t) \in Histories(used)
  BY AllHistories, BeforeIsPrefix, PrefixIsHistory
<1>2. ASSUME NEW t \in Ids, NEW scope \in Scopes, BeginRestore(scope, t) PROVE Hists'
  <2>1. /\ UNCHANGED <<transcript, context, ledger, order, used>>
        /\ phase' \notin TurnPhases
    BY <1>2 DEF BeginRestore, memory, TurnPhases, Scopes
  <2>2. intent' = intent \/ intent'.messages = Before(context, t)
    BY <1>2 DEF BeginRestore, Writes
  <2>3. job'.original = context
    BY <1>2 DEF BeginRestore
  <2> QED BY <1>0, <1>1, <2>1, <2>2, <2>3, AllHistories, OutsideTurns
<1>14. ASSUME NEW t \in Ids, NEW scope \in Scopes, BeginFails(scope, t) PROVE Hists'
  <2>1. /\ UNCHANGED <<transcript, context, ledger, order, used, job>>
        /\ phase' = "idle" /\ intent'.messages = Before(context, t)
    BY <1>14 DEF BeginFails, CanRestore, Idle, Writes, memory
  <2> QED BY <1>0, <1>1, <2>1, AllHistories, OutsideTurns DEF TurnPhases
<1>3. ASSUME NEW n \in Nat, NEW i, Cancels(n, i) PROVE intent' \in {i, None}
  BY <1>3 DEF Cancels
<1>4. CASE Stage
  <2>1. /\ UNCHANGED <<transcript, context, ledger, order, used>> /\ phase' \notin TurnPhases
        /\ intent' \in {intent, None} /\ job' \in {job, None}
    BY <1>3, <1>4 DEF Stage, Leaves, TurnPhases
  <2> QED BY <1>0, <2>1, AllHistories, OutsideTurns
<1>5. CASE Apply
  <2>1. /\ UNCHANGED <<transcript, ledger, order, used>> /\ phase' \notin TurnPhases
        /\ intent' \in {intent, None} /\ job' \in {job, None} /\ context' \in {context, Plan}
    BY <1>3, <1>5 DEF Apply, Leaves, TurnPhases
  <2>2. intent # None
    BY <1>0, <1>5 DEF Stages, Apply, At
  <2> QED BY <1>0, <2>1, <2>2, AllHistories, OutsideTurns DEF Plan
<1>6. CASE RestoreCode
  <2>1. /\ UNCHANGED <<transcript, context, ledger, intent, used>> /\ phase' \notin TurnPhases
        /\ job' \in {job, None}
    BY <1>6 DEF RestoreCode, Leaves, memory, TurnPhases
  <2>2. order' \in Histories(used) /\ Len(order') <= MaxBranch
    <3>1. Before(order, job.target) \in Histories(used)
          /\ Len(Before(order, job.target)) <= Len(order) /\ Len(Before(order, job.target)) \in Nat
      BY <1>0, BeforeIsPrefix, PrefixIsHistory
    <3>2. Len(order) \in Nat
      BY <1>0 DEF Histories
    <3>3. order' \in {order, Before(order, job.target)}
      BY <1>6 DEF RestoreCode
    <3> QED BY <1>0, <3>1, <3>2, <3>3
  <2> QED BY <1>0, <2>1, <2>2, AllHistories, OutsideTurns
<1>7. ASSUME NEW n \in Nat, NEW i, RollsBack(n, i), job # None,
             i # None => i.messages = intent.messages /\ intent # None,
             UNCHANGED <<transcript, ledger, order, used>>
      PROVE  Hists'
  <2>1. /\ phase' = "idle" /\ job' = None /\ intent' \in {i, None}
        /\ context' \in {context, job.original}
    BY <1>3, <1>7 DEF RollsBack, Leaves
  <2> QED BY <1>0, <1>7, <2>1, AllHistories, OutsideTurns DEF TurnPhases
<1>8. CASE CodeIncomplete
  <2>1. /\ UNCHANGED <<transcript, ledger, order, used>> /\ job # None
        /\ RollsBack(0, intent) \/ (Leaves /\ UNCHANGED <<context, intent>>)
    BY <1>0, <1>8 DEF CodeIncomplete, Stages, At, TurnPhases
  <2>2. CASE RollsBack(0, intent)
    BY <1>7, <2>1, <2>2
  <2>3. CASE Leaves /\ UNCHANGED <<context, intent>>
    BY <1>0, <2>1, <2>3, AllHistories, OutsideTurns DEF Leaves, TurnPhases
  <2> QED BY <2>1, <2>2, <2>3
<1>9. CASE Arm
  <2>1. /\ UNCHANGED <<transcript, ledger, order, used>> /\ job # None /\ intent # None
        /\ intent \in Intent
    BY <1>0, <1>9 DEF Arm, Stages, At, TurnPhases, Types
  <2> DEFINE armed == [intent EXCEPT !.ready = TRUE]
  <2>4. armed.messages = intent.messages
    BY <2>1 DEF Intent
  <2>2. ASSUME NEW i \in {intent, armed}, RollsBack(1, i) PROVE Hists'
    BY <1>7, <2>1, <2>2, <2>4
  <2>3. CASE intent' = armed /\ phase' = "committing" /\ UNCHANGED <<context, job>>
    <3>1. intent'.messages = intent.messages
      BY <2>3, <2>4
    <3> QED BY <1>0, <2>1, <2>3, <3>1, AllHistories, OutsideTurns DEF TurnPhases
  <2> QED BY <1>9, <2>2, <2>3 DEF Arm
<1>10. CASE Commit
  <2>1. /\ UNCHANGED <<transcript, order, used, intent, job>> /\ phase' = "saving"
        /\ context' = intent.messages /\ ledger' = Before(ledger, job.target) /\ intent # None
    BY <1>0, <1>10 DEF Commit, Plan, Stages, At, Armed, disk, ghosts
  <2> QED BY <1>0, <1>1, <2>1, AllHistories, OutsideTurns DEF TurnPhases
<1>11. CASE Reject
  <2>1. /\ UNCHANGED <<transcript, context, ledger, order, used>> /\ phase' \in {"unstaging", "idle"}
        /\ job' \in {job, None} /\ intent' \in {intent, None}
    BY <1>11 DEF Reject, Leaves, memory
  <2> QED BY <1>0, <2>1, AllHistories, OutsideTurns DEF TurnPhases
<1>12. CASE Unstage
  <2>1. /\ UNCHANGED <<transcript, context, ledger, intent, order, used>> /\ phase' = "idle" /\ job' = None
    BY <1>12 DEF Unstage, Leaves
  <2> QED BY <1>0, <2>1, AllHistories, OutsideTurns DEF TurnPhases
<1>13. CASE Save
  <2>1. /\ UNCHANGED <<context, ledger, intent, order, used, job>> /\ phase' = "reconciling"
        /\ transcript' \in {transcript, context}
    BY <1>13 DEF Save
  <2> QED BY <1>0, <2>1, AllHistories, OutsideTurns DEF TurnPhases
<1> QED BY <1>2, <1>4, <1>5, <1>6, <1>8, <1>9, <1>10, <1>11, <1>12, <1>13, <1>14

LEMMA HistsSettle ==
  ASSUME Placed,
         \/ Reconcile \/ FollowBranch \/ RetryRecovery \/ RetryHalf \/ RetryFails
         \/ Start \/ RefusedStart
  PROVE  Hists'
<1>0. Hists /\ Types /\ Stages /\ None.id = 0 /\ order \in Histories(used) /\ Len(order) <= MaxBranch
  BY DEF Placed, Hists, None
<1>1. ASSUME NEW done \in 0 .. 3, Reconciles(done), intent # None
      PROVE  transcript' \in Histories(used) /\ intent' \in {intent, None}
  BY <1>1, ReconcilesTyped, AllHistories
<1>2. ASSUME CommitsBranch PROVE order' \in Histories(used) /\ Len(order') <= MaxBranch
  BY <1>0, <1>2, CutOrder DEF CommitsBranch
<1>12. ASSUME BranchFails PROVE order' \in Histories(used) /\ Len(order') <= MaxBranch
  BY <1>0, <1>12, CutOrder DEF BranchFails
<1>3. CASE Reconcile
  <2>1. intent # None /\ \E done \in 0 .. 3 : Reconciles(done)
    BY <1>0, <1>3 DEF Reconcile, At, Stages, Armed
  <2>2. transcript' \in Histories(used) /\ intent' \in {intent, None}
    BY <1>1, <2>1
  <2>3. /\ UNCHANGED <<order, context, ledger, used>> /\ phase' \in {"branching", "idle"}
        /\ job' \in {job, None}
    BY <1>3 DEF Reconcile, Leaves
  <2> QED BY <1>0, <2>2, <2>3, AllHistories, OutsideTurns DEF TurnPhases
<1>4. CASE FollowBranch
  <2>1. /\ UNCHANGED <<transcript, intent, context, ledger, used>> /\ phase' = "idle" /\ job' = None
    BY <1>4 DEF FollowBranch, Leaves
  <2>2. CommitsBranch \/ BranchFails \/ CutsTo(job.visible) \/ UNCHANGED order
    BY <1>4 DEF FollowBranch
  <2>3. order' \in Histories(used) /\ Len(order') <= MaxBranch
    BY <1>0, <1>2, <1>12, <2>2, CutOrder
  <2> QED BY <1>0, <2>1, <2>3, AllHistories, OutsideTurns DEF TurnPhases
<1>5. ASSUME SettlesDisk PROVE transcript' \in Histories(used) /\ intent' \in {intent, None}
  <2>1. \/ UNCHANGED <<transcript, intent>>
        \/ intent # None /\ Reconciles(3)
    BY <1>0, <1>5 DEF SettlesDisk
  <2> QED BY <1>1, <2>1, AllHistories
<1>6. CASE RetryRecovery
  <2>1. /\ UNCHANGED <<ledger, used, phase, job>> /\ phase = "idle" /\ context' = transcript'
        /\ CommitsBranch \/ UNCHANGED order
    BY <1>6 DEF RetryRecovery, Idle, ghosts, Reloaded
  <2>2. transcript' \in Histories(used) /\ intent' \in {intent, None}
    BY <1>5, <1>6 DEF RetryRecovery
  <2>3. order' \in Histories(used) /\ Len(order') <= MaxBranch
    BY <1>0, <1>2, <2>1
  <2> QED BY <1>0, <2>1, <2>2, <2>3, AllHistories, OutsideTurns DEF TurnPhases
<1>7. CASE RetryHalf
  <2>1. /\ UNCHANGED <<ledger, used, phase, job>> /\ phase = "idle" /\ context' = transcript'
        /\ order' \in Histories(used) /\ Len(order') <= MaxBranch
    BY <1>7, <1>12 DEF RetryHalf, Idle, Reloaded
  <2>2. transcript' \in Histories(used) /\ intent' \in {intent, None}
    BY <1>5, <1>7 DEF RetryHalf
  <2> QED BY <1>0, <2>1, <2>2, AllHistories, OutsideTurns DEF TurnPhases
<1>8. CASE RetryFails
  <2>1. /\ UNCHANGED <<context, ledger, used, phase, job, order>> /\ phase = "idle"
        /\ intent # None /\ \E done \in 0 .. 3 : Reconciles(done)
    BY <1>0, <1>8 DEF RetryFails, Idle, memory
  <2>2. transcript' \in Histories(used) /\ intent' \in {intent, None}
    BY <1>1, <2>1
  <2> QED BY <1>0, <2>1, <2>2, AllHistories, OutsideTurns DEF TurnPhases
<1>9. ASSUME NEW pending \in BOOLEAN, Loads(pending)
      PROVE  transcript' \in Histories(used) /\ intent' \in {intent, None}
  <2>1. CASE intent.id = 0
    BY <1>9, <2>1, AllHistories DEF Loads
  <2>2. CASE intent.id # 0
    <3>1. intent # None /\ \E done \in 0 .. 3 : Reconciles(done)
      BY <1>0, <1>9, <2>2 DEF Loads
    <3> QED BY <1>1, <3>1
  <2> QED BY <2>1, <2>2
<1>10. CASE Start
  <2>1. /\ UNCHANGED <<used, phase, job>> /\ phase = "idle" /\ context' = transcript'
        /\ \E pending \in BOOLEAN : Loads(pending)
        /\ CommitsBranch \/ UNCHANGED order
        /\ ledger' \in {transcript', << >>}
    BY <1>0, <1>10 DEF Start, Stages, ReplaysLedger
  <2>2. transcript' \in Histories(used) /\ intent' \in {intent, None}
    BY <1>9, <2>1
  <2>3. order' \in Histories(used) /\ Len(order') <= MaxBranch
    BY <1>0, <1>2, <2>1
  <2> QED BY <1>0, <2>1, <2>2, <2>3, AllHistories, EmptyHistory, OutsideTurns DEF TurnPhases
<1>11. CASE RefusedStart
  <2>1. /\ UNCHANGED <<used, phase, job, context, ledger, order>> /\ phase = "idle"
        /\ \E pending \in BOOLEAN : Loads(pending)
    BY <1>0, <1>11 DEF RefusedStart, Stages, memory
  <2>2. transcript' \in Histories(used) /\ intent' \in {intent, None}
    BY <1>9, <2>1
  <2> QED BY <1>0, <2>1, <2>2, AllHistories, OutsideTurns DEF TurnPhases
<1> QED BY <1>3, <1>4, <1>6, <1>7, <1>8, <1>10, <1>11

\* Where a restore stands, after each step.
LEMMA StagesStep ==
  ASSUME Placed, [Next]_vars
  PROVE  Stages'
<1> USE DEF Stages
<1>0. Stages /\ Types
  BY DEF Placed
<1> USE DEF TurnPhases, Armed
<1>1. CASE SubmitTurn
  BY <1>0, <1>1 DEF SubmitTurn, Idle
<1>2. CASE OpenTurn
  BY <1>0, <1>2 DEF OpenTurn, At
<1>3. CASE Answer
  BY <1>0, <1>3 DEF Answer, At, disk
<1>4. CASE SaveAfterTool
  BY <1>0, <1>4 DEF SaveAfterTool, At
<1>5. CASE EndTurn
  BY <1>0, <1>5 DEF EndTurn, At
<1>6. ASSUME NEW t \in Ids, ForkAt(t) PROVE Stages'
  BY <1>0, <1>6 DEF ForkAt, Idle
<1>7. CASE Crash
  BY <1>0, <1>7 DEF Crash, Leaves
<1>23. ASSUME NEW t \in Ids, NEW scope \in Scopes, BeginFails(scope, t) PROVE Stages'
  BY <1>0, <1>23 DEF BeginFails, CanRestore, Idle
<1>8. ASSUME NEW t \in Ids, NEW scope \in Scopes, BeginRestore(scope, t) PROVE Stages'
  <2>1. job' # None /\ job'.scope = scope /\ life' = "up"
    BY <1>8 DEF BeginRestore, CanRestore, None, Idle
  <2>5. ASSUME scope # "code"
        PROVE  intent'.id = marks + 1 /\ intent'.ready = ReadyFromStart(scope) /\ job'.id = marks + 1
    <3>1. Writes(marks + 1, scope, t) /\ job'.id = marks + 1
      BY <1>8, <2>5 DEF BeginRestore
    <3> QED BY <3>1 DEF Writes
  <2>2. CASE scope = "conversation"
    <3>1. intent'.id = marks + 1 /\ job'.id = marks + 1 /\ phase' = "staging" /\ intent'.ready
      BY <1>8, <2>2, <2>5 DEF BeginRestore, ReadyFromStart
    <3>2. intent' # None /\ job'.id # 0
      BY <1>0, <3>1 DEF None, Types
    <3>3. life' = "up" /\ job'.scope = "conversation" /\ intent'.id = job'.id
      BY <2>1, <2>2, <3>1
    <3> QED BY <2>1, <3>1, <3>2, <3>3
  <2>3. CASE scope = "both"
    <3>1. intent'.id = marks + 1 /\ job'.id = marks + 1 /\ phase' = "applying" /\ ~intent'.ready
      BY <1>8, <2>3, <2>5 DEF BeginRestore, ReadyFromStart
    <3>2. intent' # None /\ job'.id # 0
      BY <1>0, <3>1 DEF None, Types
    <3>3. life' = "up" /\ phase' = "applying" /\ job'.scope = "both" /\ intent'.id = job'.id
      BY <2>1, <2>3, <3>1
    <3> QED BY <2>1, <3>1, <3>2, <3>3
  <2>4. CASE scope = "code"
    BY <1>0, <1>8, <2>1, <2>4 DEF BeginRestore
  <2> QED BY <2>2, <2>3, <2>4 DEF Scopes
<1>9. CASE Stage
  BY <1>0, <1>9 DEF Stage, At, Leaves
<1>10. CASE Apply
  BY <1>0, <1>10 DEF Apply, At, Leaves
<1>11. CASE RestoreCode
  BY <1>0, <1>11 DEF RestoreCode, At, Leaves
<1>12. CASE CodeIncomplete
  BY <1>0, <1>12 DEF CodeIncomplete, At, Leaves, RollsBack
<1>13. CASE Arm
  <2>1. intent \in Intent /\ life = "up" /\ job # None
    BY <1>0, <1>13 DEF Arm, At, Types
  <2> DEFINE armed == [intent EXCEPT !.ready = TRUE]
  <2>2. ASSUME NEW i \in {intent, armed}, RollsBack(1, i) PROVE Stages'
    BY <1>0, <1>13, <2>1, <2>2 DEF Arm, At, Leaves, RollsBack
  <2>3. CASE intent' = armed /\ phase' = "committing" /\ UNCHANGED <<context, job>>
    <3>1. intent'.ready /\ intent'.id = intent.id
      BY <2>1, <2>3 DEF Intent
    <3>2. intent' # None
      BY <1>0, <1>13, <2>1, <3>1 DEF Intent, None, Arm, At
    <3> QED BY <1>0, <1>13, <2>1, <2>3, <3>1, <3>2 DEF Arm, At
  <2> QED BY <1>13, <2>2, <2>3 DEF Arm
<1>14. CASE Commit
  BY <1>0, <1>14 DEF Commit, At, disk
<1>15. CASE Reject
  BY <1>0, <1>15 DEF Reject, At, Leaves
<1>16. CASE Unstage
  BY <1>0, <1>16 DEF Unstage, At, Leaves
<1>17. CASE Save
  BY <1>0, <1>17 DEF Save, At
<1>18. CASE Reconcile
  BY <1>0, <1>18 DEF Reconcile, At, Leaves
<1>19. CASE FollowBranch
  BY <1>0, <1>19 DEF FollowBranch, At, Leaves
<1>20. CASE RetryRecovery \/ RetryHalf \/ RetryFails
  BY <1>0, <1>20 DEF RetryRecovery, RetryHalf, RetryFails, Idle
<1>21. CASE Start \/ RefusedStart
  BY <1>0, <1>21 DEF Start, RefusedStart
<1>22. CASE UNCHANGED vars
  BY <1>0, <1>22 DEF vars, disk
<1> QED BY <1>1, <1>2, <1>3, <1>4, <1>5, <1>6, <1>7, <1>8, <1>9, <1>10, <1>11, <1>12, <1>13, <1>14,
           <1>15, <1>16, <1>17, <1>18, <1>19, <1>20, <1>21, <1>22, <1>23
        DEF Next, RestoreStep, Recovers, Starts

LEMMA PlacedStep ==
  ASSUME Placed, [Next]_vars
  PROVE  Placed'
<1>1. CASE UNCHANGED vars
  BY <1>1 DEF vars, disk, memory, ghosts, Placed, Types, Hists, Stages, Seen, Closed
<1>2. CASE Next
  <2>1. Stages'
    BY <1>2, StagesStep
  <2>2. Types'
    BY <1>2, TypesTurns, TypesRestore, TypesSettle DEF Next, RestoreStep, Recovers, Starts
  <2>3. Hists'
    BY <1>2, HistsTurns, HistsRestore, HistsSettle DEF Next, RestoreStep, Recovers, Starts
  <2> QED BY <2>1, <2>2, <2>3 DEF Placed
<1> QED BY <1>1, <1>2

\* Whatever fails and whenever the process dies, the files of a session and what its
\* process keeps have their types, and no history names a turn twice.
THEOREM Typing == Spec => []TypeOK
<1>1. Placed => TypeOK
  <2> SUFFICES ASSUME Placed PROVE TypeOK
    OBVIOUS
  <2>1. ASSUME NEW s \in {transcript, order, context, ledger} PROVE Range(s) \subseteq Ids /\ NoRepeat(s)
    BY AllHistories, HistoryIsShort
  <2>2. ASSUME NEW e \in Range(events)
        PROVE  e \in {Prompt(t) : t \in Ids}
                        \cup {Marker(n, k) : n \in 0 .. MaxRewinds, k \in 0 .. MaxTurns}
    BY DEF Range, Placed, Types, Logged
  <2>3. intent.id \in 0 .. MaxRewinds /\ staged.id \in 0 .. MaxRewinds
    BY DEF Placed, Types, Intent, Staging, None, Cancelled
  <2> QED BY <2>1, <2>2, <2>3 DEF TypeOK, Placed, Types, Hists
<1> QED BY <1>1, PlacedInit, PlacedStep, PTL DEF Spec

-----------------------------------------------------------------------------
(***************************************************************************)
(* The gate, the order of the two halves, and the marker.                  *)
(***************************************************************************)

\* A pending recovery has something to carry out, and where none is pending nothing is
\* left to but what a restore left behind since the start.
Gated ==
  /\ phase \notin {"idle", "branching"} => ~recovery
  /\ diskDone => recovery /\ intent = None
  /\ recovery => life = "up"
  /\ recovery /\ ~diskDone => intent # None
  /\ phase = "branching" /\ ~recovery => intent = None
  /\ phase = "branching" /\ job.scope = "conversation" => ~recovery
  /\ life = "up" /\ phase \in TurnPhases \cup {"idle", "coding"} /\ ~recovery =>
       (Ready => intent.id \in stray)
  /\ life = "up" /\ staged.id \notin {0} \cup stray => wsPending
  /\ life = "up" /\ staged.id \notin {0} \cup stray =>
       recovery \/ (job # None /\ staged.id = job.id /\ job.scope = "conversation"
                   /\ phase \in {"committing", "unstaging", "saving", "reconciling", "branching"})
  /\ phase = "unstaging" => ~Ready

\* The markers of the log, each of a restore whose code half is done, and no two of one.
Markers ==
  /\ \A i \in DOMAIN events : events[i].id <= marks
  /\ \A i \in DOMAIN events : events[i].kind = "rewind" /\ events[i].id # 0
                               => events[i].id \in cleared
  /\ MarkerOnce

\* The markers, the intent and the restore in progress, told by their number.
Numbered ==
  /\ Markers
  /\ intent.id <= marks /\ job.id <= marks
  /\ phase = "arming" => job.id \in cleared
  /\ Ready => intent.id \in cleared

LEMMA NoneIsNotReady ==
  /\ intent = None => ~Ready
  /\ intent' = None => ~Ready'
  /\ intent' = intent => Ready' = Ready
  BY DEF Ready, None

\* What carrying an intent out leaves of it.
LEMMA ReconcilesIntent ==
  ASSUME Placed, intent # None, NEW done \in 0 .. 3, Reconciles(done)
  PROVE  /\ ~Ready => UNCHANGED <<transcript, events, torn>>
         /\ done = 3 => intent' = None
         /\ done # 3 => intent' = intent
<1>1. intent \in Intent /\ intent.id # 0
  BY DEF Placed, Types, Intent
<1>2. CASE ~intent.ready
  BY <1>1, <1>2 DEF Reconciles, Ready
<1>3. CASE intent.ready
  BY <1>1, <1>3 DEF Reconciles, Ready
<1> QED BY <1>2, <1>3

LEMMA LoadsIntent ==
  ASSUME Placed, NEW pending \in BOOLEAN, Loads(pending)
  PROVE  /\ pending => intent' = intent /\ intent # None
         /\ ~pending => intent' = None
<1>0. intent \in Intent \cup {None} /\ None.id = 0
  BY DEF Placed, Types, None
<1>1. CASE intent.id = 0
  <2>1. intent = None
    BY <1>0, <1>1 DEF Intent
  <2> QED BY <1>0, <1>1, <2>1 DEF Loads
<1>2. CASE intent.id # 0
  <2>1. intent # None
    BY <1>0, <1>2
  <2>2. PICK done \in 0 .. 3 : Reconciles(done) /\ pending = (done < 3)
    BY <1>2 DEF Loads
  <2>3. pending => done < 3
    BY <2>2, Zenon
  <2>4. ~pending => ~(done < 3)
    BY <2>2, Zenon
  <2>5. (pending => done # 3) /\ (~pending => done = 3)
    BY <2>3, <2>4
  <2> QED BY <2>1, <2>2, <2>5, ReconcilesIntent
<1> QED BY <1>1, <1>2

LEMMA GatedTurns ==
  ASSUME Placed, Gated,
         \/ SubmitTurn \/ OpenTurn \/ Answer \/ SaveAfterTool \/ EndTurn
         \/ (\E t \in Ids : ForkAt(t)) \/ Crash
  PROVE  Gated'
<1> USE DEF Gated, TurnPhases
<1>0. Stages
  BY DEF Placed
<1>1. CASE SubmitTurn
  BY <1>0, <1>1, NoneIsNotReady DEF SubmitTurn, Idle, memory, Stages
<1>2. CASE OpenTurn
  BY <1>0, <1>2, NoneIsNotReady DEF OpenTurn, At, memory, Stages
<1>3. CASE Answer
  BY <1>0, <1>3, NoneIsNotReady DEF Answer, At, disk, ghosts, Stages
<1>4. CASE SaveAfterTool
  BY <1>0, <1>4, NoneIsNotReady DEF SaveAfterTool, At, ghosts, Stages
<1>5. CASE EndTurn
  BY <1>0, <1>5, NoneIsNotReady DEF EndTurn, At, Stages
<1>6. ASSUME NEW t \in Ids, ForkAt(t) PROVE Gated'
  BY <1>0, <1>6, NoneIsNotReady DEF ForkAt, Idle, Stages
<1>7. CASE Crash
  BY <1>0, <1>7, NoneIsNotReady DEF Crash, Leaves
<1> QED BY <1>1, <1>2, <1>3, <1>4, <1>5, <1>6, <1>7

\* Who restores has no recovery pending, and leaves what is on disk behind, if anything.
LEMMA LeavesGated ==
  ASSUME Gated, phase # "branching", phase # "idle", life = "up", job # None,
         phase' = "idle", job' = None, life' = life, UNCHANGED <<recovery, diskDone>>,
         stray \subseteq stray', Ready' => intent'.id \in stray',
         staged' = staged \/ staged'.id \in {0} \cup stray',
         UNCHANGED wsPending \/ staged'.id \in {0} \cup stray',
         job.scope = "conversation" /\ staged.id = job.id => staged'.id \in {0} \cup stray'
  PROVE  Gated'
<1>1. ~recovery /\ ~diskDone
  BY DEF Gated
<1>2. staged'.id \in {0} \cup stray'
  BY <1>1 DEF Gated
<1> QED BY <1>1, <1>2 DEF Gated, TurnPhases

LEMMA GatedRestore ==
  ASSUME Placed, Gated,
         \/ (\E t \in Ids, scope \in Scopes : BeginRestore(scope, t) \/ BeginFails(scope, t))
         \/ Stage \/ Apply
         \/ RestoreCode \/ CodeIncomplete \/ Arm \/ Commit \/ Reject \/ Unstage \/ Save
  PROVE  Gated'
<1> USE DEF TurnPhases
<1>0. Stages /\ Types /\ None.id = 0
  BY DEF Placed, None
<1>12. job # None => job \in Job
  BY <1>0 DEF Types
<1>1. ASSUME NEW t \in Ids, NEW scope \in Scopes, BeginRestore(scope, t) PROVE Gated'
  <2>1. /\ UNCHANGED <<staged, recovery, diskDone, wsPending, stray, life>>
        /\ phase = "idle" /\ life = "up" /\ ~recovery /\ ~diskDone /\ job = None
    BY <1>0, <1>1 DEF BeginRestore, CanRestore, Idle, memory, Gated, Stages
  <2>2. CASE scope = "conversation"
    <3>1. phase' = "staging" /\ job'.scope = "conversation"
      BY <1>1, <2>2 DEF BeginRestore
    <3> QED BY <2>1, <3>1 DEF Gated
  <2>3. CASE scope = "both"
    <3>1. phase' = "applying"
      BY <1>1, <2>3 DEF BeginRestore
    <3> QED BY <2>1, <3>1 DEF Gated
  <2>4. CASE scope = "code"
    <3>1. phase' = "coding" /\ UNCHANGED intent
      BY <1>1, <2>4 DEF BeginRestore
    <3> QED BY <2>1, <3>1, NoneIsNotReady DEF Gated
  <2> QED BY <2>2, <2>3, <2>4 DEF Scopes
<1>11. ASSUME NEW t \in Ids, NEW scope \in Scopes, BeginFails(scope, t) PROVE Gated'
  <2>1. /\ UNCHANGED <<staged, recovery, diskDone, wsPending, life, phase, job>>
        /\ phase = "idle" /\ life = "up" /\ ~recovery /\ ~diskDone /\ job = None
        /\ stray \subseteq stray' /\ intent'.id \in stray'
    BY <1>0, <1>11 DEF BeginFails, CanRestore, Idle, memory, Gated, Stages, Writes
  <2> QED BY <2>1 DEF Gated
<1>2. CASE Stage
  <2>1. phase = "staging" /\ life = "up" /\ UNCHANGED <<life, recovery, diskDone>> /\ ~recovery /\ ~diskDone
        /\ job.scope = "conversation" /\ job # None /\ job \in Job
    BY <1>0, <1>2, <1>12 DEF Stage, At, Stages, Gated
  <2>2. CASE staged' = Branch /\ phase' = "committing" /\ wsPending' = TRUE /\ UNCHANGED <<job, stray>>
    <3>1. staged'.id = job'.id
      BY <2>2 DEF Branch
    <3> QED BY <2>1, <2>2, <3>1 DEF Gated
  <2>3. CASE Cancels(1, intent) /\ Leaves /\ UNCHANGED <<staged, wsPending>>
    <3>1. (intent' = None /\ stray' = stray) \/ (intent' = intent /\ stray' = stray \cup {job.id})
      BY <1>0, <2>1, <2>3, CancelsTyped
    <3>2. intent.id = job.id
      BY <1>0, <2>1 DEF Stages, Armed
    <3>3. staged.id \in {0} \cup stray
      BY <2>1 DEF Gated
    <3> QED BY <2>1, <2>3, <3>1, <3>2, <3>3, LeavesGated, NoneIsNotReady DEF Leaves
  <2>4. CASE /\ staged' = Branch /\ Strays /\ Leaves /\ UNCHANGED wsPending
             /\ intent' = None \/ UNCHANGED intent
    <3>1. staged'.id = job.id /\ stray' = stray \cup {job.id} /\ intent.id = job.id
      BY <1>0, <2>1, <2>4 DEF Branch, Strays, Stages, Armed
    <3> QED BY <2>1, <2>4, <3>1, LeavesGated, NoneIsNotReady DEF Leaves
  <2> QED BY <1>2, <2>2, <2>3, <2>4 DEF Stage
<1>3. CASE Apply
  <2>1. phase = "applying" /\ life = "up" /\ UNCHANGED <<life, staged, wsPending, recovery, diskDone>>
        /\ ~recovery /\ ~diskDone /\ ~Ready /\ job.scope = "both" /\ job # None /\ job \in Job
    BY <1>0, <1>3, <1>12 DEF Apply, At, Stages, Ready, Gated
  <2>2. CASE phase' = "coding" /\ UNCHANGED <<intent, job, stray>>
    BY <1>0, <2>1, <2>2, NoneIsNotReady DEF Gated
  <2>3. CASE Cancels(1, intent) /\ Leaves
    <3>1. ~Ready' /\ stray \subseteq stray'
      BY <1>0, <2>1, <2>3, CancelsTyped, NoneIsNotReady
    <3> QED BY <2>1, <2>3, <3>1, LeavesGated DEF Leaves
  <2> QED BY <1>3, <2>2, <2>3 DEF Apply
<1>4. CASE RestoreCode
  <2>1. phase = "coding" /\ life = "up" /\ UNCHANGED <<life, intent, staged, wsPending, recovery, diskDone, stray>>
        /\ ~recovery /\ ~diskDone
    BY <1>0, <1>4 DEF RestoreCode, At, memory, Gated
  <2>2. (phase' = "arming" /\ UNCHANGED job) \/ (phase' = "idle" /\ job' = None)
    BY <1>4 DEF RestoreCode, Leaves
  <2> QED BY <2>1, <2>2, NoneIsNotReady DEF Gated
<1>5. CASE CodeIncomplete
  <2>1. phase = "coding" /\ life = "up" /\ UNCHANGED <<life, staged, wsPending, recovery, diskDone>>
        /\ ~recovery /\ ~diskDone /\ job # None /\ job \in Job
    BY <1>0, <1>5, <1>12 DEF CodeIncomplete, At, Gated, Stages
  <2>2. phase' = "idle" /\ job' = None /\ intent' \in {intent, None} /\ stray \subseteq stray'
    <3>1. CASE RollsBack(0, intent)
      BY <1>0, <2>1, <3>1, RollsBackTyped, 0 \in Nat
    <3>2. CASE Leaves /\ UNCHANGED <<intent, stray>>
      BY <1>0, <3>2 DEF Leaves
    <3> QED BY <1>5, <3>1, <3>2 DEF CodeIncomplete
  <2>3. Ready => intent.id \in stray
    BY <2>1 DEF Gated
  <2>4. Ready' => intent'.id \in stray'
    BY <2>2, <2>3, NoneIsNotReady
  <2>5. job.scope = "conversation" => FALSE
    BY <1>0, <2>1 DEF Stages
  <2> QED BY <2>1, <2>2, <2>4, <2>5, LeavesGated
<1>6. CASE Arm
  <2> DEFINE armed == [intent EXCEPT !.ready = TRUE]
  <2>1. phase = "arming" /\ life = "up" /\ UNCHANGED <<life, staged, wsPending, recovery, diskDone>>
        /\ ~recovery /\ ~diskDone /\ ~Ready /\ job.scope = "both" /\ job # None /\ job \in Job
        /\ intent \in Intent /\ intent.id = job.id
    BY <1>0, <1>6, <1>12 DEF Arm, At, Stages, Ready, Gated, Types
  <2>2. armed.id = job.id
    BY <2>1 DEF Intent
  <2>3. ASSUME NEW i \in {intent, armed}, RollsBack(1, i) PROVE Gated'
    <3>0. i.id = job.id
      BY <2>1, <2>2
    <3>1. /\ (intent' = None /\ stray' = stray) \/ (intent' = i /\ stray' = stray \cup {job.id})
          /\ phase' = "idle" /\ job' = None /\ stray \subseteq stray'
      BY <1>0, <2>1, <2>3, RollsBackTyped
    <3>2. Ready' => intent'.id \in stray'
      BY <3>0, <3>1, NoneIsNotReady
    <3> QED BY <2>1, <3>1, <3>2, LeavesGated
  <2>4. CASE phase' = "committing" /\ UNCHANGED <<job, stray>>
    BY <1>0, <2>1, <2>4 DEF Gated
  <2> QED BY <1>6, <2>3, <2>4 DEF Arm
<1>7. CASE Commit
  BY <1>0, <1>7, NoneIsNotReady DEF Commit, At, disk, ghosts, Gated
<1>8. CASE Reject
  <2>1. phase = "committing" /\ life = "up" /\ UNCHANGED <<life, staged, wsPending, recovery, diskDone>>
        /\ ~recovery /\ ~diskDone /\ job.scope = "conversation" /\ job # None /\ job \in Job
        /\ intent.id = job.id
    BY <1>0, <1>8, <1>12 DEF Reject, At, memory, Gated, Stages, Armed
  <2>2. CASE intent' = None /\ phase' = "unstaging" /\ UNCHANGED <<job, stray>>
    BY <1>0, <2>1, <2>2, NoneIsNotReady DEF Gated
  <2>3. CASE intent' \in {intent, None} /\ Strays /\ Leaves
    <3>1. stray' = stray \cup {job.id}
      BY <2>3 DEF Strays
    <3>2. Ready' => intent'.id \in stray'
      BY <2>1, <2>3, <3>1, NoneIsNotReady
    <3> QED BY <2>1, <2>3, <3>1, <3>2, LeavesGated DEF Leaves
  <2> QED BY <1>8, <2>2, <2>3 DEF Reject
<1>9. CASE Unstage
  <2>1. phase = "unstaging" /\ life = "up" /\ UNCHANGED <<life, intent, recovery, diskDone>>
        /\ phase' = "idle" /\ job' = None /\ job # None /\ ~Ready /\ ~Ready'
    BY <1>0, <1>9, NoneIsNotReady DEF Unstage, At, Leaves, Gated, Stages
  <2>2. CASE staged' = None /\ UNCHANGED stray
    BY <1>0, <2>1, <2>2, LeavesGated
  <2>3. CASE staged' \in {staged, Cancelled, None} /\ Strays /\ UNCHANGED wsPending
    <3>1. stray' = stray \cup {job.id} /\ Cancelled.id = 0
      BY <2>3 DEF Strays, Cancelled
    <3>2. staged.id = job.id => staged'.id \in {0} \cup stray'
      BY <1>0, <2>3, <3>1
    <3>3. staged' = staged \/ staged'.id \in {0} \cup stray'
      BY <1>0, <2>3, <3>1
    <3> QED BY <2>1, <2>3, <3>1, <3>2, <3>3, LeavesGated
  <2> QED BY <1>9, <2>2, <2>3 DEF Unstage
<1>10. CASE Save
  BY <1>0, <1>10, NoneIsNotReady DEF Save, At, Gated
<1> QED BY <1>1, <1>2, <1>3, <1>4, <1>5, <1>6, <1>7, <1>8, <1>9, <1>10, <1>11

LEMMA GatedSettle ==
  ASSUME Placed, Gated,
         \/ Reconcile \/ FollowBranch \/ RetryRecovery \/ RetryHalf \/ RetryFails
         \/ Start \/ RefusedStart
  PROVE  Gated'
<1> USE DEF Gated, TurnPhases
<1>0. Stages /\ Types /\ None.id = 0
  BY DEF Placed, Types, None
<1>1. CASE Reconcile
  <2>1. /\ phase = "reconciling" /\ life = "up" /\ UNCHANGED <<life, staged, wsPending>>
        /\ intent # None /\ UNCHANGED stray
    BY <1>0, <1>1 DEF Reconcile, At, Stages, Armed
  <2>2. PICK done \in 0 .. 3 : /\ Reconciles(done)
          /\ IF done = 3
             THEN recovery' = FALSE /\ diskDone' = FALSE /\ phase' = "branching" /\ UNCHANGED job
             ELSE recovery' = TRUE /\ diskDone' = FALSE
                  /\ IF job.scope = "both" THEN phase' = "branching" /\ UNCHANGED job ELSE Leaves
    BY <1>1 DEF Reconcile
  <2>3. CASE done = 3
    <3>1. intent' = None
      BY <2>1, <2>2, <2>3, ReconcilesIntent
    <3> QED BY <1>0, <2>1, <2>2, <2>3, <3>1, NoneIsNotReady
  <2>4. CASE done # 3
    <3>1. intent' = intent
      BY <2>1, <2>2, <2>4, ReconcilesIntent
    <3> QED BY <1>0, <2>1, <2>2, <2>4, <3>1, NoneIsNotReady DEF Leaves
  <2> QED BY <2>3, <2>4
<1>2. CASE FollowBranch
  <2>1. phase = "branching" /\ life = "up" /\ UNCHANGED <<life, intent>> /\ phase' = "idle" /\ job' = None
        /\ job # None /\ UNCHANGED stray
    BY <1>0, <1>2 DEF FollowBranch, At, Leaves, Stages
  <2>2. CASE job.scope = "conversation"
    <3>1. CASE CommitsBranch /\ wsPending' = FALSE /\ UNCHANGED <<recovery, diskDone>>
      <4>1. staged' = None
        BY <3>1 DEF CommitsBranch
      <4> QED BY <1>0, <2>1, <3>1, <4>1, NoneIsNotReady
    <3>2. CASE BranchFails /\ recovery' = TRUE /\ diskDone' = TRUE /\ UNCHANGED wsPending
      <4>1. intent = None /\ staged' \in {staged, None}
        BY <1>0, <1>2, <2>1, <2>2, <3>2 DEF BranchFails
      <4> QED BY <1>0, <2>1, <3>2, <4>1, NoneIsNotReady
    <3> QED BY <1>2, <2>2, <3>1, <3>2 DEF FollowBranch
  <2>3. CASE job.scope # "conversation"
    <3>1. UNCHANGED <<staged, recovery, diskDone, wsPending>>
      BY <1>0, <1>2, <2>3 DEF FollowBranch
    <3> QED BY <1>0, <2>1, <2>3, <3>1, NoneIsNotReady
  <2> QED BY <2>2, <2>3
<1>3. ASSUME recovery, SettlesDisk PROVE intent' = None
  <2>1. CASE diskDone
    BY <1>3, <2>1 DEF SettlesDisk
  <2>2. CASE ~diskDone
    <3>1. intent # None /\ Reconciles(3)
      BY <1>0, <1>3, <2>2 DEF SettlesDisk
    <3> QED BY <3>1, ReconcilesIntent
  <2> QED BY <2>1, <2>2
<1>4. CASE RetryRecovery
  <2>1. /\ phase = "idle" /\ life = "up" /\ phase' = "idle" /\ life' = "up"
        /\ recovery' = FALSE /\ diskDone' = FALSE /\ wsPending' = FALSE
        /\ UNCHANGED <<job, stray>> /\ job = None
    BY <1>0, <1>4 DEF RetryRecovery, Idle, ghosts, Stages
  <2>2. intent' = None
    BY <1>3, <1>4 DEF RetryRecovery
  <2>3. staged'.id \in {0} \cup stray
    <3>1. CASE wsPending
      BY <1>0, <1>4, <3>1 DEF RetryRecovery, CommitsBranch
    <3>2. CASE ~wsPending
      BY <1>4, <2>1, <3>2 DEF RetryRecovery
    <3> QED BY <3>1, <3>2
  <2> QED BY <2>1, <2>2, <2>3, NoneIsNotReady
<1>5. CASE RetryHalf
  <2>1. intent' = None
    BY <1>3, <1>5 DEF RetryHalf
  <2>2. staged' \in {staged, None}
    BY <1>5 DEF RetryHalf, BranchFails
  <2> QED BY <1>0, <1>5, <2>1, <2>2, NoneIsNotReady DEF RetryHalf, Idle, Stages
<1>6. CASE RetryFails
  <2>1. /\ phase = "idle" /\ life = "up" /\ recovery /\ ~diskDone /\ intent # None
        /\ UNCHANGED <<staged, phase, life, job, recovery, diskDone, wsPending, stray>> /\ job = None
        /\ \E done \in 0 .. 3 : done # 3 /\ Reconciles(done)
    BY <1>0, <1>6 DEF RetryFails, Idle, memory, Stages
  <2>2. intent' = intent
    BY <2>1, ReconcilesIntent
  <2> QED BY <2>1, <2>2, NoneIsNotReady
<1>7. CASE Start
  <2>1. PICK pending \in BOOLEAN :
          /\ Loads(pending) /\ recovery' = ClosesGate(pending) /\ diskDone' = DiskSettled(pending)
    BY <1>7 DEF Start
  <2>2. /\ phase = "idle" /\ phase' = "idle" /\ life' = "up" /\ job' = None
        /\ wsPending' = (staged'.id # 0) /\ stray' = {}
    BY <1>0, <1>7 DEF Start, Stages
  <2>6. CASE pending
    <3>1. intent' = intent /\ intent # None
      BY <2>1, <2>6, LoadsIntent
    <3>2. recovery' /\ ~diskDone'
      BY <2>1, <2>6 DEF ClosesGate, DiskSettled
    <3> QED BY <2>2, <3>1, <3>2, NoneIsNotReady
  <2>7. CASE ~pending
    <3>1. intent' = None
      BY <2>1, <2>7, LoadsIntent
    <3>2. recovery' = (staged'.id # 0) /\ diskDone' = (staged'.id # 0)
      BY <2>1, <2>7 DEF ClosesGate, DiskSettled
    <3> QED BY <2>2, <3>1, <3>2, NoneIsNotReady
  <2> QED BY <2>6, <2>7
<1>8. CASE RefusedStart
  <2>1. PICK pending \in BOOLEAN : Loads(pending)
    BY <1>8 DEF RefusedStart
  <2>2. /\ UNCHANGED <<staged, phase, life, job, recovery, diskDone, wsPending>>
        /\ life = "down" /\ phase = "idle" /\ job = None /\ ~recovery /\ ~diskDone
    BY <1>0, <1>8 DEF RefusedStart, memory, Stages
  <2> QED BY <2>2
<1> QED BY <1>1, <1>2, <1>4, <1>5, <1>6, <1>7, <1>8

\* What happens to the markers: one event or none is added, which is no marker of a
\* restore, or the first of one whose code half is done.
Adds ==
  \/ events' = events
  \/ \E e \in Logged : /\ events' = Append(events, e)
                       /\ e.id = 0 \/ (e.id \in cleared /\ e.id <= marks /\ ~Marked(e.id))

LEMMA MarkersStep ==
  ASSUME Types, Types', Markers, Adds, cleared \subseteq cleared', marks <= marks'
  PROVE  Markers'
<1>0. /\ events \in Seq(Logged) /\ marks \in Nat /\ marks' \in Nat
      /\ \A e \in Logged : e.id \in Nat
  <2>1. \A e \in Logged : e.id \in Nat
    BY DEF Logged, Prompt, Marker
  <2> QED BY <2>1 DEF Types
<1>1. CASE events' = events
  BY <1>0, <1>1 DEF Markers, MarkerOnce
<1>2. ASSUME NEW e \in Logged, events' = Append(events, e),
             e.id = 0 \/ (e.id \in cleared /\ e.id <= marks /\ ~Marked(e.id))
      PROVE  Markers'
  <2>1. /\ DOMAIN events' = 1 .. Len(events) + 1 /\ events'[Len(events) + 1] = e
        /\ DOMAIN events = 1 .. Len(events) /\ Len(events) \in Nat
        /\ \A i \in 1 .. Len(events) : events'[i] = events[i] /\ events[i] \in Logged
    BY <1>0, <1>2
  <2>2. ASSUME NEW i \in DOMAIN events'
        PROVE  /\ events'[i].id <= marks'
               /\ events'[i].kind = "rewind" /\ events'[i].id # 0 => events'[i].id \in cleared'
    <3>1. CASE i \in DOMAIN events
      BY <1>0, <2>1, <3>1 DEF Markers
    <3>2. CASE i = Len(events) + 1
      BY <1>0, <1>2, <2>1, <3>2
    <3> QED BY <2>1, <3>1, <3>2
  <2>3. ASSUME NEW i \in DOMAIN events', NEW j \in DOMAIN events',
               events'[i].kind = "rewind", events'[j].kind = "rewind",
               events'[i].id = events'[j].id, events'[i].id # 0
        PROVE  i = j
    <3>1. CASE i \in DOMAIN events /\ j \in DOMAIN events
      BY <2>1, <2>3, <3>1 DEF Markers, MarkerOnce
    <3>2. ASSUME NEW k \in DOMAIN events, events[k].kind = "rewind", events[k].id = e.id, e.id # 0
          PROVE  FALSE
      BY <1>2, <3>2 DEF Marked
    <3>3. CASE i = Len(events) + 1 /\ j \in DOMAIN events
      BY <2>1, <2>3, <3>2, <3>3
    <3>4. CASE j = Len(events) + 1 /\ i \in DOMAIN events
      BY <2>1, <2>3, <3>2, <3>4
    <3> QED BY <2>1, <3>1, <3>3, <3>4
  <2> QED BY <2>2, <2>3 DEF Markers, MarkerOnce
<1> QED BY <1>1, <1>2 DEF Adds

LEMMA ReconcilesAdds ==
  ASSUME Placed, Numbered, intent # None, NEW done \in 0 .. 3, Reconciles(done)
  PROVE  Adds
<1>1. intent \in Intent /\ intent.id <= marks
  BY DEF Placed, Types, Numbered
<1>2. CASE ~intent.ready
  BY <1>2 DEF Reconciles, Adds
<1>3. CASE intent.ready
  <2>1. intent.id \in cleared
    BY <1>1, <1>3 DEF Numbered, Ready, Intent
  <2>2. Marker(intent.id, intent.kept) \in Logged
    <3>1. intent.id \in 0 .. MaxRewinds /\ intent.kept \in 0 .. MaxTurns
      BY <1>1 DEF Intent
    <3> QED BY <3>1 DEF Logged
  <2>3. Marker(intent.id, intent.kept).id = intent.id
    BY DEF Marker
  <2>4. \/ events' = events
        \/ events' = Append(events, Marker(intent.id, intent.kept)) /\ ~Marked(intent.id)
    BY <1>3, Zenon DEF Reconciles, NeedsMarker
  <2> QED BY <1>1, <2>1, <2>2, <2>3, <2>4 DEF Adds
<1> QED BY <1>2, <1>3

LEMMA AppendsAdds ==
  ASSUME NEW e \in Logged, NEW astray, e.id = 0, Appends(e, astray)
  PROVE  Adds
  BY DEF Appends, Adds

\* The steps that number nothing and arm nothing.
LEMMA NumberedKept ==
  ASSUME Placed, Placed', Numbered, Adds, cleared \subseteq cleared', marks <= marks',
         intent' \in {intent, None}, job' \in {job, None},
         phase' = "arming" => phase = "arming" /\ job' = job
  PROVE  Numbered'
<1>1. Markers /\ Markers'
  BY MarkersStep DEF Numbered, Placed
<1>2. /\ marks \in Nat /\ marks' \in Nat /\ None.id = 0
      /\ intent.id \in Nat /\ job.id \in Nat
  <2>1. marks \in Nat /\ intent \in Intent \cup {None} /\ job \in Job \cup {None}
    BY DEF Placed, Types
  <2>2. marks' \in Nat
    BY DEF Placed, Types
  <2>3. \A i \in Intent : i.id \in Nat
    BY DEF Intent
  <2>4. \A j \in Job : j.id \in Nat
    BY DEF Job
  <2>5. None.id = 0
    BY DEF None
  <2> QED BY <2>1, <2>2, <2>3, <2>4, <2>5
<1>3. intent'.id <= marks' /\ job'.id <= marks'
  BY <1>2 DEF Numbered
<1>4. phase' = "arming" => job'.id \in cleared'
  BY DEF Numbered
<1>5. Ready' => intent'.id \in cleared'
  <2>1. CASE intent' = intent
    BY <2>1 DEF Numbered, Ready
  <2>2. CASE intent' = None
    BY <2>2, NoneIsNotReady
  <2> QED BY <2>1, <2>2
<1> QED BY <1>1, <1>3, <1>4, <1>5 DEF Numbered

LEMMA NumberedTurns ==
  ASSUME Placed, Placed', Numbered,
         \/ SubmitTurn \/ OpenTurn \/ Answer \/ SaveAfterTool \/ EndTurn
         \/ (\E t \in Ids : ForkAt(t)) \/ Crash
  PROVE  Numbered'
<1>0. marks \in Nat /\ used \in 0 .. MaxTurns
  BY DEF Placed, Types
<1>1. CASE SubmitTurn
  BY <1>0, <1>1, NumberedKept DEF SubmitTurn, Idle, Adds
<1>2. CASE OpenTurn
  <2>1. used \in Ids
    BY <1>0, <1>2 DEF OpenTurn, At, Placed, Hists, TurnPhases, Ids
  <2>2. Prompt(used) \in Logged /\ Prompt(used).id = 0
    BY <2>1 DEF Logged, Prompt
  <2>3. Adds
    BY <1>2, <2>2, AppendsAdds DEF OpenTurn
  <2> QED BY <1>0, <1>2, <2>3, NumberedKept DEF OpenTurn
<1>3. CASE Answer
  BY <1>0, <1>3, NumberedKept DEF Answer, disk, ghosts, Adds
<1>4. CASE SaveAfterTool
  BY <1>0, <1>4, NumberedKept DEF SaveAfterTool, ghosts, Adds
<1>5. CASE EndTurn
  BY <1>0, <1>5, NumberedKept DEF EndTurn, Adds
<1>6. ASSUME NEW t \in Ids, ForkAt(t) PROVE Numbered'
  <2>1. Len(ledger') \in 0 .. MaxTurns
    <3>1. ledger' \in Histories(Closed')
      BY DEF Placed, Hists
    <3> QED BY <3>1, HistoryIsShort
  <2>2. Marker(0, Len(ledger')) \in Logged /\ Marker(0, Len(ledger')).id = 0
    BY <2>1 DEF Logged, Marker
  <2>3. Adds
    BY <1>6, <2>2, AppendsAdds DEF ForkAt
  <2> QED BY <1>0, <1>6, <2>3, NumberedKept DEF ForkAt
<1>7. CASE Crash
  BY <1>0, <1>7, NumberedKept DEF Crash, Leaves, Adds
<1> QED BY <1>1, <1>2, <1>3, <1>4, <1>5, <1>6, <1>7

LEMMA NumberedRestore ==
  ASSUME Placed, Placed', Numbered,
         \/ (\E t \in Ids, scope \in Scopes : BeginRestore(scope, t) \/ BeginFails(scope, t))
         \/ Stage \/ Apply
         \/ RestoreCode \/ CodeIncomplete \/ Arm \/ Commit \/ Reject \/ Unstage \/ Save
  PROVE  Numbered'
<1>0. marks \in Nat /\ Stages /\ Types /\ Types'
  BY DEF Placed, Types
<1>1. ASSUME NEW t \in Ids, NEW scope \in Scopes, BeginRestore(scope, t) PROVE Numbered'
  <2>1. Adds
    BY <1>1 DEF BeginRestore, Adds
  <2>2. CASE scope = "code"
    <3>1. job'.id = 0 /\ marks' = marks /\ intent' = intent /\ cleared' = cleared /\ phase' = "coding"
      BY <1>1, <2>2 DEF BeginRestore
    <3>2. Markers'
      BY <1>0, <2>1, <3>1, MarkersStep DEF Numbered
    <3>3. Ready' => intent'.id \in cleared'
      BY <3>1 DEF Numbered, Ready
    <3> QED BY <1>0, <3>1, <3>2, <3>3 DEF Numbered
  <2>3. CASE scope # "code"
    <3>1. /\ job'.id = marks + 1 /\ marks' = marks + 1 /\ intent'.id = marks + 1
          /\ cleared \subseteq cleared' /\ phase' # "arming"
          /\ intent'.ready => scope = "conversation" /\ intent'.id \in cleared'
      <4>1. job'.id = marks + 1 /\ marks' = marks + 1 /\ intent'.id = marks + 1
            /\ intent'.ready = ReadyFromStart(scope)
        BY <1>1, <2>3 DEF BeginRestore, Writes
      <4>2. CASE scope = "conversation"
        BY <1>1, <4>1, <4>2 DEF BeginRestore
      <4>3. CASE scope = "both"
        BY <1>1, <4>1, <4>3 DEF BeginRestore, ReadyFromStart
      <4> QED BY <2>3, <4>2, <4>3, <4>1 DEF Scopes
    <3>2. Markers'
      BY <1>0, <2>1, <3>1, MarkersStep DEF Numbered
    <3>3. Ready' => intent'.id \in cleared'
      BY <3>1 DEF Ready
    <3> QED BY <1>0, <3>1, <3>2, <3>3 DEF Numbered
  <2> QED BY <2>2, <2>3
<1>11. ASSUME NEW t \in Ids, NEW scope \in Scopes, BeginFails(scope, t) PROVE Numbered'
  <2>1. /\ marks' = marks + 1 /\ intent'.id = marks + 1 /\ intent'.ready = ReadyFromStart(scope)
        /\ cleared \subseteq cleared' /\ (scope = "conversation" => marks + 1 \in cleared')
        /\ UNCHANGED <<job, phase>> /\ phase = "idle" /\ job = None /\ scope # "code" /\ Adds
    BY <1>0, <1>11 DEF BeginFails, CanRestore, Writes, Idle, Stages, TurnPhases, Adds
  <2>2. Markers'
    BY <1>0, <2>1, MarkersStep DEF Numbered
  <2>3. Ready' => intent'.id \in cleared'
    BY <2>1 DEF Ready, ReadyFromStart, Scopes
  <2>4. intent'.id <= marks' /\ job'.id <= marks' /\ phase' # "arming"
    BY <1>0, <2>1, None.id = 0 DEF None
  <2> QED BY <2>2, <2>3, <2>4 DEF Numbered
<1>2. CASE Stage
  <2>1. intent' \in {intent, None} /\ job' \in {job, None} /\ phase' # "arming" /\ Adds
    BY <1>2 DEF Stage, Cancels, Leaves, Adds
  <2> QED BY <1>0, <1>2, <2>1, NumberedKept DEF Stage
<1>3. CASE Apply
  <2>1. intent' \in {intent, None} /\ job' \in {job, None} /\ phase' # "arming" /\ Adds
    BY <1>3 DEF Apply, Cancels, Leaves, Adds
  <2> QED BY <1>0, <1>3, <2>1, NumberedKept DEF Apply
<1>4. CASE RestoreCode
  <2>1. /\ Adds /\ cleared' = cleared \cup {job.id} /\ UNCHANGED <<intent, marks>>
        /\ (phase' = "arming" /\ job' = job) \/ (phase' = "idle" /\ job' = None)
    BY <1>4 DEF RestoreCode, Leaves, Adds, memory
  <2>2. Markers'
    BY <1>0, <2>1, MarkersStep DEF Numbered
  <2>3. intent'.id <= marks' /\ job'.id <= marks'
    BY <1>0, <2>1 DEF Numbered, None
  <2>4. phase' = "arming" => job'.id \in cleared'
    BY <2>1
  <2>5. Ready' => intent'.id \in cleared'
    BY <2>1 DEF Numbered, Ready
  <2> QED BY <2>2, <2>3, <2>4, <2>5 DEF Numbered
<1>5. CASE CodeIncomplete
  <2>1. intent' \in {intent, None} /\ job' = None /\ phase' = "idle" /\ Adds
    BY <1>5 DEF CodeIncomplete, RollsBack, Cancels, Leaves, Adds
  <2> QED BY <1>0, <1>5, <2>1, NumberedKept DEF CodeIncomplete
<1>6. CASE Arm
  <2> DEFINE armed == [intent EXCEPT !.ready = TRUE]
  <2>1. intent \in Intent /\ intent.id = job.id /\ job.id \in cleared /\ job.id <= marks
    BY <1>0, <1>6 DEF Numbered, Arm, At, Stages, Types
  <2>2. armed.id = intent.id
    BY <2>1 DEF Intent
  <2>3. Adds /\ UNCHANGED <<marks, cleared>>
    BY <1>6 DEF Arm, Adds
  <2>4. Markers'
    BY <1>0, <2>3, MarkersStep DEF Numbered
  <2>5. intent' \in {intent, armed, None} /\ job' \in {job, None}
    BY <1>6 DEF Arm, RollsBack, Cancels, Leaves
  <2>6. None.id = 0
    BY DEF None
  <2>7. intent'.id <= marks' /\ job'.id <= marks' /\ phase' # "arming"
    <3>1. phase' \in {"idle", "committing"}
      BY <1>6 DEF Arm, RollsBack, Leaves
    <3>2. armed.id <= marks /\ intent.id <= marks /\ None.id <= marks /\ marks' = marks
      BY <1>0, <2>1, <2>2, <2>3, <2>6
    <3>3. job.id <= marks
      BY <2>1
    <3> HIDE DEF armed
    <3> QED BY <2>5, <3>1, <3>2, <3>3
  <2>8. Ready' => intent'.id \in cleared'
    BY <2>1, <2>2, <2>3, <2>5, NoneIsNotReady
  <2> QED BY <2>4, <2>7, <2>8 DEF Numbered
<1>7. CASE Commit
  BY <1>0, <1>7, NumberedKept DEF Commit, disk, ghosts, Adds
<1>8. CASE Reject
  <2>1. intent' \in {intent, None} /\ job' \in {job, None} /\ phase' # "arming" /\ Adds
    BY <1>8 DEF Reject, Leaves, Adds
  <2> QED BY <1>0, <1>8, <2>1, NumberedKept DEF Reject
<1>9. CASE Unstage
  BY <1>0, <1>9, NumberedKept DEF Unstage, Leaves, Adds
<1>10. CASE Save
  BY <1>0, <1>10, NumberedKept DEF Save, Adds
<1> QED BY <1>1, <1>2, <1>3, <1>4, <1>5, <1>6, <1>7, <1>8, <1>9, <1>10, <1>11

LEMMA NumberedSettle ==
  ASSUME Placed, Placed', Numbered,
         \/ Reconcile \/ FollowBranch \/ RetryRecovery \/ RetryHalf \/ RetryFails
         \/ Start \/ RefusedStart
  PROVE  Numbered'
<1>0. marks \in Nat /\ Stages /\ Types /\ None.id = 0
  BY DEF Placed, Types, None
<1>1. ASSUME intent # None, NEW done \in 0 .. 3, Reconciles(done)
      PROVE  Adds /\ intent' \in {intent, None}
  BY <1>1, ReconcilesAdds, ReconcilesTyped
<1>2. ASSUME NEW pending \in BOOLEAN, Loads(pending)
      PROVE  Adds /\ intent' \in {intent, None}
  <2>1. CASE intent.id = 0
    BY <1>2, <2>1 DEF Loads, Adds
  <2>2. CASE intent.id # 0
    BY <1>0, <1>1, <1>2, <2>2 DEF Loads
  <2> QED BY <2>1, <2>2
<1>3. ASSUME SettlesDisk PROVE Adds /\ intent' \in {intent, None}
  <2>1. CASE diskDone
    BY <1>3, <2>1 DEF SettlesDisk, Adds
  <2>2. CASE ~diskDone
    <3>1. intent # None /\ Reconciles(3)
      BY <1>0, <1>3, <2>2 DEF SettlesDisk
    <3> QED BY <1>1, <3>1
  <2> QED BY <2>1, <2>2
<1>4. CASE Reconcile
  <2>1. intent # None /\ \E done \in 0 .. 3 : Reconciles(done)
    BY <1>0, <1>4 DEF Reconcile, At, Stages, Armed
  <2>2. job' \in {job, None} /\ phase' # "arming" /\ UNCHANGED <<marks, cleared>>
    BY <1>4 DEF Reconcile, Leaves
  <2> QED BY <1>0, <1>1, <2>1, <2>2, NumberedKept
<1>5. CASE FollowBranch
  <2>1. Adds /\ UNCHANGED <<intent, marks, cleared>> /\ job' = None /\ phase' = "idle"
    BY <1>5 DEF FollowBranch, Leaves, Adds
  <2> QED BY <1>0, <2>1, NumberedKept
<1>6. CASE RetryRecovery
  <2>1. SettlesDisk /\ UNCHANGED <<job, marks, cleared, phase>>
    BY <1>6 DEF RetryRecovery, ghosts
  <2> QED BY <1>0, <1>3, <2>1, NumberedKept
<1>7. CASE RetryHalf
  <2>1. SettlesDisk /\ UNCHANGED <<job, marks, cleared, phase>>
    BY <1>7 DEF RetryHalf
  <2> QED BY <1>0, <1>3, <2>1, NumberedKept
<1>8. CASE RetryFails
  <2>1. UNCHANGED <<job, marks, cleared, phase>> /\ intent # None /\ \E done \in 0 .. 3 : Reconciles(done)
    BY <1>0, <1>8 DEF RetryFails
  <2> QED BY <1>0, <1>1, <2>1, NumberedKept
<1>9. CASE Start
  <2>1. UNCHANGED <<job, marks, cleared, phase>> /\ \E pending \in BOOLEAN : Loads(pending)
    BY <1>9 DEF Start
  <2> QED BY <1>0, <1>2, <2>1, NumberedKept
<1>10. CASE RefusedStart
  <2>1. UNCHANGED <<job, marks, cleared, phase>> /\ \E pending \in BOOLEAN : Loads(pending)
    BY <1>10 DEF RefusedStart
  <2> QED BY <1>0, <1>2, <2>1, NumberedKept
<1> QED BY <1>4, <1>5, <1>6, <1>7, <1>8, <1>9, <1>10

\* What is sound on disk, with what it rests on.
Sound == Placed /\ Gated /\ Numbered

LEMMA SoundInit == Init => Sound
<1> SUFFICES ASSUME Init PROVE Sound
  OBVIOUS
<1>1. Gated
  BY DEF Init, Gated, TurnPhases, Ready, None
<1>2. Numbered
  BY DEF Init, Numbered, Markers, MarkerOnce, Ready, None
<1> QED BY <1>1, <1>2, PlacedInit DEF Sound

LEMMA SoundStep ==
  ASSUME Sound, [Next]_vars
  PROVE  Sound'
<1>1. Placed'
  BY PlacedStep DEF Sound
<1>2. CASE UNCHANGED vars
  <2>1. UNCHANGED <<events, intent, staged, life, phase, job, recovery, diskDone, wsPending, marks, cleared, stray>>
    BY <1>2 DEF vars, disk, memory, ghosts
  <2>2. Gated'
    BY <2>1 DEF Sound, Gated, Ready
  <2>3. Numbered'
    BY <2>1 DEF Sound, Numbered, Markers, MarkerOnce, Ready
  <2> QED BY <1>1, <2>2, <2>3 DEF Sound
<1>3. CASE Next
  <2>1. Gated'
    BY <1>3, GatedTurns, GatedRestore, GatedSettle DEF Sound, Next, RestoreStep, Recovers, Starts
  <2>2. Numbered'
    BY <1>1, <1>3, NumberedTurns, NumberedRestore, NumberedSettle
       DEF Sound, Next, RestoreStep, Recovers, Starts
  <2> QED BY <1>1, <2>1, <2>2 DEF Sound
<1> QED BY <1>2, <1>3

\* Placed and Numbered say what CodeFirst and MarkerOnce say of the event log.
LEMMA SoundFiles ==
  ASSUME Sound
  PROVE  GateHolds /\ CodeFirst /\ MarkerOnce
<1>1. GateHolds
  BY DEF Sound, Gated, GateHolds, At, TurnPhases
<1>2. \A e \in Range(events) : \E i \in DOMAIN events : e = events[i]
  BY DEF Range
<1>3. CodeFirst
  BY <1>2 DEF Sound, Numbered, Markers, CodeFirst
<1> QED BY <1>1, <1>3 DEF Sound, Numbered, Markers

\* However many turns, forks, restores, failing writes and crashes there were: a turn runs
\* over a ready intent or a staged branch only if that is one which, since the session
\* started, a write that raised after it was done, a failed withdrawal or a refused
\* rollback left; no marker and no ready intent precedes the code half of its restore,
\* and none has two markers.
THEOREM DiskStaysSound == Spec => []DiskSound
<1>1. Sound => GateHolds /\ CodeFirst /\ MarkerOnce
  BY SoundFiles
<1>2. Spec => []TypeOK
  BY Typing
<1> QED BY <1>1, <1>2, SoundInit, SoundStep, PTL DEF Spec, DiskSound
-----------------------------------------------------------------------------
(***************************************************************************)
(* The context continues the transcript: a prefix of it, then new turns.   *)
(***************************************************************************)

\* s is a prefix of h, then turns neither in h nor among the old ones.
Continues(s, h, old) ==
  \E k \in 0 .. Len(s) : /\ k <= Len(h)
                         /\ \A i \in 1 .. k : s[i] = h[i]
                         /\ \A i \in k + 1 .. Len(s) : s[i] \notin old \cup Range(h)

LEMMA ContinuesItself ==
  ASSUME NEW n, NEW h \in Histories(n), NEW old
  PROVE  Continues(h, h, old)
<1>1. Len(h) \in Nat
  BY DEF Histories
<1>2. Len(h) \in 0 .. Len(h) /\ Len(h) <= Len(h)
  BY <1>1
<1>3. \A i \in Len(h) + 1 .. Len(h) : FALSE
  BY <1>1
<1>4. \A i \in Len(h) + 1 .. Len(h) : h[i] \notin old \cup Range(h)
  BY <1>3
<1> QED BY <1>2, <1>4 DEF Continues

\* A prefix of what continues h continues h.
LEMMA PrefixContinues ==
  ASSUME NEW n, NEW s \in Histories(n), NEW h, Len(h) \in Nat, NEW old, Continues(s, h, old),
         NEW p \in Beginnings(s)
  PROVE  Continues(p, h, old)
<1>1. PICK m \in 0 .. Len(s) : p = SubSeq(s, 1, m)
  BY DEF Beginnings
<1>2. s \in Seq(Ids) /\ Len(s) \in Nat
  BY DEF Histories
<1>3. Len(p) = m /\ m \in Nat /\ \A i \in 1 .. m : p[i] = s[i]
  BY <1>1, <1>2, PrefixFacts
<1>4. PICK k \in 0 .. Len(s) : /\ k <= Len(h)
                               /\ \A i \in 1 .. k : s[i] = h[i]
                               /\ \A i \in k + 1 .. Len(s) : s[i] \notin old \cup Range(h)
  BY DEF Continues
<1>5. CASE k <= m
  <2>1. k \in 0 .. Len(p) /\ \A i \in 1 .. k : p[i] = h[i]
    BY <1>2, <1>3, <1>4, <1>5
  <2>2. \A i \in k + 1 .. Len(p) : p[i] \notin old \cup Range(h)
    BY <1>1, <1>2, <1>3, <1>4, <1>5
  <2> QED BY <1>4, <2>1, <2>2 DEF Continues
<1>6. CASE m < k
  <2>0. m \in Nat /\ k \in Nat /\ \A i \in 1 .. m : i \in 1 .. k
    BY <1>2, <1>3, <1>6
  <2>1. m \in 0 .. Len(p) /\ m <= Len(h) /\ \A i \in 1 .. m : p[i] = h[i]
    <3>1. m <= Len(h)
      BY <2>0, <1>4, <1>6
    <3>2. \A i \in 1 .. m : p[i] = h[i]
      BY <2>0, <1>3, <1>4
    <3> QED BY <1>3, <3>1, <3>2
  <2>2. \A i \in m + 1 .. Len(p) : FALSE
    BY <1>3
  <2> QED BY <2>1, <2>2 DEF Continues
<1> QED BY <1>2, <1>3, <1>4, <1>5, <1>6

\* A new turn keeps it.
LEMMA AppendContinues ==
  ASSUME NEW n, NEW s \in Histories(n), NEW h, NEW old, Continues(s, h, old),
         NEW t \in Ids, t \notin old \cup Range(h)
  PROVE  Continues(Append(s, t), h, old)
<1>1. s \in Seq(Ids) /\ Len(s) \in Nat
  BY DEF Histories
<1>2. /\ Len(Append(s, t)) = Len(s) + 1 /\ Append(s, t)[Len(s) + 1] = t
      /\ \A i \in 1 .. Len(s) : Append(s, t)[i] = s[i]
  BY <1>1
<1>3. PICK k \in 0 .. Len(s) : /\ k <= Len(h)
                               /\ \A i \in 1 .. k : s[i] = h[i]
                               /\ \A i \in k + 1 .. Len(s) : s[i] \notin old \cup Range(h)
  BY DEF Continues
<1>4. k \in 0 .. Len(Append(s, t)) /\ \A i \in 1 .. k : Append(s, t)[i] = h[i]
  BY <1>1, <1>2, <1>3
<1>5. ASSUME NEW i \in k + 1 .. Len(Append(s, t)) PROVE Append(s, t)[i] \notin old \cup Range(h)
  <2>1. CASE i = Len(s) + 1
    BY <1>2, <2>1
  <2>2. CASE i # Len(s) + 1
    <3>1. i \in k + 1 .. Len(s) /\ i \in 1 .. Len(s)
      BY <1>1, <1>2, <1>3, <2>2
    <3> QED BY <1>2, <1>3, <3>1
  <2> QED BY <2>1, <2>2
<1> QED BY <1>3, <1>4, <1>5 DEF Continues

\* What matters of the old turns is which are not in h.
LEMMA OldWithinHistory ==
  ASSUME NEW s, NEW h, NEW old, NEW more, more \cup Range(h) = old \cup Range(h),
         Continues(s, h, old)
  PROVE  Continues(s, h, more)
  BY DEF Continues

\* What continues the history is a revision of it.
LEMMA ContinuesRevises ==
  ASSUME NEW n, NEW m, NEW s \in Histories(n), NEW h \in Histories(m), Continues(s, h, known)
  PROVE  Atomic!Revises(h, s)
<1>1. /\ s \in Seq(Ids) /\ Len(s) \in Nat /\ Rising(s) /\ DOMAIN s = 1 .. Len(s)
      /\ h \in Seq(Ids) /\ Len(h) \in Nat
  BY DEF Histories
<1>2. PICK k \in 0 .. Len(s) : /\ k <= Len(h)
                               /\ \A i \in 1 .. k : s[i] = h[i]
                               /\ \A i \in k + 1 .. Len(s) : s[i] \notin known \cup Range(h)
  BY DEF Continues
<1>3. k \in 0 .. Len(h) /\ k <= Len(s)
  BY <1>1, <1>2
<1>4. SubSeq(s, 1, k) = SubSeq(h, 1, k)
  <2>1. /\ SubSeq(s, 1, k) \in Seq(Ids) /\ SubSeq(h, 1, k) \in Seq(Ids)
        /\ Len(SubSeq(s, 1, k)) = k /\ Len(SubSeq(h, 1, k)) = k
        /\ \A i \in 1 .. k : SubSeq(s, 1, k)[i] = s[i] /\ SubSeq(h, 1, k)[i] = h[i]
    BY <1>1, <1>2, <1>3, PrefixFacts
  <2>2. \A i \in 1 .. k : SubSeq(s, 1, k)[i] = SubSeq(h, 1, k)[i]
    BY <1>2, <2>1
  <2> QED BY <2>1, <2>2, SeqEqual
<1>5. ASSUME NEW i \in k + 1 .. Len(s)
      PROVE  s[i] \notin known /\ \A j \in k + 1 .. i - 1 : s[j] < s[i]
  <2>1. s[i] \notin known
    BY <1>2
  <2>2. ASSUME NEW j \in k + 1 .. i - 1 PROVE s[j] < s[i]
    <3>1. i \in DOMAIN s /\ j \in DOMAIN s /\ j < i
      BY <1>1, <1>2
    <3> QED BY <1>1, <3>1 DEF Rising
  <2> QED BY <2>1, <2>2
<1> QED BY <1>1, <1>3, <1>4, <1>5 DEF Atomic!Revises

-----------------------------------------------------------------------------
(***************************************************************************)
(* Where the context stands to the transcript.                             *)
(***************************************************************************)

\* A live session whose context is the history a new save would write.
Leading == life = "up" /\ ~recovery /\ ~Decided

Follows ==
  /\ \A t \in known : t \in Nat /\ t <= Seen
  /\ Leading => Continues(context, transcript, known)
  /\ phase = "applying" => context = job.original
  /\ Halfway => /\ intent.messages \in Beginnings(job.original)
                /\ Continues(job.original, transcript, known)
  /\ phase # "applying" /\ Halfway => context = intent.messages
  /\ phase \in {"saving", "reconciling"} => context = intent.messages
  /\ phase = "branching" /\ ~recovery => context = transcript

\* Seen is a number, and only grows.
LEMMA SeenGrows ==
  ASSUME Placed, Placed', used' = used \/ (used' = used + 1 /\ phase' = "opening"),
         phase' \in {"opening", "running"} => phase \in {"opening", "running"} \/ used' = used + 1
  PROVE  Seen \in Nat /\ Seen' \in Nat /\ Seen <= Seen'
<1>1. /\ used \in Nat /\ used' \in Nat
      /\ phase \in {"opening", "running"} => used # 0
      /\ phase' \in {"opening", "running"} => used' # 0
  BY DEF Placed, Types, Hists, TurnPhases
<1>2. CASE used' = used
  BY <1>1, <1>2 DEF Seen
<1>3. CASE used' = used + 1 /\ phase' = "opening"
  BY <1>1, <1>3 DEF Seen
<1> QED BY <1>2, <1>3

\* What known gains is the history the next start resumes; that of a leading session is
\* its transcript.
LEMMA KnownFollows ==
  ASSUME Placed, Placed', Follows, Learns, Seen \in Nat, Seen' \in Nat, Seen <= Seen'
  PROVE  /\ \A t \in known' : t \in Nat /\ t <= Seen'
         /\ (Leading' \/ (~Ready' /\ life' = "up" /\ ~recovery')) =>
              known' \cup Range(transcript') = known \cup Range(transcript')
<1>1. Effective' \in Histories(Seen')
  BY DEF Placed, Hists, Effective, Ready, None
<1>2. \A t \in Range(Effective') : t \in Nat /\ t <= Seen'
  <2>1. Effective' \in Seq(Ids) /\ \A i \in DOMAIN Effective' : Effective'[i] <= Seen'
    BY <1>1 DEF Histories
  <2>2. \A i \in DOMAIN Effective' : Effective'[i] \in Ids
    BY <2>1
  <2> QED BY <2>1, <2>2 DEF Range, Ids
<1>3. known' \in {known, known \cup Range(Effective')}
  BY DEF Learns
<1>4. \A t \in known' : t \in Nat /\ t <= Seen'
  BY <1>2, <1>3 DEF Follows
<1>5. ASSUME Leading' \/ (~Ready' /\ life' = "up" /\ ~recovery')
      PROVE  known' \cup Range(transcript') = known \cup Range(transcript')
  <2>1. CASE Ready'
    BY <1>5, <2>1 DEF Leading, HeldBack, Learns
  <2>2. CASE ~Ready'
    BY <1>3, <2>2 DEF Effective
  <2> QED BY <2>1, <2>2
<1> QED BY <1>4, <1>5

LEMMA SeenNext ==
  ASSUME Placed, Placed', Next
  PROVE  Seen \in Nat /\ Seen' \in Nat /\ Seen <= Seen'
<1> DEFINE Fits == /\ used' = used \/ (used' = used + 1 /\ phase' = "opening")
                   /\ phase' \in {"opening", "running"} =>
                        phase \in {"opening", "running"} \/ used' = used + 1
<1>1. CASE SubmitTurn
  <2>1. Fits
    BY <1>1 DEF SubmitTurn
  <2> QED BY <2>1, SeenGrows
<1>2. CASE OpenTurn \/ Answer \/ SaveAfterTool \/ EndTurn \/ Crash
  <2>1. Fits
    BY <1>2 DEF OpenTurn, Answer, SaveAfterTool, EndTurn, Crash, At, Leaves, ghosts
  <2> QED BY <2>1, SeenGrows
<1>3. CASE \E t \in Ids : ForkAt(t)
  <2>1. Fits
    BY <1>3 DEF ForkAt
  <2> QED BY <2>1, SeenGrows
<1>4. CASE \E t \in Ids, scope \in Scopes : BeginRestore(scope, t) \/ BeginFails(scope, t)
  <2>1. Fits
    BY <1>4 DEF BeginRestore, BeginFails, CanRestore, Idle, Scopes
  <2> QED BY <2>1, SeenGrows
<1>5. CASE Stage \/ Apply \/ RestoreCode \/ CodeIncomplete \/ Arm
  <2>1. Fits
    BY <1>5 DEF Stage, Apply, RestoreCode, CodeIncomplete, Arm, RollsBack, Leaves
  <2> QED BY <2>1, SeenGrows
<1>6. CASE Commit \/ Reject \/ Unstage \/ Save \/ Reconcile \/ FollowBranch
  <2>1. Fits
    BY <1>6 DEF Commit, Reject, Unstage, Save, Reconcile, FollowBranch, Leaves, ghosts
  <2> QED BY <2>1, SeenGrows
<1>7. CASE RetryRecovery \/ RetryHalf \/ RetryFails \/ Start \/ RefusedStart
  <2>1. Fits
    BY <1>7 DEF RetryRecovery, RetryHalf, RetryFails, Start, RefusedStart, ghosts
  <2> QED BY <2>1, SeenGrows
<1> QED BY <1>1, <1>2, <1>3, <1>4, <1>5, <1>6, <1>7 DEF Next, RestoreStep, Recovers, Starts

\* The steps that leave no combined restore halfway and no restore saving.
LEMMA FollowsSimply ==
  ASSUME Placed, Placed', Follows, Next, Learns,
         phase' \notin {"applying", "arming", "saving", "reconciling"},
         ~Halfway', phase' = "branching" => recovery',
         Leading' => Continues(context', transcript', known)
  PROVE  Follows'
<1>1. /\ \A t \in known' : t \in Nat /\ t <= Seen'
      /\ Leading' => known' \cup Range(transcript') = known \cup Range(transcript')
  BY SeenNext, KnownFollows
<1>2. Leading' => Continues(context', transcript', known')
  BY <1>1, OldWithinHistory
<1> QED BY <1>1, <1>2 DEF Follows

LEMMA FollowsTurns ==
  ASSUME Placed, Placed', Gated, Follows, Next, Learns,
         \/ SubmitTurn \/ OpenTurn \/ Answer \/ SaveAfterTool \/ EndTurn
         \/ (\E t \in Ids : ForkAt(t)) \/ Crash
  PROVE  Follows'
<1> USE DEF Leading, Halfway, Decided
<1>0. /\ transcript \in Histories(Seen) /\ context \in Histories(Seen) /\ Stages
      /\ Len(transcript) \in Nat
  BY DEF Placed, Hists, Histories
<1>1. CASE SubmitTurn
  <2>1. /\ phase = "idle" /\ phase' = "opening" /\ life' = life /\ recovery' = recovery
        /\ UNCHANGED <<context, transcript>>
    BY <1>1 DEF SubmitTurn, Idle, memory
  <2>2. Leading' => Continues(context', transcript', known)
    BY <2>1 DEF Follows
  <2> QED BY <2>1, <2>2, FollowsSimply
<1>2. CASE OpenTurn
  <2>1. /\ phase = "opening" /\ phase' = "running" /\ life' = life /\ recovery' = recovery
        /\ UNCHANGED <<context, transcript>>
    BY <1>2 DEF OpenTurn, At, memory
  <2>2. Leading' => Continues(context', transcript', known)
    BY <2>1 DEF Follows
  <2> QED BY <2>1, <2>2, FollowsSimply
<1>3. CASE Answer
  <2>1. /\ phase = "running" /\ phase' = "answered" /\ life' = life /\ recovery' = recovery
        /\ context' = Append(context, used) /\ transcript' = transcript
    BY <1>3 DEF Answer, At, disk
  <2>2. used \in Ids /\ Seen = used - 1
    <3>1. used \in 0 .. MaxTurns /\ used # 0
      BY <2>1 DEF Placed, Types, Hists, TurnPhases
    <3>2. used \in Ids
      BY <3>1, RewindAssumption DEF Ids
    <3> QED BY <2>1, <3>2 DEF Seen
  <2>3. used \notin known \cup Range(transcript)
    <3>1. \A t \in known : t \in Nat /\ t <= used - 1
      BY <2>2 DEF Follows
    <3>2. \A t \in Range(transcript) : t \in Nat /\ t <= used - 1
      <4>1. transcript \in Seq(Ids) /\ \A i \in DOMAIN transcript : transcript[i] <= used - 1
        BY <1>0, <2>2 DEF Histories
      <4>2. \A i \in DOMAIN transcript : transcript[i] \in Ids
        BY <4>1
      <4> QED BY <4>1, <4>2 DEF Range, Ids
    <3> QED BY <2>2, <3>1, <3>2 DEF Ids
  <2>4. Leading' => Continues(context, transcript, known)
    BY <2>1 DEF Follows
  <2>5. Leading' => Continues(context', transcript', known)
    BY <1>0, <2>1, <2>2, <2>3, <2>4, AppendContinues
  <2> QED BY <2>1, <2>5, FollowsSimply
<1>4. CASE SaveAfterTool \/ EndTurn
  <2>1. /\ phase = "answered" /\ phase' \in {"answered", "idle"} /\ life' = life
        /\ UNCHANGED <<context, recovery>>
        /\ transcript' \in {transcript, context}
    BY <1>4 DEF SaveAfterTool, EndTurn, MaybeSaves, At
  <2>2. Continues(context, context, known)
    BY <1>0, ContinuesItself
  <2>3. Leading' => Continues(context', transcript', known)
    BY <2>1, <2>2 DEF Follows
  <2> QED BY <2>1, <2>3, FollowsSimply
<1>5. ASSUME NEW t \in Ids, ForkAt(t) PROVE Follows'
  <2>1. /\ phase = "idle" /\ UNCHANGED <<phase, life, recovery, transcript>>
        /\ context' = Append(Before(context, t), t) /\ t \in Range(context)
    BY <1>5 DEF ForkAt, Idle
  <2>2. context' \in Beginnings(context)
    BY <1>0, <2>1, ForkIsHistory
  <2>3. Leading' => Continues(context, transcript, known)
    BY <2>1 DEF Follows
  <2>4. Leading' => Continues(context', transcript', known)
    BY <1>0, <2>1, <2>2, <2>3, PrefixContinues
  <2> QED BY <2>1, <2>4, FollowsSimply
<1>6. CASE Crash
  <2>1. life' = "down" /\ phase' = "idle"
    BY <1>6 DEF Crash, Leaves
  <2> QED BY <2>1, FollowsSimply
<1> QED BY <1>1, <1>2, <1>3, <1>4, <1>5, <1>6

LEMMA FollowsSettle ==
  ASSUME Placed, Placed', Gated, Follows, Next, Learns,
         \/ FollowBranch \/ RetryRecovery \/ RetryHalf \/ RetryFails \/ Start \/ RefusedStart
  PROVE  Follows'
<1> USE DEF Leading, Halfway, Decided
<1>0. transcript' \in Histories(Seen') /\ Stages /\ transcript \in Histories(Seen)
  BY DEF Placed, Hists
<1>1. CASE FollowBranch
  <2>1. /\ phase = "branching" /\ phase' = "idle" /\ UNCHANGED <<context, transcript>>
        /\ recovery' = TRUE \/ recovery' = recovery
    BY <1>1 DEF FollowBranch, At, Leaves
  <2>2. recovery \in BOOLEAN /\ recovery' \in BOOLEAN
    BY DEF Placed, Types
  <2>3. ~recovery' => context = transcript
    BY <2>1, <2>2 DEF Follows
  <2>4. Leading' => Continues(context', transcript', known)
    BY <1>0, <2>1, <2>3, ContinuesItself
  <2> QED BY <2>1, <2>4, FollowsSimply
<1>2. CASE RetryRecovery \/ Start
  <2>1. phase' = "idle" /\ context' = transcript'
    BY <1>0, <1>2 DEF RetryRecovery, Start, Idle, Reloaded, Stages
  <2>2. Continues(context', transcript', known)
    BY <1>0, <2>1, ContinuesItself
  <2> QED BY <2>1, <2>2, FollowsSimply
<1>3. CASE RetryHalf \/ RetryFails
  <2>1. phase' = "idle" /\ recovery'
    BY <1>3 DEF RetryHalf, RetryFails, Idle, memory
  <2> QED BY <2>1, FollowsSimply
<1>4. CASE RefusedStart
  <2>1. phase' = "idle" /\ life' = "down"
    BY <1>0, <1>4 DEF RefusedStart, Stages
  <2> QED BY <2>1, FollowsSimply
<1> QED BY <1>1, <1>2, <1>3, <1>4

\* The steps that leave a combined restore halfway.
LEMMA FollowsHalfway ==
  ASSUME Placed, Placed', Follows, Next, Learns,
         Halfway', ~Ready', life' = "up", ~recovery',
         intent'.messages \in Beginnings(job'.original),
         Continues(job'.original, transcript', known),
         context' = IF phase' = "applying" THEN job'.original ELSE intent'.messages
  PROVE  Follows'
<1>1. /\ \A t \in known' : t \in Nat /\ t <= Seen'
      /\ known' \cup Range(transcript') = known \cup Range(transcript')
  BY SeenNext, KnownFollows
<1>2. Continues(job'.original, transcript', known')
  BY <1>1, OldWithinHistory
<1>3. job' # None
  BY DEF Placed, Stages, Halfway, TurnPhases
<1>4. job'.original \in Histories(Seen') /\ Len(transcript') \in Nat
  BY <1>3 DEF Placed, Hists, Histories
<1>5. Continues(intent'.messages, transcript', known')
  BY <1>2, <1>4, PrefixContinues
<1>6. Continues(context', transcript', known')
  BY <1>2, <1>5
<1>7. phase' \in {"applying", "arming", "coding"}
  BY DEF Halfway
<1> QED BY <1>1, <1>2, <1>6, <1>7 DEF Follows

\* The steps of a restore that is decided.
LEMMA FollowsSaving ==
  ASSUME Placed, Placed', Follows, Next, Learns,
         phase' \in {"saving", "reconciling", "branching"},
         phase' # "branching" => context' = intent'.messages,
         phase' = "branching" /\ ~recovery' => context' = transcript'
  PROVE  Follows'
<1>1. \A t \in known' : t \in Nat /\ t <= Seen'
  BY SeenNext, KnownFollows
<1>2. ~Halfway' /\ ~Leading' /\ phase' # "applying"
  BY DEF Halfway, Leading, Decided
<1> QED BY <1>1, <1>2 DEF Follows

LEMMA FollowsRestore ==
  ASSUME Placed, Placed', Gated, Follows, Next, Learns,
         \/ (\E t \in Ids, scope \in Scopes : BeginRestore(scope, t) \/ BeginFails(scope, t))
         \/ Stage \/ Apply
         \/ RestoreCode \/ CodeIncomplete \/ Arm \/ Commit \/ Reject \/ Unstage
         \/ Save \/ Reconcile
  PROVE  Follows'
<1> USE DEF Leading, Decided
<1>0. /\ transcript \in Histories(Seen) /\ context \in Histories(Seen) /\ Stages
      /\ Len(transcript) \in Nat
      /\ Leading => Continues(context, transcript, known)
  BY DEF Placed, Hists, Histories, Follows
<1>1. ASSUME NEW t \in Ids, NEW scope \in Scopes, BeginRestore(scope, t) PROVE Follows'
  <2>1. /\ phase = "idle" /\ life = "up" /\ ~recovery
        /\ UNCHANGED <<context, transcript, recovery, life>>
        /\ job'.scope = scope /\ job'.original = context
    BY <1>1 DEF BeginRestore, CanRestore, Idle, memory
  <2>2. Continues(context, transcript, known)
    BY <1>0, <2>1
  <2>3. CASE scope = "conversation"
    <3>1. phase' = "staging"
      BY <1>1, <2>3 DEF BeginRestore
    <3> QED BY <2>1, <2>2, <3>1, FollowsSimply DEF Halfway
  <2>4. CASE scope = "code"
    <3>1. phase' = "coding"
      BY <1>1, <2>4 DEF BeginRestore
    <3> QED BY <2>1, <2>2, <2>4, <3>1, FollowsSimply DEF Halfway
  <2>5. CASE scope = "both"
    <3>1. phase' = "applying" /\ intent'.messages = Before(context, t) /\ ~intent'.ready
      <4>1. phase' = "applying" /\ Writes(marks + 1, scope, t)
        BY <1>1, <2>5 DEF BeginRestore
      <4> QED BY <2>5, <4>1 DEF Writes, ReadyFromStart
    <3>2. Before(context, t) \in Beginnings(context)
      BY <1>0, BeforeIsPrefix
    <3> QED BY <2>1, <2>2, <3>1, <3>2, FollowsHalfway DEF Halfway, Ready
  <2> QED BY <2>3, <2>4, <2>5 DEF Scopes
<1>13. ASSUME NEW t \in Ids, NEW scope \in Scopes, BeginFails(scope, t) PROVE Follows'
  <2>1. /\ phase = "idle" /\ phase' = "idle" /\ life = "up" /\ ~recovery
        /\ UNCHANGED <<context, transcript, recovery, life>>
    BY <1>13 DEF BeginFails, CanRestore, Idle, memory
  <2> QED BY <1>0, <2>1, FollowsSimply DEF Halfway
<1>2. CASE Stage
  <2>1. /\ phase = "staging" /\ phase' \in {"committing", "idle"} /\ life = "up"
        /\ UNCHANGED <<context, transcript, recovery, life>>
    BY <1>2 DEF Stage, At, Leaves
  <2> QED BY <1>0, <2>1, FollowsSimply DEF Halfway
<1>3. CASE Apply
  <2>1. /\ phase = "applying" /\ UNCHANGED <<transcript, recovery, life>> /\ life = "up" /\ ~recovery
        /\ ~intent.ready /\ job.scope = "both"
    BY <1>0, <1>3 DEF Apply, At, Stages, Gated
  <2>2. CASE context' = Plan /\ phase' = "coding" /\ UNCHANGED <<intent, job>>
    <3>1. /\ intent.messages \in Beginnings(job.original)
          /\ Continues(job.original, transcript, known)
      BY <2>1 DEF Follows, Halfway
    <3> QED BY <2>1, <2>2, <3>1, FollowsHalfway DEF Plan, Halfway, Ready
  <2>3. CASE phase' = "idle" /\ UNCHANGED context
    BY <1>0, <2>1, <2>3, FollowsSimply DEF Halfway
  <2> QED BY <1>3, <2>2, <2>3 DEF Apply, Leaves
<1>4. CASE RestoreCode
  <2>1. /\ phase = "coding" /\ UNCHANGED <<context, transcript, recovery, life, intent>> /\ life = "up"
        /\ ~recovery
    BY <1>4 DEF RestoreCode, At, memory, Gated
  <2>2. CASE job.scope = "both"
    <3>1. phase' = "arming" /\ job' = job
      BY <1>4, <2>2 DEF RestoreCode
    <3>2. /\ intent.messages \in Beginnings(job.original) /\ ~intent.ready
          /\ Continues(job.original, transcript, known) /\ context = intent.messages
      BY <1>0, <2>1, <2>2 DEF Follows, Halfway, Stages
    <3> QED BY <2>1, <3>1, <3>2, FollowsHalfway DEF Halfway, Ready
  <2>3. CASE job.scope # "both"
    <3>1. phase' = "idle"
      BY <1>4, <2>3 DEF RestoreCode, Leaves
    <3> QED BY <1>0, <2>1, <3>1, FollowsSimply DEF Halfway
  <2> QED BY <2>2, <2>3
<1>5. ASSUME Halfway, phase' = "idle", UNCHANGED transcript, context' \in {job.original, context}
      PROVE  Follows'
  <2>1. /\ intent.messages \in Beginnings(job.original) /\ job # None
        /\ Continues(job.original, transcript, known) /\ context \in {job.original, intent.messages}
    BY <1>0, <1>5 DEF Follows, Halfway, Stages, TurnPhases
  <2>2. job.original \in Histories(Seen)
    BY <2>1 DEF Placed, Hists
  <2>3. Continues(intent.messages, transcript, known)
    BY <1>0, <2>1, <2>2, PrefixContinues
  <2>4. Continues(context', transcript', known)
    BY <1>5, <2>1, <2>3
  <2> QED BY <1>5, <2>4, FollowsSimply DEF Halfway
<1>6. CASE CodeIncomplete
  <2>1. /\ phase = "coding" /\ phase' = "idle" /\ UNCHANGED <<transcript, recovery, life>> /\ life = "up"
    BY <1>6 DEF CodeIncomplete, At, RollsBack, Leaves
  <2>2. CASE job.scope = "both"
    <3>1. context' \in {job.original, context} /\ Halfway
      BY <1>6, <2>1, <2>2 DEF CodeIncomplete, RollsBack, Halfway
    <3> QED BY <1>5, <2>1, <3>1
  <2>3. CASE job.scope # "both"
    <3>1. context' = context
      BY <1>6, <2>3 DEF CodeIncomplete
    <3> QED BY <1>0, <2>1, <3>1, FollowsSimply DEF Halfway
  <2> QED BY <2>2, <2>3
<1>7. CASE Arm
  <2>1. /\ phase = "arming" /\ UNCHANGED <<transcript, recovery, life>> /\ Halfway /\ job.scope = "both"
    BY <1>0, <1>7 DEF Arm, At, Halfway, Stages
  <2>2. CASE phase' = "committing" /\ UNCHANGED <<context, job>>
    BY <2>1, <2>2, FollowsSimply DEF Halfway
  <2>3. CASE \E i : RollsBack(1, i)
    <3>1. context' \in {job.original, context} /\ phase' = "idle"
      BY <2>3 DEF RollsBack, Leaves
    <3> QED BY <1>5, <2>1, <3>1
  <2> QED BY <1>7, <2>2, <2>3 DEF Arm
<1>8. CASE Commit
  BY <1>8, FollowsSaving DEF Commit, Plan, disk
<1>9. CASE Reject
  <2>1. /\ phase = "committing" /\ job.scope = "conversation" /\ phase' \in {"unstaging", "idle"}
        /\ life = "up" /\ UNCHANGED <<context, transcript, recovery, life>>
    BY <1>9 DEF Reject, At, Leaves, memory
  <2> QED BY <1>0, <2>1, FollowsSimply DEF Halfway
<1>10. CASE Unstage
  <2>1. /\ phase = "unstaging" /\ phase' = "idle" /\ UNCHANGED <<context, transcript, recovery, life>>
    BY <1>10 DEF Unstage, At, Leaves
  <2> QED BY <1>0, <2>1, FollowsSimply DEF Halfway
<1>11. CASE Save
  <2>1. context = intent.messages /\ phase' = "reconciling" /\ UNCHANGED <<context, intent>>
    BY <1>11 DEF Save, At, Follows
  <2> QED BY <2>1, FollowsSaving
<1>12. CASE Reconcile
  <2>1. context = intent.messages /\ context' = context /\ intent.ready
    BY <1>0, <1>12 DEF Reconcile, At, Follows, Stages, Armed
  <2>2. \E done \in 0 .. 3 :
          /\ Reconciles(done)
          /\ \/ done = 3 /\ phase' = "branching"
             \/ done # 3 /\ recovery' = TRUE /\ phase' \in {"branching", "idle"}
    BY <1>12 DEF Reconcile, Leaves
  <2>3. \/ phase' = "branching" /\ transcript' = intent.messages
        \/ recovery' /\ phase' \in {"branching", "idle"}
    BY <2>1, <2>2 DEF Reconciles
  <2>4. CASE phase' = "branching"
    BY <2>1, <2>3, <2>4, FollowsSaving
  <2>5. CASE recovery' /\ phase' = "idle"
    BY <2>5, FollowsSimply DEF Halfway
  <2> QED BY <2>3, <2>4, <2>5
<1> QED BY <1>1, <1>2, <1>3, <1>4, <1>6, <1>7, <1>8, <1>9, <1>10, <1>11, <1>12, <1>13

-----------------------------------------------------------------------------
(***************************************************************************)
(* Every step shows as a step of AtomicRewind, or as none.                 *)
(***************************************************************************)

LEMMA HeldWhileLeading ==
  /\ HeldBack = IF Ready /\ Leading THEN <<transcript>> ELSE << >>
  /\ HeldBack' = IF Ready' /\ Leading' THEN <<transcript'>> ELSE << >>
  /\ Leading => Atomic!Live = transcript
<1>1. HeldBack = IF Ready /\ Leading THEN <<transcript>> ELSE << >>
  BY DEF HeldBack, Leading
<1>2. HeldBack' = IF Ready' /\ Leading' THEN <<transcript'>> ELSE << >>
  BY DEF HeldBack, Leading
<1>3. <<transcript>> # << >> /\ <<transcript>>[1] = transcript
  OBVIOUS
<1>4. Leading => Atomic!Live = transcript
  BY <1>1, <1>3 DEF Atomic!Live, Effective
<1> QED BY <1>1, <1>2, <1>4

\* The history stays, and what is held back stays or is let go.
LEMMA ShowsNothingCut ==
  ASSUME Learns, Effective' = Effective, HeldBack' \in {<< >>, HeldBack}
  PROVE  [Atomic!Next]_(Atomic!vars)
<1>1. CASE HeldBack' = << >>
  BY <1>1 DEF Learns, Atomic!Next, Atomic!Decide, Range, Atomic!Range
<1>2. CASE HeldBack' # << >>
  BY <1>2 DEF Learns, Atomic!vars
<1> QED BY <1>1, <1>2

LEMMA ShowsFilesKept ==
  ASSUME Learns, UNCHANGED <<transcript, intent>>, Ready /\ Leading' => Leading
  PROVE  [Atomic!Next]_(Atomic!vars)
<1>1. Effective' = Effective /\ Ready' = Ready
  BY DEF Effective, Ready
<1>2. HeldBack' \in {<< >>, HeldBack}
  BY <1>1, HeldWhileLeading
<1> QED BY <1>1, <1>2, ShowsNothingCut

\* Nothing is held back when the session does not lead, or no intent is ready.
LEMMA ShowsLetGo ==
  ASSUME Learns, Effective' = Effective, ~Ready' \/ ~Leading'
  PROVE  [Atomic!Next]_(Atomic!vars)
<1>1. HeldBack' = << >>
  BY HeldWhileLeading
<1> QED BY <1>1, ShowsNothingCut

\* A leading session's transcript is revised, and held back or let go.
LEMMA ShowsRevision ==
  ASSUME Learns, Leading, Atomic!Revises(transcript, Effective'),
         HeldBack' \in {<< >>, <<transcript>>}
  PROVE  [Atomic!Next]_(Atomic!vars)
<1>1. Atomic!Live = transcript
  BY HeldWhileLeading
<1>2. Atomic!Revise
  BY <1>1 DEF Atomic!Revise
<1> QED BY <1>2 DEF Learns, Atomic!Next, Range, Atomic!Range

\* An intent that was withdrawn, or is not ready any more, leaves the transcript.
LEMMA ShowsWithdrawal ==
  ASSUME Placed, Learns, Leading, UNCHANGED transcript, ~Ready'
  PROVE  [Atomic!Next]_(Atomic!vars)
<1>1. transcript \in Histories(Seen)
  BY DEF Placed, Hists
<1>2. Atomic!Revises(transcript, transcript)
  BY <1>1, ContinuesItself, ContinuesRevises
<1>3. Effective' = transcript
  BY DEF Effective
<1>4. HeldBack' = << >>
  BY HeldWhileLeading
<1> QED BY <1>2, <1>3, <1>4, ShowsRevision

\* The context is saved over the transcript.
LEMMA ShowsSave ==
  ASSUME Placed, Follows, Learns, Leading, Leading', UNCHANGED intent,
         transcript' \in {transcript, context}
  PROVE  [Atomic!Next]_(Atomic!vars)
<1>1. transcript \in Histories(Seen) /\ context \in Histories(Seen)
  BY DEF Placed, Hists
<1>2. Atomic!Revises(transcript, context)
  BY <1>1, ContinuesRevises DEF Follows
<1>3. CASE transcript' = transcript
  BY <1>3, ShowsFilesKept
<1>4. CASE transcript' = context
  <2>1. Ready' = Ready
    BY DEF Ready
  <2>2. CASE Ready
    <3>1. HeldBack = <<transcript>> /\ HeldBack' = <<context>> /\ Effective' = Effective
      BY <1>4, <2>1, <2>2, HeldWhileLeading DEF Effective
    <3>2. HeldBack # << >> /\ HeldBack' # << >> /\ HeldBack'[1] = context
      BY <3>1
    <3>3. Atomic!Live = transcript
      BY HeldWhileLeading
    <3>4. Atomic!Drift
      BY <1>2, <3>1, <3>2, <3>3 DEF Atomic!Drift
    <3> QED BY <3>2, <3>4 DEF Learns, Atomic!Next
  <2>3. CASE ~Ready
    <3>1. Effective' = context /\ HeldBack' = << >>
      BY <1>4, <2>1, <2>3, HeldWhileLeading DEF Effective
    <3> QED BY <1>2, <3>1, ShowsRevision
  <2> QED BY <2>2, <2>3
<1> QED BY <1>3, <1>4

LEMMA AtomicTurns ==
  ASSUME Placed, Gated, Follows, Learns,
         \/ SubmitTurn \/ OpenTurn \/ Answer \/ SaveAfterTool \/ EndTurn
         \/ (\E t \in Ids : ForkAt(t)) \/ Crash
  PROVE  [Atomic!Next]_(Atomic!vars)
<1> USE DEF Leading, Decided
<1>1. CASE SubmitTurn \/ OpenTurn \/ Answer \/ Crash \/ (\E t \in Ids : ForkAt(t))
  <2>1. UNCHANGED <<transcript, intent>>
    BY <1>1 DEF SubmitTurn, OpenTurn, Answer, Crash, ForkAt, disk
  <2>2. \/ life' = "down"
        \/ UNCHANGED <<life, recovery>> /\ phase \in TurnPhases \cup {"idle"}
    BY <1>1 DEF SubmitTurn, OpenTurn, Answer, Crash, ForkAt, Idle, At, disk, memory, TurnPhases
  <2>3. Leading' => Leading
    BY <2>2 DEF TurnPhases
  <2> QED BY <2>1, <2>3, ShowsFilesKept
<1>2. CASE SaveAfterTool \/ EndTurn
  <2>1. /\ phase = "answered" /\ phase' \in {"answered", "idle"} /\ life' = life /\ life = "up"
        /\ UNCHANGED <<context, recovery, intent>>
        /\ transcript' \in {transcript, context}
    BY <1>2 DEF SaveAfterTool, EndTurn, MaybeSaves, At
  <2>2. Leading /\ Leading'
    BY <2>1 DEF Gated
  <2> QED BY <2>1, <2>2, ShowsSave
<1> QED BY <1>1, <1>2

LEMMA AtomicRestore ==
  ASSUME Placed, Gated, Follows, Learns,
         \/ (\E t \in Ids, scope \in Scopes : BeginRestore(scope, t) \/ BeginFails(scope, t))
         \/ Stage \/ Apply
         \/ RestoreCode \/ CodeIncomplete \/ Arm \/ Commit \/ Reject \/ Unstage
         \/ Save \/ Reconcile
  PROVE  [Atomic!Next]_(Atomic!vars)
<1> USE DEF Leading, Decided
<1>0. /\ transcript \in Histories(Seen) /\ context \in Histories(Seen) /\ Stages
      /\ Len(transcript) \in Nat /\ None.id = 0
      /\ Leading => Continues(context, transcript, known)
  BY DEF Placed, Hists, Histories, Follows, None
\* The intent of a restore is written, whether or not the write raised.
<1>13. ASSUME NEW t \in Ids, NEW scope \in {"both", "conversation"}, Writes(marks + 1, scope, t),
              Idle, ~recovery, UNCHANGED <<context, transcript, recovery, life>>
       PROVE  [Atomic!Next]_(Atomic!vars)
  <2>1. /\ Leading /\ intent'.messages = Before(context, t)
        /\ intent'.id = marks + 1 /\ intent'.ready = ReadyFromStart(scope)
    BY <1>13 DEF Idle, Writes
  <2>2. CASE scope = "conversation"
    <3>1. Ready'
      <4>1. intent'.id # 0 /\ intent'.ready = TRUE
        <5>1. marks \in Nat /\ ReadyFromStart(scope) = TRUE
          BY <2>2 DEF ReadyFromStart, Placed, Types
        <5> QED BY <2>1, <5>1
      <4> QED BY <4>1 DEF Ready
    <3>2. Before(context, t) \in Beginnings(context)
      BY <1>0, BeforeIsPrefix
    <3>3. Before(context, t) \in Histories(Seen) /\ Continues(Before(context, t), transcript, known)
      BY <1>0, <2>1, <3>2, PrefixIsHistory, PrefixContinues
    <3>4. Atomic!Revises(transcript, Effective')
      BY <1>0, <2>1, <3>1, <3>3, ContinuesRevises DEF Effective
    <3>5. HeldBack' \in {<< >>, <<transcript>>}
      BY <1>13, HeldWhileLeading
    <3> QED BY <2>1, <3>4, <3>5, ShowsRevision
  <2>3. CASE scope = "both"
    <3>1. ~Ready'
      BY <2>1, <2>3 DEF Ready, ReadyFromStart
    <3> QED BY <1>13, <2>1, <3>1, ShowsWithdrawal
  <2> QED BY <2>2, <2>3
<1>1. ASSUME NEW t \in Ids, NEW scope \in Scopes, BeginRestore(scope, t)
      PROVE  [Atomic!Next]_(Atomic!vars)
  <2>1. Idle /\ ~recovery /\ UNCHANGED <<context, transcript, recovery, life>>
    BY <1>1 DEF BeginRestore, CanRestore, memory
  <2>2. CASE scope = "code"
    <3>1. intent' = intent /\ Leading
      BY <1>1, <2>1, <2>2 DEF BeginRestore, Idle
    <3> QED BY <2>1, <3>1, ShowsFilesKept
  <2>3. CASE scope # "code"
    <3>1. Writes(marks + 1, scope, t) /\ scope \in {"both", "conversation"}
      BY <1>1, <2>3 DEF BeginRestore, Scopes
    <3> QED BY <1>13, <2>1, <3>1
  <2> QED BY <2>2, <2>3
<1>14. ASSUME NEW t \in Ids, NEW scope \in Scopes, BeginFails(scope, t)
       PROVE  [Atomic!Next]_(Atomic!vars)
  <2>1. /\ Idle /\ ~recovery /\ UNCHANGED <<context, transcript, recovery, life>>
        /\ scope \in {"both", "conversation"} /\ Writes(marks + 1, scope, t)
    BY <1>14 DEF BeginFails, CanRestore, Scopes, memory
  <2> QED BY <1>13, <2>1
<1>2. CASE Stage
  <2>1. phase = "staging" /\ UNCHANGED transcript /\ Leading
    BY <1>0, <1>2 DEF Stage, At, Gated
  <2>2. CASE intent' = intent
    BY <2>1, <2>2, ShowsFilesKept
  <2>3. CASE intent' = None
    BY <2>1, <2>3, ShowsWithdrawal, NoneIsNotReady
  <2> QED BY <1>2, <2>2, <2>3 DEF Stage, Cancels
<1>3. ASSUME ~Ready, UNCHANGED transcript, intent' \in {intent, None}
      PROVE  [Atomic!Next]_(Atomic!vars)
  <2>1. ~Ready'
    BY <1>3, NoneIsNotReady
  <2> QED BY <1>3, <2>1, ShowsLetGo DEF Effective
<1>4. CASE Apply
  <2>1. ~Ready /\ UNCHANGED transcript /\ intent' \in {intent, None}
    BY <1>0, <1>4 DEF Apply, At, Stages, Ready, Cancels
  <2> QED BY <1>3, <2>1
<1>5. CASE RestoreCode
  <2>1. UNCHANGED <<transcript, intent, recovery, life>> /\ phase = "coding"
    BY <1>5 DEF RestoreCode, At, memory
  <2> QED BY <2>1, ShowsFilesKept
<1>6. CASE CodeIncomplete
  <2>1. CASE job.scope = "both"
    <3>1. ~Ready /\ UNCHANGED transcript /\ intent' \in {intent, None}
      BY <1>0, <1>6, <2>1 DEF CodeIncomplete, At, Stages, Ready, RollsBack, Cancels
    <3> QED BY <1>3, <3>1
  <2>2. CASE job.scope # "both"
    <3>1. UNCHANGED <<transcript, intent, recovery, life>> /\ phase = "coding"
      BY <1>6, <2>2 DEF CodeIncomplete, At
    <3> QED BY <3>1, ShowsFilesKept
  <2> QED BY <2>1, <2>2
<1>7. CASE Arm
  <2>1. /\ phase = "arming" /\ life = "up" /\ UNCHANGED <<transcript, recovery, life>> /\ ~recovery
        /\ ~intent.ready /\ intent # None /\ Leading /\ Halfway /\ job.scope = "both"
    BY <1>0, <1>7 DEF Arm, At, Halfway, Stages, Gated
  <2>2. CASE /\ intent' = [intent EXCEPT !.ready = TRUE] /\ phase' = "committing"
             /\ UNCHANGED <<context, job>>
    <3>1. intent \in Intent
      BY <2>1 DEF Placed, Types
    <3>2. intent'.ready /\ intent'.id # 0 /\ intent'.messages = intent.messages
      BY <2>2, <3>1 DEF Intent
    <3>3. context = intent.messages
      BY <2>1 DEF Follows
    <3>4. Effective' = context
      BY <3>2, <3>3 DEF Effective, Ready
    <3>5. Atomic!Revises(transcript, Effective')
      BY <1>0, <2>1, <3>4, ContinuesRevises
    <3>6. HeldBack' = << >>
      BY <2>1, <2>2, HeldWhileLeading
    <3> QED BY <2>1, <3>5, <3>6, ShowsRevision
  <2> DEFINE armed == [intent EXCEPT !.ready = TRUE]
  <2>3. ASSUME NEW i \in {intent, armed}, RollsBack(1, i)
        PROVE  [Atomic!Next]_(Atomic!vars)
    <3>1. intent' \in {intent, None, armed} /\ phase' = "idle"
      BY <2>3 DEF RollsBack, Cancels, Leaves
    <3>2. CASE intent' \in {intent, None}
      BY <1>3, <2>1, <3>2 DEF Ready
    <3>3. CASE intent' = armed
      <4>1. intent \in Intent
        BY <2>1 DEF Placed, Types
      <4>2. intent'.ready /\ intent'.id # 0 /\ intent'.messages = intent.messages
        BY <3>3, <4>1 DEF Intent
      <4>3. Effective' = context
        BY <2>1, <4>2 DEF Effective, Ready, Follows
      <4>4. Atomic!Revises(transcript, Effective')
        BY <1>0, <2>1, <4>3, ContinuesRevises
      <4>5. HeldBack' \in {<< >>, <<transcript>>}
        BY <2>1, HeldWhileLeading
      <4> QED BY <2>1, <4>4, <4>5, ShowsRevision
    <3> QED BY <3>1, <3>2, <3>3
  <2> QED BY <1>7, <2>2, <2>3 DEF Arm
<1>8. CASE Commit
  <2>1. UNCHANGED <<transcript, intent>> /\ phase' = "saving"
    BY <1>8 DEF Commit, disk
  <2> QED BY <2>1, ShowsFilesKept
<1>9. CASE Reject
  <2>1. /\ phase = "committing" /\ job.scope = "conversation" /\ Leading
        /\ UNCHANGED <<transcript, recovery, life>>
    BY <1>9 DEF Reject, At, memory, Gated
  <2>2. CASE intent' = None
    BY <2>1, <2>2, ShowsWithdrawal, NoneIsNotReady
  <2>3. CASE intent' = intent
    BY <2>1, <2>3, ShowsFilesKept
  <2> QED BY <1>9, <2>2, <2>3 DEF Reject
<1>10. CASE Unstage
  <2>1. UNCHANGED <<transcript, intent, recovery, life>> /\ phase = "unstaging"
    BY <1>10 DEF Unstage, At
  <2> QED BY <2>1, ShowsFilesKept
<1>11. CASE Save
  <2>1. intent' = intent /\ Ready /\ phase' = "reconciling"
    BY <1>0, <1>11 DEF Save, At, Stages, Armed, Ready, Placed, Types, Intent
  <2> QED BY <2>1, ShowsLetGo DEF Effective, Ready
<1>12. CASE Reconcile
  <2>1. intent # None /\ Ready
    BY <1>0, <1>12 DEF Reconcile, At, Stages, Armed, Ready, Placed, Types, Intent
  <2>2. PICK done \in 0 .. 3 : Reconciles(done) /\ (done # 3 => recovery' = TRUE)
    BY <1>12 DEF Reconcile
  <2>3. CASE done = 3
    <3>1. transcript' = intent.messages /\ intent' = None
      BY <2>1, <2>2, <2>3, ReconcilesIntent DEF Reconciles, Ready
    <3> QED BY <2>1, <3>1, ShowsLetGo, NoneIsNotReady DEF Effective
  <2>4. CASE done # 3
    <3>1. intent' = intent /\ recovery'
      BY <2>1, <2>2, <2>4, ReconcilesIntent
    <3> QED BY <2>1, <3>1, ShowsLetGo, NoneIsNotReady DEF Effective
  <2> QED BY <2>3, <2>4
<1> QED BY <1>1, <1>2, <1>4, <1>5, <1>6, <1>7, <1>8, <1>9, <1>10, <1>11, <1>12, <1>14

LEMMA AtomicSettle ==
  ASSUME Placed, Gated, Follows, Learns,
         \/ FollowBranch \/ RetryRecovery \/ RetryHalf \/ RetryFails \/ Start \/ RefusedStart
  PROVE  [Atomic!Next]_(Atomic!vars)
<1> USE DEF Leading, Decided
<1>0. Stages /\ None.id = 0 /\ intent \in Intent \cup {None}
  BY DEF Placed, Types, None
\* Carrying an intent out leaves what the next start resumes.
<1>1. ASSUME intent # None, NEW done \in 0 .. 3, Reconciles(done)
      PROVE  Effective' = Effective
  <2>1. CASE Ready /\ done = 3
    <3>1. transcript' = intent.messages /\ intent' = None
      BY <1>1, <2>1, ReconcilesIntent DEF Reconciles, Ready
    <3> QED BY <2>1, <3>1, NoneIsNotReady DEF Effective
  <2>2. CASE Ready /\ done # 3
    BY <1>1, <2>2, ReconcilesIntent, NoneIsNotReady DEF Effective
  <2>3. CASE ~Ready
    BY <1>1, <2>3, ReconcilesIntent, NoneIsNotReady DEF Effective
  <2> QED BY <2>1, <2>2, <2>3
<1>2. ASSUME recovery, SettlesDisk PROVE Effective' = Effective /\ ~Ready'
  <2>1. CASE diskDone
    BY <1>2, <2>1, NoneIsNotReady DEF SettlesDisk, Gated, Effective
  <2>2. CASE ~diskDone
    <3>1. intent # None /\ Reconciles(3)
      BY <1>0, <1>2, <2>2 DEF SettlesDisk
    <3>2. intent' = None
      BY <3>1, ReconcilesIntent
    <3> QED BY <1>1, <3>1, <3>2, NoneIsNotReady
  <2> QED BY <2>1, <2>2
<1>3. ASSUME NEW pending \in BOOLEAN, Loads(pending)
      PROVE  Effective' = Effective
  <2>1. CASE intent.id = 0
    BY <1>3, <2>1 DEF Loads, Effective, Ready
  <2>2. CASE intent.id # 0
    BY <1>0, <1>1, <1>3, <2>2 DEF Loads
  <2> QED BY <2>1, <2>2
<1>4. CASE FollowBranch
  <2>1. /\ phase = "branching" /\ UNCHANGED <<transcript, intent>>
        /\ recovery' = TRUE \/ recovery' = recovery
    BY <1>4 DEF FollowBranch, At
  <2>2. ~recovery' => ~Ready'
    BY <2>1, NoneIsNotReady DEF Gated
  <2> QED BY <2>1, <2>2, ShowsLetGo DEF Effective, Ready
<1>5. CASE RetryRecovery \/ RetryHalf
  BY <1>2, <1>5, ShowsLetGo DEF RetryRecovery, RetryHalf
<1>6. CASE RetryFails
  <2>1. intent # None /\ (\E done \in 0 .. 3 : Reconciles(done)) /\ recovery'
    BY <1>0, <1>6 DEF RetryFails, memory
  <2> QED BY <1>1, <2>1, ShowsLetGo
<1>7. CASE Start
  <2>1. PICK pending \in BOOLEAN : Loads(pending) /\ recovery' = ClosesGate(pending)
    BY <1>7 DEF Start
  <2>2. CASE pending
    <3>1. recovery'
      BY <2>1, <2>2 DEF ClosesGate
    <3> QED BY <1>3, <2>1, <3>1, ShowsLetGo
  <2>3. CASE ~pending
    <3>1. intent' = None
      BY <2>1, <2>3, LoadsIntent
    <3> QED BY <1>3, <2>1, <3>1, NoneIsNotReady, ShowsLetGo
  <2> QED BY <2>2, <2>3
<1>8. CASE RefusedStart
  <2>1. (\E pending \in BOOLEAN : Loads(pending)) /\ life' = "down"
    BY <1>8 DEF RefusedStart
  <2> QED BY <1>3, <2>1, ShowsLetGo
<1> QED BY <1>4, <1>5, <1>6, <1>7, <1>8

LEMMA FollowsInit == Init => Follows
<1> SUFFICES ASSUME Init PROVE Follows
  OBVIOUS
<1>1. Continues(context, transcript, known)
  BY EmptyHistory, ContinuesItself DEF Init
<1> QED BY <1>1 DEF Init, Follows, Halfway

LEMMA FollowsStep ==
  ASSUME Sound, Sound', Follows, [Next]_vars
  PROVE  Follows'
<1>1. CASE UNCHANGED vars
  BY <1>1 DEF vars, disk, memory, ghosts, Follows, Leading, Halfway, Decided, Seen
<1>2. CASE Next
  BY <1>2, FollowsTurns, FollowsSettle, FollowsRestore DEF Sound, Next, RestoreStep, Recovers, Starts
<1> QED BY <1>1, <1>2

LEMMA AtomicStep ==
  ASSUME Sound, Follows, [Next]_vars
  PROVE  [Atomic!Next]_(Atomic!vars)
<1>1. CASE UNCHANGED vars
  BY <1>1 DEF vars, disk, memory, ghosts, Atomic!vars, Effective, HeldBack, Decided, Ready
<1>2. CASE Next
  BY <1>2, AtomicTurns, AtomicRestore, AtomicSettle DEF Sound, Next, RestoreStep, Recovers, Starts
<1> QED BY <1>1, <1>2

LEMMA AtomicInit == Init => Atomic!Init
  BY DEF Init, Atomic!Init, Effective, HeldBack, Ready, None

\* Every turn, fork, restore, recovery, crash and start shows as one step of the history
\* the next start resumes: a cut to a prefix, turns never seen before, or both; and what
\* an undecided restore replaced is all that ever comes back.
THEOREM Refinement == Spec => ImplementsAtomicRewind
<1>1. Sound /\ Follows /\ [Next]_vars => Sound' /\ Follows'
  BY SoundStep, FollowsStep
<1>2. Sound /\ Follows /\ [Next]_vars => [Atomic!Next]_(Atomic!vars)
  BY AtomicStep
<1> QED BY <1>1, <1>2, SoundInit, FollowsInit, AtomicInit, PTL DEF Spec, ImplementsAtomicRewind, Atomic!Spec
-----------------------------------------------------------------------------
(***************************************************************************)
(* The replay of an event log, by induction over its length.               *)
(***************************************************************************)

Below == {p \in Nat \X Nat : p[1] < p[2]}

LEMMA BelowIsWellFounded == IsWellFoundedOn(Below, Nat)
<1>1. Below = OpToRel(<, Nat)
  BY DEF Below, OpToRel
<1> QED BY <1>1, NatLessThanWellFounded

LEMMA Least ==
  ASSUME NEW T \in SUBSET Nat, T # {}
  PROVE  \E x \in T : \A y \in T : x <= y
<1>1. PICK x \in T : \A y \in T : ~(<<y, x>> \in Below)
  BY BelowIsWellFounded, WFMin, Zenon
<1>2. ASSUME NEW y \in T PROVE x <= y
  <2>1. x \in Nat /\ y \in Nat
    OBVIOUS
  <2>2. y < x => <<y, x>> \in Below
    BY <2>1 DEF Below
  <2> QED BY <1>1, <2>1, <2>2
<1> QED BY <1>2

\* r holds the replays of the first events of es, up to the n-th.
Replays(r, es, n) ==
  r = [i \in 0 .. n |-> IF i = 0 THEN << >> ELSE Shows(r[i - 1], es[i])]

LEMMA ReplaysExist ==
  ASSUME NEW es, NEW n \in Nat
  PROVE  \E r : Replays(r, es, n)
<1> DEFINE T == {m \in Nat : ~ \E r : Replays(r, es, m)}
<1> SUFFICES ASSUME T # {} PROVE FALSE
  OBVIOUS
<1>1. PICK m \in T : \A y \in T : m <= y
  <2> HIDE DEF T
  <2>1. T \in SUBSET Nat
    BY DEF T
  <2> QED BY <2>1, Least
<1>2. m \in Nat /\ ~ \E r : Replays(r, es, m)
  OBVIOUS
<1>3. CASE m = 0
  <2>1. Replays([i \in 0 .. 0 |-> << >>], es, 0)
    BY DEF Replays
  <2> QED BY <1>2, <1>3, <2>1
<1>4. CASE m # 0
  <2>1. m - 1 \in Nat /\ ~(m <= m - 1)
    BY <1>2, <1>4
  <2>2. PICK r : Replays(r, es, m - 1)
    BY <1>1, <2>1
  <2> DEFINE q == [i \in 0 .. m |-> IF i = m THEN Shows(r[m - 1], es[m]) ELSE r[i]]
  <2>3. /\ DOMAIN r = 0 .. m - 1
        /\ \A i \in 0 .. m - 1 : r[i] = IF i = 0 THEN << >> ELSE Shows(r[i - 1], es[i])
    BY <2>1, <2>2 DEF Replays
  <2>4. ASSUME NEW i \in 0 .. m
        PROVE  q[i] = IF i = 0 THEN << >> ELSE Shows(q[i - 1], es[i])
    <3>1. CASE i = m
      <4>1. i # 0 /\ i - 1 \in 0 .. m /\ i - 1 # m
        BY <1>2, <1>4, <3>1
      <4>2. q[i - 1] = r[m - 1] /\ q[i] = Shows(r[m - 1], es[m])
        BY <3>1, <4>1
      <4> QED BY <3>1, <4>1, <4>2
    <3>2. CASE i = 0
      <4>1. q[i] = r[i]
        BY <1>2, <1>4, <3>2
      <4> QED BY <1>2, <1>4, <2>3, <3>2, <4>1
    <3>3. CASE i # m /\ i # 0
      <4>1. i \in 0 .. m - 1 /\ i - 1 \in 0 .. m /\ i - 1 # m
        BY <1>2, <3>3
      <4>2. q[i] = r[i] /\ q[i - 1] = r[i - 1]
        BY <3>3, <4>1
      <4> QED BY <2>3, <3>3, <4>1, <4>2
    <3> QED BY <3>1, <3>2, <3>3
  <2>5. q = [i \in 0 .. m |-> q[i]]
    OBVIOUS
  <2>6. [i \in 0 .. m |-> q[i]] = [i \in 0 .. m |-> IF i = 0 THEN << >> ELSE Shows(q[i - 1], es[i])]
    <3> HIDE DEF q
    <3> QED BY <2>4, Zenon
  <2>7. Replays(q, es, m)
    <3> HIDE DEF q
    <3> QED BY <2>5, <2>6, Zenon DEF Replays
  <2> QED BY <1>2, <2>7
<1> QED BY <1>3, <1>4

\* Two logs with the same beginning have the same replays of it.
LEMMA ReplaysAgree ==
  ASSUME NEW es, NEW fs, NEW n \in Nat, NEW m \in Nat, NEW r, NEW q,
         Replays(r, es, n), Replays(q, fs, m),
         NEW k \in Nat, k <= n, k <= m, \A i \in 1 .. k : es[i] = fs[i]
  PROVE  r[k] = q[k]
<1> DEFINE T == {j \in 0 .. k : r[j] # q[j]}
<1>1. /\ \A i \in 0 .. n : r[i] = IF i = 0 THEN << >> ELSE Shows(r[i - 1], es[i])
      /\ \A i \in 0 .. m : q[i] = IF i = 0 THEN << >> ELSE Shows(q[i - 1], fs[i])
  BY DEF Replays
<1>2. ASSUME T # {} PROVE FALSE
  <2>1. PICK j \in T : \A y \in T : j <= y
    <3>1. T \in SUBSET Nat
      OBVIOUS
    <3> HIDE DEF T
    <3> QED BY <1>2, <3>1, Least
  <2>2. j \in 0 .. k /\ r[j] # q[j] /\ j \in 0 .. n /\ j \in 0 .. m
    OBVIOUS
  <2>3. CASE j = 0
    BY <1>1, <2>2, <2>3
  <2>4. CASE j # 0
    <3>1. j - 1 \in 0 .. k /\ ~(j <= j - 1) /\ j \in 1 .. k
      BY <2>2, <2>4
    <3>2. r[j - 1] = q[j - 1]
      BY <2>1, <3>1
    <3>3. es[j] = fs[j]
      BY <3>1
    <3>4. r[j] = Shows(r[j - 1], es[j]) /\ q[j] = Shows(q[j - 1], fs[j])
      BY <1>1, <2>2, <2>4
    <3> QED BY <2>2, <3>2, <3>3, <3>4
  <2> QED BY <2>3, <2>4
<1> QED BY <1>2

LEMMA ReplayIs ==
  ASSUME NEW S, NEW es \in Seq(S)
  PROVE  \E r : Replays(r, es, Len(es)) /\ Replay(es) = r[Len(es)]
<1> DEFINE shown == CHOOSE r : r = [i \in 0 .. Len(es) |-> IF i = 0 THEN << >>
                                                          ELSE Shows(r[i - 1], es[i])]
<1>1. Replay(es) = shown[Len(es)]
  BY DEF Replay
<1>2. \E r : r = [i \in 0 .. Len(es) |-> IF i = 0 THEN << >> ELSE Shows(r[i - 1], es[i])]
  <2>1. Len(es) \in Nat
    OBVIOUS
  <2> QED BY <2>1, ReplaysExist DEF Replays
<1>3. shown = [i \in 0 .. Len(es) |-> IF i = 0 THEN << >> ELSE Shows(shown[i - 1], es[i])]
  BY <1>2, Zenon
<1> QED BY <1>1, <1>3, Zenon DEF Replays

\* What a client shows after one more event.
LEMMA ReplayStep ==
  /\ Replay(<< >>) = << >>
  /\ \A S : \A es \in Seq(S) : \A e \in S : Replay(Append(es, e)) = Shows(Replay(es), e)
<1>1. Replay(<< >>) = << >>
  <2>1. << >> \in Seq({}) /\ Len(<< >>) = 0
    OBVIOUS
  <2>2. PICK r : Replays(r, << >>, 0) /\ Replay(<< >>) = r[0]
    BY <2>1, ReplayIs
  <2> QED BY <2>2 DEF Replays
<1>2. ASSUME NEW S, NEW es \in Seq(S), NEW e \in S
      PROVE  Replay(Append(es, e)) = Shows(Replay(es), e)
  <2> DEFINE n == Len(es)
             fs == Append(es, e)
  <2>1. fs \in Seq(S) /\ Len(fs) = n + 1 /\ n \in Nat /\ fs[n + 1] = e
        /\ \A i \in 1 .. n : es[i] = fs[i]
    OBVIOUS
  <2>2. PICK r : Replays(r, es, n) /\ Replay(es) = r[n]
    BY ReplayIs
  <2>3. PICK q : Replays(q, fs, n + 1) /\ Replay(fs) = q[n + 1]
    <3> HIDE DEF fs
    <3> QED BY <2>1, ReplayIs
  <2> HIDE DEF fs, n
  <2>4. r[n] = q[n]
    <3>1. n + 1 \in Nat /\ n <= n /\ n <= n + 1
      BY <2>1
    <3> QED BY <2>1, <2>2, <2>3, <3>1, ReplaysAgree
  <2>5. q[n + 1] = Shows(q[n], fs[n + 1])
    <3>1. n + 1 \in 0 .. n + 1 /\ n + 1 # 0 /\ (n + 1) - 1 = n
      BY <2>1
    <3> QED BY <2>3, <3>1 DEF Replays
  <2> QED BY <2>1, <2>2, <2>3, <2>4, <2>5 DEF fs
<1> QED BY <1>1, <1>2

-----------------------------------------------------------------------------
(***************************************************************************)
(* What a client shows, next to the context and to a waiting intent.       *)
(***************************************************************************)

\* The intent fits the log: carried out, it makes the replay what it holds.
Coherent == intent.messages = IF Marked(intent.id) THEN Replay(events)
                                                   ELSE First(Replay(events), intent.kept)
Planned == ~Marked(intent.id) /\ Coherent

Alike ==
  /\ life = "up" /\ ~recovery
  /\ \/ phase \in {"idle", "opening", "answered", "staging", "applying", "unstaging", "branching"}
     \/ phase = "coding" /\ job.scope = "code"
     \/ phase = "committing" /\ job.scope = "conversation"

Agrees ==
  /\ Alike => Replay(events) = context
  /\ phase = "running" => Replay(events) = Append(context, used)
  /\ Halfway => Replay(events) = job.original
  /\ phase = "branching" /\ job.scope = "conversation" => Replay(events) = transcript
  /\ (recovery \/ life = "down") /\ ~Ready => Replay(events) = transcript
  /\ Ready => Coherent
  /\ Halfway \/ phase \in Armed => Planned

\* What lapsed stays so.
LEMMA LapsedStays ==
  ASSUME Placed, Next, lapsed
  PROVE  lapsed'
<1>0. lapsed = TRUE
  BY DEF Placed, Types
<1>1. CASE SubmitTurn \/ OpenTurn \/ Answer \/ SaveAfterTool \/ EndTurn \/ Crash
  BY <1>0, <1>1 DEF SubmitTurn, OpenTurn, Answer, SaveAfterTool, EndTurn, Crash, ghosts, Appends
<1>2. CASE \E t \in Ids : ForkAt(t)
  BY <1>0, <1>2 DEF ForkAt, Appends
<1>3. CASE \E t \in Ids, scope \in Scopes : BeginRestore(scope, t) \/ BeginFails(scope, t)
  BY <1>0, <1>3 DEF BeginRestore, BeginFails
<1>4. CASE CodeIncomplete \/ Arm
  BY <1>0, <1>4 DEF CodeIncomplete, Arm, RollsBack
<1>5. CASE Stage \/ Apply \/ RestoreCode \/ Commit \/ Reject \/ Unstage \/ Save
  BY <1>0, <1>5 DEF Stage, Apply, RestoreCode, Commit, Reject, Unstage, Save, ghosts
<1>6. CASE Reconcile \/ FollowBranch \/ RetryRecovery \/ RetryHalf \/ RetryFails \/ Start \/ RefusedStart
  BY <1>0, <1>6 DEF Reconcile, FollowBranch, RetryRecovery, RetryHalf, RetryFails, Start, RefusedStart, ghosts
<1> QED BY <1>1, <1>2, <1>3, <1>4, <1>5, <1>6 DEF Next, RestoreStep, Recovers, Starts

LEMMA IntentKept ==
  ASSUME UNCHANGED <<events, intent>>
  PROVE  (Coherent' <=> Coherent) /\ (Planned' <=> Planned) /\ (Ready' <=> Ready)
  BY DEF Coherent, Planned, Marked, Ready

LEMMA ReplayMore ==
  ASSUME Placed, NEW e \in Logged
  PROVE  Replay(Append(events, e)) = Shows(Replay(events), e)
<1>1. events \in Seq(Logged)
  BY DEF Placed, Types
<1> QED BY <1>1, ReplayStep

LEMMA ShowsEvents ==
  /\ \A t, ts : Shows(ts, Prompt(t)) = Append(ts, t)
  /\ \A n, k, ts : Shows(ts, Marker(n, k)) = First(ts, k)
  BY DEF Shows, Prompt, Marker

\* Carrying out an intent that fits makes the replay what it holds, and if it stops
\* half-way the intent still fits.
LEMMA ReconcilesCoherent ==
  ASSUME Placed, Ready, Coherent, NEW done \in 0 .. 3, Reconciles(done)
  PROVE  /\ done = 3 => transcript' = intent.messages /\ Replay(events') = intent.messages
                        /\ intent' = None
         /\ done # 3 => Coherent' /\ intent' = intent
<1>0. /\ intent \in Intent /\ intent # None /\ intent.ready /\ events \in Seq(Logged) /\ intent.id # 0
  BY DEF Placed, Types, Ready, Intent, None
<1> DEFINE m == Marker(intent.id, intent.kept)
<1>1. m \in Logged
  <2>1. intent.id \in 0 .. MaxRewinds /\ intent.kept \in 0 .. MaxTurns
    BY <1>0 DEF Intent
  <2> QED BY <2>1 DEF Logged
<1>2. /\ done = 3 => transcript' = intent.messages /\ intent' = None
      /\ done # 3 => intent' = intent
  BY <1>0, ReconcilesIntent DEF Reconciles
<1>3. CASE done >= 2 /\ ~Marked(intent.id)
  <2>1. events' = Append(events, m)
    BY <1>0, <1>3 DEF Reconciles, NeedsMarker
  <2>2. Replay(events') = First(Replay(events), intent.kept)
    BY <1>1, <2>1, ReplayMore, ShowsEvents
  <2>3. Replay(events') = intent.messages
    BY <1>3, <2>2 DEF Coherent
  <2>4. ASSUME done # 3 PROVE Marked(intent.id)'
    <3>1. intent' = intent
      BY <1>2, <2>4
    <3>2. Len(events) + 1 \in DOMAIN events' /\ events'[Len(events) + 1] = m
      BY <1>0, <1>1, <2>1
    <3>3. m.kind = "rewind" /\ m.id = intent.id
      BY DEF Marker
    <3> HIDE DEF m
    <3> QED BY <3>1, <3>2, <3>3 DEF Marked
  <2> QED BY <1>2, <2>3, <2>4 DEF Coherent
<1>4. CASE ~(done >= 2 /\ ~Marked(intent.id))
  <2>1. events' = events
    BY <1>0, <1>4 DEF Reconciles, NeedsMarker
  <2>2. done = 3 => Replay(events') = intent.messages
    BY <1>4, <2>1 DEF Coherent
  <2>3. done # 3 => Coherent'
    BY <1>2, <2>1 DEF Coherent, Marked
  <2> QED BY <1>2, <2>2, <2>3
<1> QED BY <1>3, <1>4

LEMMA AgreesTurns ==
  ASSUME Placed, Placed', Gated, Gated', Numbered, Follows, Agrees, ~lapsed, ~lapsed',
         \/ SubmitTurn \/ OpenTurn \/ Answer \/ SaveAfterTool \/ EndTurn
         \/ (\E t \in Ids : ForkAt(t)) \/ Crash
  PROVE  Agrees'
<1> USE DEF Agrees, Alike, Halfway, Armed, TurnPhases
<1>0. Stages
  BY DEF Placed
<1>1. CASE SubmitTurn
  <2>1. /\ phase = "idle" /\ phase' = "opening" /\ life = "up" /\ ~recovery
        /\ UNCHANGED <<events, context, life, recovery>>
    BY <1>1 DEF SubmitTurn, Idle, memory
  <2>2. (Ready' <=> Ready) /\ (Coherent' <=> Coherent)
    BY <1>1, IntentKept DEF SubmitTurn
  <2> QED BY <2>1, <2>2
<1>2. CASE OpenTurn
  <2>1. /\ phase = "opening" /\ phase' = "running" /\ life = "up" /\ UNCHANGED <<context, life, recovery, used>>
        /\ ~recovery
    BY <1>2 DEF OpenTurn, At, memory, Gated
  <2>2. events' = Append(events, Prompt(used)) /\ ~Ready /\ intent' = intent
    BY <1>2 DEF OpenTurn, Appends
  <2>3. used \in Ids
    BY <2>1 DEF Placed, Types, Hists, Ids
  <2>4. Prompt(used) \in Logged
    BY <2>3 DEF Logged
  <2>5. Replay(events') = Append(context, used)
    BY <2>1, <2>2, <2>4, ReplayMore, ShowsEvents
  <2> QED BY <2>1, <2>2, <2>5, NoneIsNotReady
<1>3. CASE Answer
  <2>1. /\ phase = "running" /\ phase' = "answered" /\ life = "up" /\ UNCHANGED <<events, life, recovery>>
        /\ context' = Append(context, used) /\ ~recovery
    BY <1>3 DEF Answer, At, disk, Gated
  <2>2. (Ready' <=> Ready) /\ (Coherent' <=> Coherent)
    BY <1>3, IntentKept DEF Answer, disk
  <2> QED BY <2>1, <2>2
<1>4. CASE SaveAfterTool \/ EndTurn
  <2>1. /\ phase = "answered" /\ phase' \in {"answered", "idle"} /\ life = "up" /\ ~recovery
        /\ UNCHANGED <<events, life, recovery, context>>
    BY <1>4 DEF SaveAfterTool, EndTurn, At, Gated
  <2>2. (Ready' <=> Ready) /\ (Coherent' <=> Coherent)
    BY <1>4, IntentKept DEF SaveAfterTool, EndTurn
  <2> QED BY <2>1, <2>2
<1>5. ASSUME NEW t \in Ids, ForkAt(t) PROVE Agrees'
  <2>1. /\ phase = "idle" /\ phase' = "idle" /\ life = "up" /\ life' = "up" /\ ~recovery /\ ~recovery'
        /\ events' = Append(events, Marker(0, Len(ledger'))) /\ ledger = context
        /\ context' = Append(Before(context, t), t) /\ ledger' = Append(Before(ledger, t), t)
        /\ t \in Range(context) /\ ~Ready /\ intent' = intent
    BY <1>5 DEF ForkAt, Idle, Appends, Stale
  <2>2. context \in Histories(Seen)
    BY DEF Placed, Hists
  <2>3. context' \in Beginnings(context) /\ ledger' = context'
    BY <2>1, <2>2, ForkIsHistory
  <2>4. PICK k \in 0 .. Len(context) : context' = SubSeq(context, 1, k)
    BY <2>3 DEF Beginnings
  <2>5. context \in Seq(Ids)
    BY <2>2 DEF Histories
  <2>6. Len(ledger') = k /\ k <= Len(context) /\ k \in Nat
    BY <2>3, <2>4, <2>5
  <2>7. First(context, Len(ledger')) = context'
    BY <2>4, <2>6 DEF First
  <2>8. Marker(0, Len(ledger')) \in Logged
    <3>1. ledger' \in Histories(Closed')
      BY DEF Placed, Hists
    <3>2. Len(ledger') \in 0 .. MaxTurns
      BY <3>1, HistoryIsShort
    <3>3. \A n \in 0 .. MaxTurns : Marker(0, n) \in Logged
      BY RewindAssumption DEF Logged
    <3> QED BY <3>2, <3>3
  <2>9. Replay(events') = context'
    BY <2>1, <2>7, <2>8, ReplayMore, ShowsEvents
  <2> QED BY <2>1, <2>9, NoneIsNotReady
<1>6. CASE Crash
  <2>1. /\ life' = "down" /\ phase' = "idle" /\ job' = None /\ ~recovery'
        /\ UNCHANGED <<events, intent, transcript>> /\ life = "up"
    BY <1>6 DEF Crash, Leaves
  <2>2. (Ready' <=> Ready) /\ (Coherent' <=> Coherent)
    BY <2>1, IntentKept
  <2>3. ASSUME ~Ready PROVE Replay(events) = transcript
    <3>1. phase # "running" /\ transcript = IF Halfway THEN job.original ELSE context
      BY <1>6, <2>3 DEF Crash, Unsaved
    <3>2. CASE Halfway
      BY <3>1, <3>2
    <3>3. CASE recovery
      BY <2>3, <3>3
    <3>4. CASE ~Halfway /\ ~recovery
      <4>1. phase \notin Armed
        <5>1. phase \in Armed => intent # None /\ intent.ready
          BY <1>0 DEF Stages
        <5>2. intent # None => intent.id # 0
          BY DEF Placed, Types, Intent
        <5> QED BY <2>3, <5>1, <5>2 DEF Ready
      <4>2. phase \in {"idle", "opening", "answered", "unstaging", "branching", "coding"}
        BY <3>1, <3>4, <4>1 DEF Placed, Types, Phases
      <4>3. phase = "coding" => job.scope = "code"
        BY <1>0, <3>4 DEF Stages
      <4> QED BY <2>1, <3>1, <3>4, <4>2, <4>3
    <3> QED BY <3>2, <3>3, <3>4
  <2> QED BY <2>1, <2>2, <2>3
<1> QED BY <1>1, <1>2, <1>3, <1>4, <1>5, <1>6

LEMMA AgreesSettle ==
  ASSUME Placed, Placed', Gated, Gated', Numbered, Follows, Agrees, ~lapsed, ~lapsed',
         \/ Reconcile \/ FollowBranch \/ RetryRecovery \/ RetryHalf \/ RetryFails
         \/ Start \/ RefusedStart
  PROVE  Agrees'
<1> USE DEF Agrees, Alike, Halfway, Armed, TurnPhases
<1>0. Stages /\ Types
  BY DEF Placed
<1>1. CASE Reconcile
  <2>1. /\ phase = "reconciling" /\ life = "up" /\ life' = "up" /\ UNCHANGED context
        /\ Ready /\ Coherent /\ context = intent.messages
    BY <1>0, <1>1 DEF Reconcile, At, Stages, Ready, Types, Intent, Planned, Follows, None
  <2>2. PICK done \in 0 .. 3 : /\ Reconciles(done)
          /\ IF done = 3
             THEN recovery' = FALSE /\ diskDone' = FALSE /\ phase' = "branching" /\ UNCHANGED job
             ELSE /\ recovery' = TRUE /\ diskDone' = FALSE
                  /\ IF job.scope = "both" THEN phase' = "branching" /\ UNCHANGED job ELSE Leaves
    BY <1>1 DEF Reconcile
  <2>3. CASE done = 3
    <3>1. transcript' = intent.messages /\ Replay(events') = intent.messages /\ intent' = None
      BY <2>1, <2>2, <2>3, ReconcilesCoherent
    <3> QED BY <2>1, <2>2, <2>3, <3>1, NoneIsNotReady
  <2>4. CASE done # 3
    <3>1. Coherent' /\ Ready'
      BY <2>1, <2>2, <2>4, ReconcilesCoherent, NoneIsNotReady
    <3>2. recovery' /\ ~diskDone'
      BY <2>2, <2>4
    <3>3. phase' = "idle" \/ (phase' = "branching" /\ job'.scope = "both")
      BY <2>2, <2>4 DEF Leaves
    <3> QED BY <3>1, <3>2, <3>3
  <2> QED BY <2>3, <2>4
<1>2. CASE FollowBranch
  <2>1. /\ phase = "branching" /\ life = "up" /\ phase' = "idle" /\ life' = "up"
        /\ UNCHANGED <<events, intent, context, transcript>>
        /\ \/ UNCHANGED <<recovery, diskDone>>
           \/ job.scope = "conversation" /\ recovery' = TRUE /\ diskDone' = TRUE
    BY <1>2 DEF FollowBranch, At, Leaves
  <2>2. CASE UNCHANGED <<recovery, diskDone>>
    <3>1. ~recovery => Replay(events') = context'
      BY <2>1
    <3>2. (Ready' <=> Ready) /\ (Coherent' <=> Coherent)
      BY <2>1, IntentKept
    <3> QED BY <2>1, <2>2, <3>1, <3>2
  <2>3. CASE job.scope = "conversation" /\ recovery' = TRUE /\ diskDone' = TRUE
    <3>1. Replay(events') = transcript' /\ intent' = None
      BY <2>1, <2>3 DEF Gated
    <3> QED BY <2>1, <2>3, <3>1, NoneIsNotReady
  <2> QED BY <2>1, <2>2, <2>3
\* A pending recovery settles what the replay shows already, or what its intent holds.
<1>3. ASSUME recovery, life = "up", SettlesDisk
      PROVE  Replay(events') = transcript' /\ intent' = None
  <2>1. CASE diskDone
    BY <1>3, <2>1, NoneIsNotReady DEF SettlesDisk, Gated
  <2>2. CASE ~diskDone
    <3>1. Reconciles(3) /\ 3 \in 0 .. 3 /\ intent # None
      BY <2>2, <1>3 DEF SettlesDisk, Gated
    <3>2. CASE Ready
      BY <3>1, <3>2, ReconcilesCoherent
    <3>3. CASE ~Ready
      BY <1>3, <3>1, <3>3, ReconcilesIntent
    <3> QED BY <3>2, <3>3
  <2> QED BY <2>1, <2>2
<1>4. CASE RetryRecovery
  <2>1. /\ phase' = "idle" /\ context' = transcript' /\ ~diskDone'
        /\ Replay(events') = transcript' /\ intent' = None
    BY <1>3, <1>4 DEF RetryRecovery, Idle, Reloaded
  <2> QED BY <2>1, NoneIsNotReady
<1>5. CASE RetryHalf
  <2>1. /\ phase' = "idle" /\ recovery'
        /\ Replay(events') = transcript' /\ intent' = None
    BY <1>3, <1>5 DEF RetryHalf, Idle
  <2> QED BY <2>1, NoneIsNotReady
<1>6. CASE RetryFails
  <2>1. /\ phase' = "idle" /\ life = "up" /\ recovery /\ recovery' /\ ~diskDone /\ ~diskDone'
        /\ \E done \in 0 .. 3 : done # 3 /\ Reconciles(done)
    BY <1>6 DEF RetryFails, Idle, memory
  <2>2. intent # None
    BY <2>1 DEF Gated
  <2>3. CASE Ready
    <3>1. Coherent' /\ Ready'
      BY <2>1, <2>3, ReconcilesCoherent, NoneIsNotReady
    <3> QED BY <2>1, <3>1
  <2>4. CASE ~Ready
    <3>1. UNCHANGED <<intent, events, transcript>>
      BY <2>1, <2>2, <2>4, ReconcilesIntent
    <3> QED BY <2>1, <2>4, <3>1, NoneIsNotReady
  <2> QED BY <2>3, <2>4
\* What a load leaves pending still fits, and what it leaves settled shows.
<1>7. ASSUME life = "down", NEW pending \in BOOLEAN, Loads(pending)
      PROVE  /\ Ready' => pending /\ Coherent'
             /\ ~Ready' => Replay(events') = transcript'
  <2>1. CASE intent.id = 0
    <3>1. UNCHANGED <<transcript, events, intent>> /\ ~Ready
      BY <1>7, <2>1 DEF Loads, Ready
    <3> QED BY <1>7, <3>1, NoneIsNotReady
  <2>2. CASE intent.id # 0
    <3>1. PICK done \in 0 .. 3 : Reconciles(done) /\ pending = (done < 3)
      BY <1>7, <2>2 DEF Loads
    <3>2. intent # None
      BY <2>2 DEF None
    <3>3. CASE Ready
      <4>1. CASE done = 3
        BY <3>1, <3>3, <4>1, ReconcilesCoherent, NoneIsNotReady
      <4>2. CASE done # 3
        <5>1. Coherent' /\ Ready'
          BY <3>1, <3>3, <4>2, ReconcilesCoherent, NoneIsNotReady
        <5>2. done < 3
          BY <4>2
        <5> QED BY <3>1, <5>1, <5>2, Zenon
      <4> QED BY <4>1, <4>2
    <3>4. CASE ~Ready
      <4>1. UNCHANGED <<transcript, events>> /\ intent' \in {intent, None}
        BY <3>1, <3>2, <3>4, ReconcilesIntent
      <4> QED BY <1>7, <3>4, <4>1, NoneIsNotReady
    <3> QED BY <3>3, <3>4
  <2> QED BY <2>1, <2>2
<1>8. CASE Start
  <2>1. PICK pending \in BOOLEAN : Loads(pending) /\ life = "down" /\ recovery' = ClosesGate(pending)
    BY <1>8 DEF Start
  <2>2. phase' = "idle" /\ context' = transcript' /\ life' = "up"
    BY <1>0, <1>8 DEF Start, Stages
  <2>3. /\ Ready' => pending /\ Coherent'
        /\ ~Ready' => Replay(events') = transcript'
    BY <1>7, <2>1
  <2>4. pending => recovery'
    BY <2>1 DEF ClosesGate
  <2> QED BY <2>2, <2>3, <2>4
<1>9. CASE RefusedStart
  <2>1. PICK pending \in BOOLEAN : Loads(pending) /\ life = "down"
    BY <1>9 DEF RefusedStart
  <2>2. phase' = "idle" /\ life' = "down"
    BY <1>0, <1>9 DEF RefusedStart, Stages
  <2>3. /\ Ready' => Coherent'
        /\ ~Ready' => Replay(events') = transcript'
    BY <1>7, <2>1
  <2> QED BY <2>2, <2>3
<1> QED BY <1>1, <1>2, <1>4, <1>5, <1>6, <1>8, <1>9

LEMMA AgreesRestore ==
  ASSUME Placed, Placed', Gated, Gated', Numbered, Follows, Agrees, ~lapsed, ~lapsed',
         \/ (\E t \in Ids, scope \in Scopes : BeginRestore(scope, t) \/ BeginFails(scope, t))
         \/ Stage \/ Apply
         \/ RestoreCode \/ CodeIncomplete \/ Arm \/ Commit \/ Reject \/ Unstage \/ Save
  PROVE  Agrees'
<1> USE DEF Agrees, Alike, Halfway, Armed, TurnPhases
<1>0. Stages /\ Types
  BY DEF Placed
\* The intent of a restore fits the log, whether or not its write raised.
<1>12. ASSUME NEW scope, NEW t, Writes(marks + 1, scope, t), Idle, ~recovery, ~Stale,
              UNCHANGED <<events, context>>
       PROVE  Planned' /\ Replay(events) = context
  <2>1. /\ intent'.id = marks + 1 /\ intent'.messages = Before(context, t)
        /\ intent'.kept = Len(Before(context, t)) /\ Replay(events) = context
    BY <1>12 DEF Writes, Stale, Idle
  <2>2. ~Marked(intent.id)'
    <3>1. \A i \in DOMAIN events : events[i].id <= marks
      BY DEF Numbered, Markers
    <3>2. \A i \in DOMAIN events : events[i].id # marks + 1
      BY <1>0, <3>1 DEF Types
    <3> QED BY <1>12, <2>1, <3>2 DEF Marked
  <2>3. context \in Histories(Seen)
    BY DEF Placed, Hists
  <2>4. PICK k \in 0 .. Len(context) : Before(context, t) = SubSeq(context, 1, k)
    BY <2>3, BeforeIsPrefix DEF Beginnings
  <2>5. First(context, Len(Before(context, t))) = Before(context, t)
    <3>1. context \in Seq(Ids)
      BY <2>3 DEF Histories
    <3>2. Len(Before(context, t)) = k /\ k <= Len(context)
      BY <2>4, <3>1
    <3> QED BY <2>4, <3>2 DEF First
  <2> QED BY <1>12, <2>1, <2>2, <2>5 DEF Planned, Coherent
<1>1. ASSUME NEW t \in Ids, NEW scope \in Scopes, BeginRestore(scope, t) PROVE Agrees'
  <2>1. /\ Idle /\ phase = "idle" /\ life = "up" /\ life' = "up" /\ ~recovery /\ ~recovery'
        /\ UNCHANGED <<events, context>> /\ job'.original = context /\ job'.scope = scope
        /\ Replay(events) = context
    BY <1>1 DEF BeginRestore, CanRestore, Idle, memory
  <2>2. ASSUME scope # "code" PROVE Planned'
    <3>1. Writes(marks + 1, scope, t) /\ ~Stale
      BY <1>1, <2>2 DEF BeginRestore
    <3> QED BY <1>12, <2>1, <3>1
  <2>3. CASE scope = "conversation"
    <3>1. phase' = "staging"
      BY <1>1, <2>3 DEF BeginRestore
    <3> QED BY <2>1, <2>2, <2>3, <3>1 DEF Planned
  <2>4. CASE scope = "both"
    <3>1. phase' = "applying"
      BY <1>1, <2>4 DEF BeginRestore
    <3> QED BY <2>1, <2>2, <2>4, <3>1 DEF Planned
  <2>5. CASE scope = "code"
    <3>1. phase' = "coding" /\ intent' = intent
      BY <1>1, <2>5 DEF BeginRestore
    <3>2. (Ready' <=> Ready) /\ (Coherent' <=> Coherent)
      BY <2>1, <3>1, IntentKept
    <3> QED BY <2>1, <2>5, <3>1, <3>2
  <2> QED BY <2>3, <2>4, <2>5 DEF Scopes
\* A restore that ends leaves the session as a turn finds it.
<1>2. ASSUME phase' = "idle", life' = "up", ~recovery', UNCHANGED events,
             Replay(events) = context', Ready' => Coherent'
      PROVE  Agrees'
  BY <1>2
<1>13. ASSUME NEW t \in Ids, NEW scope \in Scopes, BeginFails(scope, t) PROVE Agrees'
  <2>1. /\ Idle /\ ~recovery /\ ~recovery' /\ ~Stale /\ phase' = "idle" /\ life' = "up"
        /\ UNCHANGED <<events, context>> /\ Writes(marks + 1, scope, t)
    BY <1>13 DEF BeginFails, CanRestore, Idle, memory
  <2>2. Planned' /\ Replay(events) = context
    BY <1>12, <2>1
  <2> QED BY <1>2, <2>1, <2>2 DEF Planned
\* What is withdrawn does not have to fit; what is left does.
<1>14. ASSUME UNCHANGED events, intent' \in {intent, None}
       PROVE  Ready' => Coherent'
  <2>1. CASE intent' = intent
    BY <1>14, <2>1, IntentKept
  <2>2. CASE intent' = None
    BY <2>2, NoneIsNotReady
  <2> QED BY <1>14, <2>1, <2>2
<1>3. CASE Stage
  <2>1. /\ phase = "staging" /\ life = "up" /\ life' = "up" /\ ~recovery /\ ~recovery'
        /\ UNCHANGED <<events, context>> /\ Replay(events) = context /\ job.scope = "conversation"
    BY <1>0, <1>3 DEF Stage, At, Gated, Stages
  <2>2. CASE phase' = "committing" /\ UNCHANGED <<intent, job>>
    BY <2>1, <2>2, IntentKept DEF Planned
  <2>3. CASE Leaves /\ intent' \in {intent, None}
    BY <1>2, <1>14, <2>1, <2>3 DEF Leaves
  <2> QED BY <1>3, <2>2, <2>3 DEF Stage, Cancels
<1>4. CASE Apply
  <2>1. /\ phase = "applying" /\ life = "up" /\ life' = "up" /\ ~recovery /\ ~recovery'
        /\ UNCHANGED events /\ Replay(events) = context /\ job.scope = "both" /\ ~Ready
        /\ context = job.original
    BY <1>0, <1>4 DEF Apply, At, Gated, Stages, Ready, Follows
  <2>2. CASE phase' = "coding" /\ UNCHANGED <<intent, job>>
    BY <2>1, <2>2, IntentKept
  <2>3. CASE Leaves /\ UNCHANGED context /\ intent' \in {intent, None}
    BY <1>2, <1>14, <2>1, <2>3 DEF Leaves
  <2> QED BY <1>4, <2>2, <2>3 DEF Apply, Cancels
<1>5. CASE RestoreCode
  <2>1. /\ phase = "coding" /\ life = "up" /\ life' = "up" /\ ~recovery /\ ~recovery'
        /\ UNCHANGED <<events, intent, context>>
    BY <1>5 DEF RestoreCode, At, Gated, memory
  <2>2. CASE job.scope = "both"
    <3>1. phase' = "arming" /\ job' = job
      BY <1>5, <2>2 DEF RestoreCode
    <3> QED BY <1>0, <2>1, <2>2, <3>1, IntentKept DEF Stages, Ready
  <2>3. CASE job.scope # "both"
    <3>1. phase' = "idle" /\ job.scope = "code"
      BY <1>0, <1>5, <2>1, <2>3 DEF RestoreCode, Leaves, Stages
    <3> QED BY <1>2, <1>14, <2>1, <3>1
  <2> QED BY <2>2, <2>3
<1>6. CASE CodeIncomplete
  <2>1. /\ phase = "coding" /\ life = "up" /\ life' = "up" /\ ~recovery /\ ~recovery'
        /\ UNCHANGED events
    BY <1>6 DEF CodeIncomplete, At, Gated
  <2>2. phase' = "idle" /\ Replay(events) = context' /\ intent' \in {intent, None}
    <3>1. CASE job.scope = "both"
      BY <1>6, <2>1, <3>1 DEF CodeIncomplete, RollsBack, Cancels, Leaves
    <3>2. CASE job.scope # "both"
      <4>1. job.scope = "code" /\ phase' = "idle" /\ UNCHANGED <<context, intent>>
        BY <1>0, <1>6, <2>1, <3>2 DEF CodeIncomplete, Leaves, Stages
      <4> QED BY <2>1, <4>1
    <3> QED BY <3>1, <3>2
  <2> QED BY <1>2, <1>14, <2>1, <2>2
<1>7. CASE Arm
  <2>1. /\ phase = "arming" /\ life = "up" /\ life' = "up" /\ ~recovery /\ ~recovery'
        /\ UNCHANGED events /\ Replay(events) = job.original /\ job.scope = "both"
        /\ intent \in Intent /\ Planned
    BY <1>0, <1>7 DEF Arm, At, Gated, Stages, Types
  <2>2. CASE intent' = [intent EXCEPT !.ready = TRUE] /\ phase' = "committing" /\ UNCHANGED <<job, context>>
    <3>1. intent'.id = intent.id /\ intent'.messages = intent.messages /\ intent'.kept = intent.kept
      BY <2>1, <2>2 DEF Intent
    <3>2. Planned'
      BY <2>1, <3>1 DEF Planned, Coherent, Marked
    <3> QED BY <2>1, <2>2, <3>2 DEF Planned
  <2> DEFINE armed == [intent EXCEPT !.ready = TRUE]
  <2>3. ASSUME NEW i \in {intent, armed}, RollsBack(1, i) PROVE Agrees'
    <3>1. phase' = "idle" /\ context' = job.original /\ intent' \in {intent, armed, None}
      BY <2>3 DEF RollsBack, Cancels, Leaves
    <3>2. CASE intent' = armed
      <4>1. intent'.id = intent.id /\ intent'.messages = intent.messages /\ intent'.kept = intent.kept
        BY <2>1, <3>2 DEF Intent
      <4>2. Coherent'
        BY <2>1, <4>1 DEF Planned, Coherent, Marked
      <4> QED BY <1>2, <2>1, <3>1, <4>2
    <3>3. CASE intent' \in {intent, None}
      BY <1>2, <1>14, <2>1, <3>1, <3>3
    <3> QED BY <3>1, <3>2, <3>3
  <2> QED BY <1>7, <2>2, <2>3 DEF Arm
<1>8. CASE Commit
  <2>1. /\ phase = "committing" /\ life = "up" /\ life' = "up" /\ phase' = "saving" /\ ~recovery'
        /\ UNCHANGED <<events, intent>>
    BY <1>8 DEF Commit, At, Gated, disk
  <2> QED BY <2>1, IntentKept DEF Planned
<1>9. CASE Reject
  <2>1. /\ phase = "committing" /\ life = "up" /\ life' = "up" /\ ~recovery /\ ~recovery'
        /\ UNCHANGED <<events, context>> /\ Replay(events) = context /\ job.scope = "conversation"
    BY <1>9 DEF Reject, At, Gated, memory
  <2>2. CASE intent' = None /\ phase' = "unstaging"
    BY <2>1, <2>2, NoneIsNotReady
  <2>3. CASE Leaves /\ intent' \in {intent, None}
    BY <1>2, <1>14, <2>1, <2>3 DEF Leaves
  <2> QED BY <1>9, <2>2, <2>3 DEF Reject
<1>10. CASE Unstage
  <2>1. /\ phase = "unstaging" /\ phase' = "idle" /\ life = "up" /\ life' = "up" /\ ~recovery /\ ~recovery'
        /\ UNCHANGED <<events, context, intent>> /\ Replay(events) = context
    BY <1>10 DEF Unstage, At, Gated, Leaves
  <2> QED BY <1>2, <1>14, <2>1
<1>11. CASE Save
  <2>1. /\ phase = "saving" /\ life = "up" /\ life' = "up" /\ phase' = "reconciling" /\ ~recovery'
        /\ UNCHANGED <<events, intent>>
    BY <1>11 DEF Save, At, Gated
  <2> QED BY <2>1, IntentKept DEF Planned
<1> QED BY <1>1, <1>3, <1>4, <1>5, <1>6, <1>7, <1>8, <1>9, <1>10, <1>11, <1>13

LEMMA AgreesInit == Init => Agrees
<1> SUFFICES ASSUME Init PROVE Agrees
  OBVIOUS
<1>1. Replay(events) = << >>
  BY ReplayStep DEF Init
<1> QED BY <1>1 DEF Init, Agrees, Alike, Halfway, Armed, Ready, None

LEMMA AgreesNext ==
  ASSUME Sound, Sound', Follows, ~lapsed => Agrees, [Next]_vars
  PROVE  (~lapsed => Agrees)'
<1>1. CASE UNCHANGED vars
  <2>1. /\ UNCHANGED <<events, intent, transcript, context, job, phase, life, recovery, used, lapsed>>
    BY <1>1 DEF vars, disk, memory, ghosts
  <2>2. (Coherent' <=> Coherent) /\ (Planned' <=> Planned) /\ (Ready' <=> Ready)
    BY <2>1, IntentKept
  <2> QED BY <2>1, <2>2 DEF Agrees, Alike, Halfway
<1>2. CASE Next
  <2>1. SUFFICES ASSUME ~lapsed' PROVE Agrees'
    OBVIOUS
  <2>2. ~lapsed
    BY <1>2, <2>1, LapsedStays DEF Sound
  <2> QED BY <1>2, <2>1, <2>2, AgreesTurns, AgreesRestore, AgreesSettle
          DEF Sound, Next, RestoreStep, Recovers, Starts
<1> QED BY <1>1, <1>2

\* However many turns, forks, restores, failing writes and crashes there were: a client that
\* replays the event log of a settled session shows the turns its context holds, until an
\* event was lost, the process died before a turn or fork was saved, a turn or fork began
\* over a ready intent, a recovery undid a fork, the ledger told of other turns than the
\* context when it was used, or a rollback was refused.
THEOREM ReplayStays == Spec => []ReplayShowsContext
<1>1. (~lapsed => Agrees) => ReplayShowsContext
  BY DEF Agrees, Alike, ReplayShowsContext, Idle
<1>2. Init => Sound /\ Follows /\ (~lapsed => Agrees)
  BY SoundInit, FollowsInit, AgreesInit
<1>3. Sound /\ Follows /\ (~lapsed => Agrees) /\ [Next]_vars => (Sound /\ Follows /\ (~lapsed => Agrees))'
  BY SoundStep, FollowsStep, AgreesNext
<1> QED BY <1>1, <1>2, <1>3, PTL DEF Spec
===============================================================================
