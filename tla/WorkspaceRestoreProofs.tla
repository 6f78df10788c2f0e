----------------------- MODULE WorkspaceRestoreProofs -----------------------
(***************************************************************************)
(* Proofs about WorkspaceRestore, for any number of files, calls, turns,   *)
(* restores, faults, edits by hand and crashes: what a person left in a    *)
(* file that no record ends in is never overwritten but by a race the code *)
(* cannot see, and no turn begins over a restore that changed files and    *)
(* was neither completed nor reported.                                     *)
(*                                                                         *)
(* The first rests on Unseen and Tracked: a restore compares the file with *)
(* the end of its chain, which is the end of a record, and no step puts    *)
(* what a person left at the end of one unnoticed.  The second rests on    *)
(* Logged and HalfHeld: a half-done target has a journal that matters and  *)
(* is still to be looked at, or the gate names it.                         *)
(***************************************************************************)
EXTENDS WorkspaceRestore, SequenceTheorems, FiniteSetTheorems, WellFoundedInduction, TLAPS

-----------------------------------------------------------------------------
(***************************************************************************)
(* What a flattened sequence holds, by induction over its length.          *)
(***************************************************************************)

Below == {p \in Nat \X Nat : p[1] < p[2]}

LEMMA BelowIsWellFounded == IsWellFoundedOn(Below, Nat)
<1>1. Below = OpToRel(<, Nat)
  BY DEF Below, OpToRel
<1> QED BY <1>1, NatLessThanWellFounded

LEMMA Least ==
  ASSUME NEW T \in SUBSET Nat, T # {}
  PROVE  \E x \in T : \A y \in T : x <= y
<1>1. PICK x \in T : \A y \in T : ~(<<y, x>> \in Below)
  BY BelowIsWellFounded, WFMin, Zenon
<1>2. ASSUME NEW y \in T PROVE x <= y
  <2>1. x \in Nat /\ y \in Nat
    OBVIOUS
  <2>2. y < x => <<y, x>> \in Below
    BY <2>1 DEF Below
  <2> QED BY <1>1, <2>1, <2>2
<1> QED BY <1>2

\* r holds the flattenings of the first members of ss, up to the n-th.
Flattens(r, ss, n) == r = [i \in 1 .. n |-> IF i = 1 THEN ss[i] ELSE r[i - 1] \o ss[i]]

LEMMA FlattensExist ==
  ASSUME NEW ss, NEW n \in Nat
  PROVE  \E r : Flattens(r, ss, n)
<1> DEFINE T == {m \in Nat : ~ \E r : Flattens(r, ss, m)}
<1> SUFFICES ASSUME T # {} PROVE FALSE
  OBVIOUS
<1>1. PICK m \in T : \A y \in T : m <= y
  <2> HIDE DEF T
  <2>1. T \in SUBSET Nat
    BY DEF T
  <2> QED BY <2>1, Least
<1>2. m \in Nat /\ ~ \E r : Flattens(r, ss, m)
  OBVIOUS
<1>3. CASE m = 0
  <2> DEFINE q == [i \in 1 .. 0 |-> << >>]
  <2>1. q = [i \in 1 .. 0 |-> IF i = 1 THEN ss[i] ELSE q[i - 1] \o ss[i]]
    OBVIOUS
  <2>2. Flattens(q, ss, 0)
    <3> HIDE DEF q
    <3> QED BY <2>1, Zenon DEF Flattens
  <2> QED BY <1>2, <1>3, <2>2
<1>4. CASE m # 0
  <2>1. m - 1 \in Nat /\ ~(m <= m - 1)
    BY <1>2, <1>4
  <2>2. PICK r : Flattens(r, ss, m - 1)
    BY <1>1, <2>1
  <2> DEFINE top == IF m = 1 THEN ss[m] ELSE r[m - 1] \o ss[m]
             q == [i \in 1 .. m |-> IF i = m THEN top ELSE r[i]]
  <2>3. \A i \in 1 .. m - 1 : r[i] = IF i = 1 THEN ss[i] ELSE r[i - 1] \o ss[i]
    BY <2>1, <2>2 DEF Flattens
  <2>4. ASSUME NEW i \in 1 .. m
        PROVE  q[i] = IF i = 1 THEN ss[i] ELSE q[i - 1] \o ss[i]
    <3>1. CASE i = m /\ i = 1
      BY <3>1
    <3>2. CASE i = m /\ i # 1
      <4>1. i - 1 \in 1 .. m /\ i - 1 # m
        BY <1>2, <1>4, <3>2
      <4>2. q[i - 1] = r[i - 1] /\ q[i] = top
        BY <3>2, <4>1
      <4> QED BY <3>2, <4>2
    <3>3. CASE i # m /\ i = 1
      <4>1. i \in 1 .. m - 1 /\ q[i] = r[i]
        BY <1>2, <3>3
      <4> QED BY <2>3, <3>3, <4>1
    <3>4. CASE i # m /\ i # 1
      <4>1. i \in 1 .. m - 1 /\ i - 1 \in 1 .. m /\ i - 1 # m
        BY <1>2, <3>4
      <4>2. q[i] = r[i] /\ q[i - 1] = r[i - 1]
        BY <3>4, <4>1
      <4> QED BY <2>3, <3>4, <4>1, <4>2
    <3> QED BY <3>1, <3>2, <3>3, <3>4
  <2>5. q = [i \in 1 .. m |-> q[i]]
    OBVIOUS
  <2>6. [i \in 1 .. m |-> q[i]] = [i \in 1 .. m |-> IF i = 1 THEN ss[i] ELSE q[i - 1] \o ss[i]]
    <3> HIDE DEF q
    <3> QED BY <2>4, Zenon
  <2>7. Flattens(q, ss, m)
    <3> HIDE DEF q
    <3> QED BY <2>5, <2>6, Zenon DEF Flattens
  <2> QED BY <1>2, <2>7
<1> QED BY <1>3, <1>4

LEMMA Joined ==
  ASSUME NEW S, NEW s \in Seq(S), NEW t \in Seq(S)
  PROVE  s \o t \in Seq(S) /\ Range(s \o t) = Range(s) \cup Range(t)
<1>1. /\ s \o t \in Seq(S) /\ DOMAIN s = 1 .. Len(s) /\ DOMAIN t = 1 .. Len(t)
      /\ DOMAIN (s \o t) = 1 .. Len(s) + Len(t) /\ Len(s) \in Nat /\ Len(t) \in Nat
      /\ \A i \in 1 .. Len(s) + Len(t) :
           (s \o t)[i] = IF i <= Len(s) THEN s[i] ELSE t[i - Len(s)]
  OBVIOUS
<1>2. ASSUME NEW i \in 1 .. Len(s) + Len(t)
      PROVE  (s \o t)[i] \in Range(s) \cup Range(t)
  <2>1. CASE i <= Len(s)
    <3>1. i \in 1 .. Len(s) /\ (s \o t)[i] = s[i]
      BY <1>1, <2>1
    <3> QED BY <1>1, <3>1 DEF Range
  <2>2. CASE ~(i <= Len(s))
    <3>1. i - Len(s) \in 1 .. Len(t)
      BY <1>1, <2>2
    <3> QED BY <1>1, <2>2, <3>1 DEF Range
  <2> QED BY <2>1, <2>2
<1>3. ASSUME NEW i \in 1 .. Len(s) PROVE s[i] \in Range(s \o t)
  <2>1. i \in 1 .. Len(s) + Len(t) /\ (s \o t)[i] = s[i]
    BY <1>1
  <2> QED BY <1>1, <2>1 DEF Range
<1>4. ASSUME NEW i \in 1 .. Len(t) PROVE t[i] \in Range(s \o t)
  <2>1. i + Len(s) \in 1 .. Len(s) + Len(t) /\ ~(i + Len(s) <= Len(s)) /\ (i + Len(s)) - Len(s) = i
    BY <1>1
  <2>2. (s \o t)[i + Len(s)] = t[i]
    BY <1>1, <2>1
  <2> QED BY <1>1, <2>1, <2>2 DEF Range
<1> QED BY <1>1, <1>2, <1>3, <1>4 DEF Range

\* The members of the first k.
Members(ss, k) == UNION {Range(ss[i]) : i \in 1 .. k}

LEMMA FlattensHold ==
  ASSUME NEW S, NEW ss \in Seq(Seq(S)), NEW r, Flattens(r, ss, Len(ss)), NEW k \in 1 .. Len(ss)
  PROVE  r[k] \in Seq(S) /\ Range(r[k]) = Members(ss, k)
<1> DEFINE Good(j) == r[j] \in Seq(S) /\ Range(r[j]) = Members(ss, j)
           T == {j \in 1 .. Len(ss) : ~Good(j)}
<1>1. \A i \in 1 .. Len(ss) : r[i] = IF i = 1 THEN ss[i] ELSE r[i - 1] \o ss[i]
  BY DEF Flattens
<1>2. ASSUME T # {} PROVE FALSE
  <2>1. PICK j \in T : \A y \in T : j <= y
    <3>1. T \in SUBSET Nat
      OBVIOUS
    <3> HIDE DEF T
    <3> QED BY <1>2, <3>1, Least
  <2>2. j \in 1 .. Len(ss) /\ ~Good(j) /\ ss[j] \in Seq(S)
    OBVIOUS
  <2>3. CASE j = 1
    <3>1. r[j] = ss[j]
      BY <1>1, <2>2, <2>3
    <3>2. Members(ss, j) = Range(ss[j])
      BY <2>3 DEF Members
    <3> QED BY <2>2, <3>1, <3>2
  <2>4. CASE j # 1
    <3>1. j - 1 \in 1 .. Len(ss) /\ ~(j <= j - 1)
      BY <2>2, <2>4
    <3>2. Good(j - 1)
      BY <2>1, <3>1
    <3>3. r[j] = r[j - 1] \o ss[j]
      BY <1>1, <2>2, <2>4
    <3>4. r[j] \in Seq(S) /\ Range(r[j]) = Range(r[j - 1]) \cup Range(ss[j])
      <4> DEFINE s == r[j - 1]
                 t == ss[j]
      <4>1. s \in Seq(S) /\ t \in Seq(S)
        BY <2>2, <3>2
      <4> HIDE DEF s, t
      <4>2. s \o t \in Seq(S) /\ Range(s \o t) = Range(s) \cup Range(t)
        BY <4>1, Joined
      <4> QED BY <3>3, <4>2 DEF s, t
    <3>5. Members(ss, j) = Members(ss, j - 1) \cup Range(ss[j])
      <4>1. 1 .. j = (1 .. j - 1) \cup {j}
        BY <2>2
      <4> QED BY <4>1 DEF Members
    <3> QED BY <2>2, <3>2, <3>4, <3>5
  <2> QED BY <2>3, <2>4
<1> QED BY <1>2

\* A flattened sequence has the members of its parts, and nothing else.
LEMMA FlattenHolds ==
  ASSUME NEW S, NEW ss \in Seq(Seq(S))
  PROVE  FlattenSeq(ss) \in Seq(S) /\ Range(FlattenSeq(ss)) = Members(ss, Len(ss))
<1>1. CASE Len(ss) = 0
  <2>1. FlattenSeq(ss) = ss /\ ss = << >>
    BY <1>1 DEF FlattenSeq
  <2>2. Members(ss, Len(ss)) = {} /\ Range(<< >>) = {}
    BY <1>1 DEF Members, Range
  <2> QED BY <2>1, <2>2
<1>2. CASE Len(ss) # 0
  <2> DEFINE f == CHOOSE r : r = [i \in 1 .. Len(ss) |-> IF i = 1 THEN ss[i] ELSE r[i - 1] \o ss[i]]
  <2>1. FlattenSeq(ss) = f[Len(ss)]
    BY <1>2, Zenon DEF FlattenSeq
  <2>2. \E r : r = [i \in 1 .. Len(ss) |-> IF i = 1 THEN ss[i] ELSE r[i - 1] \o ss[i]]
    <3>1. Len(ss) \in Nat
      OBVIOUS
    <3> QED BY <3>1, FlattensExist DEF Flattens
  <2>3. Flattens(f, ss, Len(ss))
    <3>1. f = [i \in 1 .. Len(ss) |-> IF i = 1 THEN ss[i] ELSE f[i - 1] \o ss[i]]
      BY <2>2, Zenon
    <3> QED BY <3>1, Zenon DEF Flattens
  <2> HIDE DEF f
  <2>4. Len(ss) \in 1 .. Len(ss)
    BY <1>2
  <2> QED BY <2>1, <2>3, <2>4, FlattensHold
<1> QED BY <1>1, <1>2
-----------------------------------------------------------------------------
(***************************************************************************)
(* What the variables hold.                                                *)
(***************************************************************************)

Marks == Paths \cup {"unknown"}
AnyState == UNION {States(p) : p \in Paths}
AnyEntry == [before : AnyState, after : AnyState]
Entry(p) == [before : States(p), after : States(p)]
Chains == {f \in [Paths -> Seq(AnyEntry)] : \A p \in Paths : f[p] \in Seq(Entry(p))}
Manifests == [finished : BOOLEAN, noted : SUBSET Marks, chain : Chains]
Journal == [target : Ids, retain : BOOLEAN, finished : BOOLEAN, required : BOOLEAN]
Partial == UNION {[D -> AnyState] : D \in SUBSET Paths}
Steps == {"recover", "plan", "swap", "rename", "apply", "close"}
Purposes == {"begin", "start", "restore", "cut"}
Ops == [pc : Steps, purpose : Purposes, asked : 0 .. MaxTurns, keep : BOOLEAN,
        at : Nat \ {0}, upto : Nat, nested : BOOLEAN,
        target : 0 .. MaxTurns, retain : BOOLEAN, journal : Nat, writable : BOOLEAN,
        todo : SUBSET Paths, cur : Paths \cup {"none"}, raced : BOOLEAN, restored : Partial,
        skipped : SUBSET Marks, warned : BOOLEAN, need : BOOLEAN]

FilesTyped ==
  /\ file \in [Paths -> AnyState] /\ \A p \in Paths : file[p] \in States(p)
  /\ unseen \subseteq Paths
HistoryTyped ==
  /\ order \in Seq(Ids) /\ manifest \in [Ids -> Manifests]
  /\ tx # NoTx => tx.order \in Seq(Ids) /\ tx.manifest \in [Ids -> Manifests]
CallsTyped ==
  /\ DOMAIN pending = Calls /\ DOMAIN flying = Calls
  /\ \A c \in Calls :
       /\ pending[c].id \in 0 .. MaxTurns /\ DOMAIN pending[c].before \subseteq Paths
       /\ \A p \in DOMAIN pending[c].before : pending[c].before[p] \in States(p) \cup {Skipped}
WorkTyped ==
  /\ journals \in Seq(Journal)
  /\ op # NoOp => op \in Ops /\ \A p \in DOMAIN op.restored : op.restored[p] \in States(p)
CountsTyped ==
  /\ turns \in 0 .. MaxTurns /\ active \in 0 .. MaxTurns /\ life \in {"up", "down"}
  /\ required \subseteq Ids /\ half \subseteq Ids
Typed == FilesTyped /\ HistoryTyped /\ CallsTyped /\ WorkTyped /\ CountsTyped

\* While an operation owns the storage no turn is open, and no call runs outside a turn.
Quiet ==
  /\ op # NoOp => active = 0 /\ life = "up"
  /\ life = "down" => active = 0
  /\ active = 0 => \A c \in Calls : flying[c] = {}

\* What a person left and no record ends in.
Unseen == \A p \in unseen : file[p] \notin Left(p)

Aims ==
  op # NoOp =>
    /\ ~op.nested => op.target = op.asked
    /\ op.pc = "plan" => op.nested
    /\ op.pc = "recover" => ~op.nested
    /\ op.pc \in {"plan", "swap", "rename"} => op.target \in Range(order)
    /\ op.purpose = "begin" => turns < MaxTurns
    /\ op.pc = "apply" => tx # NoTx

\* What a restore still has to put back is recorded, and what it is about to put back is
\* not a person's, unless an edit came in between.
Undoes(p) == Chain(manifest, Branch(op.target), p) # << >>
Tracked ==
  /\ op.pc \in {"swap", "rename"} => \A p \in op.todo : Undoes(p)
  /\ op.pc = "rename" => op.cur \in Paths /\ Undoes(op.cur) /\ (~op.raced => op.cur \notin unseen)

\* The journals that are still to be looked at matter, and the one of the restore under way,
\* behind them, is open.
Planned == op.pc \in {"swap", "rename", "close"} \/ (op.pc = "apply" /\ (op.purpose = "cut" => op.nested))
Logged ==
  IF op = NoOp THEN \A i \in DOMAIN journals : Matters(journals[i])
  ELSE
    /\ op.upto <= Len(journals)
    /\ op.pc = "recover" \/ op.nested => \A i \in op.at .. op.upto : Matters(journals[i])
    /\ op.nested => /\ op.at <= op.upto /\ ~journals[op.at].finished
                    /\ journals[op.at].target = op.target
    /\ Planned => /\ op.journal \in DOMAIN journals /\ op.upto < op.journal
                  /\ ~journals[op.journal].finished /\ journals[op.journal].target = op.target

\* A restore that changed files and was not concluded has a journal that matters, which the
\* operation has yet to look at, or has found to need the person.
Told(h, from, to) == \E i \in from .. to : journals[i].target = h /\ Matters(journals[i])
HalfHeld ==
  \A h \in half :
    /\ h \in Range(order) /\ Told(h, 1, Len(journals))
    /\ op # NoOp /\ (op.pc = "recover" \/ op.nested) => h \in required \/ Told(h, op.at, op.upto)

\* The edits by hand are counted, which tells them from the steps of the system.
Counted == hands \in Nat

IInv == Typed /\ Quiet /\ Unseen /\ Aims /\ Tracked /\ Logged /\ HalfHeld /\ Counted
USE RestoreAssumption

-----------------------------------------------------------------------------
(***************************************************************************)
(* Branches, chains and journals.                                          *)
(***************************************************************************)

LEMMA PositionIs ==
  ASSUME HistoryTyped, NEW t
  PROVE  /\ Position(t) \in 0 .. Len(order)
         /\ t \in Range(order) => Position(t) \in DOMAIN order /\ order[Position(t)] = t
<1> DEFINE I == {i \in 1 .. Len(order) : order[i] = t}
<1>1. order \in Seq(Ids) /\ DOMAIN order = 1 .. Len(order) /\ Len(order) \in Nat
  BY DEF HistoryTyped
<1>2. Position(t) = IF I # {} THEN Min(I) ELSE 0
  BY DEF Position, SelectInSeq
<1>3. CASE I # {}
  <2>1. I \in SUBSET Nat
    BY <1>1
  <2> HIDE DEF I
  <2>2. \E x \in I : \A y \in I : x <= y
    BY <1>3, <2>1, Least
  <2>3. Min(I) \in I
    BY <2>2, Zenon DEF Min
  <2> QED BY <1>1, <1>2, <1>3, <2>3 DEF I
<1>4. CASE I = {}
  <2>1. t \notin Range(order)
    BY <1>1, <1>4 DEF Range
  <2> QED BY <1>1, <1>2, <1>4, <2>1
<1> QED BY <1>3, <1>4

LEMMA SlicesAre ==
  ASSUME HistoryTyped, NEW t
  PROVE  /\ Kept(t) \in Seq(Ids)
         /\ t \in Range(order) => Branch(t) \in Seq(Ids) /\ Since(t) \subseteq Ids
<1>1. order \in Seq(Ids) /\ DOMAIN order = 1 .. Len(order) /\ Len(order) \in Nat
  BY DEF HistoryTyped
<1>2. Position(t) \in 0 .. Len(order) /\ (t \in Range(order) => Position(t) \in DOMAIN order)
  BY PositionIs
<1>3. Kept(t) \in Seq(Ids)
  <2>1. 1 \in Int /\ Position(t) - 1 \in Int /\ \A i \in 1 .. Position(t) - 1 : order[i] \in Ids
    BY <1>1, <1>2
  <2> QED BY <2>1, SubSeqProperties DEF Kept
<1>4. ASSUME t \in Range(order) PROVE Branch(t) \in Seq(Ids) /\ Since(t) \subseteq Ids
  <2>1. Position(t) \in Int /\ Len(order) \in Int /\ \A i \in Position(t) .. Len(order) : order[i] \in Ids
    BY <1>1, <1>2, <1>4
  <2>2. Branch(t) \in Seq(Ids)
    BY <2>1, SubSeqProperties DEF Branch
  <2> QED BY <2>2 DEF Since, Range
<1> QED BY <1>3, <1>4

\* A chain is typed, and each of its changes is one that the branch records.
LEMMA ChainIs ==
  ASSUME NEW m \in [Ids -> Manifests], NEW branch \in Seq(Ids), NEW p \in Paths
  PROVE  /\ Chain(m, branch, p) \in Seq(Entry(p))
         /\ \A x \in Range(Chain(m, branch, p)) : \E t \in Ids : x \in Range(m[t].chain[p])
<1> DEFINE ss == [i \in DOMAIN branch |-> m[branch[i]].chain[p]]
<1>1. DOMAIN branch = 1 .. Len(branch) /\ Len(branch) \in Nat /\ \A i \in 1 .. Len(branch) : branch[i] \in Ids
  OBVIOUS
<1>2. \A t \in Ids : m[t].chain[p] \in Seq(Entry(p))
  BY DEF Manifests, Chains
<1>3. ss \in Seq(Seq(Entry(p))) /\ Len(ss) = Len(branch)
  <2>1. ss = [i \in 1 .. Len(branch) |-> m[branch[i]].chain[p]]
    BY <1>1
  <2> QED BY <1>1, <1>2, <2>1
<1>4. Chain(m, branch, p) = FlattenSeq(ss)
  BY DEF Chain
<1>5. \A i \in 1 .. Len(branch) : ss[i] = m[branch[i]].chain[p]
  BY <1>1
<1> HIDE DEF ss
<1>6. FlattenSeq(ss) \in Seq(Entry(p)) /\ Range(FlattenSeq(ss)) = Members(ss, Len(ss))
  BY <1>3, FlattenHolds
<1> QED BY <1>1, <1>3, <1>4, <1>5, <1>6 DEF Members

LEMMA LiveIs ==
  ASSUME NEW js \in Seq(Journal)
  PROVE  /\ Live(js) \in Seq(Journal)
         /\ \A j : j \in Range(Live(js)) <=> j \in Range(js) /\ Matters(j)
<1> DEFINE ss == [i \in DOMAIN js |-> IF Matters(js[i]) THEN <<js[i]>> ELSE << >>]
<1>1. DOMAIN js = 1 .. Len(js) /\ Len(js) \in Nat /\ \A i \in 1 .. Len(js) : js[i] \in Journal
  OBVIOUS
<1>2. \A i \in 1 .. Len(js) : <<js[i]>> \in Seq(Journal) /\ << >> \in Seq(Journal)
  BY <1>1
<1>3. ss \in Seq(Seq(Journal)) /\ Len(ss) = Len(js)
  <2>1. ss = [i \in 1 .. Len(js) |-> IF Matters(js[i]) THEN <<js[i]>> ELSE << >>]
    BY <1>1
  <2> QED BY <1>1, <1>2, <2>1
<1>4. Live(js) = FlattenSeq(ss)
  BY DEF Live
<1>5. \A i \in 1 .. Len(js) : ss[i] = IF Matters(js[i]) THEN <<js[i]>> ELSE << >>
  BY <1>1
<1> HIDE DEF ss
<1>6. FlattenSeq(ss) \in Seq(Journal) /\ Range(FlattenSeq(ss)) = Members(ss, Len(ss))
  BY <1>3, FlattenHolds
<1>7. ASSUME NEW i \in 1 .. Len(js), NEW j
      PROVE  j \in Range(ss[i]) <=> j = js[i] /\ Matters(js[i])
  <2>1. CASE Matters(js[i])
    <3>1. ss[i] = <<js[i]>>
      BY <1>5, <2>1
    <3> QED BY <2>1, <3>1 DEF Range
  <2>2. CASE ~Matters(js[i])
    <3>1. ss[i] = << >>
      BY <1>5, <2>2
    <3> QED BY <2>2, <3>1 DEF Range
  <2> QED BY <2>1, <2>2
<1>8. ASSUME NEW j
      PROVE  j \in Range(Live(js)) <=> j \in Range(js) /\ Matters(j)
  <2>1. j \in Members(ss, Len(ss)) <=> \E i \in 1 .. Len(js) : j \in Range(ss[i])
    BY <1>3 DEF Members
  <2>2. j \in Range(Live(js)) <=> j \in Members(ss, Len(ss))
    BY <1>4, <1>6
  <2>3. j \in Range(js) <=> \E i \in 1 .. Len(js) : j = js[i]
    BY <1>1 DEF Range
  <2>4. (\E i \in 1 .. Len(js) : j \in Range(ss[i])) <=> (\E i \in 1 .. Len(js) : j = js[i] /\ Matters(js[i]))
    BY <1>7
  <2> QED BY <2>1, <2>2, <2>3, <2>4
<1> QED BY <1>4, <1>6, <1>8
\* What the chain of a path that a restore undoes begins and ends with.
LEMMA Undone ==
  ASSUME HistoryTyped, op.target \in Range(order), NEW p \in Paths, Undoes(p)
  PROVE  /\ Desired(Chain(manifest, Branch(op.target), p)) \in States(p)
         /\ Expected(Chain(manifest, Branch(op.target), p)) \in EndsOf(manifest, p)
<1> DEFINE s == Chain(manifest, Branch(op.target), p)
<1>1. Branch(op.target) \in Seq(Ids) /\ manifest \in [Ids -> Manifests]
  BY SlicesAre DEF HistoryTyped
<1>2. s \in Seq(Entry(p)) /\ \A x \in Range(s) : \E t \in Ids : x \in Range(manifest[t].chain[p])
  BY <1>1, ChainIs
<1>3. s # << >>
  BY DEF Undoes
<1> HIDE DEF s
<1>4. 1 \in 1 .. Len(s) /\ Len(s) \in 1 .. Len(s) /\ DOMAIN s = 1 .. Len(s)
  BY <1>2, <1>3
<1>5. Desired(s) \in States(p)
  <2>1. s[1] \in Entry(p)
    BY <1>2, <1>4
  <2> QED BY <2>1 DEF Desired, Entry
<1>6. Expected(s) = s[Len(s)].after /\ s[Len(s)] \in Range(s)
  BY <1>4 DEF Expected, Last, Range
<1>7. PICK t \in Ids : s[Len(s)] \in Range(manifest[t].chain[p])
  BY <1>2, <1>6
<1>8. PICK i \in DOMAIN manifest[t].chain[p] : s[Len(s)] = manifest[t].chain[p][i]
  BY <1>7 DEF Range
<1>9. Expected(s) \in EndsOf(manifest, p)
  BY <1>6, <1>8 DEF EndsOf
<1> QED BY <1>5, <1>9 DEF s

LEMMA Ended ==
  ASSUME NEW m, NEW p, NEW x
  PROVE  x \in EndsOf(m, p) <=> \E t \in Ids : \E i \in DOMAIN m[t].chain[p] : x = m[t].chain[p][i].after
BY DEF EndsOf

-----------------------------------------------------------------------------
(***************************************************************************)
(* The types.                                                              *)
(***************************************************************************)

LEMMA PutBackTyped ==
  ASSUME HistoryTyped, op.target \in Range(order), NEW p \in Paths, Undoes(p)
  PROVE  PutBack(p) \in States(p)
<1>1. Desired(Chain(manifest, Branch(op.target), p)) \in States(p)
  BY Undone
<1> QED BY <1>1 DEF PutBack, States, Absent

LEMMA FileChanged ==
  ASSUME FilesTyped, NEW p \in Paths, NEW s \in States(p), file' = [file EXCEPT ![p] = s],
         unseen' \subseteq unseen \cup {p}
  PROVE  FilesTyped'
BY DEF FilesTyped, AnyState

LEMMA FilesKept ==
  ASSUME IInv, file' = file, unseen' \subseteq unseen
  PROVE  FilesTyped'
BY DEF IInv, Typed, FilesTyped

LEMMA FilesStep ==
  ASSUME IInv, Next
  PROVE  FilesTyped'
<1>1. ASSUME NEW c \in Calls, NEW ps \in Targets, CallPre(c, ps) PROVE FilesTyped'
  BY <1>1, FilesKept DEF CallPre, Announces, Note, ghosts
<1>2. ASSUME NEW c \in Calls, NEW p \in Paths, ToolWrites(c, p) PROVE FilesTyped'
  <2>1. PICK s \in Written(p) : file' = [file EXCEPT ![p] = s] /\ unseen' = unseen \ {p}
    BY <1>2 DEF ToolWrites
  <2> QED BY <2>1, FileChanged DEF IInv, Typed, Written
<1>3. ASSUME NEW c \in Calls, CallAfter(c) PROVE FilesTyped'
  BY <1>3, FilesKept DEF CallAfter, Note, ghosts
<1>4. ASSUME FinishTurn PROVE FilesTyped'
  BY <1>4, FilesKept DEF FinishTurn, ghosts
<1>5. ASSUME AskTurn PROVE FilesTyped'
  BY <1>5, FilesKept DEF AskTurn, Acquire, ghosts
<1>6. ASSUME NEW t \in Ids, NEW retain \in BOOLEAN, AskRestore(t, retain) PROVE FilesTyped'
  BY <1>6, FilesKept DEF AskRestore, Acquire, ghosts
<1>7. ASSUME NEW t \in Ids, Retry(t) PROVE FilesTyped'
  BY <1>7, FilesKept DEF Retry, Acquire, ghosts
<1>8. ASSUME NEW t \in Ids, AskCut(t) PROVE FilesTyped'
  BY <1>8, FilesKept DEF AskCut, Acquire, ghosts
<1>9. ASSUME Start PROVE FilesTyped'
  BY <1>9, FilesKept DEF Start, Acquire, ghosts
<1>10. ASSUME RecoverFinished PROVE FilesTyped'
  BY <1>10, FilesKept DEF RecoverFinished, ghosts
<1>11. ASSUME RecoverCommitted PROVE FilesTyped'
  BY <1>11, FilesKept DEF RecoverCommitted, ghosts
<1>12. ASSUME RecoverAgain PROVE FilesTyped'
  BY <1>12, FilesKept DEF RecoverAgain, ghosts
<1>13. ASSUME BeginTurn PROVE FilesTyped'
  BY <1>13, FilesKept DEF BeginTurn, ghosts
<1>14. ASSUME LetGo PROVE FilesTyped'
  BY <1>14, FilesKept DEF LetGo, ghosts
<1>15. ASSUME PlanRestore PROVE FilesTyped'
  BY <1>15, FilesKept DEF PlanRestore, ghosts
<1>16. ASSUME NEW p \in Paths, CheckFile(p) PROVE FilesTyped'
  BY <1>16, FilesKept DEF CheckFile, ghosts
<1>17. ASSUME NEW p \in Paths, RenameFile(p) PROVE FilesTyped'
  <2>1. CASE file' = [file EXCEPT ![p] = PutBack(p)] /\ unseen' = unseen \ {p}
    <3>1. op.pc = "rename" /\ p = op.cur /\ op # NoOp
      BY <1>17 DEF RenameFile, At, NoOp
    <3>2. op.target \in Range(order) /\ Undoes(p) /\ HistoryTyped
      BY <3>1 DEF IInv, Aims, Tracked, Typed
    <3> QED BY <2>1, <3>2, PutBackTyped, FileChanged DEF IInv, Typed
  <2>2. CASE file' = file /\ unseen' = unseen
    BY <2>2 DEF IInv, Typed, FilesTyped
  <2> QED BY <1>17, <2>1, <2>2 DEF RenameFile
<1>18. ASSUME CommitRestore PROVE FilesTyped'
  BY <1>18, FilesKept DEF CommitRestore, ghosts
<1>19. ASSUME ApplyRestore PROVE FilesTyped'
  BY <1>19, FilesKept DEF ApplyRestore, ghosts
<1>20. ASSUME CloseRestore PROVE FilesTyped'
  BY <1>20, FilesKept DEF CloseRestore, ghosts
<1>21. ASSUME CloseRecovered PROVE FilesTyped'
  BY <1>21, FilesKept DEF CloseRecovered, ghosts
<1>22. ASSUME CutBranch PROVE FilesTyped'
  BY <1>22, FilesKept DEF CutBranch, ghosts
<1>23. ASSUME ApplyCut PROVE FilesTyped'
  BY <1>23, FilesKept DEF ApplyCut, ghosts
<1>24. ASSUME NEW p \in Paths, HandEdit(p) PROVE FilesTyped'
  <2>1. PICK s \in Written(p) \cup Replaced(p) : file' = [file EXCEPT ![p] = s]
    BY <1>24 DEF HandEdit
  <2>2. s \in States(p) /\ unseen' \subseteq unseen \cup {p}
    BY <1>24, <2>1 DEF HandEdit, Written, Replaced
  <2> QED BY <2>1, <2>2, FileChanged DEF IInv, Typed
<1>25. ASSUME Crash PROVE FilesTyped'
  BY <1>25, FilesKept DEF Crash, ghosts
<1> QED
  BY <1>1, <1>2, <1>3, <1>4, <1>5, <1>6, <1>7, <1>8, <1>9, <1>10, <1>11, <1>12, <1>13,
     <1>14, <1>15, <1>16, <1>17, <1>18, <1>19, <1>20, <1>21, <1>22, <1>23, <1>24,
     <1>25 DEF Next

LEMMA Finalizes ==
  ASSUME HistoryTyped, CallsTyped, NEW t \in Ids
  PROVE  Finalized(t) \in Manifests /\ Finalized(t).chain = manifest[t].chain
<1>1. Unrecorded(t) \subseteq Marks
  BY DEF Unrecorded, CallsTyped, Marks
<1>2. manifest[t] \in Manifests
  BY DEF HistoryTyped
<1> HIDE DEF Unrecorded
<1> QED BY <1>1, <1>2 DEF Finalized, Manifests

LEMMA Notes ==
  ASSUME HistoryTyped, NEW what \in SUBSET Marks, Note(what)
  PROVE  /\ manifest' \in [Ids -> Manifests]
         /\ \A t \in Ids : manifest'[t].chain = manifest[t].chain
<1>1. manifest' = [manifest EXCEPT ![active] = [manifest[active] EXCEPT !.noted = @ \cup what]]
  BY DEF Note
<1>2. ASSUME NEW m \in Manifests
      PROVE  /\ [m EXCEPT !.noted = @ \cup what] \in Manifests
             /\ [m EXCEPT !.noted = @ \cup what].chain = m.chain
  BY DEF Manifests
<1>3. manifest \in [Ids -> Manifests]
  BY DEF HistoryTyped
<1> QED BY <1>1, <1>2, <1>3

LEMMA Records ==
  ASSUME FilesTyped, NEW m \in Manifests, NEW before, DOMAIN before \subseteq Paths,
         NEW bad \in SUBSET DOMAIN before,
         \A p \in DOMAIN before \ bad : before[p] \in States(p)
  PROVE  /\ Recorded(m, before, bad) \in Manifests
         /\ \A p \in Paths : Recorded(m, before, bad).chain[p] =
              IF p \in Changed(before, bad)
              THEN Append(m.chain[p], [before |-> before[p], after |-> file[p]]) ELSE m.chain[p]
<1> DEFINE c == [p \in Paths |->
                   IF p \in Changed(before, bad)
                   THEN Append(m.chain[p], [before |-> before[p], after |-> file[p]]) ELSE m.chain[p]]
<1>1. m.chain \in Chains /\ m.noted \subseteq Marks /\ m.finished \in BOOLEAN
  BY DEF Manifests
<1>2. ASSUME NEW p \in Paths PROVE c[p] \in Seq(Entry(p)) /\ c[p] \in Seq(AnyEntry)
  <2>1. m.chain[p] \in Seq(Entry(p)) /\ m.chain[p] \in Seq(AnyEntry)
    BY <1>1 DEF Chains
  <2>2. CASE p \in Changed(before, bad)
    <3>1. before[p] \in States(p) /\ file[p] \in States(p)
      BY <2>2 DEF Changed, FilesTyped
    <3>2. [before |-> before[p], after |-> file[p]] \in Entry(p)
          /\ [before |-> before[p], after |-> file[p]] \in AnyEntry
      BY <3>1 DEF Entry, AnyEntry, AnyState
    <3> QED BY <2>1, <2>2, <3>2
  <2>3. CASE p \notin Changed(before, bad)
    BY <2>1, <2>3
  <2> QED BY <2>2, <2>3
<1>3. c \in Chains
  <2>1. c \in [Paths -> Seq(AnyEntry)]
    BY <1>2
  <2> QED BY <1>2, <2>1 DEF Chains
<1>4. Recorded(m, before, bad) = [m EXCEPT !.noted = @ \cup bad, !.chain = c]
  BY DEF Recorded
<1>5. bad \subseteq Marks
  BY DEF Marks
<1> HIDE DEF c
<1>6. Recorded(m, before, bad) \in Manifests /\ Recorded(m, before, bad).chain = c
  BY <1>1, <1>3, <1>4, <1>5 DEF Manifests
<1> QED BY <1>6 DEF c

LEMMA Blanks ==
  /\ Blank \in Manifests /\ Opened \in Manifests
  /\ \A p \in Paths : Blank.chain[p] = << >> /\ Opened.chain[p] = << >>
<1> DEFINE c == [p \in Paths |-> << >>]
<1>1. c \in Chains
  <2>1. \A p \in Paths : c[p] = << >> /\ << >> \in Seq(Entry(p)) /\ << >> \in Seq(AnyEntry)
    OBVIOUS
  <2>2. c \in [Paths -> Seq(AnyEntry)]
    BY <2>1
  <2> QED BY <2>1, <2>2 DEF Chains
<1>2. Blank = [finished |-> TRUE, noted |-> {}, chain |-> c] /\ Opened = [Blank EXCEPT !.finished = FALSE]
  BY DEF Blank, Opened
<1>3. \A p \in Paths : c[p] = << >>
  OBVIOUS
<1> HIDE DEF c
<1> QED BY <1>1, <1>2, <1>3 DEF Manifests

\* A rebased record has the changes it had; only where a path is taken over may one end otherwise.
LEMMA Rebases ==
  ASSUME HistoryTyped, WorkTyped, op # NoOp, NEW t \in Ids
  PROVE  /\ Rebased(t) \in Manifests
         /\ \A p \in Paths : ~TakesOver(t, p) => Rebased(t).chain[p] = manifest[t].chain[p]
<1> DEFINE m == manifest[t]
           c == [p \in Paths |-> IF TakesOver(t, p)
                   THEN EndsIn(m.chain[p], op.restored[p]) ELSE m.chain[p]]
<1>1. m \in Manifests
  BY DEF HistoryTyped
<1>2. m.chain \in Chains
  BY <1>1 DEF Manifests
<1>3. ASSUME NEW p \in Paths PROVE c[p] \in Seq(Entry(p)) /\ c[p] \in Seq(AnyEntry)
  <2>1. m.chain[p] \in Seq(Entry(p)) /\ m.chain[p] \in Seq(AnyEntry)
    BY <1>2 DEF Chains
  <2>2. CASE TakesOver(t, p)
    <3> DEFINE s == m.chain[p]
    <3>1. s # << >> /\ p \in DOMAIN op.restored
      BY <2>2 DEF TakesOver, Blessed
    <3>2. op.restored[p] \in States(p)
      BY <3>1 DEF WorkTyped
    <3>3. c[p] = [s EXCEPT ![Len(s)] = [@ EXCEPT !.after = op.restored[p]]]
      BY <2>2 DEF EndsIn
    <3> HIDE DEF s, c
    <3>4. s \in Seq(Entry(p)) /\ s \in Seq(AnyEntry)
      BY <2>1 DEF s
    <3>5. Len(s) \in 1 .. Len(s) /\ s[Len(s)] \in Entry(p)
      BY <3>1, <3>4
    <3>6. [s[Len(s)] EXCEPT !.after = op.restored[p]] \in Entry(p)
      BY <3>2, <3>5 DEF Entry
    <3>7. Entry(p) \subseteq AnyEntry
      BY DEF Entry, AnyEntry, AnyState
    <3>8. c[p] = [s EXCEPT ![Len(s)] = [s[Len(s)] EXCEPT !.after = op.restored[p]]]
      BY <3>3
    <3> QED BY <3>4, <3>5, <3>6, <3>7, <3>8
  <2>3. CASE ~TakesOver(t, p)
    BY <2>1, <2>3
  <2> QED BY <2>2, <2>3
<1>4. c \in Chains
  <2>1. c \in [Paths -> Seq(AnyEntry)]
    BY <1>3
  <2> QED BY <1>3, <2>1 DEF Chains
<1>5. Rebased(t) = [m EXCEPT !.chain = c]
  BY DEF Rebased
<1>6. \A p \in Paths : ~TakesOver(t, p) => c[p] = m.chain[p]
  OBVIOUS
<1> HIDE DEF c, m
<1>7. Rebased(t) \in Manifests /\ Rebased(t).chain = c
  BY <1>1, <1>4, <1>5 DEF Manifests
<1> QED BY <1>6, <1>7 DEF m

LEMMA Resolves ==
  ASSUME HistoryTyped, NEW t \in Ids
  PROVE  /\ Unresolved(t) \in Manifests
         /\ \A p \in Paths : Unresolved(t).chain[p] \in {manifest[t].chain[p], << >>}
<1> DEFINE m == manifest[t]
           c == [p \in Paths |-> IF p \in Unsettled THEN m.chain[p] ELSE << >>]
<1>1. m \in Manifests
  BY DEF HistoryTyped
<1>2. c \in Chains
  <2>1. m.chain \in Chains
    BY <1>1 DEF Manifests
  <2>2. \A p \in Paths : c[p] \in Seq(Entry(p)) /\ c[p] \in Seq(AnyEntry)
    BY <2>1 DEF Chains
  <2>3. c \in [Paths -> Seq(AnyEntry)]
    BY <2>2
  <2> QED BY <2>2, <2>3 DEF Chains
<1>3. Unresolved(t) = [m EXCEPT !.chain = c]
  BY DEF Unresolved
<1>4. \A p \in Paths : c[p] \in {m.chain[p], << >>}
  OBVIOUS
<1> HIDE DEF c, m
<1>5. Unresolved(t) \in Manifests /\ Unresolved(t).chain = c
  BY <1>1, <1>2, <1>3 DEF Manifests
<1> QED BY <1>4, <1>5 DEF m
LEMMA Branches ==
  ASSUME HistoryTyped, WorkTyped, op # NoOp
  PROVE  /\ NextBranch.order \in Seq(Ids) /\ NextBranch.manifest \in [Ids -> Manifests]
         /\ \A p \in Paths : (\A t \in Ids : ~TakesOver(t, p)) =>
              EndsOf(NextBranch.manifest, p) \subseteq EndsOf(manifest, p)
<1> DEFINE n == [t \in Ids |-> IF t \notin Selected THEN Rebased(t)
                               ELSE IF Clean THEN Blank ELSE Unresolved(t)]
<1>1. NextBranch.manifest = n /\ NextBranch.order \in {Kept(op.target), order}
  BY DEF NextBranch
<1>2. NextBranch.order \in Seq(Ids)
  BY <1>1, SlicesAre DEF HistoryTyped
<1>3. ASSUME NEW t \in Ids PROVE n[t] \in Manifests
  BY Rebases, Blanks, Resolves
<1>4. ASSUME NEW p \in Paths, \A t \in Ids : ~TakesOver(t, p), NEW t \in Ids
      PROVE  n[t].chain[p] \in {manifest[t].chain[p], << >>}
  BY <1>4, Rebases, Blanks, Resolves
<1>5. n \in [Ids -> Manifests]
  BY <1>3
<1> HIDE DEF n
<1>6. ASSUME NEW p \in Paths, \A t \in Ids : ~TakesOver(t, p)
      PROVE  EndsOf(n, p) \subseteq EndsOf(manifest, p)
  <2>1. ASSUME NEW x \in EndsOf(n, p) PROVE x \in EndsOf(manifest, p)
    <3>1. PICK t \in Ids : \E i \in DOMAIN n[t].chain[p] : x = n[t].chain[p][i].after
      BY <2>1, Ended
    <3>2. n[t].chain[p] = manifest[t].chain[p]
      <4>1. n[t].chain[p] # << >>
        BY <3>1
      <4> QED BY <1>4, <1>6, <4>1
    <3> QED BY <3>1, <3>2, Ended
  <2> QED BY <2>1
<1> QED BY <1>1, <1>2, <1>5, <1>6

LEMMA Folds ==
  ASSUME HistoryTyped, NEW m \in [Ids -> Manifests], op.asked \in Range(order),
         NEW kept \in Seq(Ids), kept # << >>
  PROVE  /\ Folded(m, kept, Since(op.asked)) \in [Ids -> Manifests]
         /\ \A p \in Paths : EndsOf(Folded(m, kept, Since(op.asked)), p) \subseteq EndsOf(m, p)
<1> DEFINE gone == Since(op.asked)
           last == Last(kept)
           Longer(t) == [p \in Paths |-> m[t].chain[p] \o Chain(m, Branch(op.asked), p)]
           n == [t \in Ids |-> IF t \in gone THEN Blank ELSE IF t # last THEN m[t]
                   ELSE [finished |-> TRUE,
                         noted |-> m[t].noted \cup UNION {m[g].noted : g \in gone},
                         chain |-> Longer(t)]]
<1>1. Folded(m, kept, gone) = n
  BY DEF Folded
<1>2. Branch(op.asked) \in Seq(Ids) /\ gone \subseteq Ids
  BY SlicesAre
<1>3. ASSUME NEW p \in Paths
      PROVE  /\ Chain(m, Branch(op.asked), p) \in Seq(Entry(p))
             /\ \A x \in Range(Chain(m, Branch(op.asked), p)) : \E g \in Ids : x \in Range(m[g].chain[p])
  BY <1>2, ChainIs
<1>4. ASSUME NEW t \in Ids
      PROVE  /\ Longer(t) \in Chains
             /\ \A p \in Paths : \A x \in Range(Longer(t)[p]) : \E g \in Ids : x \in Range(m[g].chain[p])
  <2>1. ASSUME NEW p \in Paths
        PROVE  /\ Longer(t)[p] \in Seq(Entry(p)) /\ Longer(t)[p] \in Seq(AnyEntry)
               /\ \A x \in Range(Longer(t)[p]) : \E g \in Ids : x \in Range(m[g].chain[p])
    <3> DEFINE r == m[t].chain[p]
               s == Chain(m, Branch(op.asked), p)
    <3>1. r \in Seq(Entry(p)) /\ s \in Seq(Entry(p))
      BY <1>3 DEF Manifests, Chains
    <3>2. Longer(t)[p] = r \o s
      OBVIOUS
    <3>3. Entry(p) \subseteq AnyEntry
      BY DEF Entry, AnyEntry, AnyState
    <3> HIDE DEF r, s
    <3>4. r \in Seq(AnyEntry) /\ s \in Seq(AnyEntry)
      BY <3>1, <3>3, SeqMonotonic
    <3>5. r \o s \in Seq(Entry(p)) /\ r \o s \in Seq(AnyEntry)
      BY <3>1, <3>4
    <3>6. Range(r \o s) = Range(r) \cup Range(s)
      BY <3>1, Joined
    <3>7. ASSUME NEW x \in Range(Longer(t)[p]) PROVE \E g \in Ids : x \in Range(m[g].chain[p])
      <4>1. CASE x \in Range(r)
        BY <4>1 DEF r
      <4>2. CASE x \in Range(s)
        BY <1>3, <4>2 DEF s
      <4>3. x \in Range(r \o s)
        BY <3>2, <3>7
      <4> QED BY <3>6, <4>1, <4>2, <4>3
    <3> QED BY <3>2, <3>5, <3>7
  <2>2. Longer(t) \in [Paths -> Seq(AnyEntry)]
    BY <2>1
  <2> QED BY <2>1, <2>2 DEF Chains
<1>5. ASSUME NEW t \in Ids
      PROVE  /\ n[t] \in Manifests
             /\ \A p \in Paths : \A x \in Range(n[t].chain[p]) : \E g \in Ids : x \in Range(m[g].chain[p])
  <2>1. CASE t \in gone
    <3>1. n[t] = Blank
      BY <2>1
    <3>2. \A p \in Paths : Range(Blank.chain[p]) = {}
      BY Blanks DEF Range
    <3> QED BY <3>1, <3>2, Blanks
  <2>2. CASE t \notin gone /\ t # last
    <3>1. n[t] = m[t]
      BY <2>2
    <3> QED BY <3>1
  <2>3. CASE t \notin gone /\ t = last
    <3> HIDE DEF Longer
    <3>1. n[t] = [finished |-> TRUE, noted |-> m[t].noted \cup UNION {m[g].noted : g \in gone},
                  chain |-> Longer(t)]
      BY <2>3
    <3>2. m[t].noted \cup UNION {m[g].noted : g \in gone} \subseteq Marks
      BY <1>2 DEF Manifests
    <3>3. Longer(t) \in Chains
      BY <1>4
    <3>4. n[t] \in Manifests
      <4> HIDE DEF n, gone
      <4> QED BY <3>1, <3>2, <3>3 DEF Manifests
    <3>5. n[t].chain = Longer(t)
      <4> HIDE DEF n
      <4> QED BY <3>1
    <3> QED BY <1>4, <3>4, <3>5
  <2> QED BY <2>1, <2>2, <2>3
<1>6. n \in [Ids -> Manifests]
  BY <1>5
<1> HIDE DEF n
<1>7. ASSUME NEW p \in Paths, NEW x \in EndsOf(n, p) PROVE x \in EndsOf(m, p)
  <2>1. PICK t \in Ids : \E i \in DOMAIN n[t].chain[p] : x = n[t].chain[p][i].after
    BY <1>7, Ended
  <2>2. PICK e \in Range(n[t].chain[p]) : x = e.after
    BY <2>1 DEF Range
  <2>3. PICK g \in Ids : e \in Range(m[g].chain[p])
    BY <1>5, <2>2
  <2> QED BY <2>2, <2>3, Ended DEF Range
<1> QED BY <1>1, <1>6, <1>7
LEMMA EndsShrink ==
  ASSUME NEW m, NEW n, NEW p, \A t \in Ids : n[t].chain[p] \in {m[t].chain[p], << >>}
  PROVE  EndsOf(n, p) \subseteq EndsOf(m, p)
<1>1. ASSUME NEW x \in EndsOf(n, p) PROVE x \in EndsOf(m, p)
  <2>1. PICK t \in Ids : \E i \in DOMAIN n[t].chain[p] : x = n[t].chain[p][i].after
    BY <1>1, Ended
  <2>2. n[t].chain[p] # << >>
    BY <2>1
  <2>3. n[t].chain[p] = m[t].chain[p]
    BY <2>2
  <2> QED BY <2>1, <2>3, Ended
<1> QED BY <1>1

LEMMA LeftAfter ==
  ASSUME NEW p
  PROVE  Left(p)' = EndsOf(manifest', p) \cup IF tx' = NoTx THEN {} ELSE EndsOf(tx'.manifest, p)
BY DEF Left, EndsOf, NoTx

LEMMA UnseenKept ==
  ASSUME IInv,
         \A p \in unseen' : /\ p \in unseen /\ file'[p] = file[p]
                            /\ EndsOf(manifest', p) \subseteq Left(p)
                            /\ tx' = NoTx \/ EndsOf(tx'.manifest, p) \subseteq Left(p)
  PROVE  Unseen'
<1>1. ASSUME NEW p \in unseen' PROVE file'[p] \notin Left(p)'
  <2>1. Left(p)' \subseteq Left(p)
    BY LeftAfter
  <2> QED BY <2>1 DEF IInv, Unseen
<1> QED BY <1>1 DEF Unseen

LEMMA LeftHolds ==
  ASSUME NEW p
  PROVE  /\ EndsOf(manifest, p) \subseteq Left(p)
         /\ tx # NoTx => EndsOf(tx.manifest, p) \subseteq Left(p)
BY DEF Left

LEMMA HistoryKept ==
  ASSUME IInv, UNCHANGED <<order, manifest, tx>>, file' = file, unseen' \subseteq unseen
  PROVE  HistoryTyped' /\ Unseen'
<1>1. HistoryTyped'
  BY DEF IInv, Typed, HistoryTyped
<1>2. Unseen'
  BY DEF IInv, Unseen, Left, EndsOf
<1> QED BY <1>1, <1>2

\* New records that end in no state the old ones did not, for the files that stay a person's.
LEMMA ManifestsChange ==
  ASSUME IInv, manifest' \in [Ids -> Manifests], UNCHANGED <<order, tx, file>>, unseen' \subseteq unseen,
         \A p \in unseen' : \A t \in Ids : manifest'[t].chain[p] \in {manifest[t].chain[p], << >>}
  PROVE  HistoryTyped' /\ Unseen'
<1>1. HistoryTyped'
  BY DEF IInv, Typed, HistoryTyped
<1>2. \A p \in unseen' : EndsOf(manifest', p) \subseteq Left(p)
  BY EndsShrink, LeftHolds
<1>3. Unseen'
  BY <1>2, LeftHolds, UnseenKept
<1> QED BY <1>1, <1>3

LEMMA TxSettles ==
  ASSUME IInv, tx # NoTx, AppliesTx \/ TxFails, UNCHANGED <<file, unseen>>
  PROVE  HistoryTyped' /\ Unseen'
<1>1. manifest' = tx.manifest \/ manifest' = manifest
  BY DEF AppliesTx, TxFails
<1>2. order' = tx.order \/ order' = order
  BY DEF AppliesTx, TxFails
<1>3. tx' = NoTx \/ tx' = tx
  BY DEF AppliesTx, TxFails
<1>4. HistoryTyped'
  BY <1>1, <1>2, <1>3 DEF IInv, Typed, HistoryTyped
<1>5. \A p \in unseen' : EndsOf(manifest', p) \subseteq Left(p)
  BY <1>1, LeftHolds
<1>6. Unseen'
  BY <1>3, <1>5, LeftHolds, UnseenKept
<1> QED BY <1>4, <1>6

LEMMA AcquireHistory ==
  ASSUME IInv, NEW purpose, NEW t, NEW retain, Acquire(purpose, t, retain)
  PROVE  HistoryTyped' /\ Unseen'
<1>1. UNCHANGED <<file, unseen>>
  BY DEF Acquire
<1>2. CASE tx = NoTx
  BY <1>1, <1>2, HistoryKept DEF Acquire
<1>3. CASE tx # NoTx
  BY <1>1, <1>3, TxSettles DEF Acquire
<1> QED BY <1>2, <1>3

LEMMA HistoryStep ==
  ASSUME IInv, Next
  PROVE  HistoryTyped' /\ Unseen'
<1>1. ASSUME NEW c \in Calls, NEW ps \in Targets, CallPre(c, ps) PROVE HistoryTyped' /\ Unseen'
  <2>1. UNCHANGED <<order, tx, file, unseen>> /\ (manifest' = manifest \/ Note({"unknown"}))
    BY <1>1 DEF CallPre, Announces
  <2>2. CASE manifest' = manifest
    BY <2>1, <2>2, HistoryKept
  <2>3. CASE Note({"unknown"})
    <3>1. {"unknown"} \in SUBSET Marks
      BY DEF Marks
    <3> QED BY <2>1, <2>3, <3>1, Notes, ManifestsChange DEF IInv, Typed
  <2> QED BY <2>1, <2>2, <2>3
<1>2. ASSUME NEW c \in Calls, NEW p \in Paths, ToolWrites(c, p) PROVE HistoryTyped' /\ Unseen'
  <2>1. UNCHANGED <<order, manifest, tx>> /\ unseen' = unseen \ {p}
        /\ \E s : file' = [file EXCEPT ![p] = s]
    BY <1>2 DEF ToolWrites, disk
  <2>2. \A q \in unseen' : file'[q] = file[q]
    BY <2>1 DEF IInv, Typed, FilesTyped
  <2>3. Unseen'
    BY <2>1, <2>2, LeftHolds, UnseenKept
  <2> QED BY <2>1, <2>3 DEF IInv, Typed, HistoryTyped
<1>3. ASSUME NEW c \in Calls, CallAfter(c) PROVE HistoryTyped' /\ Unseen'
  <2> DEFINE before == pending[c].before
             skipped == {p \in DOMAIN before : before[p] = Skipped}
  <2>1. UNCHANGED <<order, tx, file>>
    BY <1>3 DEF CallAfter
  <2>2. \/ \E bad \in SUBSET (DOMAIN before \ skipped) :
             /\ manifest' = [manifest EXCEPT ![pending[c].id] = Recorded(@, before, bad \cup skipped)]
             /\ unseen' = unseen \ Changed(before, bad \cup skipped)
        \/ Note({"unknown"}) /\ unseen' = unseen
        \/ manifest' = manifest /\ unseen' = unseen
    BY <1>3 DEF CallAfter
  <2>3. ASSUME NEW bad \in SUBSET (DOMAIN before \ skipped),
               manifest' = [manifest EXCEPT ![pending[c].id] = Recorded(@, before, bad \cup skipped)],
               unseen' = unseen \ Changed(before, bad \cup skipped)
        PROVE  HistoryTyped' /\ Unseen'
    <3> DEFINE b == bad \cup skipped
    <3>1. /\ DOMAIN before \subseteq Paths /\ b \in SUBSET DOMAIN before
          /\ \A p \in DOMAIN before \ b : before[p] \in States(p)
      BY DEF IInv, Typed, CallsTyped
    <3>2. manifest \in [Ids -> Manifests] /\ FilesTyped
      BY DEF IInv, Typed, HistoryTyped
    <3>3. manifest' = [manifest EXCEPT ![pending[c].id] = Recorded(manifest[pending[c].id], before, b)]
      BY <2>3
    <3>4. unseen' = unseen \ Changed(before, b)
      BY <2>3
    <3> HIDE DEF b, before, skipped
    <3>5. \A m \in Manifests :
            /\ Recorded(m, before, b) \in Manifests
            /\ \A p \in Paths \ Changed(before, b) : Recorded(m, before, b).chain[p] = m.chain[p]
      <4> SUFFICES ASSUME NEW m \in Manifests
                   PROVE  /\ Recorded(m, before, b) \in Manifests
                          /\ \A p \in Paths \ Changed(before, b) : Recorded(m, before, b).chain[p] = m.chain[p]
        OBVIOUS
      <4>1. /\ Recorded(m, before, b) \in Manifests
            /\ \A p \in Paths : Recorded(m, before, b).chain[p] =
                 IF p \in Changed(before, b)
                 THEN Append(m.chain[p], [before |-> before[p], after |-> file[p]]) ELSE m.chain[p]
        BY <3>1, <3>2, Records
      <4> QED BY <4>1
    <3>6. manifest' \in [Ids -> Manifests]
      BY <3>2, <3>3, <3>5
    <3>7. \A p \in Paths \ Changed(before, b) : \A t \in Ids : manifest'[t].chain[p] = manifest[t].chain[p]
      BY <3>2, <3>3, <3>5
    <3>8. unseen' \subseteq Paths \ Changed(before, b) /\ unseen' \subseteq unseen
      BY <3>2, <3>4 DEF FilesTyped
    <3> QED BY <2>1, <3>6, <3>7, <3>8, ManifestsChange
  <2>4. CASE Note({"unknown"}) /\ unseen' = unseen
    <3>1. {"unknown"} \in SUBSET Marks
      BY DEF Marks
    <3> QED BY <2>1, <2>4, <3>1, Notes, ManifestsChange DEF IInv, Typed
  <2>5. CASE manifest' = manifest /\ unseen' = unseen
    BY <2>1, <2>5, HistoryKept
  <2> QED BY <2>2, <2>3, <2>4, <2>5
<1>4. ASSUME FinishTurn PROVE HistoryTyped' /\ Unseen'
  <2>1. UNCHANGED <<order, tx, file, unseen>>
    BY <1>4 DEF FinishTurn, ghosts
  <2>2. CASE manifest' = manifest
    BY <2>1, <2>2, HistoryKept
  <2>3. CASE manifest' = [manifest EXCEPT ![active] = Finalized(active)]
    <3>1. active \in Ids /\ HistoryTyped /\ CallsTyped
      BY <1>4 DEF FinishTurn, IInv, Typed, CountsTyped, Ids
    <3>2. Finalized(active) \in Manifests /\ Finalized(active).chain = manifest[active].chain
      BY <3>1, Finalizes
    <3>3. manifest' \in [Ids -> Manifests] /\ \A t \in Ids : manifest'[t].chain = manifest[t].chain
      BY <2>3, <3>1, <3>2 DEF HistoryTyped
    <3> QED BY <2>1, <3>3, ManifestsChange
  <2> QED BY <1>4, <2>2, <2>3 DEF FinishTurn
<1>5. ASSUME AskTurn PROVE HistoryTyped' /\ Unseen'
  BY <1>5, AcquireHistory DEF AskTurn
<1>6. ASSUME NEW t \in Ids, NEW retain \in BOOLEAN, AskRestore(t, retain) PROVE HistoryTyped' /\ Unseen'
  BY <1>6, AcquireHistory DEF AskRestore
<1>7. ASSUME NEW t \in Ids, Retry(t) PROVE HistoryTyped' /\ Unseen'
  BY <1>7, AcquireHistory DEF Retry
<1>8. ASSUME NEW t \in Ids, AskCut(t) PROVE HistoryTyped' /\ Unseen'
  BY <1>8, AcquireHistory DEF AskCut
<1>9. ASSUME Start PROVE HistoryTyped' /\ Unseen'
  BY <1>9, AcquireHistory DEF Start
<1>10. ASSUME RecoverFinished PROVE HistoryTyped' /\ Unseen'
  BY <1>10, HistoryKept DEF RecoverFinished, ghosts, disk
<1>11. ASSUME RecoverCommitted PROVE HistoryTyped' /\ Unseen'
  BY <1>11, HistoryKept DEF RecoverCommitted, ghosts, disk
<1>12. ASSUME RecoverAgain PROVE HistoryTyped' /\ Unseen'
  BY <1>12, HistoryKept DEF RecoverAgain, ghosts, disk
<1>13. ASSUME BeginTurn PROVE HistoryTyped' /\ Unseen'
  <2>1. /\ UNCHANGED <<tx, file, unseen>> /\ order' = Append(order, turns + 1)
        /\ manifest' = [manifest EXCEPT ![turns + 1] = Opened]
    BY <1>13 DEF BeginTurn, ghosts
  <2>2. turns + 1 \in Ids
    <3>1. op # NoOp /\ op.purpose = "begin"
      BY <1>13 DEF BeginTurn, Recovered, At, NoOp
    <3> QED BY <3>1 DEF IInv, Aims, Typed, CountsTyped, Ids
  <2>3. manifest' \in [Ids -> Manifests] /\ order' \in Seq(Ids)
    BY <2>1, <2>2, Blanks DEF IInv, Typed, HistoryTyped
  <2>4. \A p \in Paths : \A t \in Ids : manifest'[t].chain[p] \in {manifest[t].chain[p], << >>}
    BY <2>1, Blanks DEF IInv, Typed, HistoryTyped
  <2>5. \A p \in unseen' : p \in Paths /\ EndsOf(manifest', p) \subseteq Left(p)
    BY <2>1, <2>4, EndsShrink, LeftHolds DEF IInv, Typed, FilesTyped
  <2>6. Unseen'
    BY <2>1, <2>5, LeftHolds, UnseenKept
  <2> QED BY <2>1, <2>3, <2>6 DEF IInv, Typed, HistoryTyped
<1>14. ASSUME LetGo PROVE HistoryTyped' /\ Unseen'
  BY <1>14, HistoryKept DEF LetGo, ghosts, disk
<1>15. ASSUME PlanRestore PROVE HistoryTyped' /\ Unseen'
  <2>1. UNCHANGED <<order, tx, file, unseen>>
    BY <1>15 DEF PlanRestore, ghosts
  <2>2. manifest' = manifest \/ FinalizesSelected
    BY <1>15 DEF PlanRestore
  <2>3. CASE manifest' = manifest
    BY <2>1, <2>3, HistoryKept
  <2>4. CASE FinalizesSelected
    <3>1. PICK open : manifest' = [t \in Ids |-> IF t \in open THEN Finalized(t) ELSE manifest[t]]
      BY <2>4 DEF FinalizesSelected
    <3>2. \A t \in Ids : Finalized(t) \in Manifests /\ Finalized(t).chain = manifest[t].chain
      BY Finalizes DEF IInv, Typed
    <3>3. manifest' \in [Ids -> Manifests] /\ \A t \in Ids : manifest'[t].chain = manifest[t].chain
      BY <3>1, <3>2 DEF IInv, Typed, HistoryTyped
    <3> QED BY <2>1, <3>3, ManifestsChange
  <2> QED BY <2>2, <2>3, <2>4
<1>16. ASSUME NEW p \in Paths, CheckFile(p) PROVE HistoryTyped' /\ Unseen'
  BY <1>16, HistoryKept DEF CheckFile, ghosts, disk
<1>17. ASSUME NEW p \in Paths, RenameFile(p) PROVE HistoryTyped' /\ Unseen'
  <2>1. UNCHANGED <<order, manifest, tx>>
    BY <1>17 DEF RenameFile, disk
  <2>2. \/ file' = [file EXCEPT ![p] = PutBack(p)] /\ unseen' = unseen \ {p}
        \/ file' = file /\ unseen' = unseen
    BY <1>17 DEF RenameFile
  <2>3. unseen' \subseteq unseen /\ \A q \in unseen' : file'[q] = file[q]
    BY <2>2 DEF IInv, Typed, FilesTyped
  <2>4. Unseen'
    BY <2>1, <2>3, LeftHolds, UnseenKept
  <2> QED BY <2>1, <2>4 DEF IInv, Typed, HistoryTyped
<1>18. ASSUME CommitRestore PROVE HistoryTyped' /\ Unseen'
  <2>1. UNCHANGED <<order, manifest, file>>
    BY <1>18 DEF CommitRestore
  <2>2. CASE tx' = tx /\ unseen' = unseen
    BY <2>1, <2>2, HistoryKept
  <2>3. CASE tx' = NextBranch /\ unseen' = unseen \ {p \in Paths : \E t \in Ids : TakesOver(t, p)}
    <3>1. HistoryTyped /\ WorkTyped /\ op # NoOp
      BY <1>18 DEF IInv, Typed, CommitRestore, Reports, At, NoOp
    <3>2. HistoryTyped'
      BY <2>1, <2>3, <3>1, Branches DEF HistoryTyped
    <3>3. \A p \in unseen' : p \in Paths /\ p \in unseen /\ \A t \in Ids : ~TakesOver(t, p)
      BY <2>3 DEF IInv, Typed, FilesTyped
    <3>4. \A p \in unseen' : EndsOf(tx'.manifest, p) \subseteq Left(p)
      BY <2>3, <3>1, <3>3, Branches, LeftHolds
    <3>5. Unseen'
      BY <2>1, <3>3, <3>4, LeftHolds, UnseenKept
    <3> QED BY <3>2, <3>5
  <2> QED BY <1>18, <2>2, <2>3 DEF CommitRestore
<1>19. ASSUME ApplyRestore PROVE HistoryTyped' /\ Unseen'
  <2>1. tx # NoTx
    BY <1>19 DEF ApplyRestore, At, NoOp, IInv, Aims
  <2> QED BY <1>19, <2>1, TxSettles DEF ApplyRestore
<1>20. ASSUME CloseRestore PROVE HistoryTyped' /\ Unseen'
  BY <1>20, HistoryKept DEF CloseRestore, ghosts, disk
<1>21. ASSUME CloseRecovered PROVE HistoryTyped' /\ Unseen'
  BY <1>21, HistoryKept DEF CloseRecovered, ghosts, disk
<1>22. ASSUME CutBranch PROVE HistoryTyped' /\ Unseen'
  <2> DEFINE gone == Since(op.asked)
             kept == Kept(op.asked)
             open == IF kept = << >> THEN {} ELSE gone \cup {Last(kept)}
             next == IF kept = << >> THEN [t \in Ids |-> IF t \in gone THEN Blank ELSE manifest[t]]
                     ELSE Folded(manifest', kept, gone)
  <2>1. UNCHANGED <<order, file, unseen>> /\ manifest' = Finalizing(open) /\ op.asked \in Range(order)
        /\ (tx' = tx \/ (tx'.order = kept /\ tx'.manifest = next))
    BY <1>22 DEF CutBranch, ghosts
  <2>2. HistoryTyped /\ CallsTyped /\ \A p \in unseen' : p \in Paths /\ p \in unseen
    BY <2>1 DEF IInv, Typed, FilesTyped
  <2>3. \A t \in Ids : Finalized(t) \in Manifests /\ Finalized(t).chain = manifest[t].chain
    BY <2>2, Finalizes
  <2>4. manifest' \in [Ids -> Manifests] /\ \A t \in Ids : manifest'[t].chain = manifest[t].chain
    BY <2>1, <2>2, <2>3 DEF Finalizing, HistoryTyped
  <2>5. \A p : EndsOf(manifest', p) \subseteq EndsOf(manifest, p)
    BY <2>4, EndsShrink
  <2>6. kept \in Seq(Ids)
    BY <2>2, SlicesAre
  <2>7. next \in [Ids -> Manifests] /\ \A p \in Paths : EndsOf(next, p) \subseteq EndsOf(manifest, p)
    <3>1. CASE kept = << >>
      <4> DEFINE n == [t \in Ids |-> IF t \in gone THEN Blank ELSE manifest[t]]
      <4>1. next = n
        BY <3>1
      <4>2. n \in [Ids -> Manifests]
            /\ \A p \in Paths : \A t \in Ids : n[t].chain[p] \in {manifest[t].chain[p], << >>}
        BY <2>2, Blanks DEF HistoryTyped
      <4> HIDE DEF n, next
      <4> QED BY <4>1, <4>2, EndsShrink
    <3>2. CASE kept # << >>
      <4>1. next = Folded(manifest', kept, gone)
        BY <3>2
      <4> HIDE DEF next, kept
      <4>2. /\ Folded(manifest', kept, gone) \in [Ids -> Manifests]
            /\ \A p \in Paths : EndsOf(Folded(manifest', kept, gone), p) \subseteq EndsOf(manifest', p)
        BY <2>1, <2>2, <2>4, <2>6, <3>2, Folds
      <4> QED BY <2>5, <4>1, <4>2
    <3> QED BY <3>1, <3>2
  <2> HIDE DEF gone, kept, open, next
  <2>8. HistoryTyped'
    BY <2>1, <2>2, <2>4, <2>6, <2>7 DEF HistoryTyped
  <2>9. \A p \in unseen' : /\ EndsOf(manifest', p) \subseteq Left(p)
                           /\ tx' = NoTx \/ EndsOf(tx'.manifest, p) \subseteq Left(p)
    BY <2>1, <2>2, <2>5, <2>7, LeftHolds
  <2>10. Unseen'
    BY <2>1, <2>2, <2>9, UnseenKept
  <2> QED BY <2>8, <2>10
<1>23. ASSUME ApplyCut PROVE HistoryTyped' /\ Unseen'
  <2>1. tx # NoTx
    BY <1>23 DEF ApplyCut, At, NoOp, IInv, Aims
  <2> QED BY <1>23, <2>1, TxSettles DEF ApplyCut
<1>24. ASSUME NEW p \in Paths, HandEdit(p) PROVE HistoryTyped' /\ Unseen'
  <2>1. /\ UNCHANGED <<order, manifest, tx>> /\ \E s : file' = [file EXCEPT ![p] = s]
        /\ unseen' = IF file'[p] \in Left(p) THEN unseen \ {p} ELSE unseen \cup {p}
    BY <1>24 DEF HandEdit, disk
  <2>2. ASSUME NEW q \in unseen' PROVE file'[q] \notin Left(q)
    <3>1. CASE q = p
      BY <2>1, <2>2, <3>1
    <3>2. CASE q # p
      <4>1. q \in unseen /\ file'[q] = file[q]
        BY <2>1, <2>2, <3>2 DEF IInv, Typed, FilesTyped
      <4> QED BY <4>1 DEF IInv, Unseen
    <3> QED BY <3>1, <3>2
  <2>3. Unseen'
    <3>1. \A q : Left(q)' = Left(q)
      BY <2>1, LeftAfter DEF Left
    <3> QED BY <2>2, <3>1 DEF Unseen
  <2> QED BY <2>1, <2>3 DEF IInv, Typed, HistoryTyped
<1>25. ASSUME Crash PROVE HistoryTyped' /\ Unseen'
  BY <1>25, HistoryKept DEF Crash, ghosts, disk
<1> QED
  BY <1>1, <1>2, <1>3, <1>4, <1>5, <1>6, <1>7, <1>8, <1>9, <1>10, <1>11, <1>12, <1>13,
     <1>14, <1>15, <1>16, <1>17, <1>18, <1>19, <1>20, <1>21, <1>22, <1>23, <1>24,
     <1>25 DEF Next

LEMMA CallsKept ==
  ASSUME IInv, UNCHANGED <<pending, flying>>
  PROVE  CallsTyped'
BY DEF IInv, Typed, CallsTyped

LEMMA Forgets ==
  ASSUME CallsTyped, NEW ts, pending' = Without(ts), UNCHANGED flying
  PROVE  CallsTyped'
<1>1. DOMAIN NoCall.before = {} /\ NoCall.id = 0
  BY DEF NoCall
<1>2. \A c \in Calls : pending'[c] \in {NoCall, pending[c]}
  BY DEF Without
<1>3. DOMAIN pending' = Calls
  BY DEF Without
<1> QED BY <1>1, <1>2, <1>3 DEF CallsTyped

LEMMA CallsStep ==
  ASSUME IInv, Next
  PROVE  CallsTyped'
<1>1. ASSUME NEW c \in Calls, NEW ps \in Targets, CallPre(c, ps) PROVE CallsTyped'
  <2>1. DOMAIN flying' = Calls
    BY <1>1 DEF CallPre, IInv, Typed, CallsTyped
  <2>2. CASE pending' = pending
    BY <2>1, <2>2 DEF IInv, Typed, CallsTyped
  <2>3. CASE Announces(c, ps)
    <3>1. PICK kept \in SUBSET ps :
            pending' = [pending EXCEPT ![c] =
              [id |-> active, before |-> [p \in ps |-> IF p \in kept THEN file[p] ELSE Skipped]]]
      BY <2>3 DEF Announces
    <3> DEFINE b == [p \in ps |-> IF p \in kept THEN file[p] ELSE Skipped]
    <3>2. DOMAIN b \subseteq Paths
      BY DEF RestoreAssumption
    <3>3. \A p \in DOMAIN b : b[p] \in States(p) \cup {Skipped}
      BY <3>2 DEF IInv, Typed, FilesTyped
    <3>4. active \in 0 .. MaxTurns
      BY DEF IInv, Typed, CountsTyped
    <3>5. pending' = [pending EXCEPT ![c] = [id |-> active, before |-> b]]
      BY <3>1
    <3> HIDE DEF b
    <3> QED BY <2>1, <3>2, <3>3, <3>4, <3>5 DEF IInv, Typed, CallsTyped
  <2> QED BY <1>1, <2>2, <2>3 DEF CallPre
<1>2. ASSUME NEW c \in Calls, NEW p \in Paths, ToolWrites(c, p) PROVE CallsTyped'
  <2>1. pending' = pending /\ DOMAIN flying' = DOMAIN flying
    BY <1>2 DEF ToolWrites, disk
  <2> QED BY <2>1 DEF IInv, Typed, CallsTyped
<1>3. ASSUME NEW c \in Calls, CallAfter(c) PROVE CallsTyped'
  <2>1. DOMAIN flying' = DOMAIN flying /\ (pending' = pending \/ pending' = [pending EXCEPT ![c] = NoCall])
    BY <1>3 DEF CallAfter
  <2>2. DOMAIN NoCall.before = {} /\ NoCall.id = 0
    BY DEF NoCall
  <2> QED BY <2>1, <2>2 DEF IInv, Typed, CallsTyped
<1>4. ASSUME FinishTurn PROVE CallsTyped'
  <2>1. UNCHANGED flying /\ (pending' = pending \/ pending' = Without({active}))
    BY <1>4 DEF FinishTurn
  <2> QED BY <2>1, CallsKept, Forgets DEF IInv, Typed
<1>5. ASSUME AskTurn PROVE CallsTyped'
  BY <1>5, CallsKept DEF AskTurn, Acquire, disk, memory
<1>6. ASSUME NEW t \in Ids, NEW retain \in BOOLEAN, AskRestore(t, retain) PROVE CallsTyped'
  BY <1>6, CallsKept DEF AskRestore, Acquire, disk, memory
<1>7. ASSUME NEW t \in Ids, Retry(t) PROVE CallsTyped'
  BY <1>7, CallsKept DEF Retry, Acquire, disk, memory
<1>8. ASSUME NEW t \in Ids, AskCut(t) PROVE CallsTyped'
  BY <1>8, CallsKept DEF AskCut, Acquire, disk, memory
<1>9. ASSUME Start PROVE CallsTyped'
  BY <1>9, CallsKept DEF Start, Acquire, disk, memory
<1>10. ASSUME RecoverFinished PROVE CallsTyped'
  BY <1>10, CallsKept DEF RecoverFinished, disk, memory
<1>11. ASSUME RecoverCommitted PROVE CallsTyped'
  BY <1>11, CallsKept DEF RecoverCommitted, disk, memory
<1>12. ASSUME RecoverAgain PROVE CallsTyped'
  BY <1>12, CallsKept DEF RecoverAgain, disk, memory
<1>13. ASSUME BeginTurn PROVE CallsTyped'
  BY <1>13, CallsKept DEF BeginTurn, disk, memory
<1>14. ASSUME LetGo PROVE CallsTyped'
  BY <1>14, CallsKept DEF LetGo, disk, memory
<1>15. ASSUME PlanRestore PROVE CallsTyped'
  <2>1. UNCHANGED flying /\ (pending' = pending \/ \E ts : pending' = Without(ts))
    BY <1>15 DEF PlanRestore, FinalizesSelected
  <2> QED BY <2>1, CallsKept, Forgets DEF IInv, Typed
<1>16. ASSUME NEW p \in Paths, CheckFile(p) PROVE CallsTyped'
  BY <1>16, CallsKept DEF CheckFile, disk, memory
<1>17. ASSUME NEW p \in Paths, RenameFile(p) PROVE CallsTyped'
  BY <1>17, CallsKept DEF RenameFile, disk, memory
<1>18. ASSUME CommitRestore PROVE CallsTyped'
  BY <1>18, CallsKept DEF CommitRestore, disk, memory
<1>19. ASSUME ApplyRestore PROVE CallsTyped'
  BY <1>19, CallsKept DEF ApplyRestore, disk, memory
<1>20. ASSUME CloseRestore PROVE CallsTyped'
  BY <1>20, CallsKept DEF CloseRestore, disk, memory
<1>21. ASSUME CloseRecovered PROVE CallsTyped'
  BY <1>21, CallsKept DEF CloseRecovered, disk, memory
<1>22. ASSUME CutBranch PROVE CallsTyped'
  <2>1. UNCHANGED flying /\ \E ts : pending' = Without(ts)
    BY <1>22 DEF CutBranch, memory
  <2> QED BY <2>1, Forgets DEF IInv, Typed
<1>23. ASSUME ApplyCut PROVE CallsTyped'
  BY <1>23, CallsKept DEF ApplyCut, disk, memory
<1>24. ASSUME NEW p \in Paths, HandEdit(p) PROVE CallsTyped'
  BY <1>24, CallsKept DEF HandEdit, disk, memory
<1>25. ASSUME Crash PROVE CallsTyped'
  <2>1. pending' = pending /\ flying' = [c \in Calls |-> {}]
    BY <1>25 DEF Crash
  <2> QED BY <2>1 DEF IInv, Typed, CallsTyped
<1> QED
  BY <1>1, <1>2, <1>3, <1>4, <1>5, <1>6, <1>7, <1>8, <1>9, <1>10, <1>11, <1>12, <1>13,
     <1>14, <1>15, <1>16, <1>17, <1>18, <1>19, <1>20, <1>21, <1>22, <1>23, <1>24,
     <1>25 DEF Next

LEMMA CountsKept ==
  ASSUME IInv, UNCHANGED <<turns, active, life, required, half>>
  PROVE  CountsTyped'
BY DEF IInv, Typed, CountsTyped

LEMMA AcquireCounts ==
  ASSUME IInv, NEW purpose, NEW t, NEW retain, Acquire(purpose, t, retain)
  PROVE  active' = active /\ half' \subseteq half
BY DEF Acquire, AppliesTx, TxFails

LEMMA JournalsAre ==
  ASSUME IInv, NEW j \in Range(journals)
  PROVE  j \in Journal /\ j.target \in Ids
<1>1. journals \in Seq(Journal)
  BY DEF IInv, Typed, WorkTyped
<1>2. j \in Journal
  BY <1>1 DEF Range
<1> QED BY <1>2 DEF Journal

\* A restore, and the recovery of one, is about a turn.
LEMMA AimIsTurn ==
  ASSUME IInv, op # NoOp, op.nested \/ op.pc = "plan" \/ Planned
  PROVE  op.target \in Ids
<1>1. journals \in Seq(Journal) /\ op \in Ops
  BY DEF IInv, Typed, WorkTyped
<1>2. CASE op.nested
  <2>1. op.at <= op.upto /\ op.upto <= Len(journals) /\ journals[op.at].target = op.target
    BY <1>2 DEF IInv, Logged
  <2>2. op.at \in 1 .. Len(journals)
    BY <1>1, <2>1 DEF Ops
  <2>3. journals[op.at] \in Journal
    BY <1>1, <2>2
  <2> QED BY <2>1, <2>3 DEF Journal
<1>3. CASE op.pc = "plan"
  BY <1>2, <1>3 DEF IInv, Aims
<1>4. CASE Planned
  <2>1. op.journal \in DOMAIN journals /\ journals[op.journal].target = op.target
    BY <1>4 DEF IInv, Logged
  <2>2. journals[op.journal] \in Journal
    BY <1>1, <2>1
  <2> QED BY <2>1, <2>2 DEF Journal
<1> QED BY <1>2, <1>3, <1>4

LEMMA CountsStep ==
  ASSUME IInv, Next
  PROVE  CountsTyped'
<1>1. ASSUME NEW c \in Calls, NEW ps \in Targets, CallPre(c, ps) PROVE CountsTyped'
  BY <1>1, CountsKept DEF CallPre, Announces, Note, disk, memory, ghosts, counts
<1>2. ASSUME NEW c \in Calls, NEW p \in Paths, ToolWrites(c, p) PROVE CountsTyped'
  BY <1>2, CountsKept DEF ToolWrites, disk, memory, ghosts, counts
<1>3. ASSUME NEW c \in Calls, CallAfter(c) PROVE CountsTyped'
  BY <1>3, CountsKept DEF CallAfter, Note, disk, memory, ghosts, counts
<1>4. ASSUME FinishTurn PROVE CountsTyped'
  BY <1>4 DEF FinishTurn, ghosts, IInv, Typed, CountsTyped
<1>5. ASSUME AskTurn PROVE CountsTyped'
  BY <1>5, AcquireCounts DEF AskTurn, IInv, Typed, CountsTyped
<1>6. ASSUME NEW t \in Ids, NEW retain \in BOOLEAN, AskRestore(t, retain) PROVE CountsTyped'
  BY <1>6, AcquireCounts DEF AskRestore, IInv, Typed, CountsTyped
<1>7. ASSUME NEW t \in Ids, Retry(t) PROVE CountsTyped'
  BY <1>7, AcquireCounts DEF Retry, IInv, Typed, CountsTyped
<1>8. ASSUME NEW t \in Ids, AskCut(t) PROVE CountsTyped'
  BY <1>8, AcquireCounts DEF AskCut, IInv, Typed, CountsTyped
<1>9. ASSUME Start PROVE CountsTyped'
  BY <1>9, AcquireCounts DEF Start, IInv, Typed, CountsTyped
<1>10. ASSUME RecoverFinished PROVE CountsTyped'
  <2>1. PICK j \in Range(journals) : required' \in {required, required \cup {j.target}, required \ {j.target}}
    BY <1>10 DEF RecoverFinished
  <2>2. UNCHANGED <<turns, active, half>> /\ life' \in {"down", life}
    BY <1>10 DEF RecoverFinished, Failed, ghosts
  <2>3. j.target \in Ids
    BY JournalsAre
  <2> QED BY <2>1, <2>2, <2>3 DEF IInv, Typed, CountsTyped
<1>11. ASSUME RecoverCommitted PROVE CountsTyped'
  BY <1>11 DEF RecoverCommitted, Failed, ghosts, IInv, Typed, CountsTyped
<1>12. ASSUME RecoverAgain PROVE CountsTyped'
  BY <1>12, CountsKept DEF RecoverAgain, disk, memory, ghosts, counts
<1>13. ASSUME BeginTurn PROVE CountsTyped'
  <2>1. op # NoOp /\ op.purpose = "begin"
    BY <1>13 DEF BeginTurn, Recovered, At, NoOp
  <2>2. turns < MaxTurns
    BY <2>1 DEF IInv, Aims
  <2>3. turns' = turns + 1 /\ active' = turns + 1 /\ UNCHANGED <<life, required, half>>
    BY <1>13 DEF BeginTurn, ghosts
  <2> QED BY <2>2, <2>3 DEF IInv, Typed, CountsTyped
<1>14. ASSUME LetGo PROVE CountsTyped'
  BY <1>14, CountsKept DEF LetGo, disk, memory, ghosts, counts
<1>15. ASSUME PlanRestore PROVE CountsTyped'
  <2>1. UNCHANGED <<turns, active, half>> /\ life' \in {"down", life}
        /\ (required' = required \/ (op.nested /\ required' = required \cup {op.target}))
    BY <1>15 DEF PlanRestore, RaisesOut, Failed, ghosts
  <2>2. op.nested => op.target \in Ids
    BY <1>15, AimIsTurn DEF PlanRestore, Recovered, At, NoOp
  <2> QED BY <2>1, <2>2 DEF IInv, Typed, CountsTyped
<1>16. ASSUME NEW p \in Paths, CheckFile(p) PROVE CountsTyped'
  BY <1>16, CountsKept DEF CheckFile, disk, memory, ghosts, counts
<1>17. ASSUME NEW p \in Paths, RenameFile(p) PROVE CountsTyped'
  <2>1. UNCHANGED <<turns, active, life, required>> /\ half' \subseteq half \cup {op.target}
    BY <1>17 DEF RenameFile, memory
  <2>2. op.target \in Ids
    BY <1>17, AimIsTurn DEF RenameFile, At, NoOp, Planned
  <2> QED BY <2>1, <2>2 DEF IInv, Typed, CountsTyped
<1>18. ASSUME CommitRestore PROVE CountsTyped'
  <2>1. UNCHANGED <<turns, active, life, half>> /\ required' \subseteq required \cup {op.target}
    BY <1>18 DEF CommitRestore
  <2>2. op.target \in Ids
    BY <1>18, AimIsTurn DEF CommitRestore, Reports, At, NoOp, Planned
  <2> QED BY <2>1, <2>2 DEF IInv, Typed, CountsTyped
<1>19. ASSUME ApplyRestore PROVE CountsTyped'
  <2>1. UNCHANGED <<turns, active, life>> /\ half' \subseteq half /\ required' \subseteq required \cup {op.target}
    BY <1>19 DEF ApplyRestore, AppliesTx, TxFails
  <2>2. op.target \in Ids
    BY <1>19, AimIsTurn DEF ApplyRestore, At, NoOp, Planned
  <2> QED BY <2>1, <2>2 DEF IInv, Typed, CountsTyped
<1>20. ASSUME CloseRestore PROVE CountsTyped'
  <2>1. UNCHANGED <<turns, active, life>> /\ half' \subseteq half /\ required' \subseteq required
    BY <1>20 DEF CloseRestore
  <2> QED BY <2>1 DEF IInv, Typed, CountsTyped
<1>21. ASSUME CloseRecovered PROVE CountsTyped'
  <2>1. UNCHANGED <<turns, active>> /\ half' \subseteq half /\ required' \subseteq required \cup {op.target}
        /\ life' \in {"down", life}
    BY <1>21 DEF CloseRecovered
  <2>2. op.target \in Ids
    BY <1>21, AimIsTurn DEF CloseRecovered, At, NoOp, Planned
  <2> QED BY <2>1, <2>2 DEF IInv, Typed, CountsTyped
<1>22. ASSUME CutBranch PROVE CountsTyped'
  BY <1>22, CountsKept DEF CutBranch, disk, memory, ghosts, counts
<1>23. ASSUME ApplyCut PROVE CountsTyped'
  <2>1. UNCHANGED <<turns, active, life, required>> /\ half' \subseteq half
    BY <1>23 DEF ApplyCut, AppliesTx, TxFails, memory
  <2> QED BY <2>1 DEF IInv, Typed, CountsTyped
<1>24. ASSUME NEW p \in Paths, HandEdit(p) PROVE CountsTyped'
  BY <1>24, CountsKept DEF HandEdit, disk, memory, ghosts, counts
<1>25. ASSUME Crash PROVE CountsTyped'
  BY <1>25 DEF Crash, ghosts, IInv, Typed, CountsTyped
<1> QED
  BY <1>1, <1>2, <1>3, <1>4, <1>5, <1>6, <1>7, <1>8, <1>9, <1>10, <1>11, <1>12, <1>13,
     <1>14, <1>15, <1>16, <1>17, <1>18, <1>19, <1>20, <1>21, <1>22, <1>23, <1>24,
     <1>25 DEF Next

LEMMA WorkKept ==
  ASSUME IInv, UNCHANGED <<journals, op>>
  PROVE  WorkTyped'
BY DEF IInv, Typed, WorkTyped

LEMMA OpIs ==
  ASSUME IInv, op # NoOp
  PROVE  /\ op \in Ops /\ op.restored \in Partial /\ journals \in Seq(Journal)
         /\ \A p \in DOMAIN op.restored : p \in Paths /\ op.restored[p] \in States(p)
<1>1. op \in Ops /\ \A p \in DOMAIN op.restored : op.restored[p] \in States(p)
  BY DEF IInv, Typed, WorkTyped
<1>2. op.restored \in Partial
  BY <1>1 DEF Ops, Steps
<1>3. DOMAIN op.restored \subseteq Paths
  BY <1>2 DEF Partial
<1> QED BY <1>1, <1>2, <1>3 DEF IInv, Typed, WorkTyped

\* The operation ends, or goes on with the same files restored.
LEMMA WorkGoesOn ==
  ASSUME IInv, op # NoOp, journals' \in Seq(Journal),
         op' = NoOp \/ (op' \in Ops /\ op'.restored = op.restored)
  PROVE  WorkTyped'
BY OpIs DEF WorkTyped

LEMMA LiveTyped ==
  ASSUME IInv
  PROVE  journals \in Seq(Journal) /\ Live(journals) \in Seq(Journal)
BY LiveIs DEF IInv, Typed, WorkTyped

LEMMA PartialHolds ==
  ASSUME NEW D \in SUBSET Paths, NEW r \in [D -> AnyState]
  PROVE  r \in Partial
BY DEF Partial

\* The forms in which the operation goes on.
LEMMA ReturnsTyped ==
  ASSUME op \in Ops, Returns
  PROVE  op' \in Ops /\ op'.restored = op.restored
<1> DEFINE n == op.at + 1
           a == op.asked
           k == op.keep
<1>1. n \in Nat \ {0} /\ a \in 0 .. MaxTurns /\ k \in BOOLEAN
  BY DEF Ops
<1>2. op' = [op EXCEPT !.pc = "recover", !.at = n, !.nested = FALSE, !.target = a, !.retain = k]
  BY DEF Returns
<1> HIDE DEF n, a, k
<1>3. [op EXCEPT !.pc = "recover", !.at = n, !.nested = FALSE, !.target = a, !.retain = k] \in Ops
  BY <1>1 DEF Ops, Steps
<1>4. op'.restored = op.restored
  BY <1>2 DEF Ops
<1> QED BY <1>2, <1>3, <1>4

LEMMA SwapTyped ==
  ASSUME op \in Ops, NEW p \in Paths
  PROVE  /\ [op EXCEPT !.pc = "rename", !.cur = p, !.todo = @ \ {p}, !.raced = FALSE] \in Ops
         /\ [op EXCEPT !.todo = @ \ {p}, !.skipped = @ \cup {p}] \in Ops
         /\ [op EXCEPT !.todo = {}, !.skipped = @ \cup op.todo, !.writable = FALSE] \in Ops
<1>1. [op EXCEPT !.pc = "rename", !.cur = p, !.todo = @ \ {p}, !.raced = FALSE] \in Ops
  BY DEF Ops, Steps
<1>2. [op EXCEPT !.todo = @ \ {p}, !.skipped = @ \cup {p}] \in Ops
  BY DEF Ops, Marks
<1>3. [op EXCEPT !.todo = {}, !.skipped = @ \cup op.todo, !.writable = FALSE] \in Ops
  BY DEF Ops, Marks
<1> QED BY <1>1, <1>2, <1>3

LEMMA RenameTyped ==
  ASSUME op \in Ops, NEW p \in Paths, NEW r \in Partial
  PROVE  /\ [op EXCEPT !.pc = "swap", !.cur = "none", !.raced = FALSE, !.skipped = @ \cup {p}] \in Ops
         /\ [op EXCEPT !.pc = "swap", !.cur = "none", !.raced = FALSE, !.restored = r] \in Ops
         /\ [op EXCEPT !.pc = "swap", !.cur = "none", !.raced = FALSE, !.restored = r,
                       !.todo = {}, !.skipped = @ \cup op.todo, !.warned = TRUE, !.writable = FALSE] \in Ops
<1>1. [op EXCEPT !.pc = "swap", !.cur = "none", !.raced = FALSE, !.skipped = @ \cup {p}] \in Ops
  BY DEF Ops, Steps, Marks
<1>2. [op EXCEPT !.pc = "swap", !.cur = "none", !.raced = FALSE, !.restored = r] \in Ops
  BY DEF Ops, Steps
<1>3. [op EXCEPT !.pc = "swap", !.cur = "none", !.raced = FALSE, !.restored = r,
                 !.todo = {}, !.skipped = @ \cup op.todo, !.warned = TRUE, !.writable = FALSE] \in Ops
  <2> DEFINE S == op.skipped \cup op.todo
  <2>1. S \in SUBSET Marks
    BY DEF Ops, Marks
  <2> HIDE DEF S
  <2>2. [op EXCEPT !.pc = "swap", !.cur = "none", !.raced = FALSE, !.restored = r,
                   !.todo = {}, !.skipped = S, !.warned = TRUE, !.writable = FALSE] \in Ops
    <3>1. {} \in SUBSET Paths /\ "none" \in Paths \cup {"none"} /\ "swap" \in Steps
      BY DEF Steps
    <3> QED BY <2>1, <3>1 DEF Ops
  <2> QED BY <2>2 DEF S
<1> QED BY <1>1, <1>2, <1>3

LEMMA CommitTyped ==
  ASSUME op \in Ops, NEW S \in SUBSET Marks
  PROVE  /\ [op EXCEPT !.pc = "apply", !.skipped = S] \in Ops
         /\ [op EXCEPT !.pc = "close", !.need = TRUE, !.skipped = S] \in Ops
<1>1. [op EXCEPT !.pc = "apply", !.skipped = S] \in Ops
  BY DEF Ops, Steps
<1>2. [op EXCEPT !.pc = "close", !.need = TRUE, !.skipped = S] \in Ops
  BY DEF Ops, Steps
<1> QED BY <1>1, <1>2

LEMMA OwnerTyped ==
  ASSUME NEW purpose \in Purposes, NEW t \in 0 .. MaxTurns,
         NEW retain \in BOOLEAN, journals \in Seq(Journal)
  PROVE  Owner(purpose, t, retain) \in Ops /\ DOMAIN Owner(purpose, t, retain).restored = {}
<1>1. << >> \in [1 .. 0 -> AnyState] /\ DOMAIN << >> = 1 .. 0
  OBVIOUS
<1>2. 1 .. 0 = {} /\ {} \in SUBSET Paths
  OBVIOUS
<1>3. << >> \in Partial
  BY <1>1, <1>2, PartialHolds
<1>4. Len(journals) \in Nat
  OBVIOUS
<1> QED BY <1>1, <1>2, <1>3, <1>4 DEF Owner, Ops, Steps, Purposes, Marks

LEMMA AcquireWork ==
  ASSUME IInv, NEW purpose \in Purposes, NEW t \in 0 .. MaxTurns,
         NEW retain \in BOOLEAN, Acquire(purpose, t, retain)
  PROVE  WorkTyped'
<1>1. journals' = journals /\ op' \in {NoOp, Owner(purpose, t, retain)}
  BY DEF Acquire
<1>2. journals \in Seq(Journal)
  BY DEF IInv, Typed, WorkTyped
<1> QED BY <1>1, <1>2, OwnerTyped DEF WorkTyped

LEMMA EndsTyped ==
  ASSUME IInv, NEW need \in BOOLEAN, Ends(need)
  PROVE  journals' \in Seq(Journal)
<1>1. journals \in Seq(Journal)
  BY DEF IInv, Typed, WorkTyped
<1>2. \A j \in Journal : [j EXCEPT !.finished = TRUE, !.required = need] \in Journal
  BY DEF Journal
<1>3. journals' = [journals EXCEPT ![op.at] = [journals[op.at] EXCEPT !.finished = TRUE, !.required = need]]
  BY DEF Ends
<1>4. CASE op.at \in 1 .. Len(journals)
  <2>1. journals[op.at] \in Journal
    BY <1>1, <1>4
  <2>2. [journals[op.at] EXCEPT !.finished = TRUE, !.required = need] \in Journal
    BY <1>2, <2>1
  <2> QED BY <1>1, <1>3, <1>4, <2>2, ExceptSeq
<1>5. CASE op.at \notin 1 .. Len(journals)
  <2>1. journals' = journals
    BY <1>1, <1>3, <1>5
  <2> QED BY <1>1, <2>1
<1> QED BY <1>4, <1>5

LEMMA ConcludesTyped ==
  ASSUME IInv, op \in Ops
  PROVE  /\ Concludes(journals) \in Seq(Journal) /\ DOMAIN Concludes(journals) = DOMAIN journals
         /\ Cleared(Concludes(journals)) \in Seq(Journal)
         /\ DOMAIN Cleared(Concludes(journals)) = DOMAIN journals
<1> DEFINE js == Concludes(journals)
<1>1. journals \in Seq(Journal) /\ DOMAIN journals = 1 .. Len(journals) /\ Len(journals) \in Nat
  BY DEF IInv, Typed, WorkTyped
<1>2. js = [i \in 1 .. Len(journals) |-> IF i = op.journal
              THEN [journals[i] EXCEPT !.finished = TRUE, !.required = op.need] ELSE journals[i]]
  BY <1>1 DEF Concludes
<1>3. \A j \in Journal : [j EXCEPT !.finished = TRUE, !.required = op.need] \in Journal
  BY DEF Journal, Ops
<1>4. \A i \in 1 .. Len(journals) : journals[i] \in Journal
  BY <1>1
<1>5. js \in Seq(Journal) /\ DOMAIN js = 1 .. Len(journals) /\ Len(js) = Len(journals)
  <2> DEFINE g(i) == IF i = op.journal THEN [journals[i] EXCEPT !.finished = TRUE, !.required = op.need]
                                       ELSE journals[i]
  <2>1. \A i \in 1 .. Len(journals) : g(i) \in Journal
    BY <1>3, <1>4
  <2>2. js = [i \in 1 .. Len(journals) |-> g(i)]
    BY <1>2
  <2> HIDE DEF js, g
  <2> QED BY <1>1, <2>1, <2>2
<1> HIDE DEF js
<1>6. Cleared(js) = [i \in 1 .. Len(journals) |-> IF js[i].target = op.target
                       THEN [js[i] EXCEPT !.required = FALSE] ELSE js[i]]
  BY <1>5 DEF Cleared
<1>7. \A j \in Journal : [j EXCEPT !.required = FALSE] \in Journal
  BY DEF Journal
<1>8. \A i \in 1 .. Len(journals) : js[i] \in Journal
  BY <1>5
<1>9. Cleared(js) \in Seq(Journal) /\ DOMAIN Cleared(js) = 1 .. Len(journals)
  <2> DEFINE g(i) == IF js[i].target = op.target THEN [js[i] EXCEPT !.required = FALSE] ELSE js[i]
  <2>1. \A i \in 1 .. Len(journals) : g(i) \in Journal
    BY <1>7, <1>8
  <2>2. Cleared(js) = [i \in 1 .. Len(journals) |-> g(i)]
    BY <1>6
  <2> HIDE DEF g
  <2> QED BY <1>1, <2>1, <2>2
<1> QED BY <1>1, <1>5, <1>9 DEF js

LEMMA PlansBranch ==
  ASSUME IInv, op # NoOp, PlanRestore
  PROVE  op.target \in Range(order)
BY DEF PlanRestore, Recovered, At, IInv, Aims

LEMMA WorkStep ==
  ASSUME IInv, Next
  PROVE  WorkTyped'
<1>1. ASSUME NEW c \in Calls, NEW ps \in Targets, CallPre(c, ps) PROVE WorkTyped'
  BY <1>1, WorkKept DEF CallPre, Announces, Note, disk
<1>2. ASSUME NEW c \in Calls, NEW p \in Paths, ToolWrites(c, p) PROVE WorkTyped'
  BY <1>2, WorkKept DEF ToolWrites, disk
<1>3. ASSUME NEW c \in Calls, CallAfter(c) PROVE WorkTyped'
  BY <1>3, WorkKept DEF CallAfter, Note, disk
<1>4. ASSUME FinishTurn PROVE WorkTyped'
  <2>1. UNCHANGED <<journals, op>>
    BY <1>4 DEF FinishTurn
  <2> QED BY <2>1, WorkKept
<1>5. ASSUME AskTurn PROVE WorkTyped'
  <2>1. Acquire("begin", 0, FALSE)
    BY <1>5 DEF AskTurn
  <2>2. "begin" \in Purposes /\ 0 \in 0 .. MaxTurns
    BY DEF Purposes, Ids
  <2> QED BY <2>1, <2>2, AcquireWork
<1>6. ASSUME NEW t \in Ids, NEW retain \in BOOLEAN, AskRestore(t, retain) PROVE WorkTyped'
  <2>1. Acquire("restore", t, retain)
    BY <1>6 DEF AskRestore
  <2>2. "restore" \in Purposes /\ t \in 0 .. MaxTurns
    BY DEF Purposes, Ids
  <2> QED BY <2>1, <2>2, AcquireWork
<1>7. ASSUME NEW t \in Ids, Retry(t) PROVE WorkTyped'
  <2>1. Acquire("restore", t, FALSE)
    BY <1>7 DEF Retry
  <2>2. "restore" \in Purposes /\ t \in 0 .. MaxTurns
    BY DEF Purposes, Ids
  <2> QED BY <2>1, <2>2, AcquireWork
<1>8. ASSUME NEW t \in Ids, AskCut(t) PROVE WorkTyped'
  <2>1. Acquire("cut", t, FALSE)
    BY <1>8 DEF AskCut
  <2>2. "cut" \in Purposes /\ t \in 0 .. MaxTurns
    BY DEF Purposes, Ids
  <2> QED BY <2>1, <2>2, AcquireWork
<1>9. ASSUME Start PROVE WorkTyped'
  <2>1. Acquire("start", 0, FALSE)
    BY <1>9 DEF Start
  <2>2. "start" \in Purposes /\ 0 \in 0 .. MaxTurns
    BY DEF Purposes, Ids
  <2> QED BY <2>1, <2>2, AcquireWork
<1>10. ASSUME RecoverFinished PROVE WorkTyped'
  <2>1. op # NoOp /\ op \in Ops
    BY <1>10, OpIs DEF RecoverFinished, LooksAt, At, NoOp
  <2>2. \/ GoesOn /\ UNCHANGED journals
        \/ GoesOn /\ Ends(FALSE)
        \/ Release
    BY <1>10 DEF RecoverFinished, Failed
  <2>3. GoesOn => op' \in Ops /\ op'.restored = op.restored
    BY <2>1 DEF GoesOn, Ops
  <2> QED BY <2>1, <2>2, <2>3, LiveTyped, EndsTyped, WorkGoesOn DEF Release
<1>11. ASSUME RecoverCommitted PROVE WorkTyped'
  <2>1. op # NoOp /\ op \in Ops
    BY <1>11, OpIs DEF RecoverCommitted, LooksAt, At, NoOp
  <2>2. \/ GoesOn /\ UNCHANGED journals
        \/ GoesOn /\ Ends(FALSE)
        \/ Release
    BY <1>11 DEF RecoverCommitted, Failed
  <2>3. GoesOn => op' \in Ops /\ op'.restored = op.restored
    BY <2>1 DEF GoesOn, Ops
  <2> QED BY <2>1, <2>2, <2>3, LiveTyped, EndsTyped, WorkGoesOn DEF Release
<1>12. ASSUME RecoverAgain PROVE WorkTyped'
  <2>1. op # NoOp /\ op \in Ops /\ journals' = journals
    BY <1>12, OpIs DEF RecoverAgain, LooksAt, At, NoOp, disk
  <2>2. PICK j \in Range(journals) :
          op' = [op EXCEPT !.pc = "plan", !.nested = TRUE, !.target = j.target, !.retain = j.retain]
    BY <1>12 DEF RecoverAgain
  <2>3. j.target \in 0 .. MaxTurns /\ j.retain \in BOOLEAN
    BY JournalsAre DEF Journal, Ids
  <2>4. op' \in Ops /\ op'.restored = op.restored
    BY <2>1, <2>2, <2>3 DEF Ops, Steps
  <2> QED BY <2>1, <2>4, LiveTyped, WorkGoesOn
<1>13. ASSUME BeginTurn PROVE WorkTyped'
  <2>1. op # NoOp
    BY <1>13 DEF BeginTurn, Recovered, At, NoOp
  <2>2. op' = NoOp /\ journals' = Live(journals)
    BY <1>13 DEF BeginTurn, Release
  <2> QED BY <2>1, <2>2, LiveTyped, WorkGoesOn
<1>14. ASSUME LetGo PROVE WorkTyped'
  <2>1. op # NoOp
    BY <1>14 DEF LetGo, Recovered, At, NoOp
  <2>2. op' = NoOp /\ journals' = Live(journals)
    BY <1>14 DEF LetGo, Release
  <2> QED BY <2>1, <2>2, LiveTyped, WorkGoesOn
<1>15. ASSUME PlanRestore PROVE WorkTyped'
  <2>1. op # NoOp /\ op \in Ops /\ journals \in Seq(Journal)
    BY <1>15, OpIs DEF PlanRestore, Recovered, At, NoOp
  <2>2. ASSUME RaisesOut PROVE WorkTyped'
    <3>1. (Ends(TRUE) /\ Returns) \/ Release
      BY <2>2 DEF RaisesOut, Failed
    <3>2. Returns => op' \in Ops /\ op'.restored = op.restored
      BY <2>1, ReturnsTyped
    <3> QED BY <2>1, <3>1, <3>2, EndsTyped, LiveTyped, WorkGoesOn DEF Release
  <2>3. ASSUME FinalizesSelected,
               journals' = Append(journals, [target |-> op.target, retain |-> op.retain,
                                             finished |-> FALSE, required |-> FALSE]),
               Plan(UNION {manifest'[t].noted : t \in Selected},
                    {p \in Paths : Chain(manifest', Branch(op.target), p) # << >>},
                    LAMBDA p : Chain(manifest', Branch(op.target), p))
        PROVE  WorkTyped'
    <3> DEFINE noted == UNION {manifest'[t].noted : t \in Selected}
               tracked == {p \in Paths : Chain(manifest', Branch(op.target), p) # << >>}
    <3>1. op.target \in Range(order)
      BY <1>15, <2>1, PlansBranch
    <3>2. op.target \in Ids
      BY <3>1 DEF IInv, Typed, HistoryTyped, Range
    <3>3. Selected \subseteq Ids
      BY <3>1, SlicesAre DEF Selected, IInv, Typed
    <3>4. manifest' \in [Ids -> Manifests]
      BY <1>15, HistoryStep DEF Next, HistoryTyped
    <3>5. noted \subseteq Marks
      BY <3>3, <3>4 DEF Manifests
    <3>6. [target |-> op.target, retain |-> op.retain, finished |-> FALSE, required |-> FALSE] \in Journal
      BY <2>1, <3>2 DEF Journal, Ops
    <3>7. journals' \in Seq(Journal) /\ Len(journals') \in Nat
      BY <2>1, <2>3, <3>6
    <3> HIDE DEF noted
    <3>8. PICK already \in SUBSET tracked, todo \in SUBSET tracked, bad \in SUBSET tracked :
            op' = [op EXCEPT !.pc = "swap", !.journal = Len(journals'), !.todo = todo \ bad,
                    !.restored = [p \in already \ bad |-> file[p]],
                    !.skipped = noted \cup (tracked \ ((already \cup todo) \ bad)),
                    !.warned = FALSE, !.writable = TRUE, !.need = FALSE]
      <4> DEFINE chained == {p \in tracked : "unknown" \notin noted /\ p \notin noted
                                /\ Continuous(Chain(manifest', Branch(op.target), p))}
                 a == {p \in chained : SameContent(file[p], Desired(Chain(manifest', Branch(op.target), p)))}
                 d == {p \in chained \ a : Same(file[p], Expected(Chain(manifest', Branch(op.target), p)))}
      <4>1. a \in SUBSET tracked /\ d \in SUBSET tracked
        OBVIOUS
      <4>2. \E bad \in SUBSET (a \cup d) :
              op' = [op EXCEPT !.pc = "swap", !.journal = Len(journals'), !.todo = d \ bad,
                      !.restored = [p \in a \ bad |-> file[p]],
                      !.skipped = noted \cup (tracked \ ((a \cup d) \ bad)),
                      !.warned = FALSE, !.writable = TRUE, !.need = FALSE]
        BY <2>3 DEF Plan, noted
      <4> HIDE DEF a, d, tracked
      <4> QED BY <4>1, <4>2
    <3>9. tracked \subseteq Paths /\ tracked \subseteq Marks
      BY DEF Marks
    <3> HIDE DEF tracked
    <3> DEFINE r == [p \in already \ bad |-> file[p]]
    <3>10. r \in Partial /\ \A p \in DOMAIN r : r[p] \in States(p)
      <4>1. already \ bad \in SUBSET Paths /\ r \in [already \ bad -> AnyState]
            /\ \A p \in already \ bad : r[p] \in States(p)
        BY <3>9 DEF IInv, Typed, FilesTyped
      <4> HIDE DEF r
      <4> QED BY <4>1, PartialHolds
    <3>11. op' \in Ops /\ op'.restored = r
      <4> HIDE DEF r
      <4>1. todo \ bad \in SUBSET Paths /\ noted \cup (tracked \ ((already \cup todo) \ bad)) \in SUBSET Marks
        BY <3>5, <3>9
      <4>2. op' = [op EXCEPT !.pc = "swap", !.journal = Len(journals'), !.todo = todo \ bad,
                     !.restored = r, !.skipped = noted \cup (tracked \ ((already \cup todo) \ bad)),
                     !.warned = FALSE, !.writable = TRUE, !.need = FALSE]
        BY <3>8 DEF r
      <4> QED BY <2>1, <3>7, <3>10, <4>1, <4>2 DEF Ops, Steps
    <3> HIDE DEF r
    <3> QED BY <3>7, <3>10, <3>11 DEF WorkTyped
  <2> QED BY <1>15, <2>2, <2>3 DEF PlanRestore
<1>16. ASSUME NEW p \in Paths, CheckFile(p) PROVE WorkTyped'
  <2>1. op # NoOp /\ op \in Ops /\ journals' = journals
    BY <1>16, OpIs DEF CheckFile, At, NoOp, disk
  <2>2. op' \in Ops /\ op'.restored = op.restored
    <3>1. \/ op' = [op EXCEPT !.pc = "rename", !.cur = p, !.todo = @ \ {p}, !.raced = FALSE]
          \/ op' = [op EXCEPT !.todo = @ \ {p}, !.skipped = @ \cup {p}]
          \/ op' = [op EXCEPT !.todo = {}, !.skipped = @ \cup op.todo, !.writable = FALSE]
      BY <1>16 DEF CheckFile, Skips
    <3>2. op' \in Ops
      BY <1>16, <2>1, <3>1, SwapTyped
    <3>3. op'.restored = op.restored
      BY <2>1, <3>1 DEF Ops
    <3> QED BY <3>2, <3>3
  <2> QED BY <2>1, <2>2, LiveTyped, WorkGoesOn
<1>17. ASSUME NEW p \in Paths, RenameFile(p) PROVE WorkTyped'
  <2>1. op # NoOp /\ op \in Ops /\ journals' = journals /\ journals \in Seq(Journal)
    BY <1>17, OpIs DEF RenameFile, At, NoOp, disk
  <2>2. CASE op' = [op EXCEPT !.pc = "swap", !.cur = "none", !.raced = FALSE, !.skipped = @ \cup {p}]
    <3>1. op' \in Ops /\ op'.restored = op.restored
      <4>1. op.restored \in Partial
        BY <2>1 DEF Ops
      <4>2. op' \in Ops
        BY <1>17, <2>1, <2>2, <4>1, RenameTyped
      <4>3. op'.restored = op.restored
        BY <2>1, <2>2 DEF Ops
      <4> QED BY <4>2, <4>3
    <3> QED BY <2>1, <3>1, WorkGoesOn
  <2>3. CASE \/ op' = [op EXCEPT !.pc = "swap", !.cur = "none", !.raced = FALSE, !.restored = Adds(p)]
             \/ op' = [op EXCEPT !.pc = "swap", !.cur = "none", !.raced = FALSE, !.restored = Adds(p),
                                 !.todo = {}, !.skipped = @ \cup op.todo, !.warned = TRUE, !.writable = FALSE]
    <3> DEFINE r == Adds(p)
    <3>1. file'[p] \in States(p)
      BY <1>17, FilesStep DEF Next, FilesTyped
    <3>2. DOMAIN r = DOMAIN op.restored \cup {p}
          /\ \A q \in DOMAIN r : r[q] = IF q = p THEN file'[p] ELSE op.restored[q]
      BY DEF Adds
    <3>3. \A q \in DOMAIN r : q \in Paths /\ r[q] \in States(q)
      BY <2>1, <3>1, <3>2, OpIs
    <3>4. r = [q \in DOMAIN r |-> r[q]]
      BY DEF Adds
    <3> HIDE DEF r
    <3>5. r \in Partial
      <4>1. DOMAIN r \in SUBSET Paths /\ r \in [DOMAIN r -> AnyState]
        BY <3>3, <3>4 DEF AnyState
      <4> QED BY <4>1, PartialHolds
    <3>6. op' \in Ops /\ op'.restored = r
      <4>1. \/ op' = [op EXCEPT !.pc = "swap", !.cur = "none", !.raced = FALSE, !.restored = r]
            \/ op' = [op EXCEPT !.pc = "swap", !.cur = "none", !.raced = FALSE, !.restored = r,
                                !.todo = {}, !.skipped = @ \cup op.todo, !.warned = TRUE, !.writable = FALSE]
        BY <2>3 DEF r
      <4>2. op' \in Ops
        BY <1>17, <2>1, <3>5, <4>1, RenameTyped
      <4>3. op'.restored = r
        BY <2>1, <4>1 DEF Ops
      <4> QED BY <4>2, <4>3
    <3> QED BY <2>1, <3>3, <3>6 DEF WorkTyped
  <2> QED BY <1>17, <2>2, <2>3 DEF RenameFile
<1>18. ASSUME CommitRestore PROVE WorkTyped'
  <2>1. op # NoOp /\ op \in Ops /\ journals' = journals
    BY <1>18, OpIs DEF CommitRestore, Reports, At, NoOp
  <2>2. Unsettled \subseteq Marks
    BY <2>1, OpIs DEF Unsettled, Ops, Marks
  <2>3. op' \in Ops /\ op'.restored = op.restored
    <3>1. \/ op' = [op EXCEPT !.pc = "apply", !.skipped = Unsettled]
          \/ op' = [op EXCEPT !.pc = "close", !.need = TRUE, !.skipped = Unsettled]
      BY <1>18 DEF CommitRestore
    <3>2. op' \in Ops
      BY <2>1, <2>2, <3>1, CommitTyped
    <3>3. op'.restored = op.restored
      BY <2>1, <3>1 DEF Ops
    <3> QED BY <3>2, <3>3
  <2> QED BY <2>1, <2>3, LiveTyped, WorkGoesOn
<1>19. ASSUME ApplyRestore PROVE WorkTyped'
  <2>1. op # NoOp /\ op \in Ops /\ journals' = journals
    BY <1>19, OpIs DEF ApplyRestore, At, NoOp
  <2>2. op' \in Ops /\ op'.restored = op.restored
    <3>1. op' = [op EXCEPT !.pc = "close"] \/ op' = [op EXCEPT !.pc = "close", !.need = TRUE]
      BY <1>19 DEF ApplyRestore
    <3>2. [op EXCEPT !.pc = "close"] \in Ops
      BY <2>1 DEF Ops, Steps
    <3>3. [op EXCEPT !.pc = "close", !.need = TRUE] \in Ops
      BY <2>1 DEF Ops, Steps
    <3>4. op'.restored = op.restored
      BY <2>1, <3>1 DEF Ops
    <3> QED BY <3>1, <3>2, <3>3, <3>4
  <2> QED BY <2>1, <2>2, LiveTyped, WorkGoesOn
<1>20. ASSUME CloseRestore PROVE WorkTyped'
  <2>1. op # NoOp /\ op \in Ops
    BY <1>20, OpIs DEF CloseRestore, At, NoOp
  <2>2. op' = NoOp /\ \E js \in {journals, Concludes(journals), Cleared(Concludes(journals))} : journals' = Live(js)
    BY <1>20 DEF CloseRestore
  <2>3. journals' \in Seq(Journal)
    BY <2>1, <2>2, ConcludesTyped, LiveTyped, LiveIs
  <2> QED BY <2>1, <2>2, <2>3, WorkGoesOn
<1>21. ASSUME CloseRecovered PROVE WorkTyped'
  <2>1. op # NoOp /\ op \in Ops
    BY <1>21, OpIs DEF CloseRecovered, At, NoOp
  <2>2. PICK own \in {journals, Concludes(journals)}, need \in BOOLEAN :
          \/ op' = NoOp /\ journals' = Live(own)
          \/ Returns /\ journals' = [own EXCEPT ![op.at] = [@ EXCEPT !.finished = TRUE, !.required = need]]
    <3>1. PICK unwritten \in {FALSE, op.writable}, lost \in BOOLEAN :
            LET need == ~Settled \/ unwritten
                own == IF op.writable /\ ~unwritten THEN Concludes(journals) ELSE journals IN
            \/ op' = NoOp /\ journals' = Live(own)
            \/ Returns /\ journals' = [own EXCEPT ![op.at] = [@ EXCEPT !.finished = TRUE, !.required = need]]
      BY <1>21 DEF CloseRecovered
    <3>2. (~Settled \/ unwritten) \in BOOLEAN
      OBVIOUS
    <3> QED BY <3>1, <3>2
  <2>3. own \in Seq(Journal)
    BY <2>1, ConcludesTyped, LiveTyped
  <2>4. Returns => op' \in Ops /\ op'.restored = op.restored
    BY <2>1, ReturnsTyped
  <2>5. [own EXCEPT ![op.at] = [own[op.at] EXCEPT !.finished = TRUE, !.required = need]] \in Seq(Journal)
    <3>1. \A j \in Journal : [j EXCEPT !.finished = TRUE, !.required = need] \in Journal
      BY DEF Journal
    <3>2. CASE op.at \in 1 .. Len(own)
      <4>1. own[op.at] \in Journal
        BY <2>3, <3>2
      <4>2. [own[op.at] EXCEPT !.finished = TRUE, !.required = need] \in Journal
        BY <3>1, <4>1
      <4> QED BY <2>3, <3>2, <4>2, ExceptSeq
    <3>3. CASE op.at \notin 1 .. Len(own)
      <4>1. [own EXCEPT ![op.at] = [own[op.at] EXCEPT !.finished = TRUE, !.required = need]] = own
        BY <2>3, <3>3
      <4> QED BY <2>3, <4>1
    <3> QED BY <3>2, <3>3
  <2>6. journals' \in Seq(Journal)
    BY <2>2, <2>3, <2>5, LiveIs
  <2> QED BY <2>1, <2>2, <2>4, <2>6, WorkGoesOn
<1>22. ASSUME CutBranch PROVE WorkTyped'
  <2>1. op # NoOp /\ op \in Ops
    BY <1>22, OpIs DEF CutBranch, Recovered, At, NoOp
  <2>2. (op' = [op EXCEPT !.pc = "apply"] /\ journals' = journals) \/ (op' = NoOp /\ journals' = Live(journals))
    BY <1>22 DEF CutBranch, Release
  <2>3. [op EXCEPT !.pc = "apply"] \in Ops /\ [op EXCEPT !.pc = "apply"].restored = op.restored
    BY <2>1 DEF Ops, Steps
  <2> QED BY <2>1, <2>2, <2>3, LiveTyped, WorkGoesOn
<1>23. ASSUME ApplyCut PROVE WorkTyped'
  <2>1. op # NoOp
    BY <1>23 DEF ApplyCut, At, NoOp
  <2>2. op' = NoOp /\ journals' = Live(journals)
    BY <1>23 DEF ApplyCut, Release
  <2> QED BY <2>1, <2>2, LiveTyped, WorkGoesOn
<1>24. ASSUME NEW p \in Paths, HandEdit(p) PROVE WorkTyped'
  <2>1. journals' = journals /\ (op' = op \/ (op # NoOp /\ op' = [op EXCEPT !.raced = TRUE]))
    BY <1>24 DEF HandEdit, disk
  <2>2. CASE op' = op
    BY <2>1, <2>2, WorkKept
  <2>3. CASE op # NoOp /\ op' = [op EXCEPT !.raced = TRUE]
    <3>1. op' \in Ops /\ op'.restored = op.restored
      BY <2>3, OpIs DEF Ops, Steps
    <3> QED BY <2>1, <2>3, <3>1, LiveTyped, WorkGoesOn
  <2> QED BY <2>1, <2>2, <2>3
<1>25. ASSUME Crash PROVE WorkTyped'
  <2>1. op' = NoOp /\ journals' = Live(journals)
    BY <1>25 DEF Crash, Release
  <2> QED BY <2>1, LiveTyped DEF WorkTyped
<1> QED
  BY <1>1, <1>2, <1>3, <1>4, <1>5, <1>6, <1>7, <1>8, <1>9, <1>10, <1>11, <1>12, <1>13,
     <1>14, <1>15, <1>16, <1>17, <1>18, <1>19, <1>20, <1>21, <1>22, <1>23, <1>24,
     <1>25 DEF Next

-----------------------------------------------------------------------------
(***************************************************************************)
(* The other parts of the invariant.                                       *)
(***************************************************************************)

LEMMA QuietGoesOn ==
  ASSUME IInv, op # NoOp, UNCHANGED <<active, flying>>, life' = life \/ op' = NoOp
  PROVE  Quiet'
BY DEF IInv, Quiet

LEMMA AcquireQuiet ==
  ASSUME IInv, active = 0, NEW purpose, NEW t, NEW retain, Acquire(purpose, t, retain),
         life' = "up" \/ op' = NoOp
  PROVE  Quiet'
<1>1. UNCHANGED <<active, flying>>
  BY DEF Acquire
<1> QED BY <1>1 DEF IInv, Quiet

LEMMA QuietStep ==
  ASSUME IInv, Next
  PROVE  Quiet'
<1>1. ASSUME NEW c \in Calls, NEW ps \in Targets, CallPre(c, ps) PROVE Quiet'
  <2>1. active # 0 /\ life = "up" /\ UNCHANGED <<op, active, life>>
    BY <1>1 DEF CallPre
  <2> QED BY <2>1 DEF IInv, Quiet
<1>2. ASSUME NEW c \in Calls, NEW p \in Paths, ToolWrites(c, p) PROVE Quiet'
  <2>1. flying[c] # {} /\ UNCHANGED <<op, active, life>>
    BY <1>2 DEF ToolWrites
  <2> QED BY <2>1 DEF IInv, Quiet
<1>3. ASSUME NEW c \in Calls, CallAfter(c) PROVE Quiet'
  <2>1. flying[c] # {} /\ UNCHANGED <<op, active, life>>
    BY <1>3 DEF CallAfter
  <2> QED BY <2>1 DEF IInv, Quiet
<1>4. ASSUME FinishTurn PROVE Quiet'
  <2>1. active # 0 /\ active' = 0 /\ (\A c \in Calls : flying[c] = {}) /\ UNCHANGED <<op, life, flying>>
    BY <1>4 DEF FinishTurn
  <2> QED BY <2>1 DEF IInv, Quiet
<1>5. ASSUME AskTurn PROVE Quiet'
  <2>1. active = 0 /\ life' = "up"
    BY <1>5 DEF AskTurn, Idle
  <2>2. Acquire("begin", 0, FALSE)
    BY <1>5 DEF AskTurn
  <2> QED BY <2>1, <2>2, AcquireQuiet
<1>6. ASSUME NEW t \in Ids, NEW retain \in BOOLEAN, AskRestore(t, retain) PROVE Quiet'
  <2>1. active = 0 /\ life' = "up"
    BY <1>6 DEF AskRestore, Idle
  <2>2. Acquire("restore", t, retain)
    BY <1>6 DEF AskRestore
  <2> QED BY <2>1, <2>2, AcquireQuiet
<1>7. ASSUME NEW t \in Ids, Retry(t) PROVE Quiet'
  <2>1. active = 0 /\ life' = "up"
    BY <1>7 DEF Retry, Idle
  <2>2. Acquire("restore", t, FALSE)
    BY <1>7 DEF Retry
  <2> QED BY <2>1, <2>2, AcquireQuiet
<1>8. ASSUME NEW t \in Ids, AskCut(t) PROVE Quiet'
  <2>1. active = 0 /\ life' = "up"
    BY <1>8 DEF AskCut, Idle
  <2>2. Acquire("cut", t, FALSE)
    BY <1>8 DEF AskCut
  <2> QED BY <2>1, <2>2, AcquireQuiet
<1>9. ASSUME Start PROVE Quiet'
  <2>1. active = 0 /\ (life' = "up" \/ op' = NoOp) /\ Acquire("start", 0, FALSE)
    BY <1>9 DEF Start, IInv, Quiet
  <2> QED BY <2>1, AcquireQuiet
<1>10. ASSUME RecoverFinished PROVE Quiet'
  <2>1. op # NoOp
    BY <1>10 DEF RecoverFinished, Recovered, LooksAt, Reports, At, NoOp
  <2>2. UNCHANGED <<active, flying>> /\ (life' = life \/ op' = NoOp)
    BY <1>10 DEF RecoverFinished, memory, Failed, Release, RaisesOut
  <2> QED BY <2>1, <2>2, QuietGoesOn
<1>11. ASSUME RecoverCommitted PROVE Quiet'
  <2>1. op # NoOp
    BY <1>11 DEF RecoverCommitted, Recovered, LooksAt, Reports, At, NoOp
  <2>2. UNCHANGED <<active, flying>> /\ (life' = life \/ op' = NoOp)
    BY <1>11 DEF RecoverCommitted, memory, Failed, Release, RaisesOut
  <2> QED BY <2>1, <2>2, QuietGoesOn
<1>12. ASSUME RecoverAgain PROVE Quiet'
  <2>1. op # NoOp
    BY <1>12 DEF RecoverAgain, Recovered, LooksAt, Reports, At, NoOp
  <2>2. UNCHANGED <<active, flying>> /\ (life' = life \/ op' = NoOp)
    BY <1>12 DEF RecoverAgain, memory, Failed, Release, RaisesOut
  <2> QED BY <2>1, <2>2, QuietGoesOn
<1>13. ASSUME BeginTurn PROVE Quiet'
  <2>1. op' = NoOp /\ active' # 0 /\ life' = "up"
    BY <1>13 DEF BeginTurn, Recovered, At, Release, IInv, Quiet, Typed, CountsTyped, NoOp
  <2> QED BY <2>1 DEF Quiet
<1>14. ASSUME LetGo PROVE Quiet'
  <2>1. op # NoOp
    BY <1>14 DEF LetGo, Recovered, LooksAt, Reports, At, NoOp
  <2>2. UNCHANGED <<active, flying>> /\ (life' = life \/ op' = NoOp)
    BY <1>14 DEF LetGo, memory, Failed, Release, RaisesOut
  <2> QED BY <2>1, <2>2, QuietGoesOn
<1>15. ASSUME PlanRestore PROVE Quiet'
  <2>1. op # NoOp
    BY <1>15 DEF PlanRestore, Recovered, At, NoOp
  <2>2. UNCHANGED <<active, flying>>
    BY <1>15 DEF PlanRestore
  <2>3. life' = life \/ op' = NoOp
    BY <1>15 DEF PlanRestore, RaisesOut, Failed, Release
  <2> QED BY <2>1, <2>2, <2>3, QuietGoesOn
<1>16. ASSUME NEW p \in Paths, CheckFile(p) PROVE Quiet'
  <2>1. op # NoOp
    BY <1>16 DEF CheckFile, Recovered, LooksAt, Reports, At, NoOp
  <2>2. UNCHANGED <<active, flying>> /\ (life' = life \/ op' = NoOp)
    BY <1>16 DEF CheckFile, memory, Failed, Release, RaisesOut
  <2> QED BY <2>1, <2>2, QuietGoesOn
<1>17. ASSUME NEW p \in Paths, RenameFile(p) PROVE Quiet'
  <2>1. op # NoOp
    BY <1>17 DEF RenameFile, Recovered, LooksAt, Reports, At, NoOp
  <2>2. UNCHANGED <<active, flying>> /\ (life' = life \/ op' = NoOp)
    BY <1>17 DEF RenameFile, memory, Failed, Release, RaisesOut
  <2> QED BY <2>1, <2>2, QuietGoesOn
<1>18. ASSUME CommitRestore PROVE Quiet'
  <2>1. op # NoOp
    BY <1>18 DEF CommitRestore, Recovered, LooksAt, Reports, At, NoOp
  <2>2. UNCHANGED <<active, flying>> /\ (life' = life \/ op' = NoOp)
    BY <1>18 DEF CommitRestore, memory, Failed, Release, RaisesOut
  <2> QED BY <2>1, <2>2, QuietGoesOn
<1>19. ASSUME ApplyRestore PROVE Quiet'
  <2>1. op # NoOp
    BY <1>19 DEF ApplyRestore, Recovered, LooksAt, Reports, At, NoOp
  <2>2. UNCHANGED <<active, flying>> /\ (life' = life \/ op' = NoOp)
    BY <1>19 DEF ApplyRestore, memory, Failed, Release, RaisesOut
  <2> QED BY <2>1, <2>2, QuietGoesOn
<1>20. ASSUME CloseRestore PROVE Quiet'
  <2>1. op # NoOp
    BY <1>20 DEF CloseRestore, Recovered, LooksAt, Reports, At, NoOp
  <2>2. UNCHANGED <<active, flying>> /\ (life' = life \/ op' = NoOp)
    BY <1>20 DEF CloseRestore, memory, Failed, Release, RaisesOut
  <2> QED BY <2>1, <2>2, QuietGoesOn
<1>21. ASSUME CloseRecovered PROVE Quiet'
  <2>1. op # NoOp
    BY <1>21 DEF CloseRecovered, Recovered, LooksAt, Reports, At, NoOp
  <2>2. UNCHANGED <<active, flying>> /\ (life' = life \/ op' = NoOp)
    BY <1>21 DEF CloseRecovered, memory
  <2> QED BY <2>1, <2>2, QuietGoesOn
<1>22. ASSUME CutBranch PROVE Quiet'
  <2>1. op # NoOp
    BY <1>22 DEF CutBranch, Recovered, LooksAt, Reports, At, NoOp
  <2>2. UNCHANGED <<active, flying>> /\ (life' = life \/ op' = NoOp)
    BY <1>22 DEF CutBranch, memory, Failed, Release, RaisesOut
  <2> QED BY <2>1, <2>2, QuietGoesOn
<1>23. ASSUME ApplyCut PROVE Quiet'
  <2>1. op # NoOp
    BY <1>23 DEF ApplyCut, Recovered, LooksAt, Reports, At, NoOp
  <2>2. UNCHANGED <<active, flying>> /\ (life' = life \/ op' = NoOp)
    BY <1>23 DEF ApplyCut, memory, Failed, Release, RaisesOut
  <2> QED BY <2>1, <2>2, QuietGoesOn
<1>24. ASSUME NEW p \in Paths, HandEdit(p) PROVE Quiet'
  <2>1. UNCHANGED <<active, life, flying>> /\ (op = NoOp => op' = NoOp)
    BY <1>24 DEF HandEdit, memory
  <2> QED BY <2>1 DEF IInv, Quiet
<1>25. ASSUME Crash PROVE Quiet'
  <2>1. active' = 0 /\ op' = NoOp /\ \A c \in Calls : flying'[c] = {}
    BY <1>25 DEF Crash, Release
  <2> QED BY <2>1 DEF Quiet
<1> QED
  BY <1>1, <1>2, <1>3, <1>4, <1>5, <1>6, <1>7, <1>8, <1>9, <1>10, <1>11, <1>12, <1>13,
     <1>14, <1>15, <1>16, <1>17, <1>18, <1>19, <1>20, <1>21, <1>22, <1>23, <1>24,
     <1>25 DEF Next

LEMMA NotNoTx ==
  ASSUME NEW r, r.order \in Seq(Ids)
  PROVE  r # NoTx
<1>1. SUFFICES ASSUME r = NoTx PROVE FALSE
  OBVIOUS
<1>2. <<0>> \in Seq(Ids)
  BY <1>1 DEF NoTx
<1>3. <<0>>[1] \in Ids
  <2>1. 1 \in DOMAIN <<0>> /\ <<0>> \in [DOMAIN <<0>> -> Ids]
    BY <1>2
  <2> QED BY <2>1
<1> QED BY <1>3 DEF Ids

\* The operation goes on with the same target.
SameAim == UNCHANGED <<op.nested, op.target, op.asked, op.purpose>>
LEMMA AimsGoOn ==
  ASSUME IInv, op # NoOp, UNCHANGED <<order, turns>>,
         op' = NoOp \/ (SameAim /\ \/ op'.pc = op.pc /\ tx' = tx
                                   \/ op'.pc \in {"swap", "rename"} /\ op.target \in Range(order)
                                   \/ op'.pc = "close")
  PROVE  Aims'
BY DEF IInv, Aims, SameAim

LEMMA AimsKept ==
  ASSUME IInv, UNCHANGED <<order, turns, tx, op>>
  PROVE  Aims'
BY DEF IInv, Aims

LEMMA AimsReturns ==
  ASSUME op \in Ops, Returns, op.purpose = "begin" => turns' < MaxTurns
  PROVE  Aims'
<1>1. /\ op'.pc = "recover" /\ op'.nested = FALSE /\ op'.target = op.asked
      /\ op'.asked = op.asked /\ op'.purpose = op.purpose
  BY DEF Returns, Ops
<1> QED BY <1>1 DEF Aims

LEMMA AcquireAims ==
  ASSUME NEW purpose, NEW t, NEW retain, Acquire(purpose, t, retain),
         purpose = "begin" => turns' < MaxTurns
  PROVE  Aims'
<1>1. op' = NoOp \/ op' = Owner(purpose, t, retain)
  BY DEF Acquire
<1> QED BY <1>1 DEF Aims, Owner

LEMMA AimsStep ==
  ASSUME IInv, Next
  PROVE  Aims'
<1>1. ASSUME NEW c \in Calls, NEW ps \in Targets, CallPre(c, ps) PROVE Aims'
  <2>1. UNCHANGED <<order, turns, tx, op>>
    BY <1>1 DEF CallPre, disk, counts
  <2> QED BY <2>1, AimsKept
<1>2. ASSUME NEW c \in Calls, NEW p \in Paths, ToolWrites(c, p) PROVE Aims'
  <2>1. UNCHANGED <<order, turns, tx, op>>
    BY <1>2 DEF ToolWrites, disk, counts
  <2> QED BY <2>1, AimsKept
<1>3. ASSUME NEW c \in Calls, CallAfter(c) PROVE Aims'
  <2>1. UNCHANGED <<order, turns, tx, op>>
    BY <1>3 DEF CallAfter, disk, counts
  <2> QED BY <2>1, AimsKept
<1>4. ASSUME FinishTurn PROVE Aims'
  <2>1. UNCHANGED <<order, turns, tx, op>>
    BY <1>4 DEF FinishTurn, disk, counts
  <2> QED BY <2>1, AimsKept
<1>5. ASSUME AskTurn PROVE Aims'
  <2>1. Acquire("begin", 0, FALSE) /\ turns' = turns
    BY <1>5 DEF AskTurn
  <2> QED BY <1>5, <2>1, AcquireAims DEF AskTurn
<1>6. ASSUME NEW t \in Ids, NEW retain \in BOOLEAN, AskRestore(t, retain) PROVE Aims'
  <2>1. Acquire("restore", t, retain) /\ turns' = turns
    BY <1>6 DEF AskRestore
  <2> QED BY <1>6, <2>1, AcquireAims DEF AskRestore
<1>7. ASSUME NEW t \in Ids, Retry(t) PROVE Aims'
  <2>1. Acquire("restore", t, FALSE) /\ turns' = turns
    BY <1>7 DEF Retry
  <2> QED BY <1>7, <2>1, AcquireAims DEF Retry
<1>8. ASSUME NEW t \in Ids, AskCut(t) PROVE Aims'
  <2>1. Acquire("cut", t, FALSE) /\ turns' = turns
    BY <1>8 DEF AskCut
  <2> QED BY <1>8, <2>1, AcquireAims DEF AskCut
<1>9. ASSUME Start PROVE Aims'
  <2>1. Acquire("start", 0, FALSE) /\ turns' = turns
    BY <1>9 DEF Start
  <2> QED BY <1>9, <2>1, AcquireAims DEF Start
<1>10. ASSUME RecoverFinished PROVE Aims'
  <2>1. op # NoOp /\ op \in Ops /\ UNCHANGED <<order, turns, tx>>
    BY <1>10, OpIs DEF RecoverFinished, Recovered, LooksAt, Reports, At, NoOp, disk, counts
  <2>2. op' = NoOp \/ (SameAim /\ op'.pc = op.pc)
    BY <1>10, <2>1 DEF RecoverFinished, GoesOn, Failed, Release, SameAim, Ops
  <2> QED BY <2>1, <2>2, AimsGoOn
<1>11. ASSUME RecoverCommitted PROVE Aims'
  <2>1. op # NoOp /\ op \in Ops /\ UNCHANGED <<order, turns, tx>>
    BY <1>11, OpIs DEF RecoverCommitted, Recovered, LooksAt, Reports, At, NoOp, disk, counts
  <2>2. op' = NoOp \/ (SameAim /\ op'.pc = op.pc)
    BY <1>11, <2>1 DEF RecoverCommitted, GoesOn, Failed, Release, SameAim, Ops
  <2> QED BY <2>1, <2>2, AimsGoOn
<1>12. ASSUME RecoverAgain PROVE Aims'
  <2>1. op # NoOp /\ op \in Ops /\ UNCHANGED <<order, turns>>
    BY <1>12, OpIs DEF RecoverAgain, LooksAt, At, NoOp, disk, counts
  <2>2. PICK j \in Range(journals) :
          /\ op' = [op EXCEPT !.pc = "plan", !.nested = TRUE, !.target = j.target, !.retain = j.retain]
          /\ j.target \in Range(order)
    BY <1>12 DEF RecoverAgain
  <2>3. op'.pc = "plan" /\ op'.nested = TRUE /\ op'.target = j.target /\ op'.purpose = op.purpose
    BY <2>1, <2>2 DEF Ops
  <2> QED BY <2>1, <2>2, <2>3 DEF IInv, Aims
<1>13. ASSUME BeginTurn PROVE Aims'
  <2>1. op' = NoOp
    BY <1>13 DEF BeginTurn, Release
  <2> QED BY <2>1 DEF Aims
<1>14. ASSUME LetGo PROVE Aims'
  <2>1. op' = NoOp
    BY <1>14 DEF LetGo, Release
  <2> QED BY <2>1 DEF Aims
<1>15. ASSUME PlanRestore PROVE Aims'
  <2>1. op # NoOp /\ op \in Ops /\ UNCHANGED <<order, turns>>
    BY <1>15, OpIs DEF PlanRestore, Recovered, LooksAt, Reports, At, NoOp, disk, counts
  <2>2. ASSUME RaisesOut PROVE Aims'
    <3>1. op' = NoOp \/ Returns
      BY <2>2 DEF RaisesOut, Failed, Release
    <3>2. op.purpose = "begin" => turns' < MaxTurns
      BY <2>1 DEF IInv, Aims
    <3>3. op' = NoOp => Aims'
      BY DEF Aims
    <3> QED BY <2>1, <3>1, <3>2, <3>3, AimsReturns
  <2>3. ASSUME Plan(UNION {manifest'[t].noted : t \in Selected},
                    {p \in Paths : Chain(manifest', Branch(op.target), p) # << >>},
                    LAMBDA p : Chain(manifest', Branch(op.target), p))
        PROVE  Aims'
    <3>1. op.target \in Range(order)
      BY <1>15, <2>1, PlansBranch
    <3>2. op'.pc = "swap" /\ SameAim
      BY <2>1, <2>3 DEF Plan, SameAim, Ops
    <3> QED BY <2>1, <3>1, <3>2, AimsGoOn
  <2> QED BY <1>15, <2>2, <2>3 DEF PlanRestore
<1>16. ASSUME NEW p \in Paths, CheckFile(p) PROVE Aims'
  <2>1. op # NoOp /\ op \in Ops /\ UNCHANGED <<order, turns, tx>>
    BY <1>16, OpIs DEF CheckFile, Recovered, LooksAt, Reports, At, NoOp, disk, counts
  <2>2. SameAim /\ (op'.pc = op.pc \/ (op'.pc = "rename" /\ op.pc = "swap"))
    <3>1. \/ op' = [op EXCEPT !.pc = "rename", !.cur = p, !.todo = @ \ {p}, !.raced = FALSE] /\ op.pc = "swap"
          \/ op' = [op EXCEPT !.todo = @ \ {p}, !.skipped = @ \cup {p}]
          \/ op' = [op EXCEPT !.todo = {}, !.skipped = @ \cup op.todo, !.writable = FALSE]
      BY <1>16 DEF CheckFile, Skips, At
    <3> QED BY <2>1, <3>1 DEF SameAim, Ops
  <2>3. op.pc = "swap" => op.target \in Range(order)
    BY <2>1 DEF IInv, Aims
  <2> QED BY <2>1, <2>2, <2>3, AimsGoOn
<1>17. ASSUME NEW p \in Paths, RenameFile(p) PROVE Aims'
  <2>1. op # NoOp /\ op \in Ops /\ UNCHANGED <<order, turns, tx>>
    BY <1>17, OpIs DEF RenameFile, Recovered, LooksAt, Reports, At, NoOp, disk, counts
  <2>2. SameAim /\ op'.pc = "swap"
    <3>1. \/ op' = [op EXCEPT !.pc = "swap", !.cur = "none", !.raced = FALSE, !.skipped = @ \cup {p}]
          \/ op' = [op EXCEPT !.pc = "swap", !.cur = "none", !.raced = FALSE, !.restored = Adds(p)]
          \/ op' = [op EXCEPT !.pc = "swap", !.cur = "none", !.raced = FALSE, !.restored = Adds(p),
                              !.todo = {}, !.skipped = @ \cup op.todo, !.warned = TRUE, !.writable = FALSE]
      BY <1>17 DEF RenameFile
    <3>2. CASE op' = [op EXCEPT !.pc = "swap", !.cur = "none", !.raced = FALSE, !.skipped = @ \cup {p}]
      BY <2>1, <3>2 DEF SameAim, Ops
    <3>3. CASE op' = [op EXCEPT !.pc = "swap", !.cur = "none", !.raced = FALSE, !.restored = Adds(p)]
      BY <2>1, <3>3 DEF SameAim, Ops
    <3>4. CASE op' = [op EXCEPT !.pc = "swap", !.cur = "none", !.raced = FALSE, !.restored = Adds(p),
                                !.todo = {}, !.skipped = @ \cup op.todo, !.warned = TRUE, !.writable = FALSE]
      BY <2>1, <3>4 DEF SameAim, Ops
    <3> QED BY <3>1, <3>2, <3>3, <3>4
  <2>3. op.target \in Range(order)
    BY <1>17, <2>1 DEF RenameFile, At, IInv, Aims
  <2> QED BY <2>1, <2>2, <2>3, AimsGoOn
<1>18. ASSUME CommitRestore PROVE Aims'
  <2>1. op # NoOp /\ op \in Ops /\ UNCHANGED <<order, turns>>
    BY <1>18, OpIs DEF CommitRestore, Recovered, LooksAt, Reports, At, NoOp, disk, counts
  <2>2. CASE op' = [op EXCEPT !.pc = "apply", !.skipped = Unsettled] /\ tx' = NextBranch
    <3>1. tx' # NoTx
      BY <2>1, <2>2, Branches, NotNoTx DEF IInv, Typed
    <3>2. SameAim /\ op'.pc = "apply"
      BY <2>1, <2>2 DEF SameAim, Ops
    <3> QED BY <2>1, <3>1, <3>2 DEF IInv, Aims, SameAim
  <2>3. CASE op' = [op EXCEPT !.pc = "close", !.need = TRUE, !.skipped = Unsettled]
    <3>1. SameAim /\ op'.pc = "close"
      BY <2>1, <2>3 DEF SameAim, Ops
    <3> QED BY <2>1, <3>1, AimsGoOn
  <2> QED BY <1>18, <2>2, <2>3 DEF CommitRestore
<1>19. ASSUME ApplyRestore PROVE Aims'
  <2>1. op # NoOp /\ op \in Ops /\ turns' = turns
    BY <1>19, OpIs DEF ApplyRestore, At, NoOp
  <2>2. SameAim /\ op'.pc = "close"
    <3>1. op' = [op EXCEPT !.pc = "close"] \/ op' = [op EXCEPT !.pc = "close", !.need = TRUE]
      BY <1>19 DEF ApplyRestore
    <3> QED BY <2>1, <3>1 DEF SameAim, Ops
  <2> QED BY <2>1, <2>2 DEF IInv, Aims, SameAim
<1>20. ASSUME CloseRestore PROVE Aims'
  <2>1. op' = NoOp
    BY <1>20 DEF CloseRestore
  <2> QED BY <2>1 DEF Aims
<1>21. ASSUME CloseRecovered PROVE Aims'
  <2>1. op # NoOp /\ op \in Ops /\ turns' = turns
    BY <1>21, OpIs DEF CloseRecovered, At, NoOp
  <2>2. op' = NoOp \/ Returns
    BY <1>21 DEF CloseRecovered
  <2>3. op.purpose = "begin" => turns' < MaxTurns
    BY <2>1 DEF IInv, Aims
  <2>4. op' = NoOp => Aims'
    BY DEF Aims
  <2> QED BY <2>1, <2>2, <2>3, <2>4, AimsReturns
<1>22. ASSUME CutBranch PROVE Aims'
  <2>1. op # NoOp /\ op \in Ops /\ UNCHANGED <<order, turns>>
    BY <1>22, OpIs DEF CutBranch, Recovered, LooksAt, Reports, At, NoOp, disk, counts
  <2>2. op' = NoOp \/ (op' = [op EXCEPT !.pc = "apply"] /\ tx'.order = Kept(op.asked))
    BY <1>22 DEF CutBranch, Release
  <2>3. CASE op' = [op EXCEPT !.pc = "apply"] /\ tx'.order = Kept(op.asked)
    <3>1. tx' # NoTx
      BY <2>3, SlicesAre, NotNoTx DEF IInv, Typed
    <3>2. SameAim /\ op'.pc = "apply"
      BY <2>1, <2>3 DEF SameAim, Ops
    <3> QED BY <2>1, <3>1, <3>2 DEF IInv, Aims, SameAim
  <2>4. op' = NoOp => Aims'
    BY DEF Aims
  <2> QED BY <2>2, <2>3, <2>4
<1>23. ASSUME ApplyCut PROVE Aims'
  <2>1. op' = NoOp
    BY <1>23 DEF ApplyCut, Release
  <2> QED BY <2>1 DEF Aims
<1>24. ASSUME NEW p \in Paths, HandEdit(p) PROVE Aims'
  <2>1. UNCHANGED <<order, turns, tx>> /\ (op' = op \/ (op # NoOp /\ op' = [op EXCEPT !.raced = TRUE]))
    BY <1>24 DEF HandEdit, disk
  <2>2. CASE op' = op
    BY <2>1, <2>2, AimsKept
  <2>3. CASE op # NoOp /\ op' = [op EXCEPT !.raced = TRUE]
    <3>1. SameAim /\ op'.pc = op.pc
      BY <2>3, OpIs DEF SameAim, Ops
    <3> QED BY <2>1, <2>3, <3>1, AimsGoOn
  <2> QED BY <2>1, <2>2, <2>3
<1>25. ASSUME Crash PROVE Aims'
  <2>1. op' = NoOp
    BY <1>25 DEF Crash, Release
  <2> QED BY <2>1 DEF Aims
<1> QED
  BY <1>1, <1>2, <1>3, <1>4, <1>5, <1>6, <1>7, <1>8, <1>9, <1>10, <1>11, <1>12, <1>13,
     <1>14, <1>15, <1>16, <1>17, <1>18, <1>19, <1>20, <1>21, <1>22, <1>23, <1>24,
     <1>25 DEF Next

LEMMA TrackedElse ==
  ASSUME op' = NoOp \/ op'.pc \notin {"swap", "rename"}
  PROVE  Tracked'
BY DEF Tracked, NoOp

LEMMA NotWithin ==
  ASSUME IInv, op # NoOp
  PROVE  active = 0 /\ \A c \in Calls : flying[c] = {}
BY DEF IInv, Quiet

LEMMA BranchKept ==
  ASSUME order' = order, op'.target = op.target
  PROVE  Branch(op.target)' = Branch(op.target)
BY DEF Branch, Position, SelectInSeq

LEMMA UndoesKept ==
  ASSUME UNCHANGED <<order, manifest>>, op'.target = op.target, NEW p
  PROVE  Undoes(p)' <=> Undoes(p)
<1>1. Branch(op.target)' = Branch(op.target)
  BY BranchKept
<1> DEFINE b == Branch(op.target)
<1>2. Undoes(p) <=> Chain(manifest, b, p) # << >>
  BY DEF Undoes
<1>3. Undoes(p)' <=> Chain(manifest', b', p) # << >>
  BY DEF Undoes, Chain
<1> QED BY <1>1, <1>2, <1>3

LEMMA TrackedGoesOn ==
  ASSUME IInv, op.pc \in {"swap", "rename"}, UNCHANGED <<order, manifest>>,
         op'.target = op.target, op'.todo \subseteq op.todo, op'.pc # "rename"
  PROVE  Tracked'
<1>1. \A p : Undoes(p)' <=> Undoes(p)
  BY UndoesKept
<1> QED BY <1>1 DEF Tracked, IInv

LEMMA TrackedStep ==
  ASSUME IInv, Next
  PROVE  Tracked'
<1>1. ASSUME NEW c \in Calls, NEW ps \in Targets, CallPre(c, ps) PROVE Tracked'
  <2>1. op' = op /\ (active # 0 \/ \E d \in Calls : flying[d] # {})
    BY <1>1 DEF CallPre
  <2>2. op = NoOp
    BY <2>1, NotWithin
  <2> QED BY <2>1, <2>2, TrackedElse
<1>2. ASSUME NEW c \in Calls, NEW p \in Paths, ToolWrites(c, p) PROVE Tracked'
  <2>1. op' = op /\ (active # 0 \/ \E d \in Calls : flying[d] # {})
    BY <1>2 DEF ToolWrites
  <2>2. op = NoOp
    BY <2>1, NotWithin
  <2> QED BY <2>1, <2>2, TrackedElse
<1>3. ASSUME NEW c \in Calls, CallAfter(c) PROVE Tracked'
  <2>1. op' = op /\ (active # 0 \/ \E d \in Calls : flying[d] # {})
    BY <1>3 DEF CallAfter
  <2>2. op = NoOp
    BY <2>1, NotWithin
  <2> QED BY <2>1, <2>2, TrackedElse
<1>4. ASSUME FinishTurn PROVE Tracked'
  <2>1. op' = op /\ (active # 0 \/ \E d \in Calls : flying[d] # {})
    BY <1>4 DEF FinishTurn
  <2>2. op = NoOp
    BY <2>1, NotWithin
  <2> QED BY <2>1, <2>2, TrackedElse
<1>5. ASSUME AskTurn PROVE Tracked'
  <2>1. op' = NoOp \/ op'.pc = "recover"
    BY <1>5 DEF AskTurn, Acquire, Owner
  <2> QED BY <2>1, TrackedElse
<1>6. ASSUME NEW t \in Ids, NEW retain \in BOOLEAN, AskRestore(t, retain) PROVE Tracked'
  <2>1. op' = NoOp \/ op'.pc = "recover"
    BY <1>6 DEF AskRestore, Acquire, Owner
  <2> QED BY <2>1, TrackedElse
<1>7. ASSUME NEW t \in Ids, Retry(t) PROVE Tracked'
  <2>1. op' = NoOp \/ op'.pc = "recover"
    BY <1>7 DEF Retry, Acquire, Owner
  <2> QED BY <2>1, TrackedElse
<1>8. ASSUME NEW t \in Ids, AskCut(t) PROVE Tracked'
  <2>1. op' = NoOp \/ op'.pc = "recover"
    BY <1>8 DEF AskCut, Acquire, Owner
  <2> QED BY <2>1, TrackedElse
<1>9. ASSUME Start PROVE Tracked'
  <2>1. op' = NoOp \/ op'.pc = "recover"
    BY <1>9 DEF Start, Acquire, Owner
  <2> QED BY <2>1, TrackedElse
<1>10. ASSUME RecoverFinished PROVE Tracked'
  <2>1. op # NoOp /\ op \in Ops
    BY <1>10, OpIs DEF RecoverFinished, Recovered, LooksAt, Reports, At, NoOp
  <2>2. op' = NoOp \/ op'.pc = "recover"
    BY <1>10, <2>1 DEF RecoverFinished, Ops, GoesOn, Returns, LooksAt, Recovered, At, Release, Failed
  <2> QED BY <2>2, TrackedElse
<1>11. ASSUME RecoverCommitted PROVE Tracked'
  <2>1. op # NoOp /\ op \in Ops
    BY <1>11, OpIs DEF RecoverCommitted, Recovered, LooksAt, Reports, At, NoOp
  <2>2. op' = NoOp \/ op'.pc = "recover"
    BY <1>11, <2>1 DEF RecoverCommitted, Ops, GoesOn, Returns, LooksAt, Recovered, At, Release, Failed
  <2> QED BY <2>2, TrackedElse
<1>12. ASSUME RecoverAgain PROVE Tracked'
  <2>1. op # NoOp /\ op \in Ops
    BY <1>12, OpIs DEF RecoverAgain, Recovered, LooksAt, Reports, At, NoOp
  <2>2. op' = NoOp \/ op'.pc = "plan"
    BY <1>12, <2>1 DEF RecoverAgain, Ops, GoesOn, Returns, LooksAt, Recovered, At, Release, Failed
  <2> QED BY <2>2, TrackedElse
<1>13. ASSUME BeginTurn PROVE Tracked'
  <2>1. op' = NoOp
    BY <1>13 DEF BeginTurn, Release
  <2> QED BY <2>1, TrackedElse
<1>14. ASSUME LetGo PROVE Tracked'
  <2>1. op' = NoOp
    BY <1>14 DEF LetGo, Release
  <2> QED BY <2>1, TrackedElse
<1>15. ASSUME PlanRestore PROVE Tracked'
  <2>1. op # NoOp /\ op \in Ops /\ order' = order
    BY <1>15, OpIs DEF PlanRestore, Recovered, At, NoOp
  <2>2. ASSUME RaisesOut PROVE Tracked'
    <3>1. op' = NoOp \/ op'.pc = "recover"
      BY <2>1, <2>2 DEF RaisesOut, Failed, Release, Returns, Ops
    <3> QED BY <3>1, TrackedElse
  <2>3. ASSUME Plan(UNION {manifest'[t].noted : t \in Selected},
                    {p \in Paths : Chain(manifest', Branch(op.target), p) # << >>},
                    LAMBDA p : Chain(manifest', Branch(op.target), p))
        PROVE  Tracked'
    <3> DEFINE tracked == {p \in Paths : Chain(manifest', Branch(op.target), p) # << >>}
    <3>1. op'.pc = "swap" /\ op'.target = op.target /\ op'.todo \subseteq tracked
      BY <2>1, <2>3 DEF Plan, Ops
    <3>2. \A p \in tracked : Undoes(p)'
      <4>1. Branch(op.target)' = Branch(op.target)
        BY <2>1, <3>1, BranchKept
      <4> SUFFICES ASSUME NEW p \in tracked PROVE Undoes(p)'
        OBVIOUS
      <4>2. Undoes(p)' <=> Chain(manifest', Branch(op.target)', p) # << >>
        BY DEF Undoes, Chain
      <4> QED BY <4>1, <4>2
    <3> HIDE DEF tracked
    <3> QED BY <3>1, <3>2 DEF Tracked
  <2> QED BY <1>15, <2>2, <2>3 DEF PlanRestore
<1>16. ASSUME NEW p \in Paths, CheckFile(p) PROVE Tracked'
  <2>1. op # NoOp /\ op \in Ops /\ UNCHANGED <<order, manifest, unseen>> /\ op.pc = "swap" /\ p \in op.todo
    BY <1>16, OpIs DEF CheckFile, At, NoOp, disk, ghosts
  <2>2. CASE op' = [op EXCEPT !.todo = @ \ {p}, !.skipped = @ \cup {p}]
    <3>1. op'.pc = "swap" /\ op'.target = op.target /\ op'.todo = op.todo \ {p}
      BY <2>1, <2>2 DEF Ops
    <3> QED BY <2>1, <3>1, TrackedGoesOn
  <2>3. CASE op' = [op EXCEPT !.todo = {}, !.skipped = @ \cup op.todo, !.writable = FALSE]
    <3>1. op'.pc = "swap" /\ op'.target = op.target /\ op'.todo = {}
      BY <2>1, <2>3 DEF Ops
    <3> QED BY <2>1, <3>1, TrackedGoesOn
  <2>4. CASE /\ op' = [op EXCEPT !.pc = "rename", !.cur = p, !.todo = @ \ {p}, !.raced = FALSE]
             /\ Same(file[p], Expected(Chain(manifest, Branch(op.target), p)))
    <3>1. op'.pc = "rename" /\ op'.target = op.target /\ op'.todo = op.todo \ {p} /\ op'.cur = p
      BY <2>1, <2>4 DEF Ops
    <3>2. Undoes(p) /\ op.target \in Range(order) /\ HistoryTyped
      BY <2>1 DEF IInv, Tracked, Aims, Typed
    <3>3. file[p] \in EndsOf(manifest, p)
      BY <2>4, <3>2, Undone DEF Same
    <3>4. p \notin unseen
      BY <3>3, LeftHolds DEF IInv, Unseen
    <3>5. \A q \in op.todo : Undoes(q)
      BY <2>1 DEF IInv, Tracked
    <3>6. \A q : Undoes(q)' <=> Undoes(q)
      BY <2>1, <3>1, UndoesKept
    <3> QED BY <2>1, <3>1, <3>2, <3>4, <3>5, <3>6 DEF Tracked
  <2> QED BY <1>16, <2>2, <2>3, <2>4 DEF CheckFile, Skips
<1>17. ASSUME NEW p \in Paths, RenameFile(p) PROVE Tracked'
  <2>1. op # NoOp /\ op \in Ops /\ UNCHANGED <<order, manifest>> /\ op.pc = "rename"
    BY <1>17, OpIs DEF RenameFile, At, NoOp, disk
  <2>2. op'.pc = "swap" /\ op'.target = op.target /\ op'.todo \subseteq op.todo
    <3>1. \/ op' = [op EXCEPT !.pc = "swap", !.cur = "none", !.raced = FALSE, !.skipped = @ \cup {p}]
          \/ op' = [op EXCEPT !.pc = "swap", !.cur = "none", !.raced = FALSE, !.restored = Adds(p)]
          \/ op' = [op EXCEPT !.pc = "swap", !.cur = "none", !.raced = FALSE, !.restored = Adds(p),
                              !.todo = {}, !.skipped = @ \cup op.todo, !.warned = TRUE, !.writable = FALSE]
      BY <1>17 DEF RenameFile
    <3>2. CASE op' = [op EXCEPT !.pc = "swap", !.cur = "none", !.raced = FALSE, !.skipped = @ \cup {p}]
      BY <2>1, <3>2 DEF Ops
    <3>3. CASE op' = [op EXCEPT !.pc = "swap", !.cur = "none", !.raced = FALSE, !.restored = Adds(p)]
      BY <2>1, <3>3 DEF Ops
    <3>4. CASE op' = [op EXCEPT !.pc = "swap", !.cur = "none", !.raced = FALSE, !.restored = Adds(p),
                                !.todo = {}, !.skipped = @ \cup op.todo, !.warned = TRUE, !.writable = FALSE]
      BY <2>1, <3>4 DEF Ops
    <3> QED BY <3>1, <3>2, <3>3, <3>4
  <2> QED BY <2>1, <2>2, TrackedGoesOn
<1>18. ASSUME CommitRestore PROVE Tracked'
  <2>1. op # NoOp /\ op \in Ops
    BY <1>18, OpIs DEF CommitRestore, Recovered, LooksAt, Reports, At, NoOp
  <2>2. op' = NoOp \/ op'.pc \in {"apply", "close"}
    BY <1>18, <2>1 DEF CommitRestore, Ops, GoesOn, Returns, LooksAt, Recovered, At, Release, Failed
  <2> QED BY <2>2, TrackedElse
<1>19. ASSUME ApplyRestore PROVE Tracked'
  <2>1. op # NoOp /\ op \in Ops
    BY <1>19, OpIs DEF ApplyRestore, Recovered, LooksAt, Reports, At, NoOp
  <2>2. op' = NoOp \/ op'.pc = "close"
    BY <1>19, <2>1 DEF ApplyRestore, Ops, GoesOn, Returns, LooksAt, Recovered, At, Release, Failed
  <2> QED BY <2>2, TrackedElse
<1>20. ASSUME CloseRestore PROVE Tracked'
  <2>1. op' = NoOp
    BY <1>20 DEF CloseRestore
  <2> QED BY <2>1, TrackedElse
<1>21. ASSUME CloseRecovered PROVE Tracked'
  <2>1. op # NoOp /\ op \in Ops
    BY <1>21, OpIs DEF CloseRecovered, Recovered, LooksAt, Reports, At, NoOp
  <2>2. op' = NoOp \/ op'.pc = "recover"
    BY <1>21, <2>1 DEF CloseRecovered, Ops, GoesOn, Returns, LooksAt, Recovered, At, Release, Failed
  <2> QED BY <2>2, TrackedElse
<1>22. ASSUME CutBranch PROVE Tracked'
  <2>1. op # NoOp /\ op \in Ops
    BY <1>22, OpIs DEF CutBranch, Recovered, LooksAt, Reports, At, NoOp
  <2>2. op' = NoOp \/ op'.pc = "apply"
    BY <1>22, <2>1 DEF CutBranch, Ops, GoesOn, Returns, LooksAt, Recovered, At, Release, Failed
  <2> QED BY <2>2, TrackedElse
<1>23. ASSUME ApplyCut PROVE Tracked'
  <2>1. op' = NoOp
    BY <1>23 DEF ApplyCut, Release
  <2> QED BY <2>1, TrackedElse
<1>24. ASSUME NEW p \in Paths, HandEdit(p) PROVE Tracked'
  <2>1. UNCHANGED <<order, manifest>> /\ unseen' \subseteq unseen \cup {p}
    BY <1>24 DEF HandEdit, disk
  <2>2. CASE op = NoOp
    <3>1. op' = NoOp
      BY <1>24, <2>2 DEF HandEdit
    <3> QED BY <3>1, TrackedElse
  <2>3. CASE op # NoOp
    <3>1. op \in Ops
      BY <2>3, OpIs
    <3>2. /\ op'.pc = op.pc /\ op'.target = op.target /\ op'.todo = op.todo /\ op'.cur = op.cur
          /\ IF op.cur = p THEN op'.raced ELSE op'.raced = op.raced
      BY <1>24, <2>3, <3>1 DEF HandEdit, Ops
    <3>3. \A q : Undoes(q)' <=> Undoes(q)
      BY <2>1, <3>2, UndoesKept
    <3> QED BY <2>1, <3>2, <3>3 DEF IInv, Tracked
  <2> QED BY <2>2, <2>3
<1>25. ASSUME Crash PROVE Tracked'
  <2>1. op' = NoOp
    BY <1>25 DEF Crash, Release
  <2> QED BY <2>1, TrackedElse
<1> QED
  BY <1>1, <1>2, <1>3, <1>4, <1>5, <1>6, <1>7, <1>8, <1>9, <1>10, <1>11, <1>12, <1>13,
     <1>14, <1>15, <1>16, <1>17, <1>18, <1>19, <1>20, <1>21, <1>22, <1>23, <1>24,
     <1>25 DEF Next

LEMMA JournalsTyped ==
  ASSUME IInv
  PROVE  journals \in Seq(Journal) /\ DOMAIN journals = 1 .. Len(journals) /\ Len(journals) \in Nat
BY DEF IInv, Typed, WorkTyped

LEMMA OpNumbers ==
  ASSUME op \in Ops
  PROVE  op.at \in Nat \ {0} /\ op.upto \in Nat /\ op.journal \in Nat /\ op.nested \in BOOLEAN /\ op.pc # "none"
BY DEF Ops, Steps

LEMMA LoggedKept ==
  ASSUME IInv, UNCHANGED <<journals, op>>
  PROVE  Logged'
BY DEF IInv, Logged, Planned

LEMMA LoggedReleases ==
  ASSUME op' = NoOp, NEW js \in Seq(Journal), journals' = Live(js)
  PROVE  Logged'
<1>1. journals' \in Seq(Journal) /\ \A j \in Range(journals') : Matters(j)
  BY LiveIs
<1>2. \A i \in DOMAIN journals' : journals'[i] \in Range(journals')
  BY DEF Range
<1> QED BY <1>1, <1>2 DEF Logged, Matters

\* The operation goes on with the same journals.
SameLog == UNCHANGED <<op.at, op.upto, op.nested, op.target, op.journal>>
LEMMA LoggedGoesOn ==
  ASSUME IInv, op # NoOp, op'.pc # "none", journals' = journals, SameLog,
         op'.pc = "recover" => op.pc = "recover" \/ op.nested, Planned' => Planned
  PROVE  Logged'
<1>1. op' # NoOp
  BY DEF NoOp
<1> QED BY <1>1 DEF IInv, Logged, SameLog, Matters

LEMMA LoggedReturns ==
  ASSUME IInv, op # NoOp, op.pc = "recover" \/ op.nested,
         op'.pc = "recover", op'.nested = FALSE, op'.at = op.at + 1, op'.upto = op.upto,
         Len(journals') = Len(journals), \A i \in op.at + 1 .. op.upto : journals'[i] = journals[i]
  PROVE  Logged'
<1>1. op' # NoOp /\ ~Planned'
  BY DEF NoOp, Planned
<1>2. op.upto <= Len(journals) /\ \A i \in op.at .. op.upto : Matters(journals[i])
  BY DEF IInv, Logged
<1>3. op.at \in Nat /\ op.upto \in Nat
  BY OpIs, OpNumbers
<1>4. \A i \in op.at + 1 .. op.upto : i \in op.at .. op.upto
  BY <1>3
<1>5. \A i \in op.at + 1 .. op.upto : Matters(journals'[i])
  BY <1>2, <1>4
<1> QED BY <1>1, <1>2, <1>5 DEF Logged, Matters

\* One journal is closed.
LEMMA EndsIs ==
  ASSUME IInv, op \in Ops, NEW need \in BOOLEAN, NEW js \in Seq(Journal), op.at \in 1 .. Len(js),
         journals' = [js EXCEPT ![op.at] = [@ EXCEPT !.finished = TRUE, !.required = need]]
  PROVE  /\ Len(journals') = Len(js) /\ \A i \in 1 .. Len(js) : i # op.at => journals'[i] = js[i]
         /\ journals'[op.at].target = js[op.at].target /\ journals'[op.at].required = need
<1>1. js[op.at] \in Journal
  OBVIOUS
<1>2. journals'[op.at] = [js[op.at] EXCEPT !.finished = TRUE, !.required = need]
  <2>1. op.at \in DOMAIN js
    OBVIOUS
  <2> DEFINE x == op.at
             v == [js[op.at] EXCEPT !.finished = TRUE, !.required = need]
  <2>2. journals' = [js EXCEPT ![x] = v] /\ x \in DOMAIN js
    BY <2>1
  <2> HIDE DEF x, v
  <2>3. journals'[x] = v
    BY <2>2
  <2> QED BY <2>3 DEF x, v
<1>3. journals'[op.at].target = js[op.at].target /\ journals'[op.at].required = need
  BY <1>1, <1>2 DEF Journal
<1> QED BY <1>3

LEMMA AtIs ==
  ASSUME IInv, op # NoOp, op.pc = "recover" \/ op.nested, op.at <= op.upto
  PROVE  op.at \in 1 .. Len(journals) /\ op.at \in op.at .. op.upto
<1>1. op.at \in Nat \ {0} /\ op.upto \in Nat
  BY OpIs, OpNumbers
<1>2. op.upto <= Len(journals)
  BY DEF IInv, Logged
<1> QED BY <1>1, <1>2, JournalsTyped

LEMMA LoggedEnds ==
  ASSUME IInv, op # NoOp, op.pc = "recover" \/ op.nested, op.at <= op.upto, NEW need \in BOOLEAN, Ends(need),
         op'.pc = "recover", op'.nested = FALSE, op'.at = op.at + 1, op'.upto = op.upto
  PROVE  Logged'
<1>1. op \in Ops /\ journals \in Seq(Journal) /\ op.at \in 1 .. Len(journals)
  BY OpIs, AtIs
<1>2. Len(journals') = Len(journals) /\ \A i \in 1 .. Len(journals) : i # op.at => journals'[i] = journals[i]
  BY <1>1, EndsIs DEF Ends
<1>3. op.upto \in Nat /\ op.upto <= Len(journals)
  BY <1>1, OpNumbers DEF IInv, Logged
<1>4. \A i \in op.at + 1 .. op.upto : i \in 1 .. Len(journals) /\ i # op.at
  BY <1>1, <1>3
<1> QED BY <1>2, <1>4, LoggedReturns

LEMMA AcquireLogged ==
  ASSUME IInv, op = NoOp, NEW purpose, NEW t, NEW retain, Acquire(purpose, t, retain)
  PROVE  Logged'
<1>1. journals' = journals /\ (op' = NoOp \/ op' = Owner(purpose, t, retain))
  BY DEF Acquire
<1>2. CASE op' = NoOp
  BY <1>1, <1>2, LoggedKept
<1>3. CASE op' = Owner(purpose, t, retain)
  <2>1. /\ op'.pc = "recover" /\ op'.nested = FALSE /\ op'.at = 1 /\ op'.upto = Len(journals)
        /\ op' # NoOp /\ ~Planned'
    BY <1>3 DEF Owner, NoOp, Planned
  <2>2. \A i \in 1 .. Len(journals) : Matters(journals[i])
    BY JournalsTyped DEF IInv, Logged
  <2> QED BY <1>1, <2>1, <2>2, JournalsTyped DEF Logged, Matters
<1> QED BY <1>1, <1>2, <1>3

LEMMA RecoveredCloses ==
  ASSUME CloseRecovered
  PROVE  \E own \in {journals, Concludes(journals)}, need \in BOOLEAN :
           /\ half' = IF need THEN half ELSE half \ {op.target}
           /\ required' = IF need THEN required \cup {op.target} ELSE required
           /\ \/ op' = NoOp /\ journals' = Live(own)
              \/ Returns /\ journals' = [own EXCEPT ![op.at] = [@ EXCEPT !.finished = TRUE, !.required = need]]
<1>1. PICK unwritten \in {FALSE, op.writable}, lost \in BOOLEAN :
        LET need == ~Settled \/ unwritten
            own == IF op.writable /\ ~unwritten THEN Concludes(journals) ELSE journals IN
        /\ half' = IF need THEN half ELSE half \ {op.target}
        /\ required' = IF need THEN required \cup {op.target} ELSE required
        /\ \/ op' = NoOp /\ journals' = Live(own)
           \/ Returns /\ journals' = [own EXCEPT ![op.at] = [@ EXCEPT !.finished = TRUE, !.required = need]]
  BY DEF CloseRecovered
<1>2. (~Settled \/ unwritten) \in BOOLEAN
  OBVIOUS
<1> QED BY <1>1, <1>2

LEMMA LoggedStep ==
  ASSUME IInv, Next
  PROVE  Logged'
<1>1. ASSUME NEW c \in Calls, NEW ps \in Targets, CallPre(c, ps) PROVE Logged'
  <2>1. UNCHANGED <<journals, op>>
    BY <1>1 DEF CallPre, disk
  <2> QED BY <2>1, LoggedKept
<1>2. ASSUME NEW c \in Calls, NEW p \in Paths, ToolWrites(c, p) PROVE Logged'
  <2>1. UNCHANGED <<journals, op>>
    BY <1>2 DEF ToolWrites, disk
  <2> QED BY <2>1, LoggedKept
<1>3. ASSUME NEW c \in Calls, CallAfter(c) PROVE Logged'
  <2>1. UNCHANGED <<journals, op>>
    BY <1>3 DEF CallAfter, disk
  <2> QED BY <2>1, LoggedKept
<1>4. ASSUME FinishTurn PROVE Logged'
  <2>1. UNCHANGED <<journals, op>>
    BY <1>4 DEF FinishTurn, disk
  <2> QED BY <2>1, LoggedKept
<1>5. ASSUME AskTurn PROVE Logged'
  <2>1. op = NoOp /\ Acquire("begin", 0, FALSE)
    BY <1>5 DEF AskTurn, Idle, IInv, Quiet
  <2> QED BY <2>1, AcquireLogged
<1>6. ASSUME NEW t \in Ids, NEW retain \in BOOLEAN, AskRestore(t, retain) PROVE Logged'
  <2>1. op = NoOp /\ Acquire("restore", t, retain)
    BY <1>6 DEF AskRestore, Idle, IInv, Quiet
  <2> QED BY <2>1, AcquireLogged
<1>7. ASSUME NEW t \in Ids, Retry(t) PROVE Logged'
  <2>1. op = NoOp /\ Acquire("restore", t, FALSE)
    BY <1>7 DEF Retry, Idle, IInv, Quiet
  <2> QED BY <2>1, AcquireLogged
<1>8. ASSUME NEW t \in Ids, AskCut(t) PROVE Logged'
  <2>1. op = NoOp /\ Acquire("cut", t, FALSE)
    BY <1>8 DEF AskCut, Idle, IInv, Quiet
  <2> QED BY <2>1, AcquireLogged
<1>9. ASSUME Start PROVE Logged'
  <2>1. life = "down" /\ Acquire("start", 0, FALSE)
    BY <1>9 DEF Start
  <2>2. op = NoOp
    BY <2>1 DEF IInv, Quiet
  <2> QED BY <2>1, <2>2, AcquireLogged
<1>10. ASSUME RecoverFinished PROVE Logged'
  <2>1. op # NoOp /\ op \in Ops /\ op.pc = "recover" /\ op.at <= op.upto
    BY <1>10, OpIs DEF RecoverFinished, LooksAt, At, NoOp
  <2>2. \/ GoesOn /\ journals' = journals
        \/ GoesOn /\ Ends(FALSE)
        \/ Release
    BY <1>10 DEF RecoverFinished, Failed
  <2>3. ~op.nested
    BY <2>1 DEF IInv, Aims
  <2>4. GoesOn => op'.pc = "recover" /\ op'.nested = FALSE /\ op'.at = op.at + 1 /\ op'.upto = op.upto
    BY <2>1, <2>3 DEF GoesOn, Ops
  <2>5. CASE GoesOn /\ journals' = journals
    BY <2>1, <2>4, <2>5, LoggedReturns
  <2>6. CASE GoesOn /\ Ends(FALSE)
    BY <2>1, <2>4, <2>6, LoggedEnds
  <2>7. CASE Release
    BY <2>7, JournalsTyped, LoggedReleases DEF Release
  <2> QED BY <2>2, <2>5, <2>6, <2>7
<1>11. ASSUME RecoverCommitted PROVE Logged'
  <2>1. op # NoOp /\ op \in Ops /\ op.pc = "recover" /\ op.at <= op.upto
    BY <1>11, OpIs DEF RecoverCommitted, LooksAt, At, NoOp
  <2>2. \/ GoesOn /\ journals' = journals
        \/ GoesOn /\ Ends(FALSE)
        \/ Release
    BY <1>11 DEF RecoverCommitted, Failed
  <2>3. ~op.nested
    BY <2>1 DEF IInv, Aims
  <2>4. GoesOn => op'.pc = "recover" /\ op'.nested = FALSE /\ op'.at = op.at + 1 /\ op'.upto = op.upto
    BY <2>1, <2>3 DEF GoesOn, Ops
  <2>5. CASE GoesOn /\ journals' = journals
    BY <2>1, <2>4, <2>5, LoggedReturns
  <2>6. CASE GoesOn /\ Ends(FALSE)
    BY <2>1, <2>4, <2>6, LoggedEnds
  <2>7. CASE Release
    BY <2>7, JournalsTyped, LoggedReleases DEF Release
  <2> QED BY <2>2, <2>5, <2>6, <2>7
<1>12. ASSUME RecoverAgain PROVE Logged'
  <2>1. op # NoOp /\ op \in Ops /\ op.pc = "recover" /\ op.at <= op.upto /\ journals' = journals
    BY <1>12, OpIs DEF RecoverAgain, LooksAt, At, NoOp, disk
  <2>2. /\ op' = [op EXCEPT !.pc = "plan", !.nested = TRUE, !.target = journals[op.at].target,
                            !.retain = journals[op.at].retain]
        /\ ~journals[op.at].finished
    BY <1>12 DEF RecoverAgain, LooksAt
  <2>3. /\ op'.pc = "plan" /\ op'.nested = TRUE /\ op'.target = journals[op.at].target
        /\ op'.at = op.at /\ op'.upto = op.upto
    BY <2>1, <2>2 DEF Ops
  <2>4. op' # NoOp /\ ~Planned'
    BY <2>3 DEF NoOp, Planned
  <2> QED BY <2>1, <2>2, <2>3, <2>4 DEF IInv, Logged, Matters
<1>13. ASSUME BeginTurn PROVE Logged'
  <2>1. op' = NoOp /\ journals' = Live(journals)
    BY <1>13 DEF BeginTurn, Release
  <2> QED BY <2>1, JournalsTyped, LoggedReleases
<1>14. ASSUME LetGo PROVE Logged'
  <2>1. op' = NoOp /\ journals' = Live(journals)
    BY <1>14 DEF LetGo, Release
  <2> QED BY <2>1, JournalsTyped, LoggedReleases
<1>15. ASSUME PlanRestore PROVE Logged'
  <2>1. op # NoOp /\ op \in Ops /\ (op.pc = "plan" \/ op.pc = "recover")
    BY <1>15, OpIs DEF PlanRestore, Recovered, At, NoOp
  <2>2. ASSUME RaisesOut PROVE Logged'
    <3>1. (op.nested /\ Ends(TRUE) /\ Returns) \/ Release
      BY <2>2 DEF RaisesOut, Failed
    <3>2. CASE op.nested /\ Ends(TRUE) /\ Returns
      <4>1. op'.pc = "recover" /\ op'.nested = FALSE /\ op'.at = op.at + 1 /\ op'.upto = op.upto
        BY <2>1, <3>2 DEF Returns, Ops
      <4>2. op.at <= op.upto
        BY <2>1, <3>2 DEF IInv, Logged
      <4> QED BY <2>1, <3>2, <4>1, <4>2, LoggedEnds
    <3>3. CASE Release
      BY <3>3, JournalsTyped, LoggedReleases DEF Release
    <3> QED BY <3>1, <3>2, <3>3
  <2>3. ASSUME journals' = Append(journals, [target |-> op.target, retain |-> op.retain,
                                             finished |-> FALSE, required |-> FALSE]),
               Plan(UNION {manifest'[t].noted : t \in Selected},
                    {p \in Paths : Chain(manifest', Branch(op.target), p) # << >>},
                    LAMBDA p : Chain(manifest', Branch(op.target), p))
        PROVE  Logged'
    <3>1. /\ op'.pc = "swap" /\ op'.target = op.target /\ op'.nested = op.nested /\ op'.at = op.at
          /\ op'.upto = op.upto /\ op'.journal = Len(journals')
      BY <2>1, <2>3 DEF Plan, Ops
    <3>2. Len(journals') = Len(journals) + 1 /\ DOMAIN journals' = 1 .. Len(journals')
          /\ \A i \in 1 .. Len(journals) : journals'[i] = journals[i]
      BY <2>3, JournalsTyped
    <3>3. journals'[Len(journals) + 1] = [target |-> op.target, retain |-> op.retain,
                                          finished |-> FALSE, required |-> FALSE]
      BY <2>3, JournalsTyped
    <3>4. op.upto <= Len(journals) /\ op.upto \in Nat /\ op.at \in Nat \ {0} /\ Len(journals) \in Nat
      BY <2>1, OpNumbers, JournalsTyped DEF IInv, Logged
    <3>5. \A i \in op.at .. op.upto : i \in 1 .. Len(journals)
      BY <3>4
    <3>6. op' # NoOp /\ op'.upto <= Len(journals')
      BY <3>1, <3>2, <3>4 DEF NoOp
    <3>7. op.nested => /\ \A i \in op.at .. op.upto : Matters(journals'[i])
                       /\ op.at <= op.upto /\ ~journals'[op.at].finished /\ journals'[op.at].target = op.target
      <4>1. op.nested => /\ \A i \in op.at .. op.upto : Matters(journals[i])
                         /\ op.at <= op.upto /\ ~journals[op.at].finished /\ journals[op.at].target = op.target
        BY <2>1 DEF IInv, Logged
      <4>2. op.at <= op.upto => op.at \in op.at .. op.upto
        BY <3>4
      <4> QED BY <3>2, <3>5, <4>1, <4>2
    <3>8. /\ op'.journal \in DOMAIN journals' /\ op'.upto < op'.journal
          /\ ~journals'[op'.journal].finished /\ journals'[op'.journal].target = op'.target
      BY <3>1, <3>2, <3>3, <3>4
    <3> QED BY <3>1, <3>6, <3>7, <3>8 DEF Logged, Matters
  <2> QED BY <1>15, <2>2, <2>3 DEF PlanRestore
<1>16. ASSUME NEW p \in Paths, CheckFile(p) PROVE Logged'
  <2>1. op # NoOp /\ op \in Ops /\ journals' = journals /\ op.pc = "swap"
    BY <1>16, OpIs DEF CheckFile, Reports, At, NoOp, disk
  <2>2. SameLog /\ op'.purpose = op.purpose /\ op'.pc \in {"swap", "rename", "apply", "close"}
    <3>1. \/ op' = [op EXCEPT !.pc = "rename", !.cur = p, !.todo = @ \ {p}, !.raced = FALSE]
          \/ op' = [op EXCEPT !.todo = @ \ {p}, !.skipped = @ \cup {p}]
          \/ op' = [op EXCEPT !.todo = {}, !.skipped = @ \cup op.todo, !.writable = FALSE]
      BY <1>16 DEF CheckFile, Skips
    <3>2. CASE op' = [op EXCEPT !.pc = "rename", !.cur = p, !.todo = @ \ {p}, !.raced = FALSE]
      BY <2>1, <3>2 DEF SameLog, Ops
    <3>3. CASE op' = [op EXCEPT !.todo = @ \ {p}, !.skipped = @ \cup {p}]
      BY <2>1, <3>3 DEF SameLog, Ops
    <3>4. CASE op' = [op EXCEPT !.todo = {}, !.skipped = @ \cup op.todo, !.writable = FALSE]
      BY <2>1, <3>4 DEF SameLog, Ops
    <3> QED BY <3>1, <3>2, <3>3, <3>4
  <2>3. Planned' => Planned
    BY <2>1, <2>2 DEF Planned, SameLog
  <2> QED BY <2>1, <2>2, <2>3, LoggedGoesOn
<1>17. ASSUME NEW p \in Paths, RenameFile(p) PROVE Logged'
  <2>1. op # NoOp /\ op \in Ops /\ journals' = journals /\ op.pc = "rename"
    BY <1>17, OpIs DEF RenameFile, Reports, At, NoOp, disk
  <2>2. SameLog /\ op'.purpose = op.purpose /\ op'.pc \in {"swap", "rename", "apply", "close"}
    <3>1. \/ op' = [op EXCEPT !.pc = "swap", !.cur = "none", !.raced = FALSE, !.skipped = @ \cup {p}]
          \/ op' = [op EXCEPT !.pc = "swap", !.cur = "none", !.raced = FALSE, !.restored = Adds(p)]
          \/ op' = [op EXCEPT !.pc = "swap", !.cur = "none", !.raced = FALSE, !.restored = Adds(p),
                              !.todo = {}, !.skipped = @ \cup op.todo, !.warned = TRUE, !.writable = FALSE]
      BY <1>17 DEF RenameFile
    <3>2. CASE op' = [op EXCEPT !.pc = "swap", !.cur = "none", !.raced = FALSE, !.skipped = @ \cup {p}]
      BY <2>1, <3>2 DEF SameLog, Ops
    <3>3. CASE op' = [op EXCEPT !.pc = "swap", !.cur = "none", !.raced = FALSE, !.restored = Adds(p)]
      BY <2>1, <3>3 DEF SameLog, Ops
    <3>4. CASE op' = [op EXCEPT !.pc = "swap", !.cur = "none", !.raced = FALSE, !.restored = Adds(p),
                              !.todo = {}, !.skipped = @ \cup op.todo, !.warned = TRUE, !.writable = FALSE]
      BY <2>1, <3>4 DEF SameLog, Ops
    <3> QED BY <3>1, <3>2, <3>3, <3>4
  <2>3. Planned' => Planned
    BY <2>1, <2>2 DEF Planned, SameLog
  <2> QED BY <2>1, <2>2, <2>3, LoggedGoesOn
<1>18. ASSUME CommitRestore PROVE Logged'
  <2>1. op # NoOp /\ op \in Ops /\ journals' = journals /\ op.pc = "swap"
    BY <1>18, OpIs DEF CommitRestore, Reports, At, NoOp, disk
  <2>2. SameLog /\ op'.purpose = op.purpose /\ op'.pc \in {"swap", "rename", "apply", "close"}
    <3>1. \/ op' = [op EXCEPT !.pc = "apply", !.skipped = Unsettled]
          \/ op' = [op EXCEPT !.pc = "close", !.need = TRUE, !.skipped = Unsettled]
      BY <1>18 DEF CommitRestore
    <3>2. CASE op' = [op EXCEPT !.pc = "apply", !.skipped = Unsettled]
      BY <2>1, <3>2 DEF SameLog, Ops
    <3>3. CASE op' = [op EXCEPT !.pc = "close", !.need = TRUE, !.skipped = Unsettled]
      BY <2>1, <3>3 DEF SameLog, Ops
    <3> QED BY <3>1, <3>2, <3>3
  <2>3. Planned' => Planned
    BY <2>1, <2>2 DEF Planned, SameLog
  <2> QED BY <2>1, <2>2, <2>3, LoggedGoesOn
<1>19. ASSUME ApplyRestore PROVE Logged'
  <2>1. op # NoOp /\ op \in Ops /\ journals' = journals /\ op.pc = "apply" /\ (op.purpose # "cut" \/ op.nested)
    BY <1>19, OpIs DEF ApplyRestore, Reports, At, NoOp, disk
  <2>2. SameLog /\ op'.purpose = op.purpose /\ op'.pc \in {"swap", "rename", "apply", "close"}
    <3>1. \/ op' = [op EXCEPT !.pc = "close"]
          \/ op' = [op EXCEPT !.pc = "close", !.need = TRUE]
      BY <1>19 DEF ApplyRestore
    <3>2. CASE op' = [op EXCEPT !.pc = "close"]
      BY <2>1, <3>2 DEF SameLog, Ops
    <3>3. CASE op' = [op EXCEPT !.pc = "close", !.need = TRUE]
      BY <2>1, <3>3 DEF SameLog, Ops
    <3> QED BY <3>1, <3>2, <3>3
  <2>3. Planned' => Planned
    BY <2>1, <2>2 DEF Planned, SameLog
  <2> QED BY <2>1, <2>2, <2>3, LoggedGoesOn
<1>20. ASSUME CloseRestore PROVE Logged'
  <2>1. op # NoOp /\ op \in Ops
    BY <1>20, OpIs DEF CloseRestore, At, NoOp
  <2>2. op' = NoOp /\ \E js \in {journals, Concludes(journals), Cleared(Concludes(journals))} : journals' = Live(js)
    BY <1>20 DEF CloseRestore
  <2> QED BY <2>1, <2>2, ConcludesTyped, JournalsTyped, LoggedReleases
<1>21. ASSUME CloseRecovered PROVE Logged'
  <2>1. op # NoOp /\ op \in Ops /\ op.nested /\ op.pc = "close"
    BY <1>21, OpIs DEF CloseRecovered, At, NoOp
  <2>2. PICK own \in {journals, Concludes(journals)}, need \in BOOLEAN :
          \/ op' = NoOp /\ journals' = Live(own)
          \/ Returns /\ journals' = [own EXCEPT ![op.at] = [@ EXCEPT !.finished = TRUE, !.required = need]]
    BY <1>21, RecoveredCloses
  <2>3. own \in Seq(Journal) /\ Len(own) = Len(journals)
    BY <2>1, ConcludesTyped, JournalsTyped
  <2>4. CASE op' = NoOp /\ journals' = Live(own)
    BY <2>3, <2>4, LoggedReleases
  <2>5. CASE Returns /\ journals' = [own EXCEPT ![op.at] = [@ EXCEPT !.finished = TRUE, !.required = need]]
    <3>1. op'.pc = "recover" /\ op'.nested = FALSE /\ op'.at = op.at + 1 /\ op'.upto = op.upto
      BY <2>1, <2>5 DEF Returns, Ops
    <3>2. op.at <= op.upto /\ op.upto < op.journal /\ op.upto <= Len(journals)
      BY <2>1 DEF IInv, Logged, Planned
    <3>3. op.at \in 1 .. Len(own)
      BY <2>1, <2>3, <3>2, AtIs
    <3>4. Len(journals') = Len(own) /\ \A i \in 1 .. Len(own) : i # op.at => journals'[i] = own[i]
      BY <2>1, <2>3, <2>5, <3>3, EndsIs
    <3>5. \A i \in op.at + 1 .. op.upto : i \in 1 .. Len(journals) /\ i # op.at /\ i # op.journal
      BY <2>1, <2>3, <3>2, <3>3, OpNumbers
    <3>6. \A i \in 1 .. Len(journals) : i # op.journal => own[i] = journals[i]
      BY JournalsTyped DEF Concludes
    <3>7. \A i \in op.at + 1 .. op.upto : journals'[i] = journals[i]
      BY <2>3, <3>4, <3>5, <3>6
    <3> QED BY <2>1, <2>3, <3>1, <3>4, <3>7, LoggedReturns
  <2> QED BY <2>2, <2>4, <2>5
<1>22. ASSUME CutBranch PROVE Logged'
  <2>1. op # NoOp /\ op \in Ops /\ op.pc = "recover" /\ op.purpose = "cut"
    BY <1>22, OpIs DEF CutBranch, Recovered, At, NoOp
  <2>2. (op' = [op EXCEPT !.pc = "apply"] /\ journals' = journals) \/ (op' = NoOp /\ journals' = Live(journals))
    BY <1>22 DEF CutBranch, Release
  <2>3. CASE op' = [op EXCEPT !.pc = "apply"] /\ journals' = journals
    <3>1. SameLog /\ op'.pc = "apply" /\ op'.purpose = "cut" /\ ~op.nested
      BY <2>1, <2>3 DEF SameLog, Ops, IInv, Aims
    <3>2. ~Planned'
      BY <3>1 DEF Planned, SameLog
    <3> QED BY <2>1, <2>3, <3>1, <3>2, LoggedGoesOn
  <2>4. CASE op' = NoOp /\ journals' = Live(journals)
    BY <2>4, JournalsTyped, LoggedReleases
  <2> QED BY <2>2, <2>3, <2>4
<1>23. ASSUME ApplyCut PROVE Logged'
  <2>1. op' = NoOp /\ journals' = Live(journals)
    BY <1>23 DEF ApplyCut, Release
  <2> QED BY <2>1, JournalsTyped, LoggedReleases
<1>24. ASSUME NEW p \in Paths, HandEdit(p) PROVE Logged'
  <2>1. journals' = journals /\ (op' = op \/ (op # NoOp /\ op' = [op EXCEPT !.raced = TRUE]))
    BY <1>24 DEF HandEdit, disk
  <2>2. CASE op' = op
    BY <2>1, <2>2, LoggedKept
  <2>3. CASE op # NoOp /\ op' = [op EXCEPT !.raced = TRUE]
    <3>1. SameLog /\ op'.pc = op.pc /\ op'.purpose = op.purpose /\ op'.pc # "none"
      BY <2>3, OpIs, OpNumbers DEF SameLog, Ops
    <3>2. Planned' => Planned
      BY <3>1 DEF Planned, SameLog
    <3> QED BY <2>1, <2>3, <3>1, <3>2, LoggedGoesOn
  <2> QED BY <2>1, <2>2, <2>3
<1>25. ASSUME Crash PROVE Logged'
  <2>1. op' = NoOp /\ journals' = Live(journals)
    BY <1>25 DEF Crash, Release
  <2> QED BY <2>1, JournalsTyped, LoggedReleases
<1> QED
  BY <1>1, <1>2, <1>3, <1>4, <1>5, <1>6, <1>7, <1>8, <1>9, <1>10, <1>11, <1>12, <1>13,
     <1>14, <1>15, <1>16, <1>17, <1>18, <1>19, <1>20, <1>21, <1>22, <1>23, <1>24,
     <1>25 DEF Next

LEMMA HalfKept ==
  ASSUME IInv, UNCHANGED <<order, half, journals, required, op>>
  PROVE  HalfHeld'
BY DEF IInv, HalfHeld, Told, Matters

\* The operation goes on with the same journals to look at.
LEMMA HalfGoesOn ==
  ASSUME IInv, op # NoOp, UNCHANGED <<op.at, op.upto, op.nested>>,
         op'.pc = "recover" => op.pc = "recover" \/ op.nested,
         \A h \in half' : h \in half /\ h \in Range(order'), journals' = journals, required \subseteq required'
  PROVE  HalfHeld'
BY DEF IInv, HalfHeld, Told, Matters

LEMMA HalfReleases ==
  ASSUME op' = NoOp, NEW js \in Seq(Journal), journals' = Live(js),
         \A h \in half' : h \in Range(order') /\ \E i \in 1 .. Len(js) : js[i].target = h /\ Matters(js[i])
  PROVE  HalfHeld'
<1>1. journals' \in Seq(Journal) /\ \A j : j \in Range(journals') <=> j \in Range(js) /\ Matters(j)
  BY LiveIs
<1>2. ASSUME NEW h \in half' PROVE \E i \in 1 .. Len(journals') : journals'[i].target = h /\ Matters(journals'[i])
  <2>1. PICK i \in 1 .. Len(js) : js[i].target = h /\ Matters(js[i])
    BY <1>2
  <2>2. js[i] \in Range(journals')
    BY <1>1, <2>1 DEF Range
  <2>3. PICK k \in DOMAIN journals' : journals'[k] = js[i]
    BY <2>2 DEF Range
  <2>4. k \in 1 .. Len(journals')
    BY <1>1
  <2> QED BY <2>1, <2>3, <2>4
<1> QED BY <1>2 DEF HalfHeld, Told, Matters

LEMMA ReleaseHalf ==
  ASSUME IInv, Release, \A h \in half' : h \in half /\ h \in Range(order')
  PROVE  HalfHeld'
<1>1. \A h \in half' : \E i \in 1 .. Len(journals) : journals[i].target = h /\ Matters(journals[i])
  BY DEF IInv, HalfHeld, Told
<1> QED BY <1>1, JournalsTyped, HalfReleases DEF Release

\* The journal that was looked at is done with, and changed only its own target's.
LEMMA HalfReturns ==
  ASSUME IInv, op # NoOp, op.pc = "recover" \/ op.nested, op.at <= op.upto,
         op'.pc = "recover", op'.at = op.at + 1, op'.upto = op.upto,
         order' = order, half' \subseteq half, Len(journals') = Len(journals),
         NEW g, g = journals[op.at].target,
         \A i \in 1 .. Len(journals) : journals[i].target # g => journals'[i] = journals[i],
         \A h \in required : h \in required' \/ h = g,
         g \in half' => /\ g \in required'
                        /\ \E i \in 1 .. Len(journals) : journals'[i].target = g /\ Matters(journals'[i])
  PROVE  HalfHeld'
<1>1. op.at \in Nat \ {0} /\ op.upto \in Nat /\ op.upto <= Len(journals) /\ Len(journals) \in Nat
  BY OpIs, OpNumbers, JournalsTyped DEF IInv, Logged
<1>2. ASSUME NEW h \in half'
      PROVE  /\ \E i \in 1 .. Len(journals') : journals'[i].target = h /\ Matters(journals'[i])
             /\ h \in required' \/ \E i \in op.at + 1 .. op.upto : journals'[i].target = h /\ Matters(journals'[i])
  <2>1. CASE h = g
    BY <1>2, <2>1
  <2>2. CASE h # g
    <3>1. /\ \E i \in 1 .. Len(journals) : journals[i].target = h /\ Matters(journals[i])
          /\ h \in required \/ \E i \in op.at .. op.upto : journals[i].target = h /\ Matters(journals[i])
      BY <1>2 DEF IInv, HalfHeld, Told
    <3>2. \A i \in 1 .. Len(journals) : journals[i].target = h => journals'[i] = journals[i]
      BY <2>2
    <3>3. \A i \in op.at .. op.upto : journals[i].target = h => i \in op.at + 1 .. op.upto /\ i \in 1 .. Len(journals)
      BY <1>1, <2>2
    <3> QED BY <2>2, <3>1, <3>2, <3>3
  <2> QED BY <2>1, <2>2
<1>3. \A h \in half' : h \in Range(order')
  BY DEF IInv, HalfHeld
<1> QED BY <1>2, <1>3 DEF HalfHeld, Told, Matters

LEMMA AcquireHalf ==
  ASSUME IInv, op = NoOp, NEW purpose, NEW t, NEW retain, Acquire(purpose, t, retain)
  PROVE  HalfHeld'
<1>1. journals' = journals /\ (op' = NoOp \/ op' = Owner(purpose, t, retain))
  BY DEF Acquire
<1>2. \A h \in half' : h \in half /\ h \in Range(order')
  BY DEF Acquire, AppliesTx, TxFails, IInv, HalfHeld
<1>3. \A h \in half' : \E i \in 1 .. Len(journals') : journals'[i].target = h /\ Matters(journals'[i])
  BY <1>1, <1>2 DEF IInv, HalfHeld, Told
<1>4. CASE op' = NoOp
  BY <1>2, <1>3, <1>4 DEF HalfHeld, Told, Matters
<1>5. CASE op' = Owner(purpose, t, retain)
  <2>1. op'.at = 1 /\ op'.upto = Len(journals')
    BY <1>1, <1>5 DEF Owner
  <2> QED BY <1>2, <1>3, <2>1 DEF HalfHeld, Told, Matters
<1> QED BY <1>1, <1>4, <1>5

LEMMA OthersStay ==
  ASSUME IInv, op \in Ops, journals[op.journal].target = op.target,
         NEW js \in {journals, Concludes(journals), Cleared(Concludes(journals))}
  PROVE  /\ \A i \in 1 .. Len(journals) : journals[i].target # op.target => js[i] = journals[i]
         /\ js = Concludes(journals) => \A i \in 1 .. Len(journals) : i # op.journal => js[i] = journals[i]
<1>1. DOMAIN journals = 1 .. Len(journals) /\ DOMAIN Concludes(journals) = 1 .. Len(journals)
  BY ConcludesTyped, JournalsTyped
<1>2. \A i \in 1 .. Len(journals) : i # op.journal => Concludes(journals)[i] = journals[i]
  BY <1>1 DEF Concludes
<1>3. \A i \in 1 .. Len(journals) : journals[i].target # op.target => i # op.journal
  OBVIOUS
<1>4. \A i \in 1 .. Len(journals) : Concludes(journals)[i].target # op.target =>
        Cleared(Concludes(journals))[i] = Concludes(journals)[i]
  BY <1>1 DEF Cleared
<1> QED BY <1>2, <1>3, <1>4

\* No turn begins over a restore that changed files and was not concluded.
LEMMA NothingHalf ==
  ASSUME IInv, BeginTurn
  PROVE  half = {}
<1>1. op # NoOp /\ op.pc = "recover" /\ op.at > op.upto /\ required = {}
  BY DEF BeginTurn, Recovered, At, NoOp
<1>2. op.at \in Nat /\ op.upto \in Nat
  BY <1>1, OpIs, OpNumbers
<1>3. op.at .. op.upto = {}
  BY <1>1, <1>2
<1> QED BY <1>1, <1>3 DEF IInv, HalfHeld, Told

LEMMA HalfHeldStep ==
  ASSUME IInv, Next
  PROVE  HalfHeld'
<1>1. ASSUME NEW c \in Calls, NEW ps \in Targets, CallPre(c, ps) PROVE HalfHeld'
  <2>1. UNCHANGED <<order, half, journals, required, op>>
    BY <1>1 DEF CallPre, disk, ghosts
  <2> QED BY <2>1, HalfKept
<1>2. ASSUME NEW c \in Calls, NEW p \in Paths, ToolWrites(c, p) PROVE HalfHeld'
  <2>1. UNCHANGED <<order, half, journals, required, op>>
    BY <1>2 DEF ToolWrites, disk, ghosts
  <2> QED BY <2>1, HalfKept
<1>3. ASSUME NEW c \in Calls, CallAfter(c) PROVE HalfHeld'
  <2>1. UNCHANGED <<order, half, journals, required, op>>
    BY <1>3 DEF CallAfter, disk, ghosts
  <2> QED BY <2>1, HalfKept
<1>4. ASSUME FinishTurn PROVE HalfHeld'
  <2>1. UNCHANGED <<order, half, journals, required, op>>
    BY <1>4 DEF FinishTurn, disk, ghosts
  <2> QED BY <2>1, HalfKept
<1>5. ASSUME AskTurn PROVE HalfHeld'
  <2>1. op = NoOp /\ Acquire("begin", 0, FALSE)
    BY <1>5 DEF AskTurn, Idle
  <2> QED BY <2>1, AcquireHalf
<1>6. ASSUME NEW t \in Ids, NEW retain \in BOOLEAN, AskRestore(t, retain) PROVE HalfHeld'
  <2>1. op = NoOp /\ Acquire("restore", t, retain)
    BY <1>6 DEF AskRestore, Idle
  <2> QED BY <2>1, AcquireHalf
<1>7. ASSUME NEW t \in Ids, Retry(t) PROVE HalfHeld'
  <2>1. op = NoOp /\ Acquire("restore", t, FALSE)
    BY <1>7 DEF Retry, Idle
  <2> QED BY <2>1, AcquireHalf
<1>8. ASSUME NEW t \in Ids, AskCut(t) PROVE HalfHeld'
  <2>1. op = NoOp /\ Acquire("cut", t, FALSE)
    BY <1>8 DEF AskCut, Idle
  <2> QED BY <2>1, AcquireHalf
<1>9. ASSUME Start PROVE HalfHeld'
  <2>1. life = "down" /\ Acquire("start", 0, FALSE)
    BY <1>9 DEF Start
  <2>2. op = NoOp
    BY <2>1 DEF IInv, Quiet
  <2> QED BY <2>1, <2>2, AcquireHalf
<1>10. ASSUME RecoverFinished PROVE HalfHeld'
  <2>1. /\ op # NoOp /\ op \in Ops /\ op.pc = "recover" /\ op.at <= op.upto
        /\ order' = order /\ half' = half /\ journals[op.at].finished
    BY <1>10, OpIs DEF RecoverFinished, LooksAt, At, NoOp, ghosts
  <2> DEFINE g == journals[op.at].target
  <2>2. op.at \in 1 .. Len(journals) /\ op.at \in op.at .. op.upto
    BY <2>1, AtIs
  <2>3. journals[op.at].required
    BY <2>1, <2>2 DEF IInv, Logged, Matters
  <2>4. GoesOn => op'.pc = "recover" /\ op'.at = op.at + 1 /\ op'.upto = op.upto
    BY <2>1 DEF GoesOn, Ops
  <2>5. CASE g \in Range(order)
    <3>1. required' = required \cup {g} /\ GoesOn /\ journals' = journals
      BY <1>10, <2>3, <2>5 DEF RecoverFinished, LooksAt
    <3>2. \E i \in 1 .. Len(journals) : journals'[i].target = g /\ Matters(journals'[i])
      BY <2>2, <2>3, <3>1 DEF Matters
    <3> QED BY <2>1, <2>4, <3>1, <3>2, HalfReturns
  <2>6. CASE g \notin Range(order)
    <3>1. (GoesOn /\ Ends(FALSE) /\ required' = required \ {g}) \/ Release
      BY <1>10, <2>6 DEF RecoverFinished, LooksAt, Failed
    <3>2. g \notin half'
      BY <2>1, <2>6 DEF IInv, HalfHeld
    <3>3. CASE Release
      BY <2>1, <3>3, ReleaseHalf DEF IInv, HalfHeld
    <3>4. CASE GoesOn /\ Ends(FALSE) /\ required' = required \ {g}
      <4>1. Len(journals') = Len(journals) /\ \A i \in 1 .. Len(journals) : i # op.at => journals'[i] = journals[i]
        BY <2>1, <2>2, <3>4, JournalsTyped, EndsIs DEF Ends
      <4> QED BY <2>1, <2>4, <3>2, <3>4, <4>1, HalfReturns
    <3> QED BY <3>1, <3>3, <3>4
  <2> QED BY <2>5, <2>6
<1>11. ASSUME RecoverCommitted PROVE HalfHeld'
  <2>1. /\ op # NoOp /\ op \in Ops /\ op.pc = "recover" /\ op.at <= op.upto
        /\ order' = order /\ half' = half /\ required' = required
    BY <1>11, OpIs DEF RecoverCommitted, LooksAt, At, NoOp, ghosts
  <2> DEFINE g == journals[op.at].target
  <2>2. op.at \in 1 .. Len(journals) /\ op.at \in op.at .. op.upto
    BY <2>1, AtIs
  <2>3. (GoesOn /\ Ends(FALSE)) \/ Release
    BY <1>11 DEF RecoverCommitted, Failed
  <2>4. g \notin half'
    BY <1>11, <2>1 DEF RecoverCommitted, LooksAt, IInv, HalfHeld
  <2>5. CASE Release
    BY <2>1, <2>5, ReleaseHalf DEF IInv, HalfHeld
  <2>6. CASE GoesOn /\ Ends(FALSE)
    <3>1. op'.pc = "recover" /\ op'.at = op.at + 1 /\ op'.upto = op.upto
      BY <2>1, <2>6 DEF GoesOn, Ops
    <3>2. Len(journals') = Len(journals) /\ \A i \in 1 .. Len(journals) : i # op.at => journals'[i] = journals[i]
      BY <2>1, <2>2, <2>6, JournalsTyped, EndsIs DEF Ends
    <3> QED BY <2>1, <2>4, <3>1, <3>2, HalfReturns
  <2> QED BY <2>3, <2>5, <2>6
<1>12. ASSUME RecoverAgain PROVE HalfHeld'
  <2>1. /\ op # NoOp /\ op \in Ops /\ op.pc = "recover"
        /\ UNCHANGED <<order, half, journals, required>>
    BY <1>12, OpIs DEF RecoverAgain, LooksAt, At, NoOp, disk, memory, ghosts
  <2>2. op'.at = op.at /\ op'.upto = op.upto
    BY <1>12, <2>1 DEF RecoverAgain, Ops
  <2> QED BY <2>1, <2>2 DEF IInv, HalfHeld, Told, Matters
<1>13. ASSUME BeginTurn PROVE HalfHeld'
  <2>1. half = {}
    BY <1>13, NothingHalf
  <2>2. half' = {}
    BY <1>13, <2>1 DEF BeginTurn, ghosts
  <2> QED BY <2>2 DEF HalfHeld
<1>14. ASSUME LetGo PROVE HalfHeld'
  <2>1. Release /\ UNCHANGED <<half, order>>
    BY <1>14 DEF LetGo, ghosts
  <2> QED BY <2>1, ReleaseHalf DEF IInv, HalfHeld
<1>15. ASSUME PlanRestore PROVE HalfHeld'
  <2>1. op # NoOp /\ op \in Ops /\ (op.pc = "plan" \/ op.pc = "recover") /\ UNCHANGED <<order, half>>
    BY <1>15, OpIs DEF PlanRestore, Recovered, At, NoOp, ghosts
  <2>2. ASSUME RaisesOut PROVE HalfHeld'
    <3>1. (op.nested /\ Ends(TRUE) /\ required' = required \cup {op.target} /\ Returns) \/ Release
      BY <2>2 DEF RaisesOut, Failed
    <3>2. CASE op.nested /\ Ends(TRUE) /\ required' = required \cup {op.target} /\ Returns
      <4>1. op'.pc = "recover" /\ op'.at = op.at + 1 /\ op'.upto = op.upto
        BY <2>1, <3>2 DEF Returns, Ops
      <4>2. op.at <= op.upto /\ op.target = journals[op.at].target
        BY <2>1, <3>2 DEF IInv, Logged
      <4>3. op.at \in 1 .. Len(journals)
        BY <2>1, <3>2, <4>2, AtIs
      <4>4. /\ Len(journals') = Len(journals)
            /\ \A i \in 1 .. Len(journals) : i # op.at => journals'[i] = journals[i]
            /\ journals'[op.at].target = op.target /\ journals'[op.at].required
        BY <2>1, <3>2, <4>2, <4>3, JournalsTyped, EndsIs DEF Ends
      <4>5. \E i \in 1 .. Len(journals) : journals'[i].target = op.target /\ Matters(journals'[i])
        BY <4>3, <4>4 DEF Matters
      <4> QED BY <2>1, <3>2, <4>1, <4>2, <4>4, <4>5, HalfReturns
    <3>3. CASE Release
      BY <2>1, <3>3, ReleaseHalf DEF IInv, HalfHeld
    <3> QED BY <3>1, <3>2, <3>3
  <2>3. ASSUME journals' = Append(journals, [target |-> op.target, retain |-> op.retain,
                                             finished |-> FALSE, required |-> FALSE]),
               required' = required,
               Plan(UNION {manifest'[t].noted : t \in Selected},
                    {p \in Paths : Chain(manifest', Branch(op.target), p) # << >>},
                    LAMBDA p : Chain(manifest', Branch(op.target), p))
        PROVE  HalfHeld'
    <3>1. op'.pc = "swap" /\ op'.nested = op.nested /\ op'.at = op.at /\ op'.upto = op.upto
      BY <2>1, <2>3 DEF Plan, Ops
    <3>2. Len(journals') = Len(journals) + 1 /\ \A i \in 1 .. Len(journals) : journals'[i] = journals[i]
      BY <2>3, JournalsTyped
    <3>3. op.upto <= Len(journals) /\ op.upto \in Nat /\ op.at \in Nat \ {0} /\ Len(journals) \in Nat
      BY <2>1, OpNumbers, JournalsTyped DEF IInv, Logged
    <3>4. /\ \A i \in op.at .. op.upto : i \in 1 .. Len(journals)
          /\ \A i \in 1 .. Len(journals) : i \in 1 .. Len(journals')
      BY <3>2, <3>3
    <3>5. ASSUME NEW h \in half'
          PROVE  /\ h \in Range(order') /\ \E i \in 1 .. Len(journals') : journals'[i].target = h /\ Matters(journals'[i])
                 /\ op.nested => \/ h \in required'
                                 \/ \E i \in op.at .. op.upto : journals'[i].target = h /\ Matters(journals'[i])
      <4>1. /\ h \in Range(order) /\ \E i \in 1 .. Len(journals) : journals[i].target = h /\ Matters(journals[i])
            /\ op.nested => \/ h \in required
                            \/ \E i \in op.at .. op.upto : journals[i].target = h /\ Matters(journals[i])
        BY <2>1, <3>5 DEF IInv, HalfHeld, Told
      <4> QED BY <2>1, <2>3, <3>2, <3>4, <4>1
    <3> QED BY <3>1, <3>5 DEF HalfHeld, Told, Matters
  <2> QED BY <1>15, <2>2, <2>3 DEF PlanRestore
<1>16. ASSUME NEW p \in Paths, CheckFile(p) PROVE HalfHeld'
  <2>1. op # NoOp /\ op \in Ops /\ UNCHANGED <<order, half, journals, required>> /\ op.pc = "swap"
    BY <1>16, OpIs DEF CheckFile, Reports, At, NoOp, disk, memory, ghosts
  <2>2. UNCHANGED <<op.at, op.upto, op.nested>> /\ op'.pc # "recover"
    <3>1. \/ op' = [op EXCEPT !.pc = "rename", !.cur = p, !.todo = @ \ {p}, !.raced = FALSE]
          \/ op' = [op EXCEPT !.todo = @ \ {p}, !.skipped = @ \cup {p}]
          \/ op' = [op EXCEPT !.todo = {}, !.skipped = @ \cup op.todo, !.writable = FALSE]
      BY <1>16 DEF CheckFile, Skips
    <3>2. CASE op' = [op EXCEPT !.pc = "rename", !.cur = p, !.todo = @ \ {p}, !.raced = FALSE]
      BY <2>1, <3>2 DEF Ops
    <3>3. CASE op' = [op EXCEPT !.todo = @ \ {p}, !.skipped = @ \cup {p}]
      BY <2>1, <3>3 DEF Ops
    <3>4. CASE op' = [op EXCEPT !.todo = {}, !.skipped = @ \cup op.todo, !.writable = FALSE]
      BY <2>1, <3>4 DEF Ops
    <3> QED BY <3>1, <3>2, <3>3, <3>4
  <2> QED BY <2>1, <2>2, HalfGoesOn DEF IInv, HalfHeld
<1>17. ASSUME NEW p \in Paths, RenameFile(p) PROVE HalfHeld'
  <2>1. op # NoOp /\ op \in Ops /\ UNCHANGED <<order, journals, required>> /\ op.pc = "rename"
    BY <1>17, OpIs DEF RenameFile, Reports, At, NoOp, disk, memory, ghosts
  <2>2. UNCHANGED <<op.at, op.upto, op.nested>> /\ op'.pc # "recover"
    <3>1. \/ op' = [op EXCEPT !.pc = "swap", !.cur = "none", !.raced = FALSE, !.skipped = @ \cup {p}]
          \/ op' = [op EXCEPT !.pc = "swap", !.cur = "none", !.raced = FALSE, !.restored = Adds(p)]
          \/ op' = [op EXCEPT !.pc = "swap", !.cur = "none", !.raced = FALSE, !.restored = Adds(p),
                              !.todo = {}, !.skipped = @ \cup op.todo, !.warned = TRUE, !.writable = FALSE]
      BY <1>17 DEF RenameFile
    <3>2. CASE op' = [op EXCEPT !.pc = "swap", !.cur = "none", !.raced = FALSE, !.skipped = @ \cup {p}]
      BY <2>1, <3>2 DEF Ops
    <3>3. CASE op' = [op EXCEPT !.pc = "swap", !.cur = "none", !.raced = FALSE, !.restored = Adds(p)]
      BY <2>1, <3>3 DEF Ops
    <3>4. CASE op' = [op EXCEPT !.pc = "swap", !.cur = "none", !.raced = FALSE, !.restored = Adds(p),
                              !.todo = {}, !.skipped = @ \cup op.todo, !.warned = TRUE, !.writable = FALSE]
      BY <2>1, <3>4 DEF Ops
    <3> QED BY <3>1, <3>2, <3>3, <3>4
  <2>3. half' \subseteq half \cup {op.target}
    BY <1>17 DEF RenameFile
  <2>4. /\ op.target \in Range(order) /\ op.journal \in 1 .. Len(journals)
        /\ journals[op.journal].target = op.target /\ Matters(journals[op.journal])
    BY <2>1, JournalsTyped DEF IInv, Aims, Logged, Planned, Matters
  <2>5. op.nested => /\ op.at \in op.at .. op.upto /\ journals[op.at].target = op.target
                     /\ Matters(journals[op.at])
    BY <2>1, AtIs DEF IInv, Logged, Matters
  <2>6. ASSUME NEW h \in half'
        PROVE  /\ h \in Range(order) /\ \E i \in 1 .. Len(journals) : journals[i].target = h /\ Matters(journals[i])
               /\ op.nested => \/ h \in required
                               \/ \E i \in op.at .. op.upto : journals[i].target = h /\ Matters(journals[i])
    <3>1. CASE h = op.target
      BY <2>4, <2>5, <3>1
    <3>2. CASE h \in half
      BY <2>1, <3>2 DEF IInv, HalfHeld, Told
    <3> QED BY <2>3, <2>6, <3>1, <3>2
  <2> QED BY <2>1, <2>2, <2>6 DEF HalfHeld, Told, Matters
<1>18. ASSUME CommitRestore PROVE HalfHeld'
  <2>1. op # NoOp /\ op \in Ops /\ UNCHANGED <<order, half, journals>> /\ op.pc = "swap"
    BY <1>18, OpIs DEF CommitRestore, Reports, At, NoOp, disk, memory, ghosts
  <2>2. UNCHANGED <<op.at, op.upto, op.nested>> /\ op'.pc # "recover"
    <3>1. \/ op' = [op EXCEPT !.pc = "apply", !.skipped = Unsettled]
          \/ op' = [op EXCEPT !.pc = "close", !.need = TRUE, !.skipped = Unsettled]
      BY <1>18 DEF CommitRestore
    <3>2. CASE op' = [op EXCEPT !.pc = "apply", !.skipped = Unsettled]
      BY <2>1, <3>2 DEF Ops
    <3>3. CASE op' = [op EXCEPT !.pc = "close", !.need = TRUE, !.skipped = Unsettled]
      BY <2>1, <3>3 DEF Ops
    <3> QED BY <3>1, <3>2, <3>3
  <2>3. required \subseteq required'
    BY <1>18 DEF CommitRestore
  <2> QED BY <2>1, <2>2, <2>3, HalfGoesOn DEF IInv, HalfHeld
<1>19. ASSUME ApplyRestore PROVE HalfHeld'
  <2>1. op # NoOp /\ op \in Ops /\ UNCHANGED <<journals>> /\ op.pc = "apply"
    BY <1>19, OpIs DEF ApplyRestore, Reports, At, NoOp, disk, memory, ghosts
  <2>2. UNCHANGED <<op.at, op.upto, op.nested>> /\ op'.pc # "recover"
    <3>1. \/ op' = [op EXCEPT !.pc = "close"]
          \/ op' = [op EXCEPT !.pc = "close", !.need = TRUE]
      BY <1>19 DEF ApplyRestore
    <3>2. CASE op' = [op EXCEPT !.pc = "close"]
      BY <2>1, <3>2 DEF Ops
    <3>3. CASE op' = [op EXCEPT !.pc = "close", !.need = TRUE]
      BY <2>1, <3>3 DEF Ops
    <3> QED BY <3>1, <3>2, <3>3
  <2>3. required \subseteq required' /\ \A h \in half' : h \in half /\ h \in Range(order')
    BY <1>19 DEF ApplyRestore, AppliesTx, TxFails, IInv, HalfHeld
  <2> QED BY <2>1, <2>2, <2>3, HalfGoesOn
<1>20. ASSUME CloseRestore PROVE HalfHeld'
  <2>1. op # NoOp /\ op \in Ops /\ op.pc = "close" /\ order' = order /\ half' = half \ {op.target}
    BY <1>20, OpIs DEF CloseRestore, At, NoOp
  <2>2. PICK js \in {journals, Concludes(journals), Cleared(Concludes(journals))} : op' = NoOp /\ journals' = Live(js)
    BY <1>20 DEF CloseRestore
  <2>3. js \in Seq(Journal) /\ Len(js) = Len(journals)
    BY <2>1, <2>2, ConcludesTyped, JournalsTyped
  <2>4. journals[op.journal].target = op.target
    BY <2>1 DEF IInv, Logged, Planned
  <2>5. \A i \in 1 .. Len(journals) : journals[i].target # op.target => js[i] = journals[i]
    BY <2>1, <2>2, <2>4, OthersStay
  <2>6. \A h \in half' : h \in Range(order) /\ \E i \in 1 .. Len(journals) : journals[i].target = h /\ Matters(journals[i])
    BY <2>1 DEF IInv, HalfHeld, Told
  <2>7. \A h \in half' : h \in Range(order') /\ \E i \in 1 .. Len(js) : js[i].target = h /\ Matters(js[i])
    BY <2>1, <2>3, <2>5, <2>6
  <2> QED BY <2>2, <2>3, <2>7, HalfReleases
<1>21. ASSUME CloseRecovered PROVE HalfHeld'
  <2>1. op # NoOp /\ op \in Ops /\ op.nested /\ op.pc = "close" /\ order' = order
    BY <1>21, OpIs DEF CloseRecovered, At, NoOp
  <2>2. PICK own \in {journals, Concludes(journals)}, need \in BOOLEAN :
          /\ half' = IF need THEN half ELSE half \ {op.target}
          /\ required' = IF need THEN required \cup {op.target} ELSE required
          /\ \/ op' = NoOp /\ journals' = Live(own)
             \/ Returns /\ journals' = [own EXCEPT ![op.at] = [@ EXCEPT !.finished = TRUE, !.required = need]]
    BY <1>21, RecoveredCloses
  <2>3. own \in Seq(Journal) /\ Len(own) = Len(journals)
    BY <2>1, ConcludesTyped, JournalsTyped
  <2>4. /\ journals[op.journal].target = op.target /\ journals[op.at].target = op.target
        /\ Matters(journals[op.at]) /\ op.at <= op.upto /\ op.upto < op.journal
    BY <2>1 DEF IInv, Logged, Planned, Matters
  <2>5. op.at \in 1 .. Len(journals) /\ op.at # op.journal
    BY <2>1, <2>4, AtIs, OpNumbers
  <2>6. /\ \A i \in 1 .. Len(journals) : journals[i].target # op.target => own[i] = journals[i]
        /\ own[op.at] = journals[op.at]
    BY <2>1, <2>2, <2>4, <2>5, OthersStay
  <2>7. CASE op' = NoOp /\ journals' = Live(own)
    <3>1. \A h \in half' : h \in Range(order) /\ \E i \in 1 .. Len(journals) : journals[i].target = h /\ Matters(journals[i])
      BY <2>2 DEF IInv, HalfHeld, Told
    <3>2. \A h \in half' : h \in Range(order') /\ \E i \in 1 .. Len(own) : own[i].target = h /\ Matters(own[i])
      <4> SUFFICES ASSUME NEW h \in half'
                   PROVE  h \in Range(order') /\ \E i \in 1 .. Len(own) : own[i].target = h /\ Matters(own[i])
        OBVIOUS
      <4>1. PICK i \in 1 .. Len(journals) : journals[i].target = h /\ Matters(journals[i])
        BY <3>1
      <4>2. CASE h = op.target
        <5>1. op.at \in 1 .. Len(own) /\ own[op.at].target = h /\ Matters(own[op.at])
          BY <2>3, <2>4, <2>5, <2>6, <4>2
        <5> QED BY <2>1, <3>1, <5>1
      <4>3. CASE h # op.target
        <5>1. i \in 1 .. Len(own) /\ own[i] = journals[i]
          BY <2>3, <2>6, <4>1, <4>3
        <5> QED BY <2>1, <3>1, <4>1, <5>1
      <4> QED BY <4>2, <4>3
    <3> QED BY <2>3, <2>7, <3>2, HalfReleases
  <2>8. CASE Returns /\ journals' = [own EXCEPT ![op.at] = [@ EXCEPT !.finished = TRUE, !.required = need]]
    <3>1. op'.pc = "recover" /\ op'.at = op.at + 1 /\ op'.upto = op.upto
      BY <2>1, <2>8 DEF Returns, Ops
    <3>2. /\ Len(journals') = Len(own) /\ \A i \in 1 .. Len(own) : i # op.at => journals'[i] = own[i]
          /\ journals'[op.at].target = own[op.at].target /\ journals'[op.at].required = need
      BY <2>1, <2>3, <2>5, <2>8, EndsIs
    <3>3. \A i \in 1 .. Len(journals) : journals[i].target # op.target => journals'[i] = journals[i]
      BY <2>3, <2>4, <2>6, <3>2
    <3>4. op.target \in half' => need
      BY <2>2
    <3>5. op.target \in half' =>
            /\ op.target \in required'
            /\ \E i \in 1 .. Len(journals) : journals'[i].target = op.target /\ Matters(journals'[i])
      <4>1. need => journals'[op.at].target = op.target /\ Matters(journals'[op.at])
        BY <2>4, <2>6, <3>2 DEF Matters
      <4> QED BY <2>2, <2>5, <3>4, <4>1
    <3>6. half' \subseteq half /\ \A h \in required : h \in required'
      BY <2>2
    <3> QED BY <2>1, <2>3, <2>4, <3>1, <3>2, <3>3, <3>5, <3>6, HalfReturns
  <2> QED BY <2>2, <2>7, <2>8
<1>22. ASSUME CutBranch PROVE HalfHeld'
  <2>1. op # NoOp /\ op \in Ops /\ op.pc = "recover" /\ UNCHANGED <<order, half, required>>
    BY <1>22, OpIs DEF CutBranch, Recovered, At, NoOp, memory, ghosts
  <2>2. (op' = [op EXCEPT !.pc = "apply"] /\ journals' = journals) \/ Release
    BY <1>22 DEF CutBranch
  <2>3. CASE op' = [op EXCEPT !.pc = "apply"] /\ journals' = journals
    <3>1. UNCHANGED <<op.at, op.upto, op.nested>> /\ op'.pc = "apply"
      BY <2>1, <2>3 DEF Ops
    <3> QED BY <2>1, <2>3, <3>1, HalfGoesOn DEF IInv, HalfHeld
  <2>4. CASE Release
    BY <2>1, <2>4, ReleaseHalf DEF IInv, HalfHeld
  <2> QED BY <2>2, <2>3, <2>4
<1>23. ASSUME ApplyCut PROVE HalfHeld'
  <2>1. Release
    BY <1>23 DEF ApplyCut
  <2>2. \A h \in half' : h \in half /\ h \in Range(order')
    BY <1>23 DEF ApplyCut, AppliesTx, TxFails, IInv, HalfHeld
  <2> QED BY <2>1, <2>2, ReleaseHalf
<1>24. ASSUME NEW p \in Paths, HandEdit(p) PROVE HalfHeld'
  <2>1. UNCHANGED <<order, half, journals, required>> /\ (op' = op \/ (op # NoOp /\ op' = [op EXCEPT !.raced = TRUE]))
    BY <1>24 DEF HandEdit, disk, memory
  <2>2. CASE op' = op
    BY <2>1, <2>2, HalfKept
  <2>3. CASE op # NoOp /\ op' = [op EXCEPT !.raced = TRUE]
    <3>1. UNCHANGED <<op.at, op.upto, op.nested>> /\ op'.pc = op.pc
      BY <2>3, OpIs DEF Ops
    <3> QED BY <2>1, <2>3, <3>1, HalfGoesOn DEF IInv, HalfHeld
  <2> QED BY <2>1, <2>2, <2>3
<1>25. ASSUME Crash PROVE HalfHeld'
  <2>1. Release /\ UNCHANGED <<half, order>>
    BY <1>25 DEF Crash, ghosts
  <2> QED BY <2>1, ReleaseHalf DEF IInv, HalfHeld
<1> QED
  BY <1>1, <1>2, <1>3, <1>4, <1>5, <1>6, <1>7, <1>8, <1>9, <1>10, <1>11, <1>12, <1>13,
     <1>14, <1>15, <1>16, <1>17, <1>18, <1>19, <1>20, <1>21, <1>22, <1>23, <1>24,
     <1>25 DEF Next

LEMMA CountedStep ==
  ASSUME IInv, Next
  PROVE  Counted'
<1>1. ASSUME NEW c \in Calls, NEW ps \in Targets, CallPre(c, ps) PROVE Counted'
  BY <1>1 DEF CallPre, counts, IInv, Counted
<1>2. ASSUME NEW c \in Calls, NEW p \in Paths, ToolWrites(c, p) PROVE Counted'
  BY <1>2 DEF ToolWrites, counts, IInv, Counted
<1>3. ASSUME NEW c \in Calls, CallAfter(c) PROVE Counted'
  BY <1>3 DEF CallAfter, counts, IInv, Counted
<1>4. ASSUME FinishTurn PROVE Counted'
  BY <1>4 DEF FinishTurn, counts, IInv, Counted
<1>5. ASSUME AskTurn PROVE Counted'
  BY <1>5 DEF AskTurn, Acquire, IInv, Counted
<1>6. ASSUME NEW t \in Ids, NEW retain \in BOOLEAN, AskRestore(t, retain) PROVE Counted'
  BY <1>6 DEF AskRestore, Acquire, IInv, Counted
<1>7. ASSUME NEW t \in Ids, Retry(t) PROVE Counted'
  BY <1>7 DEF Retry, Acquire, IInv, Counted
<1>8. ASSUME NEW t \in Ids, AskCut(t) PROVE Counted'
  BY <1>8 DEF AskCut, Acquire, IInv, Counted
<1>9. ASSUME Start PROVE Counted'
  BY <1>9 DEF Start, Acquire, IInv, Counted
<1>10. ASSUME RecoverFinished PROVE Counted'
  BY <1>10 DEF RecoverFinished, counts, IInv, Counted
<1>11. ASSUME RecoverCommitted PROVE Counted'
  BY <1>11 DEF RecoverCommitted, counts, IInv, Counted
<1>12. ASSUME RecoverAgain PROVE Counted'
  BY <1>12 DEF RecoverAgain, counts, IInv, Counted
<1>13. ASSUME BeginTurn PROVE Counted'
  BY <1>13 DEF BeginTurn, counts, IInv, Counted
<1>14. ASSUME LetGo PROVE Counted'
  BY <1>14 DEF LetGo, counts, IInv, Counted
<1>15. ASSUME PlanRestore PROVE Counted'
  BY <1>15 DEF PlanRestore, counts, IInv, Counted
<1>16. ASSUME NEW p \in Paths, CheckFile(p) PROVE Counted'
  BY <1>16 DEF CheckFile, counts, IInv, Counted
<1>17. ASSUME NEW p \in Paths, RenameFile(p) PROVE Counted'
  BY <1>17 DEF RenameFile, counts, IInv, Counted
<1>18. ASSUME CommitRestore PROVE Counted'
  BY <1>18 DEF CommitRestore, counts, IInv, Counted
<1>19. ASSUME ApplyRestore PROVE Counted'
  BY <1>19 DEF ApplyRestore, counts, IInv, Counted
<1>20. ASSUME CloseRestore PROVE Counted'
  BY <1>20 DEF CloseRestore, counts, IInv, Counted
<1>21. ASSUME CloseRecovered PROVE Counted'
  BY <1>21 DEF CloseRecovered, counts, IInv, Counted
<1>22. ASSUME CutBranch PROVE Counted'
  BY <1>22 DEF CutBranch, counts, IInv, Counted
<1>23. ASSUME ApplyCut PROVE Counted'
  BY <1>23 DEF ApplyCut, counts, IInv, Counted
<1>24. ASSUME NEW p \in Paths, HandEdit(p) PROVE Counted'
  BY <1>24 DEF HandEdit, IInv, Counted
<1>25. ASSUME Crash PROVE Counted'
  BY <1>25 DEF Crash, counts, IInv, Counted
<1> QED
  BY <1>1, <1>2, <1>3, <1>4, <1>5, <1>6, <1>7, <1>8, <1>9, <1>10, <1>11, <1>12, <1>13,
     <1>14, <1>15, <1>16, <1>17, <1>18, <1>19, <1>20, <1>21, <1>22, <1>23, <1>24,
     <1>25 DEF Next


LEMMA Stutters ==
  ASSUME IInv, UNCHANGED vars
  PROVE  IInv'
<1>1. UNCHANGED <<file, order, manifest, pending, journals, tx, life, active, required, flying, op,
                  unseen, half, turns, hands>>
  BY DEF vars, disk, memory, ghosts, counts
<1>2. FilesTyped'
  BY <1>1, FilesKept
<1>3. HistoryTyped' /\ Unseen'
  BY <1>1, HistoryKept
<1>4. CallsTyped'
  BY <1>1 DEF IInv, Typed, CallsTyped
<1>5. WorkTyped'
  BY <1>1, WorkKept
<1>6. CountsTyped'
  BY <1>1, CountsKept
<1>7. Quiet'
  BY <1>1 DEF IInv, Quiet
<1>8. Aims'
  BY <1>1, AimsKept
<1>9. Tracked'
  <2>1. \A p : Undoes(p)' <=> Undoes(p)
    BY <1>1, UndoesKept
  <2> QED BY <1>1, <2>1 DEF IInv, Tracked
<1>10. Logged'
  BY <1>1, LoggedKept
<1>11. HalfHeld'
  BY <1>1, HalfKept
<1> QED BY <1>1, <1>2, <1>3, <1>4, <1>5, <1>6, <1>7, <1>8, <1>9, <1>10, <1>11 DEF IInv, Typed, Counted

LEMMA InitIInv ==
  ASSUME Init
  PROVE  IInv
<1>1. op = NoOp /\ journals = << >> /\ tx = NoTx /\ order = << >> /\ half = {} /\ unseen = {}
  BY DEF Init
<1>2. FilesTyped
  <2>1. \A p \in Paths : [content |-> "a", inode |-> 1] \in States(p)
    BY DEF States
  <2>2. file = [p \in Paths |-> [content |-> "a", inode |-> 1]]
    BY DEF Init
  <2> QED BY <1>1, <2>1, <2>2 DEF FilesTyped, AnyState
<1>3. HistoryTyped
  <2>1. manifest = [t \in Ids |-> Blank] /\ Blank \in Manifests
    BY Blanks DEF Init
  <2>2. << >> \in Seq(Ids)
    OBVIOUS
  <2> QED BY <1>1, <2>1, <2>2 DEF HistoryTyped
<1>4. CallsTyped
  <2>1. pending = [c \in Calls |-> NoCall] /\ flying = [c \in Calls |-> {}]
    BY DEF Init
  <2>2. NoCall.id = 0 /\ DOMAIN NoCall.before = {}
    BY DEF NoCall
  <2> QED BY <2>1, <2>2 DEF CallsTyped
<1>5. WorkTyped
  <2>1. << >> \in Seq(Journal)
    OBVIOUS
  <2> QED BY <1>1, <2>1 DEF WorkTyped
<1>6. CountsTyped /\ Counted
  BY <1>1 DEF Init, CountsTyped, Counted
<1>7. Quiet /\ Unseen /\ Aims /\ Tracked /\ HalfHeld
  BY <1>1 DEF Init, Quiet, Unseen, Aims, Tracked, HalfHeld, NoOp
<1>8. Logged
  <2>1. DOMAIN << >> = {}
    OBVIOUS
  <2> QED BY <1>1, <2>1 DEF Logged
<1> QED BY <1>2, <1>3, <1>4, <1>5, <1>6, <1>7, <1>8 DEF IInv, Typed

LEMMA NextIInv ==
  ASSUME IInv, [Next]_vars
  PROVE  IInv'
<1>1. CASE Next
  BY <1>1, FilesStep, HistoryStep, CallsStep, WorkStep, CountsStep, QuietStep, AimsStep, TrackedStep,
     LoggedStep, HalfHeldStep, CountedStep DEF IInv, Typed
<1>2. CASE UNCHANGED vars
  BY <1>2, Stutters
<1> QED BY <1>1, <1>2

LEMMA AlwaysIInv == Spec => []IInv
<1>1. Init => IInv
  BY InitIInv
<1>2. IInv /\ [Next]_vars => IInv'
  BY NextIInv
<1> QED BY <1>1, <1>2, PTL DEF Spec

-----------------------------------------------------------------------------
(***************************************************************************)
(* What a person may rely on.                                              *)
(***************************************************************************)

\* A state a person left in a file, and that no record ends in, is never overwritten by a
\* restore or by its recovery; only an edit between the last comparison and the rename is.
KeepsFiles ==
  \A p \in Paths : op.pc = "rename" /\ file'[p] # file[p] /\ hands' = hands /\ p \in unseen => op.raced

LEMMA FilesAreKept ==
  ASSUME IInv, Next
  PROVE  KeepsFiles
<1>1. ASSUME NEW c \in Calls, NEW ps \in Targets, CallPre(c, ps) PROVE KeepsFiles
  <2>1. op' = op /\ (active # 0 \/ \E d \in Calls : flying[d] # {})
    BY <1>1 DEF CallPre
  <2>2. op = NoOp
    BY <2>1, NotWithin
  <2> QED BY <2>2 DEF KeepsFiles, NoOp
<1>2. ASSUME NEW c \in Calls, NEW p \in Paths, ToolWrites(c, p) PROVE KeepsFiles
  <2>1. op' = op /\ (active # 0 \/ \E d \in Calls : flying[d] # {})
    BY <1>2 DEF ToolWrites
  <2>2. op = NoOp
    BY <2>1, NotWithin
  <2> QED BY <2>2 DEF KeepsFiles, NoOp
<1>3. ASSUME NEW c \in Calls, CallAfter(c) PROVE KeepsFiles
  <2>1. op' = op /\ (active # 0 \/ \E d \in Calls : flying[d] # {})
    BY <1>3 DEF CallAfter
  <2>2. op = NoOp
    BY <2>1, NotWithin
  <2> QED BY <2>2 DEF KeepsFiles, NoOp
<1>4. ASSUME FinishTurn PROVE KeepsFiles
  <2>1. op' = op /\ (active # 0 \/ \E d \in Calls : flying[d] # {})
    BY <1>4 DEF FinishTurn
  <2>2. op = NoOp
    BY <2>1, NotWithin
  <2> QED BY <2>2 DEF KeepsFiles, NoOp
<1>5. ASSUME AskTurn PROVE KeepsFiles
  BY <1>5 DEF AskTurn, Acquire, KeepsFiles
<1>6. ASSUME NEW t \in Ids, NEW retain \in BOOLEAN, AskRestore(t, retain) PROVE KeepsFiles
  BY <1>6 DEF AskRestore, Acquire, KeepsFiles
<1>7. ASSUME NEW t \in Ids, Retry(t) PROVE KeepsFiles
  BY <1>7 DEF Retry, Acquire, KeepsFiles
<1>8. ASSUME NEW t \in Ids, AskCut(t) PROVE KeepsFiles
  BY <1>8 DEF AskCut, Acquire, KeepsFiles
<1>9. ASSUME Start PROVE KeepsFiles
  BY <1>9 DEF Start, Acquire, KeepsFiles
<1>10. ASSUME RecoverFinished PROVE KeepsFiles
  BY <1>10 DEF RecoverFinished, KeepsFiles
<1>11. ASSUME RecoverCommitted PROVE KeepsFiles
  BY <1>11 DEF RecoverCommitted, KeepsFiles
<1>12. ASSUME RecoverAgain PROVE KeepsFiles
  BY <1>12 DEF RecoverAgain, KeepsFiles
<1>13. ASSUME BeginTurn PROVE KeepsFiles
  BY <1>13 DEF BeginTurn, KeepsFiles
<1>14. ASSUME LetGo PROVE KeepsFiles
  BY <1>14 DEF LetGo, KeepsFiles
<1>15. ASSUME PlanRestore PROVE KeepsFiles
  BY <1>15 DEF PlanRestore, KeepsFiles
<1>16. ASSUME NEW p \in Paths, CheckFile(p) PROVE KeepsFiles
  BY <1>16 DEF CheckFile, KeepsFiles
<1>17. ASSUME NEW p \in Paths, RenameFile(p) PROVE KeepsFiles
  <2>1. \A q \in Paths : file'[q] # file[q] => q = op.cur
    BY <1>17 DEF RenameFile, IInv, Typed, FilesTyped
  <2>2. op.pc = "rename" => (~op.raced => op.cur \notin unseen)
    BY DEF IInv, Tracked
  <2> QED BY <2>1, <2>2 DEF KeepsFiles
<1>18. ASSUME CommitRestore PROVE KeepsFiles
  BY <1>18 DEF CommitRestore, KeepsFiles
<1>19. ASSUME ApplyRestore PROVE KeepsFiles
  BY <1>19 DEF ApplyRestore, KeepsFiles
<1>20. ASSUME CloseRestore PROVE KeepsFiles
  BY <1>20 DEF CloseRestore, KeepsFiles
<1>21. ASSUME CloseRecovered PROVE KeepsFiles
  BY <1>21 DEF CloseRecovered, KeepsFiles
<1>22. ASSUME CutBranch PROVE KeepsFiles
  BY <1>22 DEF CutBranch, KeepsFiles
<1>23. ASSUME ApplyCut PROVE KeepsFiles
  BY <1>23 DEF ApplyCut, KeepsFiles
<1>24. ASSUME NEW p \in Paths, HandEdit(p) PROVE KeepsFiles
  <2>1. hands' # hands
    BY <1>24 DEF HandEdit, IInv, Counted
  <2> QED BY <2>1 DEF KeepsFiles
<1>25. ASSUME Crash PROVE KeepsFiles
  BY <1>25 DEF Crash, KeepsFiles
<1> QED
  BY <1>1, <1>2, <1>3, <1>4, <1>5, <1>6, <1>7, <1>8, <1>9, <1>10, <1>11, <1>12, <1>13,
     <1>14, <1>15, <1>16, <1>17, <1>18, <1>19, <1>20, <1>21, <1>22, <1>23, <1>24,
     <1>25 DEF Next

LEMMA TurnsBeginSettled ==
  ASSUME IInv, Next
  PROVE  active = 0 /\ active' # 0 => half = {}
<1>1. ASSUME NEW c \in Calls, NEW ps \in Targets, CallPre(c, ps) PROVE active = 0 /\ active' # 0 => half = {}
  BY <1>1 DEF CallPre, memory
<1>2. ASSUME NEW c \in Calls, NEW p \in Paths, ToolWrites(c, p) PROVE active = 0 /\ active' # 0 => half = {}
  BY <1>2 DEF ToolWrites, memory
<1>3. ASSUME NEW c \in Calls, CallAfter(c) PROVE active = 0 /\ active' # 0 => half = {}
  BY <1>3 DEF CallAfter, memory
<1>4. ASSUME FinishTurn PROVE active = 0 /\ active' # 0 => half = {}
  BY <1>4 DEF FinishTurn, memory
<1>5. ASSUME AskTurn PROVE active = 0 /\ active' # 0 => half = {}
  BY <1>5 DEF AskTurn, Acquire
<1>6. ASSUME NEW t \in Ids, NEW retain \in BOOLEAN, AskRestore(t, retain) PROVE active = 0 /\ active' # 0 => half = {}
  BY <1>6 DEF AskRestore, Acquire
<1>7. ASSUME NEW t \in Ids, Retry(t) PROVE active = 0 /\ active' # 0 => half = {}
  BY <1>7 DEF Retry, Acquire
<1>8. ASSUME NEW t \in Ids, AskCut(t) PROVE active = 0 /\ active' # 0 => half = {}
  BY <1>8 DEF AskCut, Acquire
<1>9. ASSUME Start PROVE active = 0 /\ active' # 0 => half = {}
  BY <1>9 DEF Start, Acquire
<1>10. ASSUME RecoverFinished PROVE active = 0 /\ active' # 0 => half = {}
  BY <1>10 DEF RecoverFinished, memory
<1>11. ASSUME RecoverCommitted PROVE active = 0 /\ active' # 0 => half = {}
  BY <1>11 DEF RecoverCommitted, memory
<1>12. ASSUME RecoverAgain PROVE active = 0 /\ active' # 0 => half = {}
  BY <1>12 DEF RecoverAgain, memory
<1>13. ASSUME BeginTurn PROVE active = 0 /\ active' # 0 => half = {}
  BY <1>13, NothingHalf
<1>14. ASSUME LetGo PROVE active = 0 /\ active' # 0 => half = {}
  BY <1>14 DEF LetGo, memory
<1>15. ASSUME PlanRestore PROVE active = 0 /\ active' # 0 => half = {}
  BY <1>15 DEF PlanRestore, memory
<1>16. ASSUME NEW p \in Paths, CheckFile(p) PROVE active = 0 /\ active' # 0 => half = {}
  BY <1>16 DEF CheckFile, memory
<1>17. ASSUME NEW p \in Paths, RenameFile(p) PROVE active = 0 /\ active' # 0 => half = {}
  BY <1>17 DEF RenameFile, memory
<1>18. ASSUME CommitRestore PROVE active = 0 /\ active' # 0 => half = {}
  BY <1>18 DEF CommitRestore, memory
<1>19. ASSUME ApplyRestore PROVE active = 0 /\ active' # 0 => half = {}
  BY <1>19 DEF ApplyRestore, memory
<1>20. ASSUME CloseRestore PROVE active = 0 /\ active' # 0 => half = {}
  BY <1>20 DEF CloseRestore, memory
<1>21. ASSUME CloseRecovered PROVE active = 0 /\ active' # 0 => half = {}
  BY <1>21 DEF CloseRecovered, memory
<1>22. ASSUME CutBranch PROVE active = 0 /\ active' # 0 => half = {}
  BY <1>22 DEF CutBranch, memory
<1>23. ASSUME ApplyCut PROVE active = 0 /\ active' # 0 => half = {}
  BY <1>23 DEF ApplyCut, memory
<1>24. ASSUME NEW p \in Paths, HandEdit(p) PROVE active = 0 /\ active' # 0 => half = {}
  BY <1>24 DEF HandEdit, memory
<1>25. ASSUME Crash PROVE active = 0 /\ active' # 0 => half = {}
  BY <1>25 DEF Crash, memory
<1> QED
  BY <1>1, <1>2, <1>3, <1>4, <1>5, <1>6, <1>7, <1>8, <1>9, <1>10, <1>11, <1>12, <1>13,
     <1>14, <1>15, <1>16, <1>17, <1>18, <1>19, <1>20, <1>21, <1>22, <1>23, <1>24,
     <1>25 DEF Next

\* While turns and restores go on, whatever fails or crashes, a person keeps the edits no
\* record ends in, and no turn begins over a restore that changed files and was neither
\* completed nor reported.
THEOREM KeepsAPersonsFiles == Spec => PersonKeepsFiles
<1>1. IInv /\ [Next]_vars =>
        [\A p \in Paths : op.pc = "rename" /\ file'[p] # file[p] /\ hands' = hands /\ p \in unseen
                            => op.raced]_vars
  BY FilesAreKept DEF KeepsFiles
<1>2. IInv /\ [Next]_vars => [active = 0 /\ active' # 0 => half = {}]_vars
  BY TurnsBeginSettled
<1> QED BY <1>1, <1>2, AlwaysIInv, PTL DEF Spec, PersonKeepsFiles, KeepsHandEdits, AdmitsOnlySettled

\* Every file stays in a state its path can be in, whatever restores and folds write, and
\* the order, the branch transaction, the pending calls and the gate name turns.
THEOREM RestoreTypeCorrect == Spec => []TypeOK
<1>1. IInv => TypeOK
  <2> SUFFICES ASSUME IInv PROVE TypeOK
    OBVIOUS
  <2>1. tx.order \in Seq(0 .. MaxTurns)
    <3>1. CASE tx = NoTx
      BY <3>1 DEF NoTx
    <3>2. CASE tx # NoTx
      <4>1. tx.order \in Seq(Ids) /\ Ids \subseteq 0 .. MaxTurns
        BY <3>2 DEF IInv, Typed, HistoryTyped, Ids
      <4> QED BY <4>1
    <3> QED BY <3>1, <3>2
  <2> QED BY <2>1 DEF TypeOK, IInv, Typed, FilesTyped, HistoryTyped, CallsTyped, CountsTyped
<1> QED BY <1>1, AlwaysIInv, PTL
=============================================================================
