--------------------------- MODULE ServeLoopProofs ---------------------------
(***************************************************************************)
(* Proofs about ServeLoop: as long as no idempotency key is evicted, every *)
(* instruction the loop takes reaches the model at most once and in order, *)
(* over retries, turn ends, crashes and restarts, for any number of ops,   *)
(* keys and queue places.                                                  *)
(***************************************************************************)
EXTENDS ServeLoop, SequenceTheorems, FiniteSetTheorems, TLAPS

USE ServeLoopAssumption

-----------------------------------------------------------------------------
(***************************************************************************)
(* Sequences without repetition, and what they hold.                       *)
(***************************************************************************)

Once(s) == \A i, j \in DOMAIN s : s[i] = s[j] => i = j

\* What is appended comes last and is new to the sequence only if it was absent.
LEMMA Appends ==
  ASSUME NEW S, NEW s \in Seq(S), NEW e \in S
  PROVE  /\ Append(s, e) \in Seq(S) /\ Append(s, e) # << >>
         /\ Len(Append(s, e)) = Len(s) + 1
         /\ Range(Append(s, e)) = Range(s) \cup {e}
         /\ Once(s) /\ e \notin Range(s) => Once(Append(s, e))
<1>1. /\ Append(s, e) \in Seq(S) /\ Append(s, e) # << >> /\ Len(s) \in Nat
      /\ DOMAIN s = 1 .. Len(s) /\ DOMAIN Append(s, e) = 1 .. (Len(s) + 1)
      /\ Len(Append(s, e)) = Len(s) + 1
      /\ \A i \in DOMAIN s : Append(s, e)[i] = s[i] /\ i \in DOMAIN Append(s, e)
      /\ Append(s, e)[Len(s) + 1] = e /\ Len(s) + 1 \in DOMAIN Append(s, e)
  OBVIOUS
<1>2. \A i \in DOMAIN Append(s, e) : i \in DOMAIN s \/ i = Len(s) + 1
  BY <1>1
<1>3. Range(Append(s, e)) = Range(s) \cup {e}
  BY <1>1, <1>2 DEF Range
<1>4. ASSUME Once(s), e \notin Range(s) PROVE Once(Append(s, e))
  BY <1>1, <1>2, <1>4 DEF Once, Range
<1> QED BY <1>1, <1>3, <1>4

\* Taking the head off leaves the rest.
LEMMA Tails ==
  ASSUME NEW S, NEW s \in Seq(S), s # << >>
  PROVE  /\ Head(s) \in S /\ Tail(s) \in Seq(S) /\ Len(Tail(s)) = Len(s) - 1 /\ Len(s) \in Nat
         /\ Range(s) = Range(Tail(s)) \cup {Head(s)}
         /\ Once(s) => Once(Tail(s)) /\ Head(s) \notin Range(Tail(s))
<1>1. /\ Head(s) \in S /\ Tail(s) \in Seq(S) /\ Len(s) \in Nat \ {0}
      /\ Len(Tail(s)) = Len(s) - 1
      /\ DOMAIN s = 1 .. Len(s) /\ DOMAIN Tail(s) = 1 .. (Len(s) - 1)
      /\ Head(s) = s[1] /\ 1 \in DOMAIN s
      /\ \A i \in DOMAIN Tail(s) : Tail(s)[i] = s[i + 1] /\ i + 1 \in DOMAIN s /\ i + 1 # 1
  OBVIOUS
<1>2. ASSUME NEW i \in DOMAIN s, i # 1 PROVE i - 1 \in DOMAIN Tail(s) /\ Tail(s)[i - 1] = s[i]
  BY <1>1, <1>2
<1>3. Range(s) = Range(Tail(s)) \cup {Head(s)}
  BY <1>1, <1>2 DEF Range
<1>4. ASSUME Once(s) PROVE Once(Tail(s)) /\ Head(s) \notin Range(Tail(s))
  BY <1>1, <1>4 DEF Once, Range
<1> QED BY <1>1, <1>3, <1>4

\* One sequence after another holds what both hold.
LEMMA Concats ==
  ASSUME NEW S, NEW s \in Seq(S), NEW t \in Seq(S)
  PROVE  /\ s \o t \in Seq(S)
         /\ Range(s \o t) = Range(s) \cup Range(t)
         /\ Once(s) /\ Once(t) /\ Range(s) \cap Range(t) = {} => Once(s \o t)
         /\ s \o t = << >> <=> s = << >> /\ t = << >>
<1>1. /\ s \o t \in Seq(S) /\ Len(s) \in Nat /\ Len(t) \in Nat
      /\ Len(s \o t) = Len(s) + Len(t)
      /\ DOMAIN s = 1 .. Len(s) /\ DOMAIN t = 1 .. Len(t)
      /\ DOMAIN (s \o t) = 1 .. (Len(s) + Len(t))
      /\ \A i \in 1 .. Len(s) + Len(t) : (s \o t)[i] = IF i <= Len(s) THEN s[i] ELSE t[i - Len(s)]
  BY ConcatProperties
<1>2. ASSUME NEW i \in DOMAIN (s \o t)
      PROVE  \/ i \in DOMAIN s /\ (s \o t)[i] = s[i]
             \/ i - Len(s) \in DOMAIN t /\ (s \o t)[i] = t[i - Len(s)] /\ i > Len(s)
  BY <1>1
<1>3. ASSUME NEW i \in DOMAIN s PROVE i \in DOMAIN (s \o t) /\ (s \o t)[i] = s[i]
  BY <1>1
<1>4. ASSUME NEW i \in DOMAIN t PROVE i + Len(s) \in DOMAIN (s \o t) /\ (s \o t)[i + Len(s)] = t[i]
  <2>1. i + Len(s) \in 1 .. Len(s) + Len(t) /\ ~(i + Len(s) <= Len(s)) /\ (i + Len(s)) - Len(s) = i
    BY <1>1
  <2> QED BY <1>1, <2>1
<1>5. Range(s \o t) = Range(s) \cup Range(t)
  <2>1. Range(s \o t) \subseteq Range(s) \cup Range(t)
    BY <1>2 DEF Range
  <2>2. Range(s) \subseteq Range(s \o t)
    BY <1>3 DEF Range
  <2>3. Range(t) \subseteq Range(s \o t)
    BY <1>4 DEF Range
  <2> QED BY <2>1, <2>2, <2>3
<1>6. ASSUME Once(s), Once(t), Range(s) \cap Range(t) = {} PROVE Once(s \o t)
  <2> SUFFICES ASSUME NEW i \in DOMAIN (s \o t), NEW j \in DOMAIN (s \o t), (s \o t)[i] = (s \o t)[j]
               PROVE  i = j
    BY DEF Once
  <2>1. i \in Nat /\ j \in Nat
    BY <1>1
  <2>2. CASE i \in DOMAIN s /\ (s \o t)[i] = s[i]
    <3>1. j \in DOMAIN s /\ (s \o t)[j] = s[j]
      <4>1. s[i] \in Range(s)
        BY <2>2 DEF Range
      <4>2. \A k \in DOMAIN t : t[k] \notin Range(s)
        BY <1>6 DEF Range
      <4> QED BY <1>2, <2>2, <4>1, <4>2
    <3> QED BY <1>6, <2>2, <3>1 DEF Once
  <2>3. CASE i - Len(s) \in DOMAIN t /\ (s \o t)[i] = t[i - Len(s)]
    <3>1. j - Len(s) \in DOMAIN t /\ (s \o t)[j] = t[j - Len(s)]
      BY <1>2, <1>6, <2>3 DEF Range
    <3>2. i - Len(s) = j - Len(s)
      BY <1>6, <2>3, <3>1 DEF Once
    <3> QED BY <1>1, <2>1, <3>2
  <2> QED BY <1>2, <2>2, <2>3
<1> QED BY <1>1, <1>5, <1>6, ConcatEqualIffEmpty

\* A sequence without repetition is no longer than the set it is taken from.
LEMMA OnceIsShort ==
  ASSUME NEW S, IsFiniteSet(S), NEW s \in Seq(S), Once(s)
  PROVE  Len(s) <= Cardinality(S)
<1>1. Len(s) \in Nat /\ DOMAIN s = 1 .. Len(s) /\ s \in [1 .. Len(s) -> S]
  OBVIOUS
<1>2. s \in Injection(1 .. Len(s), S)
  BY <1>1, Zenon DEF Once, Injection, IsInjective
<1>3. Cardinality(1 .. Len(s)) <= Cardinality(S)
  BY <1>2, FS_Injection
<1>4. Cardinality(1 .. Len(s)) = Len(s)
  <2>1. Cardinality(1 .. Len(s)) = IF 1 > Len(s) THEN 0 ELSE Len(s) - 1 + 1
    BY <1>1, FS_Interval, 1 \in Int, Len(s) \in Int
  <2> QED BY <1>1, <2>1
<1> QED BY <1>3, <1>4

\* One value at most once in a sequence: the same two facts.
Single(s, x) == \A i, j \in DOMAIN s : s[i] = x /\ s[j] = x => i = j

LEMMA SingleAppends ==
  ASSUME NEW S, NEW s \in Seq(S), NEW e \in S, NEW x, Single(s, x), x # e \/ x \notin Range(s)
  PROVE  Single(Append(s, e), x)
<1>1. /\ Len(s) \in Nat /\ DOMAIN s = 1 .. Len(s) /\ DOMAIN Append(s, e) = 1 .. (Len(s) + 1)
      /\ \A i \in DOMAIN s : Append(s, e)[i] = s[i]
      /\ Append(s, e)[Len(s) + 1] = e
  OBVIOUS
<1>2. \A i \in DOMAIN Append(s, e) : i \in DOMAIN s \/ i = Len(s) + 1
  BY <1>1
<1> QED BY <1>1, <1>2 DEF Single, Range

LEMMA SingleTails ==
  ASSUME NEW S, NEW s \in Seq(S), s # << >>, NEW x, Single(s, x)
  PROVE  Single(Tail(s), x) /\ Head(s) \in Range(s) /\ (x = Head(s) => x \notin Range(Tail(s)))
<1>1. /\ Len(s) \in Nat \ {0}
      /\ DOMAIN s = 1 .. Len(s) /\ DOMAIN Tail(s) = 1 .. (Len(s) - 1)
      /\ Head(s) = s[1] /\ 1 \in DOMAIN s
      /\ \A i \in DOMAIN Tail(s) : Tail(s)[i] = s[i + 1] /\ i + 1 \in DOMAIN s /\ i + 1 # 1
  OBVIOUS
<1> QED BY <1>1 DEF Single, Range

-----------------------------------------------------------------------------
(***************************************************************************)
(* Types.                                                                  *)
(***************************************************************************)

\* The keys that are kept are the newest, no more than there is room for.
LEMMA NewestTyped ==
  ASSUME NEW ks \in Seq(Keyed), Len(ks) <= MaxKeys + 1
  PROVE  Newest(ks) \in Seq(Keyed) /\ Len(Newest(ks)) <= MaxKeys
<1>1. CASE Len(ks) > MaxKeys
  <2>1. \A i \in (Len(ks) - MaxKeys + 1) .. Len(ks) : ks[i] \in Keyed
    BY <1>1
  <2>2. Len(ks) \in Nat /\ MaxKeys \in Nat /\ Len(ks) - MaxKeys + 1 <= Len(ks)
    BY <1>1
  <2>3. /\ SubSeq(ks, Len(ks) - MaxKeys + 1, Len(ks)) \in Seq(Keyed)
        /\ Len(SubSeq(ks, Len(ks) - MaxKeys + 1, Len(ks))) = MaxKeys
    BY <2>1, <2>2
  <2> QED BY <1>1, <2>2, <2>3 DEF Newest
<1>2. CASE ~(Len(ks) > MaxKeys)
  BY <1>2 DEF Newest
<1> QED BY <1>1, <1>2

\* What the model has seen grows by one op.
LEMMA LogGrows ==
  ASSUME TypeOK, NEW how \in {"turn", "steer"}, NEW o \in Instr, log' = Append(log, <<how, o>>)
  PROVE  /\ log' \in Seq({"turn", "steer"} \X Instr)
         /\ LogOps' = LogOps \cup {o}
         /\ AtMostOnce /\ o \notin LogOps => AtMostOnce'
<1> DEFINE e == <<how, o>>
<1>1. e \in {"turn", "steer"} \X Instr /\ e[2] = o /\ log \in Seq({"turn", "steer"} \X Instr)
  BY DEF TypeOK
<1> HIDE DEF e
<1>2. /\ Append(log, e) \in Seq({"turn", "steer"} \X Instr) /\ Len(log) \in Nat
      /\ DOMAIN log = 1 .. Len(log) /\ DOMAIN Append(log, e) = 1 .. (Len(log) + 1)
      /\ \A i \in DOMAIN log : Append(log, e)[i] = log[i] /\ i \in DOMAIN Append(log, e)
      /\ Append(log, e)[Len(log) + 1] = e /\ Len(log) + 1 \in DOMAIN Append(log, e)
  BY <1>1
<1>3. \A i \in DOMAIN Append(log, e) : i \in DOMAIN log \/ i = Len(log) + 1
  BY <1>2
<1>4. log' = Append(log, e)
  BY DEF e
<1>5. LogOps' = LogOps \cup {o}
  BY <1>1, <1>2, <1>3, <1>4 DEF LogOps
<1>6. ASSUME AtMostOnce, o \notin LogOps PROVE AtMostOnce'
  BY <1>1, <1>2, <1>3, <1>4, <1>6 DEF AtMostOnce, LogOps
<1> QED BY <1>2, <1>4, <1>5, <1>6

\* An instruction starts a turn only when there is none.
LEMMA StartsTyped ==
  ASSUME TypeOK, NEW o \in Instr, Starts(o), ~Busy
  PROVE  /\ prompts' \in Seq(Instr) /\ prompts' # << >> /\ Head(prompts') = o
         /\ Range(prompts') = {o} /\ Once(prompts') /\ Range(Tail(prompts')) = {}
         /\ log' \in Seq({"turn", "steer"} \X Instr) /\ LogOps' = LogOps \cup {o}
         /\ prompts = << >> /\ steering = << >> /\ ~asking
         /\ UNCHANGED <<steering, asking>>
<1>1. prompts = << >> /\ steering = << >> /\ ~asking
  BY DEF Busy, TypeOK
<1>2. /\ prompts' = <<o>> /\ UNCHANGED <<steering, asking>>
      /\ log' = Append(log, <<"turn", o>>)
  BY DEF Starts, Turn
<1>3. /\ <<o>> \in Seq(Instr) /\ <<o>> # << >> /\ Head(<<o>>) = o /\ DOMAIN <<o>> = {1}
      /\ Tail(<<o>>) = << >>
  OBVIOUS
<1>4. Range(<<o>>) = {o} /\ Once(<<o>>) /\ Range(<< >>) = {}
  BY <1>3 DEF Range, Once
<1>5. log' \in Seq({"turn", "steer"} \X Instr) /\ LogOps' = LogOps \cup {o}
  BY <1>2, LogGrows
<1> QED BY <1>1, <1>2, <1>3, <1>4, <1>5

\* Admitting an op takes it off the inbox and remembers its key.
LEMMA AdmitsTyped ==
  ASSUME TypeOK, NEW o \in Ops, Admits(o)
  PROVE  /\ inbox' \in Seq(Ops \cup {Eof})
         /\ keys' \in Seq(Keyed) /\ Len(keys') <= MaxKeys
         /\ acked' \subseteq Ops
         /\ UNCHANGED <<life, sends, closed, lost>>
<1>1. inbox # << >> /\ inbox' = Tail(inbox) /\ Acks(o) /\ UNCHANGED <<life, sends, closed, lost>>
  BY DEF Admits, Takes
<1>2. inbox' \in Seq(Ops \cup {Eof})
  BY <1>1, Tails DEF TypeOK
<1>3. keys' \in Seq(Keyed) /\ Len(keys') <= MaxKeys /\ acked' \subseteq Ops
  <2>1. CASE o \in Keyed
    <3>1. Append(keys, o) \in Seq(Keyed) /\ Len(Append(keys, o)) <= MaxKeys + 1
      BY <2>1 DEF TypeOK
    <3>2. keys' = Newest(Append(keys, o)) /\ acked' = acked \cup {o}
      BY <1>1, <2>1 DEF Acks
    <3> QED BY <3>1, <3>2, NewestTyped DEF TypeOK
  <2>2. CASE o \notin Keyed
    BY <1>1, <2>2 DEF Acks, TypeOK
  <2> QED BY <2>1, <2>2
<1> QED BY <1>1, <1>2, <1>3

\* The prompt that is next when an execution ends, and what is left after it.
LEMMA EndsTyped ==
  ASSUME TypeOK, ExecutionEnds
  PROVE  /\ prompts # << >> /\ prompts' \in Seq(Instr) /\ steering' = << >> /\ ~asking
         /\ Range(prompts') = Range(Tail(prompts)) \cup Range(steering)
         /\ prompts' = << >> => log' = log /\ Tail(prompts) = << >> /\ steering = << >>
         /\ prompts' # << >> =>
              /\ Head(prompts') \in Instr /\ log' = Append(log, <<"turn", Head(prompts')>>)
              /\ Range(prompts') = Range(Tail(prompts')) \cup {Head(prompts')}
         /\ UNCHANGED <<life, sends, closed, inbox, keys, asking, acked, lost>>
<1>1. /\ prompts # << >> /\ prompts' = Tail(prompts) \o steering /\ steering' = << >> /\ ~asking
      /\ IF prompts' = << >> THEN log' = log ELSE log' = Append(log, <<"turn", Head(prompts')>>)
      /\ UNCHANGED <<life, sends, closed, inbox, keys, asking, acked, lost>>
  BY DEF ExecutionEnds, Busy, Leftovers, Turn
<1>2. Tail(prompts) \in Seq(Instr) /\ steering \in Seq(Instr)
  BY <1>1, Tails DEF TypeOK
<1>3. /\ prompts' \in Seq(Instr)
      /\ Range(prompts') = Range(Tail(prompts)) \cup Range(steering)
      /\ prompts' = << >> => Tail(prompts) = << >> /\ steering = << >>
  <2> HIDE DEF TypeOK
  <2>1. ASSUME NEW s \in Seq(Instr), NEW t \in Seq(Instr)
        PROVE  /\ s \o t \in Seq(Instr) /\ Range(s \o t) = Range(s) \cup Range(t)
               /\ s \o t = << >> => s = << >> /\ t = << >>
    BY Concats
  <2> QED BY <1>1, <1>2, <2>1
<1>4. prompts' # << >> =>
        Head(prompts') \in Instr /\ Range(prompts') = Range(Tail(prompts')) \cup {Head(prompts')}
  BY <1>3, Tails
<1> QED BY <1>1, <1>3, <1>4

\* Every step keeps the types, whether keys are evicted or not.
LEMMA TypeStep == TypeOK /\ [Next]_vars => TypeOK'
<1> SUFFICES ASSUME TypeOK, [Next]_vars PROVE TypeOK'
  OBVIOUS
<1>1. ASSUME NEW o \in Ops, Sends(o) PROVE TypeOK'
  <2>1. inbox' \in Seq(Ops \cup {Eof})
    BY <1>1 DEF Sends, TypeOK
  <2>2. sends' \in [Ops -> 0 .. MaxSends]
    <3>1. sends[o] \in 0 .. MaxSends /\ sends[o] < MaxSends
      BY <1>1 DEF Sends, TypeOK
    <3> QED BY <1>1, <3>1 DEF Sends, TypeOK
  <2> QED BY <1>1, <2>1, <2>2 DEF Sends, TypeOK
<1>2. CASE Closes
  BY <1>2 DEF Closes, TypeOK
<1>3. ASSUME HandlesEof \/ \E o \in Ops : Replays(o) \/ Refuses(o) PROVE TypeOK'
  <2>1. inbox # << >> /\ inbox' = Tail(inbox)
    BY <1>3 DEF HandlesEof, Replays, Refuses, Takes
  <2>2. inbox' \in Seq(Ops \cup {Eof})
    BY <2>1, Tails DEF TypeOK
  <2> QED BY <1>3, <2>2 DEF HandlesEof, Ends, Replays, Refuses, TypeOK
<1>4. ASSUME NEW o \in Ops, Submits(o) PROVE TypeOK'
  <2>1. Admits(o) /\ o \in Instr
    BY <1>4 DEF Submits, Instr
  <2>2. CASE Busy
    BY <1>4, <2>1, <2>2, AdmitsTyped DEF Submits, TypeOK
  <2>3. CASE ~Busy
    BY <1>4, <2>1, <2>3, AdmitsTyped, StartsTyped DEF Submits, TypeOK
  <2> QED BY <2>2, <2>3
<1>5. ASSUME NEW o \in Ops, Steers(o) PROVE TypeOK'
  <2>1. Admits(o) /\ o \in Instr
    BY <1>5 DEF Steers, Instr
  <2>2. CASE Busy
    <3>1. steering' \in Seq(Instr) /\ Len(steering') <= MaxQueue
      <4>1. steering \in Seq(Instr) /\ Len(steering) \in Nat /\ Len(steering) <= MaxQueue
        BY DEF TypeOK
      <4>2. steering' = IF Len(steering) < MaxQueue THEN Append(steering, o) ELSE steering
        BY <1>5, <2>2 DEF Steers
      <4>3. Append(steering, o) \in Seq(Instr) /\ Len(Append(steering, o)) = Len(steering) + 1
        BY <2>1, <4>1, Appends
      <4> QED BY <4>1, <4>2, <4>3
    <3> QED BY <1>5, <2>1, <2>2, <3>1, AdmitsTyped DEF Steers, TypeOK, Busy
  <2>3. CASE ~Busy
    BY <1>5, <2>1, <2>3, AdmitsTyped, StartsTyped DEF Steers, SteersIdle, TypeOK
  <2> QED BY <2>2, <2>3
<1>6. ASSUME NEW o \in Ops, Answers(o) PROVE TypeOK'
  BY <1>6, AdmitsTyped DEF Answers, TypeOK
<1>7. CASE Boundary
  <2>1. /\ Head(steering) \in Instr /\ steering' \in Seq(Instr) /\ Len(steering') <= MaxQueue
        /\ log' = Append(log, <<"steer", Head(steering)>>)
    <3>1. steering # << >> /\ steering' = Tail(steering) /\ log' = Append(log, <<"steer", Head(steering)>>)
      BY <1>7 DEF Boundary
    <3>2. steering \in Seq(Instr) /\ Len(steering) <= MaxQueue
      BY DEF TypeOK
    <3> QED BY <3>1, <3>2, Tails
  <2> QED BY <1>7, <2>1, LogGrows DEF Boundary, TypeOK, Busy
<1>8. CASE Asks
  BY <1>8 DEF Asks, TypeOK, Busy
<1>9. CASE ExecutionEnds
  <2>1. log' \in Seq({"turn", "steer"} \X Instr)
    BY <1>9, EndsTyped, LogGrows DEF TypeOK
  <2>2. Len(steering') <= MaxQueue /\ steering' \in Seq(Instr)
    BY <1>9, EndsTyped
  <2>3. /\ prompts' \in Seq(Instr) /\ steering' = << >> /\ ~asking
        /\ UNCHANGED <<life, sends, closed, inbox, keys, asking, acked, lost>>
    BY <1>9, EndsTyped
  <2> QED BY <2>1, <2>2, <2>3 DEF TypeOK
<1>10. CASE Crashes
  <2>1. Range(prompts) \subseteq Instr /\ Range(steering) \subseteq Instr
    BY DEF TypeOK, Range
  <2> QED BY <1>10, <2>1 DEF Crashes, TypeOK
<1>11. CASE Exits \/ Restarts
  BY <1>11 DEF Exits, Restarts, KeysRead, TypeOK
<1>12. CASE Done \/ UNCHANGED vars
  BY <1>12 DEF Done, vars, TypeOK
<1> QED
  BY <1>1, <1>2, <1>3, <1>4, <1>5, <1>6, <1>7, <1>8, <1>9, <1>10, <1>11, <1>12 DEF Next, Handles

\* Nothing has happened yet.
LEMMA InitTyped == Init => TypeOK
<1> SUFFICES ASSUME Init PROVE TypeOK
  OBVIOUS
<1> USE DEF Init
<1>1. inbox \in Seq(Ops \cup {Eof}) /\ log \in Seq({"turn", "steer"} \X Instr)
  BY EmptySeq
<1>2. keys \in Seq(Keyed) /\ prompts \in Seq(Instr) /\ steering \in Seq(Instr)
  BY EmptySeq
<1>3. Len(keys) <= MaxKeys /\ Len(steering) <= MaxQueue
  BY EmptySeq
<1>4. sends \in [Ops -> 0 .. MaxSends] /\ life \in {"up", "ending", "exited", "down"}
  OBVIOUS
<1>5. closed \in BOOLEAN /\ acked \subseteq Ops /\ lost \subseteq Instr
  OBVIOUS
<1>6. steering # << >> \/ asking => prompts # << >>
  BY Zenon
<1> HIDE DEF Init
<1> QED BY <1>1, <1>2, <1>3, <1>4, <1>5, <1>6 DEF TypeOK

-----------------------------------------------------------------------------
(***************************************************************************)
(* Where an instruction is, and why it is not taken twice.                 *)
(***************************************************************************)

\* No key is evicted: there is room for every key the clients use.
RoomForKeys == IsFiniteSet(Keyed) /\ Cardinality(Keyed) <= MaxKeys

Held == LogOps \cup Range(prompts) \cup Range(steering) \cup lost

\* What the model has seen, what waits for a turn or a boundary, and what a dead
\* process took are apart; of the prompts only the one executing was seen.
Apart ==
  /\ AtMostOnce /\ Once(prompts) /\ Once(steering)
  /\ Range(steering) \cap (LogOps \cup Range(prompts)) = {}
  /\ prompts # << >> => Head(prompts) \in LogOps /\ Range(Tail(prompts)) \cap LogOps = {}
  /\ lost \cap (LogOps \cup Range(prompts) \cup Range(steering)) = {}

\* An op without a key is sent once.
SentOnce(o) ==
  /\ sends[o] <= 1 /\ Single(inbox, o)
  /\ sends[o] = 0 \/ o \in Held => o \notin Range(inbox)
  /\ o \in Held => sends[o] = 1

\* What is held has its key remembered, or will not come again.
Remembered ==
  /\ Once(keys)
  /\ \A o \in Keyed : o \in Held => o \in Range(keys)
  /\ \A o \in Ops \ Keyed : SentOnce(o)

IInv == TypeOK /\ Apart /\ Remembered

LEMMA InitIInv == Init => IInv
<1> SUFFICES ASSUME Init PROVE IInv
  OBVIOUS
<1>1. DOMAIN << >> = {} /\ Range(<< >>) = {}
  BY DEF Range
<1>2. log = << >> /\ prompts = << >> /\ steering = << >> /\ lost = {} /\ keys = << >> /\ inbox = << >>
  BY DEF Init
<1>3. LogOps = {} /\ Held = {}
  BY <1>1, <1>2 DEF LogOps, Held
<1>4. Apart
  BY <1>1, <1>2, <1>3 DEF Apart, AtMostOnce, Once
<1>5. Remembered
  <2>1. Once(keys)
    BY <1>1, <1>2 DEF Once
  <2>2. ASSUME NEW o \in Ops \ Keyed PROVE SentOnce(o)
    <3>1. sends[o] = 0
      BY DEF Init
    <3> QED BY <1>1, <1>2, <1>3, <3>1 DEF SentOnce, Single
  <2> QED BY <1>3, <2>1, <2>2 DEF Remembered
<1> QED BY <1>4, <1>5, InitTyped DEF IInv

\* An op whose key is not known and that comes off the inbox is held nowhere, and
\* does not come a second time without a key.
LEMMA Fresh ==
  ASSUME IInv, NEW o \in Ops, Takes(o), o \notin Range(keys)
  PROVE  /\ o \notin Held
         /\ o \notin Keyed => o \notin Range(inbox') /\ sends[o] = 1
<1>1. inbox \in Seq(Ops \cup {Eof}) /\ inbox # << >> /\ inbox' = Tail(inbox) /\ Head(inbox) = o
  BY DEF IInv, TypeOK, Takes
<1>2. CASE o \in Keyed
  BY <1>2 DEF IInv, Remembered
<1>3. CASE o \notin Keyed
  <2>1. SentOnce(o)
    BY <1>3 DEF IInv, Remembered
  <2>2. o \in Range(inbox) /\ o \notin Range(inbox')
    BY <1>1, <2>1, SingleTails DEF SentOnce
  <2>3. sends[o] \in Nat
    BY DEF IInv, TypeOK
  <2> QED BY <1>3, <2>1, <2>2, <2>3 DEF SentOnce
<1> QED BY <1>2, <1>3

\* With room for every key the newest keys are all of them.
LEMMA NoneEvicted ==
  ASSUME RoomForKeys, IInv, NEW o \in Keyed, o \notin Range(keys)
  PROVE  /\ Newest(Append(keys, o)) = Append(keys, o)
         /\ Once(Append(keys, o)) /\ Range(Append(keys, o)) = Range(keys) \cup {o}
<1>1. keys \in Seq(Keyed) /\ Once(keys)
  BY DEF IInv, TypeOK, Remembered
<1>2. /\ Append(keys, o) \in Seq(Keyed) /\ Once(Append(keys, o))
      /\ Range(Append(keys, o)) = Range(keys) \cup {o}
  BY <1>1, Appends
<1>3. Len(Append(keys, o)) <= Cardinality(Keyed)
  BY <1>2, OnceIsShort DEF RoomForKeys
<1>4. Cardinality(Keyed) \in Nat /\ Cardinality(Keyed) <= MaxKeys /\ Len(Append(keys, o)) \in Nat
  BY <1>2, FS_CardinalityType DEF RoomForKeys
<1>5. ~(Len(Append(keys, o)) > MaxKeys)
  BY <1>3, <1>4
<1> QED BY <1>2, <1>5 DEF Newest

\* The record stays right when an op is admitted and held from then on.
LEMMA AdmitsRemembered ==
  ASSUME RoomForKeys, IInv, NEW o \in Ops, Admits(o), Held' \subseteq Held \cup {o}
  PROVE  Remembered'
<1>1. /\ Takes(o) /\ o \notin Range(keys) /\ Acks(o) /\ sends' = sends
      /\ inbox # << >> /\ inbox' = Tail(inbox) /\ inbox \in Seq(Ops \cup {Eof})
  BY DEF Admits, Takes, IInv, TypeOK
<1>2. Once(keys') /\ Range(keys') = Range(keys) \cup ({o} \cap Keyed)
  <2>1. CASE o \in Keyed
    <3>1. keys' = Newest(Append(keys, o))
      BY <1>1, <2>1 DEF Acks
    <3>2. Once(Append(keys, o)) /\ keys' = Append(keys, o) /\ Range(Append(keys, o)) = Range(keys) \cup {o}
      BY <1>1, <2>1, <3>1, NoneEvicted
    <3> QED BY <2>1, <3>2
  <2>2. CASE o \notin Keyed
    BY <1>1, <2>2 DEF Acks, IInv, Remembered
  <2> QED BY <2>1, <2>2
<1>3. ASSUME NEW d \in Keyed, d \in Held' PROVE d \in Range(keys')
  BY <1>2, <1>3 DEF IInv, Remembered
<1>4. ASSUME NEW d \in Ops \ Keyed PROVE SentOnce(d)'
  <2>1. SentOnce(d) /\ sends'[d] = sends[d] /\ Single(inbox, d)
    BY <1>1 DEF IInv, Remembered, SentOnce
  <2>2. Single(inbox', d) /\ Range(inbox') \subseteq Range(inbox)
    BY <1>1, <2>1, SingleTails, Tails
  <2>3. d = o => d \notin Range(inbox') /\ sends[d] = 1
    BY <1>1, Fresh
  <2>4. d \in Held' => d \in Held \/ d = o
    OBVIOUS
  <2> QED BY <2>1, <2>2, <2>3, <2>4 DEF SentOnce
<1> QED BY <1>2, <1>3, <1>4 DEF Remembered

\* It stays right when no more is held and the inbox only loses its head.
LEMMA StillRemembered ==
  ASSUME IInv, keys' = keys, sends' = sends, Held' \subseteq Held,
         inbox' = inbox \/ inbox' = << >> \/ (inbox # << >> /\ inbox' = Tail(inbox))
  PROVE  Remembered'
<1>1. inbox \in Seq(Ops \cup {Eof})
  BY DEF IInv, TypeOK
<1>2. ASSUME NEW d \in Ops \ Keyed PROVE SentOnce(d)'
  <2>1. SentOnce(d) /\ Single(inbox, d)
    BY DEF IInv, Remembered, SentOnce
  <2>2. Single(inbox', d) /\ Range(inbox') \subseteq Range(inbox)
    <3>1. CASE inbox' = inbox
      BY <2>1, <3>1
    <3>2. CASE inbox' = << >>
      BY <3>2 DEF Single, Range
    <3>3. CASE inbox # << >> /\ inbox' = Tail(inbox)
      BY <1>1, <2>1, <3>3, SingleTails, Tails
    <3> QED BY <3>1, <3>2, <3>3
  <2> QED BY <2>1, <2>2 DEF SentOnce
<1> QED BY <1>2 DEF IInv, Remembered

\* What starts a turn, when there is none, was held nowhere.
LEMMA StartsApart ==
  ASSUME TypeOK, Apart, NEW o \in Instr, o \notin Held, Starts(o), ~Busy, lost' = lost
  PROVE  Apart' /\ Held' \subseteq Held \cup {o}
<1>1. /\ prompts' \in Seq(Instr) /\ prompts' # << >> /\ Head(prompts') = o
      /\ Range(prompts') = {o} /\ Once(prompts') /\ Range(Tail(prompts')) = {}
      /\ LogOps' = LogOps \cup {o} /\ prompts = << >> /\ steering = << >> /\ steering' = << >>
  BY StartsTyped
<1>2. AtMostOnce'
  BY LogGrows DEF Starts, Turn, Held, Apart
<1>3. Range(steering') = {} /\ Once(steering')
  BY <1>1 DEF Range, Once
<1>4. Held' \subseteq Held \cup {o} /\ lost \cap (LogOps' \cup Range(prompts') \cup Range(steering')) = {}
  BY <1>1, <1>3 DEF Held, Apart
<1> QED BY <1>1, <1>2, <1>3, <1>4 DEF Apart

\* A step that takes an op and touches no instruction.
LEMMA ApartUnmoved ==
  ASSUME Apart, UNCHANGED <<prompts, steering, log, lost>>
  PROVE  Apart' /\ Held' = Held
BY DEF Apart, Held, LogOps, AtMostOnce, Once

LEMMA SubmitIInv ==
  ASSUME RoomForKeys, IInv, NEW o \in Ops, Submits(o)
  PROVE  Apart' /\ Remembered'
<1>1. Admits(o) /\ o \in Instr /\ Takes(o) /\ o \notin Range(keys) /\ lost' = lost
  BY DEF Submits, Admits, Instr
<1>2. o \notin Held /\ TypeOK /\ Apart
  BY <1>1, Fresh DEF IInv
<1>3. CASE Busy
  <2>1. Apart' /\ Held' = Held
    BY <1>1, <1>2, <1>3, ApartUnmoved DEF Submits
  <2> QED BY <1>1, <2>1, AdmitsRemembered
<1>4. CASE ~Busy
  <2>1. Apart' /\ Held' \subseteq Held \cup {o}
    BY <1>1, <1>2, <1>4, StartsApart DEF Submits
  <2> QED BY <1>1, <2>1, AdmitsRemembered
<1> QED BY <1>3, <1>4

LEMMA SteerIInv ==
  ASSUME RoomForKeys, IInv, NEW o \in Ops, Steers(o)
  PROVE  Apart' /\ Remembered'
<1>1. Admits(o) /\ o \in Instr /\ Takes(o) /\ o \notin Range(keys) /\ lost' = lost
  BY DEF Steers, Admits, Instr
<1>2. o \notin Held /\ TypeOK /\ Apart
  BY <1>1, Fresh DEF IInv
<1>3. CASE Busy /\ Len(steering) < MaxQueue
  <2>1. UNCHANGED <<prompts, log, lost>> /\ steering' = Append(steering, o)
    BY <1>1, <1>3 DEF Steers
  <2>2. Range(steering') = Range(steering) \cup {o} /\ Once(steering')
    BY <1>1, <1>2, <2>1, Appends DEF TypeOK, Apart, Held
  <2>3. LogOps' = LogOps /\ (AtMostOnce <=> AtMostOnce')
    BY <2>1 DEF LogOps, AtMostOnce
  <2>4. Held' = Held \cup {o}
    BY <2>1, <2>2, <2>3 DEF Held
  <2>5. Apart'
    BY <1>2, <2>1, <2>2, <2>3 DEF Apart, Held
  <2> QED BY <1>1, <2>4, <2>5, AdmitsRemembered
<1>4. CASE Busy /\ ~(Len(steering) < MaxQueue)
  <2>1. UNCHANGED <<prompts, steering, log, lost>>
    BY <1>1, <1>4 DEF Steers
  <2>2. Apart' /\ Held' = Held
    BY <1>2, <2>1, ApartUnmoved
  <2> QED BY <1>1, <2>2, AdmitsRemembered
<1>5. CASE ~Busy
  <2>1. Apart' /\ Held' \subseteq Held \cup {o}
    BY <1>1, <1>2, <1>5, StartsApart DEF Steers, SteersIdle
  <2> QED BY <1>1, <2>1, AdmitsRemembered
<1> QED BY <1>3, <1>4, <1>5

\* A boundary moves the oldest steer from the queue to what the model has seen.
LEMMA BoundaryIInv ==
  ASSUME IInv, Boundary
  PROVE  Apart' /\ Remembered' /\ LogOps' = LogOps \cup {Head(steering)}
<1>1. /\ steering # << >> /\ steering' = Tail(steering) /\ log' = Append(log, <<"steer", Head(steering)>>)
      /\ UNCHANGED <<sends, inbox, keys, prompts, lost>> /\ steering \in Seq(Instr) /\ TypeOK /\ Apart
  BY DEF Boundary, IInv, TypeOK
<1>2. /\ Head(steering) \in Instr /\ Range(steering) = Range(Tail(steering)) \cup {Head(steering)}
      /\ Once(Tail(steering)) /\ Head(steering) \notin Range(Tail(steering))
  BY <1>1, Tails DEF Apart
<1>3. LogOps' = LogOps \cup {Head(steering)} /\ AtMostOnce'
  BY <1>1, <1>2, LogGrows DEF Apart
<1>4. Held' = Held
  BY <1>1, <1>2, <1>3 DEF Held
<1>5. Range(Tail(prompts)) \subseteq Range(prompts) \/ prompts = << >>
  BY <1>1, Tails DEF TypeOK
<1>6. Apart'
  BY <1>1, <1>2, <1>3, <1>5 DEF Apart
<1> QED BY <1>1, <1>3, <1>4, <1>6, StillRemembered

\* The end of an execution makes prompts of the steers left over, and starts the
\* first prompt there is.
LEMMA EndsIInv ==
  ASSUME IInv, ExecutionEnds
  PROVE  /\ Apart' /\ Remembered'
         /\ prompts' = << >> => LogOps' = LogOps
         /\ prompts' # << >> => LogOps' = LogOps \cup {Head(prompts')}
<1>1. TypeOK /\ Apart /\ prompts # << >> /\ prompts \in Seq(Instr) /\ steering \in Seq(Instr)
  BY EndsTyped DEF IInv, TypeOK
<1>2. /\ prompts' \in Seq(Instr) /\ steering' = << >>
      /\ Range(prompts') = Range(Tail(prompts)) \cup Range(steering)
      /\ prompts' = << >> => log' = log /\ Tail(prompts) = << >> /\ steering = << >>
      /\ prompts' # << >> =>
           /\ Head(prompts') \in Instr /\ log' = Append(log, <<"turn", Head(prompts')>>)
           /\ Range(prompts') = Range(Tail(prompts')) \cup {Head(prompts')}
      /\ UNCHANGED <<sends, inbox, keys, lost>>
  BY <1>1, EndsTyped
<1>3. /\ Tail(prompts) \in Seq(Instr) /\ Once(Tail(prompts))
      /\ Range(prompts) = Range(Tail(prompts)) \cup {Head(prompts)}
  BY <1>1, Tails DEF Apart
<1>4. Once(prompts')
  <2>1. Range(Tail(prompts)) \cap Range(steering) = {} /\ Once(steering)
    BY <1>1, <1>3 DEF Apart
  <2>2. prompts' = Tail(prompts) \o steering
    BY DEF ExecutionEnds, Leftovers
  <2> QED BY <1>1, <1>3, <2>1, <2>2, Concats
<1>5. Range(steering') = {} /\ Once(steering')
  BY <1>2 DEF Range, Once
<1>6. Range(prompts') \cap LogOps = {}
  BY <1>1, <1>2 DEF Apart
<1>7. CASE prompts' = << >>
  <2>1. LogOps' = LogOps /\ (AtMostOnce <=> AtMostOnce')
    BY <1>2, <1>7 DEF LogOps, AtMostOnce
  <2>2. Held' \subseteq Held
    BY <1>2, <1>3, <1>5, <2>1 DEF Held
  <2>3. Apart'
    BY <1>1, <1>2, <1>3, <1>4, <1>5, <1>7, <2>1 DEF Apart
  <2> QED BY <1>2, <1>7, <2>1, <2>2, <2>3, StillRemembered
<1>8. CASE prompts' # << >>
  <2>1. LogOps' = LogOps \cup {Head(prompts')} /\ AtMostOnce'
    BY <1>1, <1>2, <1>6, <1>8, LogGrows DEF Apart
  <2>2. Held' \subseteq Held
    BY <1>2, <1>3, <1>5, <1>8, <2>1 DEF Held
  <2>3. Head(prompts') \notin Range(Tail(prompts'))
    BY <1>2, <1>4, <1>8, Tails
  <2>4. Range(Tail(prompts')) \cap LogOps' = {} /\ Head(prompts') \in LogOps'
    BY <1>2, <1>6, <1>8, <2>1, <2>3
  <2>5. lost' \cap (LogOps' \cup Range(prompts') \cup Range(steering')) = {}
    BY <1>1, <1>2, <1>3, <1>5, <1>8, <2>1 DEF Apart
  <2>6. Apart'
    BY <1>4, <1>5, <2>1, <2>4, <2>5 DEF Apart
  <2> QED BY <1>2, <1>8, <2>1, <2>2, <2>6, StillRemembered
<1> QED BY <1>7, <1>8

\* A crash leaves the keys, and what it takes with it is not taken again.
LEMMA CrashIInv ==
  ASSUME IInv, Crashes
  PROVE  Apart' /\ Remembered' /\ LogOps' = LogOps /\ Pending' = {}
<1>1. /\ lost' = lost \cup ((Range(prompts) \cup Range(steering)) \ LogOps) /\ log' = log
      /\ inbox' = << >> /\ prompts' = << >> /\ steering' = << >> /\ UNCHANGED <<sends, keys>>
  BY DEF Crashes
<1>2. LogOps' = LogOps /\ (AtMostOnce <=> AtMostOnce')
  BY <1>1 DEF LogOps, AtMostOnce
<1>3. Range(prompts') = {} /\ Range(steering') = {} /\ Once(prompts') /\ Once(steering')
  BY <1>1 DEF Range, Once
<1>4. Held' \subseteq Held /\ Pending' = {}
  BY <1>1, <1>2, <1>3 DEF Held, Pending
<1>5. Apart'
  BY <1>1, <1>2, <1>3 DEF IInv, Apart
<1> QED BY <1>1, <1>2, <1>4, <1>5, StillRemembered

LEMMA NextIInv == RoomForKeys /\ IInv /\ [Next]_vars => IInv'
<1> SUFFICES ASSUME RoomForKeys, IInv, [Next]_vars PROVE Apart' /\ Remembered'
  BY TypeStep DEF IInv
<1>1. Apart /\ TypeOK
  BY DEF IInv
<1>2. ASSUME NEW o \in Ops, Sends(o) PROVE Apart' /\ Remembered'
  <2>1. UNCHANGED <<keys, prompts, steering, log, lost>> /\ inbox' = Append(inbox, o)
        /\ sends' = [sends EXCEPT ![o] = @ + 1] /\ (o \notin Keyed => sends[o] < 1)
        /\ sends \in [Ops -> 0 .. MaxSends] /\ inbox \in Seq(Ops \cup {Eof})
    BY <1>1, <1>2 DEF Sends, TypeOK
  <2>2. Apart' /\ Held' = Held
    BY <1>1, <2>1, ApartUnmoved
  <2>3. Range(inbox') = Range(inbox) \cup {o}
    BY <2>1, Appends
  <2>4. ASSUME NEW d \in Ops \ Keyed PROVE SentOnce(d)'
    <3>1. SentOnce(d) /\ Single(inbox, d)
      BY DEF IInv, Remembered, SentOnce
    <3>2. CASE d = o
      <4>1. sends[d] = 0 /\ sends'[d] = 1 /\ d \notin Held
        BY <2>1, <3>1, <3>2 DEF SentOnce
      <4>2. Single(inbox', d)
        BY <2>1, <3>1, <4>1, SingleAppends DEF SentOnce
      <4> QED BY <2>2, <4>1, <4>2 DEF SentOnce
    <3>3. CASE d # o
      <4>1. sends'[d] = sends[d]
        BY <2>1, <3>3
      <4>2. Single(inbox', d)
        BY <2>1, <3>1, <3>3, SingleAppends
      <4> QED BY <2>2, <2>3, <3>1, <3>3, <4>1, <4>2 DEF SentOnce
    <3> QED BY <3>2, <3>3
  <2>5. Once(keys') /\ \A d \in Keyed : d \in Held' => d \in Range(keys')
    BY <2>1, <2>2 DEF IInv, Remembered
  <2> QED BY <2>2, <2>4, <2>5 DEF Remembered
<1>3. CASE Closes
  <2>1. UNCHANGED <<sends, keys, prompts, steering, log, lost>> /\ inbox' = Append(inbox, Eof)
        /\ inbox \in Seq(Ops \cup {Eof})
    BY <1>1, <1>3 DEF Closes, TypeOK
  <2>2. Apart' /\ Held' = Held
    BY <1>1, <2>1, ApartUnmoved
  <2>3. ASSUME NEW d \in Ops \ Keyed PROVE SentOnce(d)'
    <3>1. SentOnce(d) /\ Single(inbox, d) /\ d # Eof
      BY DEF IInv, Remembered, SentOnce
    <3>2. Single(inbox', d) /\ Range(inbox') = Range(inbox) \cup {Eof}
      BY <2>1, <3>1, SingleAppends, Appends
    <3> QED BY <2>1, <2>2, <3>1, <3>2 DEF SentOnce
  <2> QED BY <2>1, <2>2, <2>3 DEF IInv, Remembered
<1>4. ASSUME HandlesEof \/ \E o \in Ops : Replays(o) \/ Refuses(o) PROVE Apart' /\ Remembered'
  <2>1. UNCHANGED <<sends, keys, prompts, steering, log, lost>> /\ inbox # << >> /\ inbox' = Tail(inbox)
    BY <1>4 DEF HandlesEof, Replays, Refuses, Takes
  <2> QED BY <1>1, <2>1, ApartUnmoved, StillRemembered
<1>5. ASSUME NEW o \in Ops, Submits(o) \/ Steers(o) PROVE Apart' /\ Remembered'
  BY <1>5, SubmitIInv, SteerIInv
<1>6. ASSUME NEW o \in Ops, Answers(o) PROVE Apart' /\ Remembered'
  <2>1. Admits(o) /\ UNCHANGED <<prompts, steering, log, lost>>
    BY <1>6 DEF Answers, Admits
  <2> QED BY <1>1, <2>1, ApartUnmoved, AdmitsRemembered
<1>7. CASE Boundary
  BY <1>7, BoundaryIInv
<1>8. CASE ExecutionEnds
  BY <1>8, EndsIInv
<1>9. CASE Crashes
  BY <1>9, CrashIInv
<1>10. CASE Asks \/ Exits \/ Restarts \/ Done \/ UNCHANGED vars
  <2>1. UNCHANGED <<sends, keys, inbox, prompts, steering, log, lost>>
    BY <1>10 DEF Asks, Exits, Restarts, KeysRead, Done, vars
  <2> QED BY <1>1, <2>1, ApartUnmoved, StillRemembered
<1> QED
  BY <1>2, <1>3, <1>4, <1>5, <1>6, <1>7, <1>8, <1>9, <1>10 DEF Next, Handles

\* While no key is evicted the invariant holds in every behaviour.
LEMMA Invariance ==
  ASSUME RoomForKeys
  PROVE  Spec => []IInv
<1>1. IInv /\ [Next]_vars => IInv'
  BY NextIInv
<1> QED BY <1>1, InitIInv, PTL DEF Spec

-----------------------------------------------------------------------------
(***************************************************************************)
(* The theorems.                                                           *)
(***************************************************************************)

\* The types hold, evicted keys or not: no more steers and keys than there is
\* room for, and steers and questions only while a turn runs.
THEOREM Typing == Spec => []TypeOK
  BY InitTyped, TypeStep, PTL DEF Spec

\* As long as no key is evicted, no instruction reaches the model twice, over
\* retries, the ends of turns, crashes and restarts (ControlPlane.replay, remember).
THEOREM NothingActsTwice ==
  ASSUME RoomForKeys
  PROVE  Spec => []ActsOnce
<1>1. IInv => ActsOnce
  BY DEF IInv, Apart, ActsOnce
<1> QED BY <1>1, Invariance, PTL

\* What one step of the loop does to the instructions: one is taken, or one is
\* done, or both, or a crash loses what was taken.
LEMMA StepsAdvance ==
  ASSUME RoomForKeys, IInv, Next
  PROVE  [Promise!Next]_(Promise!ivars)
<1>1. Apart /\ TypeOK
  BY DEF IInv
<1>2. LogOps \subseteq Instr /\ Pending \subseteq Instr
  <2>1. Range(prompts) \subseteq Instr /\ Range(steering) \subseteq Instr
    BY <1>1 DEF TypeOK, Range
  <2>2. LogOps \subseteq Instr
    BY <1>1 DEF TypeOK, LogOps
  <2> QED BY <2>1, <2>2 DEF Pending
<1>3. ASSUME UNCHANGED <<prompts, steering, log, lost>> PROVE UNCHANGED Promise!ivars
  BY <1>3 DEF Pending, LogOps, Promise!ivars
<1>4. ASSUME NEW new \in SUBSET Instr, NEW did \in SUBSET Instr,
             new \cap (Pending \cup LogOps \cup lost) = {}, did \subseteq Pending \cup new,
             Pending' = (Pending \cup new) \ did, LogOps' = LogOps \cup did, lost' = lost
      PROVE  Promise!Next
  BY <1>4 DEF Promise!Next, Promise!Advance
<1>5. ASSUME NEW o \in Ops, Submits(o) \/ Steers(o), ~Busy PROVE Promise!Next
  <2>1. /\ o \in Instr /\ Starts(o) /\ lost' = lost /\ Takes(o) /\ o \notin Range(keys)
    BY <1>5 DEF Submits, Steers, SteersIdle, Admits, Instr
  <2>2. /\ LogOps' = LogOps \cup {o} /\ Range(prompts') = {o} /\ steering' = steering
        /\ prompts = << >> /\ steering = << >>
    BY <1>1, <1>5, <2>1, StartsTyped
  <2>3. Range(<< >>) = {}
    BY DEF Range
  <2>4. Pending = {} /\ Pending' = {} /\ o \notin Held
    BY <2>1, <2>2, <2>3, Fresh DEF Pending
  <2>5. o \notin LogOps \cup lost
    BY <2>4 DEF Held
  <2>6. Pending' = (Pending \cup {o}) \ {o} /\ {o} \cap (Pending \cup LogOps \cup lost) = {}
        /\ {o} \subseteq Pending \cup {o} /\ {o} \in SUBSET Instr
    BY <2>1, <2>4, <2>5
  <2> QED BY <1>4, <2>1, <2>2, <2>6
<1>6. ASSUME NEW o \in Ops, Steers(o), Busy, Len(steering) < MaxQueue PROVE Promise!Next
  <2>1. /\ o \in Instr /\ UNCHANGED <<prompts, log, lost>> /\ steering' = Append(steering, o)
        /\ Takes(o) /\ o \notin Range(keys)
    BY <1>6 DEF Steers, Admits, Instr
  <2>2. Range(steering') = Range(steering) \cup {o} /\ LogOps' = LogOps
    BY <1>1, <2>1, Appends DEF TypeOK, LogOps
  <2>3. o \notin Held
    BY <2>1, Fresh
  <2>4. Pending' = (Pending \cup {o}) \ {} /\ {o} \cap (Pending \cup LogOps \cup lost) = {}
    BY <2>1, <2>2, <2>3 DEF Pending, Held
  <2>5. {o} \in SUBSET Instr /\ {} \in SUBSET Instr /\ {} \subseteq Pending \cup {o}
        /\ LogOps' = LogOps \cup {}
    BY <2>1, <2>2
  <2> QED BY <1>4, <2>1, <2>4, <2>5
<1>7. ASSUME NEW o \in Ops, Submits(o) \/ (Steers(o) /\ ~(Len(steering) < MaxQueue)), Busy
      PROVE  UNCHANGED Promise!ivars
  BY <1>3, <1>7 DEF Submits, Steers, Admits
<1>8. ASSUME NEW o \in Ops, Answers(o) PROVE UNCHANGED Promise!ivars
  BY <1>3, <1>8 DEF Answers, Admits
<1>9. CASE Boundary
  <2>1. /\ steering # << >> /\ steering' = Tail(steering) /\ prompts' = prompts /\ lost' = lost
        /\ steering \in Seq(Instr)
    BY <1>1, <1>9 DEF Boundary, TypeOK
  <2>2. /\ Head(steering) \in Instr /\ Range(steering) = Range(steering') \cup {Head(steering)}
    BY <2>1, Tails
  <2>3. LogOps' = LogOps \cup {Head(steering)}
    BY <1>9, BoundaryIInv
  <2>4. Head(steering) \in Pending
    BY <1>1, <2>2 DEF Apart, Pending
  <2>5. Pending' = (Pending \cup {}) \ {Head(steering)}
    BY <2>1, <2>2, <2>3 DEF Pending
  <2>6. {Head(steering)} \in SUBSET Instr /\ {} \in SUBSET Instr
        /\ {Head(steering)} \subseteq Pending \cup {} /\ {} \cap (Pending \cup LogOps \cup lost) = {}
    BY <2>2, <2>4
  <2> QED BY <1>4, <2>1, <2>3, <2>5, <2>6
<1>10. CASE ExecutionEnds
  <2>1. /\ prompts # << >> /\ prompts' \in Seq(Instr) /\ steering' = << >> /\ lost' = lost
        /\ Range(prompts') = Range(Tail(prompts)) \cup Range(steering)
        /\ prompts' # << >> => Head(prompts') \in Instr /\ Head(prompts') \in Range(prompts')
    BY <1>1, <1>10, EndsTyped
  <2>2. Range(prompts) = Range(Tail(prompts)) \cup {Head(prompts)} /\ Head(prompts) \in LogOps
        /\ Range(Tail(prompts)) \cap LogOps = {} /\ Range(steering) \cap LogOps = {}
    BY <1>1, <2>1, Tails DEF TypeOK, Apart
  <2>3. Range(steering') = {} /\ Pending = Range(prompts')
    <3>1. Range(steering') = {}
      BY <2>1 DEF Range
    <3>2. Pending = Range(prompts')
      BY <2>1, <2>2 DEF Pending
    <3> QED BY <3>1, <3>2
  <2>4. CASE prompts' = << >>
    <3>1. LogOps' = LogOps /\ Range(prompts') = {}
      BY <1>10, <2>4, EndsIInv DEF Range
    <3>2. Pending' = Pending
      BY <2>3, <3>1 DEF Pending
    <3> QED BY <2>1, <3>1, <3>2 DEF Promise!ivars
  <2>5. CASE prompts' # << >>
    <3>1. LogOps' = LogOps \cup {Head(prompts')}
      BY <1>10, <2>5, EndsIInv
    <3>2. Pending' = (Pending \cup {}) \ {Head(prompts')}
      BY <2>1, <2>2, <2>3, <3>1 DEF Pending
    <3>3. {Head(prompts')} \in SUBSET Instr /\ {} \in SUBSET Instr
          /\ {Head(prompts')} \subseteq Pending \cup {} /\ {} \cap (Pending \cup LogOps \cup lost) = {}
      BY <2>1, <2>3, <2>5
    <3> QED BY <1>4, <2>1, <3>1, <3>2, <3>3
  <2> QED BY <2>4, <2>5
<1>11. CASE Crashes
  <2>1. LogOps' = LogOps /\ Pending' = {} /\ lost' = lost \cup Pending
    BY <1>11, CrashIInv DEF Crashes, Pending
  <2> QED BY <2>1 DEF Promise!Next, Promise!Die
<1>12. ASSUME \/ HandlesEof \/ Asks \/ Exits \/ Closes \/ Restarts \/ Done
              \/ \E o \in Ops : Replays(o) \/ Refuses(o) \/ Sends(o)
       PROVE  UNCHANGED Promise!ivars
  BY <1>3, <1>12
  DEF HandlesEof, Asks, Exits, Closes, Restarts, Done, Replays, Refuses, Sends, vars
<1> QED
  BY <1>5, <1>6, <1>7, <1>8, <1>9, <1>10, <1>11, <1>12 DEF Next, Handles

\* The serve loop implements Instructions: each one it takes reaches the model
\* once, as a steer or as a turn, unless the process dies, and what a dead
\* process had taken is not taken again.
THEOREM Refinement ==
  ASSUME RoomForKeys
  PROVE  Spec => ImplementsInstructions
<1>1. Init => Promise!Init
  <2> SUFFICES ASSUME Init PROVE Promise!Init
    OBVIOUS
  <2>1. log = << >> /\ prompts = << >> /\ steering = << >> /\ lost = {}
    BY DEF Init
  <2>2. DOMAIN << >> = {} /\ Range(<< >>) = {}
    BY DEF Range
  <2> QED BY <2>1, <2>2 DEF Promise!Init, Pending, LogOps
<1>2. IInv /\ [Next]_vars => [Promise!Next]_(Promise!ivars)
  <2> SUFFICES ASSUME IInv, [Next]_vars PROVE [Promise!Next]_(Promise!ivars)
    OBVIOUS
  <2>1. CASE Next
    BY <2>1, StepsAdvance
  <2>2. CASE UNCHANGED vars
    BY <2>2 DEF vars, Promise!ivars, Pending, LogOps
  <2> QED BY <2>1, <2>2
<1> QED BY <1>1, <1>2, Invariance, PTL DEF Spec, ImplementsInstructions, Promise!Spec

\* The steering queue is emptied from the front only: no steer in it is taken, for
\* a boundary or as a leftover, before one queued ahead of it (SteeringQueue.pop,
\* drain_steers). What becomes of leftovers, which later steers may overtake, is not
\* said here.
THEOREM SteersKeepOrder ==
  ASSUME RoomForKeys
  PROVE  Spec => SteersInOrder
<1>1. IInv /\ [Next]_vars =>
        [\A i \in DOMAIN steering : \A j \in 1 .. (i - 1) :
           steering[i] \in {log'[k][2] : k \in DOMAIN log'} =>
             steering[j] \in {log'[k][2] : k \in DOMAIN log'}]_vars
  <2> SUFFICES ASSUME IInv, [Next]_vars, NEW i \in DOMAIN steering, NEW j \in 1 .. (i - 1),
                      steering[i] \in LogOps'
               PROVE  steering[j] \in LogOps'
    BY DEF LogOps
  <2>1. /\ steering \in Seq(Instr) /\ i \in 1 .. Len(steering) /\ Len(steering) \in Nat
        /\ Once(steering) /\ steering[i] \notin LogOps /\ i # 1 /\ 1 \in DOMAIN steering
        /\ steering # << >> /\ Head(steering) = steering[1]
    BY DEF IInv, TypeOK, Apart, Range
  <2>2. steering[i] # Head(steering)
    BY <2>1 DEF Once
  <2>3. CASE Boundary
    BY <2>1, <2>2, <2>3, BoundaryIInv
  <2>4. CASE ExecutionEnds
    <3>1. CASE Tail(prompts) = << >>
      <4>1. prompts' = steering
        <5>1. << >> \o steering = steering
          BY <2>1, ConcatEmptySeq
        <5> QED BY <2>4, <3>1, <5>1 DEF ExecutionEnds, Leftovers
      <4> QED BY <2>1, <2>2, <2>4, <4>1, EndsIInv
    <3>2. CASE Tail(prompts) # << >>
      <4>1. /\ Tail(prompts) \in Seq(Instr) /\ prompts' = Tail(prompts) \o steering
            /\ prompts' # << >> /\ Head(prompts') = Head(Tail(prompts))
            /\ Head(Tail(prompts)) \in Range(Tail(prompts))
        <5>1. Tail(prompts) \in Seq(Instr) /\ prompts' = Tail(prompts) \o steering
          BY <2>4, EndsTyped, Tails DEF IInv, TypeOK, ExecutionEnds, Leftovers
        <5>2. ASSUME NEW s \in Seq(Instr), s # << >>
              PROVE  s \o steering # << >> /\ Head(s \o steering) = Head(s) /\ Head(s) \in Range(s)
          BY <2>1, <5>2, Concats, Tails
        <5> QED BY <3>2, <5>1, <5>2
      <4>2. Range(Tail(prompts)) \subseteq Range(prompts) /\ steering[i] \notin Range(prompts)
        <5>1. Range(Tail(prompts)) \subseteq Range(prompts)
          BY <2>4, EndsTyped, Tails DEF IInv, TypeOK
        <5>2. steering[i] \in Range(steering)
          BY DEF Range
        <5> QED BY <5>1, <5>2 DEF IInv, Apart
      <4> QED BY <2>1, <2>4, <4>1, <4>2, EndsIInv
    <3> QED BY <3>1, <3>2
  <2>5. ASSUME NEW o \in Ops, Submits(o) \/ Steers(o) PROVE LogOps' = LogOps
    <3>1. Busy
      BY <2>1 DEF IInv, TypeOK, Busy
    <3> QED BY <2>5, <3>1 DEF Submits, Steers, LogOps
  <2>6. ASSUME ~Boundary, ~ExecutionEnds, ~\E o \in Ops : Submits(o) \/ Steers(o)
        PROVE  LogOps' = LogOps
    BY <2>6 DEF Next, Handles, HandlesEof, Replays, Refuses, Answers, Admits, Asks, Exits, Closes,
                Sends, Crashes, Restarts, Done, vars, LogOps
  <2> QED BY <2>1, <2>3, <2>4, <2>5, <2>6
<1> QED BY <1>1, Invariance, PTL DEF Spec, SteersInOrder
=============================================================================
