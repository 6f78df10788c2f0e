-------------------------- MODULE ControlFileProofs --------------------------
(***************************************************************************)
(* When no process dies, stalls or times out and no file call fails, the   *)
(* marker file makes every transaction atomic, for any number of processes *)
(* and transactions.  What survives faults follows: a waiter that only     *)
(* runs late never takes a holder's marker, the file is never a blend and, *)
(* unless a read fails, never loses the handle, and unless file calls fail *)
(* no grant in it is untold.                                               *)
(***************************************************************************)
EXTENDS ControlFile, TLAPS

USE ControlFileAssumption

\* The holder of the marker is the one process inside, nobody waits to break it.
LockInv ==
  /\ ~marker.old
  /\ marker.by # NoProc => pc[marker.by] \in Inside
  /\ \A p \in Procs : /\ pc[p] \notin {"dead", "break"}
                      /\ ~late[p]
                      /\ pc[p] \in Inside => got[p] /\ marker.by = p

\* File and trail agree, except between the entry of a grant and its write; the
\* copy of the process inside is what the file is, or is about to be.
Agrees(c) == c.epoch = Len(trail) /\ c.seq = Len(trail)
DataInv ==
  /\ TrailInOrder
  /\ (\A p \in Procs : pc[p] = "write" => Minting(p)) => Agrees(file)
  /\ \A p \in Procs : pc[p] \in {"audit", "write"} => Agrees(copy[p])
  /\ \A p \in Procs : pc[p] = "audit" => ~Minting(p)

IInv == TypeOK /\ LockInv /\ DataInv

\* In the initial state nobody is inside and the trail is empty.
LEMMA InitIInv == Init => IInv
<1> SUFFICES ASSUME Init PROVE IInv
  OBVIOUS
<1>1. TypeOK
  <2>1. Blank \in [handle : Procs \cup {NoProc}, epoch : Nat, seq : Nat]
    BY DEF Blank
  <2>2. NoMarker \in [by : Procs \cup {NoProc}, old : BOOLEAN]
    BY DEF NoMarker
  <2>3. /\ faults \in FaultSets /\ marker \in [by : Procs \cup {NoProc}, old : BOOLEAN]
        /\ file \in [handle : Procs \cup {NoProc}, epoch : Nat, seq : Nat] /\ misread \in BOOLEAN
    BY <2>1, <2>2 DEF Init
  <2>4. copy \in [Procs -> [handle : Procs \cup {NoProc}, epoch : Nat, seq : Nat]]
    BY <2>3 DEF Init
  <2>5. /\ pc \in [Procs -> {"idle", "dead"} \cup Waiting \cup Inside]
        /\ got \in [Procs -> BOOLEAN] /\ late \in [Procs -> BOOLEAN] /\ txs \in [Procs -> Nat]
    BY DEF Init
  <2>6. trail \in Seq([seq : Nat, epoch : Nat])
    BY DEF Init
  <2> QED BY <2>3, <2>4, <2>5, <2>6 DEF TypeOK
<1>2. LockInv
  BY DEF Init, LockInv, NoMarker, Inside
<1>3. DataInv
  BY DEF Init, DataInv, Agrees, TrailInOrder, Minting, Blank
<1> QED BY <1>1, <1>2, <1>3 DEF IInv

\* The wait changes the marker only to take it when it is free.
LEMMA WaitIInv ==
  ASSUME faults = {}, IInv, NEW p \in Procs, Wait(p)
  PROVE  IInv'
<1> USE DEF IInv, TypeOK, Go, Inside, Waiting
<1>1. CASE Begin(p)
  <2>1. TypeOK' /\ LockInv'
    BY <1>1 DEF Begin, LockInv
  <2>2. DataInv'
    BY <1>1 DEF Begin, DataInv, TrailInOrder, Agrees, Minting
  <2> QED BY <2>1, <2>2
<1>2. CASE Opens(p)
  <2>1. TypeOK' /\ LockInv'
    BY <1>2 DEF Opens, LockInv
  <2>2. DataInv'
    BY <1>2 DEF Opens, DataInv, TrailInOrder, Agrees, Minting
  <2> QED BY <2>1, <2>2
<1>3. CASE Exists(p)
  <2>1. TypeOK' /\ LockInv'
    BY <1>3 DEF Exists, LockInv
  <2>2. DataInv'
    BY <1>3 DEF Exists, DataInv, TrailInOrder, Agrees, Minting
  <2> QED BY <2>1, <2>2
<1>4. CASE Stat(p)
  <2>1. AfterStat(p) = "open"
    BY DEF AfterStat, LockInv
  <2>2. TypeOK' /\ LockInv'
    BY <1>4, <2>1 DEF Stat, LockInv
  <2>3. DataInv'
    BY <1>4, <2>1 DEF Stat, DataInv, TrailInOrder, Agrees, Minting
  <2> QED BY <2>2, <2>3
<1>5. ~OpenFails(p) /\ ~Breaks(p)
  BY DEF OpenFails, Breaks, LockInv
<1> QED BY <1>1, <1>2, <1>3, <1>4, <1>5 DEF Wait

\* Only one process is ever inside.
LEMMA Alone == LockInv => OneTransaction
  BY DEF LockInv, OneTransaction

Contents == [handle : Procs \cup {NoProc}, epoch : Nat, seq : Nat]

\* What a process reads is the file or, when the call fails, a blank state; a
\* process that mints the handle adds it to what it read.
LEMMA ReadTyped ==
  ASSUME TypeOK, NEW p \in Procs, NEW c \in Readable(p)
  PROVE  /\ c \in Contents /\ [c EXCEPT !.handle = p] \in Contents
         /\ c = file \/ (c = Blank /\ "oserror" \in faults)
         /\ [c EXCEPT !.handle = p].handle = p
         /\ [c EXCEPT !.handle = p].epoch = c.epoch
         /\ [c EXCEPT !.handle = p].seq = c.seq
<1>1. c = file \/ (c = Blank /\ "oserror" \in faults)
  BY DEF Readable, Current
<1>2. c \in Contents
  BY <1>1 DEF TypeOK, Blank, Contents
<1> QED BY <1>1, <1>2 DEF Contents

\* What p takes from a read, and where it goes with it.
Taken(p, c) == IF Minting(p) /\ AfterRead(p, c) = "write" THEN [c EXCEPT !.handle = p] ELSE c

LEMMA ReadStep ==
  ASSUME TypeOK, NEW p \in Procs, Reads(p)
  PROVE  \E c \in Readable(p) :
           /\ copy' = [copy EXCEPT ![p] = Taken(p, c)] /\ pc' = [pc EXCEPT ![p] = AfterRead(p, c)]
           /\ misread' = (misread \/ c # file)
           /\ UNCHANGED <<faults, marker, got, late, file, trail, txs>>
BY DEF Reads, Taken, Go, Current

\* Inside, the one process there moves file, copy and trail together.
LEMMA TransactIInv ==
  ASSUME faults = {}, IInv, NEW p \in Procs, Transact(p)
  PROVE  IInv'
<1> USE DEF IInv, TypeOK, Go
<1>1. \A q \in Procs : q # p /\ pc[p] \in Inside => pc[q] \notin Inside
  BY Alone DEF OneTransaction
<1>2. CASE Reads(p)
  <2>1. PICK c \in Readable(p) :
          /\ copy' = [copy EXCEPT ![p] = Taken(p, c)] /\ pc' = [pc EXCEPT ![p] = AfterRead(p, c)]
          /\ misread' = (misread \/ c # file)
          /\ UNCHANGED <<faults, marker, got, late, file, trail, txs>>
    BY <1>2, ReadStep
  <2>2. c = file /\ pc[p] = "read"
    BY <1>2 DEF Readable, Current, Reads
  <2>3. AfterRead(p, c) \in {"unlock", "write", "audit"}
    BY DEF AfterRead
  <2>4. Taken(p, c) \in Contents /\ Taken(p, c).epoch = c.epoch /\ Taken(p, c).seq = c.seq
    BY ReadTyped DEF Taken
  <2>5. TypeOK'
    BY <2>1, <2>3, <2>4 DEF Inside, Contents
  <2>6. LockInv'
    BY <2>1, <2>2, <2>3 DEF LockInv, Inside
  <2>7. Agrees(file)
    BY <1>1, <2>2 DEF DataInv, Inside
  <2>8. copy'[p] = Taken(p, c) /\ pc'[p] = AfterRead(p, c)
    BY <2>1
  <2>9. Agrees(copy[p])'
    BY <2>1, <2>2, <2>4, <2>7, <2>8 DEF Agrees
  <2>10. \A q \in Procs : q # p => pc'[q] = pc[q] /\ copy'[q] = copy[q]
    BY <2>1
  <2>11. \A q \in Procs : q # p => pc'[q] \notin {"audit", "write"}
    BY <1>1, <2>2, <2>10 DEF Inside
  <2>12. pc'[p] = "audit" => ~Minting(p)'
    BY <2>1, <2>8 DEF AfterRead, Minting
  <2>13. Agrees(file)'
    BY <2>1, <2>7 DEF Agrees
  <2>14. TrailInOrder'
    BY <2>1 DEF DataInv, TrailInOrder
  <2>15. DataInv'
    BY <2>9, <2>11, <2>12, <2>13, <2>14 DEF DataInv
  <2> QED BY <2>5, <2>6, <2>15
<1>3. CASE Audits(p)
  <2>1. pc[p] = "audit" /\ ~Minting(p) /\ Agrees(copy[p]) /\ trail' = Audited(p)
    BY <1>3 DEF Audits, DataInv
  <2>2. /\ Len(trail') = Len(trail) + 1
        /\ trail' \in Seq([seq : Nat, epoch : Nat])
        /\ trail'[Len(trail) + 1] = [seq |-> Len(trail) + 1, epoch |-> Len(trail) + 1]
        /\ \A i \in DOMAIN trail : trail'[i] = trail[i]
    BY <2>1 DEF Audited, Agrees
  <2>3. TrailInOrder'
    <3>1. DOMAIN trail = 1..Len(trail) /\ DOMAIN trail' = 1..Len(trail')
      BY <2>2
    <3>2. ASSUME NEW i \in DOMAIN trail'
          PROVE  i \in DOMAIN trail \/ i = Len(trail) + 1
      BY <2>2, <3>1
    <3> QED BY <2>2, <3>2 DEF DataInv, TrailInOrder
  <2>4. TypeOK' /\ LockInv'
    <3>1. Bumped(copy[p]) \in [handle : Procs \cup {NoProc}, epoch : Nat, seq : Nat]
      <4>1. copy[p].handle \in Procs \cup {NoProc} /\ copy[p].epoch \in Nat /\ copy[p].seq \in Nat
        OBVIOUS
      <4> QED BY <4>1 DEF Bumped
    <3>2. TypeOK'
      BY <1>3, <2>2, <3>1 DEF Audits, Inside
    <3>3. LockInv'
      BY <1>3 DEF Audits, LockInv, Inside
    <3> QED BY <3>2, <3>3
  <2>5. Agrees(copy[p])' /\ ~Minting(p)'
    BY <1>3, <2>1, <2>2 DEF Audits, Agrees, Bumped, Minting
  <2>6. DataInv'
    BY <1>1, <1>3, <2>1, <2>3, <2>5 DEF Audits, DataInv, Inside
  <2> QED BY <2>4, <2>6
<1>4. CASE Writes(p)
  <2>1. TypeOK' /\ LockInv'
    BY <1>4 DEF Writes, LockInv, Inside
  <2>2. DataInv'
    BY <1>1, <1>4 DEF Writes, DataInv, TrailInOrder, Agrees, Minting, Inside
  <2> QED BY <2>1, <2>2
<1>5. CASE Unlocks(p)
  <2>1. pc[p] = "unlock" /\ marker' = NoMarker /\ Done(p) \in Nat
    BY <1>5 DEF Unlocks, LeftBy, LockInv, Done, Inside
  <2>2. TypeOK' /\ LockInv'
    BY <1>1, <1>5, <2>1 DEF Unlocks, LockInv, Inside, NoMarker
  <2>3. DataInv'
    BY <1>1, <1>5, <2>1 DEF Unlocks, DataInv, TrailInOrder, Agrees, Minting, Inside
  <2> QED BY <2>2, <2>3
<1> QED BY <1>2, <1>3, <1>4, <1>5 DEF Transact

\* What may go wrong is settled once for all.
LEMMA SettledFaults == [Next]_cvars => faults' = faults
  BY DEF Next, cvars, Wait, Transact, Begin, Opens, OpenFails, Exists, Stat, Breaks, Reads,
         Audits, Writes, Unlocks, Crashes, DeadlinePasses, GrowsOld, Finished

\* Without faults the invariant holds in every behaviour.
LEMMA Invariance == Spec => [](faults = {} => IInv)
<1>1. (faults = {} => IInv) /\ [Next]_cvars => (faults = {} => IInv)'
  <2> SUFFICES ASSUME faults = {}, IInv, [Next]_cvars PROVE IInv'
    BY SettledFaults
  <2>1. ASSUME NEW p \in Procs PROVE ~Crashes(p) /\ ~DeadlinePasses(p)
    BY DEF Crashes, DeadlinePasses
  <2>2. ~GrowsOld
    BY DEF GrowsOld, IInv, LockInv
  <2>3. CASE UNCHANGED cvars
    BY <2>3 DEF cvars, IInv, TypeOK, LockInv, DataInv, TrailInOrder, Agrees, Minting
  <2> QED BY <2>1, <2>2, <2>3, WaitIInv, TransactIInv DEF Next, Finished
<1> QED BY <1>1, InitIInv, PTL DEF Spec

\* Transactions on control.json exclude each other (file_lock.locked).
THEOREM MutualExclusion == Spec => []OneTransaction
<1>1. (faults = {} => IInv) => OneTransaction
  BY Alone DEF IInv, OneTransaction
<1> QED BY <1>1, Invariance, PTL

\* The audit trail is a gap-free account of the grants (_transaction, _audit).
THEOREM GapFreeTrail == Spec => []TrailInOrder
<1>1. (faults = {} => IInv) => TrailInOrder
  BY DEF IInv, DataInv, TrailInOrder
<1> QED BY <1>1, Invariance, PTL

\* Between transactions the control file and the trail tell the same story.
THEOREM FileMatchesTrail == Spec => []TrailMatchesFile
<1>1. (faults = {} => IInv) => TrailMatchesFile
  BY DEF IInv, DataInv, TrailMatchesFile, Agrees, Inside
<1> QED BY <1>1, Invariance, PTL

\* The trail tells, in order, what the control file holds (_transaction).
THEOREM TrueTrail == Spec => []TrailTrue
<1>1. (faults = {} => IInv) => TrailTrue
  BY DEF IInv, DataInv, TrailInOrder, TrailMatchesFile, TrailTrue, Agrees, Inside
<1> QED BY <1>1, Invariance, PTL

-----------------------------------------------------------------------------
(***************************************************************************)
(* Whatever goes wrong.                                                    *)
(***************************************************************************)

\* A grant adds one to what the copy counts and leaves its handle.
LEMMA BumpedTyped ==
  ASSUME NEW c \in Contents
  PROVE  /\ Bumped(c) \in Contents
         /\ Bumped(c).handle = c.handle
         /\ Bumped(c).epoch = c.epoch + 1 /\ Bumped(c).seq = c.seq + 1
<1>1. c.handle \in Procs \cup {NoProc} /\ c.epoch \in Nat /\ c.seq \in Nat
  BY DEF Contents
<1> QED BY <1>1 DEF Bumped, Contents

\* The entry of a grant is the last one and disturbs no other.
LEMMA AuditedTyped ==
  ASSUME TypeOK, NEW p \in Procs
  PROVE  /\ Audited(p) \in Seq([seq : Nat, epoch : Nat])
         /\ DOMAIN Audited(p) = 1..(Len(trail) + 1)
         /\ Audited(p)[Len(trail) + 1] = [seq |-> copy[p].seq + 1, epoch |-> copy[p].epoch + 1]
         /\ \A i \in DOMAIN trail : Audited(p)[i] = trail[i]
<1>1. copy[p].seq + 1 \in Nat /\ copy[p].epoch + 1 \in Nat
  BY DEF TypeOK
<1>2. [seq |-> copy[p].seq + 1, epoch |-> copy[p].epoch + 1] \in [seq : Nat, epoch : Nat]
  BY <1>1
<1> DEFINE entry == [seq |-> copy[p].seq + 1, epoch |-> copy[p].epoch + 1]
<1>3. entry \in [seq : Nat, epoch : Nat] /\ trail \in Seq([seq : Nat, epoch : Nat])
  BY <1>2 DEF TypeOK
<1>4. Audited(p) = Append(trail, entry)
  BY DEF Audited
<1> HIDE DEF entry
<1>5. /\ Audited(p) \in Seq([seq : Nat, epoch : Nat])
      /\ DOMAIN Audited(p) = 1..(Len(trail) + 1)
      /\ Audited(p)[Len(trail) + 1] = entry
      /\ \A i \in DOMAIN trail : Audited(p)[i] = trail[i]
  BY <1>3, <1>4
<1> QED BY <1>5 DEF entry

\* Every step keeps the types, whatever fails.
LEMMA TypeStep == TypeOK /\ [Next]_cvars => TypeOK'
<1> SUFFICES ASSUME TypeOK, [Next]_cvars PROVE TypeOK'
  OBVIOUS
<1> USE DEF TypeOK, Go, Waiting, Inside
<1>1. ASSUME NEW p \in Procs, Begin(p) \/ Opens(p) \/ OpenFails(p) \/ Exists(p)
      PROVE  TypeOK'
  <2>1. CASE Begin(p)
    BY <2>1 DEF Begin
  <2>2. CASE Opens(p)
    BY <2>2 DEF Opens
  <2>3. CASE OpenFails(p) \/ Exists(p)
    BY <2>3 DEF OpenFails, Exists
  <2> QED BY <1>1, <2>1, <2>2, <2>3
<1>2. ASSUME NEW p \in Procs, Stat(p) \/ Breaks(p) PROVE TypeOK'
  <2>1. AfterStat(p) \in {"open", "break", "read"}
    BY DEF AfterStat
  <2>2. CASE Stat(p)
    BY <2>1, <2>2 DEF Stat
  <2>3. CASE Breaks(p)
    <3>1. marker' \in [by : Procs \cup {NoProc}, old : BOOLEAN]
      <4>1. NoMarker \in [by : Procs \cup {NoProc}, old : BOOLEAN]
        BY DEF NoMarker
      <4>2. marker' = NoMarker \/ marker' = marker
        BY <2>3 DEF Breaks
      <4> QED BY <4>1, <4>2
    <3> QED BY <2>3, <3>1 DEF Breaks
  <2> QED BY <1>2, <2>2, <2>3
<1>3. ASSUME NEW p \in Procs, Reads(p) PROVE TypeOK'
  <2>1. PICK c \in Readable(p) :
          /\ copy' = [copy EXCEPT ![p] = Taken(p, c)] /\ pc' = [pc EXCEPT ![p] = AfterRead(p, c)]
          /\ misread' = (misread \/ c # file)
          /\ UNCHANGED <<faults, marker, got, late, file, trail, txs>>
    BY <1>3, ReadStep
  <2>2. AfterRead(p, c) \in {"unlock", "write", "audit"}
    BY DEF AfterRead
  <2>3. Taken(p, c) \in Contents
    BY ReadTyped DEF Taken
  <2>4. misread' \in BOOLEAN
    BY <2>1
  <2> QED BY <2>1, <2>2, <2>3, <2>4 DEF Contents
<1>4. ASSUME NEW p \in Procs, Audits(p) PROVE TypeOK'
  <2>1. copy[p] \in Contents
    BY DEF Contents
  <2>2. Bumped(copy[p]) \in Contents
    BY <2>1, BumpedTyped
  <2>3. trail' \in Seq([seq : Nat, epoch : Nat])
    <3>1. Audited(p) \in Seq([seq : Nat, epoch : Nat])
      BY AuditedTyped DEF TypeOK
    <3> QED BY <1>4, <3>1 DEF Audits
  <2> QED BY <1>4, <2>2, <2>3 DEF Audits, Contents
<1>5. ASSUME NEW p \in Procs, Writes(p) \/ Unlocks(p) PROVE TypeOK'
  <2>1. Done(p) \in Nat
    BY DEF Done
  <2>2. CASE Writes(p)
    <3>1. Blank \in Contents /\ copy[p] \in Contents
      BY DEF Blank, Contents
    <3>2. CASE file' = copy[p] /\ UNCHANGED copy
      BY <2>2, <3>1, <3>2 DEF Writes, Contents
    <3>3. CASE copy' = [copy EXCEPT ![p] = Blank] /\ UNCHANGED file
      <4>1. copy' \in [Procs -> Contents]
        BY <3>1, <3>3 DEF Contents
      <4> QED BY <2>2, <3>3, <4>1 DEF Writes, Contents
    <3> QED BY <2>2, <3>2, <3>3 DEF Writes
  <2>3. CASE Unlocks(p)
    <3>1. LeftBy(p) \in [by : Procs \cup {NoProc}, old : BOOLEAN]
      BY DEF LeftBy, NoMarker
    <3> QED BY <2>1, <2>3, <3>1 DEF Unlocks
  <2> QED BY <1>5, <2>2, <2>3
<1>6. ASSUME NEW p \in Procs, Crashes(p) \/ DeadlinePasses(p) PROVE TypeOK'
  BY <1>6 DEF Crashes, DeadlinePasses
<1>7. CASE GrowsOld
  BY <1>7 DEF GrowsOld
<1>8. CASE UNCHANGED cvars
  BY <1>8 DEF cvars
<1> QED BY <1>1, <1>2, <1>3, <1>4, <1>5, <1>6, <1>7, <1>8 DEF Next, Wait, Transact, Finished

\* The state is well typed at all times.
LEMMA Typing == Spec => []TypeOK
<1>1. Init => TypeOK
  BY InitIInv DEF IInv
<1> QED BY <1>1, TypeStep, PTL DEF Spec

\* Nobody writes a blend: the file and every copy count as many entries as
\* grants.  Until a read fails, a grant is made on top of a handle that is in the
\* file, and a process that has one, or found one, found it there.
Whole(c) == c.epoch = c.seq /\ (c.handle = NoProc /\ ~misread => c.epoch = 0)
WholeInv ==
  /\ Whole(file)
  /\ \A p \in Procs :
       /\ Whole(copy[p])
       /\ ~misread /\ pc[p] \in {"audit", "write"} => copy[p].handle # NoProc
       /\ ~misread /\ pc[p] = "unlock" /\ copy[p].handle # NoProc => file.handle # NoProc
       /\ ~misread /\ ~Minting(p) => file.handle # NoProc

LEMMA WholeStep == TypeOK /\ WholeInv /\ [Next]_cvars => WholeInv'
<1> SUFFICES ASSUME TypeOK, WholeInv, [Next]_cvars PROVE WholeInv'
  OBVIOUS
<1> USE DEF Go, Minting
<1>1. ASSUME NEW p \in Procs, Wait(p) \/ Crashes(p) \/ DeadlinePasses(p) PROVE WholeInv'
  <2>1. AfterStat(p) \notin {"audit", "write", "unlock"}
    BY DEF AfterStat
  <2>2. UNCHANGED <<file, copy, txs, misread>>
    BY <1>1 DEF Wait, Begin, Opens, OpenFails, Exists, Stat, Breaks, Crashes, DeadlinePasses
  <2>3. \A q \in Procs : /\ pc'[q] \in {"audit", "write"} => pc[q] \in {"audit", "write"}
                         /\ pc'[q] = "unlock" => pc[q] = "unlock"
    BY <1>1, <2>1
    DEF TypeOK, Wait, Begin, Opens, OpenFails, Exists, Stat, Breaks, Crashes, DeadlinePasses
  <2> QED BY <2>2, <2>3 DEF WholeInv, Whole
<1>2. ASSUME NEW p \in Procs, Reads(p) PROVE WholeInv'
  <2>1. PICK c \in Readable(p) :
          /\ copy' = [copy EXCEPT ![p] = Taken(p, c)] /\ pc' = [pc EXCEPT ![p] = AfterRead(p, c)]
          /\ misread' = (misread \/ c # file)
          /\ UNCHANGED <<faults, marker, got, late, file, trail, txs>>
    BY <1>2, ReadStep
  <2>2. c = file \/ (c = Blank /\ misread')
    <3>1. c = file \/ c = Blank
      BY ReadTyped
    <3> QED BY <2>1, <3>1
  <2>3. misread => misread'
    BY <2>1
  <2>4. Taken(p, c).epoch = c.epoch /\ Taken(p, c).seq = c.seq
        /\ (Taken(p, c).handle = p \/ (Taken(p, c).handle = c.handle /\ Taken(p, c) = c))
    BY ReadTyped DEF Taken
  <2>5. Taken(p, c).epoch = Taken(p, c).seq
        /\ (Taken(p, c).handle = NoProc /\ ~misread' => Taken(p, c).epoch = 0)
    <3>1. c.epoch = c.seq
      BY <2>2 DEF WholeInv, Whole, Blank
    <3>2. c.handle = NoProc /\ ~misread' => c.epoch = 0
      BY <2>2, <2>3 DEF WholeInv, Whole
    <3>3. p # NoProc
      OBVIOUS
    <3>4. Taken(p, c).epoch = Taken(p, c).seq
      BY <2>4, <3>1
    <3>5. Taken(p, c).handle = NoProc /\ ~misread' => Taken(p, c).epoch = 0
      BY <2>4, <3>2, <3>3
    <3> QED BY <3>4, <3>5
  <2>6. ~misread' /\ AfterRead(p, c) \in {"audit", "write"} => Taken(p, c).handle # NoProc
    <3> SUFFICES ASSUME ~misread', AfterRead(p, c) \in {"audit", "write"}
                 PROVE  Taken(p, c).handle # NoProc
      OBVIOUS
    <3>1. CASE Minting(p)
      <4>1. AfterRead(p, c) = "write"
        BY <3>1 DEF AfterRead
      <4> QED BY <3>1, <4>1, ReadTyped DEF Taken
    <3>2. CASE ~Minting(p)
      <4>1. c = file /\ file.handle # NoProc
        BY <2>2, <2>3, <3>2 DEF WholeInv
      <4> QED BY <3>2, <4>1 DEF Taken
    <3> QED BY <3>1, <3>2
  <2>7. ~misread' /\ AfterRead(p, c) = "unlock" => file.handle # NoProc
    BY <2>2, <2>3 DEF AfterRead
  <2>8. /\ copy'[p] = Taken(p, c) /\ pc'[p] = AfterRead(p, c)
        /\ \A q \in Procs : q # p => copy'[q] = copy[q] /\ pc'[q] = pc[q]
    BY <2>1 DEF TypeOK
  <2>9. Whole(file)'
    BY <2>1, <2>3 DEF WholeInv, Whole
  <2>10. \A q \in Procs : q # p => Whole(copy[q])'
    BY <2>3, <2>8 DEF WholeInv, Whole
  <2>11. Whole(copy[p])'
    BY <2>5, <2>8 DEF Whole
  <2>12. \A q \in Procs : ~misread' /\ ~Minting(q)' => file'.handle # NoProc
    BY <2>1, <2>3 DEF WholeInv
  <2>13. \A q \in Procs :
           /\ ~misread' /\ pc'[q] \in {"audit", "write"} => copy'[q].handle # NoProc
           /\ ~misread' /\ pc'[q] = "unlock" /\ copy'[q].handle # NoProc => file'.handle # NoProc
    BY <2>1, <2>3, <2>6, <2>7, <2>8 DEF WholeInv
  <2> QED BY <2>9, <2>10, <2>11, <2>12, <2>13 DEF WholeInv
<1>3. ASSUME NEW p \in Procs, Audits(p) PROVE WholeInv'
  <2>1. copy[p] \in Contents
    BY DEF TypeOK, Contents
  <2>2. Whole(Bumped(copy[p])) /\ (~misread => Bumped(copy[p]).handle # NoProc)
    BY <1>3, <2>1, BumpedTyped DEF WholeInv, Whole, Audits
  <2> QED BY <1>3, <2>2 DEF TypeOK, WholeInv, Whole, Audits
<1>4. ASSUME NEW p \in Procs, Writes(p) PROVE WholeInv'
  <2>1. CASE file' = copy[p] /\ UNCHANGED copy
    BY <1>4, <2>1 DEF TypeOK, WholeInv, Whole, Writes
  <2>2. CASE copy' = [copy EXCEPT ![p] = Blank] /\ UNCHANGED file
    BY <1>4, <2>2 DEF TypeOK, WholeInv, Whole, Writes, Blank
  <2> QED BY <1>4, <2>1, <2>2 DEF Writes
<1>5. ASSUME NEW p \in Procs, Unlocks(p) PROVE WholeInv'
  BY <1>5 DEF TypeOK, WholeInv, Whole, Unlocks, Done
<1>6. CASE GrowsOld \/ UNCHANGED cvars
  BY <1>6 DEF GrowsOld, cvars, WholeInv, Whole
<1> QED BY <1>1, <1>2, <1>3, <1>4, <1>5, <1>6 DEF Next, Transact, Finished

\* control.json is one transaction's whole outcome, whoever dies, stalls or
\* times out and whatever call on a file fails; a failed read is told apart, as
\* the transaction after it starts from a blank state (_read, _write).
THEOREM FileIsWhole == Spec => []WholeFile
<1>1. Init => WholeInv
  BY DEF Init, WholeInv, Whole, Minting, Blank
<1>2. WholeInv => WholeFile
  BY DEF WholeInv, Whole, WholeFile
<1> QED BY <1>1, <1>2, WholeStep, Typing, PTL DEF Spec

\* A copy about to be written has its entry in the trail, as the file has.
Told(c) == c.epoch > 0 => \E i \in DOMAIN trail : trail[i].epoch = c.epoch /\ trail[i].seq = c.seq
ToldInv ==
  "oserror" \notin faults =>
    Told(file) /\ \A p \in Procs : pc[p] = "write" => Told(copy[p])

LEMMA ToldStep == TypeOK /\ ToldInv /\ [Next]_cvars => ToldInv'
<1> SUFFICES ASSUME TypeOK, ToldInv, [Next]_cvars, "oserror" \notin faults PROVE ToldInv'
  BY SettledFaults DEF ToldInv
<1> USE DEF Go
<1>1. ASSUME NEW p \in Procs, Wait(p) \/ Crashes(p) \/ DeadlinePasses(p) PROVE ToldInv'
  <2>1. AfterStat(p) # "write"
    BY DEF AfterStat
  <2>2. UNCHANGED <<file, copy, trail>>
    BY <1>1 DEF Wait, Begin, Opens, OpenFails, Exists, Stat, Breaks, Crashes, DeadlinePasses
  <2>3. \A q \in Procs : pc'[q] = "write" => pc[q] = "write"
    BY <1>1, <2>1
    DEF TypeOK, Wait, Begin, Opens, OpenFails, Exists, Stat, Breaks, Crashes, DeadlinePasses
  <2> QED BY <2>2, <2>3 DEF ToldInv, Told
<1>2. ASSUME NEW p \in Procs, Reads(p) PROVE ToldInv'
  <2>0. PICK c \in Readable(p) :
          /\ copy' = [copy EXCEPT ![p] = Taken(p, c)] /\ pc' = [pc EXCEPT ![p] = AfterRead(p, c)]
          /\ UNCHANGED <<faults, marker, got, late, file, trail, txs>>
    BY <1>2, ReadStep
  <2>1. UNCHANGED <<file, trail>> /\ Told(Taken(p, c))
    <3>1. c = file /\ Taken(p, c).epoch = c.epoch /\ Taken(p, c).seq = c.seq
      BY ReadTyped DEF Taken
    <3> QED BY <2>0, <3>1 DEF ToldInv, Told
  <2>2. Told(copy'[p])
    BY <2>0, <2>1 DEF TypeOK
  <2>3. \A q \in Procs : q # p => pc'[q] = pc[q] /\ copy'[q] = copy[q]
    BY <2>0 DEF TypeOK
  <2> QED BY <2>1, <2>2, <2>3 DEF ToldInv, Told
<1>3. ASSUME NEW p \in Procs, Audits(p) PROVE ToldInv'
  <2>1. trail' = Audited(p) /\ file' = file /\ copy' = [copy EXCEPT ![p] = Bumped(@)]
    BY <1>3 DEF Audits
  <2>2. copy[p] \in Contents /\ Len(trail) \in Nat /\ DOMAIN trail = 1..Len(trail)
    BY DEF TypeOK, Contents
  <2>3. /\ DOMAIN trail' = 1..(Len(trail) + 1)
        /\ trail'[Len(trail) + 1] = [seq |-> copy[p].seq + 1, epoch |-> copy[p].epoch + 1]
        /\ \A i \in DOMAIN trail : trail'[i] = trail[i] /\ i \in DOMAIN trail'
    <3>1. Audited(p)[Len(trail) + 1] = [seq |-> copy[p].seq + 1, epoch |-> copy[p].epoch + 1]
          /\ DOMAIN Audited(p) = 1..(Len(trail) + 1)
          /\ \A i \in DOMAIN trail : Audited(p)[i] = trail[i]
      BY AuditedTyped
    <3> QED BY <2>1, <2>2, <3>1
  <2>4. Told(copy[p])'
    <3>1. copy'[p].epoch = copy[p].epoch + 1 /\ copy'[p].seq = copy[p].seq + 1
      BY <2>1, <2>2, BumpedTyped DEF TypeOK
    <3>2. Len(trail) + 1 \in DOMAIN trail'
      BY <2>2, <2>3
    <3> QED BY <2>3, <3>1, <3>2 DEF Told
  <2>5. ASSUME NEW c, Told(c), c.epoch > 0
        PROVE  \E i \in DOMAIN trail' : trail'[i].epoch = c.epoch /\ trail'[i].seq = c.seq
    BY <2>3, <2>5 DEF Told
  <2>6. Told(file)'
    BY <2>1, <2>5 DEF ToldInv, Told
  <2>7. ASSUME NEW q \in Procs, q # p, pc'[q] = "write" PROVE Told(copy[q])'
    <3>1. pc[q] = "write" /\ copy'[q] = copy[q]
      BY <1>3, <2>1, <2>7 DEF TypeOK, Audits
    <3> QED BY <2>5, <3>1 DEF ToldInv, Told
  <2> QED BY <2>4, <2>6, <2>7 DEF ToldInv
<1>4. ASSUME NEW p \in Procs, Writes(p) PROVE ToldInv'
  BY <1>4 DEF TypeOK, ToldInv, Told, Writes
<1>5. ASSUME NEW p \in Procs, Unlocks(p) PROVE ToldInv'
  BY <1>5 DEF TypeOK, ToldInv, Told, Unlocks
<1>6. CASE GrowsOld \/ UNCHANGED cvars
  BY <1>6 DEF GrowsOld, cvars, ToldInv, Told
<1> QED BY <1>1, <1>2, <1>3, <1>4, <1>5, <1>6 DEF Next, Transact, Finished

\* No grant in the file is untold, whoever dies, stalls or times out and however
\* transactions overlap: _transaction appends the entry before it writes the state.
THEOREM NoGrantUntold == Spec => []GrantsAccounted
<1>1. Init => ToldInv
  BY DEF Init, ToldInv, Told, Blank
<1>2. TypeOK /\ ToldInv => GrantsAccounted
  BY DEF ToldInv, Told, GrantsAccounted, EveryGrantAudited
<1> QED BY <1>1, <1>2, ToldStep, Typing, PTL DEF Spec

-----------------------------------------------------------------------------
(***************************************************************************)
(* When deadlines are all that passes.                                     *)
(***************************************************************************)

\* Whoever the marker names got it and is inside; a waiter has none.
HeldInv ==
  faults \subseteq {"slow"} =>
    /\ ~marker.old
    /\ marker.by # NoProc => pc[marker.by] \in Inside /\ got[marker.by]
    /\ \A p \in Procs : /\ pc[p] \notin {"dead", "break"}
                        /\ pc[p] \in Waiting => ~got[p]
                        /\ pc[p] \in Inside /\ got[p] => marker.by = p

LEMMA HeldStep == TypeOK /\ HeldInv /\ [Next]_cvars => HeldInv'
<1> SUFFICES ASSUME TypeOK, HeldInv, [Next]_cvars, faults \subseteq {"slow"} PROVE HeldInv'
  BY SettledFaults DEF HeldInv
<1> USE DEF TypeOK, HeldInv, Go, Waiting, Inside
<1>1. ASSUME NEW p \in Procs, Begin(p) PROVE HeldInv'
  BY <1>1 DEF Begin
<1>2. ASSUME NEW p \in Procs, Opens(p) \/ Exists(p) PROVE HeldInv'
  BY <1>2 DEF Opens, Exists
<1>3. ASSUME NEW p \in Procs, Stat(p) PROVE HeldInv'
  <2>1. AfterStat(p) \in {"open", "read"}
    BY DEF AfterStat
  <2> QED BY <1>3, <2>1 DEF Stat
<1>4. ASSUME NEW p \in Procs, Reads(p) PROVE HeldInv'
  <2>1. PICK c \in Readable(p) :
          /\ pc' = [pc EXCEPT ![p] = AfterRead(p, c)]
          /\ UNCHANGED <<faults, marker, got, late, file, trail, txs>>
    BY <1>4, ReadStep
  <2>2. AfterRead(p, c) \in {"unlock", "write", "audit"} /\ pc[p] = "read"
    BY <1>4 DEF AfterRead, Reads
  <2> QED BY <2>1, <2>2
<1>5. ASSUME NEW p \in Procs, Audits(p) \/ Writes(p) PROVE HeldInv'
  BY <1>5 DEF Audits, Writes
<1>6. ASSUME NEW p \in Procs, Unlocks(p) PROVE HeldInv'
  BY <1>6 DEF Unlocks, LeftBy, NoMarker
<1>7. ASSUME NEW p \in Procs PROVE ~OpenFails(p) /\ ~Breaks(p) /\ ~Crashes(p) /\ ~GrowsOld
  BY DEF OpenFails, Breaks, Crashes, GrowsOld
<1>8. ASSUME NEW p \in Procs, DeadlinePasses(p) PROVE HeldInv'
  BY <1>8 DEF DeadlinePasses
<1>9. CASE GrowsOld \/ UNCHANGED cvars
  BY <1>9 DEF GrowsOld, cvars
<1> QED
  BY <1>1, <1>2, <1>3, <1>4, <1>5, <1>6, <1>7, <1>8, <1>9 DEF Next, Wait, Transact, Finished

\* A waiter whose deadline passed goes ahead without the lock, and leaves the
\* marker of whoever has it alone (file_lock.locked, its finally clause).
THEOREM MarkerStaysWithHolder == Spec => []HolderKeepsMarker
<1>1. Init => HeldInv
  BY DEF Init, HeldInv, NoMarker, Waiting, Inside
<1>2. HeldInv => HolderKeepsMarker
  BY DEF HeldInv, HolderKeepsMarker
<1> QED BY <1>1, <1>2, HeldStep, Typing, PTL DEF Spec

-----------------------------------------------------------------------------
(***************************************************************************)
(* The handle.                                                             *)
(***************************************************************************)

\* A process about to write knows the handle that is in the file.
HandleInv ==
  faults = {} => \A p \in Procs :
    pc[p] \in {"audit", "write"} /\ file.handle # NoProc => copy[p].handle = file.handle

LEMMA HandleStep == (faults = {} => IInv) /\ HandleInv /\ [Next]_cvars => HandleInv'
<1> SUFFICES ASSUME faults = {}, IInv, HandleInv, [Next]_cvars PROVE HandleInv'
  BY SettledFaults DEF HandleInv
<1> USE DEF Go, IInv
<1>1. ASSUME NEW p \in Procs, Wait(p) \/ Crashes(p) \/ DeadlinePasses(p) PROVE HandleInv'
  <2>1. AfterStat(p) \notin {"audit", "write"}
    BY DEF AfterStat
  <2>2. UNCHANGED <<file, copy>>
    BY <1>1 DEF Wait, Begin, Opens, OpenFails, Exists, Stat, Breaks, Crashes, DeadlinePasses
  <2>3. \A q \in Procs : pc'[q] \in {"audit", "write"} => pc[q] \in {"audit", "write"}
    BY <1>1, <2>1
    DEF TypeOK, Wait, Begin, Opens, OpenFails, Exists, Stat, Breaks, Crashes, DeadlinePasses
  <2> QED BY <2>2, <2>3 DEF HandleInv
<1>2. ASSUME NEW p \in Procs, Reads(p) PROVE HandleInv'
  <2>1. Readable(p) = {file} /\ Current(p) = file
    BY DEF Readable, Current
  <2> QED BY <1>2, <2>1, ReadTyped DEF TypeOK, HandleInv, Reads, AfterRead
<1>3. ASSUME NEW p \in Procs, Audits(p) PROVE HandleInv'
  <2>1. copy[p] \in Contents
    BY DEF TypeOK, Contents
  <2> QED BY <1>3, <2>1, BumpedTyped DEF TypeOK, HandleInv, Audits
<1>4. ASSUME NEW p \in Procs, Writes(p) PROVE HandleInv'
  BY <1>4, Alone DEF TypeOK, HandleInv, Writes, OneTransaction, Inside
<1>5. ASSUME NEW p \in Procs, Unlocks(p) PROVE HandleInv'
  BY <1>5 DEF TypeOK, HandleInv, Unlocks
<1>6. CASE GrowsOld \/ UNCHANGED cvars
  BY <1>6 DEF GrowsOld, cvars, HandleInv
<1> QED BY <1>1, <1>2, <1>3, <1>4, <1>5, <1>6 DEF Next, Transact, Finished

\* However many processes open the session at once, one of them mints the
\* handle and nobody ever replaces it (SessionControl._ensure_handle).
THEOREM HandleMintedOnce == Spec => HandleStable
<1>1. Init => HandleInv
  BY DEF Init, HandleInv, Blank
<1>2. HandleInv /\ [Next]_cvars =>
        [faults = {} /\ file.handle # NoProc => file'.handle = file.handle]_cvars
  BY DEF HandleInv, cvars, Next, Wait, Transact, Begin, Opens, OpenFails, Exists, Stat, Breaks,
         Reads, Audits, Writes, Unlocks, Crashes, DeadlinePasses, GrowsOld, Finished
<1>3. HandleInv /\ (faults = {} => IInv) /\ [Next]_cvars => HandleInv'
  BY HandleStep
<1> QED BY <1>1, <1>2, <1>3, Invariance, PTL DEF Spec, HandleStable
=============================================================================
