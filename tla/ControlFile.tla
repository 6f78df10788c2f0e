----------------------------- MODULE ControlFile -----------------------------
(***************************************************************************)
(* What happens to control.json when several processes open the control    *)
(* plane of one session: every transaction of SessionControl reads the     *)
(* whole file, changes its copy, appends to control-audit.jsonl and writes *)
(* the copy back, inside the marker-file lock of kernel/file_lock.py.      *)
(* Each process first mints or rereads the handle (SessionControl.__init__)*)
(* and then makes grants.                                                  *)
(*                                                                         *)
(* A process is one thread of one program; `faults' says what may go wrong:*)
(*   "crash"    a process dies inside the lock or while waiting for it     *)
(*   "slow"     a waiter reaches its deadline                              *)
(*   "stall"    a live holder keeps the marker beyond stale_after          *)
(*   "oserror"  a call on a file fails, the read of control.json included: *)
(*              _read then answers with a blank state, and the transaction   *)
(*              writes that one back                                         *)
(***************************************************************************)
EXTENDS Naturals, Sequences
LOCAL INSTANCE TLC

CONSTANTS Procs,    \* the processes that share the session directory
          NoProc,   \* "no process": no marker file, no handle
          FaultSets, \* the combinations of faults considered
          MaxTx     \* bound on the transactions of one process

ASSUME ControlFileAssumption ==
  /\ NoProc \notin Procs
  /\ FaultSets \subseteq SUBSET {"crash", "slow", "stall", "oserror"}
  /\ MaxTx \in Nat

VARIABLES
  faults,  \* what may go wrong in this behaviour
  marker,  \* the lock file: who created it, and whether it is beyond stale_after
  pc,      \* where each process is
  got,     \* what locked() yielded to each process
  late,    \* the deadline of the wait has passed
  file,    \* control.json: the handle, the grants made, the entries counted
  copy,    \* each process's copy of it
  trail,   \* control-audit.jsonl
  txs,     \* transactions each process finished, its handle included
  misread  \* some read of control.json failed when there was something in it

cvars == <<faults, marker, pc, got, late, file, copy, trail, txs, misread>>

NoMarker == [by |-> NoProc, old |-> FALSE]
Blank == [handle |-> NoProc, epoch |-> 0, seq |-> 0]
Waiting == {"open", "stat", "break"}
Inside == {"read", "audit", "write", "unlock"}

TypeOK ==
  /\ faults \in FaultSets
  /\ marker \in [by : Procs \cup {NoProc}, old : BOOLEAN]
  /\ pc \in [Procs -> {"idle", "dead"} \cup Waiting \cup Inside]
  /\ got \in [Procs -> BOOLEAN] /\ late \in [Procs -> BOOLEAN]
  /\ file \in [handle : Procs \cup {NoProc}, epoch : Nat, seq : Nat]
  /\ copy \in [Procs -> [handle : Procs \cup {NoProc}, epoch : Nat, seq : Nat]]
  /\ trail \in Seq([seq : Nat, epoch : Nat])
  /\ txs \in [Procs -> Nat]
  /\ misread \in BOOLEAN

Go(p, to) == pc' = [pc EXCEPT ![p] = to]

-----------------------------------------------------------------------------
(***************************************************************************)
(* locked(): the wait for the marker.                                      *)
(***************************************************************************)

Begin(p) ==
  /\ pc[p] = "idle" /\ txs[p] < MaxTx
  /\ Go(p, "open")
  /\ late' = [late EXCEPT ![p] = FALSE]
  /\ got' = [got EXCEPT ![p] = FALSE]
  /\ UNCHANGED <<faults, marker, file, copy, trail, txs, misread>>

\* Mutant: the marker is created without O_EXCL.
OpensAnyway(p) ==
  /\ pc[p] = "open"
  /\ marker' = [by |-> p, old |-> FALSE]
  /\ got' = [got EXCEPT ![p] = TRUE]
  /\ Go(p, "read")
  /\ UNCHANGED <<faults, late, file, copy, trail, txs, misread>>

Opens(p) ==
  /\ pc[p] = "open" /\ marker.by = NoProc
  /\ marker' = [by |-> p, old |-> FALSE]
  /\ got' = [got EXCEPT ![p] = TRUE]
  /\ Go(p, "read")
  /\ UNCHANGED <<faults, late, file, copy, trail, txs, misread>>

\* Any other OSError of the create: the caller proceeds without the lock.
OpenFails(p) ==
  /\ "oserror" \in faults
  /\ pc[p] = "open" /\ marker.by = NoProc
  /\ Go(p, "read")
  /\ UNCHANGED <<faults, marker, got, late, file, copy, trail, txs, misread>>

Exists(p) ==
  /\ pc[p] = "open" /\ marker.by # NoProc
  /\ Go(p, "stat")
  /\ UNCHANGED <<faults, marker, got, late, file, copy, trail, txs, misread>>

\* Mutant: a stale marker is retried without being unlinked.
AfterStatRetries(p) ==
  IF marker.by # NoProc /\ ~marker.old /\ late[p] THEN "read" ELSE "open"

\* Where the look at the marker leads: retry, break it, or go on without it.
AfterStat(p) ==
  CASE marker.by = NoProc                             -> "open"
    [] marker.by # NoProc /\ marker.old               -> "break"
    [] marker.by # NoProc /\ ~marker.old /\ late[p]   -> "read"
    [] OTHER                                          -> "open"

Stat(p) ==
  /\ pc[p] = "stat"
  /\ Go(p, AfterStat(p))
  /\ UNCHANGED <<faults, marker, got, late, file, copy, trail, txs, misread>>

\* The unlink takes whatever marker is there by now; its failure is ignored.
Breaks(p) ==
  /\ pc[p] = "break"
  /\ \/ marker' = NoMarker
     \/ "oserror" \in faults /\ UNCHANGED marker
  /\ Go(p, "open")
  /\ UNCHANGED <<faults, got, late, file, copy, trail, txs, misread>>

-----------------------------------------------------------------------------
(***************************************************************************)
(* The transaction: _ensure_handle first, then _transaction with a grant.  *)
(***************************************************************************)

Minting(p) == txs[p] = 0

\* Mutant: the copy a process kept from its last transaction is good enough.
CachedCopy(p) == IF Minting(p) THEN file ELSE copy[p]

Current(p) == file

\* Mutant: the handle is minted without looking for one.
AfterReadMints(p, c) == IF Minting(p) THEN "write" ELSE "audit"

AfterRead(p, c) ==
  IF Minting(p) THEN (IF c.handle # NoProc THEN "unlock" ELSE "write") ELSE "audit"

\* What _read may answer: the file, or a blank state when the call fails.
Readable(p) == {Current(p)} \cup (IF "oserror" \in faults THEN {Blank} ELSE {})

Reads(p) ==
  /\ pc[p] = "read"
  /\ \E c \in Readable(p) :
       /\ copy' = [copy EXCEPT ![p] =
                     IF Minting(p) /\ AfterRead(p, c) = "write" THEN [c EXCEPT !.handle = p] ELSE c]
       /\ misread' = (misread \/ c # Current(p))
       /\ Go(p, AfterRead(p, c))
  /\ UNCHANGED <<faults, marker, got, late, file, trail, txs>>

Bumped(c) == [handle |-> c.handle, epoch |-> c.epoch + 1, seq |-> c.seq + 1]

\* Mutant: the entry is left for after the write.
Unaudited(p) == trail

\* The trail with the entry of p's grant, appended before the state it describes
\* is written; appending it is best effort.
Audited(p) == Append(trail, [seq |-> copy[p].seq + 1, epoch |-> copy[p].epoch + 1])

Audits(p) ==
  /\ pc[p] = "audit"
  /\ copy' = [copy EXCEPT ![p] = Bumped(@)]
  /\ \/ trail' = Audited(p)
     \/ "oserror" \in faults /\ UNCHANGED trail
  /\ Go(p, "write")
  /\ UNCHANGED <<faults, marker, got, late, file, txs, misread>>

\* os.replace puts the whole copy in place at once; a failed write leaves the old
\* file and raises, which takes the copy with it.
Writes(p) ==
  /\ pc[p] = "write"
  /\ \/ file' = copy[p] /\ UNCHANGED copy
     \/ "oserror" \in faults /\ copy' = [copy EXCEPT ![p] = Blank] /\ UNCHANGED file
  /\ Go(p, "unlock")
  /\ UNCHANGED <<faults, marker, got, late, trail, txs, misread>>

\* Mutant: the finally clause unlinks the marker whoever created it.
LeftByAnyone(p) == NoMarker

LeftBy(p) == IF got[p] THEN NoMarker ELSE marker

\* Mutant: a process that failed to mint the handle goes on without one.
DoneAnyway(p) == txs[p] + 1

\* A process that could not mint the handle tries again with its next op.
Done(p) == IF Minting(p) /\ copy[p].handle = NoProc THEN 0 ELSE txs[p] + 1

Unlocks(p) ==
  /\ pc[p] = "unlock"
  /\ \/ marker' = LeftBy(p)
     \/ "oserror" \in faults /\ UNCHANGED marker
  /\ txs' = [txs EXCEPT ![p] = Done(p)]
  /\ Go(p, "idle")
  /\ UNCHANGED <<faults, got, late, file, copy, trail, misread>>

-----------------------------------------------------------------------------
(***************************************************************************)
(* The world around them.                                                  *)
(***************************************************************************)

Crashes(p) ==
  /\ "crash" \in faults
  /\ pc[p] \notin {"idle", "dead"}
  /\ Go(p, "dead")
  /\ UNCHANGED <<faults, marker, got, late, file, copy, trail, txs, misread>>

DeadlinePasses(p) ==
  /\ "slow" \in faults
  /\ pc[p] \in Waiting /\ ~late[p]
  /\ late' = [late EXCEPT ![p] = TRUE]
  /\ UNCHANGED <<faults, marker, pc, got, file, copy, trail, txs, misread>>

GrowsOld ==
  /\ marker.by # NoProc /\ ~marker.old
  /\ pc[marker.by] \notin Inside \/ "stall" \in faults
  /\ marker' = [marker EXCEPT !.old = TRUE]
  /\ UNCHANGED <<faults, pc, got, late, file, copy, trail, txs, misread>>

Finished ==
  /\ \A p \in Procs : pc[p] = "dead" \/ (pc[p] = "idle" /\ txs[p] = MaxTx)
  /\ UNCHANGED cvars

Init ==
  /\ faults \in FaultSets
  /\ marker = NoMarker
  /\ pc = [p \in Procs |-> "idle"]
  /\ got = [p \in Procs |-> FALSE] /\ late = [p \in Procs |-> FALSE]
  /\ file = Blank /\ misread = FALSE
  /\ copy = [p \in Procs |-> file]
  /\ trail = <<>>
  /\ txs = [p \in Procs |-> 0]

Wait(p) == Begin(p) \/ Opens(p) \/ OpenFails(p) \/ Exists(p) \/ Stat(p) \/ Breaks(p)
Transact(p) == Reads(p) \/ Audits(p) \/ Writes(p) \/ Unlocks(p)

Next ==
  \/ \E p \in Procs : Wait(p) \/ Transact(p) \/ Crashes(p) \/ DeadlinePasses(p)
  \/ GrowsOld
  \/ Finished

Spec == Init /\ [][Next]_cvars

\* A process that is not dead goes on running, and so does the clock.
FairSpec ==
  /\ Spec
  /\ \A p \in Procs : WF_cvars(Wait(p)) /\ WF_cvars(Transact(p)) /\ WF_cvars(DeadlinePasses(p))
  /\ WF_cvars(GrowsOld)

-----------------------------------------------------------------------------
(***************************************************************************)
(* Properties.                                                             *)
(***************************************************************************)

\* When nothing goes wrong, at most one process is inside a transaction.
OneTransaction ==
  faults = {} => \A p, q \in Procs : p # q => ~(pc[p] \in Inside /\ pc[q] \in Inside)

\* When nothing goes wrong, the trail numbers its entries without a gap or a
\* repetition, and each entry names the grant the file made next ("in seq order").
TrailInOrder ==
  faults = {} => \A i \in DOMAIN trail : trail[i] = [seq |-> i, epoch |-> i]

\* When nothing goes wrong, the trail and the file agree whenever nobody is inside.
TrailMatchesFile ==
  faults = {} /\ (\A p \in Procs : pc[p] \notin Inside) =>
    file.epoch = Len(trail) /\ file.seq = Len(trail)

TrailTrue == TrailInOrder /\ TrailMatchesFile

\* When nothing goes wrong, the handle is minted once: whoever opens the session
\* next sees the one it left.
HandleStable == [][faults = {} /\ file.handle # NoProc => file'.handle = file.handle]_cvars

\* As long as deadlines are all that passes, a waiter that goes ahead unlocked
\* never takes the marker of a holder away.
HolderKeepsMarker ==
  faults \subseteq {"slow"} => \A p \in Procs : pc[p] \in Inside /\ got[p] => marker.by = p

\* No grant takes effect that the trail does not tell, however transactions
\* overlap and wherever a process dies: the entry comes before the state.
EveryGrantAudited ==
  "oserror" \notin faults /\ file.epoch > 0 =>
    \E i \in DOMAIN trail : trail[i].epoch = file.epoch /\ trail[i].seq = file.seq

GrantsAccounted == TypeOK /\ EveryGrantAudited

\* control.json is always one transaction's whole outcome, never a blend: it
\* counts as many entries as grants, whatever fails; and no grant precedes the
\* handle, unless a failed read made a transaction start again from nothing
\* (SessionControl._read), which loses the handle with all the rest.
WholeFile ==
  /\ file.epoch = file.seq
  /\ file.handle = NoProc /\ ~misread => file.epoch = 0

\* "A write hanging forever is a worse failure": a process that asks for the
\* lock comes to its transaction or dies, as long as markers can be unlinked.
NeverHangs ==
  \A p \in Procs :
    "oserror" \notin faults /\ pc[p] = "open" ~> pc[p] \in Inside \cup {"dead"}

\* Any process may be any other: small instances are checked up to this.
Interchangeable == Permutations(Procs)
=============================================================================
