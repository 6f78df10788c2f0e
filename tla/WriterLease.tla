----------------------------- MODULE WriterLease -----------------------------
(***************************************************************************)
(* What the control plane promises about the pen: a fenced write lock.     *)
(* Grants are numbered, at most the newest one counts, it may stop         *)
(* counting at any moment (release, revocation, expiry), and a write that  *)
(* presents a grant is accepted only while that grant counts, so accepted  *)
(* writes never go back to an older grant.                                 *)
(***************************************************************************)
EXTENDS Naturals

CONSTANT MaxGrant   \* bound on the number of grants

VARIABLES newest,   \* the number of grants made
          pen,      \* the grant that counts now, 0 when none does
          written   \* the newest grant a write was accepted under

wvars == <<newest, pen, written>>

Grants == 
  /\ newest < MaxGrant
  /\ newest' = newest + 1
  /\ pen' = newest + 1
  /\ UNCHANGED written

Drops ==
  /\ pen' = 0
  /\ UNCHANGED <<newest, written>>

Writes ==
  /\ pen # 0
  /\ written' = pen
  /\ UNCHANGED <<newest, pen>>

WInit == newest = 0 /\ pen = 0 /\ written = 0
WNext == Grants \/ Drops \/ Writes
WSpec == WInit /\ [][WNext]_wvars

\* Only the newest grant ever counts, and writes come from grants made.
OnlyNewestCounts == pen \in {0, newest} /\ written <= newest
=============================================================================
