--------------------------- MODULE SessionControl ---------------------------
(***************************************************************************)
(* The durable control plane of ONE session (kernel/session_control.py):   *)
(* the write lease, the pause flag, the handoffs and the audit entries in  *)
(* control.json and control-audit.jsonl.  Every public method is one       *)
(* transaction under the file lock, so it is one action here; what happens *)
(* when that lock is broken is the subject of ControlFile.                 *)
(*                                                                         *)
(* Abstractions.  A lease id is a fresh uuid per grant and so is named by  *)
(* the number (epoch) of its grant; 0 stands for "no lease presented".     *)
(* Only the time left on a lease is kept: expires_at - now, never below 0. *)
(* `trail' holds the entries the latest transaction appended, `last' what  *)
(* it was asked and answered.                                              *)
(***************************************************************************)
EXTENDS Naturals, Sequences

CONSTANTS
  Ids,          \* the identities an op can be attributed to
  Clients,      \* the actors that send ops: records [id, kind, verified]
  DefaultActor, \* the identity serve stamps on an op that names none
  NoActor,      \* "the op names no actor"
  NoLease,      \* "nobody holds the lease"
  Handoffs,     \* the handoff ids that can be minted
  MaxTTL,       \* longest lease, in clock ticks
  MaxEpoch      \* bound on the number of grants

Kinds == {"unknown", "automation", "human"}
Precedence == [unknown |-> 0, automation |-> 1, human |-> 2]
Actor == [id : Ids, kind : Kinds, verified : BOOLEAN]
Lease == [holder : Actor, epoch : 1..MaxEpoch, left : 0..MaxTTL]
TTLs == 1..MaxTTL

ASSUME SessionControlAssumption ==
  /\ Clients \subseteq Actor
  /\ DefaultActor \in Actor
  /\ NoActor \notin Actor
  /\ NoLease \notin Lease
  /\ MaxTTL \in Nat \ {0}
  /\ MaxEpoch \in Nat \ {0}

VARIABLES
  epoch,      \* grants made so far
  lease,      \* the lease on record, expired or not
  paused, paused_by,
  minted,     \* handoffs created so far
  claimed_by, \* who claimed each handoff
  fence,      \* history variable: the newest lease that had a write accepted
  last,       \* the latest call: op, actor, lease presented, force, reason
  trail       \* the audit entries of the latest call

vars == <<epoch, lease, paused, paused_by, minted, claimed_by, fence, last, trail>>

\* Mutant: a lease that never runs out.
ExpiredNever(l) == l.left < 0
Expired(l) == l.left = 0
Live == lease # NoLease /\ ~Expired(lease)

\* The lease that counts: 0 when none is held or the one on record is due.
Pen == IF Live THEN lease.epoch ELSE 0

\* _expire_if_due: the lease a transaction sees, and the entry of a reaping.
Held == IF Live THEN lease ELSE NoLease

Entry(action, actor) == [action |-> action, actor |-> actor]
\* Mutant: the expiry is not recorded.
ReapedSilently == <<>>
Reaped == IF lease # NoLease /\ Expired(lease)
          THEN <<Entry("lease.expired", lease.holder)>>
          ELSE <<>>

\* What a reload keeps of paused_by and claimed_by: Actor.parse reads no auth.
Reread(a) == IF a = NoActor THEN NoActor ELSE [a EXCEPT !.verified = FALSE]

Who(a) == IF a = NoActor THEN DefaultActor ELSE a

-----------------------------------------------------------------------------
(***************************************************************************)
(* The pieces of a transaction.                                            *)
(***************************************************************************)

Called(op, actor, presented, force, reason) ==
  last' = [op |-> op, actor |-> actor, presented |-> presented,
           force |-> force, reason |-> reason]

KeepPause == /\ paused' = paused
             /\ paused_by' = Reread(paused_by)
\* Mutant: the pause is lifted but its author stays on record.
LiftFlagOnly == /\ paused' = FALSE
                /\ paused_by' = paused_by
LiftPause == /\ paused' = FALSE
             /\ paused_by' = NoActor
KeepHandoffs == /\ minted' = minted
                /\ claimed_by' = [h \in Handoffs |-> Reread(claimed_by[h])]
KeepLease == lease' = Held /\ epoch' = epoch
KeepRest == KeepPause /\ KeepHandoffs /\ UNCHANGED fence

Grant(actor, ttl) ==
  /\ epoch < MaxEpoch
  /\ epoch' = epoch + 1
  /\ lease' = [holder |-> actor, epoch |-> epoch + 1, left |-> ttl]

Denied(op, actor, presented, force, reason, entries) ==
  /\ Called(op, actor, presented, force, reason)
  /\ trail' = Reaped \o entries
  /\ KeepLease
  /\ KeepRest

-----------------------------------------------------------------------------
(***************************************************************************)
(* The lease.                                                              *)
(***************************************************************************)

AcquireUnattributed ==
  /\ Called("lease.acquire", NoActor, 0, FALSE, "no_actor")
  /\ trail' = <<Entry("lease.denied", NoActor)>>
  /\ UNCHANGED <<lease, epoch>>
  /\ KeepRest

AcquireDenied(a) ==
  /\ Held # NoLease
  /\ Held.holder.id # a.id
  /\ Denied("lease.acquire", a, 0, FALSE, "lease_held", <<Entry("lease.denied", a)>>)

AcquireGranted(a, ttl) ==
  /\ Held # NoLease => Held.holder.id = a.id
  /\ Grant(a, ttl)
  /\ Called("lease.acquire", a, 0, FALSE, "ok")
  /\ trail' = Append(Reaped, Entry(IF Held # NoLease THEN "lease.renewed"
                                                     ELSE "lease.granted", a))
  /\ KeepRest

HeartbeatDenied(l) ==
  /\ Pen = 0 \/ Pen # l
  /\ Denied("lease.heartbeat", NoActor, l, FALSE,
            IF Pen = 0 THEN "lease_expired" ELSE "not_holder", <<>>)

\* Mutant: a late heartbeat resurrects an expired lease.
HeartbeatResurrects(l, ttl) ==
  /\ lease # NoLease /\ lease.epoch = l
  /\ lease' = [lease EXCEPT !.left = ttl]
  /\ Called("lease.heartbeat", NoActor, l, FALSE, "ok")
  /\ trail' = <<>>
  /\ UNCHANGED epoch
  /\ KeepRest

HeartbeatRenewed(l, ttl) ==
  /\ Pen # 0 /\ Pen = l
  /\ lease' = [lease EXCEPT !.left = ttl]
  /\ Called("lease.heartbeat", NoActor, l, FALSE, "ok")
  /\ trail' = <<>>
  /\ UNCHANGED epoch
  /\ KeepRest

\* release() reaps nothing: it drops whatever lease is on record, and a
\* caller that presents no lease id drops anyone's.
Release(a, l) ==
  LET gone == lease = NoLease \/ (l # 0 /\ l # lease.epoch)
  IN /\ lease' = IF gone THEN lease ELSE NoLease
     /\ trail' = IF gone THEN <<>>
                 ELSE <<Entry("lease.released", IF a = NoActor THEN lease.holder ELSE a)>>
     /\ Called("lease.release", a, l, FALSE, "ok")
     /\ UNCHANGED epoch
     /\ KeepRest

\* "A person can always break in on a bot, and a bot never on a person."
MayTakeOver(a, force) ==
  Held # NoLease =>
    \/ Precedence[a.kind] > Precedence[Held.holder.kind]
    \/ force /\ a.kind = "human" /\ Precedence[a.kind] = Precedence[Held.holder.kind]

TakeoverUnattributed ==
  /\ Called("lease.takeover", NoActor, 0, FALSE, "no_actor")
  /\ trail' = <<>>
  /\ UNCHANGED <<lease, epoch>>
  /\ KeepRest

TakeoverDenied(a, force) ==
  /\ ~MayTakeOver(a, force)
  /\ Denied("lease.takeover", a, 0, force, "takeover_denied", <<Entry("lease.denied", a)>>)

TakeoverGranted(a, force, ttl) ==
  /\ MayTakeOver(a, force)
  /\ Grant(a, ttl)
  /\ Called("lease.takeover", a, 0, force, "ok")
  /\ trail' = Reaped
              \o (IF Held # NoLease THEN <<Entry("lease.revoked", a)>> ELSE <<>>)
              \o <<Entry("lease.takeover", a)>>
  /\ KeepRest

-----------------------------------------------------------------------------
(***************************************************************************)
(* Pause and handoff.                                                      *)
(***************************************************************************)

PauseDenied(a, l) ==
  /\ Held # NoLease /\ l # 0 /\ l # Held.epoch
  /\ Denied("session.pause", Who(a), l, FALSE, "not_holder", <<>>)

Pause(a, l, h) ==
  /\ Held # NoLease => l \in {0, Held.epoch}
  /\ h \notin minted
  /\ minted' = minted \cup {h}
  /\ claimed_by' = [x \in Handoffs |-> Reread(claimed_by[x])]
  /\ paused' = TRUE
  /\ paused_by' = Who(a)
  /\ lease' = NoLease
  /\ Called("session.pause", Who(a), l, FALSE, "ok")
  /\ trail' = Reaped
              \o (IF Held # NoLease THEN <<Entry("lease.released", Who(a))>> ELSE <<>>)
              \o <<Entry("session.paused", Who(a)), Entry("handoff.created", Who(a))>>
  /\ UNCHANGED <<epoch, fence>>

\* An unknown or spent ref is refused before the lease is looked at.
ClaimRefused(h, a) ==
  /\ h \notin minted \/ claimed_by[h] # NoActor
  /\ Called("handoff.claim", Who(a), 0, FALSE,
            IF h \notin minted THEN "unknown_handoff" ELSE "handoff_claimed")
  /\ trail' = <<>>
  /\ UNCHANGED <<lease, epoch>>
  /\ KeepRest

\* Mutant: the holder's rank is ignored.
OutrankedNever(a) == FALSE

Claimable(h) == h \in minted /\ claimed_by[h] = NoActor
Outranked(a) == Held # NoLease /\ Precedence[a.kind] < Precedence[Held.holder.kind]

ClaimDenied(h, a) ==
  /\ Claimable(h) /\ Outranked(Who(a))
  /\ Denied("handoff.claim", Who(a), 0, FALSE, "takeover_denied", <<>>)

ClaimHandoff(h, a, ttl) ==
  /\ Claimable(h) /\ ~Outranked(Who(a))
  /\ Grant(Who(a), ttl)
  /\ claimed_by' = [x \in Handoffs |-> IF x = h THEN Who(a) ELSE Reread(claimed_by[x])]
  /\ LiftPause
  /\ Called("handoff.claim", Who(a), 0, FALSE, "ok")
  /\ trail' = Append(Reaped, Entry("handoff.claimed", Who(a)))
  /\ UNCHANGED <<minted, fence>>

\* resume() looks at the pause flag only; it reaps no lease.
Resume(a) ==
  /\ LiftPause
  /\ Called("session.resume", Who(a), 0, FALSE, "ok")
  /\ trail' = IF paused THEN <<Entry("session.resumed", Who(a))>> ELSE <<>>
  /\ KeepHandoffs
  /\ UNCHANGED <<lease, epoch, fence>>

-----------------------------------------------------------------------------
(***************************************************************************)
(* The write gate, and the calls that only append to the trail.            *)
(***************************************************************************)

\* The holder is credited with an unattributed write that presents its lease.
Attributed(a, l) ==
  IF a # NoActor THEN a
  ELSE IF l # 0 /\ Held # NoLease /\ l = Held.epoch THEN Held.holder
  ELSE DefaultActor

\* Mutant: a pause is not looked at.
MayWriteParked(l) == l = Pen

MayWrite(l) == ~paused /\ l = Pen

WriteReason(l) ==
  CASE paused                            -> "session_paused"
    [] ~paused /\ l # 0 /\ Pen = 0       -> "lease_expired"
    [] ~paused /\ l # 0 /\ Pen # 0       -> "not_holder"
    [] OTHER                             -> "lease_held"

WriteRejected(a, l) ==
  /\ ~MayWrite(l)
  /\ Denied("write", Attributed(a, l), l, FALSE, WriteReason(l),
            <<Entry("write.rejected", Attributed(a, l))>>)

WriteAccepted(a, l) ==
  /\ MayWrite(l)
  /\ Called("write", Attributed(a, l), l, FALSE, "ok")
  /\ trail' = Append(Reaped, Entry("write.accepted", Attributed(a, l)))
  /\ fence' = IF l = 0 THEN fence ELSE l
  /\ KeepLease
  /\ KeepPause
  /\ KeepHandoffs

AuthRefused(a) ==
  /\ Called("auth", Who(a), 0, FALSE, "auth_denied")
  /\ trail' = <<Entry("auth.denied", Who(a))>>
  /\ UNCHANGED <<lease, epoch>>
  /\ KeepRest

NoteAmbient(a) ==
  /\ Called("ambient", Who(a), 0, FALSE, "ok")
  /\ trail' = <<Entry("ambient", Who(a))>>
  /\ UNCHANGED <<lease, epoch>>
  /\ KeepRest

\* One tick of the clock every lease is measured against.
Tick ==
  /\ lease # NoLease /\ lease.left > 0
  /\ lease' = [lease EXCEPT !.left = @ - 1]
  /\ UNCHANGED <<epoch, paused, paused_by, minted, claimed_by, fence, last, trail>>

-----------------------------------------------------------------------------
Init ==
  /\ epoch = 0
  /\ lease = NoLease
  /\ paused = FALSE
  /\ paused_by = NoActor
  /\ minted = {}
  /\ claimed_by = [h \in Handoffs |-> NoActor]
  /\ fence = 0
  /\ last = [op |-> "open", actor |-> NoActor, presented |-> 0,
             force |-> FALSE, reason |-> "ok"]
  /\ trail = <<>>

Callers == Clients \cup {NoActor}
LeaseIds == 0..epoch

LeaseOp ==
  \/ AcquireUnattributed
  \/ \E a \in Clients : AcquireDenied(a)
  \/ \E a \in Clients, ttl \in TTLs : AcquireGranted(a, ttl)
  \/ \E l \in LeaseIds : HeartbeatDenied(l)
  \/ \E l \in LeaseIds, ttl \in TTLs : HeartbeatRenewed(l, ttl)
  \/ \E a \in Callers, l \in LeaseIds : Release(a, l)
  \/ TakeoverUnattributed
  \/ \E a \in Clients, force \in BOOLEAN : TakeoverDenied(a, force)
  \/ \E a \in Clients, force \in BOOLEAN, ttl \in TTLs : TakeoverGranted(a, force, ttl)

HandoffOp ==
  \/ \E a \in Callers, l \in LeaseIds : PauseDenied(a, l)
  \/ \E a \in Callers, l \in LeaseIds, h \in Handoffs : Pause(a, l, h)
  \/ \E a \in Callers, h \in Handoffs : ClaimRefused(h, a)
  \/ \E a \in Callers, h \in Handoffs : ClaimDenied(h, a)
  \/ \E a \in Callers, h \in Handoffs, ttl \in TTLs : ClaimHandoff(h, a, ttl)
  \/ \E a \in Callers : Resume(a)

GateOp ==
  \/ \E a \in Callers, l \in LeaseIds : WriteRejected(a, l)
  \/ \E a \in Callers, l \in LeaseIds : WriteAccepted(a, l)
  \/ \E a \in Callers : AuthRefused(a)
  \/ \E a \in Callers : NoteAmbient(a)

Next == LeaseOp \/ HandoffOp \/ GateOp \/ Tick

Spec == Init /\ [][Next]_vars

\* The clock is the only thing sure to advance: no client owes a call.
FairSpec == Spec /\ WF_vars(Tick)

-----------------------------------------------------------------------------
(***************************************************************************)
(* Invariants.                                                             *)
(***************************************************************************)

Ops == {"open", "lease.acquire", "lease.heartbeat", "lease.release", "lease.takeover",
        "session.pause", "handoff.claim", "session.resume", "write", "auth", "ambient"}

\* The types of control.json and of the latest call (_State, Lease, Handoff).
TypeOK ==
  /\ epoch \in 0..MaxEpoch
  /\ lease \in Lease \cup {NoLease}
  /\ paused \in BOOLEAN
  /\ paused_by \in Actor \cup {NoActor}
  /\ minted \subseteq Handoffs
  /\ claimed_by \in [Handoffs -> Actor \cup {NoActor}]
  /\ fence \in 0..MaxEpoch
  /\ last.op \in Ops
  /\ last.actor \in Actor \cup {NoActor}
  /\ last.presented \in 0..MaxEpoch
  /\ last.force \in BOOLEAN

\* The lease on record is the newest ever granted: whatever a client keeps from
\* an earlier grant names another lease ("a stale holder's writes are rejected").
LeaseIsNewest == lease # NoLease => lease.epoch = epoch

\* Nobody ever wrote under a lease newer than the grants made.
FenceBehindGrants == fence <= epoch

\* A parked session always names who parked it, and somebody can always pick it
\* up: an unclaimed handoff is left to every session that is paused.
PauseIsAnswerable ==
  /\ paused <=> paused_by # NoActor
  /\ paused => \E h \in minted : claimed_by[h] = NoActor

-----------------------------------------------------------------------------
(***************************************************************************)
(* What a step may never do.                                               *)
(***************************************************************************)

Accepted == last'.op = "write" /\ last'.reason = "ok"
Audited(action) == \E i \in DOMAIN trail' : trail'[i].action = action
Leads(l) == l # NoLease /\ l.left > 0

\* Fencing.  Once a write under one lease was accepted, no write under an older
\* lease ever is, and an accepted write without a lease never lands while
\* somebody holds one.
Fenced ==
  [][(fence' # fence => fence' > fence)
     /\ (Accepted =>
           IF last'.presented = 0 THEN ~Leads(lease') ELSE last'.presented >= fence)]_vars

\* The pen never passes from a live human holder straight to an actor that is
\* not a human ("a bot can never break in on a person") under another identity.
PersonKeepsPen ==
  [][Leads(lease) /\ lease.holder.kind = "human" /\ lease' # NoLease
     /\ lease'.holder.id # lease.holder.id => lease'.holder.kind = "human"]_vars

\* A handoff is a one-shot token: whoever claimed it stays its claimer.
ClaimOnce ==
  [][\A h \in Handoffs :
       claimed_by[h] # NoActor =>
         claimed_by'[h] # NoActor /\ claimed_by'[h].id = claimed_by[h].id]_vars

\* A grant that ends is accounted for: the same call appends an entry that says
\* how the lease it ended went.
LeaseEndAudited ==
  [][lease # NoLease /\ (lease' = NoLease \/ lease'.epoch # lease.epoch) =>
       \/ Audited("lease.expired") /\ lease.left = 0
       \/ Audited("lease.released") /\ lease' = NoLease
       \/ Audited("lease.renewed") /\ lease'.holder.id = lease.holder.id
       \/ Audited("lease.revoked") \/ Audited("handoff.claimed")]_vars

\* A pause ends by a claim or a resume and by nothing else, and no write lands
\* in between, whoever holds a lease.
PausedUntilPickedUp ==
  [][paused => /\ ~paused' => last'.op \in {"handoff.claim", "session.resume"}
               /\ fence' = fence]_vars

\* What a pause hands over stays handed over: both of the above.
HandoverHolds == ClaimOnce /\ PausedUntilPickedUp

\* The control plane implements the fenced write lock: the lease that counts is
\* the pen, whatever pauses, claims and takeovers do to it.
Writer == INSTANCE WriterLease WITH MaxGrant <- MaxEpoch, newest <- epoch,
                                    pen <- Pen, written <- fence
ImplementsWriterLease == Writer!WSpec

-----------------------------------------------------------------------------
(***************************************************************************)
(* Liveness.                                                               *)
(***************************************************************************)

\* "A holder that dies silently cannot lock the session forever": a lease nobody
\* renews any more stops counting.
DeadHolderLosesPen ==
  \A e \in 1..MaxEpoch :
    <>[][~\E l \in LeaseIds, ttl \in TTLs : HeartbeatRenewed(l, ttl)]_vars => []<>(Pen # e)
=============================================================================
