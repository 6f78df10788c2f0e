------------------------ MODULE SessionControlProofs ------------------------
(***************************************************************************)
(* Theorems about SessionControl for every set of clients, handoffs and    *)
(* bounds.  Two lemmas reduce every call to its effect on the lease and on *)
(* the pause; everything else follows from those effects.  The theorems    *)
(* about SessionAttach, which says who serves the session, are at the end. *)
(***************************************************************************)
EXTENDS SessionControl, SessionAttach, SequenceTheorems, TLAPS

USE SessionControlAssumption

\* What a call may do to the lease: keep or drop it, grant a new one, move the
\* time left on a live one, or accept a write under it.
LeaseKept == lease' \in {lease, Held, NoLease} /\ UNCHANGED <<epoch, fence>>
MayHold(a) == Held # NoLease => \/ Held.holder.id = a.id
                                 \/ Precedence[a.kind] >= Precedence[Held.holder.kind]
LeaseGranted == (\E a \in Actor, ttl \in TTLs : MayHold(a) /\ Grant(a, ttl)) /\ UNCHANGED fence
LeaseTimed == /\ Live
              /\ \E t \in 0..MaxTTL : lease' = [lease EXCEPT !.left = t]
              /\ UNCHANGED <<epoch, fence>>
LeaseWritten == ~paused /\ Pen # 0 /\ fence' = Pen /\ KeepLease
LeaseEffect == LeaseKept \/ LeaseGranted \/ LeaseTimed \/ LeaseWritten

\* What a call may do to the pause flag and the handoffs.
PauseKept == \/ KeepPause /\ KeepHandoffs
             \/ UNCHANGED <<paused, paused_by, minted, claimed_by>>
Parked == \E a \in Actor, h \in Handoffs \ minted :
            /\ paused' = TRUE /\ paused_by' = a
            /\ minted' = minted \cup {h}
            /\ claimed_by' = [x \in Handoffs |-> Reread(claimed_by[x])]
Claimed == \E a \in Actor, h \in minted :
             /\ claimed_by[h] = NoActor
             /\ LiftPause /\ minted' = minted
             /\ claimed_by' = [x \in Handoffs |-> IF x = h THEN a ELSE Reread(claimed_by[x])]
             /\ last'.op = "handoff.claim"
Resumed == LiftPause /\ KeepHandoffs /\ last'.op = "session.resume"
PauseEffect == PauseKept \/ Parked \/ Claimed \/ Resumed

\* What is remembered of a call.
CallTyped == /\ last.op \in Ops
             /\ last.actor \in Actor \cup {NoActor}
             /\ last.presented \in 0..MaxEpoch
             /\ last.force \in BOOLEAN

-----------------------------------------------------------------------------
\* The lease a transaction sees is a lease, and Pen is the epoch of a live one.
LEMMA HeldType == TypeOK => Held \in Lease \cup {NoLease} /\ Pen \in 0..MaxEpoch
  BY DEF TypeOK, Held, Live, Expired, Pen, Lease

\* Rereading an actor yields the same actor, its provenance aside.
LEMMA RereadActor ==
  ASSUME NEW a \in Actor \cup {NoActor}
  PROVE  /\ Reread(a) \in Actor \cup {NoActor}
         /\ Reread(a) = NoActor <=> a = NoActor
         /\ a # NoActor => Reread(a).id = a.id
  BY DEF Reread, Actor

\* Every call is made by an actor of the session, the default one included.
LEMMA CallersAreActors ==
  /\ \A a \in Clients : a \in Actor
  /\ \A a \in Callers : Who(a) \in Actor /\ a \in Actor \cup {NoActor}
  /\ TypeOK => \A a \in Callers, l \in LeaseIds : Attributed(a, l) \in Actor
  BY HeldType DEF Callers, Who, Attributed, Lease

\* Every actor has a rank, and only a person has a person's.
LEMMA RanksAreNumbers ==
  /\ \A a \in Actor : Precedence[a.kind] \in 0..2
  /\ \A a \in Actor : Precedence[a.kind] >= Precedence["human"] => a.kind = "human"
  /\ TypeOK /\ Held # NoLease => Held.holder \in Actor
<1>1. \A k \in Kinds : Precedence[k] \in 0..2 /\ (Precedence[k] >= Precedence["human"] => k = "human")
  BY DEF Precedence, Kinds
<1> QED BY <1>1, HeldType DEF Actor, Lease

\* Every step has one of the four effects on the lease.
LEMMA LeaseEffects == TypeOK /\ Next => LeaseEffect
<1> SUFFICES ASSUME TypeOK, Next PROVE LeaseEffect
  OBVIOUS
<1> USE CallersAreActors, HeldType DEF LeaseEffect, KeepRest, Denied
<1>1. CASE LeaseOp
  <2>1. CASE AcquireUnattributed \/ TakeoverUnattributed
    BY <2>1 DEF AcquireUnattributed, TakeoverUnattributed, LeaseKept
  <2>2. CASE \E a \in Clients : AcquireDenied(a)
    BY <2>2 DEF AcquireDenied, KeepLease, LeaseKept
  <2>3. CASE \E a \in Clients, ttl \in TTLs : AcquireGranted(a, ttl)
    BY <2>3 DEF AcquireGranted, LeaseGranted, MayHold
  <2>4. CASE \E l \in LeaseIds : HeartbeatDenied(l)
    BY <2>4 DEF HeartbeatDenied, KeepLease, LeaseKept
  <2>5. CASE \E l \in LeaseIds, ttl \in TTLs : HeartbeatRenewed(l, ttl)
    BY <2>5 DEF HeartbeatRenewed, LeaseTimed, TTLs, Pen
  <2>6. CASE \E a \in Callers, l \in LeaseIds : Release(a, l)
    BY <2>6 DEF Release, LeaseKept
  <2>7. CASE \E a \in Clients, force \in BOOLEAN : TakeoverDenied(a, force)
    BY <2>7 DEF TakeoverDenied, KeepLease, LeaseKept
  <2>8. CASE \E a \in Clients, force \in BOOLEAN, ttl \in TTLs : TakeoverGranted(a, force, ttl)
    <3>1. PICK a \in Clients, force \in BOOLEAN, ttl \in TTLs : TakeoverGranted(a, force, ttl)
      BY <2>8
    <3>2. a \in Actor /\ (Held # NoLease => Held.holder \in Actor)
      BY RanksAreNumbers
    <3>3. MayHold(a)
      BY <3>1, <3>2, RanksAreNumbers DEF TakeoverGranted, MayTakeOver, MayHold
    <3> QED BY <3>1, <3>2, <3>3 DEF TakeoverGranted, LeaseGranted
  <2> QED BY <1>1, <2>1, <2>2, <2>3, <2>4, <2>5, <2>6, <2>7, <2>8 DEF LeaseOp
<1>2. CASE HandoffOp
  <2>1. CASE \E a \in Callers, l \in LeaseIds : PauseDenied(a, l)
    BY <2>1 DEF PauseDenied, KeepLease, LeaseKept
  <2>2. CASE \E a \in Callers, l \in LeaseIds, h \in Handoffs : Pause(a, l, h)
    BY <2>2 DEF Pause, LeaseKept
  <2>3. CASE \E a \in Callers, h \in Handoffs : ClaimRefused(h, a)
    BY <2>3 DEF ClaimRefused, LeaseKept
  <2>4. CASE \E a \in Callers, h \in Handoffs : ClaimDenied(h, a)
    BY <2>4 DEF ClaimDenied, KeepLease, LeaseKept
  <2>5. CASE \E a \in Callers, h \in Handoffs, ttl \in TTLs : ClaimHandoff(h, a, ttl)
    BY <2>5, RanksAreNumbers DEF ClaimHandoff, Outranked, LeaseGranted, MayHold
  <2>6. CASE \E a \in Callers : Resume(a)
    BY <2>6 DEF Resume, LeaseKept
  <2> QED BY <1>2, <2>1, <2>2, <2>3, <2>4, <2>5, <2>6 DEF HandoffOp
<1>3. CASE GateOp
  <2>1. CASE \E a \in Callers, l \in LeaseIds : WriteRejected(a, l)
    BY <2>1 DEF WriteRejected, KeepLease, LeaseKept
  <2>2. CASE \E a \in Callers, l \in LeaseIds : WriteAccepted(a, l)
    BY <2>2 DEF WriteAccepted, MayWrite, KeepLease, LeaseKept, LeaseWritten
  <2>3. CASE \E a \in Callers : AuthRefused(a) \/ NoteAmbient(a)
    BY <2>3 DEF AuthRefused, NoteAmbient, LeaseKept
  <2> QED BY <1>3, <2>1, <2>2, <2>3 DEF GateOp
<1>4. CASE Tick
  <2>1. lease \in Lease /\ lease.left - 1 \in 0..MaxTTL
    BY <1>4 DEF Tick, TypeOK, Lease
  <2> QED BY <1>4, <2>1 DEF Tick, LeaseTimed, Live, Expired, Lease
<1> QED BY <1>1, <1>2, <1>3, <1>4 DEF Next

\* A call is remembered under its name.
LEMMA CalledOp ==
  ASSUME NEW op, NEW a, NEW l, NEW force, NEW reason, Called(op, a, l, force, reason)
  PROVE  last'.op = op
  BY Zenon DEF Called

\* Every step has one of the four effects on the pause flag and the handoffs.
LEMMA PauseEffects == TypeOK /\ Next => PauseEffect
<1> SUFFICES ASSUME TypeOK, Next PROVE PauseEffect
  OBVIOUS
<1> USE CallersAreActors DEF PauseEffect, KeepRest, Denied
<1>1. CASE LeaseOp
  BY <1>1 DEF LeaseOp, AcquireUnattributed, AcquireDenied, AcquireGranted, HeartbeatDenied,
     HeartbeatRenewed, Release, TakeoverUnattributed, TakeoverDenied, TakeoverGranted, PauseKept
<1>2. CASE HandoffOp
  <2>1. CASE \E a \in Callers, l \in LeaseIds, h \in Handoffs : Pause(a, l, h)
    BY <2>1 DEF Pause, Parked
  <2>2. CASE \E a \in Callers, h \in Handoffs, ttl \in TTLs : ClaimHandoff(h, a, ttl)
    BY <2>2, CalledOp DEF ClaimHandoff, Claimable, Claimed
  <2>3. CASE \E a \in Callers : Resume(a)
    BY <2>3, CalledOp DEF Resume, Resumed
  <2>4. CASE \/ \E a \in Callers, l \in LeaseIds : PauseDenied(a, l)
             \/ \E a \in Callers, h \in Handoffs : ClaimRefused(h, a) \/ ClaimDenied(h, a)
    BY <2>4 DEF PauseDenied, ClaimRefused, ClaimDenied, PauseKept
  <2> QED BY <1>2, <2>1, <2>2, <2>3, <2>4 DEF HandoffOp
<1>3. CASE GateOp
  BY <1>3 DEF GateOp, WriteRejected, WriteAccepted, AuthRefused, NoteAmbient, PauseKept
<1>4. CASE Tick
  BY <1>4 DEF Tick, PauseKept
<1> QED BY <1>1, <1>2, <1>3, <1>4 DEF Next

\* A call made with arguments of the right types is remembered so.
LEMMA CalledIsTyped ==
  ASSUME NEW op \in Ops, NEW a \in Actor \cup {NoActor}, NEW l \in 0..MaxEpoch,
         NEW force \in BOOLEAN, NEW reason, Called(op, a, l, force, reason)
  PROVE  CallTyped'
<1>1. /\ last'.op = op /\ last'.actor = a /\ last'.presented = l
      /\ last'.force = force
  BY Zenon DEF Called
<1> QED BY <1>1, Zenon DEF CallTyped

\* Every step remembers a call of the right types.
LEMMA CallEffects == TypeOK /\ Next => CallTyped'
<1> SUFFICES ASSUME TypeOK, Next PROVE CallTyped'
  OBVIOUS
<1>1. LeaseIds \subseteq 0..MaxEpoch /\ 0 \in 0..MaxEpoch
  BY DEF LeaseIds, TypeOK
<1> DEFINE Typed(a, l) == a \in Actor \cup {NoActor} /\ l \in 0..MaxEpoch
<1>2. /\ \A a \in Clients : Typed(a, 0)
      /\ \A a \in Callers, l \in LeaseIds : Typed(Who(a), l) /\ Typed(Attributed(a, l), l)
      /\ \A l \in LeaseIds : Typed(NoActor, l)
      /\ Typed(NoActor, 0) /\ \A a \in Callers : Typed(Who(a), 0)
      /\ \A a \in Callers, l \in LeaseIds : Typed(a, l)
  BY <1>1, CallersAreActors
<1>3. ASSUME NEW op \in Ops, NEW a, NEW l, Typed(a, l), NEW force \in BOOLEAN, NEW reason,
             Called(op, a, l, force, reason)
      PROVE  CallTyped'
  BY <1>3, CalledIsTyped
<1> HIDE DEF Typed
<1> USE <1>2, <1>3 DEF Denied, Ops
<1>4. CASE LeaseOp
  <2>1. CASE AcquireUnattributed \/ TakeoverUnattributed
    BY <2>1 DEF AcquireUnattributed, TakeoverUnattributed
  <2>2. CASE \E a \in Clients : AcquireDenied(a) \/ \E ttl \in TTLs : AcquireGranted(a, ttl)
    BY <2>2 DEF AcquireDenied, AcquireGranted
  <2>3. CASE \E l \in LeaseIds : HeartbeatDenied(l) \/ \E ttl \in TTLs : HeartbeatRenewed(l, ttl)
    BY <2>3 DEF HeartbeatDenied, HeartbeatRenewed
  <2>4. CASE \E a \in Callers, l \in LeaseIds : Release(a, l)
    BY <2>4 DEF Release
  <2>5. CASE \E a \in Clients, force \in BOOLEAN :
               TakeoverDenied(a, force) \/ \E ttl \in TTLs : TakeoverGranted(a, force, ttl)
    BY <2>5 DEF TakeoverDenied, TakeoverGranted
  <2> QED BY <1>4, <2>1, <2>2, <2>3, <2>4, <2>5 DEF LeaseOp
<1>5. CASE HandoffOp
  <2>1. CASE \E a \in Callers, l \in LeaseIds : PauseDenied(a, l) \/ \E h \in Handoffs : Pause(a, l, h)
    BY <2>1 DEF PauseDenied, Pause
  <2>2. CASE \E a \in Callers, h \in Handoffs : ClaimRefused(h, a)
    BY <2>2 DEF ClaimRefused
  <2>3. CASE \E a \in Callers, h \in Handoffs :
               ClaimDenied(h, a) \/ \E ttl \in TTLs : ClaimHandoff(h, a, ttl)
    BY <2>3 DEF ClaimDenied, ClaimHandoff
  <2>4. CASE \E a \in Callers : Resume(a)
    BY <2>4 DEF Resume
  <2> QED BY <1>5, <2>1, <2>2, <2>3, <2>4 DEF HandoffOp
<1>6. CASE GateOp
  BY <1>6 DEF GateOp, WriteRejected, WriteAccepted, AuthRefused, NoteAmbient
<1>7. CASE Tick
  BY <1>7, Zenon DEF Tick, TypeOK, CallTyped
<1> QED BY <1>4, <1>5, <1>6, <1>7 DEF Next

-----------------------------------------------------------------------------
(***************************************************************************)
(* The inductive invariant.                                                *)
(***************************************************************************)

\* Only a handoff that exists is ever claimed, and a session is parked exactly
\* as long as somebody is on record as having parked it.
MintedBeforeClaimed == \A h \in Handoffs : claimed_by[h] # NoActor => h \in minted

IInv == TypeOK /\ LeaseIsNewest /\ FenceBehindGrants /\ MintedBeforeClaimed /\ PauseIsAnswerable

LEMMA InitIInv == Init => IInv
<1> SUFFICES ASSUME Init PROVE IInv
  OBVIOUS
<1>1. /\ epoch = 0 /\ lease = NoLease /\ fence = 0 /\ paused = FALSE /\ paused_by = NoActor
      /\ minted = {} /\ claimed_by = [h \in Handoffs |-> NoActor]
  BY Zenon DEF Init
<1>2. /\ last.op = "open" /\ last.actor = NoActor /\ last.presented = 0
      /\ last.force \in BOOLEAN
  BY Zenon DEF Init
<1>3. TypeOK
  <2>1. last.op \in Ops
    BY <1>2 DEF Ops
  <2>2. claimed_by \in [Handoffs -> Actor \cup {NoActor}]
    BY <1>1
  <2>3. 0 \in 0..MaxEpoch /\ FALSE \in BOOLEAN /\ {} \subseteq Handoffs
    OBVIOUS
  <2> QED BY <1>1, <1>2, <2>1, <2>2, <2>3, Zenon DEF TypeOK
<1> QED BY <1>1, <1>3 DEF IInv, LeaseIsNewest, FenceBehindGrants, MintedBeforeClaimed,
           PauseIsAnswerable

\* A step keeps the lease part of the invariant, by the four lease effects.
LEMMA LeasePart ==
  ASSUME TypeOK, LeaseIsNewest, FenceBehindGrants, LeaseEffect
  PROVE  /\ epoch' \in 0..MaxEpoch /\ lease' \in Lease \cup {NoLease} /\ fence' \in 0..MaxEpoch
         /\ LeaseIsNewest' /\ FenceBehindGrants'
<1> USE DEF TypeOK, LeaseIsNewest, FenceBehindGrants
<1>1. CASE LeaseKept
  BY <1>1 DEF LeaseKept, Held
<1>2. CASE LeaseGranted
  <2> PICK a \in Actor, ttl \in TTLs : Grant(a, ttl)
    BY <1>2 DEF LeaseGranted
  <2>1. epoch + 1 \in 1..MaxEpoch /\ ttl \in 0..MaxTTL
    BY DEF Grant, TTLs
  <2>2. lease' \in Lease /\ lease'.epoch = epoch'
    BY <2>1 DEF Grant, Lease
  <2> QED BY <1>2, <2>1, <2>2 DEF LeaseGranted, Grant
<1>3. CASE LeaseTimed
  BY <1>3 DEF LeaseTimed, Live, Lease
<1>4. CASE LeaseWritten
  BY <1>4 DEF LeaseWritten, KeepLease, Held, Pen, Live, Lease
<1> QED BY <1>1, <1>2, <1>3, <1>4 DEF LeaseEffect

\* A step keeps the pause part of the invariant, by the four pause effects.
LEMMA PausePart ==
  ASSUME TypeOK, MintedBeforeClaimed, PauseIsAnswerable, PauseEffect
  PROVE  /\ paused' \in BOOLEAN /\ paused_by' \in Actor \cup {NoActor}
         /\ minted' \subseteq Handoffs /\ claimed_by' \in [Handoffs -> Actor \cup {NoActor}]
         /\ MintedBeforeClaimed' /\ PauseIsAnswerable'
<1> USE RereadActor DEF TypeOK, MintedBeforeClaimed, PauseIsAnswerable
<1>1. CASE PauseKept
  BY <1>1 DEF PauseKept, KeepPause, KeepHandoffs
<1>2. CASE Parked
  BY <1>2 DEF Parked
<1>3. CASE Claimed
  <2> PICK a \in Actor, h \in minted :
         /\ LiftPause /\ minted' = minted
         /\ claimed_by' = [x \in Handoffs |-> IF x = h THEN a ELSE Reread(claimed_by[x])]
    BY <1>3 DEF Claimed
  <2>1. \A x \in Handoffs : Reread(claimed_by[x]) \in Actor \cup {NoActor}
    OBVIOUS
  <2>2. claimed_by' \in [Handoffs -> Actor \cup {NoActor}]
    BY <2>1
  <2>3. MintedBeforeClaimed'
    BY <2>1
  <2> QED BY <2>2, <2>3 DEF LiftPause
<1>4. CASE Resumed
  BY <1>4 DEF Resumed, LiftPause, KeepHandoffs
<1> QED BY <1>1, <1>2, <1>3, <1>4 DEF PauseEffect

LEMMA NextIInv == IInv /\ [Next]_vars => IInv'
<1> SUFFICES ASSUME IInv, [Next]_vars PROVE IInv'
  OBVIOUS
<1>1. CASE Next
  <2>1. LeaseEffect /\ PauseEffect /\ CallTyped'
    BY <1>1, LeaseEffects, PauseEffects, CallEffects DEF IInv
  <2> QED BY <2>1, LeasePart, PausePart DEF IInv, TypeOK, CallTyped
<1>2. CASE UNCHANGED vars
  BY <1>2 DEF vars, IInv, TypeOK, LeaseIsNewest, FenceBehindGrants, MintedBeforeClaimed,
     PauseIsAnswerable
<1> QED BY <1>1, <1>2

\* In every behaviour of the control plane the invariant holds: the lease on
\* record is the newest grant, no write outran the grants, and a parked session
\* names who parked it and leaves a handoff to claim.
THEOREM Invariance == Spec => []IInv
<1>1. Init => IInv
  BY InitIInv
<1>2. IInv /\ [Next]_vars => IInv'
  BY NextIInv
<1> QED BY <1>1, <1>2, PTL DEF Spec

\* Type correctness of the control file and of the latest call.
THEOREM TypeCorrect == Spec => []TypeOK
<1>1. IInv => TypeOK
  BY DEF IInv
<1> QED BY <1>1, Invariance, PTL

\* The lease on record is always the newest grant (SessionControl._grant).
THEOREM NewestLease == Spec => []LeaseIsNewest
<1>1. IInv => LeaseIsNewest
  BY DEF IInv
<1> QED BY <1>1, Invariance, PTL

\* A parked session can always be picked up (pause, claim_handoff, resume).
THEOREM ParkedIsAnswerable == Spec => []PauseIsAnswerable
<1>1. IInv => PauseIsAnswerable
  BY DEF IInv
<1> QED BY <1>1, Invariance, PTL

-----------------------------------------------------------------------------
(***************************************************************************)
(* The control plane implements the fenced write lock.                     *)
(***************************************************************************)

\* A step of the control plane is a step of the lock or leaves it alone.
LEMMA LeaseSteps ==
  ASSUME TypeOK, LeaseIsNewest, LeaseEffect
  PROVE  [Writer!WNext]_(Writer!wvars)
<1> USE DEF TypeOK, LeaseIsNewest, Writer!WNext, Writer!wvars
<1>1. CASE LeaseKept
  <2>1. Pen' \in {Pen, 0}
    BY <1>1 DEF LeaseKept, Held, Pen, Live, Expired
  <2> QED BY <1>1, <2>1 DEF LeaseKept, Writer!Drops
<1>2. CASE LeaseGranted
  <2> PICK a \in Actor, ttl \in TTLs : Grant(a, ttl)
    BY <1>2 DEF LeaseGranted
  <2>1. lease' \in Lease /\ lease'.epoch = epoch + 1 /\ lease'.left = ttl /\ ttl # 0
    BY DEF Grant, Lease, TTLs
  <2>2. Pen' = epoch + 1
    BY <2>1 DEF Pen, Live, Expired
  <2> QED BY <1>2, <2>2 DEF LeaseGranted, Grant, Writer!Grants
<1>3. CASE LeaseTimed
  <2>1. lease \in Lease /\ lease' \in Lease /\ lease'.epoch = lease.epoch
    BY <1>3 DEF LeaseTimed, Live, Lease
  <2>2. Pen' \in {Pen, 0}
    BY <1>3, <2>1 DEF LeaseTimed, Pen, Live
  <2> QED BY <1>3, <2>2 DEF LeaseTimed, Writer!Drops
<1>4. CASE LeaseWritten
  <2>1. Live /\ lease' = lease
    BY <1>4 DEF LeaseWritten, KeepLease, Held, Pen
  <2>2. Pen' = Pen
    BY <2>1 DEF Pen, Live, Expired
  <2> QED BY <1>4, <2>2 DEF LeaseWritten, KeepLease, Writer!Writes
<1> QED BY <1>1, <1>2, <1>3, <1>4 DEF LeaseEffect

\* SessionControl implements WriterLease: the grant that counts is the one whose
\* lease is on record and not yet due.
THEOREM Refinement == Spec => ImplementsWriterLease
<1>1. Init => Writer!WInit
  <2> SUFFICES ASSUME Init PROVE Writer!WInit
    OBVIOUS
  <2>1. epoch = 0 /\ lease = NoLease /\ fence = 0
    BY Zenon DEF Init
  <2> QED BY <2>1 DEF Writer!WInit, Pen, Live
<1>2. IInv /\ [Next]_vars => [Writer!WNext]_(Writer!wvars)
  <2> SUFFICES ASSUME IInv, [Next]_vars PROVE [Writer!WNext]_(Writer!wvars)
    OBVIOUS
  <2>1. CASE Next
    BY <2>1, LeaseEffects, LeaseSteps DEF IInv
  <2>2. CASE UNCHANGED vars
    BY <2>2 DEF vars, Pen, Live, Expired, Writer!wvars
  <2> QED BY <2>1, <2>2
<1> QED BY <1>1, <1>2, Invariance, PTL DEF Spec, ImplementsWriterLease, Writer!WSpec

\* A handoff is claimed once and keeps its claimer (claim_handoff): two people
\* racing on one link never both own the session.
THEOREM OneClaimer == Spec => ClaimOnce
<1> DEFINE Kept == \A h \in Handoffs :
                     claimed_by[h] # NoActor =>
                       claimed_by'[h] # NoActor /\ claimed_by'[h].id = claimed_by[h].id
<1>1. IInv /\ [Next]_vars => [Kept]_vars
  <2> SUFFICES ASSUME IInv, Next PROVE Kept
    BY DEF vars
  <2> USE RereadActor DEF IInv, TypeOK, MintedBeforeClaimed
  <2>1. PauseEffect
    BY PauseEffects
  <2>2. CASE PauseKept
    BY <2>2 DEF PauseKept, KeepHandoffs
  <2>3. CASE Parked
    BY <2>3 DEF Parked
  <2>4. CASE Claimed
    BY <2>4 DEF Claimed
  <2>5. CASE Resumed
    BY <2>5 DEF Resumed, KeepHandoffs
  <2> QED BY <2>1, <2>2, <2>3, <2>4, <2>5 DEF PauseEffect
<1> QED BY <1>1, Invariance, PTL DEF Spec, ClaimOnce

\* The pen never passes from a live human holder straight to a bot: a grant
\* goes to the same identity or to one of at least the holder's rank
\* (takeover, claim_handoff, acquire).
THEOREM NoBotOverPerson == Spec => PersonKeepsPen
<1> DEFINE Kept == Leads(lease) /\ lease.holder.kind = "human" /\ lease' # NoLease
                     /\ lease'.holder.id # lease.holder.id => lease'.holder.kind = "human"
<1>1. IInv /\ [Next]_vars => [Kept]_vars
  <2> SUFFICES ASSUME IInv, Next, Leads(lease), lease.holder.kind = "human", lease' # NoLease,
                      lease'.holder.id # lease.holder.id
               PROVE  lease'.holder.kind = "human"
    BY DEF vars
  <2>1. LeaseEffect
    BY LeaseEffects DEF IInv
  <2>2. Held = lease /\ lease \in Lease
    BY DEF Leads, Held, Live, Expired, IInv, TypeOK
  <2>3. CASE LeaseKept \/ LeaseWritten
    BY <2>2, <2>3 DEF LeaseKept, LeaseWritten, KeepLease
  <2>4. CASE LeaseTimed
    BY <2>2, <2>4 DEF LeaseTimed, Lease
  <2>5. CASE LeaseGranted
    <3> PICK a \in Actor, ttl \in TTLs : MayHold(a) /\ Grant(a, ttl)
      BY <2>5 DEF LeaseGranted
    <3>1. lease'.holder = a
      BY DEF Grant
    <3> QED BY <2>2, <3>1, RanksAreNumbers DEF MayHold, Leads
  <2> QED BY <2>1, <2>3, <2>4, <2>5 DEF LeaseEffect
<1> QED BY <1>1, Invariance, PTL DEF Spec, PersonKeepsPen

\* A pause ends by a claim or a resume, and until then no write is accepted
\* under any lease (check_write, claim_handoff, resume).
THEOREM PauseHolds == Spec => PausedUntilPickedUp
<1> DEFINE Stays == paused => /\ ~paused' => last'.op \in {"handoff.claim", "session.resume"}
                              /\ fence' = fence
<1>1. IInv /\ [Next]_vars => [Stays]_vars
  <2> SUFFICES ASSUME IInv, Next, paused PROVE Stays
    BY DEF vars
  <2>1. fence' = fence
    BY LeaseEffects DEF IInv, LeaseEffect, LeaseKept, LeaseGranted, LeaseTimed, LeaseWritten
  <2>2. ~paused' => last'.op \in {"handoff.claim", "session.resume"}
    BY PauseEffects DEF IInv, PauseEffect, PauseKept, KeepPause, Parked, Claimed, Resumed
  <2> QED BY <2>1, <2>2
<1> QED BY <1>1, Invariance, PTL DEF Spec, PausedUntilPickedUp

-----------------------------------------------------------------------------
(***************************************************************************)
(* The fence.                                                              *)
(***************************************************************************)

Wrote == last.op = "write" /\ last.reason = "ok"

\* The latest call, when it was an accepted write, is the newest one there was:
\* a clock tick after it changes nothing of that.
WriteStands == Wrote => IF last.presented = 0 THEN ~Leads(lease) ELSE last.presented = fence

\* An accepted write presents what the gate asks for and moves the fence to it.
GatePassed == /\ last'.presented \in LeaseIds /\ last'.presented = Pen
              /\ fence' = IF last'.presented = 0 THEN fence ELSE last'.presented
              /\ KeepLease

LEMMA CalledSays ==
  ASSUME NEW op \in Ops, NEW a, NEW l \in Nat, NEW force \in BOOLEAN, NEW reason,
         Called(op, a, l, force, reason)
  PROVE  /\ last'.op = op /\ last'.presented = l /\ last'.reason = reason
         /\ op # "write" \/ reason # "ok" => ~Wrote'
<1>1. last'.op = op /\ last'.presented = l /\ last'.reason = reason
  BY Zenon DEF Called
<1> QED BY <1>1, Zenon DEF Wrote

\* Only the write gate accepts writes.
LEMMA OnlyTheGate == TypeOK /\ Next => ~Wrote' \/ GatePassed \/ Tick
<1> SUFFICES ASSUME TypeOK, Next, ~Tick PROVE ~Wrote' \/ GatePassed
  OBVIOUS
<1>0. LeaseIds \subseteq Nat
  BY DEF LeaseIds
<1> USE <1>0, CalledSays DEF Denied, Ops
<1>1. CASE LeaseOp
  <2>1. CASE AcquireUnattributed \/ TakeoverUnattributed
    BY <2>1 DEF AcquireUnattributed, TakeoverUnattributed
  <2>2. CASE \E a \in Clients : AcquireDenied(a) \/ \E ttl \in TTLs : AcquireGranted(a, ttl)
    BY <2>2 DEF AcquireDenied, AcquireGranted
  <2>3. CASE \E l \in LeaseIds : HeartbeatDenied(l) \/ \E ttl \in TTLs : HeartbeatRenewed(l, ttl)
    BY <2>3 DEF HeartbeatDenied, HeartbeatRenewed
  <2>4. CASE \E a \in Callers, l \in LeaseIds : Release(a, l)
    BY <2>4 DEF Release
  <2>5. CASE \E a \in Clients, force \in BOOLEAN :
               TakeoverDenied(a, force) \/ \E ttl \in TTLs : TakeoverGranted(a, force, ttl)
    BY <2>5 DEF TakeoverDenied, TakeoverGranted
  <2> QED BY <1>1, <2>1, <2>2, <2>3, <2>4, <2>5 DEF LeaseOp
<1>2. CASE HandoffOp
  BY <1>2 DEF HandoffOp, PauseDenied, Pause, ClaimRefused, ClaimDenied, ClaimHandoff, Resume
<1>3. CASE GateOp
  <2>1. \A l : WriteReason(l) # "ok"
    BY Zenon DEF WriteReason
  <2>2. CASE \E a \in Callers, l \in LeaseIds : WriteRejected(a, l)
    BY <2>1, <2>2 DEF WriteRejected
  <2>3. CASE \E a \in Callers, l \in LeaseIds : WriteAccepted(a, l)
    BY <2>3 DEF WriteAccepted, MayWrite, GatePassed
  <2>4. CASE \E a \in Callers : AuthRefused(a) \/ NoteAmbient(a)
    BY <2>4 DEF AuthRefused, NoteAmbient
  <2> QED BY <1>3, <2>2, <2>3, <2>4 DEF GateOp
<1> QED BY <1>1, <1>2, <1>3 DEF Next

\* What an accepted write, or a tick after one, leaves behind.
LEMMA AfterAWrite ==
  ASSUME IInv, WriteStands, Next
  PROVE  /\ WriteStands'
         /\ fence' # fence => fence' > fence
         /\ Wrote' => IF last'.presented = 0 THEN ~Leads(lease') ELSE last'.presented >= fence
<1> USE DEF IInv, TypeOK, LeaseIsNewest, FenceBehindGrants
<1>1. fence' # fence => fence' > fence
  BY LeaseEffects DEF LeaseEffect, LeaseKept, LeaseGranted, LeaseTimed, LeaseWritten, Pen, Live
<1>2. CASE ~Wrote'
  BY <1>1, <1>2 DEF WriteStands
<1>3. CASE GatePassed
  <2>1. last'.presented = 0 => ~Leads(lease')
    BY <1>3 DEF GatePassed, KeepLease, Held, Pen, Live, Leads, Lease
  <2>2. last'.presented # 0 => last'.presented = fence' /\ last'.presented >= fence
    BY <1>3 DEF GatePassed, Pen, Live
  <2> QED BY <1>1, <2>1, <2>2 DEF WriteStands
<1>4. CASE Tick
  <2>1. last' = last /\ fence' = fence /\ Leads(lease)
    BY <1>4 DEF Tick, Leads
  <2>2. Wrote' => last.presented # 0 /\ last.presented = fence
    BY <2>1 DEF WriteStands, Wrote
  <2> QED BY <1>1, <2>1, <2>2 DEF WriteStands, Wrote
<1> QED BY <1>2, <1>3, <1>4, OnlyTheGate

\* Fencing: once a write under one lease was accepted none under an older one
\* is, and none without a lease while somebody holds one (check_write).
THEOREM StaleWritesFenced == Spec => Fenced
<1> DEFINE Forward == /\ fence' # fence => fence' > fence
                      /\ Wrote' => IF last'.presented = 0 THEN ~Leads(lease')
                                                         ELSE last'.presented >= fence
<1>1. Init => WriteStands
  <2> SUFFICES ASSUME Init PROVE ~Wrote
    BY DEF WriteStands
  <2>1. last.op = "open"
    BY Zenon DEF Init
  <2> QED BY <2>1 DEF Wrote
<1>2. IInv /\ WriteStands /\ [Next]_vars => WriteStands'
  <2> SUFFICES ASSUME IInv, WriteStands, [Next]_vars PROVE WriteStands'
    OBVIOUS
  <2>1. CASE UNCHANGED vars
    BY <2>1 DEF vars, WriteStands, Wrote, Leads
  <2> QED BY <2>1, AfterAWrite
<1>3. IInv /\ WriteStands /\ [Next]_vars => [Forward]_vars
  BY AfterAWrite
<1>4. Spec => [][Forward]_vars
  BY <1>1, <1>2, <1>3, Invariance, PTL DEF Spec
<1>5. Forward <=> /\ fence' # fence => fence' > fence
                  /\ Accepted => IF last'.presented = 0 THEN ~Leads(lease')
                                                        ELSE last'.presented >= fence
  BY DEF Accepted, Wrote
<1> QED BY <1>4, <1>5, PTL DEF Fenced

-----------------------------------------------------------------------------
(***************************************************************************)
(* The audit trail says how a lease ended.                                 *)
(***************************************************************************)

Endings == {"lease.expired", "lease.released", "lease.renewed", "lease.revoked",
            "handoff.claimed"}
Others == {"lease.granted", "lease.denied", "lease.takeover", "session.paused",
           "handoff.created", "write.accepted", "write.rejected"}
Entries == [action : Endings \cup Others, actor : Actor \cup {NoActor}]

\* An entry about an actor, and what it says happened.
LEMMA EntryMade ==
  ASSUME NEW x \in Endings \cup Others, NEW a \in Actor \cup {NoActor}
  PROVE  Entry(x, a) \in Entries /\ Entry(x, a).action = x
  BY DEF Entry, Entries

\* What either half of a call's entries records, the whole records.
LEMMA HalvesAreAudited ==
  ASSUME NEW s \in Seq(Entries), NEW r \in Seq(Entries), trail' = s \o r
  PROVE  /\ \A i \in 1..Len(s) : Audited(s[i].action)
         /\ \A i \in 1..Len(r) : Audited(r[i].action)
<1>1. /\ Len(s) \in Nat /\ Len(r) \in Nat
      /\ DOMAIN trail' = 1..Len(s) + Len(r)
      /\ \A i \in 1..Len(s) : trail'[i] = s[i]
      /\ \A i \in 1..Len(r) : trail'[Len(s) + i] = r[i]
  OBVIOUS
<1>2. ASSUME NEW i \in 1..Len(s) PROVE Audited(s[i].action)
  <2>1. i \in DOMAIN trail' /\ trail'[i] = s[i]
    BY <1>1
  <2> QED BY <2>1, Zenon DEF Audited
<1>3. ASSUME NEW i \in 1..Len(r) PROVE Audited(r[i].action)
  <2>1. Len(s) + i \in DOMAIN trail' /\ trail'[Len(s) + i] = r[i]
    BY <1>1
  <2> QED BY <2>1, Zenon DEF Audited
<1> QED BY <1>2, <1>3

\* A concatenation starts with what its first half starts with.
LEMMA FirstOfTwo ==
  ASSUME NEW S, NEW s \in Seq(S), NEW r \in Seq(S), Len(s) = 1
  PROVE  Len(s \o r) >= 1 /\ (s \o r)[1] = s[1]
<1>1. Len(r) \in Nat
  OBVIOUS
<1>2. Len(s \o r) = Len(s) + Len(r)
  BY ConcatProperties, Zenon
<1>3. \A i \in 1..Len(s) + Len(r) : (s \o r)[i] = IF i <= Len(s) THEN s[i] ELSE r[i - Len(s)]
  BY ConcatProperties, Zenon
<1>4. (s \o r)[1] = IF 1 <= Len(s) THEN s[1] ELSE r[1 - Len(s)]
  <2>1. 1 \in 1..Len(s) + Len(r)
    BY <1>1
  <2> QED BY <1>3, <2>1, Zenon
<1> QED BY <1>1, <1>2, <1>4

\* A lease that has run out is reaped with an entry that says so, and nothing
\* else is reaped.
LEMMA ReapedSays ==
  ASSUME TypeOK
  PROVE  /\ Reaped \in Seq(Entries)
         /\ lease # NoLease /\ lease.left = 0 => Len(Reaped) = 1 /\ Reaped[1].action = "lease.expired"
         /\ lease # NoLease /\ lease.left # 0 => Held = lease /\ Reaped = <<>>
<1>1. lease # NoLease => lease.holder \in Actor
  BY DEF TypeOK, Lease
<1>2. CASE lease # NoLease /\ lease.left = 0
  <2> DEFINE e == Entry("lease.expired", lease.holder)
  <2>1. Reaped = <<e>>
    BY <1>2, Zenon DEF Reaped, Expired
  <2>2. e \in Entries /\ e.action = "lease.expired"
    BY <1>1, <1>2, EntryMade DEF Endings
  <2> HIDE DEF e
  <2>3. <<e>> \in Seq(Entries) /\ Len(<<e>>) = 1 /\ <<e>>[1] = e
    BY <2>2
  <2> QED BY <1>2, <2>1, <2>2, <2>3
<1>3. CASE ~(lease # NoLease /\ lease.left = 0)
  <2>1. Reaped = <<>>
    BY <1>3 DEF Reaped, Expired
  <2> QED BY <1>3, <2>1 DEF Held, Live, Expired
<1> QED BY <1>2, <1>3

\* A call that appends what it reaped and some entries of its own.
LEMMA ReapingIsAudited ==
  ASSUME TypeOK, NEW r \in Seq(Entries), trail' = Reaped \o r
  PROVE  /\ lease # NoLease /\ lease.left = 0 => Audited("lease.expired")
         /\ \A i \in 1..Len(r) : Audited(r[i].action)
<1>1. \A i \in 1..Len(Reaped) : Audited(Reaped[i].action)
  BY ReapedSays, HalvesAreAudited
<1>2. \A i \in 1..Len(r) : Audited(r[i].action)
  BY ReapedSays, HalvesAreAudited
<1>3. ASSUME lease # NoLease, lease.left = 0 PROVE Audited("lease.expired")
  <2>1. Len(Reaped) = 1 /\ Reaped[1].action = "lease.expired"
    BY <1>3, ReapedSays
  <2>2. 1 \in 1..Len(Reaped)
    BY <2>1
  <2>3. Audited(Reaped[1].action)
    BY <1>1, <2>2, Zenon
  <2> QED BY <2>1, <2>3, Zenon
<1> QED BY <1>2, <1>3

\* A call that appends one entry, and one that appends what it takes from a
\* holder and then what it is.
LEMMA OneEntry ==
  ASSUME TypeOK, lease # NoLease, NEW x \in Endings \cup Others, NEW a \in Actor \cup {NoActor},
         trail' \in {Append(Reaped, Entry(x, a)), Reaped \o <<Entry(x, a)>>}
  PROVE  (lease.left = 0 => Audited("lease.expired")) /\ Audited(x)
<1> DEFINE e == Entry(x, a)
<1>1. e \in Entries /\ e.action = x
  BY EntryMade
<1>2. Reaped \in Seq(Entries)
  BY ReapedSays
<1> HIDE DEF e
<1>3. <<e>> \in Seq(Entries) /\ Len(<<e>>) = 1 /\ <<e>>[1] = e
  BY <1>1
<1>4. trail' = Reaped \o <<e>>
  <2>1. trail' \in {Append(Reaped, e), Reaped \o <<e>>}
    BY DEF e
  <2>2. Append(Reaped, e) = Reaped \o <<e>>
    BY <1>1, <1>2
  <2> QED BY <2>1, <2>2
<1>5. \A i \in 1..1 : Audited(<<e>>[i].action)
  BY <1>3, <1>4, ReapingIsAudited
<1>6. 1 \in 1..1 /\ <<e>>[1].action = x
  BY <1>1, <1>3
<1>7. Audited(x)
  BY <1>5, <1>6, Zenon
<1> QED BY <1>3, <1>4, <1>7, ReapingIsAudited

LEMMA ThenMore ==
  ASSUME TypeOK, lease # NoLease, NEW x \in Endings \cup Others, NEW a \in Actor \cup {NoActor},
         NEW r \in Seq(Entries),
         trail' = Reaped \o (IF Held # NoLease THEN <<Entry(x, a)>> ELSE <<>>) \o r
  PROVE  IF lease.left = 0 THEN Audited("lease.expired") ELSE Audited(x)
<1> DEFINE e == Entry(x, a)
<1> DEFINE s == Reaped \o (IF Held # NoLease THEN <<e>> ELSE <<>>)
<1>1. e \in Entries /\ e.action = x
  BY EntryMade
<1>2. trail' = s \o r
  OBVIOUS
<1> HIDE DEF e
<1>3. s \in Seq(Entries)
  BY <1>1, ReapedSays
<1>4. Len(s) >= 1 /\ s[1].action = IF lease.left = 0 THEN "lease.expired" ELSE x
  <2>1. CASE lease.left = 0
    <3>1. /\ Reaped \in Seq(Entries) /\ Len(Reaped) = 1
          /\ Reaped[1].action = "lease.expired"
      BY <2>1, ReapedSays
    <3> DEFINE o == IF Held # NoLease THEN <<e>> ELSE <<>>
    <3>2. o \in Seq(Entries)
      BY <1>1
    <3> HIDE DEF o
    <3>3. Len(Reaped \o o) >= 1 /\ (Reaped \o o)[1] = Reaped[1]
      BY <3>1, <3>2, FirstOfTwo
    <3> QED BY <2>1, <3>1, <3>3 DEF o
  <2>2. CASE lease.left # 0
    <3>1. s = <<>> \o <<e>>
      BY <2>2, ReapedSays
    <3>2. s = <<e>>
      BY <3>1, <1>1
    <3> HIDE DEF s
    <3>3. Len(s) = 1 /\ s[1] = e
      BY <3>2
    <3> QED BY <2>2, <3>3, <1>1
  <2> QED BY <2>1, <2>2
<1> HIDE DEF s
<1>5. 1 \in 1..Len(s)
  BY <1>3, <1>4
<1>6. Audited(s[1].action)
  BY <1>2, <1>3, <1>5, HalvesAreAudited
<1> QED BY <1>4, <1>6, Zenon

\* A call that only settles the lease ends none but one that has run out.
LEMMA SettledIsAudited ==
  ASSUME TypeOK, NEW r \in Seq(Entries), trail' = Reaped \o r, lease' = Held,
         lease # NoLease, lease' = NoLease \/ lease'.epoch # lease.epoch
  PROVE  Audited("lease.expired") /\ lease.left = 0
  BY ReapedSays, ReapingIsAudited

\* Every lease that ends is accounted for in the trail, by the call that ends it
\* (_expire_if_due, release, acquire, takeover, pause, claim_handoff).
LeaseEnds == lease # NoLease /\ (lease' = NoLease \/ lease'.epoch # lease.epoch)
Accounted == \/ Audited("lease.expired") /\ lease.left = 0
             \/ Audited("lease.released") /\ lease' = NoLease
             \/ Audited("lease.renewed") /\ lease'.holder.id = lease.holder.id
             \/ Audited("lease.revoked") \/ Audited("handoff.claimed")

LEMMA EndsAreAccounted == TypeOK /\ Next /\ LeaseEnds => Accounted
<1> SUFFICES ASSUME TypeOK, Next, LeaseEnds PROVE Accounted
  OBVIOUS
<1>1. lease \in Lease /\ lease # NoLease /\ (lease' = NoLease \/ lease'.epoch # lease.epoch)
  BY DEF TypeOK, LeaseEnds
<1>2. ASSUME NEW x \in Endings \cup Others, NEW a \in Actor \cup {NoActor}
      PROVE  <<>> \in Seq(Entries) /\ <<Entry(x, a)>> \in Seq(Entries)
  BY EntryMade
<1>3. CASE LeaseOp
  <2>1. CASE AcquireUnattributed \/ TakeoverUnattributed
    BY <1>1, <2>1 DEF AcquireUnattributed, TakeoverUnattributed
  <2>2. ASSUME NEW a \in Clients, AcquireDenied(a) PROVE Accounted
    BY <1>1, <1>2, <2>2, CallersAreActors, SettledIsAudited
       DEF AcquireDenied, Denied, KeepLease, Others, Accounted
  <2>3. ASSUME NEW a \in Clients, NEW ttl \in TTLs, AcquireGranted(a, ttl) PROVE Accounted
    <3>1. a \in Actor /\ lease'.holder = a
      BY <2>3, CallersAreActors DEF AcquireGranted, Grant
    <3>2. CASE lease.left = 0
      BY <1>1, <2>3, <3>1, <3>2, OneEntry DEF AcquireGranted, Accounted, Endings, Others
    <3>3. CASE lease.left # 0
      <4>1. Held = lease
        BY <1>1, <3>3, ReapedSays
      <4>2. trail' = Append(Reaped, Entry("lease.renewed", a)) /\ lease.holder.id = a.id
        BY <1>1, <2>3, <4>1 DEF AcquireGranted
      <4> QED BY <1>1, <3>1, <4>2, OneEntry DEF Accounted, Endings
    <3> QED BY <3>2, <3>3
  <2>4. CASE \E l \in LeaseIds : HeartbeatDenied(l)
    BY <1>1, <1>2, <2>4, SettledIsAudited DEF HeartbeatDenied, Denied, KeepLease, Others, Accounted
  <2>5. CASE \E l \in LeaseIds, ttl \in TTLs : HeartbeatRenewed(l, ttl)
    BY <1>1, <2>5 DEF HeartbeatRenewed, Lease, TTLs
  <2>6. ASSUME NEW a \in Callers, NEW l \in LeaseIds, Release(a, l) PROVE Accounted
    <3>1. lease' = NoLease /\ \E b : trail' = <<Entry("lease.released", b)>>
      BY <1>1, <2>6 DEF Release
    <3>2. \A b : trail' = <<Entry("lease.released", b)>> => Audited("lease.released")
      BY DEF Audited, Entry
    <3> QED BY <3>1, <3>2, Zenon DEF Accounted
  <2>7. ASSUME NEW a \in Clients, NEW force \in BOOLEAN, TakeoverDenied(a, force) PROVE Accounted
    BY <1>1, <1>2, <2>7, CallersAreActors, SettledIsAudited
       DEF TakeoverDenied, Denied, KeepLease, Others, Accounted
  <2>8. ASSUME NEW a \in Clients, NEW force \in BOOLEAN, NEW ttl \in TTLs,
               TakeoverGranted(a, force, ttl)
        PROVE  Accounted
    <3>1. a \in Actor /\ <<Entry("lease.takeover", a)>> \in Seq(Entries)
      BY <1>2, CallersAreActors DEF Others
    <3> QED BY <1>1, <2>8, <3>1, ThenMore DEF TakeoverGranted, Accounted, Endings
  <2> QED BY <1>3, <2>1, <2>2, <2>3, <2>4, <2>5, <2>6, <2>7, <2>8 DEF LeaseOp
<1>4. CASE HandoffOp
  <2>1. ASSUME NEW a \in Callers, NEW l \in LeaseIds, PauseDenied(a, l) PROVE Accounted
    BY <1>1, <1>2, <2>1, SettledIsAudited DEF PauseDenied, Denied, KeepLease, Others, Accounted
  <2>2. ASSUME NEW a \in Callers, NEW l \in LeaseIds, NEW h \in Handoffs, Pause(a, l, h)
        PROVE  Accounted
    <3>1. Who(a) \in Actor
      BY CallersAreActors
    <3>2. <<Entry("session.paused", Who(a)), Entry("handoff.created", Who(a))>> \in Seq(Entries)
      <4> DEFINE p == Entry("session.paused", Who(a))
                 c == Entry("handoff.created", Who(a))
      <4>1. p \in Entries /\ c \in Entries
        BY <3>1, EntryMade DEF Others
      <4> HIDE DEF p, c
      <4>2. <<p, c>> \in Seq(Entries)
        BY <4>1
      <4> QED BY <4>2 DEF p, c
    <3> QED BY <1>1, <2>2, <3>1, <3>2, ThenMore DEF Pause, Accounted, Endings
  <2>3. CASE \E a \in Callers, h \in Handoffs : ClaimRefused(h, a)
    BY <1>1, <2>3 DEF ClaimRefused
  <2>4. ASSUME NEW a \in Callers, NEW h \in Handoffs, ClaimDenied(h, a) PROVE Accounted
    BY <1>1, <1>2, <2>4, SettledIsAudited DEF ClaimDenied, Denied, KeepLease, Others, Accounted
  <2>5. ASSUME NEW a \in Callers, NEW h \in Handoffs, NEW ttl \in TTLs, ClaimHandoff(h, a, ttl)
        PROVE  Accounted
    BY <1>1, <2>5, CallersAreActors, OneEntry DEF ClaimHandoff, Accounted, Endings
  <2>6. CASE \E a \in Callers : Resume(a)
    BY <1>1, <2>6 DEF Resume
  <2> QED BY <1>4, <2>1, <2>2, <2>3, <2>4, <2>5, <2>6 DEF HandoffOp
<1>5. CASE GateOp
  <2>1. ASSUME NEW a \in Callers, NEW l \in LeaseIds, WriteRejected(a, l) PROVE Accounted
    BY <1>1, <1>2, <2>1, CallersAreActors, SettledIsAudited
       DEF WriteRejected, Denied, KeepLease, Others, Accounted
  <2>2. ASSUME NEW a \in Callers, NEW l \in LeaseIds, WriteAccepted(a, l) PROVE Accounted
    <3>1. lease' = Held /\ Attributed(a, l) \in Actor
          /\ trail' = Append(Reaped, Entry("write.accepted", Attributed(a, l)))
      BY <2>2, CallersAreActors DEF WriteAccepted, KeepLease
    <3>2. lease.left = 0
      BY <1>1, <3>1, ReapedSays
    <3> QED BY <1>1, <3>1, <3>2, OneEntry DEF Accounted, Others
  <2>3. CASE \E a \in Callers : AuthRefused(a) \/ NoteAmbient(a)
    BY <1>1, <2>3 DEF AuthRefused, NoteAmbient
  <2> QED BY <1>5, <2>1, <2>2, <2>3 DEF GateOp
<1>6. CASE Tick
  BY <1>1, <1>6 DEF Tick, Lease
<1> QED BY <1>3, <1>4, <1>5, <1>6 DEF Next

\* A grant that ends is accounted for by an entry of the call that ended it.
THEOREM EveryEndAudited == Spec => LeaseEndAudited
<1>1. IInv /\ [Next]_vars => [LeaseEnds => Accounted]_vars
  BY EndsAreAccounted DEF IInv
<1> QED BY <1>1, Invariance, PTL DEF Spec, LeaseEndAudited, LeaseEnds, Accounted

\* What a pause hands over stays handed over (pause, claim_handoff, resume).
THEOREM Handover == Spec => HandoverHolds
  BY OneClaimer, PauseHolds DEF HandoverHolds

-----------------------------------------------------------------------------
(***************************************************************************)
(* SessionAttach: the file lock brackets the claim, and where no owner is  *)
(* killed, stops or dies, the claim has one winner whom every peer reaches,*)
(* though binds and publications fail.                                     *)
(***************************************************************************)

USE SessionAttachAssumption

LEMMA AttachTypedAtFirst == AttachInit => AttachTypeOK
  BY DEF AttachInit, AttachTypeOK, Owner, Places, Claiming

\* Every step keeps the types, and takes and leaves the lock with the claim.
LEMMA AttachStaysTyped == AttachTypeOK /\ [AttachNext]_avars => AttachTypeOK'
<1> SUFFICES ASSUME AttachTypeOK, [AttachNext]_avars PROVE AttachTypeOK'
  OBVIOUS
<1> USE DEF AttachTypeOK, Owner, Places, Claiming
<1>1. ASSUME NEW p \in Procs, Attaches(p) PROVE AttachTypeOK'
  BY <1>1 DEF Attaches, Go
<1>2. ASSUME NEW p \in Procs, Comes(p) PROVE AttachTypeOK'
  <2>1. CASE Looks(p)
    BY <2>1 DEF Looks, Go
  <2>2. CASE Probes(p)
    BY <2>2 DEF Probes, Go
  <2>3. CASE ClearsAdvert(p)
    BY <2>3 DEF ClearsAdvert, Go
  <2>4. CASE ClearsSocket(p)
    BY <2>4 DEF ClearsSocket, CutOff, Go
  <2>5. CASE Joins(p)
    BY <2>5 DEF Joins, Go
  <2>6. QED
    BY <1>2, <2>1, <2>2, <2>3, <2>4, <2>5 DEF Comes
<1>3. ASSUME NEW p \in Procs, Starts(p) PROVE AttachTypeOK'
  <2>1. CASE Boots(p)
    BY <2>1 DEF Boots, Go
  <2>2. CASE Locks(p)
    BY <2>2 DEF Locks, Go
  <2>3. CASE Rechecks(p)
    BY <2>3 DEF Rechecks, LockAfter, Answers, Go
  <2>4. CASE Binds(p)
    BY <2>4 DEF Binds, CutOff, Go
  <2>5. CASE Publishes(p)
    BY <2>5 DEF Publishes, Go
  <2>6. QED
    BY <1>3, <2>1, <2>2, <2>3, <2>4, <2>5 DEF Starts
<1>4. ASSUME NEW p \in Procs, Ends(p) PROVE AttachTypeOK'
  BY <1>4 DEF Ends, Closed, CleansUp, Go
<1>5. ASSUME NEW p \in Procs, Detaches(p) \/ Stops(p) \/ Reattaches(p) PROVE AttachTypeOK'
  BY <1>5 DEF Detaches, Stops, Reattaches, Go
<1>6. ASSUME NEW p \in Procs, Crashes(p) PROVE AttachTypeOK'
  BY <1>6 DEF Crashes
<1>7. CASE UNCHANGED avars
  BY <1>7 DEF avars
<1>8. QED
  BY <1>1, <1>2, <1>3, <1>4, <1>5, <1>6, <1>7 DEF AttachNext, Rests

\* The types hold, and the file lock is held from `locked' to the advert's
\* publication, whatever stops or dies.
THEOREM AttachTyped == AttachSpec => []AttachTypeOK
  BY AttachTypedAtFirst, AttachStaysTyped, PTL DEF AttachSpec

-----------------------------------------------------------------------------
\* Where nobody ends nobody clears anything: an advert names a serving owner, and
\* until there is one nobody has seen one.
Calm ==
  /\ \A p \in Procs :
       pc[p] \in {"out", "look", "probe", "join", "boot", "wait", "check", "bind",
                  "publish", "serving", "peer", "failed"}
  /\ \A p \in Procs : pc[p] \in {"probe", "join", "peer"} => advert # NoProc /\ seen[p] = advert
  /\ \A p \in Procs : pc[p] \in {"bind", "publish"} => advert = NoProc
  /\ \A p \in Procs : pc[p] = "publish" => sock = p /\ p \in listening
  /\ advert # NoProc =>
       /\ sock = advert /\ advert \in listening
       /\ pc[advert] = "serving"
       /\ announced = {advert}
  /\ advert = NoProc => announced = {}

LEMMA InitCalm == NobodyEnds /\ AttachInit => Calm
  BY DEF AttachInit, Calm, NobodyEnds

LEMMA NextCalm ==
  NobodyEnds /\ AttachTypeOK /\ Calm /\ [AttachNext]_avars => Calm'
<1> SUFFICES ASSUME NobodyEnds, AttachTypeOK, Calm, [AttachNext]_avars PROVE Calm'
  OBVIOUS
<1> USE DEF AttachTypeOK, Calm, Owner, NobodyEnds
<1>1. ASSUME NEW p \in Procs, Attaches(p) PROVE Calm'
  BY <1>1 DEF Attaches, Go
<1>2. ASSUME NEW p \in Procs, Comes(p) PROVE Calm'
  <2>1. CASE Looks(p)
    BY <2>1 DEF Looks, Go
  <2>2. CASE Probes(p)
    BY <2>2 DEF Probes, Answers, Go
  <2>3. CASE Joins(p)
    BY <2>3 DEF Joins, Go
  <2>4. ~ClearsAdvert(p) /\ ~ClearsSocket(p)
    BY DEF ClearsAdvert, ClearsSocket, Go
  <2>5. QED
    BY <1>2, <2>1, <2>2, <2>3, <2>4 DEF Comes
<1>3. ASSUME NEW p \in Procs, Starts(p) PROVE Calm'
  <2>1. CASE Boots(p)
    BY <2>1 DEF Boots, Go
  <2>2. CASE Locks(p)
    BY <2>2 DEF Locks, Go
  <2>3. CASE Rechecks(p)
    BY <2>3 DEF Rechecks, Answers, Go
  <2>4. CASE Binds(p)
    <3>1. \A q \in Procs : pc[q] = "publish" => q = p
      BY <2>4 DEF Binds, Go, Claiming
    <3>2. QED
      BY <2>4, <3>1 DEF Binds, Go
  <2>5. CASE Publishes(p)
    <3>1. \A q \in Procs : pc[q] \in {"bind", "publish"} => q = p
      BY <2>5 DEF Publishes, Go, Claiming
    <3>2. QED
      BY <2>5, <3>1 DEF Publishes, Go
  <2>6. QED
    BY <1>3, <2>1, <2>2, <2>3, <2>4, <2>5 DEF Starts
<1>4. ASSUME NEW p \in Procs PROVE ~Ends(p) /\ ~Detaches(p) /\ ~Stops(p) /\ ~Crashes(p)
  BY <1>4 DEF Ends, Closed, CleansUp, Detaches, Stops, Crashes, Go
<1>5. ASSUME NEW p \in Procs, Reattaches(p) PROVE Calm'
  BY <1>5 DEF Reattaches, Go
<1>6. CASE UNCHANGED avars
  BY <1>6 DEF avars
<1>7. QED
  BY <1>1, <1>2, <1>3, <1>4, <1>5, <1>6 DEF AttachNext, Rests

\* What may happen is settled once for all.
LEMMA SettledFaults == [AttachNext]_avars => faults' = faults
  BY DEF AttachNext, avars, Attaches, Comes, Looks, Probes, ClearsAdvert, ClearsSocket, Joins, Starts,
         Boots, Locks, Rechecks, Binds, Publishes, Ends, Closed, CleansUp, Detaches, Stops,
         Crashes, Reattaches, Rests

LEMMA CalmInvariance == AttachSpec => [](NobodyEnds => Calm)
<1>1. AttachInit => AttachTypeOK /\ (NobodyEnds => Calm)
  BY AttachTypedAtFirst, InitCalm
<1>2. AttachTypeOK /\ (NobodyEnds => Calm) /\ [AttachNext]_avars => (AttachTypeOK /\ (NobodyEnds => Calm))'
  BY AttachStaysTyped, NextCalm, SettledFaults DEF NobodyEnds
<1>3. QED
  BY <1>1, <1>2, PTL DEF AttachSpec

\* Where no owner was killed and none ends, at most one process serves as the
\* advertised owner, however many attach at once (AttachServer.start).
THEOREM OneWinner == AttachSpec => []OneAnnounced
<1>1. (NobodyEnds => Calm) => OneAnnounced
  BY DEF Calm, OneAnnounced, NobodyEnds
<1>2. QED
  BY <1>1, CalmInvariance, PTL

\* Under the same assumptions the owner is found by its advert and its socket,
\* and every peer (run_attach_client) has that owner.
THEOREM OwnerFound == AttachSpec => []PeersReachOwner
<1>1. (NobodyEnds => Calm) => PeersReachOwner
  BY DEF Calm, NobodyEnds, PeersReachOwner, OwnerReachable, PeersHaveAnOwner
<1>2. QED
  BY <1>1, CalmInvariance, PTL
=============================================================================
