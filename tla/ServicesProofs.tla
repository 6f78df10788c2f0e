---------------------------- MODULE ServicesProofs ----------------------------
(***************************************************************************)
(* What PermissionsProofs shows of the parts holds of every behaviour of   *)
(* SessionServices, which is a behaviour of one of them.                   *)
(***************************************************************************)
EXTENDS SessionServices, PermissionsProofs

\* Of all the rows behind one handoff at most one is ever reported confirmed, whoever amends,
\* confirms, cancels and expires at once, and whatever is lost on the way; and no session is
\* left paused with nothing that could lift the pause but by the causes that NotWedged names:
\* a proposal never written, a closed one whose session was not resumed, a file overwritten
\* unread (InterpretationDesk.confirm, cancel, expire_due).
THEOREM DeskStaysSound == Spec => []DeskSound
<1> DEFINE Inv == part = "desk" => DeskInv
<1>1. Init => Inv
  BY DeskInit DEF Init
<1>2. Inv /\ [Next]_vars => Inv'
  <2> SUFFICES ASSUME Inv, [Next]_vars, part' = "desk" PROVE DeskInv'
    OBVIOUS
  <2>1. CASE Next
    <3>1. part = "desk" /\ Desk!Next
      BY <2>1 DEF Next
    <3> QED BY <3>1, DeskNext
  <2>2. CASE UNCHANGED vars
    <3>1. part = "desk" /\ UNCHANGED <<v1, v2, v3, v4, v5, v6, v7>>
      BY <2>2 DEF vars
    <3> QED BY <3>1, DeskSame
  <2> QED BY <2>1, <2>2
<1>3. Inv => DeskSound
  BY DeskPromises DEF DeskSound
<1> QED BY <1>1, <1>2, <1>3, PTL DEF Spec

\* What was issued and what was revoked stays so, and what was said of it is true: whoever
\* began after a revocation had returned gets nothing by the row, an issued row stays on file,
\* no denial is a lie, a connection is trusted without a credential only where no token had been
\* issued, and whatever a source gave is on the trail.  Only updates that crossed and files that
\* were damaged except from it (kernel/session_authz.py, kernel/ambient/grants.py and sources.py).
THEOREM AccessStaysSound == Spec => []AccessSound
<1> DEFINE Inv == part = "access" => AccessInv
<1>1. Init => Inv
  BY AccessInit DEF Init
<1>2. Inv /\ [Next]_vars => Inv'
  <2> SUFFICES ASSUME Inv, [Next]_vars, part' = "access" PROVE AccessInv'
    OBVIOUS
  <2>1. CASE Next
    <3>1. part = "access" /\ Grant!Next
      BY <2>1 DEF Next
    <3> QED BY <3>1, AccessNext
  <2>2. CASE UNCHANGED vars
    <3>1. part = "access" /\ UNCHANGED <<v1, v3, v5, v6, v8, v9, v10, v11, v12, v13>>
      BY <2>2 DEF vars
    <3> QED BY <3>1, AccessRests
  <2> QED BY <2>1, <2>2
<1>3. Inv => AccessSound
  BY AccessPromises DEF AccessSound
<1> QED BY <1>1, <1>2, <1>3, PTL DEF Spec

\* A tool call does not run while a decision on what it depends on is pending, unless that was
\* parked while the call was already being judged, and every denial that completes a streak or
\* the total brings a review or finds no room for one (kernel/governance_hook.py).  A recipe has
\* one executor, none waits without somebody asked or told, and an answer goes to the recipe it
\* was asked about, unless gates were mixed or a turn got in between (kernel/recipes.py).
THEOREM GovernanceStaysSound == Spec => []GovernanceSound
<1> DEFINE Inv == (part = "trust" => TrustInv) /\ (part = "gates" => GatesInv)
<1>1. Init => Inv
  BY TrustInit, GatesInit DEF Init
<1>2. Inv /\ [Next]_vars => Inv'
  <2> SUFFICES ASSUME Inv, [Next]_vars
               PROVE  (part' = "trust" => TrustInv') /\ (part' = "gates" => GatesInv')
    OBVIOUS
  <2>1. CASE Next
    <3>1. ASSUME part' = "trust" PROVE TrustInv'
      <4>1. part = "trust" /\ Trust!Next
        BY <2>1, <3>1 DEF Next
      <4> QED BY <4>1, TrustNext
    <3>2. ASSUME part' = "gates" PROVE GatesInv'
      <4>1. part = "gates" /\ Gate!Next
        BY <2>1, <3>2 DEF Next
      <4> QED BY <4>1, GatesNext
    <3> QED BY <3>1, <3>2
  <2>2. CASE UNCHANGED vars
    <3>1. part' = part /\ UNCHANGED <<v1, v2, v3, v4, v5, v6, v7, v8, v9, v10, v11>>
      BY <2>2 DEF vars
    <3>2. ASSUME part' = "trust" PROVE TrustInv'
      BY <3>1, <3>2, TrustSame
    <3>3. ASSUME part' = "gates" PROVE GatesInv'
      BY <3>1, <3>3, GatesRest
    <3> QED BY <3>2, <3>3
  <2> QED BY <2>1, <2>2
<1>3. Inv => GovernanceSound
  BY TrustPromises, GatesPromise DEF GovernanceSound
<1> QED BY <1>1, <1>2, <1>3, PTL DEF Spec

\* A session's turns run alone, a cancellation stops the turn it was meant for, a turn cut short
\* gets its marker, what is opened is closed, and no goal stays armed whose turn was refused; only
\* calls that slipped through while a submit awaited the attention store, or that overlapped,
\* except from it (submit, interrupt and manage_goal of kernel/runtime.py).  A child executes
\* governed, inside its parent's turn and within an interrupt's reach, leaves nothing behind, and
\* hears its steers in order (kernel/spawner.py, LaneSteeringQueue of model/queues.py).
THEOREM TurnsStaySound == Spec => []TurnSound
<1> DEFINE Inv == (part = "turn" => TurnInv) /\ (part = "child" => ChildInv)
<1>1. Init => Inv
  BY TurnInit, ChildInit DEF Init
<1>2. Inv /\ [Next]_vars => Inv'
  <2> SUFFICES ASSUME Inv, [Next]_vars
               PROVE  (part' = "turn" => TurnInv') /\ (part' = "child" => ChildInv')
    OBVIOUS
  <2>1. CASE Next
    <3>1. ASSUME part' = "turn" PROVE TurnInv'
      <4>1. part = "turn" /\ Turn!Next
        BY <2>1, <3>1 DEF Next
      <4> QED BY <4>1, TurnNext
    <3>2. ASSUME part' = "child" PROVE ChildInv'
      <4>1. part = "child" /\ Child!Next
        BY <2>1, <3>2 DEF Next
      <4> QED BY <4>1, ChildNext
    <3> QED BY <3>1, <3>2
  <2>2. CASE UNCHANGED vars
    <3>1. part' = part /\ UNCHANGED Turn!vars /\ UNCHANGED Child!vars
      BY <2>2 DEF vars, Turn!vars, Turn!flags, Turn!record, Turn!bounds, Turn!ghosts,
                  Child!vars, Child!childVars, Child!steerVars
    <3>2. ASSUME part' = "turn" PROVE TurnInv'
      BY <3>1, <3>2, TurnRests
    <3>3. ASSUME part' = "child" PROVE ChildInv'
      BY <3>1, <3>3, ChildRests
    <3> QED BY <3>2, <3>3
  <2> QED BY <2>1, <2>2
<1>3. Inv => TurnSound
  BY TurnPromises, ChildPromises DEF TurnSound
<1> QED BY <1>1, <1>2, <1>3, PTL DEF Spec
===============================================================================
