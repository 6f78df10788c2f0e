----------------------------- MODULE LiveProviders -----------------------------
(***************************************************************************)
(* The providers of a running session.  They are a mapping in order; the   *)
(* one of lowest priority serves, the first of several.  A provider may be *)
(* mounted live (kernel/bundle_compose.py, called by kernel/runtime.py) by *)
(* a module that puts itself where it likes, and must not displace any; a  *)
(* change of model (kernel/session_ops.py) makes its provider serve, and   *)
(* retargets the routing of delegates in several places or in none         *)
(* (kernel/model_routing.py).  The session's end undoes what was mounted.  *)
(*                                                                         *)
(* Modules and the coordinator are not part of the repository: a module    *)
(* may mount nothing, several providers, over another, or fail after       *)
(* mounting, and its cleanup removes the name of its family.  Only one     *)
(* load runs at a time, and no change of model beside one.                 *)
(***************************************************************************)
EXTENDS Integers, Sequences, FiniteSets, SequencesExt

CONSTANTS
  Slots,        \* names in the mapping
  AtBoot,       \* the names mounted at the session's start, in order
  MaxLoads,     \* bound on providers mounted live
  MaxSwitches   \* bound on changes of model

ProvidersAssumption ==
  /\ IsFiniteSet(Slots) /\ AtBoot \in Seq(Slots) /\ IsInjective(AtBoot) /\ AtBoot # << >>
  /\ MaxLoads \in Nat /\ MaxSwitches \in Nat

\* What routes delegates, in the order it is retargeted; what the client is shown comes last.
Surfaces == <<"resolver", "agents", "hook", "routing">>
Idle == 100

VARIABLES
  mapping,   \* the providers in order: name and instance
  rank,      \* priority of each instance
  rigid,     \* instances whose priority cannot be written
  handles,   \* what the session's end undoes, in order: name, instance, family
  inherited, \* names that future children mount
  known,     \* names in the ledger of live modules
  loading,   \* the load that runs
  serves,    \* the instance that was chosen to serve, by the start or by a change of model
  routed,    \* surface -> the name whose matrix it has
  shown,     \* the name of the matrix the client is shown as live
  marred,    \* the coordinator failed to mount what was there before
  closing,   \* the session ends
  loads, switches
vars == <<mapping, rank, rigid, handles, inherited, known, loading, serves, routed, shown,
          marred, closing, loads, switches>>

NoLoad == [at |-> "none", name |-> "none", family |-> "none", before |-> << >>, new |-> 0]

-----------------------------------------------------------------------------
NamesOf(m) == {m[i].name : i \in DOMAIN m}
InstancesOf(m) == {m[i].is : i \in DOMAIN m}
At(m, name) == m[CHOOSE i \in DOMAIN m : m[i].name = name].is
Without(m, name) == SelectSeq(m, LAMBDA p : p.name # name)
\* mount over a name that is taken replaces the instance where it is.
Mounted(m, name, is) ==
  IF name \in NamesOf(m)
  THEN [i \in DOMAIN m |-> IF m[i].name = name THEN [m[i] EXCEPT !.is = is] ELSE m[i]]
  ELSE Append(m, [name |-> name, is |-> is])
\* _primary_provider and the orchestrator's choice: lowest priority, then first.
Serving(m) ==
  m[CHOOSE i \in DOMAIN m : \A j \in DOMAIN m :
      rank[m[i].is] < rank[m[j].is] \/ (rank[m[i].is] = rank[m[j].is] /\ i <= j)].is

\* _restore_provider_mapping: all are unmounted and mounted again in the expected order; what
\* cannot be mounted is missing.
Rebuilt(expected, lost) == SelectSeq(expected, LAMBDA p : p.name \notin lost)

Instances == 1..(Len(AtBoot) + MaxLoads)
Init ==
  /\ mapping = [i \in DOMAIN AtBoot |-> [name |-> AtBoot[i], is |-> i]]
  /\ \E ranks \in [DOMAIN AtBoot -> {1, Idle}] :
       rank = [i \in Instances |-> IF i \in DOMAIN AtBoot THEN ranks[i] ELSE Idle]
  /\ rigid \in SUBSET DOMAIN AtBoot
  /\ handles = << >>
  /\ inherited = ToSet(AtBoot) /\ known = ToSet(AtBoot)
  /\ loading = NoLoad
  /\ serves = Serving(mapping)
  /\ routed = [s \in DOMAIN Surfaces |-> "boot"] /\ shown = "none"
  /\ marred = FALSE /\ closing = FALSE
  /\ loads = 0 /\ switches = 0

\* What the coordinator fails to mount: as a rule nothing.
Losses == {{}} \cup {{n} : n \in Slots}
Choice == <<serves, routed, shown, switches>>

-----------------------------------------------------------------------------
(***************************************************************************)
(* Mounting a provider live.                                               *)
(***************************************************************************)

\* Known identities are left alone, and a name that is taken is refused.
Begin(name, family) ==
  /\ loading = NoLoad /\ ~closing /\ loads < MaxLoads /\ name \notin known
  /\ loads' = loads + 1
  /\ loading' = IF name \in NamesOf(mapping) THEN NoLoad
                ELSE [at |-> "mount", name |-> name, family |-> family, before |-> mapping,
                      new |-> Len(AtBoot) + loads + 1]
  /\ UNCHANGED <<mapping, rank, rigid, handles, inherited, known, marred, closing, Choice>>

\* _mount_one: the module mounts itself under the name of its family, under the one it was
\* given, under both or nowhere, and returns or raises.
Mount ==
  \E slots \in SUBSET {loading.name, loading.family}, raises, stiff \in BOOLEAN,
     priority \in {0, Idle} :
    /\ loading.at = "mount"
    /\ mapping' = FoldSet(LAMBDA s, m : Mounted(m, s, loading.new), mapping, slots)
    /\ rank' = [rank EXCEPT ![loading.new] = priority]
    /\ rigid' = IF stiff THEN rigid \cup {loading.new} ELSE rigid
    /\ loading' = [loading EXCEPT !.at = IF raises \/ Cardinality(slots) # 1 THEN "undo" ELSE "place"]
    /\ UNCHANGED <<handles, inherited, known, marred, closing, loads, Choice>>

\* Mutant: a priority the module brought along is kept.
AsBrought == rank[loading.new]
\* Every earlier name gets its instance back, and the new one comes last, behind all others.
Behind == 1 + Max({rank[loading.before[i].is] : i \in DOMAIN loading.before})
Expected == Append(loading.before, [name |-> loading.name, is |-> loading.new])
Place ==
  \E lost \in Losses :
    /\ loading.at = "place"
    /\ mapping' = Rebuilt(Expected, lost)
    /\ rank' = IF loading.new \in rigid THEN rank ELSE [rank EXCEPT ![loading.new] = Behind]
    /\ loading' = [loading EXCEPT
         !.at = IF mapping' # Expected \/ rank'[loading.new] # Behind THEN "undo" ELSE "inherit"]
    /\ UNCHANGED <<rigid, handles, inherited, known, marred, closing, loads, Choice>>

\* _rollback_provider_mount: the module's cleanup, if it returned one, then the mapping as it was.
Undo ==
  \E lost \in Losses :
    /\ loading.at = "undo"
    /\ mapping' = Rebuilt(loading.before, lost)
    /\ marred' = (marred \/ mapping' # loading.before)
    /\ loading' = NoLoad
    /\ UNCHANGED <<rank, rigid, handles, inherited, known, closing, loads, Choice>>

\* A provider's cleanup: its own name goes if it is still its own, and whatever the module's
\* cleanup takes away besides is put back.
Kept(h) == IF h.name \in NamesOf(mapping) /\ At(mapping, h.name) = h.is
           THEN Without(mapping, h.name) ELSE mapping
Undone(h, lost) == Rebuilt(Kept(h), lost)

\* _inherit_module_config: future children mount it too, or it goes again.
Handle == [name |-> loading.name, is |-> loading.new]
Inherit ==
  /\ loading.at = "inherit"
  /\ \/ /\ inherited' = inherited \cup {loading.name}
        /\ handles' = Append(handles, Handle)
        /\ known' = known \cup {loading.name}
        /\ UNCHANGED <<mapping, marred>>
     \/ \E lost \in Losses :
          /\ mapping' = Undone(Handle, lost)
          /\ marred' = (marred \/ mapping' # Kept(Handle))
          /\ UNCHANGED <<inherited, handles, known>>
  /\ loading' = NoLoad
  /\ UNCHANGED <<rank, rigid, closing, loads, Choice>>

-----------------------------------------------------------------------------
(***************************************************************************)
(* Changing the model.                                                     *)
(***************************************************************************)

\* _promote_to_serving: already strictly first, or one below all others; who cannot be moved
\* keeps everything as it was.
Least(is) == Min({rank[p] : p \in InstancesOf(mapping) \ {is}} \cup {Idle + MaxLoads + 1})
Promotes(is) == rank[is] < Least(is) \/ is \notin rigid \/ InstancesOf(mapping) = {is}
Promoted(is) ==
  IF rank[is] < Least(is) \/ InstancesOf(mapping) = {is} THEN rank
  ELSE [rank EXCEPT ![is] = Least(is) - 1]

\* activate_live_matrix: all surfaces and what is shown, or, when any of them fails, all as before.
Retargeted(upto, to) == [s \in DOMAIN Surfaces |-> IF s <= upto THEN to ELSE routed[s]]
\* Mutant: the agents' preferences are not put back.
AgentsStay(changed) == [s \in DOMAIN Surfaces |-> IF Surfaces[s] = "agents" THEN changed[s] ELSE routed[s]]
PutBack(changed) == [s \in DOMAIN Surfaces |-> routed[s]]
Retarget(to) ==
  \/ routed' = Retargeted(Len(Surfaces), to) /\ shown' = to
  \/ \E upto \in 0..Len(Surfaces) :
       /\ routed' = PutBack(Retargeted(upto, to))
       /\ shown' = "none"

Switch(name) ==
  /\ loading = NoLoad /\ ~closing /\ switches < MaxSwitches /\ name \in NamesOf(mapping)
  /\ switches' = switches + 1
  /\ LET is == At(mapping, name)
     IN IF Promotes(is)
        THEN rank' = Promoted(is) /\ serves' = is /\ Retarget(name)
        ELSE UNCHANGED <<rank, serves, routed, shown>>
  /\ UNCHANGED <<mapping, rigid, handles, inherited, known, loading, marred, closing, loads>>

-----------------------------------------------------------------------------
\* InitializedSession.cleanup: what was mounted live is undone in reverse.
Close ==
  /\ loading = NoLoad /\ ~closing /\ closing' = TRUE
  /\ UNCHANGED <<mapping, rank, rigid, handles, inherited, known, loading, marred, loads, Choice>>
Unwind ==
  /\ closing /\ handles # << >>
  /\ \E lost \in Losses :
       /\ mapping' = Undone(Last(handles), lost)
       /\ marred' = (marred \/ mapping' # Kept(Last(handles)))
  /\ inherited' = inherited \ {Last(handles).name}
  /\ handles' = Front(handles)
  /\ UNCHANGED <<rank, rigid, known, loading, closing, loads, Choice>>

Next ==
  \/ \E name, family \in Slots : Begin(name, family)
  \/ Mount \/ Place \/ Undo \/ Inherit \/ Close \/ Unwind
  \/ \E name \in Slots : Switch(name)

Spec == Init /\ [][Next]_vars

-----------------------------------------------------------------------------
(***************************************************************************)
(* Properties.                                                             *)
(***************************************************************************)

AtRest == loading = NoLoad /\ ~marred
AtStart == [i \in DOMAIN AtBoot |-> [name |-> AtBoot[i], is |-> i]]

\* Only a change of model changes who serves the next request: no provider mounted live, none
\* whose mounting failed, and no order that came out differently.
ServingIsChosen == AtRest /\ ~closing => Serving(mapping) = serves
\* Nothing is mounted that the session's end would not undo, nothing was displaced, and future
\* children mount the same.
NothingStray ==
  AtRest => /\ mapping = AtStart \o handles
            /\ inherited = NamesOf(mapping)
\* Delegates are routed as the client is shown, by the provider that serves, and never half so.
RoutingAgrees ==
  /\ \A s, t \in DOMAIN Surfaces : routed[s] = routed[t]
  /\ shown # "none" =>
       /\ routed[1] = shown
       /\ AtRest /\ ~closing => At(mapping, shown) = serves

ProvidersSound == ServingIsChosen /\ NothingStray /\ RoutingAgrees
=============================================================================
