-------------------------------- MODULE Lanes --------------------------------
(***************************************************************************)
(* The lanes of a session's sub-agents: the registry (model/lanes.py) and  *)
(* the tracker that fills it from hook events                              *)
(* (kernel/trackers/task_status.py).  The events of children that run side *)
(* by side come in any order: a start before the spawn it belongs to, a    *)
(* grandchild before its parent, a completion first of all.  Governance    *)
(* may redact the leading part of an id, so that a child has two names:    *)
(* its session id, and a mask that other children may share.  The client   *)
(* binds masked lanes to session ids, and pins the tail to a lane.         *)
(*                                                                         *)
(* A lane is live or terminal; how it is drawn, what it does and what it   *)
(* costs is left out.  Everything runs on one loop: an event is a step.    *)
(***************************************************************************)
EXTENDS Naturals, Sequences, FiniteSets, Functions

CONSTANTS
  Root,       \* the session the tracker belongs to
  Kids,       \* sub-sessions, by their ids
  ParentOf,   \* the session that spawned each
  Masks, MaskOf, \* redacted ids, and the one of each sub-session
  NoId,
  Scripts     \* bounds of a behaviour: the sub-sessions that run, whether ids are redacted, events

Sessions == Kids \cup {Root}
Ids == Sessions \cup Masks
NamesOf(s) == IF s = Root THEN {Root} ELSE {s, MaskOf[s]}
Above[k \in Kids] == IF ParentOf[k] \in Kids THEN {ParentOf[k]} \cup Above[ParentOf[k]] ELSE {}
\* Nobody shares its mask with a session above it: their lanes would be each other's parents,
\* and _patch_child_depths would not come to an end.
LanesAssumption ==
  /\ ParentOf \in [Kids -> Sessions] /\ MaskOf \in [Kids -> Masks]
  /\ Root \notin Kids /\ Masks \cap Sessions = {} /\ NoId \notin Ids
  /\ \E rank \in [Sessions -> 0 .. Cardinality(Kids)] :
       \A k \in Kids : rank[ParentOf[k]] < rank[k]
  /\ \A k \in Kids : MaskOf[k] \notin {MaskOf[j] : j \in Above[k]}
  /\ Scripts \subseteq [who : SUBSET Kids, masked : BOOLEAN, resumes : Nat, binds : Nat, pins : Nat]

VARIABLES
  lanes,     \* _records: id -> the parent it names, the depth, and whether it is live
  order,     \* _order: ids as they are listed
  aliases,   \* _aliases: id -> id
  pending,   \* _pending_sessions, in order
  focus,     \* _tail_focus
  recent,    \* _tail_recent
  heard,     \* sub-session -> the events that came
  over,      \* sub-session -> whether the last word is that it ended
  script, spent, \* bounds, and what was spent of them
  pinned,    \* ghost: the place of the lane that was chosen
  odd        \* ghost: what happened that the code has no answer to
vars == <<lanes, order, aliases, pending, focus, recent, heard, over, script, spent, pinned, odd>>

-----------------------------------------------------------------------------
(***************************************************************************)
(* The registry, as a record of its four fields.                           *)
(***************************************************************************)

Registry == [lanes |-> lanes, order |-> order, aliases |-> aliases, pending |-> pending]
Becomes(r) ==
  lanes' = r.lanes /\ order' = r.order /\ aliases' = r.aliases /\ pending' = r.pending

\* _compatible_session_ids: a session and its mask.
Compatible(x, y) == (x \in Kids /\ y = MaskOf[x]) \/ (y \in Kids /\ x = MaskOf[y])
\* _resolve_id: the name itself, what it stands for, or the only lane it may be.
Resolve(r, id, parent) ==
  LET alike == {k \in DOMAIN r.lanes : Compatible(k, id) /\ parent \in {NoId, r.lanes[k].parent}}
  IN IF id \in DOMAIN r.lanes THEN id
     ELSE IF id \in DOMAIN r.aliases /\ r.aliases[id] \in DOMAIN r.lanes THEN r.aliases[id]
     ELSE IF Cardinality(alike) = 1 THEN CHOOSE k \in alike : TRUE ELSE NoId

\* _patch_child_depths: what hangs below a lane, as far down as it changes.
Patched(r, p) ==
  LET was == r.lanes
      depth[k \in DOMAIN was] ==
        LET above == was[k].parent
        IN IF above \in DOMAIN was /\ k \in Range(r.order)
              /\ (above = p \/ depth[above] # was[above].depth)
           THEN depth[above] + 1 ELSE was[k].depth
  IN [r EXCEPT !.lanes = [k \in DOMAIN was |-> [was[k] EXCEPT !.depth = depth[k]]]]

\* _rekey: the lane moves to its session's id, and whoever named the old one follows.
Rekeyed(r, old, new, parent) ==
  LET moved == [r.lanes[old] EXCEPT !.parent = IF parent = NoId THEN @ ELSE parent]
      Follows(lane) == IF lane.parent = old THEN [lane EXCEPT !.parent = new] ELSE lane
      kept == (DOMAIN r.lanes \ {old}) \cup {new}
  IN Patched([r EXCEPT
       !.lanes = [k \in kept |-> Follows(IF k = new THEN moved ELSE r.lanes[k])],
       !.order = [i \in DOMAIN @ |-> IF @[i] = old THEN new ELSE @[i]],
       !.aliases = [x \in DOMAIN @ \cup {old} |-> IF x = old \/ @[x] = old THEN new ELSE @[x]]], new)

\* bind_session: a session's id for the lane that was opened under its mask.
Waits(r, id) == \E i \in DOMAIN r.pending : r.pending[i].id = id
NotWaiting(r, id) == [r EXCEPT !.pending = SelectSeq(@, LAMBDA p : p.id # id)]
Bound(r, id, parent) ==
  LET key == Resolve(r, id, parent)
      s == NotWaiting(r, id)
      Entry == [id |-> id, parent |-> parent]
  IN IF key = NoId
     THEN [r EXCEPT !.pending = IF Waits(r, id) THEN [i \in DOMAIN @ |-> IF @[i].id = id THEN Entry ELSE @[i]]
                                ELSE Append(@, Entry)]
     ELSE IF key = id THEN s
     ELSE IF key \notin Masks \/ id \in Masks
     THEN [s EXCEPT !.aliases = [x \in DOMAIN @ \cup {id} |-> IF x = id THEN key ELSE @[x]]]
     ELSE Rekeyed(s, key, id, parent)

\* register, of an id nobody knows; the first session that waits for it is bound.
Opened(r, id, parent) ==
  LET lane == [parent |-> parent, live |-> TRUE,
               depth |-> IF parent \in DOMAIN r.lanes THEN r.lanes[parent].depth + 1 ELSE 1]
      s == Patched([r EXCEPT !.lanes = [k \in DOMAIN @ \cup {id} |-> IF k = id THEN lane ELSE @[k]],
                             !.order = Append(@, id)], id)
      Fits(i) == LET p == s.pending[i] IN /\ Compatible(id, p.id) /\ p.parent \in {NoId, parent}
                                          /\ Resolve(s, p.id, p.parent) # NoId
      first == {i \in DOMAIN s.pending : Fits(i) /\ \A j \in 1 .. i - 1 : ~Fits(j)}
  IN IF first = {} THEN s
     ELSE LET p == s.pending[CHOOSE i \in first : TRUE] IN Bound(s, p.id, p.parent)
\* register: idempotent; a lane that ended is opened again, under the name that is given now.
Registered(r, id, parent, reopen) ==
  LET key == Resolve(r, id, NoId)
  IN IF key = NoId THEN Opened(r, id, parent)
     ELSE IF ~reopen \/ r.lanes[key].live THEN r
     ELSE [r EXCEPT !.lanes = [k \in DOMAIN @ \cup {id} |->
                                 IF k = id THEN [r.lanes[key] EXCEPT !.live = TRUE] ELSE @[k]]]
\* complete.
Settled(r, id) ==
  LET key == Resolve(r, id, NoId)
  IN IF key = NoId THEN r ELSE [r EXCEPT !.lanes[key].live = FALSE]

-----------------------------------------------------------------------------
(***************************************************************************)
(* The tracker.                                                            *)
(***************************************************************************)

Init ==
  /\ script \in Scripts
  /\ lanes = << >> /\ order = << >> /\ aliases = << >> /\ pending = << >>
  /\ focus = NoId /\ recent = NoId
  /\ heard = [k \in Kids |-> {}] /\ over = [k \in Kids |-> FALSE]
  /\ spent = [resumes |-> 0, binds |-> 0, pins |-> 0]
  /\ pinned = 0 /\ odd = {}

Spend(what) == spent[what] < script[what] /\ spent' = [spent EXCEPT ![what] = @ + 1]
\* Each event comes once; a session that was resumed ends once more.
News(k, event) ==
  /\ k \in script.who /\ event \notin heard[k]
  /\ heard' = [heard EXCEPT ![k] = @ \cup {event}]
\* A parent may be named by its mask.
Named(under) == IF under \in Masks THEN odd \cup {"masked"} ELSE odd

Called(s) == IF script.masked THEN NamesOf(s) ELSE {s}

\* task:agent_spawned.
Spawned(k, id, under) ==
  /\ News(k, "spawned")
  /\ Becomes(Registered(Registry, id, under, FALSE))
  /\ odd' = Named(under)
  /\ UNCHANGED <<focus, recent, over, script, spent, pinned>>
\* task:agent_completed, which may be the first to come.
Completed(k, id, under) ==
  /\ News(k, "completed")
  /\ Becomes(Settled(IF Resolve(Registry, id, NoId) = NoId THEN Registered(Registry, id, under, FALSE)
                     ELSE Registry, id))
  /\ over' = [over EXCEPT ![k] = TRUE]
  /\ odd' = Named(under)
  /\ UNCHANGED <<focus, recent, script, spent, pinned>>
\* delegate:agent_resumed names the session, whatever its lane is called.
Resumed(k) ==
  /\ k \in script.who /\ Spend("resumes")
  /\ Becomes(Registered(Registry, k, ParentOf[k], TRUE))
  /\ heard' = [heard EXCEPT ![k] = (@ \ {"completed", "ended"}) \cup {"resumed"}]
  /\ over' = [over EXCEPT ![k] = FALSE]
  /\ LET key == Resolve(Registry, k, NoId)
     IN odd' = IF key \in {NoId, k} \/ lanes[key].live THEN odd ELSE odd \cup {"reopened"}
  /\ UNCHANGED <<focus, recent, script, pinned>>
\* session:start.
Started(k) ==
  /\ News(k, "started")
  /\ Becomes(Registered(Registry, k, ParentOf[k], FALSE))
  /\ UNCHANGED <<focus, recent, over, script, spent, pinned, odd>>
\* session:end; without a lane it says nothing.
Ended(k) ==
  /\ News(k, "ended")
  /\ Becomes(Settled(Registry, k))
  /\ over' = [over EXCEPT ![k] = @ \/ Resolve(Registry, k, NoId) # NoId]
  /\ UNCHANGED <<focus, recent, script, spent, pinned, odd>>

-----------------------------------------------------------------------------
(***************************************************************************)
(* The client.                                                             *)
(***************************************************************************)

\* Any event of a child may bind it; some do not name the parent.
Binds(k, parent) ==
  /\ k \in script.who /\ Spend("binds")
  /\ Becomes(Bound(Registry, k, parent))
  /\ UNCHANGED <<focus, recent, heard, over, script, pinned, odd>>

Running(id) == id # NoId /\ Resolve(Registry, id, NoId) # NoId /\ lanes[Resolve(Registry, id, NoId)].live
Active == SelectSeq(order, LAMBDA id : lanes[id].live)
\* tail_lane.
Tail_lane ==
  IF Running(focus) THEN Resolve(Registry, focus, NoId)
  ELSE IF Running(recent) THEN Resolve(Registry, recent, NoId)
  ELSE IF Active # << >> THEN Head(Active) ELSE NoId
\* note_stream_activity.
NoteActivity(k) ==
  /\ k \in script.who /\ Running(k)
  /\ recent' = Resolve(Registry, k, NoId)
  /\ UNCHANGED <<lanes, order, aliases, pending, focus, heard, over, script, spent, pinned, odd>>
\* cycle_tail_focus.
After(id) ==
  LET at == {i \in DOMAIN Active : Active[i] = id}
  IN IF at = {} THEN Active[1] ELSE Active[((CHOOSE i \in at : TRUE) % Len(Active)) + 1]
Cycles ==
  /\ Spend("pins")
  /\ focus' = IF Active = << >> THEN NoId ELSE After(Tail_lane)
  /\ pinned' = IF Active = << >> THEN 0 ELSE CHOOSE i \in DOMAIN order : order[i] = focus'
  /\ UNCHANGED <<lanes, order, aliases, pending, recent, heard, over, script, odd>>

Next ==
  \/ \E k \in Kids :
       \/ \E id \in Called(k), under \in Called(ParentOf[k]) :
            Spawned(k, id, under) \/ Completed(k, id, under)
       \/ Resumed(k) \/ Started(k) \/ Ended(k) \/ NoteActivity(k)
       \/ \E parent \in {ParentOf[k], NoId} : Binds(k, parent)
  \/ Cycles

Spec == Init /\ [][Next]_vars

-----------------------------------------------------------------------------
(***************************************************************************)
(* Properties.                                                             *)
(***************************************************************************)

\* Sub-sessions whose mask is their own.
Sole == {k \in script.who : \A j \in script.who \ {k} : MaskOf[j] # MaskOf[k]}
Whole == "reopened" \notin odd
Shown == {k \in script.who : heard[k] \cap {"spawned", "started", "completed", "resumed"} # {}}

\* Every lane is listed once, whatever is renamed meanwhile; one that was opened again under
\* another name is not.
ListedOnce ==
  /\ Range(order) \subseteq DOMAIN lanes /\ IsInjective(order)
  /\ Whole => DOMAIN lanes = Range(order)

\* Whatever order its events came in, and whichever name they used, a sub-session has one lane,
\* both its names lead to it, and it is live until the session is over.
OneLane ==
  Whole => \A k \in Sole \cap Shown :
    /\ Cardinality(NamesOf(k) \cap DOMAIN lanes) = 1
    /\ \A id \in NamesOf(k) : Resolve(Registry, id, NoId) \in NamesOf(k)
    /\ \A id \in NamesOf(k) \cap DOMAIN lanes : lanes[id].live = ~over[k]

\* A lane is one deeper than the lane that it names as its parent.
DepthsFit ==
  Whole => \A k \in DOMAIN lanes :
    lanes[k].depth = IF lanes[k].parent \in DOMAIN lanes THEN lanes[lanes[k].parent].depth + 1 ELSE 1

\* No session waits to be bound to a lane that is there under its mask, unless parents are named by masks.
BoundWhenOpen ==
  "masked" \notin odd => \A i \in DOMAIN pending :
    pending[i].id \in Sole => Resolve(Registry, pending[i].id, pending[i].parent) \notin Masks

\* The lane that was chosen for the tail keeps it as long as it runs, through every renaming.
TailStays ==
  focus # NoId => /\ Resolve(Registry, focus, NoId) = order[pinned]
                  /\ lanes[order[pinned]].live => Tail_lane = order[pinned]

LanesSound == ListedOnce /\ OneLane /\ DepthsFit /\ BoundWhenOpen /\ TailStays
=============================================================================
