------------------------------ MODULE Delegation ------------------------------
(***************************************************************************)
(* Delegated sessions (kernel/spawner.py) and the steers queued for them   *)
(* (LaneSteeringQueue of model/queues.py, delivered by kernel/steering.py).*)
(* A session that executes may spawn children, which may spawn their own;  *)
(* each is set up, executed, and unwound, by the coroutine that spawned it *)
(* and waits for it.  A child's modules and its orchestrator are not part  *)
(* of the repository: setting it up may fail at every await, and its       *)
(* execution may end in any way.                                           *)
(*                                                                         *)
(* Steers are queued by the client's thread and taken by the runtime's,    *)
(* and this queue has no lock: the list is looked up in one step and       *)
(* appended to in another.                                                 *)
(***************************************************************************)
EXTENDS Naturals, Sequences, FiniteSets

CONSTANTS MaxChildren, MaxSteers,   \* bounds on children ever created and steers typed
          MaxDepth,                 \* the greatest max_depth considered
          MaxTroubles               \* bound on failures and cancellations

DelegationAssumption ==
  MaxDepth \in Nat \ {0} /\ {MaxChildren, MaxSteers, MaxTroubles} \subseteq Nat

VARIABLES
  limit,      \* max_depth
  kids,       \* [parent, depth, builder] of each child, in the order of creation
  step,       \* how far each child is
  governed,   \* children on whose hooks the governance hook and the trackers are
  linked,     \* children whose cancellation is registered with their parent's
  nesting,    \* the display's nesting
  acted,      \* builders seen to have changed something
  cut,        \* children whose orchestrator stopped at a limit
  status,     \* what spawn returned for each child
  lane,       \* _pending: the queue of each lane that has one
  holding,    \* the lane whose list the client's thread has looked up, and that list's age
  age,        \* ghost: how often a lane's list was removed
  heard,      \* the steers each child was given
  typed,      \* ghost: the lane of each steer typed
  dropped,    \* ghost: steers appended to a list that was removed
  troubles

childVars == <<limit, kids, step, governed, linked, acted, cut, status, nesting>>
steerVars == <<lane, holding, age, heard, typed, dropped>>
vars == <<childVars, steerVars, troubles>>

Root == 0
Ids == 1 .. MaxChildren
Kids == DOMAIN kids
Busy == {"created", "wired", "executing", "retrying", "unwinding"}
Nothing == [lane |-> 0, age |-> 0]
\* A delegation runs inside a tool call of a session that executes.
Executing(s) == s = Root \/ (s \in Kids /\ step[s] \in {"executing", "retrying"})
DepthOf(s) == IF s = Root THEN 0 ELSE kids[s].depth
Open == {c \in Kids : step[c] \in Busy}
Waits(s) == {c \in Open : kids[c].parent = s} # {}

Init ==
  /\ limit \in 1 .. MaxDepth
  /\ kids = << >> /\ step = << >> /\ status = << >>
  /\ governed = {} /\ linked = {} /\ nesting = 0
  /\ acted = {} /\ cut = {}
  /\ lane = [c \in Ids |-> << >>] /\ age = [c \in Ids |-> 0] /\ holding = Nothing
  /\ heard = [c \in Ids |-> << >>] /\ typed = << >> /\ dropped = {}
  /\ troubles = 0

-----------------------------------------------------------------------------
Trouble == troubles < MaxTroubles /\ troubles' = troubles + 1
Goes(c, to) == step' = [step EXCEPT ![c] = to]

\* The depth is checked before anything is created.
TooDeep(s) == DepthOf(s) + 1 > limit
Spawn(s, builder) ==
  /\ Executing(s) /\ Len(kids) < MaxChildren
  /\ ~TooDeep(s)
  /\ kids' = Append(kids, [parent |-> s, depth |-> DepthOf(s) + 1, builder |-> builder])
  /\ step' = Append(step, "created") /\ status' = Append(status, "none")
  /\ UNCHANGED <<limit, governed, linked, nesting, acted, cut, steerVars, troubles>>

\* initialize, then the hooks.
Wire(c) ==
  /\ step[c] = "created"
  /\ governed' = governed \cup {c} /\ Goes(c, "wired")
  /\ UNCHANGED <<limit, kids, linked, nesting, acted, cut, status, steerVars, troubles>>

\* The context is seeded, the cancellation linked, the display nested.
Start(c) ==
  /\ step[c] = "wired"
  /\ linked' = linked \cup {c} /\ nesting' = nesting + 1 /\ Goes(c, "executing")
  /\ UNCHANGED <<limit, kids, governed, acted, cut, status, steerVars, troubles>>

\* Whatever is raised before the try block leaves the child as it is: it is not cleaned up.
SetUpFails(c) ==
  /\ step[c] \in {"created", "wired"} /\ Trouble
  /\ Goes(c, "leaked")
  /\ UNCHANGED <<limit, kids, governed, linked, nesting, acted, cut, status, steerVars>>

\* What its tools, its provider and its orchestrator tell _ChildToolActivity.
Act(c) ==
  /\ Executing(c) /\ c # Root
  /\ \/ kids[c].builder /\ acted' = acted \cup {c} /\ UNCHANGED cut
     \/ cut' = cut \cup {c} /\ UNCHANGED acted
  /\ UNCHANGED <<limit, kids, step, governed, linked, nesting, status, steerVars, troubles>>

\* The workspace is shared: a change by anybody is in the next snapshot of every builder.
Edit ==
  /\ acted' = acted \cup {c \in Kids : Executing(c) /\ kids[c].builder}
  /\ UNCHANGED <<limit, kids, step, governed, linked, nesting, cut, status, steerVars, troubles>>

\* A builder that changed nothing is sent back once.
MustRetry(c) == step[c] = "executing" /\ kids[c].builder /\ c \notin acted \cup cut
Outcome(c) == IF c \in cut \/ (kids[c].builder /\ c \notin acted) THEN "incomplete" ELSE "success"
Returns(c, what) == status' = [status EXCEPT ![c] = what] /\ Goes(c, "unwinding")
Answer(c) ==
  /\ c \in Kids /\ Executing(c) /\ ~Waits(c)
  /\ IF MustRetry(c)
       THEN Goes(c, "retrying") /\ UNCHANGED status
       ELSE Returns(c, Outcome(c))
  /\ UNCHANGED <<limit, kids, governed, linked, nesting, acted, cut, steerVars, troubles>>

\* The execution raises; "aborted" when it is the task that is cancelled.
Raise(c, what) ==
  /\ c \in Kids /\ Executing(c) /\ ~Waits(c) /\ Trouble
  /\ Returns(c, what)
  /\ UNCHANGED <<limit, kids, governed, linked, nesting, acted, cut, steerVars>>

\* Mutant: an execution that was aborted keeps its link to the parent.
KeepsLink(c) == linked' = IF status[c] = "aborted" THEN linked ELSE linked \ {c}
Unlink(c) == linked' = linked \ {c}
\* The finally clause; a cleanup that fails is logged.
Unwind(c) ==
  /\ step[c] = "unwinding"
  /\ governed' = governed \ {c} /\ Unlink(c) /\ nesting' = nesting - 1
  /\ Goes(c, "done")
  /\ UNCHANGED <<limit, kids, acted, cut, status, steerVars, troubles>>

-----------------------------------------------------------------------------
(***************************************************************************)
(* Steers.                                                                 *)
(***************************************************************************)

\* enqueue: setdefault ...
LookUp(c) ==
  /\ holding = Nothing /\ c \in Kids /\ Len(typed) < MaxSteers
  /\ holding' = [lane |-> c, age |-> age[c]]
  /\ UNCHANGED <<childVars, lane, age, heard, typed, dropped, troubles>>
\* ... then append.
Enqueue ==
  /\ holding # Nothing
  /\ LET c == holding.lane  n == Len(typed) + 1 IN
     /\ typed' = Append(typed, c)
     /\ IF holding.age = age[c] THEN lane' = [lane EXCEPT ![c] = Append(@, n)] /\ UNCHANGED dropped
        ELSE dropped' = dropped \cup {n} /\ UNCHANGED lane
  /\ holding' = Nothing
  /\ UNCHANGED <<childVars, age, heard, troubles>>
\* _handle_lane at the child's step boundary: the oldest is taken, and an emptied list
\* removed.
Boundary(c) ==
  /\ Executing(c) /\ c # Root /\ lane[c] # << >>
  /\ lane' = [lane EXCEPT ![c] = Tail(@)]
  /\ heard' = [heard EXCEPT ![c] = Append(@, Head(lane[c]))]
  /\ age' = [age EXCEPT ![c] = IF Len(lane[c]) = 1 THEN @ + 1 ELSE @]
  /\ UNCHANGED <<childVars, holding, typed, dropped, troubles>>

Next ==
  \/ \E s \in {Root} \cup Kids, builder \in BOOLEAN : Spawn(s, builder)
  \/ \E c \in Kids :
       \/ Wire(c) \/ Start(c) \/ SetUpFails(c) \/ Act(c) \/ Answer(c) \/ Unwind(c)
       \/ \E what \in {"error", "aborted"} : Raise(c, what)
       \/ LookUp(c) \/ Boundary(c)
  \/ Enqueue \/ Edit

Spec == Init /\ [][Next]_vars

-----------------------------------------------------------------------------
(***************************************************************************)
(* Properties.                                                             *)
(***************************************************************************)

TypeOK ==
  /\ limit \in 1 .. MaxDepth
  /\ kids \in Seq([parent : {Root} \cup Ids, depth : 1 .. limit, builder : BOOLEAN])
  /\ DOMAIN step = Kids /\ status \in [Kids -> {"none", "success", "incomplete", "error", "aborted"}]
  /\ governed \cup linked \cup acted \cup cut \subseteq Kids
  /\ nesting \in 0 .. MaxChildren

\* The children an interrupt of the root reaches, link by link: those that every set has which
\* has the linked children of the root and of its own members.
LinkedTo(s) == {c \in linked : kids[c].parent \in {Root} \cup s}
Reached == {c \in Kids : \A s \in SUBSET Kids : LinkedTo(s) \subseteq s => c \in s}

\* A child executes only under the governance hook and inside its parent's turn, and every
\* link from the root to it stands, so an interrupt reaches it.
Supervised == \A c \in Kids : Executing(c) =>
  c \in governed /\ Executing(kids[c].parent) /\ c \in Reached

\* However its execution ended, a child that was executed leaves no hook, no link and no
\* nesting behind, and ends before its parent does.
CleanedUp ==
  /\ nesting = Cardinality({c \in Kids : step[c] \in {"executing", "retrying", "unwinding"}})
  /\ \A c \in Kids : step[c] = "done" => c \notin governed \cup linked /\ ~Waits(c)

\* A lane hears the steers typed for it, in order and once, and none is lost but by being
\* appended to a list that was removed meanwhile.
Steers(c) == heard[c] \o lane[c]
SteersKept ==
  /\ \A c \in Ids : \A i, j \in DOMAIN Steers(c) : i < j => Steers(c)[i] < Steers(c)[j]
  /\ \A n \in DOMAIN typed : n \in dropped \/ \E i \in DOMAIN Steers(typed[n]) : Steers(typed[n])[i] = n

\* What spawn and the lane queue promise: Supervised, CleanedUp, SteersKept.
DelegationSound == TypeOK /\ Supervised /\ CleanedUp /\ SteersKept

=============================================================================
