------------------------------ MODULE RecipeGates ------------------------------
(***************************************************************************)
(* The approval gates of recipes (kernel/recipes.py).  A recipe that       *)
(* reaches a gate stores that it waits, emits one event and stops; the     *)
(* bridge asks the person, finds the waiting recipe by the name of the     *)
(* stage, has the recipes tool approve or deny it, waits until no turn     *)
(* runs, and resumes it.  Meanwhile the model may do the same in its turn. *)
(*                                                                         *)
(* A gate of a sub-recipe is stored for the sub-recipe and then for the    *)
(* recipe around it; deciding the latter decides both.  The recipes tool   *)
(* is not part of the repository: it is modelled as the bridge uses it.    *)
(***************************************************************************)
EXTENDS Naturals, Sequences, FiniteSets

CONSTANTS
  Recipes,     \* recipes that run; all their gates are of stages of one name
  Nesting,     \* recipes whose gates are those of a sub-recipe
  MaxGates,    \* bound on gates reached
  MaxLiveTurns \* bound on turns

RecipesAssumption ==
  /\ IsFiniteSet(Recipes) /\ Nesting \subseteq Recipes
  /\ MaxGates \in Nat /\ MaxLiveTurns \in Nat

VARIABLES
  flow,     \* recipe -> "new", "running", "waiting", "approved" or "ended"
  runners,  \* recipe -> who runs it: the turn, or a task of the bridge
  listed,   \* what waits: recipe, whether the outer one, and the number of its gate
  inTurn,   \* a turn runs
  liveTurns,\* turns so far
  settling, \* the bridge's tasks, one per event
  notes,    \* what the person was told, by task
  crowded,  \* recipes resumed behind the bridge's back
  mixed     \* recipes that reached a gate while another waited, or was still asked about
vars == <<flow, runners, listed, inTurn, liveTurns, settling, notes, crowded, mixed>>

Turn == 0
Tasks == DOMAIN settling
\* What a recipe stores at a gate: for the inner recipe before the outer one.
Entries(r) ==
  [of : {r}, outer : {TRUE} \cup (IF r \in Nesting THEN {FALSE} ELSE {}), gate : {Len(settling) + 1}]

Init ==
  /\ flow = [r \in Recipes |-> "new"]
  /\ runners = [r \in Recipes |-> {}]
  /\ listed = {}
  /\ inTurn = FALSE /\ liveTurns = 0
  /\ settling = << >> /\ notes = {}
  /\ crowded = {} /\ mixed = {}

-----------------------------------------------------------------------------
(***************************************************************************)
(* The recipes tool, and the model's turns.                                *)
(***************************************************************************)

\* What an approval or a denial leaves, and whether it is accepted.
Waits(e) == \E x \in listed : x.of = e.of /\ x.outer = e.outer
Left(e) == {x \in listed : x.of # e.of \/ (~e.outer /\ x.outer)}
Decided(e, to) ==
  /\ listed' = Left(e)
  /\ flow' = IF \E x \in Left(e) : x.of = e.of THEN flow ELSE [flow EXCEPT ![e.of] = to]

\* A recipe runs from the start, or from the gate it was approved at; nothing in the tool
\* keeps a second executor away.
Runs(r, by) ==
  /\ flow' = [flow EXCEPT ![r] = "running"]
  /\ runners' = [runners EXCEPT ![r] = @ \cup {by}]

TurnBegins ==
  /\ ~inTurn /\ liveTurns < MaxLiveTurns
  /\ inTurn' = TRUE /\ liveTurns' = liveTurns + 1
  /\ crowded' = crowded \cup {r \in Recipes : runners[r] # {}}
  /\ UNCHANGED <<flow, runners, listed, settling, notes, mixed>>
TurnEnds ==
  /\ inTurn /\ \A r \in Recipes : Turn \notin runners[r]
  /\ inTurn' = FALSE
  /\ UNCHANGED <<flow, runners, listed, liveTurns, settling, notes, crowded, mixed>>
ModelRuns(r) ==
  /\ inTurn /\ flow[r] \in {"new", "approved", "running"} /\ Turn \notin runners[r]
  /\ Runs(r, Turn)
  /\ crowded' = IF \E t \in Tasks : settling[t].at = "idle" /\ settling[t].entry.of = r
                THEN crowded \cup {r} ELSE crowded
  /\ UNCHANGED <<listed, inTurn, liveTurns, settling, notes, mixed>>
\* The model was told to approve or deny, and names the recipe it runs.
ModelDecides(r, to) ==
  /\ inTurn /\ Waits([of |-> r, outer |-> TRUE])
  /\ Decided([of |-> r, outer |-> TRUE], to)
  /\ UNCHANGED <<runners, inTurn, liveTurns, settling, notes, crowded, mixed>>

\* The executor reaches a gate: stored, announced, and the run stops.
NewTask == [at |-> "ask", allow |-> FALSE, for |-> 0, entry |-> [of |-> "none", outer |-> FALSE]]
Pause(r) ==
  /\ flow[r] = "running" /\ Len(settling) < MaxGates
  /\ \E by \in runners[r] :
       /\ runners' = [runners EXCEPT ![r] = @ \ {by}]
       /\ settling' = Append([t \in Tasks |-> IF t = by THEN [settling[t] EXCEPT !.at = "done"]
                                              ELSE settling[t]], [NewTask EXCEPT !.for = r])
  /\ flow' = [flow EXCEPT ![r] = "waiting"]
  /\ listed' = listed \cup Entries(r)
  /\ mixed' = LET asked == {settling[t].for : t \in {t \in Tasks : settling[t].at # "done"}}
                  others == (asked \cup {e.of : e \in listed}) \ {r}
              IN IF others = {} THEN mixed ELSE mixed \cup others \cup {r}
  /\ UNCHANGED <<inTurn, liveTurns, notes, crowded>>
Ends(r) ==
  /\ flow[r] = "running"
  /\ \E by \in runners[r] :
       /\ runners' = [runners EXCEPT ![r] = @ \ {by}]
       /\ settling' = [t \in Tasks |-> IF t = by THEN [settling[t] EXCEPT !.at = "done"]
                                       ELSE settling[t]]
       /\ notes' = notes \cup ({by} \ {Turn})
  /\ flow' = [flow EXCEPT ![r] = "ended"]
  /\ UNCHANGED <<listed, inTurn, liveTurns, crowded, mixed>>

-----------------------------------------------------------------------------
(***************************************************************************)
(* The bridge.                                                             *)
(***************************************************************************)

Step(t, at) == settling' = [settling EXCEPT ![t].at = at]
Done(t) == settling' = [settling EXCEPT ![t].at = "done"] /\ notes' = notes \cup {t}

\* The approval broker answers; an ask that times out counts as a denial.
Answer(t, allow) ==
  /\ settling[t].at = "ask"
  /\ settling' = [settling EXCEPT ![t] = [@ EXCEPT !.at = "route", !.allow = allow]]
  /\ UNCHANGED <<flow, runners, listed, inTurn, liveTurns, notes, crowded, mixed>>

\* _pending_session_id: the newest of the stage.
Newest ==
  CHOOSE e \in listed :
    \A x \in listed : x.gate < e.gate \/ (x.gate = e.gate /\ (x.outer => e.outer))
Route(t) ==
  /\ settling[t].at = "route"
  /\ \/ /\ listed # {}
        /\ settling' = [settling EXCEPT ![t] = [@ EXCEPT !.at = "act",
                                                       !.entry = [of |-> Newest.of, outer |-> Newest.outer]]]
        /\ UNCHANGED notes
     \* Nothing waits, the tool is not mounted, or it fails: the person is told.
     \/ Done(t)
  /\ UNCHANGED <<flow, runners, listed, inTurn, liveTurns, crowded, mixed>>

Act(t) ==
  LET e == settling[t].entry
  IN /\ settling[t].at = "act"
     /\ \/ /\ Waits(e)
           /\ Decided(e, IF settling[t].allow THEN "approved" ELSE "ended")
           /\ IF settling[t].allow THEN Step(t, "idle") /\ UNCHANGED notes ELSE Done(t)
        \/ UNCHANGED <<flow, listed>> /\ Done(t)
     /\ UNCHANGED <<runners, inTurn, liveTurns, crowded, mixed>>

\* _resume: only when no turn runs; a recipe that was resumed meanwhile is refused, or says
\* where it stands.
\* Mutant: the turn is not waited for.
AtOnce == TRUE
MayResume == ~inTurn
Resume(t) ==
  LET r == settling[t].entry.of
  IN /\ settling[t].at = "idle" /\ MayResume
     /\ \/ flow[r] \in {"approved", "running"} /\ Runs(r, t) /\ Step(t, "resuming") /\ UNCHANGED notes
        \/ UNCHANGED <<flow, runners>> /\ Done(t)
     /\ UNCHANGED <<listed, inTurn, liveTurns, crowded, mixed>>

Next ==
  \/ TurnBegins \/ TurnEnds
  \/ \E r \in Recipes : \/ ModelRuns(r) \/ Pause(r) \/ Ends(r)
                        \/ \E to \in {"approved", "ended"} : ModelDecides(r, to)
  \/ \E t \in Tasks : Answer(t, TRUE) \/ Answer(t, FALSE) \/ Route(t) \/ Act(t) \/ Resume(t)

Spec == Init /\ [][Next]_vars

-----------------------------------------------------------------------------
(***************************************************************************)
(* Properties.                                                             *)
(***************************************************************************)

\* A recipe has one executor, unless a turn began while the bridge's resume ran, or the model
\* resumed what the bridge had approved and was waiting to resume.
RunsOnce == \A r \in Recipes \ crowded : Cardinality(runners[r]) <= 1
\* No recipe waits in silence: the person is being asked about a gate of that name, has just
\* answered, or was told that an answer went nowhere.
NeverSilent ==
  listed # {} =>
    \/ notes # {}
    \/ \E t \in Tasks : settling[t].at \in {"ask", "route", "act"}
\* An answer is for the recipe the person was asked about, unless gates of one name were open
\* at once.
AnswersItsOwn ==
  \A t \in Tasks : settling[t].at \in {"idle", "resuming"} =>
    settling[t].entry.of \in {settling[t].for} \cup mixed

GatesSound == RunsOnce /\ NeverSilent /\ AnswersItsOwn
=============================================================================
