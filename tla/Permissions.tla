----------------------------- MODULE Permissions -----------------------------
(***************************************************************************)
(* Of the parts of SessionServices, those that decide what may be done and *)
(* under whom: the interpretations that a person confirms, the trust gate, *)
(* tokens and grants, the gates of recipes, the admission of turns and the *)
(* delegation to children.  They are declared apart from the others so     *)
(* that they can be reasoned about without these.                          *)
(***************************************************************************)
EXTENDS Naturals, Sequences, FiniteSets

CONSTANTS Speakers, Nobody, Elsewhere, MaxOps, MaxRows, MaxFaults

CONSTANTS Calls, Keys, Modes, Kinds, StreakLimit, TotalLimit, DeskLimit, MaxCalls

CONSTANTS Actors, Unheld, DeadHolder, Sorts, MaxIssues, MaxRequests, MaxBreaks

CONSTANTS Recipes, Nesting, MaxGates, MaxLiveTurns

CONSTANTS Callers, NoOne, MaxTurns, MaxStops

CONSTANTS MaxChildren, MaxSteers, MaxDepth, MaxTroubles

VARIABLE part
VARIABLES v1, v2, v3, v4, v5, v6, v7, v8, v9, v10, v11, v12, v13, v14, v15, v16, v17, v18, v19

Desk ==
  INSTANCE InterpretationDesk
    WITH rows <- v1, due <- v2, paused <- v3, claimer <- v4, at <- v5, agreed <- v6,
         stranded <- v7, ops <- v8, faults <- v9
Trust ==
  INSTANCE Governance
    WITH mode <- v1, gated <- v2, guarded <- v3, call <- v4, parked <- v5, streak <- v6,
         total <- v7, made <- v8, history <- v9, unasked <- v10, jumped <- v11
Grant ==
  INSTANCE Access
    WITH book <- v1, lock <- v2, issued <- v3, lapsed <- v4, subject <- v5, job <- v6, link <- v7,
         trail <- v8, answer <- v9, back <- v10, gone <- v11, crossed <- v12, damaged <- v13,
         requests <- v14, breaks <- v15
Gate ==
  INSTANCE RecipeGates
    WITH flow <- v1, runners <- v2, listed <- v3, inTurn <- v4, liveTurns <- v5, settling <- v6,
         notes <- v7, crowded <- v8, mixed <- v9
Turn ==
  INSTANCE TurnGuard
    WITH executing <- v1, restoring <- v2, requested <- v3, token <- v4, pc <- v5, call <- v6,
         goal <- v7, opened <- v8, closed <- v9, calls <- v10, stops <- v11, faults <- v12,
         slipped <- v13, overlapped <- v14, fresh <- v15, early <- v16, stopped <- v17,
         marked <- v18, unmarked <- v19
Child ==
  INSTANCE Delegation
    WITH limit <- v1, kids <- v2, step <- v3, governed <- v4, linked <- v5, nesting <- v6,
         acted <- v7, cut <- v8, status <- v9, lane <- v10, holding <- v11, age <- v12,
         heard <- v13, typed <- v14, dropped <- v15, troubles <- v16

ASSUME PermissionsAssumption ==
  /\ Desk!DeskAssumption /\ Trust!GovernanceAssumption /\ Grant!AccessAssumption
  /\ Gate!RecipesAssumption /\ Turn!TurnAssumption /\ Child!DelegationAssumption

\* InterpretationDesk: one yes per handoff, and no paused session without a way on.
DeskSound == part = "desk" => Desk!DeskSound
\* Governance and RecipeGates: what is blocked waits, denials in a row are brought to the
\* person, and a gate is answered once, by whom it waits for.
GovernanceSound ==
  /\ part = "trust" => Trust!GovernanceSound
  /\ part = "gates" => Gate!GatesSound
\* TurnGuard and Delegation: turns run alone, are stopped and closed as they should be; their
\* children run supervised and leave nothing behind, and steers reach them.
TurnSound ==
  /\ part = "turn" => Turn!TurnSound
  /\ part = "child" => Child!DelegationSound
\* Access: issued counts until it lapses or is revoked, and not after.
AccessSound == part = "access" => Grant!AccessSound
===============================================================================
