------------------------------ MODULE SessionStart ------------------------------
(***************************************************************************)
(* From the wish to resume a session to a session that runs, and back      *)
(* (kernel/runtime.py start and cleanup, kernel/persistence.py             *)
(* find_session and relocate_from_any_project, kernel/config.py            *)
(* resolve_config, kernel/session_factory.py).  A session whose project    *)
(* was renamed is copied from its old store; the transcript is loaded and  *)
(* perhaps repaired; the bundle it was created under is resolved; the      *)
(* modules are mounted and what is missing is named.  Processes do this at *)
(* the same time, nothing is locked from the loading to the end, and a     *)
(* start fails, or its process is killed, between any two of the steps.    *)
(*                                                                         *)
(* A turn is its number.  Of the files of a session the transcript and the *)
(* metadata that matter here are kept; how they are written is             *)
(* SessionFiles, and who may join a served session SessionAttach.          *)
(***************************************************************************)
EXTENDS Naturals, FiniteSets

CONSTANTS
  Starters,     \* processes that start the session
  Tools,        \* the tool modules of the bundle
  Optional,     \* those of them that register no tool when nothing is configured
  Alike,        \* pairs: a name of the second's tools looks like one of the first's
  Scenarios     \* of a behaviour the bounds of starts, turns, renamed bundles and failures, and
                \* what is tried: tools, requested bundles, projects, and advertising

Projects == {"old", "new"}
StartAssumption ==
  /\ Optional \subseteq Tools /\ Alike \subseteq Tools \X Tools
  /\ \A s \in Scenarios :
       /\ {s.starts, s.turns, s.moves, s.fails} \subseteq Nat
       /\ s.tools \subseteq Tools /\ s.wants \subseteq {"none", "active"}
       /\ s.homes \subseteq Projects /\ s.serves \subseteq BOOLEAN

VARIABLES
  copies,     \* project -> the session as stored there
  starter,    \* process -> where its start or its session is
  found,      \* the bundles that discovery finds, and whether a resume takes the active one
  known,      \* the modules whose tools' names foundation exports
  scenario, used,   \* bounds, and what was used of them
  saved,      \* ghost: project -> turns saved there
  spoilt      \* ghost: what happened that the code has no answer to
startVars == <<copies, starter, found, known, scenario, used, saved, spoilt>>

NoCopy == [there |-> FALSE, turns |-> {}, torn |-> FALSE, bundle |-> "none", dir |-> "none"]
Off == [at |-> "off", home |-> "new", want |-> "none", seen |-> NoCopy, bundle |-> "none",
        told |-> {}, mounted |-> {}, missing |-> {}, served |-> FALSE]

At(p, step) == starter[p].at = step
Goes(p, step) == starter' = [starter EXCEPT ![p].at = step]
Ends(p) == starter' = [starter EXCEPT ![p] = Off]
Use(what) == used[what] < scenario[what] /\ used' = [used EXCEPT ![what] = @ + 1]
Home(p) == starter[p].home
Holds(p) == starter[p].at \in {"stamp", "repair", "resolve", "create", "finish", "running", "turn"}
\* live_endpoint: somebody serves the session of the project and advertises it.
Served(project) == \E p \in Starters : starter[p].served /\ Home(p) = project

Init ==
  /\ scenario \in Scenarios
  /\ copies = [q \in Projects |-> IF q = "old" THEN [NoCopy EXCEPT !.there = TRUE, !.turns = {1}, !.bundle = "own", !.dir = "old"]
                                               ELSE NoCopy]
  /\ starter = [p \in Starters |-> Off]
  /\ found \in [names : {{"own", "active", "default"}},
               active : IF scenario.moves = 0 THEN {FALSE} ELSE BOOLEAN]
  /\ known \in SUBSET scenario.tools
  /\ used = [starts |-> 0, turns |-> 1, moves |-> 0, fails |-> 0]
  /\ saved = [q \in Projects |-> copies[q].turns]
  /\ spoilt = {}

-----------------------------------------------------------------------------
(***************************************************************************)
(* Finding the session, or fetching it from another project.               *)
(***************************************************************************)

Start(p) ==
  /\ At(p, "off") /\ Use("starts")
  /\ \E project \in scenario.homes, want \in scenario.wants :
       starter' = [starter EXCEPT ![p] = [Off EXCEPT !.at = "find", !.home = project, !.want = want]]
  /\ UNCHANGED <<copies, found, known, scenario, saved, spoilt>>

\* find_session; relocate_from_any_project refuses a session that is being served.
Find(p) ==
  /\ At(p, "find")
  /\ IF copies[Home(p)].there THEN Goes(p, "load")
     ELSE IF \E q \in Projects : copies[q].there /\ ~Served(q) THEN Goes(p, "copy")
     ELSE Ends(p)
  /\ UNCHANGED <<copies, found, known, scenario, used, saved, spoilt>>

\* copytree into a directory of the process's own.
Copy(p) ==
  /\ At(p, "copy")
  /\ \E q \in Projects \ {Home(p)} :
       starter' = [starter EXCEPT ![p].at = "place", ![p].seen = copies[q]]
  /\ UNCHANGED <<copies, found, known, scenario, used, saved, spoilt>>

\* Mutant: a copy goes over what is there.
PlacesOver(p) ==
  /\ At(p, "place") /\ Goes(p, "stamp")
  /\ copies' = [copies EXCEPT ![Home(p)] = starter[p].seen]
  /\ UNCHANGED <<found, known, scenario, used, saved, spoilt>>
\* os.replace fails when somebody else has placed a copy, and what is there is removed.
Place(p) ==
  /\ At(p, "place")
  /\ IF copies[Home(p)].there
     THEN /\ copies' = [copies EXCEPT ![Home(p)] = NoCopy]
          /\ spoilt' = spoilt \cup {"wiped"}
          /\ Ends(p) /\ UNCHANGED saved
     ELSE /\ copies' = [copies EXCEPT ![Home(p)] = starter[p].seen]
          /\ saved' = [saved EXCEPT ![Home(p)] = starter[p].seen.turns]
          /\ Goes(p, "stamp") /\ UNCHANGED spoilt
  /\ UNCHANGED <<found, known, scenario, used>>
\* Its metadata names the new directory; when that fails the copy is removed.
Stamp(p) ==
  /\ At(p, "stamp")
  /\ \/ /\ copies[Home(p)].there
        /\ copies' = [copies EXCEPT ![Home(p)].dir = Home(p)]
        /\ Goes(p, "load") /\ UNCHANGED <<used, saved>>
     \/ /\ ~copies[Home(p)].there
        /\ Ends(p) /\ UNCHANGED <<copies, used, saved>>
     \/ /\ Use("fails")
        /\ copies' = [copies EXCEPT ![Home(p)] = NoCopy]
        /\ saved' = [saved EXCEPT ![Home(p)] = {}]
        /\ Ends(p)
  /\ UNCHANGED <<found, known, scenario, spoilt>>

-----------------------------------------------------------------------------
(***************************************************************************)
(* Loading it.                                                             *)
(***************************************************************************)

Load(p) ==
  /\ At(p, "load")
  /\ IF copies[Home(p)].there
     THEN /\ starter' = [starter EXCEPT ![p].at = IF copies[Home(p)].torn THEN "repair" ELSE "resolve",
                                        ![p].seen = copies[Home(p)]]
          /\ spoilt' = IF \E q \in Starters \ {p} : Holds(q) /\ Home(q) = Home(p)
                       THEN spoilt \cup {"two"} ELSE spoilt
     ELSE Ends(p) /\ UNCHANGED spoilt
  /\ UNCHANGED <<copies, found, known, scenario, used, saved>>
\* repair_resumed_transcript: what an interrupted turn left is completed and saved, with the
\* metadata as it was loaded.
Repair(p) ==
  /\ At(p, "repair")
  /\ starter' = [starter EXCEPT ![p].at = "resolve", ![p].seen.torn = FALSE]
  /\ copies' = [copies EXCEPT ![Home(p)] = [starter[p].seen EXCEPT !.torn = FALSE]]
  /\ UNCHANGED <<found, known, scenario, used, saved, spoilt>>

-----------------------------------------------------------------------------
(***************************************************************************)
(* The bundle.                                                             *)
(***************************************************************************)

\* _plan_resume_bundle: the bundle asked for, and why.
Planned(p) ==
  LET stored == starter[p].seen.bundle
  IN IF starter[p].want # "none" THEN [name |-> starter[p].want, why |-> "explicit"]
     ELSE IF stored = "none" \/ found.active THEN [name |-> "none", why |-> "active"]
     ELSE [name |-> stored, why |-> "stored"]
\* resolve_bundle_source without a name: the active bundle, else the default.
Fallback == IF "active" \in found.names THEN "active" ELSE "default"
\* A stored bundle that is not found gives way to that.
Why(plan) == IF plan.why = "stored" /\ plan.name \notin found.names THEN "stored-missing" ELSE plan.why
Name(plan) == IF plan.name \in found.names THEN plan.name ELSE Fallback
\* Mutant: a bundle that is missing is passed over in silence.
DivergesQuietly(p, name, why) ==
  LET stored == starter[p].seen.bundle
  IN stored # "none" /\ why \in {"explicit", "active"} /\ stored # name
\* _resume_bundle_notice and the notice of a fallback.
Diverges(p, name, why) ==
  LET stored == starter[p].seen.bundle
  IN stored # "none" /\ CASE why = "stored" -> stored # Fallback
                           [] why = "stored-missing" -> TRUE
                           [] why \in {"explicit", "active"} -> stored # name
Announced(p, name, why) ==
  (IF Diverges(p, name, why) THEN {"bundle"} ELSE {})
  \cup (IF why \in {"active", "stored-missing"} /\ name = "default" THEN {"fallback"} ELSE {})
Resolve(p) ==
  /\ At(p, "resolve")
  /\ LET plan == Planned(p)
         why == Why(plan)
         name == Name(plan)
     IN IF plan.why = "explicit" /\ plan.name \notin found.names THEN Ends(p)
        ELSE starter' = [starter EXCEPT ![p].at = "create", ![p].bundle = name,
                                        ![p].told = Announced(p, name, why)]
  /\ UNCHANGED <<copies, found, known, scenario, used, saved, spoilt>>

-----------------------------------------------------------------------------
(***************************************************************************)
(* The session.                                                            *)
(***************************************************************************)

\* What a module registers: nothing, the tools its name announces, or others.
Registrations == {"none", "announced", "other"}
\* missing_tool_modules.  A mounted name is a module and whether the module announces it.
Matches(m, n, names) ==
  \/ n = m /\ (names[m] = "announced" \/ (m \in known /\ names[m] # "none"))
  \/ <<m, n>> \in Alike /\ names[n] # "none"
Present(m, names) == \E n \in DOMAIN names : Matches(m, n, names)
\* Mutant: every verdict stands.
AlwaysReliable(names) == TRUE
Reliable(names) ==
  \A n \in DOMAIN names : names[n] # "none" => \E m \in DOMAIN names : Matches(m, n, names)
Missing(names) ==
  {m \in DOMAIN names \ Optional : ~Present(m, names) /\ (m \in known \/ Reliable(names))}

\* create_initialized_session: without a provider the session is closed and the start fails.
Create(p) ==
  /\ At(p, "create")
  /\ \/ \E names \in [scenario.tools -> Registrations] :
          starter' = [starter EXCEPT ![p].at = "finish",
                                     ![p].mounted = {m \in scenario.tools : names[m] # "none"},
                                     ![p].missing = Missing(names)]
     \/ Ends(p)
  /\ UNCHANGED <<copies, found, known, scenario, used, saved, spoilt>>

\* The hooks; one of them may fail, and the process ends with the error.  It then serves the
\* session and may advertise it.
Finish(p) ==
  /\ At(p, "finish")
  /\ \/ /\ \E advertised \in scenario.serves :
             starter' = [starter EXCEPT ![p].at = "running",
                                        ![p].served = advertised /\ ~Served(Home(p))]
        /\ UNCHANGED used
     \/ Ends(p) /\ Use("fails")
  /\ UNCHANGED <<copies, found, known, scenario, saved, spoilt>>

\* A turn, saved once while it runs and again at its end, with the name of the bundle.
Stored(p, torn) ==
  [there |-> TRUE, turns |-> starter'[p].seen.turns, torn |-> torn, bundle |-> starter[p].bundle,
   dir |-> IF copies[Home(p)].there THEN copies[Home(p)].dir ELSE "none"]
Save(p, torn) ==
  /\ copies' = [copies EXCEPT ![Home(p)] = Stored(p, torn)]
  /\ saved' = [saved EXCEPT ![Home(p)] = @ \cup starter'[p].seen.turns]
Turn(p) ==
  /\ At(p, "running") /\ Use("turns")
  /\ starter' = [starter EXCEPT ![p].at = "turn", ![p].seen.turns = @ \cup {used.turns + 1}]
  /\ Save(p, TRUE)
  /\ UNCHANGED <<found, known, scenario, spoilt>>
TurnEnds(p) ==
  /\ At(p, "turn")
  /\ Goes(p, "running") /\ Save(p, FALSE)
  /\ UNCHANGED <<found, known, scenario, used, spoilt>>

\* cleanup, or the process is killed.
Stop(p) ==
  /\ ~At(p, "off") /\ Ends(p)
  /\ spoilt' = IF At(p, "stamp") /\ copies[Home(p)].there THEN spoilt \cup {"unstamped"} ELSE spoilt
  /\ UNCHANGED <<copies, found, known, scenario, used, saved>>

\* The directory of a bundle is renamed, or is back.
Vanish ==
  /\ Use("moves")
  /\ \E name \in {"own", "active"} :
       found' = [found EXCEPT !.names = IF name \in @ THEN @ \ {name} ELSE @ \cup {name}]
  /\ UNCHANGED <<copies, starter, known, scenario, saved, spoilt>>

Next ==
  \/ \E p \in Starters :
       \/ Start(p) \/ Find(p) \/ Copy(p) \/ Place(p) \/ Stamp(p) \/ Load(p) \/ Repair(p)
       \/ Resolve(p) \/ Create(p) \/ Finish(p) \/ Turn(p) \/ TurnEnds(p) \/ Stop(p)
  \/ Vanish

Spec == Init /\ [][Next]_startVars

-----------------------------------------------------------------------------
(***************************************************************************)
(* Properties.                                                             *)
(***************************************************************************)

\* Whatever fails, and whoever starts the session in another project meanwhile, a turn that was
\* saved is still there, except where two processes hold the session of one project, or the loser
\* of two copyings removed it.
TurnsKept ==
  spoilt \cap {"two", "wiped"} = {} => \A q \in Projects : saved[q] \subseteq copies[q].turns

\* A session that runs knows the directory it is in, unless it was killed while it was moved.
DirKnown ==
  \A p \in Starters :
    At(p, "running") /\ copies[Home(p)].there /\ spoilt = {} => copies[Home(p)].dir = Home(p)

\* A session that runs under another bundle than it was stored under has said so.
BundleSaid ==
  \A p \in Starters :
    starter[p].at \in {"create", "finish", "running"} /\ starter[p].bundle # starter[p].seen.bundle
      => "bundle" \in starter[p].told

\* A module that is reported missing registered nothing, unless its tools look like another's; one
\* whose names are known and that is not taken for another is reported.
MountsHonest ==
  \A p \in Starters :
    starter[p].at \in {"finish", "running", "turn"} =>
      /\ \A n \in starter[p].missing \cap starter[p].mounted : \E m \in Tools : <<m, n>> \in Alike
      /\ \A m \in known \ (starter[p].mounted \cup Optional) :
           (\A n \in Tools : <<m, n>> \notin Alike) => m \in starter[p].missing

StartSound == TurnsKept /\ DirKnown /\ BundleSaid /\ MountsHonest
=============================================================================
