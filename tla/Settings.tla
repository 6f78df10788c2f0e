------------------------------- MODULE Settings -------------------------------
(***************************************************************************)
(* The settings files of one project (kernel/config.py): global, project   *)
(* and local, each read afresh and merged, the more specific over the less *)
(* specific.  A setting of this app lives below "tui:", and formerly at    *)
(* the top; kernel/settings_service.py says where its value comes from,    *)
(* sets and unsets it, kernel/bundle_admin.py clears the active bundle,    *)
(* and kernel/setup.py keeps the roster of providers, whose primary is the *)
(* one with the lowest priority.                                           *)
(*                                                                         *)
(* A command reads, changes and replaces one file, or each of the three in *)
(* turn, and may be killed or fail to write between them.  Commands that   *)
(* overlap are left out: nothing orders them, and they lose each other's   *)
(* changes.  So are environment and keys.env, which are not layered.       *)
(***************************************************************************)
EXTENDS Naturals, FiniteSets, Functions, SequencesExt

CONSTANTS
  Providers,    \* identities of providers, their id or module
  MaxSettings   \* bound on commands

SettingsAssumption == IsFiniteSet(Providers) /\ MaxSettings \in Nat

\* SettingsPaths.in_merge_order.
Scopes == 1..3

\* What a file says of the setting's section: nothing, something that is no mapping, a mapping
\* without the setting, or its value; null is a value the setting cannot have.
Values == {"old", "new"}
Leaves == Values \cup {"null"}
Sections == Leaves \cup {"none", "scalar", "bare"}
\* The file of a scope: absent and empty are one, malformed is another.
NoFile == [is |-> "ok", legacy |-> "none", spaced |-> "none", roster |-> << >>]
Malformed == [NoFile EXCEPT !.is = "bad"]

VARIABLES
  conf,      \* the three files
  cmd,       \* the command that runs
  result,    \* what the latest command said, and what it found
  settings   \* commands so far
vars == <<conf, cmd, result, settings>>

NoCommand == [is |-> "none", who |-> "none", scope |-> 1, want |-> << >>, before |-> << >>,
              wrote |-> FALSE]
NoResult == [is |-> "none", who |-> "none", scope |-> 1, want |-> << >>, before |-> << >>,
             ok |-> TRUE]

-----------------------------------------------------------------------------
(***************************************************************************)
(* Reading.                                                                *)
(***************************************************************************)

\* project_tui_preferences: within one file the namespaced value wins over the legacy one.
Projected(c) == IF c.spaced \in Leaves THEN c.spaced ELSE c.legacy

\* deep_merge of one section over another.
Merge(base, section) ==
  IF section = "none" \/ (section = "bare" /\ base \in Leaves) THEN base ELSE section
\* load_merged_settings: a malformed file is skipped, as if it said nothing.
Loaded == FoldLeft(Merge, "none", [s \in Scopes |-> Projected(conf[s])])
Effective == IF Loaded \in Values THEN Loaded ELSE "default"

\* _resolve_file: from the most specific scope down, the first file that has the setting or
\* masks it decides.
\* Mutant: a section that is no mapping is passed over.
SaysValue(section) == section \in Leaves
Says(section) == section \notin {"none", "bare"}
Deciding == {s \in Scopes : Says(Projected(conf[s]))}
Resolved ==
  IF Deciding = {} THEN "default"
  ELSE LET s == CHOOSE s \in Deciding : \A r \in Deciding : r <= s
       IN IF Projected(conf[s]) \in Values THEN Projected(conf[s]) ELSE "default"

\* configured_providers and _merge_provider_lists: the most specific entry of each identity.
Has(p) == {s \in Scopes : p \in DOMAIN conf[s].roster}
Roster ==
  [p \in {q \in Providers : Has(q) # {}} |->
     conf[CHOOSE s \in Has(p) : \A r \in Has(p) : r <= s].roster[p]]
Primary == {p \in DOMAIN Roster : \A q \in DOMAIN Roster : Roster[p] <= Roster[q]}

-----------------------------------------------------------------------------
(***************************************************************************)
(* Commands.                                                               *)
(***************************************************************************)

\* Any three files a person may have written, the setting's part or the roster's.
\* provider_priority: 100 for an entry that names none.  Numbers below 1, which no command
\* writes, and with which "use" does not make a primary, are left out.
Rosters == UNION {[ps -> {1, 100}] : ps \in SUBSET Providers}
Init ==
  /\ \/ \E legacy \in [Scopes -> {"none", "scalar", "bare", "old"}],
           spaced \in [Scopes -> {"none", "null", "old"}] :
          conf = [s \in Scopes |-> [NoFile EXCEPT !.legacy = legacy[s], !.spaced = spaced[s]]]
     \/ \E rosters \in [Scopes -> Rosters], bad \in SUBSET Scopes :
          /\ Cardinality(bad) <= 1
          /\ conf = [s \in Scopes |-> IF s \in bad THEN Malformed
                                      ELSE [NoFile EXCEPT !.roster = rosters[s]]]
          /\ \A s \in bad : rosters[s] = << >>
  /\ cmd = NoCommand
  /\ result = NoResult
  /\ settings = 0

\* read_scope and write_scope: a malformed file reads as an empty one, and is overwritten.
Rewritten(s, change) ==
  conf' = [conf EXCEPT ![s] = [change EXCEPT !.is = "ok"]]
Idle == cmd = NoCommand /\ settings < MaxSettings /\ settings' = settings + 1
Said(what, s, p, want, ok) ==
  result' = [is |-> what, who |-> p, scope |-> s, want |-> want, before |-> Roster, ok |-> ok]

Set(s) ==
  /\ Idle
  /\ Rewritten(s, [conf[s] EXCEPT !.spaced = "new"])
  /\ Said("set", s, "none", << >>, TRUE) /\ UNCHANGED cmd

\* _remove_nested prunes the section if nothing else is in it.
Unset(s) ==
  /\ Idle
  /\ IF conf[s].spaced \in Leaves
     THEN \E left \in {"none", "bare"} : Rewritten(s, [conf[s] EXCEPT !.spaced = left])
     ELSE UNCHANGED conf
  /\ Said("unset", s, "none", << >>, TRUE) /\ UNCHANGED cmd

\* clear_active_bundle: a null over a legacy value; without one the key goes, and the section
\* with it if nothing else is in it.
LegacyThere(s) == conf[s].legacy \in Leaves
Clear(s) ==
  /\ Idle
  /\ IF conf[s].spaced = "null" \/ (conf[s].spaced \notin Leaves /\ ~LegacyThere(s))
     THEN UNCHANGED conf
     ELSE \E to \in IF LegacyThere(s) THEN {"null"} ELSE {"none", "bare"} :
            Rewritten(s, [conf[s] EXCEPT !.spaced = to])
  /\ Said("clear", s, "none", << >>, TRUE) /\ UNCHANGED cmd

\* write_provider_config: the newest first at priority 1, and the old first of that scope at 10.
Put(roster, p, n) == [q \in DOMAIN roster \cup {p} |-> IF q = p THEN n ELSE roster[q]]
Demoted(roster) == [q \in DOMAIN roster |-> IF roster[q] = 1 THEN 10 ELSE roster[q]]
Add(s, p) ==
  /\ Idle
  /\ Rewritten(s, [conf[s] EXCEPT !.roster = Put(Demoted(@), p, 1)])
  /\ Said("add", s, p, << >>, TRUE) /\ UNCHANGED cmd
\* replace_provider_config: the entry is edited where it is, or shadows the one of a broader
\* scope; its priority is the one it is listed with.
Edit(s, p) ==
  /\ Idle /\ p \in DOMAIN Roster
  /\ Rewritten(s, [conf[s] EXCEPT !.roster = Put(@, p, Roster[p])])
  /\ Said("edit", s, p, << >>, TRUE) /\ UNCHANGED cmd

\* use_provider, set_provider_priorities and remove_provider go through the scopes in turn.
Start(what, p, want) ==
  /\ Idle
  /\ cmd' = [NoCommand EXCEPT !.is = what, !.who = p, !.want = want, !.before = Roster]
  /\ result' = NoResult /\ UNCHANGED conf
Use(p) == p \in DOMAIN Roster /\ Start("use", p, << >>)
Withdraw(p) == p \in DOMAIN Roster /\ Start("remove", p, << >>)
\* The caller numbers the listed entries from 1.
Reorder ==
  \E want \in [DOMAIN Roster -> 1..Cardinality(DOMAIN Roster)] :
    /\ DOMAIN Roster # {} /\ IsInjective(want)
    /\ Start("reorder", "none", want)

\* What the command makes of one scope's roster.
Changed(roster) ==
  CASE cmd.is = "use" ->
         [q \in DOMAIN roster |-> IF q = cmd.who THEN 1 ELSE Demoted(roster)[q]]
    [] cmd.is = "reorder" ->
         [q \in DOMAIN roster |-> IF q \in DOMAIN cmd.want THEN cmd.want[q] ELSE roster[q]]
    [] cmd.is = "remove" -> [q \in DOMAIN roster \ {cmd.who} |-> roster[q]]
Ended(ok) ==
  /\ cmd' = NoCommand
  /\ result' = [is |-> cmd.is, who |-> cmd.who, scope |-> 1, want |-> cmd.want,
                before |-> cmd.before, ok |-> ok]
\* Only a scope whose roster changes is written.
Touch ==
  LET s == cmd.scope
      to == Changed(conf[s].roster)
  IN /\ cmd # NoCommand
     /\ conf' = IF to = conf[s].roster THEN conf ELSE [conf EXCEPT ![s].roster = to]
     /\ IF s = 3 THEN Ended(TRUE)
        ELSE cmd' = [cmd EXCEPT !.scope = s + 1] /\ UNCHANGED result
     /\ UNCHANGED settings
\* The file cannot be written, or the process is killed: the later scopes stay as they are.
Stops == cmd # NoCommand /\ Ended(FALSE) /\ UNCHANGED <<conf, settings>>

Next ==
  \/ \E s \in Scopes : Set(s) \/ Unset(s) \/ Clear(s) \/ \E p \in Providers : Add(s, p) \/ Edit(s, p)
  \/ \E p \in Providers : Use(p) \/ Withdraw(p)
  \/ Reorder \/ Touch \/ Stops

Spec == Init /\ [][Next]_vars

-----------------------------------------------------------------------------
(***************************************************************************)
(* Properties.                                                             *)
(***************************************************************************)

\* Where the settings service says a value comes from is what the merged load takes.
ResolverMirrorsLoad == Resolved = Effective

\* What was set counts, unless a more specific file has the setting or masks it.
SetCounts ==
  result.is = "set" =>
    \/ Effective = "new"
    \/ \E s \in Scopes : s > result.scope /\ Says(Projected(conf[s]))

\* A cleared bundle does not come back from the legacy place of the same file.
ClearedStays == result.is = "clear" => Projected(conf[result.scope]) \notin Values

\* The provider chosen with "use" is the only primary, wherever its entries and those of the
\* others are; the order asked for is the order listed; a removed provider is in no scope.
RosterObeys ==
  cmd = NoCommand /\ result.ok =>
    CASE result.is = "use" -> Primary = {result.who}
      [] result.is = "reorder" -> Roster = result.want
      [] result.is = "remove" -> Has(result.who) = {}
      [] result.is = "add" -> \A q \in DOMAIN conf[result.scope].roster :
                                q # result.who => conf[result.scope].roster[q] > 1
      [] OTHER -> TRUE

\* Whatever stops half-way loses no other provider, and a removal never brings back the entry a
\* broader file has of the same provider: the scope that counts is emptied last.
StopsSoftly ==
  ~result.ok =>
    /\ \A p \in DOMAIN result.before : p # result.who => p \in DOMAIN Roster
    /\ result.is = "remove" =>
         Roster \in {result.before, [p \in DOMAIN result.before \ {result.who} |-> result.before[p]]}

SettingsSound == /\ ResolverMirrorsLoad /\ SetCounts /\ ClearedStays /\ RosterObeys
                 /\ StopsSoftly
=============================================================================
