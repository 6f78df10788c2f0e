------------------------------ MODULE Credentials ------------------------------
(***************************************************************************)
(* What a provider needs before a session can use it (kernel/setup.py,     *)
(* kernel/preflight.py, kernel/preflight_verify.py, cli.py provider add):  *)
(* a key in keys.env, shared by all terminals and loaded by each into its  *)
(* environment; an entry in the settings that names the key's variable;    *)
(* and the provider's module, cloned on disk, with dependencies in the     *)
(* shared venv, and importable in the process.  A preflight says before a  *)
(* launch whether it will work.                                            *)
(*                                                                         *)
(* One type of provider, with one or several instances.  How entries rank  *)
(* among each other and across settings files is Settings, how a provider  *)
(* is mounted LiveProviders.  Comments, quotes and the tmp file's name are *)
(* left out, and the second key, a base URL, that is stored the same way.  *)
(***************************************************************************)
EXTENDS Naturals, Sequences, FiniteSets, SequencesExt

CONSTANTS
  Terminals,   \* processes of the user's terminals, and of scripts
  Instances,   \* configured providers of the type
  Main,        \* the one that is called by the type's name
  Variable,    \* instance -> the variable that suggest_instance_env_var derives of its name
  Default,     \* the variable that the provider's module reads by itself
  Plans        \* bounds of a behaviour, and what its provider's module is like

NoKey == 0
Blank == 9
Values == {1, 2}
Variables == {Default} \cup {Variable[i] : i \in Instances}
Budget == [adds : Nat, sets : Nat, unsets : Nat, hands : Nat, kills : Nat, checks : Nat, installs : Nat]
CredentialsAssumption ==
  /\ Main \in Instances /\ Variable \in [Instances -> STRING] /\ Variable[Main] = Default
  /\ Plans \subseteq [most : Budget, exports : SUBSET (Values \cup {Blank}), defect : BOOLEAN, clone : BOOLEAN]

VARIABLES
  keysEnv,     \* the lines of keys.env: [name, value]
  keysLock,    \* the terminal that holds keys.env.lock, or "free"
  entries,     \* config.providers: the instances, the newest first
  shell,       \* terminal -> its process
  clone,       \* the module's clone is in the cache
  venv,        \* what the shared environment has: the module, its dependencies
  stored,      \* ghost: variable -> what the last write or removal left
  kept,        \* ghost: terminal -> what its user exported and it has not changed itself
  verdict,     \* the last answer of a preflight or of a launch
  plan, used,  \* the bounds, and what was used of them
  odd          \* ghost: what happened that the code has no answer to
vars == <<keysEnv, keysLock, entries, shell, clone, venv, stored, kept, verdict, plan, used, odd>>

NoTask == [at |-> "off", does |-> "none", name |-> Default, value |-> NoKey, for |-> "none",
           read |-> << >>]
NoVerdict == [of |-> "none", by |-> "none", for |-> "none", says |-> "none", truth |-> FALSE]
NoEnv == [n \in Variables |-> NoKey]
\* A process: its environment, its task, the module on its path, what it knows of the provider's
\* schema, and what its preflight said of which entry.
Down == [up |-> FALSE, env |-> NoEnv, task |-> NoTask, path |-> FALSE, memo |-> "unasked",
         checked |-> NoVerdict]
Idle(t) == shell[t].up /\ shell[t].task = NoTask
Use(what) == used[what] < plan.most[what] /\ used' = [used EXCEPT ![what] = @ + 1]
Odd(what) == odd' = odd \cup {what}
Store == <<keysEnv, keysLock, stored>>
Module == <<clone, venv>>

-----------------------------------------------------------------------------
(***************************************************************************)
(* keys.env.                                                               *)
(***************************************************************************)

LinesOf(lines, n) == SelectSeq(lines, LAMBDA l : l.name = n)
\* load_keys_env takes the first line of a name, read_keys the last.
FirstOf(lines, n) == IF LinesOf(lines, n) = << >> THEN NoKey ELSE Head(LinesOf(lines, n)).value
LastOf(lines, n) ==
  IF LinesOf(lines, n) = << >> THEN NoKey ELSE LinesOf(lines, n)[Len(LinesOf(lines, n))].value
StoredNames == {keysEnv[i].name : i \in DOMAIN keysEnv}

\* Mutant: what the user exported is overwritten.
StoreWins(env, lines) ==
  [n \in Variables |-> IF FirstOf(lines, n) # NoKey THEN FirstOf(lines, n) ELSE env[n]]
\* load_keys_env: the environment wins, with an empty value too.
Loaded(env, lines) ==
  [n \in Variables |-> IF env[n] = NoKey THEN FirstOf(lines, n) ELSE env[n]]

\* The line of the name is replaced in place, the first if there are several.
Written(lines, n, v) ==
  LET mine == {i \in DOMAIN lines : lines[i].name = n}
      new  == [name |-> n, value |-> v]
  IN IF mine = {} THEN Append(lines, new)
     ELSE [lines EXCEPT ![CHOOSE i \in mine : \A j \in mine : i <= j] = new]
Dropped(lines, n) == SelectSeq(lines, LAMBDA l : l.name # n)

\* Mutant: nobody waits for another.
NoLock(t) == shell[t].task.at = "lock"
\* _keys_lock: of one process at a time.
Locks(t) == shell[t].task.at = "lock" /\ keysLock = "free"
Take(t) ==
  /\ Locks(t)
  /\ keysLock' = t
  /\ shell' = [shell EXCEPT ![t].task.at = "write", ![t].task.read = keysEnv]
  /\ UNCHANGED <<keysEnv, stored, entries, Module, kept, plan, used, odd>>
\* Mutant: a failed write is ignored.
Ignores(t) ==
  /\ shell[t].task.at = "lock" /\ keysLock # "free"
  /\ shell' = [shell EXCEPT ![t].task = IF @.for = "none" THEN NoTask ELSE [@ EXCEPT !.at = "entry"]]
  /\ UNCHANGED <<Store, entries, Module, kept, plan, used, odd>>
\* filelock.Timeout: another held it for ten seconds; the command fails.
TimesOut(t) ==
  /\ shell[t].task.at = "lock" /\ keysLock # "free"
  /\ shell' = [shell EXCEPT ![t].task = NoTask]
  /\ UNCHANGED <<Store, entries, Module, kept, plan, used, odd>>

\* write_key and remove_key replace the file and let go of the lock, and the environment of
\* their own process follows.
Replace(t) ==
  LET task == shell[t].task
      gone == task.does = "unset"
      lines == IF gone THEN Dropped(task.read, task.name) ELSE Written(task.read, task.name, task.value)
      value == IF gone THEN NoKey ELSE task.value
  IN /\ task.at = "write"
     /\ keysEnv' = lines
     /\ keysLock' = "free"
     /\ stored' = [stored EXCEPT ![task.name] = value]
     /\ kept' = [kept EXCEPT ![t][task.name] = NoKey]
     /\ shell' = [shell EXCEPT ![t].env[task.name] = value,
                               ![t].task = IF task.for = "none" THEN NoTask
                                           ELSE [task EXCEPT !.at = "entry", !.read = << >>]]
     /\ odd' = IF gone THEN odd \cup {<<"unset", task.name>>} ELSE odd
     /\ UNCHANGED <<entries, Module, plan, used>>

\* settings set and settings unset, of a field that lives in keys.env.
SetKey(t, n, v) ==
  /\ Idle(t) /\ Use("sets")
  /\ shell' = [shell EXCEPT ![t].task = [NoTask EXCEPT !.at = "lock", !.does = "set", !.name = n, !.value = v]]
  /\ UNCHANGED <<Store, entries, Module, kept, plan, odd>>
UnsetKey(t, n) ==
  /\ Idle(t) /\ Use("unsets")
  /\ shell' = [shell EXCEPT ![t].task = [NoTask EXCEPT !.at = "lock", !.does = "unset", !.name = n]]
  /\ UNCHANGED <<Store, entries, Module, kept, plan, odd>>
\* A line added with an editor, under no lock.
ByHand(n, v) ==
  /\ Use("hands")
  /\ keysEnv' = Append(keysEnv, [name |-> n, value |-> v])
  /\ Odd(<<"byHand", Default>>)
  /\ UNCHANGED <<keysLock, stored, entries, shell, Module, kept, plan>>

-----------------------------------------------------------------------------
(***************************************************************************)
(* Entries.                                                                *)
(***************************************************************************)

Var(i) == Variable[i]
\* Mutant: what is stored is taken, what an entry names is not.
StoredOnly == StoredNames
\* claimed_env_vars: stored, or named by an entry of the settings.
Claimed == StoredNames \cup {Var(entries[i]) : i \in DOMAIN entries}
Adding(i) == [NoTask EXCEPT !.at = "lock", !.does = "set", !.name = Var(i), !.for = i]
Wizards(i) == {t \in Terminals : shell[t].task.for \in Instances \ {i} /\ shell[t].task.name = Var(i)}

\* provider add: the type's own instance, over its variable; its key first.
Add(t, v) ==
  /\ Idle(t) /\ Use("adds")
  /\ shell' = [shell EXCEPT ![t].task = [Adding(Main) EXCEPT !.value = v]]
  /\ UNCHANGED <<Store, entries, Module, kept, plan, odd>>
\* A further instance: suggest_instance_env_var refuses a variable that is taken.
AddInstance(t, i, v) ==
  /\ Idle(t) /\ i # Main /\ Use("adds") /\ Var(i) \notin Claimed
  /\ shell' = [shell EXCEPT ![t].task = [Adding(i) EXCEPT !.value = v]]
  /\ odd' = IF Wizards(i) # {} THEN odd \cup {<<"together", Var(i)>>} ELSE odd
  /\ UNCHANGED <<Store, entries, Module, kept, plan>>
\* write_provider_config: first, and instead of an entry of the same identity.
Promoted(i) == <<i>> \o SelectSeq(entries, LAMBDA j : j # i)
WriteEntry(t) ==
  /\ shell[t].task.at = "entry"
  /\ entries' = Promoted(shell[t].task.for)
  /\ shell' = [shell EXCEPT ![t].task = NoTask]
  /\ UNCHANGED <<Store, Module, kept, plan, used, odd>>
\* auto_init_from_env: the key is exported, and the entry names it.
AutoInit(t) ==
  /\ Idle(t) /\ shell[t].env[Default] \notin {NoKey, Blank} /\ Use("adds")
  /\ entries' = Promoted(Main)
  /\ Odd(<<"exportedOnly", Default>>)
  /\ UNCHANGED <<Store, shell, Module, kept, plan>>

-----------------------------------------------------------------------------
(***************************************************************************)
(* The module.                                                             *)
(***************************************************************************)

\* _load_provider_class.
Imports(s, deps) == s.path /\ deps /\ ~plan.defect
\* load_provider_info remembers what it found, also that there was nothing.
AskInfo(t) ==
  /\ Idle(t) /\ shell[t].memo = "unasked" /\ Use("installs")
  /\ shell' = [shell EXCEPT ![t].memo = IF Imports(shell[t], "deps" \in venv) THEN "described" ELSE "absent"]
  /\ UNCHANGED <<Store, entries, Module, kept, plan, odd>>
\* Mutant: what is remembered stays.
PathOnly(s) == [s EXCEPT !.path = TRUE]
\* _graft_sys_path.
Grafted(s) == [s EXCEPT !.path = TRUE, !.memo = "unasked"]
\* ensure_provider_available: importable already, from the clone, or fetched, or not.
Ensure(t, fetched) ==
  /\ Idle(t) /\ ~Imports(shell[t], "deps" \in venv) /\ Use("installs")
  /\ shell' = IF clone \/ fetched THEN [shell EXCEPT ![t] = Grafted(@)] ELSE shell
  /\ clone' = (clone \/ fetched)
  /\ UNCHANGED <<Store, entries, venv, kept, plan, odd>>
\* install_provider_module: into the venv of all, and into this process.
Install(t, fetched) ==
  /\ Idle(t) /\ Use("installs")
  /\ clone' = (clone \/ fetched)
  /\ IF fetched
     THEN /\ venv' = {"module", "deps"}
          /\ shell' = [shell EXCEPT ![t] = Grafted(@)]
          /\ odd' = odd \cup {<<"installed", u>> : u \in Terminals \ {t}}
     ELSE UNCHANGED <<venv, shell, odd>>
  /\ UNCHANGED <<Store, entries, kept, plan>>

-----------------------------------------------------------------------------
(***************************************************************************)
(* Preflight and launch.                                                   *)
(***************************************************************************)

Primary == IF entries = << >> THEN Main ELSE Head(entries)
\* expand_env_placeholders drops an unset variable, and the module then reads its own.
KeyOf(env, i) == IF env[Var(i)] # NoKey THEN env[Var(i)] ELSE env[Default]
Usable(v) == v \notin {NoKey, Blank}
\* Mutant: an empty variable is there.
IsThere(v) == v # NoKey
\* _check_credentials: set and not blank, of the variable that the module declares.
Present(v) == v \notin {NoKey, Blank}
Resolved(s) == [s EXCEPT !.env = Loaded(@, keysEnv), !.path = clone']

\* Mutant: what the launch would install is missed.
NeverDegrades(s, deps, strict, listed) ==
  /\ Imports(s, deps)
  /\ Present(s.env[Default]) /\ (strict => listed)
\* verify_provider: a missing dependency is left to the launch, unless the answer is to be
\* strict; then the models are listed too.
Verified(s, deps, strict, listed) ==
  /\ s.path /\ ~plan.defect
  /\ IF deps THEN Present(s.env[Default]) /\ (strict => listed) ELSE ~strict
\* run_preflight.
Preflight(t, strict, fetched, listed) ==
  /\ Idle(t) /\ Use("checks")
  /\ clone' = (clone \/ fetched)
  /\ LET s  == Resolved(shell[t])
         ok == Verified(s, "deps" \in venv, strict, listed)
         said == [of |-> "preflight", by |-> t, for |-> Primary,
                  says |-> IF ~ok THEN "blocked" ELSE IF "deps" \in venv THEN "ready" ELSE "deferred",
                  truth |-> /\ s.path /\ ~plan.defect /\ Usable(KeyOf(s.env, Primary))
                           /\ (strict => listed /\ "deps" \in venv)]
     IN /\ shell' = [shell EXCEPT ![t] = [s EXCEPT !.checked = said]]
        /\ verdict' = said
        /\ odd' = odd \cup {<<"resolved", t>>}
  /\ UNCHANGED <<Store, entries, venv, kept, plan>>
\* RealRuntime.start: the same resolution, with the dependencies; the provider mounts or not.
Launch(t, fetched, deps) ==
  /\ Idle(t) /\ shell[t].checked.says \in {"ready", "deferred"}
  /\ clone' = (clone \/ fetched)
  /\ LET s == Resolved(shell[t])
         has == IF deps THEN venv \cup {"deps"} ELSE venv
     IN /\ venv' = has
        /\ shell' = [shell EXCEPT ![t] = [s EXCEPT !.checked = NoVerdict]]
        /\ verdict' = [of |-> "launch", by |-> t, for |-> Primary,
                       says |-> IF shell[t].checked.for = Primary THEN shell[t].checked.says ELSE "other",
                       truth |-> Imports(s, "deps" \in has) /\ Usable(KeyOf(s.env, Primary))]
        /\ odd' = odd \cup {<<"resolved", u>> : u \in Terminals}
  /\ UNCHANGED <<Store, entries, kept, plan, used>>

-----------------------------------------------------------------------------
\* A process of a terminal starts, with what its user exported.
Starts(t, v) ==
  /\ ~shell[t].up
  /\ v \in plan.exports \cup {NoKey}
  /\ LET env == [NoEnv EXCEPT ![Default] = v]
     IN /\ shell' = [shell EXCEPT ![t] = [Down EXCEPT !.up = TRUE, !.env = env, !.path = "module" \in venv]]
        /\ kept' = [kept EXCEPT ![t] = env]
  /\ odd' = odd \ {<<"resolved", t>>, <<"installed", t>>}
  /\ UNCHANGED <<Store, entries, Module, plan, used>>
\* It ends or is killed; the system frees its lock.
Kill(t) ==
  /\ shell[t].up /\ Use("kills")
  /\ shell' = [shell EXCEPT ![t] = Down]
  /\ keysLock' = IF keysLock = t THEN "free" ELSE keysLock
  /\ kept' = [kept EXCEPT ![t] = NoEnv]
  /\ UNCHANGED <<keysEnv, stored, entries, Module, plan, odd>>

Init ==
  /\ plan \in Plans
  /\ keysEnv = << >> /\ keysLock = "free"
  /\ entries = << >>
  /\ shell = [t \in Terminals |-> Down]
  /\ clone = plan.clone
  /\ venv = {}
  /\ stored = NoEnv
  /\ kept = [t \in Terminals |-> NoEnv]
  /\ verdict = NoVerdict
  /\ used = [w \in {"adds", "sets", "unsets", "hands", "kills", "checks", "installs"} |-> 0]
  /\ odd = {}

Answers ==
  \E t \in Terminals, fetched, other \in BOOLEAN :
    Launch(t, fetched, other) \/ \E strict \in BOOLEAN : Preflight(t, strict, fetched, other)
Moves ==
  \/ \E t \in Terminals :
       \/ Take(t) \/ TimesOut(t) \/ Replace(t) \/ WriteEntry(t) \/ AutoInit(t) \/ AskInfo(t) \/ Kill(t)
       \/ \E v \in Values : Add(t, v) \/ \E i \in Instances : AddInstance(t, i, v)
       \/ \E n \in Variables : UnsetKey(t, n) \/ \E v \in Values : SetKey(t, n, v)
       \/ \E v \in Values \cup {NoKey, Blank} : Starts(t, v)
       \/ \E fetched \in BOOLEAN : Ensure(t, fetched) \/ Install(t, fetched)
  \/ \E n \in Variables, v \in Values : ByHand(n, v)
\* The last answer is looked at once.
Next == Answers \/ (Moves /\ verdict' = NoVerdict)
Spec == Init /\ [][Next]_vars

-----------------------------------------------------------------------------
(***************************************************************************)
(* Properties.                                                             *)
(***************************************************************************)

\* What was written or removed last is what the store has, of each name, once, whoever wrote
\* what else meanwhile, unless someone edits the file by hand.
KeysKept ==
  <<"byHand", Default>> \notin odd =>
    \A n \in Variables : LastOf(keysEnv, n) = stored[n] /\ Len(LinesOf(keysEnv, n)) <= 1
\* What the user exported stays until the process itself sets or removes the name.
ExportsStay ==
  \A t \in Terminals, n \in Variables : kept[t][n] # NoKey => shell[t].env[n] = kept[t][n]
\* An entry's key was stored before the entry, and is there unless it was removed by name or the
\* entry was taken from an exported variable.
EntriesHaveKeys ==
  \A k \in DOMAIN entries :
    stored[Var(entries[k])] # NoKey \/ <<"exportedOnly", Var(entries[k])>> \in odd \/ <<"unset", Var(entries[k])>> \in odd
\* Two instances have a variable in common only if two wizards ran at the same time.
OwnVariable ==
  \A j, k \in DOMAIN entries :
    (j # k /\ Var(entries[j]) = Var(entries[k])) => <<"together", Var(entries[j])>> \in odd
\* A provider that is said to be absent is not importable, unless the resolution of a session or
\* another process brought what it lacked.
AbsenceTrue ==
  \A t \in Terminals :
    (shell[t].memo = "absent" /\ {<<"resolved", t>>, <<"installed", t>>} \cap odd = {}) =>
      ~Imports(shell[t], "deps" \in venv)
\* Whoever is told that the launch is ready mounts the provider, if the entry still is the first
\* and needs no variable of its own; and whoever is blocked could not have launched.
PreflightHonest ==
  (verdict.says # "none" /\ Var(verdict.for) = Default) =>
    /\ (verdict.of = "launch" /\ verdict.says = "ready") => verdict.truth
    /\ (verdict.of = "preflight" /\ verdict.says = "blocked") => ~verdict.truth
CredentialsSound ==
  KeysKept /\ ExportsStay /\ EntriesHaveKeys /\ OwnVariable /\ AbsenceTrue /\ PreflightHonest

=============================================================================
