------------------------------ MODULE LiveBundles ------------------------------
(***************************************************************************)
(* Bundles that a running session takes in: by a person's command or by    *)
(* the model's tool load_bundle (kernel/runtime.py load_deferred_bundle    *)
(* and load_module, kernel/bundle_compose.py, kernel/bundle_content.py,    *)
(* kernel/bundle_summon.py), and the names they have in the settings       *)
(* (kernel/bundle_admin.py, kernel/config.py).  A bundle is an instruction *)
(* for the model, a message of the context, and modules.  Loads wait for   *)
(* each other; a load may be cancelled wherever it waits, and the context  *)
(* may be cleared or compacted.  The session's end undoes what was loaded. *)
(*                                                                         *)
(* How one provider is mounted and undone is LiveProviders.  Single slots  *)
(* (orchestrator and context) are never loaded, and left out.              *)
(***************************************************************************)
EXTENDS Naturals, Sequences, FiniteSets, Functions, SequencesExt

CONSTANTS
  Callers,    \* commands of persons, and tool calls of the model
  Bundles,    \* by their sources
  Plan,       \* the modules of each, in the order of their mounting
  Labels,     \* names of bundles in the settings
  Scopes,     \* settings files, in the order of numbers: the greater is the more specific
  Budgets     \* bounds of a behaviour: loads, cancellations, losses of context, edits

Modules == UNION {Range(Plan[b]) : b \in Bundles}
BundlesAssumption ==
  /\ Plan \in [Bundles -> Seq(Modules)] /\ \A b \in Bundles : IsInjective(Plan[b])
  /\ Scopes \subseteq Nat /\ IsFiniteSet(Scopes) /\ Labels # {}
  /\ Budgets \subseteq [loads : Nat, cuts : Nat, losses : Nat, edits : Nat]

VARIABLES
  shelf,     \* scope -> its bundle.added, and its bundle.app
  boot,      \* the names as the session read them at its start
  ledger,    \* bundle -> what its load came to, once it was attempted
  seen,      \* the modules that are not mounted again
  mounted,   \* module -> how often it is mounted
  messages,  \* what the context has: bundle -> how often its instruction; and the catalog
  handles,   \* what the session's end undoes: [is, what], in order
  job,       \* caller -> its load
  open,      \* the session has not ended
  sent,      \* catalogs in the context at the last request to the provider
  budget, spent, \* bounds, and what was spent of them
  spoilt     \* ghost: what happened that the code has no answer to
vars == <<shelf, boot, ledger, seen, mounted, messages, handles, job, open, sent, budget, spent,
          spoilt>>

NoJob == [at |-> "off", bundle |-> "none", left |-> << >>, got |-> << >>, missed |-> {},
          fails |-> FALSE, undoes |-> FALSE]
Catalog == "catalog"
At(c, step) == job[c].at = step
Goes(c, step) == job' = [job EXCEPT ![c].at = step]
Inside == {c \in Callers : job[c].at \in {"prepare", "content", "mount", "register"}}
Spend(what) == spent[what] < budget[what] /\ spent' = [spent EXCEPT ![what] = @ + 1]
Spoil(what) == spoilt' = spoilt \cup {what}
Handle(is, what) == [is |-> is, what |-> what]
Settings == <<shelf, boot, budget>>
Loaded == <<ledger, seen, handles>>

-----------------------------------------------------------------------------
(***************************************************************************)
(* Names.                                                                  *)
(***************************************************************************)

\* The merged bundle.added and bundle.app: names of all scopes, the list of the most specific.
Added ==
  [l \in UNION {DOMAIN shelf[s].added : s \in Scopes} |->
     shelf[CHOOSE s \in Scopes : /\ l \in DOMAIN shelf[s].added
                                 /\ \A r \in Scopes : l \in DOMAIN shelf[r].added => r <= s].added[l]]
Overlays ==
  LET with == {s \in Scopes : shelf[s].app # {}}
  IN IF with = {} THEN {} ELSE shelf[CHOOSE s \in with : \A r \in with : r <= s].app

\* _resolve_live_bundle_uri: a source, a name of the session's start, or one added since.
Resolved(target) ==
  IF target \in Bundles THEN target
  ELSE IF target \in DOMAIN boot THEN boot[target]
  ELSE IF target \in DOMAIN Added THEN Added[target] ELSE "none"

\* add_bundle: the name, and with --app the overlay.
Add(s, label, b, app) ==
  /\ Spend("edits")
  /\ shelf' = [shelf EXCEPT ![s].added = [l \in DOMAIN @ \cup {label} |-> IF l = label THEN b ELSE @[l]],
                            ![s].app = IF app THEN @ \cup {b} ELSE @]
  /\ spoilt' = IF label \in DOMAIN shelf[s].added /\ shelf[s].added[label] # b
               THEN spoilt \cup {"renamed"} ELSE spoilt
  /\ UNCHANGED <<boot, Loaded, mounted, messages, job, open, sent, budget>>
\* Mutant: the overlay stays.
RemovesName(s, label) ==
  [added |-> Restrict(shelf[s].added, DOMAIN shelf[s].added \ {label}), app |-> shelf[s].app]
\* remove_bundle: the name, and its bundle from the overlays.
Removed(s, label) ==
  [added |-> Restrict(shelf[s].added, DOMAIN shelf[s].added \ {label}),
   app |-> shelf[s].app \ {shelf[s].added[label]}]
DropLabel(s, label) ==
  /\ label \in DOMAIN shelf[s].added /\ Spend("edits")
  /\ shelf' = [shelf EXCEPT ![s] = Removed(s, label)]
  /\ UNCHANGED <<boot, Loaded, mounted, messages, job, open, sent, budget, spoilt>>

-----------------------------------------------------------------------------
(***************************************************************************)
(* Loading a bundle.                                                       *)
(***************************************************************************)

Init ==
  /\ budget \in Budgets
  /\ boot = [l \in {CHOOSE l \in Labels : TRUE} |-> CHOOSE b \in Bundles : TRUE]
  /\ shelf = [s \in Scopes |-> IF \A r \in Scopes : s <= r THEN [added |-> boot, app |-> Range(boot)]
                               ELSE [added |-> << >>, app |-> {}]]
  /\ ledger = [b \in Bundles |-> "none"]
  /\ seen = {} /\ mounted = [m \in Modules |-> 0]
  /\ messages = [b \in Bundles \cup {Catalog} |-> 0]
  /\ handles = << >>
  /\ job = [c \in Callers |-> NoJob]
  /\ open = TRUE /\ sent = 1
  /\ spent = [loads |-> 0, cuts |-> 0, losses |-> 0, edits |-> 0]
  /\ spoilt = {}

\* load_deferred_bundle, of a bundle that can be resolved.
Ask(c, target) ==
  /\ At(c, "off") /\ open /\ Resolved(target) # "none" /\ Spend("loads")
  /\ job' = [job EXCEPT ![c] = [NoJob EXCEPT !.at = "wait", !.bundle = Resolved(target)]]
  /\ UNCHANGED <<Settings, Loaded, mounted, messages, open, sent, spoilt>>

\* The lock; what was attempted before is reported again.
Enter(c) ==
  /\ At(c, "wait") /\ Inside = {}
  /\ IF ledger[job[c].bundle] # "none" \/ ~open
     THEN job' = [job EXCEPT ![c] = NoJob]
     ELSE Goes(c, "prepare")
  /\ UNCHANGED <<Settings, Loaded, mounted, messages, open, sent, spent, spoilt>>
\* prepare_live_overlay_bundle; a failure may be tried again.
Prepare(c) ==
  /\ At(c, "prepare")
  /\ \/ job' = [job EXCEPT ![c].at = "content", ![c].left = Plan[job[c].bundle]]
     \/ job' = [job EXCEPT ![c] = NoJob]
  /\ UNCHANGED <<Settings, Loaded, mounted, messages, open, sent, spent, spoilt>>
\* activate_bundle_content: there is nothing to say, it fails, or the message is added.
Activate(c) ==
  /\ At(c, "content")
  /\ \/ \E fails \in BOOLEAN :
          job' = [job EXCEPT ![c].at = "mount", ![c].fails = fails] /\ UNCHANGED messages
     \/ /\ job' = [job EXCEPT ![c].at = "mount", ![c].undoes = TRUE]
        /\ messages' = [messages EXCEPT ![job[c].bundle] = @ + 1]
  /\ UNCHANGED <<Settings, Loaded, mounted, open, sent, spent, spoilt>>

\* Mutant: a module of an earlier load is mounted again.
MountsAnyway(m) == FALSE
\* The ledger of modules.
AlreadyThere(m) == m \in seen
\* mount_overlay_modules, of one module: it is there, it is mounted, or it fails; a failure of
\* the module after it registered itself leaves that behind.
MountNext(c) ==
  LET m == Head(job[c].left)
  IN /\ At(c, "mount") /\ job[c].left # << >>
     /\ \/ /\ AlreadyThere(m)
           /\ job' = [job EXCEPT ![c].left = Tail(@)] /\ UNCHANGED <<seen, mounted, spoilt>>
        \/ /\ ~AlreadyThere(m)
           /\ seen' = seen \cup {m} /\ mounted' = [mounted EXCEPT ![m] = @ + 1]
           /\ job' = [job EXCEPT ![c].left = Tail(@), ![c].got = Append(@, m)] /\ UNCHANGED spoilt
        \/ /\ ~AlreadyThere(m)
           /\ job' = [job EXCEPT ![c].left = Tail(@), ![c].missed = @ \cup {m}]
           /\ \/ UNCHANGED <<mounted, spoilt>>
              \/ mounted' = [mounted EXCEPT ![m] = @ + 1] /\ Spoil("left")
           /\ UNCHANGED seen
  /\ UNCHANGED <<Settings, ledger, handles, messages, open, sent, spent>>
\* Then the callbacks of _dispatch_ready_callbacks.
AllMounted(c) ==
  /\ At(c, "mount") /\ job[c].left = << >> /\ Goes(c, "register")
  /\ UNCHANGED <<Settings, Loaded, mounted, messages, open, sent, spent, spoilt>>

\* ComposeResult.ok.
Succeeds(j) == Len(j.got) > 0 \/ Range(Plan[j.bundle]) \ j.missed # {} \/ (j.missed = {} /\ ~j.fails)
Undoing(j) ==
  [i \in DOMAIN j.got |-> Handle("module", j.got[i])]
  \o (IF j.undoes THEN <<Handle("content", j.bundle)>> ELSE << >>)
\* Mutant: only what succeeded as a whole is undone at the end.
RegistersSuccess(c) == IF Succeeds(job[c]) THEN Undoing(job[c]) ELSE << >>
\* What the load registers to be undone.
Registered(c) == Undoing(job[c])
\* What is registered after the end is not undone.
Register(c) ==
  /\ At(c, "register")
  /\ IF open
     THEN /\ handles' = handles \o Registered(c)
          /\ ledger' = [ledger EXCEPT ![job[c].bundle] = IF Succeeds(job[c]) THEN "ok" ELSE "failed"]
          /\ UNCHANGED spoilt
     ELSE Spoil("late") /\ UNCHANGED <<handles, ledger>>
  /\ job' = [job EXCEPT ![c] = NoJob]
  /\ UNCHANGED <<Settings, seen, mounted, messages, open, sent, spent>>

\* load_module: one module of the same ledger, under the same lock.
LoadModule(c, m) ==
  /\ At(c, "off") /\ open /\ Inside = {} /\ Spend("loads")
  /\ \/ /\ ~AlreadyThere(m)
        /\ seen' = seen \cup {m} /\ mounted' = [mounted EXCEPT ![m] = @ + 1]
        /\ handles' = Append(handles, Handle("module", m))
     \/ UNCHANGED <<seen, mounted, handles>>
  /\ UNCHANGED <<Settings, ledger, messages, job, open, sent, spoilt>>

\* The turn or the command is cancelled while it waits for a module, or before.
Cut(c) ==
  /\ ~At(c, "off") /\ Spend("cuts")
  /\ job' = [job EXCEPT ![c] = NoJob]
  /\ spoilt' = IF job[c].got # << >> \/ job[c].undoes THEN spoilt \cup {"cut"} ELSE spoilt
  /\ UNCHANGED <<Settings, Loaded, mounted, messages, open, sent>>

-----------------------------------------------------------------------------
(***************************************************************************)
(* The context, and the end.                                               *)
(***************************************************************************)

\* /clear and compaction.
Lose ==
  /\ Spend("losses")
  /\ \E lost \in SUBSET DOMAIN messages :
       messages' = [x \in DOMAIN messages |-> IF x \in lost THEN 0 ELSE messages[x]]
  /\ UNCHANGED <<Settings, Loaded, mounted, job, open, sent, spoilt>>
\* Mutant: the catalog is put there once.
CatalogOnce == IF sent = 1 THEN messages[Catalog] ELSE messages[Catalog] + 1
\* DeferredCatalogInjector.handle_event.
CatalogKept == IF messages[Catalog] > 0 THEN messages[Catalog] ELSE 1
Request ==
  /\ open
  /\ messages' = [messages EXCEPT ![Catalog] = CatalogKept]
  /\ sent' = messages'[Catalog]
  /\ UNCHANGED <<Settings, Loaded, mounted, job, open, spent, spoilt>>

\* InitializedSession.cleanup.
Times(is, what) == Cardinality({i \in DOMAIN handles : handles[i] = Handle(is, what)})
Minus(n, k) == IF k <= n THEN n - k ELSE 0
Close ==
  /\ open /\ open' = FALSE
  /\ mounted' = [m \in Modules |-> Minus(mounted[m], Times("module", m))]
  /\ messages' = [x \in DOMAIN messages |-> IF Times("content", x) > 0 THEN 0 ELSE messages[x]]
  /\ handles' = << >>
  /\ UNCHANGED <<Settings, ledger, seen, job, sent, spent, spoilt>>

Next ==
  \/ \E s \in Scopes, l \in Labels :
       DropLabel(s, l) \/ \E b \in Bundles, app \in BOOLEAN : Add(s, l, b, app)
  \/ \E c \in Callers :
       \/ \E target \in Bundles \cup Labels : Ask(c, target)
       \/ \E m \in Modules : LoadModule(c, m)
       \/ Enter(c) \/ Prepare(c) \/ Activate(c) \/ MountNext(c) \/ AllMounted(c) \/ Register(c) \/ Cut(c)
  \/ Lose \/ Request \/ Close

Spec == Init /\ [][Next]_vars

-----------------------------------------------------------------------------
(***************************************************************************)
(* Properties.                                                             *)
(***************************************************************************)

\* What the jobs that run will register.
Held(is, what) ==
  Cardinality({c \in Callers : \E i \in DOMAIN Undoing(job[c]) : Undoing(job[c])[i] = Handle(is, what)})
Whole == spoilt \cap {"cut", "left", "late"} = {}

\* Whoever asks for it, and however often, a module is mounted once, and it will be undone once:
\* by the session's end, or by the load that runs.  After the end nothing stays, unless a load
\* was cancelled, outlived the end, or mounted a module that failed half way.
OnceAndUndone ==
  Whole => \A m \in Modules : mounted[m] <= 1 /\ mounted[m] = Times("module", m) + Held("module", m)

\* The same of a bundle's instruction; a context that was cleared has lost it.
ContentOnce ==
  Whole => \A b \in Bundles :
    /\ messages[b] <= 1 /\ messages[b] <= Times("content", b) + Held("content", b)
    /\ spent.losses = 0 => messages[b] = Times("content", b) + Held("content", b)

\* A bundle that is reported as loaded has a module there or brings none.
LoadedServes ==
  open => \A b \in Bundles :
    ledger[b] = "ok" /\ Plan[b] # << >> => \E m \in Range(Plan[b]) : mounted[m] > 0

\* The model is offered the catalog once with every request, whatever was cleared before.
CatalogThere == sent = 1 /\ messages[Catalog] <= 1

\* What is composed onto every session is registered under a name, and so can be removed, unless
\* its name was given to another bundle.
OverlayNamed ==
  "renamed" \notin spoilt =>
    \A s \in Scopes : shelf[s].app \subseteq Range(shelf[s].added)

BundlesSound == OnceAndUndone /\ ContentOnce /\ LoadedServes /\ CatalogThere /\ OverlayNamed
=============================================================================
