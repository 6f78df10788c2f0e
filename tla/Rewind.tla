-------------------------------- MODULE Rewind --------------------------------
(***************************************************************************)
(* Turns, forks and checkpoint restores of one live session                *)
(* (kernel/runtime.py, kernel/rewind.py), the session files they write     *)
(* (kernel/persistence.py), and the branch of workspace checkpoints        *)
(* (kernel/checkpoints.py) that must follow the conversation.              *)
(*                                                                         *)
(* A restore is one coroutine of many durable steps; the process may die   *)
(* between any two and any write may fail.  A turn is one message here,    *)
(* named by its number, which is also the id of its workspace checkpoint.  *)
(* The files a code restore rewrites are WorkspaceRestore's matter: here   *)
(* it succeeds, or it does not.                                            *)
(*                                                                         *)
(* A write that fails may raise before its file was replaced or after, at  *)
(* the chmod or the fsync of the directory: then what the caller takes for *)
(* undone is on disk.  An intent that was cancelled and could not be       *)
(* removed counts as removed, but for that of the branch after its         *)
(* withdrawal failed, where the retry tells them apart.                    *)
(***************************************************************************)
EXTENDS Naturals, Sequences, SequencesExt, FiniteSets

CONSTANTS MaxTurns,    \* bound: turns begun
          Untracked,   \* turns in plan or brainstorm mode: no workspace checkpoint
          MaxBranch,   \* max_checkpoints
          MaxForks,    \* bound: forks in the event log
          MaxRewinds,  \* bound: restores of the conversation begun
          MaxFaults,   \* bound: failing writes and rejected contexts
          MaxCrashes   \* bound: the process dies

ASSUME RewindAssumption ==
  /\ {MaxTurns, MaxForks, MaxRewinds, MaxFaults, MaxCrashes} \subseteq Nat
  /\ Untracked \subseteq 1 .. MaxTurns
  /\ MaxBranch \in Nat \ {0}

VARIABLES
  transcript,  \* transcript.jsonl
  events,      \* ui-events.jsonl: prompts and rewind markers
  torn,        \* its last line is incomplete
  intent,      \* rewind-intent.json
  staged,      \* visible-branch-intent.json
  order,       \* index.json: the active workspace checkpoints
  life,
  phase,       \* where the live session's turn or restore stands
  job,         \* the restore in progress
  context,     \* the messages of the context module
  mark,        \* IncrementalSaver._last_message_count
  ledger,      \* the client's OutcomeLedger
  recovery,    \* _rewind_recovery_pending
  diskDone,    \* _rewind_recovery_disk_reconciled
  wsPending,   \* _workspace_reconcile_pending
  used, marks, \* turns and restores begun so far
  cleared,     \* restores whose code half is done, or not asked for
  lapsed,      \* an event was lost, a turn or fork unsaved at a crash or begun over a ready
               \* intent, a fork undone, the ledger stale when used, or a rollback refused
  stray,       \* restores given up since the start that a failing write or withdrawal, or
               \* a refused rollback, left on disk
  known,       \* the turns any decided history held
  faults, crashes

disk   == <<transcript, events, torn, intent, staged, order>>
memory == <<context, mark, ledger, recovery, diskDone, wsPending>>
ghosts == <<used, marks, cleared, lapsed, stray, faults, crashes>>
vars   == <<disk, life, phase, job, memory, ghosts, known>>

None == [id |-> 0]
Cancelled == [id |-> 0, visible |-> {}]
Ready == intent.id # 0 /\ intent.ready
Ids == 1 .. MaxTurns
Scopes == {"both", "conversation", "code"}
TurnPhases == {"opening", "running", "answered"}
Phases == TurnPhases \cup {"idle", "staging", "applying", "coding", "arming", "committing",
                           "unstaging", "saving", "reconciling", "branching"}

Prompt(t) == [kind |-> "prompt", turn |-> t, kept |-> 0, id |-> 0]
Marker(n, kept) == [kind |-> "rewind", turn |-> 0, kept |-> kept, id |-> n]
Marked(n) == \E i \in DOMAIN events : events[i].kind = "rewind" /\ events[i].id = n

First(s, k) == SubSeq(s, 1, IF k <= Len(s) THEN k ELSE Len(s))
Before(s, t) == First(s, SelectInSeq(s, LAMBDA x : x = t) - 1)

\* drop_rewound_events: a marker truncates the replay to the turns it kept.
Shows(ts, e) == IF e.kind = "prompt" THEN Append(ts, e.turn) ELSE First(ts, e.kept)
Replay(es) ==
  LET shown[i \in 0 .. Len(es)] == IF i = 0 THEN << >> ELSE Shows(shown[i - 1], es[i])
  IN  shown[Len(es)]

-----------------------------------------------------------------------------
(***************************************************************************)
(* Writes.                                                                 *)
(***************************************************************************)

Fails(n) == faults + n <= MaxFaults /\ faults' = faults + n
NoFault == UNCHANGED faults
Strays == stray' = stray \cup {job.id}

\* append_event: after a torn line the event is lost with it, unless some other
\* event was appended in between.
Appends(e, astray) ==
  /\ torn' = FALSE
  /\ \/ events' = Append(events, e) /\ lapsed' = (lapsed \/ astray)
     \/ torn /\ UNCHANGED events /\ lapsed' = TRUE

\* IncrementalSaver.maybe_save.
MaybeSaves ==
  IF Len(context) > mark
  THEN \/ transcript' = context /\ mark' = Len(context) /\ NoFault
       \/ transcript' \in {transcript, context} /\ UNCHANGED mark /\ Fails(1)
  ELSE UNCHANGED <<transcript, mark>> /\ NoFault

\* Mutant: the marker is written with the transcript only.
MarksWithSave(n) == ~Marked(n) /\ transcript # intent.messages
NeedsMarker(n) == ~Marked(n)

\* reconcile_rewind_intent, up to its done-th write: the transcript, the marker
\* with its event id, the removal of the intent.
Reconciles(done) ==
  LET n == intent.id IN
  IF ~intent.ready
  THEN intent' = (IF done = 3 THEN None ELSE intent) /\ UNCHANGED <<transcript, events, torn>>
  ELSE LET adds == done >= 2 /\ NeedsMarker(n) IN
       /\ transcript' = IF done >= 1 THEN intent.messages ELSE transcript
       /\ events' = IF adds THEN Append(events, Marker(n, intent.kept)) ELSE events
       /\ torn' = (torn /\ ~adds)
       /\ intent' = IF done = 3 THEN None ELSE intent

\* reconcile_visible: the checkpoints that stay must be the oldest ones.
Oldest(visible, k) == {i \in DOMAIN order : order[i] \in visible} = 1 .. k
Contiguous(visible) == \E k \in 0 .. Len(order) : Oldest(visible, k)
CutsTo(visible) == \E k \in 0 .. Len(order) : Oldest(visible, k) /\ order' = First(order, k)

\* A recovery after a restart cuts the context, and nobody tells the client.
Stale == ledger # context

Idle == life = "up" /\ phase = "idle"
Halfway == phase \in {"applying", "arming"} \/ (phase = "coding" /\ job.scope = "both")
At(p) == life = "up" /\ phase = p
Leaves == phase' = "idle" /\ job' = None

-----------------------------------------------------------------------------
(***************************************************************************)
(* A turn.  submit refuses while a recovery is pending.                    *)
(***************************************************************************)

\* WorkspaceCheckpointStore.begin, before the prompt is echoed.
SubmitTurn ==
  /\ Idle /\ ~recovery
  /\ used < MaxTurns
  /\ used' = used + 1
  /\ LET longer == IF used' \in Untracked THEN order ELSE Append(order, used') IN
     order' = IF Len(longer) > MaxBranch THEN Tail(longer) ELSE longer
  /\ phase' = "opening"
  /\ UNCHANGED <<transcript, events, torn, intent, staged, life, job, memory,
                 marks, cleared, lapsed, stray, faults, crashes>>

\* The prompt is emitted, and the tap appends it to the event log.
OpenTurn ==
  /\ At("opening")
  /\ Appends(Prompt(used), Ready)
  /\ phase' = "running"
  /\ UNCHANGED <<transcript, intent, staged, order, life, job, memory,
                 used, marks, cleared, stray, faults, crashes>>

Answer ==
  /\ At("running")
  /\ context' = Append(context, used)
  /\ phase' = "answered"
  /\ UNCHANGED <<disk, life, job, mark, ledger, recovery, diskDone, wsPending, ghosts>>

\* on_tool_post.
SaveAfterTool ==
  /\ At("answered")
  /\ MaybeSaves
  /\ UNCHANGED <<events, torn, intent, staged, order, life, phase, job, context, ledger,
                 recovery, diskDone, wsPending, used, marks, cleared, lapsed, stray, crashes>>

\* The end of submit: finish, maybe_save, and the close-out the ledger records.
EndTurn ==
  /\ At("answered")
  /\ MaybeSaves
  /\ ledger' = Append(ledger, used)
  /\ phase' = "idle"
  /\ UNCHANGED <<events, torn, intent, staged, order, life, job, context, recovery, diskDone,
                 wsPending, used, marks, cleared, lapsed, stray, crashes>>

-----------------------------------------------------------------------------
(***************************************************************************)
(* fork: keeps the turn it names.  It does not look at a pending recovery, *)
(* which undoes it and leaves its marker.                                  *)
(***************************************************************************)
ForkAt(t) ==
  /\ Idle
  /\ Len(SelectSeq(events, LAMBDA e : e.kind = "rewind" /\ e.id = 0)) < MaxForks
  /\ t \in Range(ledger) \cap Range(context)
  /\ context' = Append(Before(context, t), t)
  /\ ledger' = Append(Before(ledger, t), t)
  /\ Appends(Marker(0, Len(ledger')), recovery \/ Stale \/ Ready)
  /\ UNCHANGED <<transcript, intent, staged, order, life, phase, job, mark, recovery,
                 diskDone, wsPending, used, marks, cleared, stray, faults, crashes>>

-----------------------------------------------------------------------------
(***************************************************************************)
(* restore_checkpoint, step by step.                                       *)
(***************************************************************************)

\* Mutant: the intent of a combined restore is ready before its code half.
ReadyAtOnce(scope) == TRUE
ReadyFromStart(scope) == scope # "both"

\* begin_rewind_intent, for all but a restore of the code alone.
Writes(n, scope, t) ==
  intent' = [id |-> n, kept |-> Len(Before(ledger, t)), messages |-> Before(context, t),
             ready |-> ReadyFromStart(scope)]
CanRestore(scope, t) ==
  /\ Idle /\ ~recovery
  /\ t \in Range(ledger)
  /\ scope # "code" => t \in Range(context) /\ marks < MaxRewinds

BeginRestore(scope, t) ==
  /\ CanRestore(scope, t)
  /\ LET talks == scope # "code"
         n == IF talks THEN marks + 1 ELSE 0 IN
     /\ job' = [id |-> n, scope |-> scope, target |-> t,
                original |-> context, visible |-> Range(Before(ledger, t))]
     /\ marks' = IF talks THEN n ELSE marks
     /\ IF talks THEN Writes(n, scope, t) ELSE UNCHANGED intent
     /\ cleared' = IF scope = "conversation" THEN cleared \cup {n} ELSE cleared
     /\ lapsed' = (lapsed \/ (talks /\ Stale))
  /\ phase' = CASE scope = "conversation" -> "staging" [] scope = "both" -> "applying"
                [] scope = "code" -> "coding"
  /\ UNCHANGED <<transcript, events, torn, staged, order, life, memory, used,
                 stray, faults, crashes>>

\* It raises once the intent is there, and nobody withdraws it; where it raises before,
\* nothing happened.
BeginFails(scope, t) ==
  /\ scope # "code" /\ CanRestore(scope, t)
  /\ Fails(1)
  /\ marks' = marks + 1
  /\ Writes(marks', scope, t)
  /\ cleared' = IF scope = "conversation" THEN cleared \cup {marks'} ELSE cleared
  /\ lapsed' = (lapsed \/ Stale)
  /\ stray' = stray \cup {marks'}
  /\ UNCHANGED <<transcript, events, torn, staged, order, life, phase, job, memory, used,
                 crashes>>

Plan == intent.messages

\* cancel_rewind_intent of what i has on disk, after n failures; it may fail as well.
Cancels(n, i) == \/ Fails(n) /\ intent' = None /\ UNCHANGED stray
                 \/ Fails(n + 1) /\ intent' = i /\ Strays

Branch == [id |-> job.id, visible |-> job.visible]

\* stage_visible_reconcile: only the rewind intent is cancelled if it raises.
Stage ==
  /\ At("staging")
  /\ \/ /\ staged' = Branch
        /\ wsPending' = TRUE
        /\ phase' = "committing"
        /\ NoFault
        /\ UNCHANGED <<intent, job, stray>>
     \/ Cancels(1, intent) /\ Leaves /\ UNCHANGED <<staged, wsPending>>
     \/ /\ staged' = Branch
        /\ (Fails(1) /\ intent' = None) \/ (Fails(2) /\ UNCHANGED intent)
        /\ Strays /\ Leaves /\ UNCHANGED wsPending
  /\ UNCHANGED <<transcript, events, torn, order, life, context, mark, ledger, recovery,
                 diskDone, used, marks, cleared, lapsed, crashes>>

\* apply_prepared_restore: the conversation first, without trimming the ledger.
Apply ==
  /\ At("applying")
  /\ \/ context' = Plan /\ phase' = "coding" /\ NoFault /\ UNCHANGED <<intent, job, stray>>
     \/ Cancels(1, intent) /\ Leaves /\ UNCHANGED context
  /\ UNCHANGED <<transcript, events, torn, staged, order, life, mark, ledger, recovery,
                 diskDone, wsPending, used, marks, cleared, lapsed, crashes>>

\* rollback_combined_conversation, after n failures and with the intent i on disk.
RollsBack(n, i) ==
  /\ \/ context' = job.original /\ Cancels(n, i) /\ UNCHANGED lapsed
     \/ Fails(n + 1) /\ intent' = i /\ UNCHANGED context /\ lapsed' = TRUE /\ Strays
  /\ Leaves

\* The code half is complete: the checkpoint was restored, or already was.
RestoreCode ==
  /\ At("coding")
  /\ order' = IF job.scope = "both" /\ job.target \in Range(order)
              THEN Before(order, job.target) ELSE order
  /\ IF job.scope = "both" THEN phase' = "arming" /\ UNCHANGED job ELSE Leaves
  /\ cleared' = cleared \cup {job.id}
  /\ UNCHANGED <<transcript, events, torn, intent, staged, life, memory, used, marks, lapsed,
                 stray, faults, crashes>>

\* A conflict, no checkpoint, or an error: a combined restore keeps the conversation.
CodeIncomplete ==
  /\ At("coding")
  /\ IF job.scope = "both" THEN RollsBack(0, intent)
     ELSE Leaves /\ NoFault /\ UNCHANGED <<context, intent, lapsed, stray>>
  /\ UNCHANGED <<transcript, events, torn, staged, order, life, mark, ledger, recovery,
                 diskDone, wsPending, used, marks, cleared, crashes>>

\* arm_rewind_intent.
Arm ==
  /\ At("arming")
  /\ LET armed == [intent EXCEPT !.ready = TRUE] IN
     \/ /\ intent' = armed /\ phase' = "committing" /\ NoFault
        /\ UNCHANGED <<context, job, lapsed, stray>>
     \/ \E i \in {intent, armed} : RollsBack(1, i)
  /\ UNCHANGED <<transcript, events, torn, staged, order, life, mark, ledger, recovery,
                 diskDone, wsPending, used, marks, cleared, crashes>>

\* commit_prepared_restore and confirm_prepared_restore: the ledger is trimmed once
\* the context took the messages.
Commit ==
  /\ At("committing")
  /\ context' = Plan
  /\ ledger' = Before(ledger, job.target)
  /\ phase' = "saving"
  /\ UNCHANGED <<disk, life, job, mark, recovery, diskDone, wsPending, ghosts>>

\* The context refuses the messages of a conversation restore.
Reject ==
  /\ At("committing") /\ job.scope = "conversation"
  /\ \/ Fails(1) /\ intent' = None /\ phase' = "unstaging" /\ UNCHANGED <<job, stray>>
     \/ Fails(2) /\ intent' \in {intent, None} /\ Strays /\ Leaves
  /\ UNCHANGED <<transcript, events, torn, staged, order, life, memory,
                 used, marks, cleared, lapsed, crashes>>

\* cancel_visible_reconcile.
Unstage ==
  /\ At("unstaging")
  /\ \/ staged' = None /\ wsPending' = FALSE /\ NoFault /\ UNCHANGED stray
     \/ Fails(1) /\ staged' \in {staged, Cancelled, None} /\ Strays /\ UNCHANGED wsPending
  /\ Leaves
  /\ UNCHANGED <<transcript, events, torn, intent, order, life, context, mark, ledger,
                 recovery, diskDone, used, marks, cleared, lapsed, crashes>>

\* force_save; a failure is only logged.
Save ==
  /\ At("saving")
  /\ \/ transcript' = context /\ mark' = Len(context) /\ NoFault
     \/ Fails(1) /\ transcript' \in {transcript, context} /\ UNCHANGED mark
  /\ phase' = "reconciling"
  /\ UNCHANGED <<events, torn, intent, staged, order, life, job, context, ledger, recovery,
                 diskDone, wsPending, used, marks, cleared, lapsed, stray, crashes>>

Reconcile ==
  /\ At("reconciling")
  /\ \E done \in 0 .. 3 :
       /\ Reconciles(done)
       /\ IF done = 3
          THEN /\ mark' = Len(Plan)
               /\ recovery' = FALSE /\ diskDone' = FALSE
               /\ phase' = "branching"
               /\ NoFault /\ UNCHANGED job
          ELSE /\ recovery' = TRUE /\ diskDone' = FALSE
               /\ IF job.scope = "both" THEN phase' = "branching" /\ UNCHANGED job ELSE Leaves
               /\ Fails(1) /\ UNCHANGED mark
  /\ UNCHANGED <<staged, order, life, context, ledger, wsPending, used, marks, cleared, lapsed,
                 stray, crashes>>

MarkerDurable == staged.id # 0 /\ \E i \in DOMAIN events' : events'[i].kind = "rewind"
                                                            /\ events'[i].id = staged.id

\* reconcile_staged_visible.  If it raises, the branch may be cut and its intent gone.
CommitsBranch ==
  /\ \/ MarkerDurable /\ CutsTo(staged.visible)
     \/ staged = Cancelled /\ UNCHANGED order
  /\ staged' = None
BranchFails ==
  IF MarkerDurable /\ Contiguous(staged.visible)
  THEN /\ Fails(1)
       /\ \/ UNCHANGED <<order, staged>>
          \/ CutsTo(staged.visible) /\ staged' \in {staged, None}
  ELSE NoFault /\ UNCHANGED <<order, staged>>

\* The branch follows the conversation: the staged one, or that of the restore.
FollowBranch ==
  /\ At("branching")
  /\ UNCHANGED events
  /\ IF job.scope = "conversation"
     THEN \/ /\ CommitsBranch
             /\ wsPending' = FALSE
             /\ NoFault /\ UNCHANGED <<recovery, diskDone>>
          \/ /\ BranchFails
             /\ recovery' = TRUE /\ diskDone' = TRUE
             /\ UNCHANGED wsPending
     ELSE /\ \/ CutsTo(job.visible) /\ (NoFault \/ Fails(1))
             \/ /\ IF Contiguous(job.visible) THEN Fails(1) ELSE NoFault
                /\ UNCHANGED order
          /\ UNCHANGED <<staged, recovery, diskDone, wsPending>>
  /\ Leaves
  /\ UNCHANGED <<transcript, torn, intent, life, context, mark, ledger,
                 used, marks, cleared, lapsed, stray, crashes>>

-----------------------------------------------------------------------------
(***************************************************************************)
(* _retry_rewind_recovery, at the next submit or restore.                  *)
(***************************************************************************)

SettlesDisk ==
  IF diskDone THEN UNCHANGED <<transcript, events, torn, intent>>
              ELSE intent.id # 0 /\ Reconciles(3)

\* Mutant: the live context is taken to be what was restored.
NotReloaded == context
Reloaded == transcript'

RetryRecovery ==
  /\ Idle /\ recovery
  /\ SettlesDisk
  /\ IF wsPending THEN CommitsBranch ELSE UNCHANGED <<order, staged>>
  /\ context' = Reloaded
  /\ mark' = Len(transcript')
  /\ recovery' = FALSE /\ diskDone' = FALSE /\ wsPending' = FALSE
  /\ UNCHANGED <<life, phase, job, ledger, ghosts>>

\* The disk is settled, the branch is not.
RetryHalf ==
  /\ Idle /\ recovery /\ wsPending /\ staged # Cancelled
  /\ SettlesDisk
  /\ BranchFails
  /\ context' = Reloaded
  /\ diskDone' = TRUE
  /\ UNCHANGED <<life, phase, job, mark, ledger, recovery, wsPending,
                 used, marks, cleared, lapsed, stray, crashes>>

RetryFails ==
  /\ Idle /\ recovery /\ ~diskDone
  /\ intent.id # 0
  /\ \E done \in 0 .. 2 : Reconciles(done)
  /\ Fails(1)
  /\ UNCHANGED <<staged, order, life, phase, job, memory, used, marks, cleared, lapsed, stray,
                 crashes>>

-----------------------------------------------------------------------------
(***************************************************************************)
(* The process dies, and the session is resumed.                           *)
(***************************************************************************)

\* What the log tells of and neither the transcript nor a ready intent has.
Unsaved ==
  ~Ready /\ (phase = "running" \/ transcript # (IF Halfway THEN job.original ELSE context))

Crash ==
  /\ life = "up" /\ crashes < MaxCrashes
  /\ crashes' = crashes + 1
  /\ life' = "down"
  /\ Leaves
  /\ torn' \in {torn, torn \/ phase \in TurnPhases \cup {"reconciling"}}
  /\ context' = << >> /\ mark' = 0 /\ ledger' = << >>
  /\ recovery' = FALSE /\ diskDone' = FALSE /\ wsPending' = FALSE
  /\ lapsed' = (lapsed \/ Unsaved)
  /\ UNCHANGED <<transcript, events, intent, staged, order, used, marks, cleared, stray,
                 faults>>

\* SessionStore.load; pending says whether it left the intent.
Loads(pending) ==
  IF intent.id = 0
  THEN ~pending /\ NoFault /\ UNCHANGED <<transcript, events, torn, intent>>
  ELSE \E done \in 0 .. 3 :
         /\ Reconciles(done)
         /\ pending = (done < 3)
         /\ IF pending THEN Fails(1) ELSE NoFault

\* The client replays the events, and drops a ledger that disagrees with the transcript.
ReplaysLedger ==
  ledger' = IF Replay(events') = transcript' THEN transcript' ELSE << >>

\* Mutants: the staged branch alone leaves the gate open, or counts as all there is.
ClosesForIntent(pending) == pending
ClosesGate(pending) == pending \/ staged'.id # 0
OnlyBranch(pending) == staged'.id # 0
DiskSettled(pending) == ~pending /\ staged'.id # 0

\* Another session's turn may hold the workspace: the staged branch waits.
Start ==
  /\ life = "down"
  /\ \E pending \in BOOLEAN :
       /\ Loads(pending)
       /\ \/ CommitsBranch
          \/ UNCHANGED <<staged, order>>
       /\ recovery' = ClosesGate(pending)
       /\ diskDone' = DiskSettled(pending)
  /\ wsPending' = (staged'.id # 0)
  /\ context' = transcript' /\ mark' = 0
  /\ ReplaysLedger
  /\ life' = "up"
  /\ stray' = {}
  /\ UNCHANGED <<phase, job, used, marks, cleared, lapsed, crashes>>

\* The workspace store refuses to open on a branch it cannot commit.
RefusedStart ==
  /\ life = "down"
  /\ \E pending \in BOOLEAN : Loads(pending)
  /\ staged.id # 0 /\ MarkerDurable /\ ~Contiguous(staged.visible)
  /\ UNCHANGED <<staged, order, life, phase, job, memory, used, marks, cleared, lapsed, stray, crashes>>

-----------------------------------------------------------------------------
Init ==
  /\ transcript = << >> /\ events = << >> /\ torn = FALSE
  /\ intent = None /\ staged = None /\ order = << >>
  /\ life = "up" /\ phase = "idle" /\ job = None
  /\ context = << >> /\ mark = 0 /\ ledger = << >>
  /\ recovery = FALSE /\ diskDone = FALSE /\ wsPending = FALSE
  /\ used = 0 /\ marks = 0 /\ cleared = {} /\ lapsed = FALSE /\ stray = {}
  /\ faults = 0 /\ crashes = 0 /\ known = {}

\* The history the next start resumes, and the one an undecided restore replaced.
Effective == IF Ready THEN intent.messages ELSE transcript
Decided == phase \in {"saving", "reconciling", "branching"} \/ (phase = "committing" /\ job.scope = "both")
HeldBack == IF Ready /\ life = "up" /\ ~recovery /\ ~Decided THEN <<transcript>> ELSE << >>

Learns == known' = IF HeldBack' = << >> THEN known \cup Range(Effective') ELSE known

RestoreStep ==
  \/ Stage /\ Learns
  \/ Apply /\ Learns
  \/ RestoreCode /\ Learns
  \/ CodeIncomplete /\ Learns
  \/ Arm /\ Learns
  \/ Commit /\ Learns
  \/ Reject /\ Learns
  \/ Unstage /\ Learns
  \/ Save /\ Learns
  \/ Reconcile /\ Learns
  \/ FollowBranch /\ Learns

Recovers == (RetryRecovery \/ RetryHalf) /\ Learns
Starts == Start /\ Learns

Next ==
  \/ SubmitTurn /\ Learns
  \/ OpenTurn /\ Learns
  \/ Answer /\ Learns
  \/ SaveAfterTool /\ Learns
  \/ EndTurn /\ Learns
  \/ \E t \in Ids : ForkAt(t) /\ Learns
  \/ \E t \in Ids, scope \in Scopes : BeginRestore(scope, t) /\ Learns
  \/ \E t \in Ids, scope \in Scopes : BeginFails(scope, t) /\ Learns
  \/ RestoreStep
  \/ Recovers
  \/ RetryFails /\ Learns
  \/ Crash /\ Learns
  \/ Starts
  \/ RefusedStart /\ Learns

\* The event loop runs a restore to its end; whoever uses the session starts it again
\* after a crash, and keeps sending while the gate is closed.
Fairness == WF_vars(RestoreStep) /\ WF_vars(Starts) /\ WF_vars(Recovers)

Spec == Init /\ [][Next]_vars
FairSpec == Spec /\ Fairness

-----------------------------------------------------------------------------
(***************************************************************************)
(* Properties.                                                             *)
(***************************************************************************)

NoRepeat(s) == \A i, j \in DOMAIN s : s[i] = s[j] => i = j

\* Type invariant.  The histories never name a turn twice.
TypeOK ==
  /\ \A s \in {transcript, order, context, ledger} : Range(s) \subseteq Ids /\ NoRepeat(s)
  /\ \A e \in Range(events) : e \in {Prompt(t) : t \in Ids}
                                    \cup {Marker(n, k) : n \in 0 .. MaxRewinds, k \in 0 .. MaxTurns}
  /\ {torn, recovery, diskDone, wsPending, lapsed} \subseteq BOOLEAN
  /\ intent.id \in 0 .. MaxRewinds /\ staged.id \in 0 .. MaxRewinds
  /\ life \in {"up", "down"} /\ phase \in Phases
  /\ mark \in 0 .. MaxTurns /\ Len(order) <= MaxBranch /\ stray \subseteq 0 .. MaxRewinds

\* A turn runs over a ready intent or a staged branch only if it is one that a write
\* which raised after it was done, a failed withdrawal or a refused rollback left since
\* the session started: carrying it out later overwrites what the turn saves.  After any
\* crash the gate is closed for whatever is on disk, and nothing that a recovery, a
\* later restore or a start leaves unfinished is forgotten by the gate.
GateHolds ==
  At("running") \/ At("answered") =>
    /\ Ready => intent.id \in stray
    /\ staged.id # 0 => staged.id \in stray

\* A restore of code and conversation cuts the conversation only after the code was
\* restored: neither a marker on disk nor a ready intent, which a crash would carry
\* out, precedes the code half.  And however often a crash or a failed write makes
\* reconcile_rewind_intent start over, a restore leaves one marker: a second one would
\* cut the replay short of the turns that followed the first.
CodeFirst ==
  /\ \A e \in Range(events) : e.kind = "rewind" /\ e.id # 0 => e.id \in cleared
  /\ Ready => intent.id \in cleared
MarkerOnce == \A i, j \in DOMAIN events :
                 /\ events[i].kind = "rewind" /\ events[j].kind = "rewind"
                 /\ events[i].id = events[j].id /\ events[i].id # 0
                 => i = j
DiskSound == TypeOK /\ GateHolds /\ CodeFirst /\ MarkerOnce

\* A client that replays the event log of a settled session shows the turns its context
\* holds, whatever was cut, forked, recovered or resumed before, until one of these lapses:
\* the log lost an event, the process died before a turn or fork was saved, a turn or fork
\* began over a ready intent, a recovery undid a fork, the ledger told of other turns than
\* the context when it was used, or a rollback was refused.
ReplayShowsContext == Idle /\ ~recovery /\ ~lapsed => Replay(events) = context

Atomic == INSTANCE AtomicRewind WITH Turns <- Ids, hist <- Effective, held <- HeldBack

\* Every step of every turn, fork, restore, recovery, crash and start shows in the
\* history the next start resumes as one step of AtomicRewind.
ImplementsAtomicRewind == Atomic!Spec

\* A ready intent is carried out or withdrawn, however its writes fail and whenever the
\* process dies, unless it is one that its restore left behind (stray), which the next
\* start has to carry out.
IntentSettles == Ready ~> ~Ready \/ (life = "up" /\ intent.id \in stray)

\* "End-of-turn save (reference: amplifier-app-cli persists after every turn)": a turn
\* whose save did not fail leaves its messages in transcript.jsonl.
EveryTurnSaved ==
  [][phase = "answered" /\ phase' = "idle" /\ life' = "up" /\ faults' = faults
     => transcript' = context']_vars
===============================================================================
