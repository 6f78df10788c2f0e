# Verification of amplifier-runtime

`amplifier-runtime` hosts one interactive agent session per process: it boots the session,
speaks a line protocol with its clients (a terminal, a desktop app, a bot), and decides who may
write, what runs next and which tool calls a person has to allow. The agent loop itself (Core,
Foundation, the mounted orchestrator) is outside the repository. What is hard here is control:
several writers, a file several processes share, an owner that may be killed, answers that race
deadlines, instructions that race the end of a turn. That is what these modules model.

All paths below are relative to `src/src/amplifier_runtime/` of the repository.

- [Inventory](#inventory): the parts of the system, their state and operations
- [Modules](#modules): which module models what, and how it corresponds to the code
- [Runs](#runs): what TLC checks, with which bounds and why they are enough
- [Fairness](#fairness)
- [Proofs](#proofs)
- [Disagreements](#disagreements) between the code and what its documentation says
- [Limits](#limits) and [Plan](#plan)

`PROJECT.json` holds the machine-readable side: components, runs, the mutant each property was
seen to catch, the map from definitions to source lines, findings, hazards and theorems.

## Inventory

### How the parts interact

    clients --JSONL ops--> serve loop --authorize/replay/remember--> SessionControl --> control.json
       |                     |    |                                     (file lock, audit trail)
       |                     |    +--turn slot--> runtime --> orchestrator (external)
       |                     |                       |  hooks: tool:pre  -> governance -> ApprovalBroker
       |                     |                       |         provider:request -> StepBoundaryBridge
       |                     +--steer--> SteeringQueue ----------------------^
       |                     +--approve / decide--> ApprovalBroker, NeedsYouQueue
       +--attach (unix socket)--> AttachServer of the owner, else boot and claim attach.json

### Parts that decide something

| Part | State it keeps | Operations | Hard because | What makes it correct |
| --- | --- | --- | --- | --- |
| Session control, `kernel/session_control.py` | write lease, epoch, pause flag, handoffs, audit sequence, idempotency keys, all in `control.json`; entries in `control-audit.jsonl` | acquire, heartbeat, release, takeover, pause, claim, resume, authorize, replay, remember | actors of different rank interleave with expiry; ids outlive the leases they name | an older lease never writes after a newer one, a bot never takes the pen from a person, a parked session can always be picked up, every lease that ends is accounted for |
| File lock, `kernel/file_lock.py`, and the transaction around the file | a marker file, `control.json`, the trail | create, look, break, unlink; read, audit, write | several processes; stale markers, deadlines, a death between two writes | one transaction at a time, no half-written file, no grant without an entry, no endless wait |
| Live attach, `kernel/session_attach.py`, `kernel/serve.py` | `attach.json`, the socket path, the runtimes that run | look, probe, join, boot, claim, publish, stop, retract | every check is separated from its use; owners are killed | at most one advertised owner, an owner can be found, a killed owner wedges nobody |
| Approvals, `kernel/approval.py`, `kernel/governance_hook.py` | tickets in order, staged details, futures, deferrals | stage, request, answer, defer, expire | an answer, a deferral and a deadline race for one future | allowed only on someone's word, every other denial is logged, nobody waits for ever |
| Trust gate, `kernel/governance_hook.py`, `model/trust.py`, `kernel/directory_permissions.py` | mode, denial log, parked decisions | classify, check directories, check dependencies, ask, park | calls are concurrent and wait for a classifier and a person | what depends on an open decision waits; denials in a row reach the person |
| Serving loop, `kernel/serve.py`, `kernel/steering.py`, `model/queues.py` | op queue, turn slot, steering queue, remembered keys | submit, steer, decide, retry, end of input | ops race the end of a turn; crash, restart and retry | an instruction that was taken reaches the model once, steers leave their queue in order; a retry acts once |
| Deferred decisions, `model/queues.py`, `kernel/question.py` | decisions with a status, a bounded queue | defer, ask, answer, dismiss, consume | two threads; two ways for an answer to reach the model | an answer reaches the model once, and no answer is missed |
| Turn execution, `kernel/runtime.py`, `kernel/goal.py` | `_executing`, `_restoring_checkpoint`, `_interrupt_requested`, cancellation token, goal | submit, interrupt, fork, restore, goal | guards are read before an await and used after it | one turn or one restore at a time; an interrupt hits the turn it was meant for |
| Conversation restore, `kernel/runtime.py`, `kernel/rewind.py`, `kernel/persistence.py` | context, transcript, event log, rewind intent, branch intent | turn, save, fork, restore, reconcile, recover | a crash or a failing write between any two steps | whoever resumes the session sees the restore whole or not at all |
| Workspace checkpoints, `kernel/checkpoints.py` | index, manifests, journals, a branch transaction | begin, capture, finish, restore, reconcile, fold | crash between any two writes; a person edits the files meanwhile | no later edit is overwritten, a half-done restore is finished or stays retryable |
| Session files, `kernel/persistence.py`, `kernel/session_manager.py` | transcript and metadata, each with a backup | save, rename, tag, delete, resume | read-modify-write without a lock; kills between file operations | what was saved or named stays, and a session is readable after any kill |
| Live MCP, `kernel/live_mcp.py` | saved configuration, mounted tools, live connections | add, reload, remove, close | each mount and connection may fail, the way back too | what is reported is so |
| Inbound replies, `kernel/ambient/reply.py`, `kernel/attention_store.py` | nonces, outcomes, bindings, attention records | enrol, verify, reserve, claim, submit, acknowledge | one step of several fails; duplicates; two views of the file | one reply answers once, an unanswered question does not disappear |
| Interpretations, `kernel/ambient/interpretation.py` | a file of proposals, the pause of the session | propose, amend, confirm, cancel, expire | read, claim and write are separate steps | one yes per handoff, and no session paused without a way on, but for named failures |
| Push, `kernel/attention_push.py` | two queues, clears, a worker | hook, clear, send, close | a request outlives its worker | a clear is the last word |
| Event stream, `kernel/queue_bridge.py`, `kernel/context_meter.py`, `kernel/cost.py`, `kernel/stats.py`, the pump of `kernel/serve.py` | the ledger `ui-events.jsonl`, a queue, the cost so far, what to suppress | emit, pump, replay, meter, reprice, resume | a replay overtakes the queue; a response is reported several times; a kill cuts what is emitted together | the client has every event once, a resumed session costs what its responses did |
| Session start, `kernel/runtime.py`, `kernel/persistence.py`, `kernel/config.py`, `kernel/session_factory.py` | a session's files in one of two projects, the bundle it was made under | find, copy, place, stamp, load, resolve, create, save | nothing is locked from the load to the end; two processes start one session; a kill between any two steps | no saved turn is lost, a start says what it resumed and what is missing |
| Replies' listeners, `kernel/ambient/reply_listener.py` | one record file per view in the session's directory | bind, publish, discover, prune, withdraw | processes and ports are taken again, records are pruned by others, no lock | a view that listens is found, nothing of a closed one is |
| Delegation, `kernel/spawner.py`, `LaneSteeringQueue` | children, links to the parent's cancellation, nesting, a queue each | spawn, steer, interrupt, unwind | any await may fail or be cancelled; the queue takes no lock | a child is governed, stops with its parent, and leaves nothing behind |
| Lanes, `model/lanes.py`, `kernel/trackers/task_status.py` | lanes, their order, aliases, waiting sessions, the tail | spawn, complete, resume, start, end, bind, cycle | a child has two names, and its events come in any order | one lane per child, live as long as it is, listed once |
| Code mode, `kernel/codemode.py`, `model/codemode.py` | a child process, a pipe, a thread, the calls so far | call, invoke, answer, time out, kill | the thread may still be invoking when the caller gives up | the report has the calls there were, nothing runs on |
| Access, `kernel/session_authz.py`, `kernel/ambient/grants.py`, `sources.py` | a file of tokens and one of grants | issue, revoke, resolve, authorize, consume | read-modify-write whose lock may fail; use races revocation | issued counts until revoked or lapsed, and not after |
| Settings, `kernel/config.py`, `settings_service.py`, `bundle_admin.py`, `setup.py` | three layered files | set, unset, clear; add, use, reorder, remove a provider | several readers of one layering; one command over three files | what was set counts, the provider in use is the one chosen |
| Credentials, `kernel/setup.py`, `kernel/preflight.py`, `kernel/preflight_verify.py`, `cli.py` | `keys.env` and its lock, each terminal's environment, the venv | set, unset, add, install, preflight, launch | terminals share a file, each has loaded it at another time | what was stored or exported counts, a launch that is said to be ready is |
| Live bundles, `kernel/runtime.py`, `kernel/bundle_compose.py`, `kernel/bundle_content.py`, `kernel/bundle_summon.py`, `kernel/bundle_admin.py` | bundle registry, mounted modules, messages, cleanups | load, mount, cancel, clear, compact, request, close | a load may be cancelled wherever it waits; bundles share modules | a module is mounted once and undone once, the catalog is offered once |
| Transcript repair, `kernel/session_integrity.py` | the stored transcript | repair at resume | calls whose results are late or missing; the repair is cut off too | every call answered once and in place, nothing real lost but with what is out of place |
| Recipe gates, `kernel/recipes.py` | one task per gate, what the recipes tool has waiting | ask, route, approve or deny, resume | the model may do the same in its turn | a recipe runs once, none waits unheard |
| Live providers, `kernel/bundle_compose.py`, `session_ops.py`, `model_routing.py` | the mapping, priorities, cleanups, routed surfaces | mount, roll back, change the model, unwind | modules mount themselves; each step back may fail | who serves is who was chosen |

The rest (update and reset, discovery, voice, the prompt's editor, formatting, the demonstration
runtime, ...) computes or administrates and is listed with its reason in `PROJECT.json` under
`components`.

### Hazards

`PROJECT.json` lists under `hazards` what could go wrong at which line, with the properties that
would catch it, and a note where the code lets it happen.

## Modules

| Module | Models | Composition |
| --- | --- | --- |
| `SessionControl` | one session's control plane, one action per public method | implements `WriterLease` |
| `WriterLease` | abstract fenced write lock | |
| `ControlFile` | the lock and the transaction that `SessionControl` takes as atomic | |
| `SessionAttach` | who owns the runtime | takes the lock as `ControlFile` shows it without faults |
| `Approvals` | broker, staging hook, `approve` op | |
| `ServeLoop` | loop, turn slot, steering, idempotency keys | implements `Instructions` |
| `Instructions` | abstract promise about instructions | |
| `Decisions` | needs-you queue, question tool, boundary delivery | |
| `Rewind` | turns, forks and restores against the session's files, with crashes | implements `AtomicRewind` |
| `AtomicRewind` | abstract promise of a restore: whole or not at all | |
| `WorkspaceRestore` | what a restore does to the files of the workspace | the code half that `Rewind` takes as one step |
| `Permissions` | the parts that decide what may be done and under whom: `InterpretationDesk` `Governance` `Access` `RecipeGates` `TurnGuard` `Delegation` | INSTANCEs each of them |
| `SessionServices` | these and the parts below, one per behaviour | extends `Permissions`, INSTANCEs the others |
| `LiveMcp` `Replies` `ReplyListeners` `AttentionPush` `EventStream` `SessionFiles` `SessionStart` `TranscriptRepair` `Settings` `Credentials` `LiveProviders` `LiveBundles` `CodeMode` `Lanes` | see their headers | |
| `MC*` | instances for TLC, where a configuration needs definitions | extend the module they instantiate |
| `*Proofs` | theorems | extend the module they are about |

`Permissions` is apart from `SessionServices` because of the proofs: what is shown of its six parts
does not have the declarations of the other fourteen in its context.

### SessionControl

Every public method of the class is `_transaction`: read, change, append to the trail, write,
under the lock. So a method is one action, split by its outcome: `AcquireUnattributed`,
`AcquireDenied`, `AcquireGranted` are the three returns of `acquire`. `epoch`, `lease`, `paused`,
`paused_by` and the handoffs (`minted`, `claimed_by`) are `_State`. A lease id is a fresh uuid per
grant, so the number of the grant names it; a client may present any id it ever saw. Only the time
left on a lease is kept, so a clock tick is an action and expiry is `left = 0`. `Held` and `Reaped`
are `_expire_if_due`; the methods that do not call it (`release`, `resume`, refused claims) do not
use them either. `Reread` is what a save and a load keep of an actor: `Actor.parse` drops the
verification. `trail` holds the entries of the latest call only, `last` its name, arguments and
answer; `fence` is a history variable.

Left out: error wording, audit fields other than action and actor, the idempotency keys (they are in
`ServeLoop`), the permission check (a call that fails it is `AuthRefused`).

### ControlFile

`Begin` to `Breaks` are the loop of `locked()`; `Reads`, `Audits`, `Writes`, `Unlocks` are
`_ensure_handle` for the first transaction of a process and a granting transaction afterwards.
`got` is the boolean the context manager yields. What may go wrong is a variable, `faults`, chosen
in `Init` from the constant `FaultSets` and never changed: one run covers the fault-free behaviours
and the faulty ones, and a property says for which faults it is claimed. A read that fails, or finds
what cannot be parsed, does not stop the transaction: `_read` answers a blank state (`Blank`), and
the transaction writes its outcome over whatever the file held. `Readable` is what a read can return,
`AfterRead` where the transaction goes with it, and `misread` remembers that a read lost something.

### SessionAttach

`Looks` to `Joins` are `_join_live_session` and `live_endpoint`, `Boots` the runtime of a process
that found no owner, `Locks` to `Publishes` `AttachServer.start`, `Stops` to `CleansUp` the
`finally` of the serving loop. The path of the socket depends on the session only, so `sock` is the
process whose socket is at the path by now and every process unlinks the same one. `Binds` and
`Publishes` may fail: without a bind the process serves on unadvertised, with the old path already
unlinked; a publication that fails ends it, with its socket left in the way. `Reattaches` is the
second claim of a process that serves unadvertised. `cut` holds the peers on their way to an owner
whose socket was unlinked before they connected.

### Approvals

One event loop: an action is what runs between two awaits. `Fires` is `asyncio.timeout`
cancelling the waiting task, `Resumes` the task running again, with its `finally` clause; between
the resolution of a future and `Resumes` everything else may happen, a deadline included. `tickets`
is the broker's order, `staged` the details queued per prompt, `announced` what the loop told
clients. The order in which the kernel calls back for identical prompts is external.

### ServeLoop

`Replays`, `Refuses` and `Admits` are the gate every op passes, in the order of the code: replay by
key, authorisation, acknowledgement and the remembering of the key, and only then the dispatch
(`Submits`, `Steers`, `Answers`). `prompts` is what the turn task has left to run, the first one
executing; at the end of an execution the leftover steers become prompts of the same task
(`Leftovers`, `ExecutionEnds`). `Boundary` is `StepBoundaryBridge` handing over one steer.
`Crashes` and `Restarts` keep only what is on disk.

### Decisions

Each call of `NeedsYouQueue` is one step, since two threads make them, with the listeners it
notifies. An execution of the question tool asks its decisions one by one, then waits (or, in Auto
mode, returns), and ends by `Returns` or `Interrupts`; both run the `finally` clause that consumes
what was answered. `Boundary` is `consume_answered` at the root's next request.

### Rewind and AtomicRewind

A restore is one coroutine; `RestoreStep` is the disjunction of its durable steps in the order of
`restore_checkpoint`: arm, code half, context, transcript, marker, disarm, and the withdrawal when
one fails. `disk` is what survives (transcript, events, metadata, rewind intent, branch intent),
the rest is memory. `Crash` forgets the memory at any step; `Starts` and `Recovers` are
`reconcile_rewind_intent` at start and the retry before a submit. A write may raise after its
`os.replace`, in the chmod or the sync of the directory: `BeginFails` is `begin_rewind_intent` doing
so, with the intent on disk ready, the gate open and nobody to withdraw it, and a staging that does so
leaves the branch intent although the rewind intent is withdrawn. `stray` holds the restores since the
start that left an intent or a staging behind; `lapsed` says that what followed is no longer promised
to replay as the context. A turn is one message, named by its
number, which is also its checkpoint's id. `AtomicRewind` has the history a resumed session would
see and the one that is being replaced; the refinement maps the first to what a start would resume
from the disk as it is.

### WorkspaceRestore

A state of a file is its content and its inode. `CallPre`, `ToolWrites`, `CallAfter` are a
tracked tool call, `FinishTurn` the fold of a turn's records; `CheckFile` and `RenameFile` are one
path of a restore with its journal line, compare and swap, and outcome (restored, skipped,
unchanged); `RecoverFinished`, `RecoverCommitted` and `RecoverAgain` are what the journal says after
a death. `HandEdit` is a person or another session. Left out: modes and
owners of files, the blob store with its retention, tombstones, the lease between sessions. A hand
edit that leaves exactly the identity a record ends in cannot be told from what was recorded, and an
edit between the last comparison and the rename is lost; both are excepted, as the code can do no
better. `unseen` holds the files in a state a person left that no record ends in.

### SessionServices and its parts

Twenty parts that share no state with each other. The first state chooses which one the behaviour
is about (`part`), so that one run can check all of them; what each models is said in its header.

- `LiveMcp`: `AddServer`, `ReloadServer`, `RemoveServer` save the configuration and reconcile; each
  loop that mounts or unmounts the tools of one server is a step, and may fail at any tool, the
  rollback too.
- `Replies`: handlers (threads) run `accept` in steps: verify, reserve the nonce, claim the handoff,
  submit, record the outcome, acknowledge from a snapshot of the attention file.
- `InterpretationDesk`: an operation reads its row, claims the handoff and writes the row in three
  steps; kills, failing writes and failing reads (which lose every other row) at each.
- `AttentionPush`: hooks put records on two queues, one worker sends; a request outlives its worker.
- `TurnGuard`: the coroutines of `submit`, `interrupt`, `fork`, `restore_checkpoint` and
  `manage_goal`, one action per stretch between awaits.
- `Delegation`: set-up, execution and unwinding of children and grandchildren, and the unlocked
  queue of steers between the client's thread and the child's boundaries.
- `SessionFiles`: transcript and metadata, each a file and a backup, saved by the running process,
  renamed, tagged and deleted by it and by others.
- `Governance`: the gate in the order of `_govern_tool`: posture, directories, dependencies, classifier,
  person; `_ask` and the parking of decisions; the denial log's two limits.
- `Access`: processes issue and revoke over the lock (`Enter`, `Load`, `Save`, `Return`; `EnterLate`
  is the wait that runs out), connect and present tokens, or have a source ask, attribute and fetch.
  Tokens and grants are two files with one discipline; a behaviour is about one of them.
- `Settings`: one command from any three files. `Resolved` is the settings service's walk from the
  most specific file, `Effective` the merged load; commands on the roster take one file per step.
- `TranscriptRepair`: entries are said and saved one by one, and `Resume` repairs and stores.
- `RecipeGates`: a task per event goes `Answer`, `Route`, `Act`, `Resume`; the model's turns run,
  decide and resume recipes meanwhile. `listed` is a set whose members carry the number of their
  gate, which is the order in which the recipes tool has them.
- `LiveProviders`: `Begin` to `Inherit` are a mount with its rollback, `Switch` a change of model
  with the retargeting of the matrix, `Close` and `Unwind` the session's end.
- `LiveBundles`: a load is `Ask`, `Enter` (the lock that loads wait for), `Prepare`, `Activate`,
  `MountNext` for each module, `Register`; `Cut` cancels it at any of these, `Lose` clears or
  compacts the context, `Request` is the next request to the provider.
- `CodeMode`: the child writes its calls to the pipe (`CallsTool`), the thread `Reads` and has them
  `Invoked`, the caller `TimesOut`, `Kills` and `GivesUp`; the catalog fills up round by round.
- `EventStream`: `Emit` appends to the ledger and queues, `Pump` writes to the client and meters,
  `Replay` pages through the ledger and marks what is still queued; `Kill` and `Resume`.
- `SessionStart`: `Find` to `Stamp` relocate a session's files, `Load` to `Finish` are the start,
  `Turn` and `TurnEnds` what is saved meanwhile, `Vanish` a bundle that discovery no longer finds.
- `Credentials`: `SetKey`, `UnsetKey` and the wizards go over the lock of `keys.env` (`Take`,
  `TimesOut`, `Replace`) and then to the settings (`WriteEntry`); `Install` and `Ensure` are the
  provider's module, `Preflight` and `Launch` say and do.
- `Lanes`: every hook event (`Spawned`, `Completed`, `Resumed`, `Started`, `Ended`) may come under
  the child's id or its mask, and in any order; `Binds`, `NoteActivity` and `Cycles` are the client.
- `ReplyListeners`: `Binds`, `Prepares`, `Writes`, `Replaces` publish a view, `Leaves`, `Removes` and
  `Tidies` withdraw it; `Looks`, `Reads`, `Checks` and `Prunes` are `discover`, one call on the file
  system or on a socket each.

## Runs

Passing runs, with what a violation of each property would mean:

**session_control** - a bot and a person, two handoffs, three grants, leases of one tick.
- `PauseIsAnswerable`: a session parked with nobody able to pick it up.
- `PersonKeepsPen`: a bot with the pen of a person who still holds it.
- `HandoverHolds`: two people answer one handoff, or a write lands in a parked session.
- `LeaseEndAudited`: a lease gone with no entry that tells how.
- `ImplementsWriterLease`: a write under an old lease accepted after one under a newer lease.
- `DeadHolderLosesPen`: a holder that went silent keeps everybody out.

Two handoffs are needed for an old one to be claimed after a newer pause, three grants for a lease
to be stale by two takeovers. One tick separates live from expired; a longer lease only repeats the
state in between, and the proofs below hold for every length.

**control_file** (module `ControlFile`) - three processes with two transactions each: fault-free, with
deadlines, with deaths and stalls. `OneTransaction`, `TrailTrue` (entries in order, none that the file
does not tell of) and `HandleStable` are claimed without faults, `HolderKeepsMarker` with deadlines
only, `GrantsAccounted` always. Three processes are the least for two waiters to race over the marker
of a third. The processes are symmetric.

**control_file_live** (the same module) - two processes, with failing file operations too, reads
included. `WholeFile`: the file is a blend of two transactions, or a grant precedes the handle
although no read failed. `NeverHangs`: somebody waits for the lock for ever. Symmetry is left out
because of the liveness property.

**session_attach** (`FairAttachSpec` of `SessionAttach`) - four processes attach: to an unowned
session, or to one whose owner, one of the four, was killed; three (`Few`) where binds and publications
fail as well, and where owners stop and processes die. `OneAnnounced` and `PeersReachOwner` are
claimed as long as no owner ends or was killed (`NobodyEnds`), binds and publications that fail
included. `NobodyWaitsForEver` is that everybody comes to serve, to be a peer or to an end, always; and
`KilledNeverWedges`: where a killed owner is all that went wrong nobody ends with an error, but for the
processes in `cut`. Four are needed for that case: one was killed, one found its advert before another
replaced it, and clears it late, and the fourth had found the new one. With three it cannot happen.

**approvals** - two calls with the same prompt and one with another, one of them defaulting to
allow, one free place among the parked decisions: answers in any order, twice, late or never.
Two equal prompts are what makes `TicketsTrue` (each ticket shows its own detail, the head is the
one announced) more than a lookup; one place makes the second deferral find the queue full, which
`FailsClosedAloud` is about. `EveryAskReturns` under the deadlines.

**serve_loop** - a submit, three steers and an answer, two of them retried with a key; two places in
the steering queue, so that it overflows, and a remembered key for each of the two. `ActsOnce` over
retries and restarts, `ImplementsInstructions`, `SteersInOrder`, `EofEnds`.

**decisions** - an execution with two questions, one in Auto mode, and a decision parked by
governance; three places for four decisions. `ReachedOnce` (an answer reaches the model once),
`ResultsSound` (a result tells what became of the decisions), `NoMissedAnswer`.

**rewind** - three turns, a fork and a restore of any scope, two failing writes and two crashes at any
step; a failing write may have been done. Three turns let a restore keep one, cut one and be followed
by one; two crashes let the recovery crash as well.
- `DiskSound`: the durable state and the gate in memory disagree, but for what a restore left behind
  (`stray`), a conversation cut before its code half, or a restore marked twice.
- `ReplayShowsContext`: what a resumed client replays is not what the model sees, although nothing
  happened that lets it lapse: an event was lost, the process died before a turn or a fork was saved, a
  turn or a fork began over a ready intent, a recovery undid a fork, the ledger told of other turns, or
  a rollback was refused. `lapsed` is set by these events where they happen.
- `ImplementsAtomicRewind`: a start resumes half a restore, or a turn that had been cut.
- `IntentSettles`: an unfinished restore stays unfinished although nothing fails any more, other than
  one in `stray` before the next start.

**workspace_restore** - two files, two turns with a tracked call each; restores, crashes, failing
writes or captures and hand edits, three in all (`MaxTroubles`), of which at most two restores and
one of each other kind. `ReportIsTrue`: a path reported as restored is not what
it was before the turn, or one reported otherwise changed. `PersonKeepsFiles`: an edit by hand
overwritten, or a turn admitted over an unsettled restore.

**session_services** - see the parts above.
- `LiveAsReported`: a tool of a dead connection mounted, a connection nobody stops, or a result that
  says otherwise (two servers, a plain name collision and two lists of tools, three commands); a
  provider that serves unasked, displaced or left behind, delegates routed half one way and half
  another (two providers at the start, one name more, two mounts, one change of model); a module of a
  bundle mounted twice or never undone, a bundle reported as loaded that serves nothing, a request
  without the catalog or with two (two bundles with a module in common; two loads and a cancellation,
  a load and a compaction, a load after an edit, three edits: `Loads`); a program's call that is not in
  its report, or invoked past the limit, or a program that runs on (limits of none to two calls or
  none, with and without a time limit, every small budget of the catalog: `ProgramLimits`,
  `Catalogs`); a sub-agent with two lanes or none, or a tail that jumps (a parent and its child, two
  that share a mask, one that is resumed twice, a chain of three: `Spawns`).
- `NotificationsSound`: a reply answers twice or for another event, a question is acknowledged
  unanswered, or two processes push one event. The checks of secret, freshness and nonce are in the
  model (`verify` refuses), but no property states them: a decision is settled once without them too.
  Three notifications (two of one event, the second under a newer secret), a ring of one nonce so that
  it forgets. A view that listens is not found, or one is found that closed (two views of one session
  with a restart, a kill and a failing write, or a slow listener, and a bridge that looks; two killed
  views and one of another session that takes their ports: `Listened`). Of the push: a notification
  comes back after its clear, or a queued one is never sent (queues of two). Of the stream: an event
  never or twice at the client, or a resumed session with another cost than its responses had (two
  blocks to a response, pages of two; replays, restarts with every kind of price, a failed append:
  `Streamed`).
- `DeskSound`: two yeses for one handoff, something executed nobody agreed to, or a session paused
  with nothing pending although none of the causes in `stranded` came about in this pause: the proposal
  was not on file when the process died or its save failed, the process died between closing a proposal
  and resuming, or the file could not be read and was overwritten. Two speakers, four operations, three
  proposals, one fault.
- `TurnSound`: two turns at once, a turn cut without a marker or by an old interrupt, a closed
  session that still runs (two callers, three turns); a child that runs ungoverned, survives an
  interrupt or leaves a link, or a steer lost that the docstring does not say is (two children,
  depth two).
- `FilesSound`: a session unreadable after a kill, a saved message, a name or a tag lost, a
  directive acted on twice (one running process and one other, two edits, one trouble); a
  transcript that comes back with a call unanswered, answered twice or out of place, or with
  something real gone (three calls, five entries, two resumes, so that an entry can carry a late result
  beside one in place, or behind another late one); a turn lost in a move of its project, a
  bundle replaced unsaid, a module wrongly reported (three starts of two processes in two projects
  with a failure, bundles that come and go, a start with three tools: `Starts`).
- `GovernanceSound`: a call that depends on an open decision runs, or denials past a limit are not
  brought to the person (two concurrent calls, limits of two and three); a recipe run by two, or
  waiting while nobody was told, or another recipe's answer taken (two recipes, one of them nested,
  two gates, two turns).
- `AccessSound`: something done by what was revoked before, a row that disappears, a denial "you
  never had this" of what was granted, a trusted connection although a token was issued, a use
  without an entry. Two actors, two rows, three calls, one kill, lapse of a wait or damaged file.
- `SettingsSound`: the settings service and the load disagree about a value, what was set does not
  count, a cleared bundle comes back, a provider in use that is not the primary. Any three files of
  the setting or of the roster (two providers), one command. Or a key that is not the one stored
  last, an exported one replaced, two instances on one variable, a launch said to be ready that is
  not (two terminals, three instances of which two are suggested one variable; what each behaviour
  does is listed in `Wizards`).

The actors of the parts are symmetric. `CHECK_DEADLOCK FALSE`: each part rests once its bounded
requests are used up. In the other runs where it is set, the reason stands in the cfg.

Two runs are counterexamples, **turn_unsaved** and **rebase_takes_content**: see
[Disagreements](#disagreements).

Every property was seen to fail on a mutant of the definition it depends on: the mutants stand
beside the definitions, marked "Mutant:", and `PROJECT.json` pairs them. Where a property of
`session_services` is about two parts, the other part has its mutant too, and the same run finds it.

## Fairness

- `SessionControl`: the clock (`Tick`) only. No client owes a call, and a lease runs out because
  time passes.
- `ControlFile`: a process that is not dead goes on running, its deadline passes, markers grow old.
- `SessionAttach`: strong fairness of each process that is on its way (`Comes`, `Starts`, `Ends`): it
  goes on, and its wait for the file lock, which is enabled only between the claims of others, ends;
  `locked()` polls, and ends its wait at a deadline in the worst case. Nobody has to attach, leave or
  stop.
- `Approvals`: deadlines fire and the event loop runs what is ready. No person has to answer.
- `ServeLoop`: the loop takes its next op, and an execution that waits for nobody ends: the
  orchestrator bounds the iterations of a turn. A turn that asks a person is not assumed to end.
- `Decisions`: a waiter whose event is set runs. No person has to decide.
- `Rewind`: a restore that has begun goes on, a session that is down is started again, and the
  recovery a submit waits for runs. Nobody has to submit, fork or restore; crashes and failing
  writes are bounded and not fair.
- `WorkspaceRestore` and `SessionServices` state no fairness and no liveness property.

## Proofs

TLAPS checks the theorems of the eight `*Proofs` modules for every value of the constants under the
named assumptions of each module (which TLC evaluates on every run that extends it).

| Theorem | Statement | Argument |
| --- | --- | --- |
| `SessionControlProofs!TypeCorrect` | `[]TypeOK` | inductive as it stands; one step per action |
| `SessionControlProofs!NewestLease` | the lease on record is the newest ever granted | with its companion, that no write is ahead of the grants, the fact that makes fencing work: an id kept from an older grant names another lease |
| `SessionControlProofs!ParkedIsAnswerable` | `[]PauseIsAnswerable` | a pause mints the handoff it needs; a claim of any handoff ends the pause |
| `SessionControlProofs!OneClaimer`, `PauseHolds`, `Handover` | `HandoverHolds` and its two parts | only `ClaimHandoff` names a claimer, and only of an unclaimed handoff; of the effects a call can have on the pause, two lift it, and the gate that moves the fence wants the flag down |
| `SessionControlProofs!Refinement` | `ImplementsWriterLease` | `NewestLease` is what makes an accepted write move `written` to the current grant; every other action maps to a grant, a drop or a stutter |
| `SessionControlProofs!StaleWritesFenced` | accepted writes are in the order of the grants | the invariant with `WriteStands` (the latest accepted write is the newest one there was, and a clock tick changes nothing of that); only the gate accepts writes, and it asks for the lease that counts |
| `SessionControlProofs!NoBotOverPerson` | `PersonKeepsPen` | every grant goes to the holder's own identity or to an actor of at least the holder's rank (`MayHold`) |
| `SessionControlProofs!EveryEndAudited` | `LeaseEndAudited` | a call that reaps appends the reaping first; what it appends itself names what became of a lease that had time left |
| `SessionControlProofs!AttachTyped`, `OneWinner`, `OwnerFound` (of `SessionAttach`) | `[]AttachTypeOK`, `[]OneAnnounced`, `[]PeersReachOwner` | under `NobodyEnds`: the lock is held exactly while claiming; whoever published still is what the advert and the path name, so the second claimer's recheck finds it, and a bind that fails was preceded by no publication |
| `ControlFileProofs!MutualExclusion`, `GapFreeTrail`, `FileMatchesTrail`, `TrueTrail` | `[]OneTransaction`, `[]TrailTrue` and its parts | without faults, see below |
| `ControlFileProofs!FileIsWhole` | `[]WholeFile` | under every fault, failed reads included: the file and every copy, a blank one too, count as many entries as grants; and unless a read failed a grant is made on a handle that is in the file |
| `ControlFileProofs!NoGrantUntold` | `[]GrantsAccounted` | a copy about to be written has its entry in the trail, and nothing leaves the trail |
| `ControlFileProofs!MarkerStaysWithHolder` | `[]HolderKeepsMarker` | under deadlines only, who the marker names created it and is inside, and a waiter created none |
| `ControlFileProofs!HandleMintedOnce` | `HandleStable` | a process about to write knows the handle that is in the file |
| `AnswersProofs!AllowsOnlyOnWord`, `NoSilentDenial`, `FailsClosed` | `[]FailsClosedAloud` and its two parts | relates each future to the word that was put into it: it holds "allow" only if told, "deny" only if told or deferred |
| `AnswersProofs!TicketsAreTrue` | `[]TicketsTrue` | what is staged for a prompt and not taken belongs to the calls that are yet to be asked; a call is listed once, and the first ticket is announced while it is open |
| `ServeLoopProofs!Typing`, `NothingActsTwice` | `[]TypeOK`, `[]ActsOnce` | an instruction is in one place at a time: the inbox, the turn, the steering queue, the log or lost; what is held has its key remembered, in memory and on disk |
| `ServeLoopProofs!Refinement` | `ImplementsInstructions` | from the same invariant, each step moves an instruction as `Instructions` allows, or none |
| `ServeLoopProofs!SteersKeepOrder` | `SteersInOrder` | steers leave their queue in order: a step removes them at the front only. Nothing is said of leftovers that become turns, which later steers may overtake |
| `AnswersProofs!AnswersOnce`, `TrueResults`, `NothingLost`, `ReachesOnce`, `SoundResults` | `[]ReachedOnce`, `[]ResultsSound` and their parts | what a waiting execution has noted of a decision is what became of it (`Noting`), since nobody else consumes its decisions while it waits; so a result and a boundary never carry one answer twice |
| `RewindProofs!DiskStaysSound` | `[]DiskSound` | `Sound`: where the restore stands (`Placed`), what its intent and staging are then on disk, those in `stray` excepted (`Gated`), and that marks and markers are numbered by the restores that made them (`Numbered`) |
| `RewindProofs!Refinement` | `ImplementsAtomicRewind` | `Follows` adds where the context stands to the transcript: a live session's context continues it, and while a restore is half-way it is the old history or the one of the intent |
| `RewindProofs!ReplayStays` | `[]ReplayShowsContext` | by induction over the log: an appended event changes what is replayed as the step changes the context (`Agrees`, for each phase the history that the log shows, as long as nothing `lapsed`) |
| `WorkspaceRestoreProofs!KeepsAPersonsFiles` | `PersonKeepsFiles` | what a person left is unseen while no record ends in it (`Unseen`), and a half-done target has a journal that matters (`HalfHeld`), see below |
| `WorkspaceRestoreProofs!RestoreTypeCorrect` | `[]TypeOK` | from the same invariant: what a restore or a fold writes is made of the states that were captured |
| `ServicesProofs!DeskStaysSound` | `[]DeskSound` | one claim is granted per handoff; a pause with nothing in `stranded` is being lifted, or its handoff is unclaimed and its row pending or about to be (`WayOn`) |
| `ServicesProofs!AccessStaysSound` | `[]AccessSound` | who is between load and save holds the lock and a copy of the book; what is revoked stays so in every copy, what is issued stays in it, as long as updates do not cross |
| `ServicesProofs!GovernanceStaysSound` | `[]GovernanceSound` | of the trust gate and of recipe gates, see below |
| `ServicesProofs!TurnsStaySound` | `[]TurnSound` | of the turn guard and of delegation, see below |

None of the invariants of `ControlFile` is inductive alone. The strengthening says who is inside:
the process inside a transaction is the one that created the marker and was told so; at "audit" its
copy is the file; at "write" it is the file with one more grant and one more entry; the trail has
as many entries as the file counts, or one more while an audited grant is not yet written. Without
the part about copies, the step that writes the file could put an old copy back. It is invariant
only where `faults` is empty, so the theorems first prove that `faults` never changes. The theorems
under faults have an invariant each, which says only what that kind of fault leaves standing.

The invariants behind the last two theorems:
- Trust gate. Of the decisions that were there when a call began, none that is pending blocks it
  (`CallsWaited`); the log's counters are the run of denials that the outcomes end with and the
  number of all of them (`LogFits`); reviews on the desk and reviews that found no room together are
  the thresholds passed (`ReviewsFit`).
- Recipe gates. The list is what the waiting recipes stored, runners are where the flow says they
  are, a recipe has one runner outside `crowded`, as many tasks ask as recipes wait unless somebody
  was told, and what a task chose is of its own recipe or mixed (`GatesInv`).
- Turn guard. Unless a call slipped past the check, one turn is admitted and `executing` says so, and
  there is one restore; unless calls overlapped, one caller is busy; a token is never set for a turn
  older than the admitted one; an interrupt in time is remembered until the marker; turns opened are
  turns closed and the open one; a goal was worked on, opened, or is about to be (`TurnInv`).
- Delegation. The parent of a busy child executes; a child is governed from its wiring to its
  unwinding and linked while it executes; the nesting counts those on display (`KidsInv`). What a
  lane heard, followed by what is queued for it, rises and stays within what was typed
  (`SteersInv`). That an interrupt reaches every child is shown by the least child that it would not
  reach: the set of those reached is closed under links, and its parent is a smaller number.

The invariant behind `KeepsAPersonsFiles` (`IInv` of `WorkspaceRestoreProofs`) has two halves.
- Edits by hand. `KeepsHandEdits` alone says nothing of the steps before the rename. A restore expects
  a file to be what the last change of its chain ended in, so `Unseen` says that no record, and none
  the branch transaction is about to install, ends in a state that a person left; `Tracked` says that
  a path about to be put back has a chain, and is not a person's unless an edit came in after the
  comparison. What a fold, a rebase or a recorded call writes must not end a record in such a state
  unnoticed: the lemmas about flattened chains say that a chain's changes are those of its records.
  They are proved by the least prefix that would not be so, since the prover takes no induction.
- Turns. `AdmitsOnlySettled` needs to know where a half-done restore is remembered: in a journal that
  matters (unfinished, or finished and required), which is still among those the operation has to look
  at, or in the gate. `Logged` says which journals an operation may count on, and that the one of the
  restore under way lies behind those it has to look at; `Aims` that a recovery is about the target
  of the journal it looks at.

`unseen` forgets a state that a person left once a restore finds the file as it wants it and takes that
state into an earlier turn's record, and one that is exactly what a record ends in. Without the first
the property is false, in behaviours longer than the run's: it is the second disagreement below.

Premises that the theorems name:
- `RoomForKeys` (`ServeLoop`): there are no more keyed ops than the memory for keys has places.
  `MAX_IDEMPOTENCY_ENTRIES` in `kernel/session_control.py` is 128; beyond it the oldest key is
  evicted, and a retry under it acts again. The run has as many keys as places and evicts none.
- `NobodyEnds` (`SessionAttach`), `~misread` (`ControlFile`), `stray` and `lapsed` (`Rewind`),
  `stranded` (`InterpretationDesk`): the properties themselves say what they except, each for
  something the code does and that is told with the known disagreements. The theorems hold for any
  number of processes, restores, faults and crashes.

Forms that were chosen for the proofs, and mean what the code does: a ticket is removed by its first
position (`Approvals`); a history is cut at the oldest member that is to go, and the replay of a log
is a recursive function on it (`Rewind`); verdicts on a token are told in the order of the checks
(`Access`); the recipes that wait are a set whose members carry their gates' numbers (`RecipeGates`);
who is reached by an interrupt is the smallest set closed under links (`Delegation`); the kinds of
ops are constants (`ServeLoop`).

Only model-checked, and why:
- The liveness properties (`DeadHolderLosesPen`, `NeverHangs`, `NobodyWaitsForEver`,
  `EveryAskReturns`, `EofEnds`, `NoMissedAnswer`, `IntentSettles`): fairness needs ENABLED, which is
  out of the prover's reach.
- `ReportIsTrue` of `WorkspaceRestore`, but for its `TypeOK`: what a restore wants a file to be is the
  first change of a chain flattened over all later turns, and that this is what the file was before
  them an induction over the turns.
- `LiveAsReported`, `NotificationsSound`, `FilesSound` and `SettingsSound`: some of the parts of each
  compute with folds over data (repaired transcripts, costs, catalogs, layered settings).

## Disagreements

Two, each with a run that shows it:

1. `turn_unsaved` - a fork shortens the context, and `IncrementalSaver._save` compares lengths with
   what it saved before the fork: the next turn is not saved, and a crash resumes the turns that
   were forked away (`kernel/persistence.py` 1116).
2. `rebase_takes_content` - after a restore `_rebased_predecessors` takes the file's content, and not
   only its identity, into the record of an earlier turn: a person's edit between the two turns is
   overwritten by a later restore of that turn (`kernel/checkpoints.py` 1185).

### Known disagreements

Seen while modelling, part of the models, without a run of their own. Properties are stated for the
behaviours in which they do not happen, and say so by name.

Control plane and file lock:
- A claim of an old, still open handoff takes the pen from a person of equal rank without `force`,
  which the header of `session_control.py` requires.
- `acquire` and `takeover` grant a lease in a parked session, although `pause` says that nobody
  holds the pen while it waits. Nothing can be written under it.
- `release` and `pause` without a lease id drop whichever lease is on record.
- The verification of an actor does not survive a save. Some refusals are not audited: `takeover`
  without an actor, `heartbeat`, spent handoffs.
- A transaction whose wait for the lock ran out goes ahead and writes; `file_lock.py` asks callers
  that read, modify and write to look at the outcome and fail closed.
- Two waiters that saw the same stale marker: the second unlinks the marker the first just created,
  and both acquire. A stale marker that cannot be unlinked keeps every waiter past its deadline.
- A read of `control.json` that fails, or finds what is not JSON, counts as an empty file: the next
  write puts a new handle, no lease, no pause and no handoffs in its place (`session_control.py` 494).
- A process that dies between its entry and its write leaves an entry whose sequence number and
  epoch the next transaction uses again.

Attach, approvals, serving loop, decisions:
- A process that loses the claim of the advert serves anyway: two runtimes of one session. A stop
  that is late retracts the advert and the socket of the next owner.
- "A hard-killed owner can never wedge a session": the stale advert is probed and then cleared without
  the lock (`session_attach.py` 187-205). A process that found it and clears late unlinks the advert and
  the socket of the owner that came meanwhile; a peer that had found that one is left with an error.
- An answer accepted in the instant of the deadline is replaced by the default; a second answer to
  a ticket is ignored without an error; a deferred call whose ticket is still listed may be answered.
- `approve` without an id answers the head, which the client may not have been told of yet.
- A submit that arrives during a turn is acknowledged, its key remembered, and then dropped.
- Leftover steers run as turns; the headers of `model/queues.py` and `kernel/steering.py` say they
  are discarded. A steer that arrives while promoted ones wait overtakes them.
- At the end of input a turn that waits for an answer keeps the process alive.
- An interrupted execution of the question tool consumes an answer that nobody delivers.
- A detail staged for an ask the kernel then drops stays for the next call with that prompt.

Turns, restores, files:
- `submit` checks `_executing`, then awaits: a second submit, a fork or a restore slips through. An
  interrupt before the flag is set stops the turn without a marker; a submit admitted while the turn
  before is closing takes that one's marker. A `goal.set` refused because a turn runs has already
  replaced, and then clears, the running goal.
- A fork, or a crash before the echo, leaves the branch not contiguous: the commit of a later
  conversation restore is refused and the send gate stays closed. A path noted as skipped by an
  interrupted restore is never clean again: the gate never opens.
- `begin_rewind_intent` may raise after its `os.replace` (`persistence.py` 275-277): the restore is
  reported as refused (`runtime.py` 3289) with a ready intent on disk that nobody withdraws and no gate
  guards. The next turn runs over it, and the next start carries it out and cuts that turn.
- A staging that raises after its replace leaves the branch intent of a restore that was withdrawn
  (`checkpoints.py` 743, `runtime.py` 3306): after a restart no marker ever comes for it, and the
  gate does not open (`runtime.py` 1922).
- A directory sync that raises after the unlink of the branch intent (`checkpoints.py` 820) leaves the
  gate closed over nothing until the next start. The same holds after a fork that left the kept
  checkpoints not a prefix of the branch.
- A restore whose staging and withdrawal both fail leaves a ready intent in the same way.
- Renames and tags read, modify and write metadata without a lock: overlapping ones lose a name or
  bring a consumed directive back ("consume-once", `session_manager.py` 643). The marker "recovered"
  sticks, so that such a session stays unresumable. A damaged transcript is copied over its good
  backup before the new one is written. A delete while the session runs brings part of it back.

MCP, replies, desk, push:
- The removal of the tools mounted so far, after the first mount of a server failed, may fail as well.
  `LiveMcp` does not count that among the failed rollbacks (`scarred`); that results are true then is
  shown only for lists of tools of which one begins with the other.
- After a rollback that failed too, `LiveMcp` says "already connected" with tools missing, and
  removal unmounts by name whoever holds it.
- A reply whose submission fails has spent its nonce and claimed its handoff. Acknowledging saves a
  snapshot that may be stale. An exception of a listener after the answer reports failure. An
  acknowledgement by reply does not clear the push.
- Any end of one proposal resumes the session while another is pending; an amend or cancel that
  races a confirm overwrites the row; nothing calls `expire_due`.
- "A forgotten voice request must not wedge a paused session" (`interpretation.py` 29): it does when
  the process dies, or the save fails, after the pause and before the proposal is on file; when it
  dies after the proposal is closed and before the resume (397-400, 423-426); and when the file cannot
  be read, is taken for empty (228-236), and is overwritten. Somebody has to resume the session by
  other means.

Delegation and trust:
- `LaneSteeringQueue` takes no lock: a steer appended to a list that was just removed is lost,
  although "typed text is never dropped silently".
- A hook that cannot be unregistered or a link that cannot be undone is passed over when a child
  unwinds (`spawner.py` 340-349), and stays; `Delegation` takes these calls as succeeding.
- A child whose set-up fails before the `try` block is not cleaned up. The builder's notion of
  success counts any change of the shared workspace.
- `record_non_denial` is to reset the streak on "any allow/ask outcome" (`model/trust.py`); `_ask`
  never calls it. A mode change during classification or approval does not affect the call. Tools
  known as safe skip the directory check, as does auto mode with open governance. Two concurrent
  calls of one action park two decisions.

Access, settings, recipes, repair:
- The token and grant stores ignore the outcome of the lock ("a concurrent issue and revoke cannot
  lose each other"), and an unreadable file loses all grants at the next issue. Whether a token is
  needed is looked up once per connection (`serve.py` 1685).
- `merge_settings` raises if a scope's `modules` or `config` is a scalar, although settings must
  never prevent startup (not modelled); a set on a malformed scope file overwrites the whole scope;
  an unset of a leaf that exists in the legacy place only says there was nothing to do. A use or a
  new order of providers that stops between two files leaves two primaries or the old one.
- A late result on an entry of the person stays where it is and is reported as repaired at every
  resume (`session_integrity.py` 239), although the repair of an order is to be idempotent. So does one
  behind another result of its entry, of which the diagnosis sees the first only (190-198): its call
  stays unanswered in its place.
- The repair drops an entry of a tool whole if one of its results is out of place (227-231). A result in
  place on the same entry is lost and replaced by a placeholder, although the repair "never duplicates
  or replaces real output" (251).
- An answer to a recipe gate goes to the newest waiting recipe with a gate of that name. The wait for
  the turn's end does not keep a recipe from running twice: the model may resume what the bridge
  approved, and a turn may begin during the bridge's resume. A failing `approvals` call is reported
  as "already settled".
- While the mapping of providers is rebuilt, a child that starts sees a part of it; a load that is
  cancelled after its mount leaves no cleanup.

Event stream and costs:
- The pump skips what a replay brought before it meters (`serve.py` 1657): a response of the root
  that was queued during the replay is never metered. A second replay from the cursor before the
  queue has drained clears the ids to suppress (1637), and events come twice.
- A resumed session prices its past by the bundled table even if live prices held; the marker for an
  unpriced response is lost; the statistics count twice what an older release wrote twice.

Session start:
- The loser of two concurrent relocations removes the winner's session (`persistence.py` 1008). A
  kill between the replacement and the stamp leaves the old working directory, although relocation
  is said to be atomic (947). It copies, it does not move.
- A resume does not look for a live owner: two processes overwrite each other's turns. What a fork
  left as directive is consumed before a start that may still fail.
- A tool whose name resembles another module's hides that its own module is there; the name of a
  fallback bundle is stored as if the session were made under it.

Live bundles and code mode:
- A load that is cancelled after its content or its modules were put in registers no cleanup, and a
  retry adds the content again; a load that outlives the session's end leaks. A tool or hook module
  that raises after it registered itself stays mounted.
- After a clear or a compaction a bundle's instruction does not return, though the bundle is
  reported as already loaded. One whose modules failed counts as attempted for the whole session.
- Adding a name again with another URI leaves the old overlay. Names of the catalog that derive from
  a URI are not ones `load_bundle` resolves.
- The report of a program that ran out of time misses the call that ran or completed last; a call in
  the pipe may start after the kill. An output limit drops logs; truncated output exceeds its budget;
  an invoker's own `ValueError` is reported as data that cannot be serialised.

Credentials:
- Of duplicate lines in `keys.env` the load takes the first, `read_keys` the last, and a write
  replaces the first only. An exported but empty variable keeps the stored key from being loaded,
  while the status says it counts. `remove_key` takes an exported value out of the environment.
- Preflight checks the variable that the module declares even where the entry names its own; a
  degraded preflight passes without looking at credentials. The memo that a module is absent stays
  when another process installs what it lacked.
- A wizard that is killed between the key and the entry makes its own retry fail as already in use;
  two at once can get one variable. An automatic entry persists although its key is in that
  process only.

Lanes and reply listeners:
- `register(reopen=True)` under another name than the lane's key writes a second record that is
  never listed: a sub-agent resumed after a redacted spawn is not shown.
- The tracker never calls `bind_session`, and looks a parent up by its exact key: a child of a
  redacted lane keeps depth 1, one bound before its parent got its key waits for ever, and a parent
  named by its mask afterwards is not found.
- The tracker closes failed, incomplete and cancelled children as done; an end before the spawn is
  ignored and leaves the lane live.
- A session that shares its redacted suffix with a session above it makes two lanes each other's
  parents, and `_patch_child_depths` does not return (`LanesAssumption` excludes it).
- A listener that does not accept within a tenth of a second has its record pruned by any view that
  starts, and never publishes again; when it closes it leaves the directory behind. A prune that
  read an old record can remove the one of a view that was started again.
- A view's close can remove the directory under another's start, which then fails; a killed
  publisher's temporary file is never removed. The record of a killed view counts again if both its
  process id and its port were taken again. Nothing in this repository starts these listeners: they
  are there for clients.

## Limits

- Bounds: `MaxEpoch`, `MaxTTL`, `Handoffs` (SessionControl), `MaxTx` (ControlFile), `Few` (SessionAttach), `MaxSends`
  (ServeLoop), `MaxTurns`, `MaxBranch`, `MaxForks`, `MaxRewinds`, `MaxFaults`, `MaxCrashes`
  (Rewind), `MaxTurns`, `MaxRestores`, `MaxHands`, `MaxTroubles` and its kinds (WorkspaceRestore),
  and the `Max*` constants of the services cut behaviours off; `MaxQueue`, `MaxKeys`, `Cap`,
  `Slots`, `QueueLimit`, `RingLimit`, `DeskLimit`, `StreakLimit`, `TotalLimit`, `MaxDepth` are
  limits of the code itself, made small so that they are reached.
- Transactions are atomic in `SessionControl`, `ServeLoop`, `Replies` and `InterpretationDesk`, and
  their reads succeed. `ControlFile` shows when that holds and what is left of it when it does not;
  the composition is by this argument, not by a module. In the same way `Rewind` takes a code restore
  as one step that succeeds or not, and `WorkspaceRestore` is what that step does.
- `Rewind` leaves out a checkpoint whose `begin` fails, a start that is refused because a write failed,
  and a restore that raises after it committed the order of the branch.
- The parts of `SessionServices` do not interact in it. Where they do in the code (a reply claims a
  handoff and answers a decision, the desk pauses the session), the other side's operation is an
  atomic step with the outcomes its own module shows.
- The map covers about three tenths of the implementation. What is left is mostly rendering, parsing,
  resolution tables, one-shot commands and adapters, listed under `components`.

## Plan

1. The updater's staging and the reset; the configuration that a child inherits.
2. Theorems: the parts of `LiveAsReported`, `NotificationsSound`, `FilesSound` and `SettingsSound`
   that no fold enters, `LiveMcp` and `SessionFiles` first; `RestoredIsRestored`, from the lemmas about
   chains that `WorkspaceRestoreProofs` has.
3. A composition of `Rewind` with `WorkspaceRestore` for the code half of a restore, and of
   `SessionControl` with `ControlFile`, in place of the argument under Limits.
