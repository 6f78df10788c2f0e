--------------------------- MODULE WorkspaceRestore ---------------------------
(***************************************************************************)
(* The workspace checkpoints of one session (kernel/checkpoints.py): what  *)
(* the tracked edits of each turn did to the files is recorded, and a      *)
(* restore undoes it file by file under compare-and-swap, with a journal   *)
(* and a branch transaction that the next operation completes if the       *)
(* process died.  A person, or another session, edits the same files at    *)
(* any moment.                                                             *)
(*                                                                         *)
(* A state of a file is its content and its inode.  Modes, owners, parent  *)
(* directories and unsafe paths only make a capture fail, which is a       *)
(* failure here; the lease that keeps two sessions' turns and restores     *)
(* apart is always free; tombstones, blobs, retention and collection are   *)
(* left out.  The branch intent of a conversation restore is Rewind's.     *)
(***************************************************************************)
EXTENDS Naturals, Sequences, SequencesExt, FiniteSets, Functions

CONSTANTS Paths, Calls,
          Contents,       \* what each path may hold, "absent" or some bytes
          Targets,        \* sets of paths one call edits
          MaxTurns, MaxRestores, MaxCalls,     \* bounds; of calls, in one turn
          MaxHands, MaxFaults, MaxCrashes,     \* bounds
          MaxTroubles   \* bound on restores, edits by hand, failures and crashes together

ASSUME RestoreAssumption ==
  /\ {MaxTurns, MaxCalls, MaxRestores, MaxHands, MaxFaults, MaxCrashes, MaxTroubles} \subseteq Nat
  /\ Targets \subseteq (SUBSET Paths) \ {{}} /\ DOMAIN Contents = Paths
  /\ \A p \in Paths : "a" \in Contents[p]     \* what every file holds in the beginning

VARIABLES
  file,       \* the workspace
  order,      \* index.json: the active checkpoints
  manifest,   \* manifests/
  pending,    \* pending/: calls announced and not recorded yet
  journals,   \* restores/: those that still matter
  tx,         \* restore-transaction.json
  life,
  active,     \* _active_checkpoint
  required,   \* _recovery_required
  flying,     \* what each running call may still write, and its post event
  op,         \* the operation that owns the storage; op.raced is a ghost: an edit came
              \* between the last comparison of a file and its rename
  goal,       \* ghost: what a file was before the first tracked edit of each turn
  unseen,     \* ghost: files in a state that a person left and no record ends in
  touched,    \* ghost: files ever edited by hand
  muddled,    \* ghost: files somebody else wrote while a call on them ran
  half,       \* ghost: targets whose restore changed files and was not concluded
  turns, calls, hands, restores, faults, crashes

disk   == <<order, manifest, pending, journals, tx>>
memory == <<life, active, required, flying>>
ghosts == <<goal, unseen, touched, muddled, half>>
counts == <<turns, calls, hands, restores, faults, crashes>>
vars   == <<file, disk, memory, op, ghosts, counts>>

Ids == 1 .. MaxTurns
Absent == [content |-> "absent", inode |-> 0]
States(p) ==
  {s \in [content : Contents[p], inode : {0, 1, 2}] : s.inode = 0 <=> s.content = "absent"}
Skipped == [content |-> "skipped", inode |-> 0]
NoGoal == "none"
NoCall == [id |-> 0, before |-> << >>]
NoTx == [order |-> <<0>>, manifest |-> << >>, goal |-> << >>]
NoOp == [pc |-> "none"]
Blank == [finished |-> TRUE, noted |-> {}, chain |-> [p \in Paths |-> << >>]]

\* _states_equal without and with check_identity.
SameContent(a, b) == a.content = b.content
\* Mutant: the inode is not compared.
SameBytes(a, b) == a.content = b.content
Same(a, b) == a = b

Position(t) == SelectInSeq(order, LAMBDA x : x = t)
Branch(t) == SubSeq(order, Position(t), Len(order))
Since(t) == Range(Branch(t))
Kept(t) == SubSeq(order, 1, Position(t) - 1)
Trouble(n) == restores + hands + faults + crashes + n <= MaxTroubles
\* What a file was before the first tracked edit of these turns.
Before(ts, p) ==
  LET edits == SelectSeq(order, LAMBDA t : t \in ts /\ goal[t][p] # NoGoal) IN
  IF edits = << >> THEN NoGoal ELSE goal[edits[1]][p]
Fails(n) == faults + n <= MaxFaults /\ Trouble(n) /\ faults' = faults + n
NoFault == UNCHANGED faults
Idle == life = "up" /\ op = NoOp /\ active = 0
At(pc) == op.pc = pc

-----------------------------------------------------------------------------
(***************************************************************************)
(* The hooks around a tracked tool call of the running turn.               *)
(***************************************************************************)

Note(what) == manifest' = [manifest EXCEPT ![active].noted = @ \cup what]

\* _handle_pre for a call that names its files; a path that cannot be captured (a limit,
\* a link, an unsafe place) is recorded as skipped.
Announces(c, ps) ==
  \E kept \in SUBSET ps :
    /\ IF kept = ps THEN NoFault ELSE Fails(Cardinality(ps \ kept))
    /\ pending' = [pending EXCEPT ![c] =
         [id |-> active, before |-> [p \in ps |-> IF p \in kept THEN file[p] ELSE Skipped]]]
    /\ UNCHANGED manifest

Running(p) == {c \in Calls : p \in flying[c] \/ p \in DOMAIN pending[c].before}

\* A call whose files cannot be told is noted; so is one whose record failed, unless
\* the note fails too.  The tool runs in any case.
CallPre(c, ps) ==
  /\ life = "up" /\ active # 0
  /\ flying[c] = {} /\ pending[c] = NoCall
  /\ calls < MaxCalls /\ calls' = calls + 1
  /\ flying' = [flying EXCEPT ![c] = ps \cup {"post"}]
  /\ muddled' = muddled \cup {p \in ps : Running(p) # {}}
  /\ \/ Announces(c, ps)
     \/ Note({"unknown"}) /\ UNCHANGED pending /\ (NoFault \/ Fails(1))
     \/ Fails(2) /\ UNCHANGED <<manifest, pending>>
  /\ UNCHANGED <<file, order, journals, tx, life, active, required, op,
                 goal, unseen, touched, half, turns, hands, restores, crashes>>

\* The tool writes the file in place, creates or removes it.
Written(p) ==
  {s \in States(p) : s.content # file[p].content
                 /\ s.inode = IF s = Absent THEN 0 ELSE IF file[p] = Absent THEN 1 ELSE file[p].inode}
ToolWrites(c, p) ==
  /\ life = "up" /\ p \in flying[c] \cap Paths
  /\ \E s \in Written(p) : file' = [file EXCEPT ![p] = s]
  /\ flying' = [flying EXCEPT ![c] = @ \ {p}]
  /\ goal' = [goal EXCEPT ![active][p] = IF @ = NoGoal THEN file[p].content ELSE @]
  /\ unseen' = unseen \ {p}
  /\ muddled' = IF Running(p) \ {c} # {} THEN muddled \cup {p} ELSE muddled
  /\ UNCHANGED <<disk, life, active, required, op, touched, half, counts>>

\* _handle_after: the paths in bad could not be captured, now or before the call.
Changed(before, bad) == {p \in DOMAIN before \ bad : ~SameContent(before[p], file[p])}
Recorded(m, before, bad) ==
  [m EXCEPT !.noted = @ \cup bad,
            !.chain = [p \in Paths |->
               IF p \in Changed(before, bad)
               THEN Append(@[p], [before |-> before[p], after |-> file[p]]) ELSE @[p]]]

\* A call without a record leaves nothing, and neither does one that was denied.
CallAfter(c) ==
  /\ life = "up" /\ "post" \in flying[c]
  /\ flying' = [flying EXCEPT ![c] = {}]
  /\ LET before == pending[c].before
         skipped == {p \in DOMAIN before : before[p] = Skipped} IN
     \/ /\ pending[c] # NoCall
        /\ \E bad \in SUBSET (DOMAIN before \ skipped) :
             /\ IF bad = {} THEN NoFault ELSE Fails(Cardinality(bad))
             /\ manifest' = [manifest EXCEPT ![pending[c].id] = Recorded(@, before, bad \cup skipped)]
             /\ unseen' = unseen \ Changed(before, bad \cup skipped)
        /\ pending' = [pending EXCEPT ![c] = NoCall]
     \/ pending[c] # NoCall /\ Fails(1) /\ Note({"unknown"}) /\ UNCHANGED <<pending, unseen>>
     \/ NoFault /\ UNCHANGED <<manifest, pending, unseen>>
  /\ UNCHANGED <<file, order, journals, tx, life, active, required, op,
                 goal, touched, muddled, half, turns, calls, hands, restores, crashes>>

\* _finalize_active_checkpoint, _finalize_incomplete_for_restore: a call that was never
\* recorded makes its files unrestorable.
Unrecorded(t) == UNION {DOMAIN pending[c].before : c \in {d \in Calls : pending[d].id = t}}
Finalized(t) == [manifest[t] EXCEPT !.finished = TRUE, !.noted = @ \cup Unrecorded(t)]
Without(ts) == [c \in Calls |-> IF pending[c].id \in ts THEN NoCall ELSE pending[c]]

FinishTurn ==
  /\ life = "up" /\ active # 0
  /\ \A c \in Calls : flying[c] = {}
  /\ active' = 0 /\ calls' = 0
  /\ \/ /\ manifest' = [manifest EXCEPT ![active] = Finalized(active)]
        /\ pending' = Without({active}) /\ NoFault
     \/ Fails(1) /\ UNCHANGED <<manifest, pending>>
  /\ UNCHANGED <<file, order, journals, tx, life, required, flying, op, ghosts,
                 turns, hands, restores, crashes>>

-----------------------------------------------------------------------------
(***************************************************************************)
(* Taking the storage: the branch transaction is replayed, then every      *)
(* journal is looked at.                                                   *)
(***************************************************************************)

Owner(purpose, t, retain) ==
  [pc |-> "recover", purpose |-> purpose, asked |-> t, keep |-> retain,
   at |-> 1, upto |-> Len(journals), nested |-> FALSE,
   target |-> t, retain |-> retain, journal |-> 0, writable |-> TRUE,
   todo |-> {}, cur |-> "none", raced |-> FALSE, restored |-> << >>, skipped |-> {}, warned |-> FALSE,
   need |-> FALSE]

Matters(j) == ~j.finished \/ j.required
Live(js) == FlattenSeq([i \in DOMAIN js |-> IF Matters(js[i]) THEN <<js[i]>> ELSE << >>])
Release == op' = NoOp /\ journals' = Live(journals)

\* _apply_restore_transaction.
AppliesTx ==
  /\ order' = tx.order /\ manifest' = tx.manifest /\ goal' = tx.goal
  /\ tx' = NoTx /\ half' = half \cap Range(tx.order)
TxFails ==
  /\ Fails(1) /\ (manifest' = tx.manifest \/ UNCHANGED manifest)
  /\ UNCHANGED <<order, goal, tx, half>>

\* _acquire_storage for an operation; an error releases it again.
Acquire(purpose, t, retain) ==
  /\ \/ tx = NoTx /\ UNCHANGED <<order, manifest, goal, tx, half>> /\ NoFault
                  /\ op' = Owner(purpose, t, retain)
     \/ tx # NoTx /\ AppliesTx /\ NoFault /\ op' = Owner(purpose, t, retain)
     \/ tx # NoTx /\ TxFails /\ op' = NoOp
  /\ UNCHANGED <<file, pending, journals, active, flying, unseen, touched, muddled,
                 calls, hands, crashes>>

AskTurn ==
  /\ Idle /\ turns < MaxTurns /\ Acquire("begin", 0, FALSE)
  /\ UNCHANGED <<life, required, turns, restores>>

\* restore_checkpoint: the code scope keeps the branch.
AskRestore(t, retain) ==
  /\ Idle /\ t \in Range(order)
  /\ restores < MaxRestores /\ Trouble(1) /\ restores' = restores + 1
  /\ Acquire("restore", t, retain)
  /\ UNCHANGED <<life, required, turns>>

\* The person retries what the send gate names.
Retry(t) ==
  /\ Idle /\ t \in required /\ t \in Range(order)
  /\ Acquire("restore", t, FALSE)
  /\ UNCHANGED <<life, required, turns, restores>>

\* A conversation restore asks for the branch that stays visible.
AskCut(t) ==
  /\ Idle /\ t \in Range(order)
  /\ restores < MaxRestores /\ Trouble(1) /\ restores' = restores + 1
  /\ Acquire("cut", t, FALSE)
  /\ UNCHANGED <<life, required, turns>>

Start ==
  /\ life = "down" /\ required' = {}
  /\ Acquire("start", 0, FALSE)
  /\ life' = IF op' = NoOp THEN "down" ELSE "up"
  /\ UNCHANGED <<turns, restores>>

Failed == Release /\ life' = IF op.purpose = "start" THEN "down" ELSE life

\* _recover_incomplete_restore_journals, one journal.
LooksAt(j) == At("recover") /\ op.at <= op.upto /\ j = journals[op.at]
GoesOn == op' = [op EXCEPT !.at = @ + 1]
Returns == op' = [op EXCEPT !.pc = "recover", !.at = @ + 1, !.nested = FALSE,
                          !.target = op.asked, !.retain = op.keep]
Ends(need) == journals' = [journals EXCEPT ![op.at] = [@ EXCEPT !.finished = TRUE, !.required = need]]

RecoverFinished ==
  \E j \in Range(journals) :
    /\ LooksAt(j) /\ j.finished
    /\ IF j.required /\ j.target \in Range(order)
       THEN required' = required \cup {j.target} /\ GoesOn /\ NoFault /\ UNCHANGED <<journals, life>>
       ELSE \/ GoesOn /\ Ends(FALSE) /\ required' = required \ {j.target} /\ NoFault /\ UNCHANGED life
            \/ Fails(1) /\ Failed /\ UNCHANGED required
    /\ UNCHANGED <<file, order, manifest, pending, tx, active, flying, ghosts,
                   turns, calls, hands, restores, crashes>>

RecoverCommitted ==
  \E j \in Range(journals) :
    /\ LooksAt(j) /\ ~j.finished /\ j.target \notin Range(order)
    /\ \/ GoesOn /\ Ends(FALSE) /\ NoFault /\ UNCHANGED life
       \/ Fails(1) /\ Failed
    /\ UNCHANGED <<file, order, manifest, pending, tx, active, required, flying, ghosts,
                   turns, calls, hands, restores, crashes>>

\* Mutant: an unfinished restore is passed over.
PassesOver ==
  \E j \in Range(journals) :
    /\ LooksAt(j) /\ ~j.finished /\ j.target \in Range(order)
    /\ GoesOn
    /\ UNCHANGED <<file, disk, memory, ghosts, counts>>
RecoverAgain ==
  \E j \in Range(journals) :
    /\ LooksAt(j) /\ ~j.finished /\ j.target \in Range(order)
    /\ op' = [op EXCEPT !.pc = "plan", !.nested = TRUE, !.target = j.target, !.retain = j.retain]
    /\ UNCHANGED <<file, disk, memory, ghosts, counts>>

\* The journals are done with: the operation proper.
Recovered == At("recover") /\ op.at > op.upto

Opened == [Blank EXCEPT !.finished = FALSE]

\* begin; retention (_prune) is left out, see Rewind.
BeginTurn ==
  /\ Recovered /\ op.purpose = "begin" /\ required = {}
  /\ turns' = turns + 1 /\ active' = turns'
  /\ order' = Append(order, turns')
  /\ manifest' = [manifest EXCEPT ![turns'] = Opened]
  /\ Release
  /\ UNCHANGED <<file, pending, tx, life, required, flying, ghosts, calls, hands, restores, faults, crashes>>

\* The lease is kept for the turn only; whatever else took it gives it back.
LetGo ==
  /\ Recovered
  /\ \/ op.purpose = "begin" /\ required # {} /\ NoFault
     \/ op.purpose = "begin" /\ Fails(1)
     \/ op.purpose = "start" /\ NoFault
     \/ op.purpose \in {"restore", "cut"} /\ op.asked \notin Range(order) /\ NoFault
  /\ Release
  /\ UNCHANGED <<file, order, manifest, pending, tx, memory, ghosts,
                 turns, calls, hands, restores, crashes>>

-----------------------------------------------------------------------------
(***************************************************************************)
(* restore.  Its manifests are finalized; then each path is put back,      *)
(* confirmed or skipped.                                                   *)
(***************************************************************************)

Selected == Since(op.target)
Chain(m, branch, p) == FlattenSeq([i \in DOMAIN branch |-> m[branch[i]].chain[p]])
Continuous(s) == \A i \in 1 .. Len(s) - 1 : Same(s[i].after, s[i + 1].before)
Expected(s) == Last(s).after
Desired(s) == s[1].before

FinalizesSelected ==
  LET open == {t \in Selected : ~manifest[t].finished} IN
  /\ manifest' = [t \in Ids |-> IF t \in open THEN Finalized(t) ELSE manifest[t]]
  /\ pending' = Without(open)

\* The paths of the plan.  A note on a path rules that path out, a note on an unknown
\* target rules out all of them.
Plan(noted, tracked, S(_)) ==
  LET chained == {p \in tracked : "unknown" \notin noted /\ p \notin noted /\ Continuous(S(p))}
      already == {p \in chained : SameContent(file[p], Desired(S(p)))}
      todo == {p \in chained \ already : Same(file[p], Expected(S(p)))}
  IN \E bad \in SUBSET (already \cup todo) :   \* a capture, or an fsync, fails
       /\ IF bad = {} THEN NoFault ELSE Fails(Cardinality(bad))
       /\ op' = [op EXCEPT !.pc = "swap", !.journal = Len(journals'), !.todo = todo \ bad,
                  !.restored = [p \in already \ bad |-> file[p]],
                  !.skipped = noted \cup (tracked \ ((already \cup todo) \ bad)),
                  !.warned = FALSE, !.writable = TRUE, !.need = FALSE]

\* An exception ends an explicit restore, and marks a recovered one.
RaisesOut ==
  \/ op.nested /\ Fails(1) /\ Ends(TRUE) /\ required' = required \cup {op.target} /\ Returns /\ UNCHANGED life
  \/ op.nested /\ Fails(2) /\ required' = required \cup {op.target} /\ Failed
  \/ ~op.nested /\ Fails(1) /\ Release /\ UNCHANGED <<required, life>>

PlanRestore ==
  /\ \/ At("plan")
     \/ Recovered /\ op.purpose = "restore" /\ op.asked \in Range(order)
  /\ \/ /\ FinalizesSelected
        /\ journals' = Append(journals, [target |-> op.target, retain |-> op.retain,
                                         finished |-> FALSE, required |-> FALSE])
        /\ Plan(UNION {manifest'[t].noted : t \in Selected},
                {p \in Paths : Chain(manifest', Branch(op.target), p) # << >>},
             LAMBDA p : Chain(manifest', Branch(op.target), p))
        /\ UNCHANGED <<required, life>>
     \/ RaisesOut /\ UNCHANGED <<manifest, pending>>
     \/ RaisesOut /\ FinalizesSelected
  /\ UNCHANGED <<file, order, tx, active, flying, ghosts, turns, calls, hands, restores, crashes>>

\* The entry reaches the journal before the file is touched; once that fails, the
\* rest is skipped.  _apply_restore compares again, twice.
Skips(p) == op' = [op EXCEPT !.todo = @ \ {p}, !.skipped = @ \cup {p}]
CheckFile(p) ==
  /\ At("swap") /\ p \in op.todo
  /\ \/ /\ NoFault
        /\ IF Same(file[p], Expected(Chain(manifest, Branch(op.target), p)))
           THEN op' = [op EXCEPT !.pc = "rename", !.cur = p, !.todo = @ \ {p}, !.raced = FALSE]
           ELSE Skips(p)
     \/ /\ Fails(1)
        /\ op' = [op EXCEPT !.todo = {}, !.skipped = @ \cup op.todo, !.writable = FALSE]
  /\ UNCHANGED <<file, disk, memory, ghosts, turns, calls, hands, restores, crashes>>

PutBack(p) ==
  LET c == Desired(Chain(manifest, Branch(op.target), p)).content IN
  IF c = "absent" THEN Absent ELSE [content |-> c, inode |-> IF file[p].inode = 1 THEN 2 ELSE 1]

Adds(p) == [q \in DOMAIN op.restored \cup {p} |-> IF q = p THEN file'[p] ELSE op.restored[q]]
RenameFile(p) ==
  /\ At("rename") /\ p = op.cur
  /\ \/ /\ file' = [file EXCEPT ![p] = PutBack(p)]
        /\ unseen' = unseen \ {p} /\ half' = half \cup {op.target}
        /\ \/ NoFault /\ op' = [op EXCEPT !.pc = "swap", !.cur = "none", !.raced = FALSE, !.restored = Adds(p)]
           \/ Fails(1) /\ op' = [op EXCEPT !.pc = "swap", !.cur = "none", !.raced = FALSE, !.skipped = @ \cup {p}]   \* the fsync
           \/ /\ Fails(1)                                                             \* the journal
              /\ op' = [op EXCEPT !.pc = "swap", !.cur = "none", !.raced = FALSE, !.restored = Adds(p),
                                  !.todo = {}, !.skipped = @ \cup op.todo,
                                  !.warned = TRUE, !.writable = FALSE]
     \/ /\ Fails(1) /\ op' = [op EXCEPT !.pc = "swap", !.cur = "none", !.raced = FALSE, !.skipped = @ \cup {p}]      \* the blob, the temporary
        /\ UNCHANGED <<file, unseen, half>>
  /\ UNCHANGED <<disk, memory, goal, touched, muddled, turns, calls, hands, restores, crashes>>

\* A file that changed again is not blessed: what the report says in the end.
Blessed == {p \in DOMAIN op.restored : Same(file[p], op.restored[p])}
Unsettled == op.skipped \cup (DOMAIN op.restored \ Blessed)
Clean == Unsettled = {} /\ ~op.warned

\* _rebased_predecessors: the last change of a restored path before the target now
\* ends in the state the restore left.
\* Mutant: the predecessors keep what they recorded.
NotRebased(t) == manifest[t]
TakesOver(t, p) ==
  LET before == Kept(op.target)
      edits == {j \in DOMAIN before : manifest[before[j]].chain[p] # << >>}
  IN p \in Blessed /\ \E j \in edits : before[j] = t /\ \A k \in edits : k <= j
EndsIn(s, state) == [s EXCEPT ![Len(s)].after = state]
Rebased(t) ==
  [manifest[t] EXCEPT !.chain = [p \in Paths |->
     IF TakesOver(t, p) THEN EndsIn(@[p], op.restored[p]) ELSE @[p]]]

Unresolved(t) ==
  [manifest[t] EXCEPT !.chain = [p \in Paths |-> IF p \in Unsettled THEN @[p] ELSE << >>]]

NextBranch ==
  [order |-> IF Clean /\ ~op.retain THEN Kept(op.target) ELSE order,
   manifest |-> [t \in Ids |-> IF t \notin Selected THEN Rebased(t)
                               ELSE IF Clean THEN Blank ELSE Unresolved(t)],
   goal |-> [t \in Ids |-> [p \in Paths |->
               IF t \notin Selected \/ (p \in Unsettled /\ t \in Range(order))
               THEN goal[t][p] ELSE NoGoal]]]

\* _commit_restore_state: the transaction first.
Reports == At("swap") /\ op.todo = {}
CommitRestore ==
  /\ Reports
  /\ \/ /\ NoFault /\ tx' = NextBranch /\ op' = [op EXCEPT !.pc = "apply", !.skipped = Unsettled]
        /\ unseen' = unseen \ {p \in Paths : \E t \in Ids : TakesOver(t, p)}
        /\ UNCHANGED required
     \/ /\ Fails(1) /\ op' = [op EXCEPT !.pc = "close", !.need = TRUE, !.skipped = Unsettled]
        /\ required' = required \cup {op.target} /\ UNCHANGED <<tx, unseen>>
  /\ UNCHANGED <<file, order, manifest, pending, journals, life, active, flying,
                 goal, touched, muddled, half, turns, calls, hands, restores, crashes>>

ApplyRestore ==
  /\ At("apply") /\ (op.purpose # "cut" \/ op.nested)
  /\ \/ /\ NoFault /\ AppliesTx /\ op' = [op EXCEPT !.pc = "close"] /\ UNCHANGED required
     \/ /\ TxFails /\ op' = [op EXCEPT !.pc = "close", !.need = TRUE]
        /\ required' = required \cup {op.target}
  /\ UNCHANGED <<file, pending, journals, life, active, flying, unseen, touched, muddled,
                 turns, calls, hands, restores, crashes>>

\* The journal is marked finished, if it can be.
Concludes(js) ==
  [i \in DOMAIN js |-> IF i = op.journal
     THEN [js[i] EXCEPT !.finished = TRUE, !.required = op.need] ELSE js[i]]
Cleared(js) ==
  [i \in DOMAIN js |-> IF js[i].target = op.target THEN [js[i] EXCEPT !.required = FALSE] ELSE js[i]]

Settled == op.skipped = {} /\ ~op.warned /\ ~op.need

\* An explicit restore reports to the person; a clean one lifts the gate.
CloseRestore ==
  /\ At("close") /\ ~op.nested
  /\ half' = half \ {op.target}
  /\ LET clean == Settled IN
     \/ /\ op.writable /\ NoFault
        /\ LET js == IF clean /\ op.target \in required THEN Cleared(Concludes(journals))
                                                        ELSE Concludes(journals) IN
           journals' = Live(js)
        /\ required' = IF clean THEN required \ {op.target} ELSE required
     \/ /\ op.writable => Fails(1)
        /\ ~op.writable => NoFault
        /\ journals' = Live(journals) /\ UNCHANGED required
     \/ /\ op.writable /\ clean /\ op.target \in required /\ Fails(1)
        /\ journals' = Live(Concludes(journals)) /\ UNCHANGED required
  /\ op' = NoOp
  /\ UNCHANGED <<file, order, manifest, pending, tx, life, active, flying,
                 goal, unseen, touched, muddled, turns, calls, hands, restores, crashes>>

\* A recovered one is concluded in both journals; what it could not settle closes
\* the gate.
CloseRecovered ==
  /\ At("close") /\ op.nested
  /\ \E unwritten \in {FALSE, op.writable}, lost \in BOOLEAN :
       LET need == ~Settled \/ unwritten
           own == IF op.writable /\ ~unwritten THEN Concludes(journals) ELSE journals IN
       /\ Fails((IF unwritten THEN 1 ELSE 0) + (IF lost THEN 1 ELSE 0))
       /\ half' = IF need THEN half ELSE half \ {op.target}
       /\ required' = IF need THEN required \cup {op.target} ELSE required
       /\ IF lost
          THEN /\ op' = NoOp /\ journals' = Live(own)
               /\ life' = IF op.purpose = "start" THEN "down" ELSE life
          ELSE /\ Returns /\ UNCHANGED life
               /\ journals' = [own EXCEPT ![op.at] = [@ EXCEPT !.finished = TRUE, !.required = need]]
  /\ UNCHANGED <<file, order, manifest, pending, tx, active, flying,
                 goal, unseen, touched, muddled, turns, calls, hands, restores, crashes>>

-----------------------------------------------------------------------------
(***************************************************************************)
(* reconcile_visible: the conversation went back to before a checkpoint    *)
(* and the files stay, so the last checkpoint that remains takes over      *)
(* what its successors recorded.                                           *)
(***************************************************************************)

Folded(m, kept, gone) ==
  LET last == Last(kept) IN
  [t \in Ids |->
     IF t \in gone THEN Blank
     ELSE IF t # last THEN m[t]
     ELSE [finished |-> TRUE,
           noted |-> m[t].noted \cup UNION {m[g].noted : g \in gone},
           chain |-> [p \in Paths |-> m[t].chain[p] \o Chain(m, Branch(op.asked), p)]]]

Finalizing(ts) == [t \in Ids |-> IF t \in ts /\ ~manifest[t].finished THEN Finalized(t) ELSE manifest[t]]

CutBranch ==
  /\ Recovered /\ op.purpose = "cut" /\ op.asked \in Range(order)
  /\ LET gone == Since(op.asked)
         kept == Kept(op.asked)
         open == IF kept = << >> THEN {} ELSE gone \cup {Last(kept)}
     IN /\ manifest' = Finalizing(open) /\ pending' = Without(open)
        /\ \/ /\ NoFault
              /\ tx' = [order |-> kept,
                       manifest |-> IF kept = << >> THEN [t \in Ids |-> IF t \in gone THEN Blank ELSE manifest[t]]
                                    ELSE Folded(manifest', kept, gone),
                       goal |-> [t \in Ids |-> [p \in Paths |->
                                  IF t \in gone THEN NoGoal
                                  ELSE IF kept # << >> /\ t = Last(kept) THEN Before(gone \cup {t}, p)
                                  ELSE goal[t][p]]]]
              /\ op' = [op EXCEPT !.pc = "apply"] /\ UNCHANGED journals
           \/ Fails(1) /\ Release /\ UNCHANGED tx
  /\ UNCHANGED <<file, order, memory, ghosts, turns, calls, hands, restores, crashes>>

ApplyCut ==
  /\ At("apply") /\ op.purpose = "cut" /\ ~op.nested
  /\ (NoFault /\ AppliesTx) \/ TxFails
  /\ Release
  /\ UNCHANGED <<file, pending, memory, unseen, touched, muddled, turns, calls, hands, restores, crashes>>

-----------------------------------------------------------------------------
(***************************************************************************)
(* The environment, and the specification.                                 *)
(***************************************************************************)

\* The states that a record of some turn ends a change in, or is about to: nothing
\* tells them from a person's own.
EndsOf(m, p) == UNION {{m[t].chain[p][i].after : i \in DOMAIN m[t].chain[p]} : t \in Ids}
Left(p) == EndsOf(manifest, p) \cup IF tx = NoTx THEN {} ELSE EndsOf(tx.manifest, p)

\* The same content under another inode.
Replaced(p) == {s \in States(p) : SameContent(s, file[p]) /\ s.inode # file[p].inode}

HandEdit(p) ==
  /\ hands < MaxHands /\ Trouble(1) /\ hands' = hands + 1
  /\ \E s \in Written(p) \cup Replaced(p) : file' = [file EXCEPT ![p] = s]
  /\ unseen' = IF file'[p] \in Left(p) THEN unseen \ {p} ELSE unseen \cup {p}
  /\ touched' = touched \cup {p}
  /\ muddled' = IF Running(p) # {} THEN muddled \cup {p} ELSE muddled
  /\ op' = IF op = NoOp \/ op.cur # p THEN op ELSE [op EXCEPT !.raced = TRUE]
  /\ UNCHANGED <<disk, memory, goal, half, turns, calls, restores, faults, crashes>>

Crash ==
  /\ life = "up" /\ crashes < MaxCrashes /\ Trouble(1) /\ crashes' = crashes + 1
  /\ life' = "down" /\ active' = 0 /\ calls' = 0 /\ required' = {}
  /\ flying' = [c \in Calls |-> {}]
  /\ Release
  /\ UNCHANGED <<file, order, manifest, pending, tx, ghosts, turns, hands, restores, faults>>

Init ==
  /\ file = [p \in Paths |-> [content |-> "a", inode |-> 1]]
  /\ order = << >> /\ manifest = [t \in Ids |-> Blank] /\ pending = [c \in Calls |-> NoCall]
  /\ journals = << >> /\ tx = NoTx
  /\ life = "up" /\ active = 0 /\ required = {} /\ flying = [c \in Calls |-> {}]
  /\ op = NoOp
  /\ goal = [t \in Ids |-> [p \in Paths |-> NoGoal]]
  /\ unseen = {} /\ touched = {} /\ muddled = {} /\ half = {}
  /\ turns = 0 /\ calls = 0 /\ hands = 0 /\ restores = 0 /\ faults = 0 /\ crashes = 0

Next ==
  \/ \E c \in Calls, ps \in Targets : CallPre(c, ps)
  \/ \E c \in Calls, p \in Paths : ToolWrites(c, p)
  \/ \E c \in Calls : CallAfter(c)
  \/ FinishTurn
  \/ AskTurn
  \/ \E t \in Ids, retain \in BOOLEAN : AskRestore(t, retain)
  \/ \E t \in Ids : Retry(t)
  \/ \E t \in Ids : AskCut(t)
  \/ Start
  \/ RecoverFinished \/ RecoverCommitted \/ RecoverAgain
  \/ BeginTurn \/ LetGo
  \/ PlanRestore
  \/ \E p \in Paths : CheckFile(p)
  \/ \E p \in Paths : RenameFile(p)
  \/ CommitRestore \/ ApplyRestore \/ CloseRestore \/ CloseRecovered
  \/ CutBranch \/ ApplyCut
  \/ \E p \in Paths : HandEdit(p)
  \/ Crash

Spec == Init /\ [][Next]_vars

-----------------------------------------------------------------------------
(***************************************************************************)
(* Properties.                                                             *)
(***************************************************************************)

TypeOK ==
  /\ \A p \in Paths : file[p] \in States(p)
  /\ order \in Seq(Ids) /\ tx.order \in Seq(0 .. MaxTurns)
  /\ \A c \in Calls : pending[c].id \in 0 .. MaxTurns /\ DOMAIN pending[c].before \subseteq Paths
  /\ life \in {"up", "down"} /\ active \in 0 .. MaxTurns /\ required \subseteq Ids
  /\ half \subseteq Ids

\* A state a person left in a file, and no record ends in, is never overwritten or
\* removed by a restore or by its recovery; only an edit between the
\* last comparison and the rename is (checkpoints.py, "Undo direct edits from
\* checkpoint_id onward using strict CAS").
KeepsHandEdits ==
  [][\A p \in Paths : op.pc = "rename" /\ file'[p] # file[p] /\ hands' = hands /\ p \in unseen
                       => op.raced]_vars

\* What a restore reports as restored is as it was before the first tracked edit of
\* the target or a later checkpoint, and a restore without a skipped path has undone
\* every edit: across folded branches, code-only restores, partial ones and recovery.
RestoredIsRestored ==
  Reports =>
    \A p \in Paths \ muddled :
      Before(Selected, p) # NoGoal /\ (p \in Blessed \/ Clean)
        => file[p].content = Before(Selected, p)

\* A file only tracked calls and restores ever wrote is never reported as conflicting,
\* whatever was restored, recovered or folded before: only a note explains a skip.
NoFalseConflict ==
  Reports /\ faults = 0 =>
    \A p \in Unsettled \cap (Paths \ (touched \cup muddled)) :
      \E t \in Selected : manifest[t].noted \cap {p, "unknown"} # {}

\* The type invariant with the two promises of a restore's report.
ReportIsTrue == TypeOK /\ RestoredIsRestored /\ NoFalseConflict

\* No turn begins over a restore that changed files and was neither completed nor
\* reported to the person.
AdmitsOnlySettled == [][active = 0 /\ active' # 0 => half = {}]_vars

\* What a person may rely on while turns and restores go on.
PersonKeepsFiles == KeepsHandEdits /\ AdmitsOnlySettled

\* What the docstring of _rebased_predecessors says: "Refresh terminal CAS identities
\* after an atomic restore replace", so the content a change ended in stays.
RebaseRefreshesIdentity ==
  [][\A t \in Ids, p \in Paths :
       LET old == manifest[t].chain[p]  new == manifest'[t].chain[p] IN
       Len(new) = Len(old) => \A i \in DOMAIN old : SameContent(old[i].after, new[i].after)]_vars
===============================================================================
