----------------------------- MODULE SessionFiles -----------------------------
(***************************************************************************)
(* The files of one stored session (kernel/persistence.py) and what the    *)
(* session manager does with them (kernel/session_manager.py): its         *)
(* transcript and its metadata, each a file and a backup, saved by the     *)
(* process that runs the session, and renamed, tagged and deleted by that  *)
(* process and by others, for instance the server of another session of    *)
(* the project.  Nothing is locked: metadata is read, changed and written  *)
(* back.                                                                   *)
(*                                                                         *)
(* A process is killed between any two file operations, a write fails, and *)
(* a file is damaged from outside.  A file is replaced in one step, a      *)
(* backup together with the reading of what it copies.                     *)
(***************************************************************************)
EXTENDS Naturals, FiniteSets

CONSTANTS Owner, Others,   \* the process that runs the session, and the other ones
          MaxLength,       \* bound on the messages of the conversation
          MaxEdits,        \* bound on renames, tags and deletions
          MaxTroubles      \* bound on kills, failed writes and damaged files

FilesAssumption == Owner \notin Others /\ {MaxLength, MaxEdits, MaxTroubles} \subseteq Nat

Writers == {Owner} \cup Others

VARIABLES
  talk,        \* transcript.jsonl and its backup
  meta,        \* metadata.json and its backup
  there,       \* the session's directory exists
  up,          \* the session's process runs
  length,      \* messages in its context
  mark,        \* _last_message_count
  doing,       \* what each writer is at
  promised,    \* ghost: the name last written by a rename, and the tags by a tag
  kept,        \* ghost: the messages in the last save, and in the shorter of the last two
  ran,         \* ghost: how often the directive was given to the session
  edits, troubles,
  raced,       \* ghost: metadata was written while another writer held what it read before
  hurt,        \* ghost: files damaged
  uncleared,   \* ghost: a directive was run although clearing it failed
  gone         \* ghost: deleted, by nobody's leave "idle", or while somebody was at it "busy"

files == <<talk, meta, there>>
ghosts == <<promised, kept, ran, raced, hurt, uncleared, gone>>
vars == <<files, up, length, mark, doing, edits, troubles, ghosts>>

-----------------------------------------------------------------------------
None == [is |-> "none"]
Bad == [is |-> "bad"]
Talk(n) == [is |-> "good", length |-> n]
Pair(main, back) == [main |-> main, back |-> back]
Good(f) == f.is = "good"
Record(name, tags, directive, recovered) ==
  [is |-> "good", name |-> name, tags |-> tags, directive |-> directive, recovered |-> recovered]
Blank == Record(0, {}, FALSE, FALSE)

\* The file, else its backup, else what stands for both being unreadable, or missing.
Loaded(pair, lost, missing) ==
  IF Good(pair.main) THEN pair.main
  ELSE IF Good(pair.back) THEN pair.back
  ELSE IF pair.main = Bad \/ pair.back = Bad THEN lost ELSE missing
Metadata == Loaded(meta, Record(0, {}, FALSE, TRUE), Blank)
Transcript == Loaded(talk, Talk(0), Talk(0))

Exists == there
\* summary_for's states "ok" and "transcript_lost", and a metadata file.
Resumable == meta.main # None /\ ~Metadata.recovered

Idle == [at |-> "idle"]
\* id names the edit; tags and seen are what was read; shell, the stub comes first.
Job(op, at, shell) ==
  [op |-> op, at |-> at, id |-> IF op \in {"rename", "tag"} THEN edits + 1 ELSE 0, tags |-> {}, seen |-> Blank, shell |-> shell]
At(w, at) == doing[w].at = at
Goes(w, at) == doing' = [doing EXCEPT ![w].at = at]
Done(w) == doing' = [doing EXCEPT ![w] = Idle]

\* A new session, or one that fork wrote with a directive.
Init ==
  /\ \/ /\ talk = Pair(None, None) /\ meta = Pair(None, None)
        /\ up = TRUE /\ there = FALSE
        /\ kept = [last |-> 0, before |-> 0]
     \/ /\ talk = Pair(Talk(1), None) /\ meta = Pair(Record(0, {}, TRUE, FALSE), None)
        /\ up = FALSE /\ there = TRUE
        /\ kept = [last |-> 1, before |-> 0]
  /\ length = 0 /\ mark = 0
  /\ doing = [w \in Writers |-> Idle]
  /\ promised = [name |-> 0, tags |-> {}] /\ ran = 0
  /\ edits = 0 /\ troubles = 0
  /\ raced = FALSE /\ uncleared = FALSE /\ hurt = {} /\ gone = "no"

-----------------------------------------------------------------------------
(***************************************************************************)
(* Operations begin.                                                       *)
(***************************************************************************)

\* start: the transcript is loaded, and the directive taken.
Resume ==
  /\ ~up /\ Resumable
  /\ up' = TRUE /\ length' = Transcript.length /\ mark' = 0
  /\ doing' = [doing EXCEPT ![Owner] = Job("take", "look", FALSE)]
  /\ UNCHANGED <<files, edits, troubles, ghosts>>

\* A message is added, and an event of it appended to the log beside the files.
Say ==
  /\ up /\ doing[Owner] = Idle /\ length < MaxLength
  /\ length' = length + 1 /\ there' = TRUE
  /\ UNCHANGED <<talk, meta, up, mark, doing, edits, troubles, ghosts>>

\* _save, forced or not.
Save(force) ==
  /\ up /\ doing[Owner] = Idle
  /\ force \/ length > mark
  /\ doing' = [doing EXCEPT ![Owner] =
       [Job("save", "t-copy", FALSE) EXCEPT !.seen = IF Exists THEN Metadata ELSE Blank]]
  /\ UNCHANGED <<files, up, length, mark, edits, troubles, ghosts>>

First(op) == IF op = "tag" THEN "look" ELSE "read"
Counted == edits < MaxEdits /\ edits' = edits + 1
\* rename and add_tags; the session's own process writes a shell first when there is nothing.
Edit(w, op) ==
  /\ doing[w] = Idle /\ (w = Owner => up) /\ (w # Owner => Exists) /\ Counted
  /\ doing' = [doing EXCEPT ![w] =
       Job(op, IF Exists THEN First(op) ELSE "t-copy", ~Exists)]
  /\ UNCHANGED <<files, up, length, mark, troubles, ghosts>>

\* delete removes everything, whoever is at it.
Delete(w) ==
  /\ doing[w] = Idle /\ Exists /\ Counted
  /\ talk' = Pair(None, None) /\ meta' = Pair(None, None) /\ there' = FALSE
  /\ gone' = IF up \/ \E v \in Writers : doing[v] # Idle THEN "busy" ELSE "idle"
  /\ promised' = [name |-> 0, tags |-> {}]
  /\ UNCHANGED <<up, length, mark, doing, troubles, kept, ran, raced, hurt, uncleared>>

-----------------------------------------------------------------------------
(***************************************************************************)
(* File operations.                                                        *)
(***************************************************************************)

Trouble == troubles < MaxTroubles /\ troubles' = troubles + 1

\* The first reading, of the tags or of the directive; no directive, and there is no more to do.
Look(w) ==
  /\ At(w, "look")
  /\ IF doing[w].op = "take" /\ ~Metadata.directive THEN Done(w)
     ELSE doing' = [doing EXCEPT ![w].at = "read", ![w].tags = Metadata.tags]
  /\ UNCHANGED <<files, up, length, mark, edits, troubles, ghosts>>

\* take_pending_directive returns the directive whether it could be cleared or not.
Given(w, cleared) ==
  /\ ran' = IF doing[w].op = "take" THEN ran + 1 ELSE ran
  /\ uncleared' = (uncleared \/ (doing[w].op = "take" /\ ~cleared))

\* update_metadata reads again; a session that is gone is refused.
Read(w) ==
  /\ At(w, "read")
  /\ \/ /\ Exists
        /\ doing' = [doing EXCEPT ![w].at = "m-copy", ![w].seen = Metadata]
        /\ UNCHANGED <<ran, uncleared>>
     \/ ~Exists /\ Done(w) /\ Given(w, FALSE)
  /\ UNCHANGED <<files, up, length, mark, edits, troubles, promised, kept, raced, hurt, gone>>

Copied(pair) == IF pair.main = None THEN pair ELSE [pair EXCEPT !.back = pair.main]

\* _write_with_backup; a backup that cannot be written is done without.
CopyTranscript(w) ==
  /\ At(w, "t-copy") /\ Goes(w, "t-write") /\ there' = TRUE
  /\ \/ talk' = Copied(talk) /\ UNCHANGED troubles
     \/ talk.main # None /\ Trouble /\ UNCHANGED talk
  /\ UNCHANGED <<meta, up, length, mark, edits, ghosts>>
WriteTranscript(w) ==
  /\ At(w, "t-write") /\ Goes(w, "m-copy")
  /\ talk' = [talk EXCEPT !.main = Talk(IF doing[w].shell THEN 0 ELSE length)]
  /\ there' = TRUE
  /\ UNCHANGED <<meta, up, length, mark, edits, troubles, ghosts>>
CopyMetadata(w) ==
  /\ At(w, "m-copy") /\ Goes(w, "m-write") /\ there' = TRUE
  /\ \/ meta' = Copied(meta) /\ UNCHANGED troubles
     \/ meta.main # None /\ Trouble /\ UNCHANGED meta
  /\ UNCHANGED <<talk, up, length, mark, edits, ghosts>>

\* Mutant: the saver writes its own fields and nothing else.
SavesOwn(w) == Blank
\* What the saver writes: its own fields over those it read.
Saved(w) == doing[w].seen
Changed(w) == LET job == doing[w] IN
  CASE job.shell -> Blank
    [] job.op = "save" -> Saved(w)
    [] job.op = "rename" -> [job.seen EXCEPT !.name = job.id]
    [] job.op = "tag" -> [job.seen EXCEPT !.tags = job.tags \cup {job.id}]
    [] job.op = "take" -> [job.seen EXCEPT !.directive = FALSE]

\* What it writes will be made from what it has read, or, the shell, from nothing.
Holds(w) ==
  \/ doing[w].at \in {"t-copy", "t-write", "m-copy", "m-write"}
  \/ At(w, "read") /\ doing[w].op = "tag"

Kept(n) == [last |-> n, before |-> IF n < kept.last THEN n ELSE kept.last]
\* The operation returns; after the shell comes what was asked for.
WriteMetadata(w) ==
  /\ At(w, "m-write")
  /\ meta' = [meta EXCEPT !.main = Changed(w)] /\ there' = TRUE
  /\ LET job == doing[w]  edit == job.op \in {"rename", "tag"} /\ ~job.shell IN
     /\ doing' = [doing EXCEPT ![w] =
          IF job.shell THEN [job EXCEPT !.shell = FALSE, !.at = First(job.op)] ELSE Idle]
     /\ IF job.op = "save" THEN mark' = length /\ kept' = Kept(length) ELSE UNCHANGED <<mark, kept>>
     /\ promised' =
          IF ~edit THEN promised
          ELSE IF job.op = "rename" THEN [promised EXCEPT !.name = job.id]
          ELSE [promised EXCEPT !.tags = @ \cup {job.id}]
  /\ Given(w, TRUE)
  /\ raced' = (raced \/ \E v \in Writers \ {w} : Holds(v))
  /\ UNCHANGED <<talk, up, length, edits, troubles, hurt, gone>>

-----------------------------------------------------------------------------
(***************************************************************************)
(* Troubles.                                                               *)
(***************************************************************************)

\* A main file cannot be written: the operation ends there.
WriteFails(w) ==
  /\ doing[w].at \in {"t-write", "m-write"} /\ Trouble
  /\ Done(w) /\ Given(w, FALSE)
  /\ UNCHANGED <<files, up, length, mark, edits, promised, kept, raced, hurt, gone>>

Kill(w) ==
  /\ (doing[w] # Idle \/ (w = Owner /\ up)) /\ Trouble
  /\ Done(w)
  /\ IF w = Owner THEN up' = FALSE /\ length' = 0 /\ mark' = 0 ELSE UNCHANGED <<up, length, mark>>
  /\ UNCHANGED <<files, edits, ghosts>>

Damage ==
  /\ Trouble
  /\ \/ Good(talk.main) /\ talk' = [talk EXCEPT !.main = Bad] /\ UNCHANGED meta
        /\ hurt' = hurt \cup {"talk"}
     \/ Good(meta.main) /\ meta' = [meta EXCEPT !.main = Bad] /\ UNCHANGED talk
        /\ hurt' = hurt \cup {"meta"}
  /\ UNCHANGED <<there, up, length, mark, doing, edits, promised, kept, ran, raced, uncleared, gone>>

Next ==
  \/ Resume \/ Say \/ Damage
  \/ \E force \in BOOLEAN : Save(force)
  \/ \E w \in Writers :
       \/ \E op \in {"rename", "tag"} : Edit(w, op)
       \/ Delete(w) \/ Look(w) \/ Read(w)
       \/ CopyTranscript(w) \/ WriteTranscript(w) \/ CopyMetadata(w) \/ WriteMetadata(w)
       \/ WriteFails(w) \/ Kill(w)

Spec == Init /\ [][Next]_vars

-----------------------------------------------------------------------------
(***************************************************************************)
(* Properties.                                                             *)
(***************************************************************************)

Quiet == ~raced /\ hurt = {} /\ gone # "busy"

\* Whatever is saved between, the name and the tags last given stay, unless two writers of
\* metadata overlapped.
NamesStay == Quiet => Metadata.name = promised.name /\ Metadata.tags = promised.tags

\* A directive is given to the session once, unless clearing it failed.
DirectiveOnce == Quiet /\ ~uncleared => ran <= 1

\* A kill or a failed write loses nothing that was saved before, and a damaged transcript no
\* more than the last save, unless another trouble comes between a backup's writing and the
\* file's; what the saver counts as saved was saved.
TranscriptKept ==
  gone = "no" =>
    /\ "talk" \notin hurt => Transcript.length >= kept.last
    /\ troubles <= 1 /\ (\A w \in Writers : ~At(w, "t-write")) => Transcript.length >= kept.before
    /\ mark <= kept.last

\* A session that is resumable stays so, but for damage, whoever is killed while writing;
\* one that was deleted while nobody was at it stays deleted.
StaysResumable == hurt = {} /\ gone = "no" /\ kept.last > 0 => Resumable
StaysDeleted == gone = "idle" => ~Exists

FilesSound == NamesStay /\ DirectiveOnce /\ TranscriptKept /\ StaysResumable /\ StaysDeleted

=============================================================================
