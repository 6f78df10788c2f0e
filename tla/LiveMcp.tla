------------------------------- MODULE LiveMcp -------------------------------
(***************************************************************************)
(* MCP servers of a running session (kernel/live_mcp.py, and the commands  *)
(* of kernel/runtime.py that save a server's configuration and then        *)
(* reconcile the session with it).  Connections are the tool-mcp module's: *)
(* starting or stopping one may fail, and so may every mount and unmount   *)
(* of a tool, without effect.                                              *)
(*                                                                         *)
(* The loops that mount, unmount and remount the tools of one server are   *)
(* one step each: nobody else mounts while the reconciler holds its lock.  *)
(* The upstream capability, which no pinned module has, is left out.       *)
(***************************************************************************)
EXTENDS Naturals, Sequences, SequencesExt, FiniteSets

CONSTANTS Servers, Names, Specs,
          ToolLists,             \* what a connection may turn out to offer
          NoSpec, Free, Boot,
          MaxManagers, MaxCommands   \* bounds on connections made and commands given

McpAssumption ==
  /\ NoSpec \notin Specs /\ {Free, Boot} \cap Nat = {} /\ Free # Boot
  /\ {MaxManagers, MaxCommands} \subseteq Nat /\ ToolLists \subseteq Seq(Names)

VARIABLES
  saved, above,   \* the user's mcp.json, and what project, environment and bundle say
  booted,         \* the server tool-mcp mounted at boot, and its tools
  mounted,        \* the coordinator's tools: each name's connection
  live,           \* connections made here and not stopped
  serverOf,       \* the server of each connection made
  owned,          \* _owned
  stranded,       \* _stranded
  waiting,        \* commands at the reconciler's lock, first come first served
  op,             \* the one that holds it
  told,           \* the last result for each server
  scarred,        \* ghost: servers of which a rollback failed too
  closed, commands

config == <<saved, above, booted>>
tools  == <<mounted, live, serverOf, owned, stranded>>
vars   == <<config, tools, waiting, op, told, scarred, closed, commands>>

Mgrs == 1 .. MaxManagers
Layer == Specs \cup {NoSpec}
NoOp == [pc |-> "none"]
NotOwned == [spec |-> NoSpec, mgr |-> 0, tools |-> << >>]
Effective(s) == IF above[s] # NoSpec THEN above[s] ELSE saved[s]
At(pc) == op.pc = pc
Old == owned[op.s]
\* _server_tools: the mounted tools that say they are this server's.
Visible(s) == {n \in Names : \/ mounted[n] = Boot /\ booted.server = s
                             \/ mounted[n] \in Mgrs /\ serverOf[mounted[n]] = s}
Left(m, ts) == [mgr |-> m, tools |-> ts]

Init ==
  /\ saved \in [Servers -> Layer] /\ above \in [Servers -> Layer]
  /\ booted \in [server : Servers, tools : SUBSET Names]
  /\ booted.tools # {} => Effective(booted.server) # NoSpec
  /\ mounted = [n \in Names |-> IF n \in booted.tools THEN Boot ELSE Free]
  /\ live = {} /\ serverOf = << >>
  /\ owned = [s \in Servers |-> NotOwned] /\ stranded = {}
  /\ waiting = << >> /\ op = NoOp
  /\ told = [s \in Servers |-> [ok |-> FALSE, connected |-> "unknown"]]
  /\ scarred = {}
  /\ closed = FALSE /\ commands = 0

-----------------------------------------------------------------------------
(***************************************************************************)
(* The commands.                                                           *)
(***************************************************************************)

Told(s, ok, c) == told' = [told EXCEPT ![s] = [ok |-> ok, connected |-> c]]
Request(kind, s, spec, new) ==
  waiting' = Append(waiting, [pc |-> "begun", kind |-> kind, s |-> s, spec |-> spec, new |-> new])
Given == ~closed /\ commands < MaxCommands /\ commands' = commands + 1

\* add_mcp_server: the configuration is saved in any case; the session follows if nothing
\* of a higher scope overrides it.
AddServer(s, spec) ==
  /\ Given
  /\ saved' = [saved EXCEPT ![s] = spec]
  /\ IF above[s] \in {NoSpec, spec}
       THEN Request("add", s, spec, Effective(s) = NoSpec) /\ UNCHANGED told
       ELSE Told(s, FALSE, "unknown") /\ UNCHANGED waiting
  /\ UNCHANGED <<above, booted, tools, op, scarred, closed>>

ReloadServer(s) ==
  /\ Given
  /\ IF Effective(s) = NoSpec THEN Told(s, FALSE, "unknown") /\ UNCHANGED waiting
       ELSE Request("reload", s, Effective(s), FALSE) /\ UNCHANGED told
  /\ UNCHANGED <<config, tools, op, scarred, closed>>

\* remove_mcp_server: only what the user's own file names, and only when nothing of a
\* higher scope keeps it.
RemoveServer(s) ==
  /\ Given
  /\ saved' = [saved EXCEPT ![s] = NoSpec]
  /\ IF saved[s] # NoSpec /\ above[s] = NoSpec
       THEN Request("remove", s, NoSpec, FALSE) /\ UNCHANGED told
       ELSE Told(s, FALSE, "unknown") /\ UNCHANGED waiting
  /\ UNCHANGED <<above, booted, tools, op, scarred, closed>>

-----------------------------------------------------------------------------
(***************************************************************************)
(* What the coordinator and a connection may do.                           *)
(***************************************************************************)

Put(ns, by) == [n \in Names |-> IF n \in ns THEN by ELSE mounted[n]]
\* _mount_wrappers and _unmount_names stop at the first failure; _remount_subset goes on.
Mounts(ts, m) == {[now |-> Put(ToSet(d), m), done |-> d, ok |-> d = ts] : d \in Prefixes(ts)}
Unmounts(ts) ==
  {[now |-> Put(ToSet(d), Free), done |-> d, ok |-> d = Reverse(ts)] : d \in Prefixes(Reverse(ts))}
Remounts(ns, m) == {[now |-> Put(S, m), ok |-> S = ns] : S \in SUBSET ns}

\* Mutant: a connection that will not stop is forgotten.
Forgotten(m) == UNCHANGED stranded /\ (live' = live \ {m} \/ UNCHANGED live)
\* _stop_discarded: a connection that will not stop is kept for the session's end.
Discarded(m) ==
  \/ live' = live \ {m} /\ UNCHANGED stranded
  \/ stranded' = stranded \cup {Left(m, << >>)} /\ UNCHANGED live

Step(r, pc) == op' = [r EXCEPT !.pc = pc]
Answer(ok, c) == op' = NoOp /\ Told(op.s, ok, c)
Has == IF Old # NotOwned THEN "yes" ELSE "no"
\* _rollback_failure.
RolledBack(ok) ==
  /\ Answer(FALSE, IF ok THEN "yes" ELSE "unknown")
  /\ scarred' = IF ok THEN scarred ELSE scarred \cup {op.s}
Aside == UNCHANGED <<config, serverOf, waiting, closed, commands>>

Enter ==
  /\ ~closed /\ op = NoOp /\ waiting # << >>
  /\ op' = Head(waiting) /\ waiting' = Tail(waiting)
  /\ UNCHANGED <<config, tools, told, scarred, closed, commands>>

\* Requests answered before anything is touched.
Refuse ==
  /\ At("begun")
  /\ \/ /\ op.kind # "remove" /\ Old # NotOwned /\ Old.spec = op.spec
        /\ Answer(TRUE, "yes")
     \/ /\ Old = NotOwned /\ Visible(op.s) # {}
        /\ Answer(FALSE, "yes")
     \/ /\ Old = NotOwned /\ Visible(op.s) = {}
        /\ op.kind = "add" => ~op.new
        /\ Answer(FALSE, "unknown")
  /\ Aside /\ UNCHANGED <<mounted, live, owned, stranded, scarred>>

\* _discover_targeted: connect, and learn what the server offers.
Discover ==
  /\ At("begun") /\ op.kind # "remove"
  /\ Old.spec # op.spec
  /\ Old = NotOwned => op.kind = "add" /\ op.new /\ Visible(op.s) = {}
  /\ \/ Answer(FALSE, Has) /\ UNCHANGED <<live, serverOf, stranded>>
     \/ /\ Len(serverOf) < MaxManagers
        /\ serverOf' = Append(serverOf, op.s)
        /\ LET m == Len(serverOf) + 1 IN
           \/ /\ stranded' = stranded \cup {Left(m, << >>)} /\ live' = live \cup {m}
              /\ Answer(FALSE, Has)
           \/ \E ts \in ToolLists :
                /\ live' = live \cup {m} /\ UNCHANGED <<stranded, told>>
                /\ op' = [pc |-> "found", kind |-> op.kind, s |-> op.s, spec |-> op.spec,
                          mgr |-> m, tools |-> ts]
  /\ UNCHANGED <<config, mounted, owned, waiting, scarred, closed, commands>>

\* A name somebody else has mounted.
Collision == {n \in ToSet(op.tools) \ ToSet(Old.tools) : mounted[n] # Free} # {}
Collide ==
  /\ At("found") /\ Collision
  /\ Discarded(op.mgr) /\ Answer(FALSE, Has)
  /\ Aside /\ UNCHANGED <<mounted, owned, scarred>>

Owns(s, spec, m, ts) == owned' = [owned EXCEPT ![s] = [spec |-> spec, mgr |-> m, tools |-> ts]]

MountNew ==
  /\ At("found") /\ ~Collision /\ Old = NotOwned
  /\ \E r \in Mounts(op.tools, op.mgr) :
       /\ mounted' = r.now
       /\ IF r.ok THEN Owns(op.s, op.spec, op.mgr, op.tools) /\ Answer(TRUE, "yes")
          ELSE op' = [op EXCEPT !.pc = "undo"] @@ [done |-> r.done] /\ UNCHANGED <<owned, told>>
  /\ Aside /\ UNCHANGED <<live, stranded, scarred>>

UndoNew ==
  /\ At("undo") /\ Old = NotOwned
  /\ \E r \in Unmounts(op.done) :
       /\ mounted' = r.now
       /\ IF r.ok THEN Discarded(op.mgr) /\ Answer(FALSE, "no")
          ELSE /\ stranded' = stranded \cup {Left(op.mgr, op.tools)} /\ UNCHANGED live
               /\ Answer(FALSE, "unknown")
  /\ Aside /\ UNCHANGED <<owned, scarred>>

-----------------------------------------------------------------------------
(***************************************************************************)
(* _replace_owned: the old tools go, the new ones come, the old connection *)
(* is stopped; each failure goes back.                                     *)
(***************************************************************************)

UnmountOld ==
  /\ At("found") /\ ~Collision /\ Old # NotOwned
  /\ \E r \in Unmounts(Old.tools) :
       /\ mounted' = r.now
       /\ op' = IF r.ok THEN [op EXCEPT !.pc = "replace"]
                ELSE [op EXCEPT !.pc = "putBack"] @@ [done |-> r.done]
  /\ Aside /\ UNCHANGED <<live, owned, stranded, told, scarred>>

PutBack ==
  /\ At("putBack")
  /\ \E r \in Remounts(ToSet(op.done), Old.mgr) : mounted' = r.now /\ RolledBack(r.ok)
  /\ Discarded(op.mgr)
  /\ Aside /\ UNCHANGED owned

MountReplacement ==
  /\ At("replace")
  /\ \E r \in Mounts(op.tools, op.mgr) :
       /\ mounted' = r.now
       /\ IF r.ok THEN /\ Owns(op.s, op.spec, op.mgr, op.tools)
                       /\ op' = [op EXCEPT !.pc = "retire"] @@ [was |-> Old.mgr]
                  ELSE op' = [op EXCEPT !.pc = "undo"] @@ [done |-> r.done] /\ UNCHANGED owned
  /\ Aside /\ UNCHANGED <<live, stranded, told, scarred>>

Retire ==
  /\ At("retire")
  /\ Discarded(op.was) /\ Answer(TRUE, "yes")
  /\ Aside /\ UNCHANGED <<mounted, owned, scarred>>

UndoReplacement ==
  /\ At("undo") /\ Old # NotOwned
  /\ \E r \in Unmounts(op.done) :
       mounted' = r.now /\ op' = [op EXCEPT !.pc = "restore"] @@ [clean |-> r.ok]
  /\ Aside /\ UNCHANGED <<live, owned, stranded, told, scarred>>

Missing == {n \in ToSet(Old.tools) : mounted[n] = Free}
RestoreOld ==
  /\ At("restore")
  /\ \E r \in Remounts(Missing, Old.mgr) : mounted' = r.now /\ RolledBack(r.ok /\ op.clean)
  /\ IF op.clean THEN Discarded(op.mgr)
     ELSE stranded' = stranded \cup {Left(op.mgr, op.tools)} /\ UNCHANGED live
  /\ Aside /\ UNCHANGED owned

-----------------------------------------------------------------------------
(***************************************************************************)
(* _remove_owned, on command and, for every server owned, at the end.      *)
(***************************************************************************)

Removing == At("begun") /\ op.kind = "remove" /\ Old # NotOwned
UnmountOwned ==
  /\ Removing
  /\ \E r \in Unmounts(Old.tools) :
       /\ mounted' = r.now
       /\ op' = [op EXCEPT !.pc = IF r.ok THEN "stop" ELSE "keep"] @@ [done |-> ToSet(r.done)]
  /\ Aside /\ UNCHANGED <<live, owned, stranded, told, scarred>>

StopOwned ==
  /\ At("stop")
  /\ \/ /\ live' = live \ {Old.mgr} /\ owned' = [owned EXCEPT ![op.s] = NotOwned]
        /\ Answer(TRUE, "no")
     \/ op' = [op EXCEPT !.pc = "keep"] /\ UNCHANGED <<live, owned, told>>
  /\ Aside /\ UNCHANGED <<mounted, stranded, scarred>>

KeepOwned ==
  /\ At("keep")
  /\ \E r \in Remounts(op.done, Old.mgr) : mounted' = r.now /\ RolledBack(r.ok)
  /\ Aside /\ UNCHANGED <<live, owned, stranded>>

\* close queues a removal of every server owned and then goes through the stranded ones.
Close ==
  /\ ~closed /\ op = NoOp /\ waiting = << >>
  /\ closed' = TRUE
  /\ waiting' = SetToSeq({[pc |-> "begun", kind |-> "remove", s |-> s, spec |-> NoSpec, new |-> FALSE] :
                          s \in {x \in Servers : owned[x] # NotOwned}})
  /\ UNCHANGED <<config, tools, op, told, scarred, commands>>

CloseNext ==
  /\ closed /\ op = NoOp /\ waiting # << >>
  /\ op' = Head(waiting) /\ waiting' = Tail(waiting)
  /\ UNCHANGED <<config, tools, told, scarred, closed, commands>>

CloseStranded ==
  /\ closed /\ op = NoOp /\ waiting = << >>
  /\ \E left \in stranded :
       \E r \in Unmounts(left.tools) :
         /\ mounted' = r.now
         /\ IF r.ok /\ left.mgr \in live
              THEN \/ live' = live \ {left.mgr} /\ stranded' = stranded \ {left}
                   \/ UNCHANGED <<live, stranded>>
              ELSE UNCHANGED <<live, stranded>>
  /\ UNCHANGED <<config, serverOf, owned, waiting, op, told, scarred, closed, commands>>

Next ==
  \/ \E s \in Servers : ReloadServer(s) \/ RemoveServer(s) \/ \E spec \in Specs : AddServer(s, spec)
  \/ Enter \/ Refuse \/ Discover \/ Collide \/ MountNew \/ UndoNew
  \/ UnmountOld \/ PutBack \/ MountReplacement \/ Retire \/ UndoReplacement \/ RestoreOld
  \/ UnmountOwned \/ StopOwned \/ KeepOwned
  \/ Close \/ CloseNext \/ CloseStranded

Spec == Init /\ [][Next]_vars

-----------------------------------------------------------------------------
(***************************************************************************)
(* Properties.                                                             *)
(***************************************************************************)

TypeOK ==
  /\ saved \in [Servers -> Layer] /\ mounted \in [Names -> Mgrs \cup {Free, Boot}]
  /\ live \subseteq DOMAIN serverOf /\ DOMAIN serverOf \subseteq Mgrs
  /\ stranded \subseteq [mgr : DOMAIN serverOf, tools : ToolLists \cup {<< >>}]
  /\ owned \in [Servers -> [spec : Layer, mgr : 0 .. MaxManagers, tools : ToolLists \cup {<< >>}]]
  /\ told \in [Servers -> [ok : BOOLEAN, connected : {"yes", "no", "unknown"}]]

Settled(s) == op = NoOp /\ \A i \in DOMAIN waiting : waiting[i].s # s

\* Whatever failed on the way, every connection still open is owned or kept to be stopped
\* at the session's end, no tool of a stopped one stays mounted, and boot's tools are
\* where they were.
NothingLeaks ==
  /\ \A n \in booted.tools : mounted[n] = Boot
  /\ op = NoOp =>
       /\ live \subseteq {owned[s].mgr : s \in Servers} \cup {left.mgr : left \in stranded}
       /\ \A n \in Names : mounted[n] \in Mgrs => mounted[n] \in live

\* The result of a command says what is so: connected means every tool of the connection
\* is mounted and its own, not connected means none is, and success means the session
\* now follows the configuration.  All bets are off once a rollback has failed too: a later
\* "already connected" passes over the missing tools, and unmounting goes by name, whoever
\* has taken the name meanwhile.
ResultsTrue == scarred = {} => \A s \in Servers : Settled(s) =>
  /\ told[s].connected = "yes" /\ owned[s] # NotOwned =>
       \A n \in ToSet(owned[s].tools) : mounted[n] = owned[s].mgr
  /\ told[s].connected = "no" => Visible(s) = {} /\ owned[s] = NotOwned
  /\ told[s].ok /\ ~closed => owned[s].spec = Effective(s)

\* What the reconciler leaves behind, and what it says, is true (_upsert_targeted,
\* _replace_owned, _remove_owned, close): NothingLeaks and ResultsTrue.
LiveAsReported == TypeOK /\ NothingLeaks /\ ResultsTrue

=============================================================================
