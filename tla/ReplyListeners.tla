---------------------------- MODULE ReplyListeners ----------------------------
(***************************************************************************)
(* How a reply finds the session it answers                                *)
(* (kernel/ambient/reply_listener.py): each view of a session listens on a *)
(* port of the loopback interface, and publishes process and port in a     *)
(* file of its own in the session's directory; whoever carries a reply     *)
(* reads that directory.  Views start, close and are killed at any moment; *)
(* the records they leave are pruned by views that start and by bridges    *)
(* that ask for it.  A process id or a port that becomes free is taken     *)
(* again, by a view of any session.                                        *)
(*                                                                         *)
(* The listener's protocol and what is done with a reply is Replies'.      *)
(* Nothing here holds a lock: a step is one call on the file system or on  *)
(* a socket.                                                               *)
(***************************************************************************)
EXTENDS Naturals, FiniteSets

CONSTANTS
  Views,     \* lifecycles, each with an owner_id, so with a file name, of its own
  SessionOf, \* the session of each
  Bridges,   \* those who look for a session's endpoints
  Pids, Ports,
  NoPort,
  Troubles   \* bounds of a behaviour: the views that run, and what happens how often

Sessions == {SessionOf[v] : v \in Views}
Readers == Views \cup Bridges
ListenersAssumption ==
  /\ NoPort \notin Pids \cup Ports /\ Views \cap Bridges = {}
  /\ Troubles \subseteq [who : SUBSET Views, restarts : Nat, kills : Nat, busy : Nat, fails : Nat, looks : Nat]

VARIABLES
  view,    \* each view: where it is, its process and its port
  dir,     \* sessions whose reply-listeners/ is there
  record,  \* each view's file
  litter,  \* sessions with a temporary file nobody will rename
  look,    \* each reader's discover: the files to come, what was read, what was found;
           \* look[r].steady is a ghost: views that were started when it began and still are
  budget,
  wronged, \* ghost: views that were taken for dead, or whose record was removed on an old report
  failed   \* ghost: sessions where a start failed, a view was killed or found its record gone
vars == <<view, dir, record, litter, look, budget, wronged, failed>>

NoLook == [at |-> "idle", of |-> NoPort, prunes |-> FALSE, left |-> {}, file |-> NoPort,
           read |-> NoPort, found |-> {}, steady |-> {}]
NotUp == [at |-> "off", pid |-> NoPort, port |-> NoPort, started |-> 0]
\* What a view publishes: its process, its port, and when it started.
Endpoint(v) == [pid |-> view[v].pid, port |-> view[v].port, started |-> view[v].started]

Init ==
  /\ view = [v \in Views |-> NotUp] /\ dir = {} /\ record = [v \in Views |-> NoPort]
  /\ litter = {} /\ look = [r \in Readers |-> NoLook] /\ budget \in Troubles
  /\ wronged = {} /\ failed = {}

Of(s) == {v \in Views : SessionOf[v] = s}
Up == {v \in Views : view[v].at # "killed" /\ view[v].pid # NoPort}
Listening == {v \in Up : view[v].port # NoPort}
Spend(what) == budget[what] > 0 /\ budget' = [budget EXCEPT ![what] = @ - 1]
Moves(v, at) == view' = [view EXCEPT ![v].at = at]
\* The listener is closed: the port is free.
Unbound(v, at) == view' = [view EXCEPT ![v].at = at, ![v].port = NoPort]

-----------------------------------------------------------------------------
(***************************************************************************)
(* discover, file by file.                                                 *)
(***************************************************************************)

\* The names in the directory; those of temporary files are not of the kind.
Looks(r, s, prunes) ==
  look' = [look EXCEPT ![r] = [NoLook EXCEPT !.at = "looking", !.of = s, !.prunes = prunes,
                                             !.left = {v \in Of(s) : record[v] # NoPort},
                                             !.steady = {v \in Of(s) : view[v].at = "on"}]]
Unsteady(v) == look' = [r \in Readers |-> [look[r] EXCEPT !.steady = @ \ {v}]]
\* A file that is gone by now reads as one that is malformed.
Reads(r, v) ==
  /\ look[r].at = "looking" /\ v \in look[r].left
  /\ look' = [look EXCEPT ![r].at = "checking", ![r].left = @ \ {v}, ![r].file = v,
                          ![r].read = record[v]]
  /\ UNCHANGED <<view, dir, record, litter, budget, wronged, failed>>

\* _process_alive and _endpoint_alive: some process has the id, and the port accepts.
Alive(read) ==
  /\ read # NoPort
  /\ \E v \in Up : view[v].pid = read.pid
  /\ \E v \in Listening : view[v].port = read.port
Rejects(r) == look' = [look EXCEPT ![r].at = IF look[r].prunes THEN "pruning" ELSE "looking"]
\* A listener that takes longer than a tenth of a second to accept passes for dead.
Checks(r) ==
  /\ look[r].at = "checking"
  /\ \/ /\ Alive(look[r].read)
        /\ look' = [look EXCEPT ![r].at = "looking", ![r].found = @ \cup {look[r].file}]
        /\ UNCHANGED <<budget, wronged>>
     \/ /\ ~Alive(look[r].read)
        /\ Rejects(r)
        /\ UNCHANGED <<budget, wronged>>
     \/ /\ Alive(look[r].read) /\ Spend("busy")
        /\ wronged' = wronged \cup {look[r].file}
        /\ Rejects(r)
  /\ UNCHANGED <<view, dir, record, litter, failed>>
\* What is unlinked is whatever has the name now.
Prunes(r) ==
  /\ look[r].at = "pruning"
  /\ LET v == look[r].file
     IN /\ record' = [record EXCEPT ![v] = NoPort]
        /\ wronged' = IF look[r].read # record[v] THEN wronged \cup {v} ELSE wronged
  /\ look' = [look EXCEPT ![r].at = "looking"]
  /\ UNCHANGED <<view, dir, litter, budget, failed>>
Looked(r) == look[r].at = "looking" /\ look[r].left = {}

\* discover_reply_endpoints_for_event: a bridge knows the session from the event.
Asks(b, s, prunes) ==
  /\ look[b].at = "idle" /\ Spend("looks")
  /\ Looks(b, s, prunes)
  /\ UNCHANGED <<view, dir, record, litter, wronged, failed>>
Finds(b) ==
  /\ Looked(b) /\ look' = [look EXCEPT ![b] = NoLook]
  /\ UNCHANGED <<view, dir, record, litter, budget, wronged, failed>>

-----------------------------------------------------------------------------
(***************************************************************************)
(* A view: start, publish, close, remove.                                  *)
(***************************************************************************)

\* start: the listener is bound before anything is published.  A view that is started again
\* has the process it had.
Binds(v, pid, port) ==
  /\ v \in budget.who /\ view[v].at = "off"
  /\ \/ view[v].pid = NoPort /\ pid \notin {view[u].pid : u \in Up} /\ UNCHANGED budget
     \/ view[v].pid = pid /\ Spend("restarts")
  /\ port \notin {view[u].port : u \in Listening}
  /\ view' = [view EXCEPT ![v] = [at |-> "bound", pid |-> pid, port |-> port, started |-> @.started + 1]]
  /\ wronged' = wronged \ {v}
  /\ UNCHANGED <<dir, record, litter, look, failed>>
\* publish: the directory is made, and stale records in it are pruned.
Prepares(v) ==
  /\ view[v].at = "bound"
  /\ dir' = dir \cup {SessionOf[v]}
  /\ Looks(v, SessionOf[v], TRUE)
  /\ Moves(v, "preparing")
  /\ UNCHANGED <<record, litter, budget, wronged, failed>>
\* The temporary file, for which the directory must still be there.
Writes(v) ==
  /\ view[v].at = "preparing" /\ Looked(v) /\ SessionOf[v] \in dir
  /\ Moves(v, "writing")
  /\ look' = [look EXCEPT ![v] = NoLook]
  /\ UNCHANGED <<dir, record, litter, budget, wronged, failed>>
Replaces(v) ==
  /\ view[v].at = "writing"
  /\ record' = [record EXCEPT ![v] = Endpoint(v)]
  /\ Moves(v, "on")
  /\ UNCHANGED <<dir, litter, look, budget, wronged, failed>>
\* discovery_failed: no listener stays that cannot be found.
Fails(v) ==
  /\ \/ view[v].at = "preparing" /\ Looked(v) /\ SessionOf[v] \notin dir /\ UNCHANGED budget
     \/ view[v].at \in {"bound", "preparing", "writing"} /\ Spend("fails")
  /\ Unbound(v, "off")
  /\ look' = [look EXCEPT ![v] = NoLook]
  /\ failed' = IF SessionOf[v] \in dir THEN failed \cup {SessionOf[v]} ELSE failed
  /\ UNCHANGED <<dir, record, litter, wronged>>

\* close: the record first, then the directory if nothing is left in it, then the listener.
\* A view that finds its record gone leaves the directory alone.
Leaves(v) ==
  /\ view[v].at = "on"
  /\ Moves(v, IF record[v] = NoPort THEN "closing" ELSE "leaving") /\ Unsteady(v)
  /\ failed' = IF record[v] = NoPort THEN failed \cup {SessionOf[v]} ELSE failed
  /\ UNCHANGED <<dir, record, litter, budget, wronged>>
Removes(v) ==
  /\ view[v].at = "leaving"
  /\ record' = [record EXCEPT ![v] = NoPort]
  /\ Moves(v, "removed")
  /\ UNCHANGED <<dir, litter, look, budget, wronged, failed>>
Bare(s) == s \notin litter /\ \A v \in Of(s) : record[v] = NoPort /\ view[v].at # "writing"
Tidies(v) ==
  /\ view[v].at = "removed"
  /\ dir' = IF Bare(SessionOf[v]) THEN dir \ {SessionOf[v]} ELSE dir
  /\ Moves(v, "closing")
  /\ UNCHANGED <<record, litter, look, budget, wronged, failed>>
Stops(v) ==
  /\ view[v].at = "closing"
  /\ Unbound(v, "off")
  /\ UNCHANGED <<dir, record, litter, look, budget, wronged, failed>>
\* The process dies, and leaves what it had written.
Kill(v) ==
  /\ v \in Up /\ view[v].at # "off" /\ Spend("kills")
  /\ Unbound(v, "killed")
  /\ litter' = IF view[v].at = "writing" THEN litter \cup {SessionOf[v]} ELSE litter
  /\ look' = [r \in Readers |-> IF r = v THEN NoLook ELSE [look[r] EXCEPT !.steady = @ \ {v}]]
  /\ failed' = failed \cup {SessionOf[v]}
  /\ UNCHANGED <<dir, record, wronged>>

Next ==
  \/ \E r \in Readers : Checks(r) \/ Prunes(r) \/ \E v \in Views : Reads(r, v)
  \/ \E b \in Bridges : Finds(b) \/ \E s \in Sessions, prunes \in BOOLEAN : Asks(b, s, prunes)
  \/ \E v \in Views :
       \/ \E pid \in Pids, port \in Ports : Binds(v, pid, port)
       \/ Prepares(v) \/ Writes(v) \/ Replaces(v) \/ Fails(v)
       \/ Leaves(v) \/ Removes(v) \/ Tidies(v) \/ Stops(v) \/ Kill(v)

Spec == Init /\ [][Next]_vars

-----------------------------------------------------------------------------
(***************************************************************************)
(* Properties.                                                             *)
(***************************************************************************)

\* A view that says it is started is found under its process and port, through every prune by
\* others, unless its listener did not answer at once, or a prune outlasted its restart.
StartedIsFound ==
  \A v \in Views :
    view[v].at = "on" /\ v \notin wronged => record[v] = Endpoint(v)
\* No record of a view that runs leads elsewhere, and none is left of one that closed.
RecordIsOwn ==
  \A v \in Views :
    /\ record[v] # NoPort /\ view[v].at # "killed" =>
         view[v].at \in {"on", "leaving"} /\ record[v] = Endpoint(v)
    /\ view[v].at = "off" => view[v].port = NoPort
\* Whoever looks for a session's endpoints has all that were there the whole time, whatever
\* is pruned, published and removed meanwhile.
SteadyIsFound == \A r \in Readers : Looked(r) => look[r].steady \ wronged \subseteq look[r].found
\* Once the last view closed, nothing is left in a session's directory, unless a view was
\* killed, could not write, or found its record pruned.
Tidy ==
  \A s \in Sessions \ failed :
    (\A v \in Of(s) : view[v].at = "off") => s \notin dir \cup litter

ListenersSound == StartedIsFound /\ RecordIsOwn /\ SteadyIsFound /\ Tidy
=============================================================================
