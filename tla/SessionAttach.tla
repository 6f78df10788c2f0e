---------------------------- MODULE SessionAttach ----------------------------
(***************************************************************************)
(* Who owns the live runtime of one session (kernel/session_attach.py and  *)
(* its use in kernel/serve.py).  `serve --attach' looks for the advert of a *)
(* live owner and joins it as a peer; finding none it boots a runtime of   *)
(* its own, claims the advert under the file lock and serves.              *)
(*                                                                         *)
(* The socket path is a function of the session, so every process unlinks  *)
(* and binds the same path.  The file lock is taken to work as ControlFile *)
(* shows it does without faults; a dead holder's marker is broken in time. *)
(***************************************************************************)
EXTENDS Naturals, FiniteSets

CONSTANTS Procs,   \* processes that attach to the session
          NoProc,  \* no advert, no socket, lock free
          Few,     \* the processes that attach where more goes wrong: a bound
          FaultSets \* the combinations of faults considered: an owner that was
                   \* hard-killed before, owners that stop, processes that crash,
                   \* a bind or a publication that fails

ASSUME SessionAttachAssumption ==
  /\ NoProc \notin Procs
  /\ Few \subseteq Procs
  /\ FaultSets \subseteq SUBSET {"killed", "stop", "crash", "oserror"}

VARIABLES
  faults,     \* what may happen in this behaviour
  pc,         \* where each process is
  seen,       \* the advert each process read, then the owner it joined
  advert,     \* attach.json: the process it names
  sock,       \* the process whose socket the path leads to
  listening,  \* processes with an open server
  running,    \* processes with a live runtime: writers of the ledger
  announced,  \* processes that published their endpoint
  lock,       \* the holder of the file lock on attach.json
  again,      \* processes whose control plane had them claim a second time
  cut         \* processes whose owner's socket was unlinked between their probe
              \* and their connection

avars == <<faults, pc, seen, advert, sock, listening, running, announced, lock, again, cut>>

Owner == Procs \cup {NoProc}
Places == {"out", "look", "probe", "clear", "clearsock", "join", "boot", "wait", "check",
           "reclear", "resock", "bind", "publish", "serving", "peer", "stopping",
           "retract", "unsock", "cleanup", "gone", "failed", "dead"}

\* From taking the file lock to publishing.
Claiming == {"check", "reclear", "resock", "bind", "publish"}

\* Types, and the lock is held exactly while somebody claims the session.
AttachTypeOK ==
  /\ faults \in FaultSets
  /\ \A p \in Procs : lock = p <=> pc[p] \in Claiming
  /\ pc \in [Procs -> Places]
  /\ seen \in [Procs -> Owner]
  /\ advert \in Owner /\ sock \in Owner /\ lock \in Owner
  /\ listening \subseteq Procs /\ running \subseteq Procs /\ announced \subseteq Procs
  /\ again \subseteq Procs /\ cut \subseteq Procs

Go(p, from, to) == pc[p] = from /\ pc' = [pc EXCEPT ![p] = to]

\* Mutant: a socket that is there is enough.
AnswersBySocket(q) == q # NoProc /\ sock # NoProc

\* endpoint_live: the process lives and something accepts at the path.
Answers(q) ==
  /\ q # NoProc
  /\ pc[q] \notin {"gone", "failed", "dead"}
  /\ sock \in listening

-----------------------------------------------------------------------------
(***************************************************************************)
(* Before the boot: _join_live_session, live_endpoint, run_attach_client.  *)
(***************************************************************************)

Attaches(p) ==
  /\ faults \subseteq {"killed"} \/ p \in Few
  /\ Go(p, "out", "look")
  /\ UNCHANGED <<faults, seen, advert, sock, listening, running, announced, lock, again, cut>>

Looks(p) ==
  /\ Go(p, "look", IF advert = NoProc THEN "boot" ELSE "probe")
  /\ seen' = [seen EXCEPT ![p] = advert]
  /\ UNCHANGED <<faults, advert, sock, listening, running, announced, lock, again, cut>>

Probes(p) ==
  /\ Go(p, "probe", IF Answers(seen[p]) THEN "join" ELSE "clear")
  /\ UNCHANGED <<faults, seen, advert, sock, listening, running, announced, lock, again, cut>>

\* Who is left without an owner when the socket is unlinked now.
CutOff == IF sock \in listening THEN cut \cup {q \in Procs : pc[q] = "join"} ELSE cut

\* clear_endpoint unlinks whatever advert and socket are there by now.
ClearsAdvert(p) ==
  /\ \/ Go(p, "clear", "clearsock") \/ Go(p, "reclear", "resock") \/ Go(p, "retract", "unsock")
  /\ advert' = NoProc
  /\ UNCHANGED <<faults, seen, sock, listening, running, announced, lock, again, cut>>

ClearsSocket(p) ==
  /\ \/ Go(p, "clearsock", "boot") \/ Go(p, "resock", "bind") \/ Go(p, "unsock", "cleanup")
  /\ sock' = NoProc
  /\ cut' = CutOff
  /\ UNCHANGED <<faults, seen, advert, listening, running, announced, lock, again>>

\* A connection that is refused by now is an error the process ends with.
Joins(p) ==
  /\ Go(p, "join", IF sock \in listening THEN "peer" ELSE "failed")
  /\ seen' = [seen EXCEPT ![p] = sock]
  /\ UNCHANGED <<faults, advert, sock, listening, running, announced, lock, again, cut>>

\* A peer leaves when its input ends or the owner closes the connection.
Detaches(p) ==
  /\ "stop" \in faults \/ seen[p] \notin listening
  /\ Go(p, "peer", "gone")
  /\ UNCHANGED <<faults, seen, advert, sock, listening, running, announced, lock, again, cut>>

-----------------------------------------------------------------------------
(***************************************************************************)
(* The boot and AttachServer.start.                                        *)
(***************************************************************************)

Boots(p) ==
  /\ Go(p, "boot", "wait")
  /\ running' = running \cup {p}
  /\ UNCHANGED <<faults, seen, advert, sock, listening, announced, lock, again, cut>>

Locks(p) ==
  /\ lock = NoProc
  /\ Go(p, "wait", "check")
  /\ lock' = p
  /\ UNCHANGED <<faults, seen, advert, sock, listening, running, announced, again, cut>>

\* Mutant: the early return leaves the lock behind.
LockAfterForgets(p) == lock

LockAfter(p) == IF Answers(advert) THEN NoProc ELSE lock

\* Mutant: the claim does not look for a live owner again.
ClaimsBlindly(p) ==
  /\ Go(p, "check", "bind")
  /\ seen' = [seen EXCEPT ![p] = advert]
  /\ UNCHANGED <<faults, advert, sock, listening, running, announced, lock, again, cut>>

\* A live owner found now means: do not advertise, but keep serving.
Rechecks(p) ==
  /\ Go(p, "check", CASE Answers(advert)                       -> "serving"
                      [] ~Answers(advert) /\ advert # NoProc   -> "reclear"
                      [] OTHER                                 -> "bind")
  /\ seen' = [seen EXCEPT ![p] = advert]
  /\ lock' = LockAfter(p)
  /\ UNCHANGED <<faults, advert, sock, listening, running, announced, again, cut>>

\* Mutant: the old socket is unlinked after the new one was bound.
BindsThenUnlinks(p) ==
  /\ Go(p, "bind", "publish")
  /\ sock' = NoProc
  /\ listening' = listening \cup {p}
  /\ UNCHANGED <<faults, seen, advert, running, announced, lock, again, cut>>

\* The path is unlinked and bound; when that fails the process serves on, without
\* an endpoint, and leaves the path unlinked.
Binds(p) ==
  \/ /\ Go(p, "bind", "publish")
     /\ sock' = p
     /\ listening' = listening \cup {p}
     /\ UNCHANGED <<faults, seen, advert, running, announced, lock, again, cut>>
  \/ /\ "oserror" \in faults
     /\ Go(p, "bind", "serving")
     /\ sock' = NoProc
     /\ cut' = CutOff
     /\ lock' = NoProc
     /\ UNCHANGED <<faults, seen, advert, listening, running, announced, again>>

\* A publication that fails ends the process; what it bound stays in the way.
Publishes(p) ==
  \/ /\ Go(p, "publish", "serving")
     /\ advert' = p
     /\ announced' = announced \cup {p}
     /\ lock' = NoProc
     /\ UNCHANGED <<faults, seen, sock, listening, running, again, cut>>
  \/ /\ "oserror" \in faults
     /\ Go(p, "publish", "failed")
     /\ listening' = listening \ {p} /\ running' = running \ {p}
     /\ lock' = NoProc
     /\ UNCHANGED <<faults, seen, advert, sock, announced, again, cut>>

\* A process that serves unannounced claims once more when its first op with a
\* lease or an actor brings up the control plane.
Reattaches(p) ==
  /\ p \notin announced \cup again
  /\ Go(p, "serving", "wait")
  /\ again' = again \cup {p}
  /\ UNCHANGED <<faults, seen, advert, sock, listening, running, announced, lock, cut>>

-----------------------------------------------------------------------------
(***************************************************************************)
(* The end: serve_loop's finally and AttachServer.stop.                    *)
(***************************************************************************)

\* server.close(), then the await of wait_closed; its peers see the end of the
\* stream and leave.
Stops(p) ==
  /\ "stop" \in faults
  /\ Go(p, "serving", IF p \in announced THEN "stopping" ELSE "cleanup")
  /\ listening' = listening \ {p}
  /\ UNCHANGED <<faults, seen, advert, sock, running, announced, lock, again, cut>>

Closed(p) ==
  /\ Go(p, "stopping", "retract")
  /\ UNCHANGED <<faults, seen, advert, sock, listening, running, announced, lock, again, cut>>

CleansUp(p) ==
  /\ Go(p, "cleanup", "gone")
  /\ running' = running \ {p}
  /\ announced' = announced \ {p}
  /\ UNCHANGED <<faults, seen, advert, sock, listening, lock, again, cut>>

Crashes(p) ==
  /\ "crash" \in faults
  /\ pc[p] \notin {"out", "gone", "failed", "dead"}
  /\ pc' = [pc EXCEPT ![p] = "dead"]
  /\ listening' = listening \ {p}
  /\ running' = running \ {p}
  /\ announced' = announced \ {p}
  /\ lock' = IF lock = p THEN NoProc ELSE lock
  /\ UNCHANGED <<faults, seen, advert, sock, again, cut>>

Settled == {"out", "serving", "peer", "gone", "failed", "dead"}

Rests ==
  /\ \A p \in Procs : pc[p] \in Settled
  /\ UNCHANGED avars

\* A hard-killed owner leaves its advert and its socket behind.
AttachInit ==
  /\ faults \in FaultSets
  /\ advert \in IF "killed" \in faults THEN Procs ELSE {NoProc}
  /\ pc = [p \in Procs |-> IF p = advert THEN "dead" ELSE "out"]
  /\ seen = [p \in Procs |-> NoProc]
  /\ sock = advert
  /\ listening = {} /\ running = {} /\ announced = {}
  /\ lock = NoProc /\ again = {} /\ cut = {}

Comes(p) == Looks(p) \/ Probes(p) \/ ClearsAdvert(p) \/ ClearsSocket(p) \/ Joins(p)
Starts(p) == Boots(p) \/ Locks(p) \/ Rechecks(p) \/ Binds(p) \/ Publishes(p)
Ends(p) == Closed(p) \/ CleansUp(p)

AttachNext ==
  \/ \E p \in Procs : \/ Attaches(p) \/ Comes(p) \/ Starts(p) \/ Ends(p)
                      \/ Detaches(p) \/ Reattaches(p) \/ Stops(p) \/ Crashes(p)
  \/ Rests

AttachSpec == AttachInit /\ [][AttachNext]_avars

\* A process that started to attach or to stop goes on, and whoever waits for the
\* file lock gets it in the end; nobody has to come or go.
FairAttachSpec ==
  /\ AttachSpec
  /\ \A p \in Procs : SF_avars(Comes(p) \/ Starts(p) \/ Ends(p))

-----------------------------------------------------------------------------
(***************************************************************************)
(* Properties.                                                             *)
(***************************************************************************)

\* Neither a killed owner nor one that stops or dies.
NobodyEnds == faults \subseteq {"oserror"}

\* "Two processes racing to own the same session cannot both win": at most one
\* process serves as the advertised owner, as long as no owner ends.
OneAnnounced ==
  NobodyEnds => \A p, q \in announced : pc[p] = "serving" /\ pc[q] = "serving" => p = q

\* An advertised owner that serves can be found, as long as no owner ends: the
\* advert names it and the path leads to its socket.
OwnerReachable ==
  NobodyEnds => \A p \in announced : pc[p] = "serving" => advert = p /\ sock = p

\* A peer is attached to a runtime that is there, and boots none itself.
PeersHaveAnOwner ==
  NobodyEnds /\ (\E p \in Procs : pc[p] = "peer") => \E q \in announced : pc[q] = "serving"

PeersReachOwner == OwnerReachable /\ PeersHaveAnOwner

\* "A hard-killed owner can never wedge a session": where a killed owner is all
\* that went wrong, nobody who attaches is left with an error -- but for a peer
\* whose new owner's socket was unlinked just before it connected, by another
\* process that had found the killed owner's advert (live_endpoint clears what is
\* there by then, outside the lock).
KilledNeverWedges ==
  faults \subseteq {"killed"} => \A p \in Procs : pc[p] \in {"failed", "gone"} => p \in cut

\* Whatever owners come, go and die and whatever fails: everybody who attaches
\* comes to serve the session, to be a peer, or to an end; nobody waits for the
\* claim for ever. And no wedge by a killed owner.
NobodyWaitsForEver ==
  /\ []KilledNeverWedges
  /\ <>[](\A p \in Procs : pc[p] \in Settled)
=============================================================================
