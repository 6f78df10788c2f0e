-------------------------------- MODULE Access --------------------------------
(***************************************************************************)
(* Capabilities issued to others: the control tokens of a project          *)
(* (kernel/session_authz.py), which decide who may drive its sessions, and *)
(* the grants of ambient sources (kernel/ambient/grants.py), which decide  *)
(* what may be read or sent for whom (kernel/ambient/sources.py).  Each is *)
(* a file of rows, read afresh at every use; issuing and revoking read,    *)
(* change and replace it under the file lock, whose outcome they ignore.   *)
(*                                                                         *)
(* Every actor is a process: it issues, revokes, and presents what it was  *)
(* issued to a serving connection of its own, or has a source read.  A row *)
(* is named by the number of its issue; hashes, displays and times other   *)
(* than "has lapsed" are left out.  The session's trail is SessionControl's*)
(***************************************************************************)
EXTENDS Naturals, Sequences, FiniteSets, Functions

CONSTANTS
  Actors,      \* processes
  Unheld,      \* not an actor: nobody has the lock
  DeadHolder,  \* not an actor: whoever had the lock was killed
  Sorts,       \* what is issued, see Sort
  MaxIssues,   \* bound on issues
  MaxRequests, \* bound on issues, revocations and uses of sources together
  MaxBreaks    \* bound on kills, damage, failing writes and waits that run out

\* The file of tokens and that of grants.  A token permits a verb on any session of the
\* project; a grant is for a verb and a selector, "mine" or another.
Stores == {"tokens", "grants"}
Sort == [store : {"tokens"}, verb : {"read", "write"}, only : {"any"}, lasting : BOOLEAN]
        \cup [store : {"grants"}, verb : {"read", "send"}, only : {"mine", "other"},
              lasting : {FALSE}]

AccessAssumption ==
  /\ Unheld \notin Actors /\ DeadHolder \notin Actors /\ Unheld # DeadHolder
  /\ Sorts \subseteq Sort
  /\ MaxIssues \in Nat \ {0} /\ MaxRequests \in Nat /\ MaxBreaks \in Nat

VARIABLES
  book,     \* what is on file, per store: "none", "bad" or "rows", and row -> "live" | "revoked"
  lock,     \* who holds the marker of a store
  issued,   \* the sort of every row, in the order of issue
  lapsed,   \* rows whose time has run out
  subject,  \* the store this behaviour is about
  job,      \* what each actor does
  link,     \* what each actor's connection takes for its policy
  trail,    \* rows the session's trail says something was read or sent by
  answer,   \* what the latest step told somebody
  back,     \* rows whose issue has returned
  gone,     \* rows whose revocation has returned
  crossed,  \* stores in which an update was computed from an older file
  damaged,  \* stores that were unreadable at some time
  requests,
  breaks
vars == <<book, lock, issued, lapsed, subject, job, link, trail, answer, back, gone, crossed, damaged,
          requests, breaks>>

NoRows == << >>
Idle == [at |-> "idle", what |-> "none", store |-> "tokens", row |-> 0, why |-> "none", copy |-> NoRows,
         gone |-> {}, back |-> {}]
NoAnswer == [is |-> "none", verb |-> "none", row |-> 0, why |-> "none", gone |-> {}, back |-> {}]
Quiet == answer' = NoAnswer

\* _load and _read: a file that is missing or unreadable has no rows.
OnFile(s) == IF book[s].is = "rows" THEN book[s].rows ELSE NoRows
Rows == 1..Len(issued)
Lives(s, r) == r \in DOMAIN OnFile(s) /\ OnFile(s)[r] = "live" /\ r \notin lapsed

Init ==
  /\ book = [s \in Stores |-> [is |-> "none", rows |-> NoRows]]
  /\ lock = [s \in Stores |-> Unheld]
  /\ issued = << >> /\ lapsed = {}
  /\ job = [a \in Actors |-> Idle]
  /\ link = [a \in Actors |-> "new"]
  /\ trail = {}
  /\ answer = NoAnswer
  /\ subject \in Stores
  /\ back = {} /\ gone = {}
  /\ crossed = {} /\ damaged = {}
  /\ requests = 0 /\ breaks = 0

Begin(a, what, s, r) ==
  /\ requests < MaxRequests /\ requests' = requests + 1
  /\ job' = [job EXCEPT ![a] = [Idle EXCEPT !.at = "enter", !.what = what, !.store = s, !.row = r]]
Move(a, at) == job' = [job EXCEPT ![a].at = at]
Done(a) == job' = [job EXCEPT ![a] = Idle]
Reply(a, is, r, why) ==
  answer' = [is |-> is, verb |-> job[a].what, row |-> r, why |-> why,
             gone |-> job[a].gone, back |-> job[a].back]
Books == <<book, lock, issued, lapsed>>
Ghosts == <<back, gone, crossed, damaged>>

-----------------------------------------------------------------------------
(***************************************************************************)
(* Issuing and revoking.                                                   *)
(***************************************************************************)

\* issue and create draw the new row's id before they wait for the lock.  A request for a
\* grant without a selector, for an unknown scope or verb, or not from a first-party surface,
\* is refused and changes nothing.
Issue(a, sort) ==
  /\ job[a] = Idle /\ Len(issued) < MaxIssues /\ sort.store = subject
  /\ issued' = Append(issued, sort)
  /\ Begin(a, "issue", sort.store, Len(issued) + 1)
  /\ Quiet
  /\ UNCHANGED <<book, lock, lapsed, link, trail, Ghosts, breaks>>

\* Anybody who lists the rows can name one that was issued.
Revoke(a, r) ==
  /\ job[a] = Idle /\ r \in back
  /\ Begin(a, "revoke", issued[r].store, r)
  /\ Quiet
  /\ UNCHANGED <<Books, link, trail, Ghosts, breaks>>

\* locked(): a free marker, or one whose holder died long ago.
Enter(a) ==
  /\ job[a].at = "enter"
  /\ lock[job[a].store] \in {Unheld, DeadHolder}
  /\ lock' = [lock EXCEPT ![job[a].store] = a]
  /\ Move(a, "load")
  /\ Quiet
  /\ UNCHANGED <<requests, book, issued, lapsed, link, trail, Ghosts, breaks>>

\* The wait runs out, and neither store looks at what the lock says.
EnterLate(a) ==
  /\ job[a].at = "enter" /\ breaks < MaxBreaks
  /\ lock[job[a].store] # Unheld
  /\ Move(a, "load") /\ breaks' = breaks + 1
  /\ Quiet
  /\ UNCHANGED <<requests, Books, link, trail, Ghosts>>

\* A revocation of a row that is not on file, or no longer live, writes nothing.
Load(a) ==
  LET rows == OnFile(job[a].store)
      known == job[a].row \in DOMAIN rows /\ rows[job[a].row] = "live"
      next == IF job[a].what = "issue" \/ known THEN "save" ELSE "unknown"
  IN /\ job[a].at = "load"
     /\ job' = [job EXCEPT ![a] = [@ EXCEPT !.at = next, !.copy = rows]]
     /\ Quiet
     /\ UNCHANGED <<requests, Books, link, trail, Ghosts, breaks>>

Written(a) ==
  LET r == job[a].row
      status == IF job[a].what = "issue" THEN "live" ELSE "revoked"
  IN [q \in DOMAIN job[a].copy \cup {r} |-> IF q = r THEN status ELSE job[a].copy[q]]

Save(a) ==
  LET s == job[a].store
      overtaken == \E b \in Actors \ {a} : job[b].at = "save" /\ job[b].store = s
  IN /\ job[a].at = "save"
     /\ book' = [book EXCEPT ![s] = [is |-> "rows", rows |-> Written(a)]]
     /\ job' = [job EXCEPT ![a] = [@ EXCEPT !.at = "saved", !.copy = NoRows]]
     /\ crossed' = IF overtaken THEN crossed \cup {s} ELSE crossed
     /\ Quiet
     /\ UNCHANGED <<requests, lock, issued, lapsed, link, trail, back, gone, damaged, breaks>>

Unlocked(a) == [lock EXCEPT ![job[a].store] = IF @ = a THEN Unheld ELSE @]

\* The call returns, and with it the context of the lock.
Return(a) ==
  /\ job[a].at \in {"saved", "unknown"}
  /\ lock' = Unlocked(a)
  /\ back' = IF job[a].at = "saved" /\ job[a].what = "issue" THEN back \cup {job[a].row} ELSE back
  /\ gone' = IF job[a].at = "saved" /\ job[a].what = "revoke" THEN gone \cup {job[a].row} ELSE gone
  /\ Done(a)
  /\ Quiet
  /\ UNCHANGED <<requests, book, issued, lapsed, link, trail, crossed, damaged, breaks>>

SaveFails(a) ==
  /\ job[a].at = "save" /\ breaks < MaxBreaks
  /\ breaks' = breaks + 1
  /\ lock' = Unlocked(a) /\ Done(a)
  /\ Quiet
  /\ UNCHANGED <<requests, book, issued, lapsed, link, trail, Ghosts>>

-----------------------------------------------------------------------------
(***************************************************************************)
(* Use.                                                                    *)
(***************************************************************************)

\* Mutant: a file without readable tokens counts as no file.
Unreadable == IF book["tokens"].is = "rows" THEN "token" ELSE "trusted"
\* _policy of the serving loop: looked up at the connection's first guarded op, and kept.
Implied == IF book["tokens"].is = "none" THEN "trusted" ELSE "token"
Connect(a) ==
  /\ job[a] = Idle /\ link[a] = "new" /\ subject = "tokens"
  /\ link' = [link EXCEPT ![a] = Implied]
  /\ answer' = [NoAnswer EXCEPT !.is = "linked", !.why = Implied, !.back = back]
  /\ UNCHANGED <<requests, Books, job, trail, Ghosts, breaks>>
\* The connection is closed, and the actor may open another.
Disconnect(a) ==
  /\ job[a] = Idle /\ link[a] # "new"
  /\ link' = [link EXCEPT ![a] = "new"]
  /\ Quiet
  /\ UNCHANGED <<requests, Books, job, trail, Ghosts, breaks>>

\* authenticate: the policy knows the credential, the claimed identity is that of the
\* credential, and it permits the op.  Without tokens everybody is who they say they are.
Refusal(a, r, verb, honest) ==
  IF link[a] = "trusted" THEN "none"
  ELSE IF ~Lives("tokens", r) THEN "unauthenticated"
  ELSE IF ~honest THEN "identity_unverified"
  ELSE IF issued[r].verb # verb THEN "permission_denied"
  ELSE "none"
Instruct(a, r, verb, honest) ==
  LET why == Refusal(a, r, verb, honest)
  IN /\ job[a] = Idle /\ link[a] # "new"
     /\ r # 0 => r \in back /\ issued[r].store = "tokens"
     /\ answer' = [is |-> IF why = "none" THEN "admitted" ELSE "refused", verb |-> verb,
                   row |-> IF link[a] = "trusted" THEN 0 ELSE r, why |-> why,
                   gone |-> gone, back |-> back]
     /\ UNCHANGED <<requests, Books, job, link, trail, Ghosts, breaks>>

\* GrantedSource: ask at use, attribute the outcome in the session's trail, then fetch.
Ask(a, verb) ==
  /\ job[a] = Idle /\ subject = "grants"
  /\ requests < MaxRequests /\ requests' = requests + 1
  /\ job' = [job EXCEPT ![a] = [Idle EXCEPT !.at = "ask", !.what = verb, !.store = "grants",
                                           !.gone = gone, !.back = back]]
  /\ Quiet
  /\ UNCHANGED <<Books, link, trail, Ghosts, breaks>>

\* The rows a request for "mine" could rest on, by what stands against each.
Candidates(verb) == {r \in DOMAIN OnFile("grants") : issued[r].verb = verb}
Against(r) ==
  IF OnFile("grants")[r] = "revoked" THEN "revoked"
  ELSE IF r \in lapsed THEN "expired"
  ELSE IF issued[r].only # "mine" THEN "selector_mismatch"
  ELSE "granted"
Reasons == <<"granted", "revoked", "expired", "selector_mismatch">>
\* authorize_source: the first that is there, the most specific refusal otherwise.
Verdict(verb) ==
  LET found == {i \in DOMAIN Reasons : \E r \in Candidates(verb) : Against(r) = Reasons[i]}
  IN IF found = {} THEN "no_grant" ELSE Reasons[CHOOSE i \in found : \A j \in found : i <= j]
Decide(a) ==
  LET why == Verdict(job[a].what)
      cited == {r \in Candidates(job[a].what) : Against(r) = why} \cup {0}
  IN /\ job[a].at = "ask"
     /\ \E r \in cited :
          /\ r = 0 => cited = {0}
          /\ job' = [job EXCEPT ![a] = [@ EXCEPT !.at = IF why = "granted" THEN "attribute" ELSE "deny",
                                               !.row = r, !.why = why]]
     /\ Quiet
     /\ UNCHANGED <<requests, Books, link, trail, Ghosts, breaks>>

Attribute(a) ==
  /\ job[a].at \in {"attribute", "deny"}
  /\ trail' = IF job[a].at = "attribute" THEN trail \cup {job[a].row} ELSE trail
  /\ IF job[a].at = "deny"
     THEN Done(a) /\ Reply(a, "denied", job[a].row, job[a].why)
     ELSE Move(a, "fetch") /\ Quiet
  /\ UNCHANGED <<requests, Books, link, Ghosts, breaks>>
Fetch(a) ==
  /\ job[a].at = "fetch"
  /\ Reply(a, "used", job[a].row, "granted")
  /\ Done(a)
  /\ UNCHANGED <<requests, Books, link, trail, Ghosts, breaks>>

-----------------------------------------------------------------------------
Lapse(r) ==
  /\ r \in back \ lapsed /\ ~issued[r].lasting
  /\ lapsed' = lapsed \cup {r}
  /\ Quiet
  /\ UNCHANGED <<requests, book, lock, issued, job, link, trail, Ghosts, breaks>>
Kill(a) ==
  /\ job[a] # Idle /\ breaks < MaxBreaks
  /\ breaks' = breaks + 1
  /\ lock' = [s \in Stores |-> IF lock[s] = a THEN DeadHolder ELSE lock[s]]
  /\ Done(a)
  /\ link' = [link EXCEPT ![a] = "new"] /\ Quiet
  /\ UNCHANGED <<requests, book, issued, lapsed, trail, Ghosts>>
Damage(s) ==
  /\ book[s].is = "rows" /\ breaks < MaxBreaks
  /\ breaks' = breaks + 1
  /\ book' = [book EXCEPT ![s] = [is |-> "bad", rows |-> NoRows]]
  /\ damaged' = damaged \cup {s}
  /\ Quiet
  /\ UNCHANGED <<requests, lock, issued, lapsed, job, link, trail, back, gone, crossed>>

Moves ==
  \/ \E a \in Actors :
       \/ \E sort \in Sorts : Issue(a, sort)
       \/ \E r \in Rows : Revoke(a, r)
       \/ Enter(a) \/ EnterLate(a) \/ Load(a) \/ Save(a) \/ SaveFails(a) \/ Return(a)
       \/ Connect(a) \/ Disconnect(a)
       \/ \E r \in Rows \cup {0}, verb \in {"read", "write"}, honest \in BOOLEAN :
            Instruct(a, r, verb, honest)
       \/ \E verb \in {"read", "send"} : Ask(a, verb)
       \/ Decide(a) \/ Attribute(a) \/ Fetch(a) \/ Kill(a)
  \/ \E r \in Rows : Lapse(r)
  \/ \E s \in Stores : Damage(s)

Next == UNCHANGED subject /\ Moves

Spec == Init /\ [][Next]_vars

-----------------------------------------------------------------------------
(***************************************************************************)
(* Properties.                                                             *)
(***************************************************************************)

StoreOf(r) == issued[r].store
Fits(r, verb) == issued[r].verb = verb /\ issued[r].only # "other"

\* Whoever began after a revocation had returned gets nothing by the revoked row, unless
\* updates of the file crossed ("effective on the very next resolve", "mid-turn included").
RevokedStaysOut ==
  answer.is \in {"admitted", "used"} /\ answer.row \in answer.gone =>
    StoreOf(answer.row) \in crossed

\* A row whose issue has returned stays on file, unless updates crossed or the file was damaged.
IssuedStays ==
  \A r \in back : r \in DOMAIN OnFile(StoreOf(r)) \/ StoreOf(r) \in crossed \cup damaged

\* Nobody is told "you never had this" of what was granted before and fits the request.
DenialIsTrue ==
  answer.is = "denied" /\ answer.why \in {"no_grant", "selector_mismatch"} =>
    \/ "grants" \in crossed \cup damaged
    \/ \A r \in answer.back : ~Fits(r, answer.verb)

\* A connection is trusted without a credential only if no token was issued before it began.
TrustedUntilIssued == answer.is = "linked" /\ answer.why = "trusted" => answer.back = {}

\* What was read or sent is attributed to the grant it rests on, and that grant fits it.
Attributed == answer.is = "used" => answer.row \in trail /\ Fits(answer.row, answer.verb)

AccessSound == /\ RevokedStaysOut /\ IssuedStays /\ DenialIsTrue /\ TrustedUntilIssued
               /\ Attributed
=============================================================================
