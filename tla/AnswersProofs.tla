---------------------------- MODULE AnswersProofs ----------------------------
(***************************************************************************)
(* Proofs about what waits for the user's word, in Approvals and in        *)
(* Decisions.  The broker fails closed and no denial is silent, each       *)
(* ticket carries its own detail and the head is the one the client was    *)
(* shown, for any number of calls, prompts, defaults and needs-you slots.  *)
(* An answer to a question reaches the model once and results say what the *)
(* user did, and the queue keeps its bound, for any number of questions,   *)
(* executions and places in the queue.                                     *)
(***************************************************************************)
EXTENDS Approvals, Decisions, SequenceTheorems, FiniteSetTheorems, TLAPS

USE ApprovalsAssumption

\* What a resolved future remembers: who resolved it.
Backed ==
  /\ future \in [Calls -> Verdicts \cup {"open", "cancelled"}]
  /\ told \in [Calls -> Verdicts \cup {"none"}]
  /\ outcome \in [Calls -> Verdicts \cup {"none"}]
  /\ \A c \in Calls : future[c] = "open" => outcome[c] = "none"
  /\ \A c \in Calls : future[c] = "allow" => told[c] = "allow"
  /\ \A c \in Calls : future[c] = "deny" => told[c] = "deny" \/ <<c, "deferral">> \in denials
  /\ \A c \in Calls : future[c] = "cancelled" => c \in expired

IInv == Backed /\ FailClosed /\ DenialsLogged

LEMMA InitIInv == Init => IInv
  BY DEF Init, IInv, Backed, FailClosed, DenialsLogged, Verdicts

\* An answer resolves an open future, so it cannot take back a verdict.
LEMMA AnswerIInv ==
  ASSUME IInv, NEW c \in Calls, NEW choice \in Verdicts, Answer(c, choice)
  PROVE  IInv'
<1> USE DEF IInv, Backed, FailClosed, DenialsLogged, Verdicts
<1>1. CASE future[c] = "open"
  BY <1>1 DEF Answer
<1>2. CASE future[c] # "open"
  BY <1>2 DEF Answer
<1>3. QED
  BY <1>1, <1>2

LEMMA NextIInv == IInv /\ [Next]_vars => IInv'
<1> SUFFICES ASSUME IInv, [Next]_vars PROVE IInv'
  OBVIOUS
<1>1. ASSUME NEW c \in Calls, Stages(c) \/ RequestApproval(c) PROVE IInv'
  BY <1>1 DEF Stages, RequestApproval, IInv, Backed, FailClosed, DenialsLogged
<1>2. ASSUME NEW c \in Calls, Defer(c) PROVE IInv'
  BY <1>2 DEF Defer, Deferral, IInv, Backed, FailClosed, DenialsLogged, Verdicts
<1>3. ASSUME NEW c \in Calls, Fires(c) PROVE IInv'
  BY <1>3 DEF Fires, IInv, Backed, FailClosed, DenialsLogged, Verdicts
<1>4. ASSUME NEW c \in Calls, Resumes(c) PROVE IInv'
  <2> USE DEF IInv, Backed, FailClosed, DenialsLogged, Verdicts
  <2>1. CASE c \in expired
    BY <1>4, <2>1 DEF Resumes, Choice, Wakes
  <2>2. CASE c \notin expired
    BY <1>4, <2>2 DEF Resumes, Choice, Wakes
  <2>3. QED
    BY <2>1, <2>2
<1>5. ASSUME NEW c \in Calls, NEW choice \in Verdicts,
             Approve(c, choice) \/ ApproveHead(c, choice)
      PROVE IInv'
  BY <1>5, AnswerIInv DEF Approve, ApproveHead
<1>6. CASE UNCHANGED vars
  BY <1>6 DEF vars, IInv, Backed, FailClosed, DenialsLogged
<1>7. QED
  BY <1>1, <1>2, <1>3, <1>4, <1>5, <1>6 DEF Next, Finished

\* request_approval returns "Allow" only on a human's word or on the asker's
\* own default, however answers, deferrals and deadlines interleave.
THEOREM AllowsOnlyOnWord == Spec => []FailClosed
<1>1. IInv => FailClosed
  BY DEF IInv
<1>2. QED
  BY InitIInv, NextIInv, <1>1, PTL DEF Spec

\* A call denied without a human's word has its entry in the denial log, also
\* when the needs-you queue was full.
THEOREM NoSilentDenial == Spec => []DenialsLogged
<1>1. IInv => DenialsLogged
  BY DEF IInv
<1>2. QED
  BY InitIInv, NextIInv, <1>1, PTL DEF Spec

\* The broker fails closed, and says so: both of the above.
THEOREM FailsClosed == Spec => []FailsClosedAloud
<1>1. FailClosed /\ DenialsLogged => FailsClosedAloud
  BY DEF FailsClosedAloud
<1>2. QED
  BY <1>1, AllowsOnlyOnWord, NoSilentDenial, PTL

-----------------------------------------------------------------------------
(***************************************************************************)
(* Tickets, their details and the head.                                    *)
(***************************************************************************)

Once(s) == \A i, j \in DOMAIN s : s[i] = s[j] => i = j

\* list.remove takes one element out and moves what is behind it.
LEMMA RemovesOne ==
  ASSUME NEW S, NEW s \in Seq(S), Once(s), NEW i \in DOMAIN s
  PROVE  /\ RemoveFirst(s, s[i]) \in Seq(S)
         /\ DOMAIN RemoveFirst(s, s[i]) = 1 .. (Len(s) - 1)
         /\ \A j \in 1 .. (Len(s) - 1) :
              RemoveFirst(s, s[i])[j] = IF j < i THEN s[j] ELSE s[j + 1]
<1>1. DOMAIN s = 1 .. Len(s) /\ Len(s) \in Nat /\ i \in 1 .. Len(s)
  OBVIOUS
<1>2. {j \in 1 .. Len(s) : s[j] = s[i]} = {i}
  BY <1>1 DEF Once
<1>3. Min({i}) = i
  BY <1>1 DEF Min
<1>4. RemoveFirst(s, s[i]) = SubSeq(s, 1, i - 1) \o SubSeq(s, i + 1, Len(s))
  BY <1>1, <1>2, <1>3 DEF RemoveFirst, RemoveAt, SelectInSeq
<1>5. ASSUME NEW a \in Seq(S), NEW b \in Seq(S), Len(a) = i - 1, Len(b) = Len(s) - i,
             \A j \in 1 .. (i - 1) : a[j] = s[j], \A j \in 1 .. (Len(s) - i) : b[j] = s[i + j]
      PROVE  /\ a \o b \in Seq(S) /\ DOMAIN (a \o b) = 1 .. (Len(s) - 1)
             /\ \A j \in 1 .. (Len(s) - 1) : (a \o b)[j] = IF j < i THEN s[j] ELSE s[j + 1]
  <2>1. /\ a \o b \in Seq(S) /\ Len(a \o b) = Len(s) - 1
        /\ \A j \in 1 .. (Len(s) - 1) : (a \o b)[j] = IF j <= Len(a) THEN a[j] ELSE b[j - Len(a)]
    <3>1. Len(a) + Len(b) = Len(s) - 1
      BY <1>1, <1>5
    <3>2. /\ a \o b \in Seq(S) /\ Len(a \o b) = Len(a) + Len(b)
          /\ \A j \in 1 .. Len(a) + Len(b) : (a \o b)[j] = IF j <= Len(a) THEN a[j] ELSE b[j - Len(a)]
      BY ConcatProperties
    <3> QED BY <3>1, <3>2
  <2>2. ASSUME NEW j \in 1 .. (Len(s) - 1), j < i PROVE (a \o b)[j] = s[j]
    BY <1>1, <1>5, <2>1, <2>2
  <2>3. ASSUME NEW j \in 1 .. (Len(s) - 1), ~(j < i) PROVE (a \o b)[j] = s[j + 1]
    <3>1. j - Len(a) \in 1 .. (Len(s) - i) /\ ~(j <= Len(a)) /\ i + (j - Len(a)) = j + 1
      BY <1>1, <1>5, <2>3
    <3>2. b[j - Len(a)] = s[i + (j - Len(a))]
      BY <1>5, <3>1
    <3> QED BY <2>1, <3>1, <3>2
  <2> QED BY <2>1, <2>2, <2>3
<1>6. /\ SubSeq(s, 1, i - 1) \in Seq(S) /\ Len(SubSeq(s, 1, i - 1)) = i - 1
      /\ \A j \in 1 .. (i - 1) : SubSeq(s, 1, i - 1)[j] = s[j]
  BY <1>1
<1>7. /\ SubSeq(s, i + 1, Len(s)) \in Seq(S) /\ Len(SubSeq(s, i + 1, Len(s))) = Len(s) - i
      /\ \A j \in 1 .. (Len(s) - i) : SubSeq(s, i + 1, Len(s))[j] = s[i + j]
  BY <1>1
<1>8. /\ SubSeq(s, 1, i - 1) \o SubSeq(s, i + 1, Len(s)) \in Seq(S)
      /\ DOMAIN (SubSeq(s, 1, i - 1) \o SubSeq(s, i + 1, Len(s))) = 1 .. (Len(s) - 1)
      /\ \A j \in 1 .. (Len(s) - 1) :
           (SubSeq(s, 1, i - 1) \o SubSeq(s, i + 1, Len(s)))[j] = IF j < i THEN s[j] ELSE s[j + 1]
  <2> HIDE <1>4
  <2> QED BY <1>5, <1>6, <1>7
<1> QED BY <1>4, <1>8

\* What is staged is waiting for its request, in the order of the hooks.
Staging ==
  /\ \A p \in Prompts : /\ Once(staged[p])
                        /\ \A i \in DOMAIN staged[p] :
                             place[staged[p][i]] = "hooked" /\ PromptOf[staged[p][i]] = p
  /\ \A c \in Calls : place[c] = "hooked" =>
       \E i \in DOMAIN staged[PromptOf[c]] : staged[PromptOf[c]][i] = c

\* A deferral closes the future, and the first ticket is shown while it is open.
Listing ==
  /\ Once(tickets)
  /\ \A c \in deferred : future[c] # "open"
  /\ tickets # << >> /\ future[tickets[1]] = "open" => tickets[1] \in announced

TicketInv == TypeOK /\ Staging /\ Listing /\ DetailIsOwn

LEMMA InitTicketInv == Init => TicketInv
<1> SUFFICES ASSUME Init PROVE TicketInv
  OBVIOUS
<1> USE DEF Init
<1>1. Range(tickets) = {}
  BY DEF Range
<1>2. TypeOK
  BY <1>1 DEF TypeOK, Verdicts
<1> QED BY <1>2 DEF TicketInv, Staging, Listing, Once, DetailIsOwn

\* The first ticket is the head if it is open and not deferred, so a notification
\* leaves it announced.
LEMMA FirstIsHead ==
  ASSUME NEW ts \in Seq(Calls), NEW fut, NEW def, Notifies(ts, fut, def), announced \subseteq Calls
  PROVE  /\ announced' \subseteq Calls
         /\ ts # << >> /\ fut[ts[1]] = "open" /\ ts[1] \notin def => ts[1] \in announced'
<1>1. ASSUME ts # << >>, fut[ts[1]] = "open", ts[1] \notin def
      PROVE  ts[1] \in Calls /\ IsHead(ts[1], ts, fut, def)
  <2>1. 1 \in DOMAIN ts /\ ts[1] \in Calls
    BY <1>1
  <2> QED BY <1>1, <2>1 DEF IsHead
<1> QED BY <1>1 DEF Notifies

\* A request takes the oldest detail staged for its prompt, which is its own.
LEMMA RequestKeeps ==
  ASSUME TicketInv, NEW c \in Calls, RequestApproval(c)
  PROVE  TicketInv'
<1> DEFINE p == PromptOf[c]
           q == staged[p]
<1> USE DEF TicketInv
<1>1. p \in Prompts /\ q \in Seq(Calls) /\ Once(q) /\ place[c] = "hooked"
  BY DEF TypeOK, Staging, RequestApproval, KernelAsks
<1>2. PICK i \in DOMAIN q : q[i] = c
  BY <1>1 DEF Staging
<1>3. i = 1
  <2>1. \A j \in 1 .. (i - 1) : place[q[j]] # "hooked"
    BY <1>2 DEF RequestApproval, KernelAsks
  <2>2. \A j \in DOMAIN q : place[q[j]] = "hooked"
    BY <1>1 DEF Staging
  <2>3. DOMAIN q = 1 .. Len(q) /\ Len(q) \in Nat
    BY <1>1
  <2> QED BY <1>2, <2>1, <2>2, <2>3
<1>4. q # << >> /\ Head(q) = c /\ Taken(p) = <<c, Tail(q)>>
  <2>1. q # << >> /\ Head(q) = c
    BY <1>1, <1>2, <1>3
  <2> QED BY <2>1 DEF Taken
<1>5. /\ Tail(q) \in Seq(Calls) /\ DOMAIN Tail(q) = 1 .. (Len(q) - 1)
      /\ \A j \in DOMAIN Tail(q) : Tail(q)[j] = q[j + 1] /\ j + 1 \in DOMAIN q
  BY <1>1, <1>4
<1>6. /\ place' = [place EXCEPT ![c] = "waiting"]
      /\ detail' = [detail EXCEPT ![c] = c]
      /\ staged' = [staged EXCEPT ![p] = Tail(q)]
      /\ tickets' = Append(tickets, c)
      /\ Notifies(tickets', future, deferred)
      /\ UNCHANGED <<future, expired, deferred, parked, outcome, denials, told>>
  <2>1. Taken(p) # << >> /\ Taken(p)[1] = c /\ Taken(p)[2] = Tail(q)
    BY <1>4
  <2> QED BY <2>1 DEF RequestApproval
<1> HIDE DEF q
<1>7. /\ tickets' \in Seq(Calls) /\ Len(tickets) \in Nat
      /\ DOMAIN tickets = 1 .. Len(tickets) /\ DOMAIN tickets' = 1 .. (Len(tickets) + 1)
      /\ tickets'[Len(tickets) + 1] = c /\ \A j \in DOMAIN tickets : tickets'[j] = tickets[j]
  BY <1>6 DEF TypeOK
<1>8. \A d \in Calls : d \in Range(tickets') <=> d \in Range(tickets) \/ d = c
  BY <1>7 DEF Range
<1>9. TypeOK'
  <2>1. announced' \subseteq Calls
    BY <1>6, <1>7, FirstIsHead DEF TypeOK
  <2>2. staged' \in [Prompts -> Seq(Calls)]
    BY <1>1, <1>5, <1>6 DEF TypeOK
  <2>3. place' \in [Calls -> {"tool", "hooked", "waiting", "done"}]
        /\ detail' \in [Calls -> Calls \cup {NoCall}]
    BY <1>6 DEF TypeOK
  <2>4. \A d \in Calls : d \in Range(tickets') <=> place'[d] = "waiting"
    BY <1>6, <1>8 DEF TypeOK
  <2> QED BY <1>6, <1>7, <2>1, <2>2, <2>3, <2>4 DEF TypeOK
<1>10. Staging'
  <2>1. ASSUME NEW r \in Prompts, r # p
        PROVE  Once(staged'[r]) /\ \A j \in DOMAIN staged'[r] :
                 place'[staged'[r][j]] = "hooked" /\ PromptOf[staged'[r][j]] = r
    <3>1. staged'[r] = staged[r]
      BY <1>6, <2>1 DEF TypeOK
    <3>2. \A j \in DOMAIN staged[r] : staged[r][j] \in Calls /\ staged[r][j] # c
      BY <2>1 DEF Staging, TypeOK
    <3>3. \A d \in Calls : d # c => place'[d] = place[d]
      BY <1>6 DEF TypeOK
    <3> QED BY <3>1, <3>2, <3>3 DEF Staging
  <2>2. Once(staged'[p]) /\ \A j \in DOMAIN staged'[p] :
          place'[staged'[p][j]] = "hooked" /\ PromptOf[staged'[p][j]] = p
    <3>1. staged'[p] = Tail(q)
      BY <1>1, <1>6 DEF TypeOK
    <3>2. Once(Tail(q))
      BY <1>1, <1>5 DEF Once
    <3>3. \A j \in DOMAIN Tail(q) : Tail(q)[j] # c
      BY <1>1, <1>2, <1>3, <1>5 DEF Once
    <3>4. \A j \in DOMAIN q : place[q[j]] = "hooked" /\ PromptOf[q[j]] = p /\ q[j] \in Calls
      BY <1>1 DEF Staging, q
    <3> QED BY <1>5, <1>6, <3>1, <3>2, <3>3, <3>4 DEF TypeOK
  <2>3. ASSUME NEW d \in Calls, place'[d] = "hooked"
        PROVE  \E j \in DOMAIN staged'[PromptOf[d]] : staged'[PromptOf[d]][j] = d
    <3>1. place[d] = "hooked" /\ d # c /\ PromptOf[d] \in Prompts
      BY <1>6, <2>3 DEF TypeOK
    <3>2. PICK j \in DOMAIN staged[PromptOf[d]] : staged[PromptOf[d]][j] = d
      BY <3>1 DEF Staging
    <3>3. CASE PromptOf[d] # p
      BY <1>6, <3>1, <3>2, <3>3 DEF TypeOK
    <3>4. CASE PromptOf[d] = p
      <4>1. staged'[p] = Tail(q)
        BY <1>1, <1>6 DEF TypeOK
      <4>2. j \in DOMAIN q /\ q[j] = d
        BY <3>2, <3>4 DEF q
      <4>3. j # 1
        BY <1>2, <1>3, <3>1, <4>2
      <4>4. j - 1 \in DOMAIN Tail(q) /\ Tail(q)[j - 1] = d
        BY <1>1, <1>5, <4>2, <4>3
      <4> QED BY <3>4, <4>1, <4>4
    <3> QED BY <3>3, <3>4
  <2> QED BY <2>1, <2>2, <2>3 DEF Staging
<1>11. Listing'
  <2>1. \A j \in DOMAIN tickets : tickets[j] # c
    BY <1>1 DEF TypeOK, Range
  <2>2. Once(tickets')
    BY <1>7, <2>1 DEF Listing, Once
  <2>3. \A d \in deferred' : future'[d] # "open"
    BY <1>6 DEF Listing
  <2>4. tickets' # << >> /\ future'[tickets'[1]] = "open" => tickets'[1] \in announced'
    BY <1>6, <1>7, <2>3, FirstIsHead DEF TypeOK
  <2> QED BY <2>2, <2>3, <2>4 DEF Listing
<1>12. DetailIsOwn'
  BY <1>6 DEF DetailIsOwn, TypeOK
<1> QED BY <1>9, <1>10, <1>11, <1>12

\* A waiter that resumes takes its ticket, and only it, off the list.
LEMMA ResumeKeeps ==
  ASSUME TicketInv, Backed, NEW c \in Calls, Resumes(c)
  PROVE  TicketInv'
<1> USE DEF TicketInv
<1>1. /\ tickets' = RemoveFirst(tickets, c) /\ place' = [place EXCEPT ![c] = "done"]
      /\ place[c] = "waiting" /\ Notifies(tickets', future, deferred) /\ future[c] # "open"
      /\ UNCHANGED <<staged, detail, future, expired, deferred, parked, told>>
  BY DEF Resumes, Wakes
<1>2. PICK i \in DOMAIN tickets : tickets[i] = c
  BY <1>1 DEF TypeOK, Range
<1>3. /\ tickets' \in Seq(Calls) /\ DOMAIN tickets' = 1 .. (Len(tickets) - 1)
      /\ \A j \in 1 .. (Len(tickets) - 1) : tickets'[j] = IF j < i THEN tickets[j] ELSE tickets[j + 1]
  <2>1. tickets \in Seq(Calls) /\ Once(tickets)
    BY DEF TypeOK, Listing
  <2> HIDE DEF TicketInv
  <2> QED BY <1>1, <1>2, <2>1, RemovesOne
<1>4. /\ tickets \in Seq(Calls) /\ Len(tickets) \in Nat /\ DOMAIN tickets = 1 .. Len(tickets)
      /\ \A j, k \in DOMAIN tickets : tickets[j] = tickets[k] => j = k
  BY DEF Listing, Once, TypeOK
<1>5. ASSUME NEW d \in Calls
      PROVE  d \in Range(tickets') <=> d \in Range(tickets) /\ d # c
  <2>1. ASSUME NEW j \in DOMAIN tickets' PROVE tickets'[j] \in Range(tickets) /\ tickets'[j] # c
    <3>1. CASE j < i
      BY <1>2, <1>3, <1>4, <3>1 DEF Range
    <3>2. CASE ~(j < i)
      <4>1. j + 1 \in DOMAIN tickets /\ j + 1 # i /\ tickets'[j] = tickets[j + 1]
        BY <1>2, <1>3, <1>4, <3>2
      <4> QED BY <1>2, <1>4, <4>1 DEF Range
    <3> QED BY <3>1, <3>2
  <2>2. ASSUME NEW j \in DOMAIN tickets, tickets[j] = d, d # c PROVE d \in Range(tickets')
    <3>1. CASE j < i
      BY <1>2, <1>3, <1>4, <2>2, <3>1 DEF Range
    <3>2. CASE j > i
      <4>1. j - 1 \in DOMAIN tickets' /\ tickets'[j - 1] = d
        BY <1>2, <1>3, <1>4, <2>2, <3>2
      <4> QED BY <4>1 DEF Range
    <3> QED BY <1>2, <1>4, <2>2, <3>1, <3>2
  <2> QED BY <2>1, <2>2 DEF Range
<1>6. TypeOK'
  <2>1. announced' \subseteq Calls
    BY <1>1, <1>3, FirstIsHead DEF TypeOK
  <2>2. Choice(c) \in Verdicts
    <3>1. future[c] \in Verdicts \cup {"cancelled"} /\ (future[c] = "cancelled" => c \in expired)
      BY <1>1 DEF TypeOK, Backed
    <3> QED BY <3>1 DEF Choice, Verdicts
  <2>3. outcome' \in [Calls -> Verdicts \cup {"none"}] /\ denials' \subseteq Calls \X {"timeout", "deferral"}
    BY <2>2 DEF Resumes, TypeOK
  <2>4. place' \in [Calls -> {"tool", "hooked", "waiting", "done"}]
        /\ \A d \in Calls : d \in Range(tickets') <=> place'[d] = "waiting"
    BY <1>1, <1>5 DEF TypeOK
  <2> QED BY <1>1, <1>3, <2>1, <2>3, <2>4 DEF TypeOK
<1>7. Staging'
  BY <1>1 DEF Staging, TypeOK
<1>8. Listing'
  <2>1. Once(tickets')
    <3>1. ASSUME NEW j \in DOMAIN tickets'
          PROVE  \E k \in DOMAIN tickets : tickets'[j] = tickets[k] /\ k = IF j < i THEN j ELSE j + 1
      BY <1>2, <1>3, <1>4
    <3>2. ASSUME NEW j \in DOMAIN tickets', NEW m \in DOMAIN tickets', tickets'[j] = tickets'[m]
          PROVE  j = m
      <4>1. (IF j < i THEN j ELSE j + 1) = (IF m < i THEN m ELSE m + 1)
        BY <1>4, <3>1, <3>2
      <4> QED BY <1>2, <1>3, <1>4, <4>1
    <3> QED BY <3>2 DEF Once
  <2>2. \A d \in deferred' : future'[d] # "open"
    BY <1>1 DEF Listing
  <2>3. tickets' # << >> /\ future'[tickets'[1]] = "open" => tickets'[1] \in announced'
    BY <1>1, <1>3, <2>2, FirstIsHead DEF TypeOK
  <2> QED BY <2>1, <2>2, <2>3 DEF Listing
<1>9. DetailIsOwn'
  BY <1>1 DEF DetailIsOwn
<1> QED BY <1>6, <1>7, <1>8, <1>9

\* Staging a detail puts it behind the others of its prompt.
LEMMA StageKeeps ==
  ASSUME TicketInv, NEW c \in Calls, Stages(c)
  PROVE  TicketInv'
<1> DEFINE p == PromptOf[c]
           q == staged[p]
<1> USE DEF TicketInv
<1>1. /\ p \in Prompts /\ q \in Seq(Calls) /\ place[c] = "tool"
      /\ place' = [place EXCEPT ![c] = "hooked"]
      /\ staged' = [staged EXCEPT ![p] = Append(q, c)]
      /\ UNCHANGED <<tickets, detail, future, expired, deferred, parked, outcome, denials,
                     announced, told>>
  BY DEF Stages, TypeOK
<1> HIDE DEF q
<1>2. /\ Append(q, c) \in Seq(Calls) /\ Len(q) \in Nat
      /\ DOMAIN q = 1 .. Len(q) /\ DOMAIN Append(q, c) = 1 .. (Len(q) + 1)
      /\ Append(q, c)[Len(q) + 1] = c /\ \A j \in DOMAIN q : Append(q, c)[j] = q[j]
  BY <1>1
<1>3. staged'[p] = Append(q, c) /\ \A r \in Prompts : r # p => staged'[r] = staged[r]
  BY <1>1 DEF TypeOK
<1>4. /\ \A d \in Calls : d # c => place'[d] = place[d]
      /\ place'[c] = "hooked"
  BY <1>1 DEF TypeOK
<1>5. TypeOK'
  BY <1>1, <1>2, <1>4 DEF TypeOK
<1>6. ASSUME NEW r \in Prompts, NEW j \in DOMAIN staged[r]
      PROVE  staged[r][j] \in Calls /\ staged[r][j] # c
  BY <1>1 DEF TypeOK, Staging
<1>7. Staging'
  <2>1. ASSUME NEW r \in Prompts, r # p
        PROVE  Once(staged'[r]) /\ \A j \in DOMAIN staged'[r] :
                 place'[staged'[r][j]] = "hooked" /\ PromptOf[staged'[r][j]] = r
    BY <1>3, <1>4, <1>6, <2>1 DEF Staging
  <2>2. Once(Append(q, c))
    BY <1>1, <1>2, <1>6 DEF Staging, Once, q
  <2>3. ASSUME NEW j \in DOMAIN Append(q, c)
        PROVE  place'[Append(q, c)[j]] = "hooked" /\ PromptOf[Append(q, c)[j]] = p
    <3>1. CASE j = Len(q) + 1
      BY <1>2, <1>4, <3>1
    <3>2. CASE j \in DOMAIN q
      <4>1. place[q[j]] = "hooked" /\ PromptOf[q[j]] = p
        BY <1>1, <3>2 DEF Staging, q
      <4>2. q[j] \in Calls /\ q[j] # c
        BY <1>1, <1>6, <3>2 DEF q
      <4> QED BY <1>2, <1>4, <3>2, <4>1, <4>2
    <3> QED BY <1>2, <3>1, <3>2
  <2>4. ASSUME NEW d \in Calls, place'[d] = "hooked"
        PROVE  \E j \in DOMAIN staged'[PromptOf[d]] : staged'[PromptOf[d]][j] = d
    <3>1. CASE d = c
      <4>1. Len(q) + 1 \in DOMAIN Append(q, c)
        BY <1>2
      <4> QED BY <1>2, <1>3, <3>1, <4>1
    <3>2. CASE d # c
      <4>1. PICK j \in DOMAIN staged[PromptOf[d]] : staged[PromptOf[d]][j] = d
        BY <1>4, <2>4, <3>2 DEF Staging
      <4>2. CASE PromptOf[d] # p
        BY <1>3, <4>1, <4>2
      <4>3. CASE PromptOf[d] = p
        <5>1. j \in DOMAIN q /\ q[j] = d
          BY <4>1, <4>3 DEF q
        <5>2. j \in DOMAIN Append(q, c) /\ Append(q, c)[j] = d
          BY <1>2, <5>1
        <5> QED BY <1>3, <4>3, <5>2
      <4> QED BY <4>2, <4>3
    <3> QED BY <3>1, <3>2
  <2>5. \A r \in Prompts : Once(staged'[r]) /\ \A j \in DOMAIN staged'[r] :
          place'[staged'[r][j]] = "hooked" /\ PromptOf[staged'[r][j]] = r
    BY <1>3, <2>1, <2>2, <2>3
  <2> QED BY <2>4, <2>5 DEF Staging
<1>8. Listing' /\ DetailIsOwn'
  BY <1>1 DEF Listing, DetailIsOwn
<1> QED BY <1>5, <1>7, <1>8

\* Answers, deferrals and deadlines touch futures only: they open none, and a
\* deferral closes the one it defers.
LEMMA FuturesKeep ==
  ASSUME TicketInv, NEW c \in Calls, NEW choice \in Verdicts,
         Answer(c, choice) \/ Defer(c) \/ Fires(c)
  PROVE  TicketInv'
<1> USE DEF TicketInv
<1>1. /\ UNCHANGED <<place, staged, tickets, detail>>
      /\ announced \subseteq announced' /\ announced' \subseteq Calls
      /\ deferred' = deferred \/ deferred' = deferred \cup {c}
      /\ future' = future \/ \E v \in Verdicts \cup {"cancelled"} : future' = [future EXCEPT ![c] = v]
  BY DEF Answer, Defer, Fires, Notifies, TypeOK, Verdicts
<1>2. \A d \in Calls : future'[d] = "open" => future[d] = "open"
  BY <1>1 DEF TypeOK, Verdicts
<1>3. c \in deferred' \ deferred => future'[c] # "open"
  BY DEF Answer, Defer, Fires, TypeOK
<1>4. TypeOK'
  <2>1. CASE Answer(c, choice)
    BY <2>1 DEF Answer, TypeOK
  <2>2. CASE Defer(c)
    BY <1>1, <2>2 DEF Defer, Deferral, TypeOK, Verdicts
  <2>3. CASE Fires(c)
    BY <2>3 DEF Fires, TypeOK, Verdicts
  <2> QED BY <2>1, <2>2, <2>3
<1>5. Staging' /\ DetailIsOwn'
  BY <1>1 DEF Staging, DetailIsOwn
<1>6. Listing'
  <2>1. \A d \in deferred' : future'[d] # "open"
    BY <1>1, <1>2, <1>3 DEF Listing, TypeOK
  <2>2. tickets # << >> => tickets[1] \in Calls
    BY DEF TypeOK
  <2> QED BY <1>1, <1>2, <2>1, <2>2 DEF Listing
<1> QED BY <1>4, <1>5, <1>6

LEMMA NextTicketInv == TicketInv /\ Backed /\ [Next]_vars => TicketInv'
<1> SUFFICES ASSUME TicketInv, Backed, [Next]_vars PROVE TicketInv'
  OBVIOUS
<1>1. CASE UNCHANGED vars
  BY <1>1 DEF vars, TicketInv, TypeOK, Staging, Listing, DetailIsOwn
<1>2. "deny" \in Verdicts
  BY DEF Verdicts
<1> QED
  BY <1>1, <1>2, StageKeeps, RequestKeeps, ResumeKeeps, FuturesKeep
  DEF Next, Approve, ApproveHead, Finished

\* Concurrent prompts pair with their own details, in request order, and the
\* ticket that blocks the others is one the client was shown
\* (ApprovalBroker._pop_staged, head; serve._on_broker_change).
THEOREM TicketsAreTrue == Spec => []TicketsTrue
<1>1. TicketInv => TicketsTrue
  <2> SUFFICES ASSUME TicketInv PROVE HeadShown
    BY DEF TicketInv, TicketsTrue
  <2> SUFFICES ASSUME \A c \in Range(tickets) : future[c] = "open",
                      NEW c \in Calls, IsHead(c, tickets, future, deferred)
               PROVE  c \in announced
    BY DEF HeadShown
  <2> USE DEF TicketInv
  <2>1. PICK i \in DOMAIN tickets :
          tickets[i] = c /\ \A j \in 1 .. (i - 1) : tickets[j] \in deferred \/ future[tickets[j]] # "open"
    BY DEF IsHead
  <2>2. tickets \in Seq(Calls) /\ Len(tickets) \in Nat /\ i \in 1 .. Len(tickets) /\ 1 \in DOMAIN tickets
    BY <2>1 DEF TypeOK
  <2>3. \A j \in DOMAIN tickets : future[tickets[j]] = "open" /\ tickets[j] \notin deferred
    BY DEF Listing, Range
  <2>4. i = 1
    BY <2>1, <2>2, <2>3
  <2> QED BY <2>1, <2>2, <2>3, <2>4 DEF Listing
<1>2. IInv => Backed
  BY DEF IInv
<1> QED
  BY <1>1, <1>2, InitIInv, NextIInv, InitTicketInv, NextTicketInv, PTL DEF Spec

-----------------------------------------------------------------------------
(***************************************************************************)
(* Decisions: questions that do not stop the world.                        *)
(***************************************************************************)

USE DecisionsAssumption

AnswersTyped ==
  /\ status \in [Decs -> {"none", "pending", "answered", "consumed", "dismissed"}]
  /\ tool \in [Asks -> {"idle", "asking", "waiting", "done", "failed", "cancelled"}]
  /\ heard \in [Decs -> {"none", "answer", "empty"}]
  /\ injected \in [Decs -> Nat]
  /\ woken \subseteq Asks

\* While an execution runs nobody consumes its decisions, and what it noted is
\* what became of them.
NotingOf(d, stage) ==
  /\ stage = "idle" => status[d] = "none"
  /\ stage \in {"asking", "waiting"} => status[d] # "consumed"
  /\ stage = "waiting" =>
       /\ heard[d] = "answer" => status[d] = "answered"
       /\ heard[d] = "empty" => status[d] = "dismissed"
  /\ stage = "waiting" /\ AskOf[d] \in woken => heard[d] # "none"
  /\ stage \in {"idle", "asking"} => heard[d] = "none" /\ AskOf[d] \notin woken

Noting == \A d \in Decs : AskOf[d] \in Asks => NotingOf(d, tool[AskOf[d]])

\* Whichever way an answer went, it is consumed, and it went one way.
Delivering ==
  \A d \in Decs :
    /\ injected[d] <= 1
    /\ injected[d] = 1 => status[d] = "consumed" /\ <<d, "answer">> \notin result
    /\ <<d, "answer">> \in result => status[d] = "consumed" /\ injected[d] = 0
    /\ <<d, "empty">> \in result => status[d] = "dismissed"
    /\ status[d] = "consumed" =>
         \/ injected[d] = 1 \/ <<d, "answer">> \in result
         \/ AskOf[d] \in Asks /\ tool[AskOf[d]] = "cancelled"

AnswersInv == AnswersTyped /\ Noting /\ Delivering

LEMMA InitAnswersInv == DecisionsInit => AnswersInv
  BY DEF DecisionsInit, AnswersInv, AnswersTyped, Noting, NotingOf, Delivering

\* What the listeners make of each decision, and which executions they wake.
LEMMA ListenersNote ==
  ASSUME AnswersTyped, NEW st, NEW ts, Listeners(st, ts)
  PROVE  /\ heard' \in [Decs -> {"none", "answer", "empty"}] /\ woken' \subseteq Asks
         /\ \A d \in Decs : AskOf[d] \in Asks =>
              /\ ts[AskOf[d]] # "waiting" =>
                   heard'[d] = heard[d] /\ (AskOf[d] \in woken' <=> AskOf[d] \in woken)
              /\ ts[AskOf[d]] = "waiting" => heard'[d] = Noted(heard[d], st[d])
              /\ AskOf[d] \in woken' => AskOf[d] \in woken \/ heard'[d] # "none"
<1>1. heard' \in [Decs -> {"none", "answer", "empty"}]
  BY DEF AnswersTyped, Listeners, Noted
<1> QED BY <1>1 DEF AnswersTyped, Listeners, Of

\* What _resolve notes of a decision, by cases.
LEMMA NotedSays ==
  ASSUME NEW h \in {"none", "answer", "empty"}, NEW st
  PROVE  /\ Noted(h, st) = "answer" => h = "answer" \/ st = "answered"
         /\ Noted(h, st) = "empty" => h = "empty" \/ st \in {"dismissed", "consumed"}
         /\ h # "none" => Noted(h, st) = h
         /\ st \in {"answered", "dismissed"} => Noted(h, st) # "none"
<1>1. CASE h # "none"
  BY <1>1, Zenon DEF Noted
<1>2. CASE h = "none" /\ st = "answered"
  BY <1>2, Zenon DEF Noted
<1>3. CASE h = "none" /\ st \in {"dismissed", "consumed"}
  BY <1>3, Zenon DEF Noted
<1>4. CASE h = "none" /\ st \notin {"answered", "dismissed", "consumed"}
  BY <1>4, Zenon DEF Noted
<1> QED BY <1>1, <1>2, <1>3, <1>4

\* A queue change its listeners hear of, or the first look, keeps the notes right.
LEMMA ListenersKeep ==
  ASSUME AnswersTyped, NEW d \in Decs, AskOf[d] \in Asks, NotingOf(d, tool[AskOf[d]]),
         Listeners(status', tool'),
         \/ tool'[AskOf[d]] = tool[AskOf[d]]
         \/ tool[AskOf[d]] = "asking" /\ tool'[AskOf[d]] = "waiting",
         \/ status'[d] = status[d]
         \/ status[d] = "pending" /\ status'[d] \in {"answered", "dismissed"}
  PROVE  NotingOf(d, tool[AskOf[d]])'
<1> DEFINE a == AskOf[d]
<1>1. /\ tool'[a] # "waiting" => heard'[d] = heard[d] /\ (a \in woken' <=> a \in woken)
      /\ tool'[a] = "waiting" => heard'[d] = Noted(heard[d], status'[d])
      /\ a \in woken' => a \in woken \/ heard'[d] # "none"
  BY ListenersNote
<1>2. /\ heard[d] \in {"none", "answer", "empty"}
      /\ Noted(heard[d], status'[d]) = "answer" => heard[d] = "answer" \/ status'[d] = "answered"
      /\ Noted(heard[d], status'[d]) = "empty" =>
           heard[d] = "empty" \/ status'[d] \in {"dismissed", "consumed"}
      /\ heard[d] # "none" => Noted(heard[d], status'[d]) = heard[d]
  BY NotedSays DEF AnswersTyped
<1>3. status[d] \in {"none", "pending", "answered", "consumed", "dismissed"}
  BY DEF AnswersTyped
<1> QED BY <1>1, <1>2, <1>3 DEF NotingOf

LEMMA NextAnswersInv == AnswersInv /\ [DecisionsNext]_decisionVars => AnswersInv'
<1> SUFFICES ASSUME AnswersInv, [DecisionsNext]_decisionVars PROVE AnswersInv'
  OBVIOUS
<1> USE DEF AnswersInv, AnswersTyped, Noting, NotingOf, Delivering
<1>1. ASSUME NEW d \in Decs, Parks(d) PROVE AnswersInv'
  BY <1>1 DEF Parks
<1>2. ASSUME NEW d \in Decs, AsksQuestion(d) PROVE AnswersInv'
  BY <1>2 DEF AsksQuestion
<1>3. ASSUME NEW d \in Decs, AskFails(d) PROVE AnswersInv'
  BY <1>3 DEF AskFails, Withdrawn, Of
<1>4. ASSUME NEW a \in Asks, Waits(a) PROVE AnswersInv'
  <2>1. /\ status' = status /\ result' = result /\ injected' = injected
        /\ tool' = [tool EXCEPT ![a] = "waiting"] /\ tool[a] = "asking"
        /\ Listeners(status, tool')
    BY <1>4 DEF Waits, FirstLook, Asked
  <2>2. /\ heard' \in [Decs -> {"none", "answer", "empty"}] /\ woken' \subseteq Asks
    BY <2>1 DEF Listeners, Noted
  <2>3. ASSUME NEW e \in Decs, AskOf[e] \in Asks PROVE NotingOf(e, tool[AskOf[e]])'
    <3> HIDE DEF NotingOf
    <3>1. NotingOf(e, tool[AskOf[e]]) /\ AnswersTyped /\ Listeners(status', tool') /\ status'[e] = status[e]
      BY <2>1, <2>3
    <3>2. \/ tool'[AskOf[e]] = tool[AskOf[e]]
          \/ tool[AskOf[e]] = "asking" /\ tool'[AskOf[e]] = "waiting"
      BY <2>1, <2>3
    <3> QED BY <2>3, <3>1, <3>2, ListenersKeep
  <2>4. Noting'
    <3> HIDE DEF NotingOf
    <3> QED BY <2>3
  <2> QED BY <2>1, <2>2, <2>4
<1>5. ASSUME NEW a \in Asks, Continues(a) PROVE AnswersInv'
  BY <1>5 DEF Continues, AutoLeaves, Asked
<1>6. ASSUME NEW d \in Decs, NEW st \in {"answered", "dismissed"}, Acts(d, st) PROVE AnswersInv'
  <2>1. /\ tool' = tool /\ result' = result /\ injected' = injected
        /\ status' = [status EXCEPT ![d] = st] /\ status[d] = "pending"
        /\ Listeners(status', tool)
    BY <1>6 DEF Acts
  <2>2. /\ heard' \in [Decs -> {"none", "answer", "empty"}] /\ woken' \subseteq Asks
    BY <2>1 DEF Listeners, Noted
  <2>3. ASSUME NEW e \in Decs, AskOf[e] \in Asks PROVE NotingOf(e, tool[AskOf[e]])'
    <3> HIDE DEF NotingOf
    <3>1. /\ NotingOf(e, tool[AskOf[e]]) /\ AnswersTyped /\ Listeners(status', tool')
          /\ tool'[AskOf[e]] = tool[AskOf[e]]
      BY <2>1, <2>3
    <3>2. \/ status'[e] = status[e]
          \/ status[e] = "pending" /\ status'[e] \in {"answered", "dismissed"}
      BY <2>1, <2>3
    <3> QED BY <2>3, <3>1, <3>2, ListenersKeep
  <2>4. Noting'
    <3> HIDE DEF NotingOf
    <3> QED BY <2>3
  <2>5. Delivering'
    BY <2>1
  <2> QED BY <2>1, <2>2, <2>4, <2>5
<1>7. ASSUME NEW a \in Asks, Returns(a) PROVE AnswersInv'
  BY <1>7 DEF Returns, Delivered, Consumed, Of
<1>8. ASSUME NEW a \in Asks, Interrupts(a) PROVE AnswersInv'
  BY <1>8 DEF Interrupts, Consumed, Of
<1>9. CASE Boundary
  BY <1>9 DEF Boundary, AtBoundary
<1>10. CASE Idle \/ UNCHANGED decisionVars
  BY <1>10 DEF Idle, decisionVars
<1> QED
  BY <1>1, <1>2, <1>3, <1>4, <1>5, <1>6, <1>7, <1>8, <1>9, <1>10 DEF DecisionsNext, Answers, Dismisses

LEMMA AlwaysAnswersInv == DecisionsSpec => []AnswersInv
  BY InitAnswersInv, NextAnswersInv, PTL DEF DecisionsSpec

\* Every answer reaches the model at most once, in the tool's result or at a
\* step boundary (QuestionTool.execute, NeedsYouQueue.consume_answered).
THEOREM AnswersOnce == DecisionsSpec => []DeliveredOnce
<1>1. AnswersInv => DeliveredOnce
  BY DEF AnswersInv, AnswersTyped, Delivering, DeliveredOnce
<1> QED BY <1>1, AlwaysAnswersInv, PTL

\* A tool result says of each question what the user made of it.
THEOREM TrueResults == DecisionsSpec => []ResultsAreTrue
<1>1. AnswersInv => ResultsAreTrue
  BY DEF AnswersInv, Delivering, ResultsAreTrue
<1> QED BY <1>1, AlwaysAnswersInv, PTL

\* An answer that is gone from the queue was delivered, unless the execution
\* that asked was interrupted.
THEOREM NothingLost == DecisionsSpec => []AnswerNotLost
<1>1. AnswersInv => AnswerNotLost
  BY DEF AnswersInv, AnswersTyped, Delivering, AnswerNotLost
<1> QED BY <1>1, AlwaysAnswersInv, PTL

\* An answer reaches the model once: neither twice nor, without an interrupt, never.
THEOREM ReachesOnce == DecisionsSpec => []ReachedOnce
<1>1. DeliveredOnce /\ AnswerNotLost => ReachedOnce
  BY DEF ReachedOnce
<1> QED BY <1>1, AnswersOnce, NothingLost, PTL

-----------------------------------------------------------------------------

\* The queue holds finitely many decisions, no more than it has room for.
Bounded == IsFiniteSet(Active) /\ Cardinality(Active) <= Cap

LEMMA InitBounded == DecisionsInit => Bounded
<1> SUFFICES ASSUME DecisionsInit PROVE Bounded
  OBVIOUS
<1>1. Active = {}
  BY DEF DecisionsInit, Active
<1> QED BY <1>1, FS_EmptySet DEF Bounded

\* Only a decision put where there is room makes the queue longer.
LEMMA NextBounded == AnswersTyped /\ Bounded /\ [DecisionsNext]_decisionVars => Bounded'
<1> SUFFICES ASSUME AnswersTyped, Bounded, [DecisionsNext]_decisionVars PROVE Bounded'
  OBVIOUS
<1>1. ASSUME Active' \subseteq Active PROVE Bounded'
  <2>1. IsFiniteSet(Active') /\ Cardinality(Active') <= Cardinality(Active)
    BY <1>1, FS_Subset DEF Bounded
  <2>2. Cardinality(Active) \in Nat /\ Cardinality(Active') \in Nat
    BY <2>1, FS_CardinalityType DEF Bounded
  <2> QED BY <2>1, <2>2 DEF Bounded
<1>2. ASSUME NEW d \in Decs, Parks(d) \/ AsksQuestion(d) PROVE Bounded'
  <2>1. Active' = Active \cup {d} /\ d \notin Active /\ Cardinality(Active) < Cap
    BY <1>2 DEF Parks, AsksQuestion, Active, AnswersTyped
  <2>2. IsFiniteSet(Active') /\ Cardinality(Active') = Cardinality(Active) + 1
    BY <2>1, FS_AddElement DEF Bounded
  <2>3. Cardinality(Active) \in Nat
    BY FS_CardinalityType DEF Bounded
  <2> QED BY <2>1, <2>2, <2>3 DEF Bounded
<1> USE DEF Active, AnswersTyped
<1>3. ASSUME NEW d \in Decs, AskFails(d) \/ Answers(d) \/ Dismisses(d) PROVE Bounded'
  BY <1>1, <1>3 DEF AskFails, Withdrawn, Of, Answers, Dismisses, Acts
<1>4. ASSUME NEW a \in Asks, Waits(a) \/ Continues(a) \/ Returns(a) \/ Interrupts(a)
      PROVE  Bounded'
  BY <1>1, <1>4 DEF Waits, Continues, AutoLeaves, Returns, Delivered, Interrupts, Consumed, Of
<1>5. CASE Boundary
  BY <1>1, <1>5 DEF Boundary
<1>6. CASE Idle \/ UNCHANGED decisionVars
  BY <1>1, <1>6 DEF Idle, decisionVars
<1> QED BY <1>2, <1>3, <1>4, <1>5, <1>6 DEF DecisionsNext

\* A result names a decision and what was noted of it before the tool woke.
ResultTyped == result \subseteq Decs \X {"answer", "empty"}

LEMMA NextResultTyped == AnswersInv /\ ResultTyped /\ [DecisionsNext]_decisionVars => ResultTyped'
<1> SUFFICES ASSUME AnswersInv, ResultTyped, [DecisionsNext]_decisionVars PROVE ResultTyped'
  OBVIOUS
<1>1. ASSUME NEW a \in Asks, Returns(a) PROVE ResultTyped'
  <2>1. \A d \in Of(a) : heard[d] \in {"answer", "empty"} /\ d \in Decs
    BY <1>1 DEF AnswersInv, AnswersTyped, Noting, NotingOf, Returns, Of
  <2> QED BY <1>1, <2>1 DEF Returns, ResultTyped
<1>2. ASSUME ~\E a \in Asks : Returns(a) PROVE result' = result
  BY <1>2 DEF DecisionsNext, decisionVars, Parks, AsksQuestion, AskFails, Answers, Dismisses, Acts, Waits,
              Continues, Interrupts, Boundary, Idle
<1> QED BY <1>1, <1>2 DEF ResultTyped

\* The queue never holds more decisions than it has room for, and a tool result
\* reports a question as the user left it (NeedsYouQueue.add, QuestionTool.execute).
THEOREM SoundResults == DecisionsSpec => []ResultsSound
<1>1. DecisionsInit => ResultTyped
  BY DEF DecisionsInit, ResultTyped
<1>2. AnswersInv => AnswersTyped
  BY DEF AnswersInv
<1>3. AnswersInv /\ Bounded /\ ResultTyped => DecisionsTypeOK
  BY DEF AnswersInv, AnswersTyped, Bounded, ResultTyped, DecisionsTypeOK
<1>4. DecisionsTypeOK /\ ResultsAreTrue => ResultsSound
  BY DEF ResultsSound
<1> QED
  BY <1>1, <1>2, <1>3, <1>4, InitBounded, NextBounded, NextResultTyped, AlwaysAnswersInv, TrueResults, PTL
  DEF DecisionsSpec
=============================================================================
