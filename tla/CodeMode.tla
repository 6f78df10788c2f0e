-------------------------------- MODULE CodeMode --------------------------------
(***************************************************************************)
(* A program of the model that calls tools (kernel/codemode.py, and        *)
(* model/codemode.py).  It runs in a process of its own; a thread of the   *)
(* host reads its calls from a pipe, invokes the tools and answers; the    *)
(* caller waits for the thread, with or without a limit of time, kills the *)
(* process when it is over, and reports which calls there were.  What the  *)
(* process wrote before it was killed can still be read.                   *)
(*                                                                         *)
(* The model is told of the tools in a catalog of limited size, in turns   *)
(* over the namespaces.  What programs and tools compute is left out.      *)
(***************************************************************************)
EXTENDS Naturals, Sequences, FiniteSets, FiniteSetsExt, SequencesExt

CONSTANTS
  MostCalls,   \* bound on the calls a program makes
  Limits,      \* [calls, time]: calls may be Unlimited, time is whether there is a limit
  Unlimited,
  Offers       \* catalogs: [tools, budget], namespace -> costs of its tools

CodeAssumption ==
  /\ MostCalls \in Nat
  /\ \A l \in Limits : l.calls \in Nat \cup {Unlimited} /\ l.time \in BOOLEAN
  /\ \A o \in Offers : o.budget \in Nat /\ \A ns \in DOMAIN o.tools : o.tools[ns] \in Seq(Nat \ {0})

VARIABLES
  limits,     \* of this run
  child,      \* the process: off, computes, awaits an answer, returned its value, dead
  pipe,       \* what it wrote and nobody read
  thread,     \* off, reads, invokes, ended
  caller,     \* waits, kills, waits again, returned
  invoked,    \* tools that were invoked
  listed,     \* the thread's list of calls
  partial,    \* how many the thread had noted for a caller that gives up
  verdict,    \* the result the thread left
  report,     \* what the caller returned
  late,       \* ghost: invocations begun after the kill
  offer, shown, left, turn  \* catalog: what there is, tools shown, budget left, who is next
vars == <<limits, child, pipe, thread, caller, invoked, listed, partial, verdict, report, late,
          offer, shown, left, turn>>
Catalog == <<offer, shown, left, turn>>

NoReport == [is |-> "none", calls |-> << >>]
Init ==
  /\ limits \in Limits
  /\ child = "off" /\ pipe = << >> /\ thread = "off" /\ caller = "off"
  /\ invoked = 0 /\ listed = << >> /\ partial = 0
  /\ verdict = NoReport /\ report = NoReport /\ late = 0
  /\ offer \in Offers
  /\ shown = [ns \in DOMAIN offer.tools |-> 0]
  /\ left = offer.budget
  /\ turn = DOMAIN offer.tools

-----------------------------------------------------------------------------
(***************************************************************************)
(* The process.                                                            *)
(***************************************************************************)

\* run: the program is refused (audit_program), cannot be started, or runs.
Begin ==
  /\ caller = "off"
  /\ \/ /\ caller' = "returned" /\ report' = [is |-> "refused", calls |-> << >>]
        /\ UNCHANGED <<child, thread>>
     \/ caller' = "waits" /\ child' = "computes" /\ thread' = "reads" /\ UNCHANGED report
  /\ UNCHANGED <<limits, pipe, invoked, listed, partial, verdict, late, Catalog>>

\* A call of a tool; the end of the program, with its value or an error; the end of the process.
\* It may as well compute for ever.
CallsTool ==
  /\ child = "computes" /\ invoked + Len(pipe) < MostCalls
  /\ child' = "awaits" /\ pipe' = Append(pipe, "call")
  /\ UNCHANGED <<limits, thread, caller, invoked, listed, partial, verdict, report, late, Catalog>>
Returns ==
  /\ child = "computes"
  /\ \E how \in {"ok", "failed"} : pipe' = Append(pipe, how)
  /\ child' = "done"
  /\ UNCHANGED <<limits, thread, caller, invoked, listed, partial, verdict, report, late, Catalog>>
Dies ==
  /\ child \in {"computes", "awaits", "done"} /\ child' = "dead"
  /\ UNCHANGED <<limits, pipe, thread, caller, invoked, listed, partial, verdict, report, late, Catalog>>

-----------------------------------------------------------------------------
(***************************************************************************)
(* The thread.                                                             *)
(***************************************************************************)

\* The thread ends with a result, and kills the process.
Ends(result) ==
  /\ thread' = "ended" /\ verdict' = result
  /\ child' = "dead"
\* Mutant: the refused call counts as made.
OverCounting == Len(listed) > limits.calls
OverLimit == Len(listed) >= limits.calls
\* _serve, and _handle_call up to the invocation.
Reads ==
  /\ thread = "reads" /\ pipe # << >>
  /\ pipe' = Tail(pipe) /\ partial' = Len(listed)
  /\ CASE Head(pipe) # "call" ->
            /\ Ends([is |-> Head(pipe), calls |-> listed])
            /\ UNCHANGED <<invoked, listed, late>>
       [] Head(pipe) = "call" /\ limits.calls # Unlimited /\ OverLimit ->
            /\ listed' = Append(listed, "error")
            /\ Ends([is |-> "limit", calls |-> listed'])
            /\ UNCHANGED <<invoked, late>>
       [] OTHER ->
            /\ thread' = "invokes" /\ invoked' = invoked + 1
            /\ late' = IF caller \in {"waits again", "returned"} THEN late + 1 ELSE late
            /\ UNCHANGED <<child, listed, verdict>>
  /\ UNCHANGED <<limits, caller, report, Catalog>>
\* The pipe is at its end.
ReadsNothing ==
  /\ thread = "reads" /\ pipe = << >> /\ child = "dead"
  /\ Ends([is |-> "broken", calls |-> listed])
  /\ UNCHANGED <<limits, pipe, caller, invoked, listed, partial, report, late, Catalog>>
\* The tool answers, or refuses, or raises, or returns what cannot be sent; the answer to a dead
\* process fails.
Invoked ==
  /\ thread = "invokes"
  /\ \E status \in {"completed", "error"} : listed' = Append(listed, status)
  /\ IF child = "dead"
     THEN Ends([is |-> "broken", calls |-> listed'])
     ELSE thread' = "reads" /\ child' = "computes" /\ UNCHANGED verdict
  /\ UNCHANGED <<limits, pipe, caller, invoked, partial, report, late, Catalog>>

-----------------------------------------------------------------------------
(***************************************************************************)
(* The caller.                                                             *)
(***************************************************************************)

\* What is returned when the thread ended by itself.
Result == IF verdict = NoReport THEN [is |-> "empty", calls |-> << >>] ELSE verdict
Joined ==
  /\ caller = "waits" /\ thread = "ended"
  /\ caller' = "returned" /\ report' = Result
  /\ UNCHANGED <<limits, child, pipe, thread, invoked, listed, partial, verdict, late, Catalog>>
TimesOut ==
  /\ caller = "waits" /\ thread # "ended" /\ limits.time
  /\ caller' = "kills"
  /\ UNCHANGED <<limits, child, pipe, thread, invoked, listed, partial, verdict, report, late, Catalog>>
\* Mutant: the process is left to the thread.
KillsNothing == caller' = "waits again" /\ UNCHANGED child
KillsChild == caller' = "waits again" /\ child' = "dead"
Kills ==
  /\ caller = "kills" /\ KillsChild
  /\ UNCHANGED <<limits, pipe, thread, invoked, listed, partial, verdict, report, late, Catalog>>
\* Mutant: all that the program asked for is reported.
AsAsked == [i \in 1..invoked |-> "completed"]
\* What the thread noted before the message it handles, or handled last.
Noted == SubSeq(listed, 1, partial)
\* After two seconds, whether the thread has ended or not.
GivesUp ==
  /\ caller = "waits again"
  /\ caller' = "returned" /\ report' = [is |-> "timeout", calls |-> Noted]
  /\ UNCHANGED <<limits, child, pipe, thread, invoked, listed, partial, verdict, late, Catalog>>

-----------------------------------------------------------------------------
(***************************************************************************)
(* The catalog: render_instructions.                                       *)
(***************************************************************************)

\* The cheapest tools come first.
Costs(ns) == SortSeq(offer.tools[ns], LAMBDA a, b : a < b)
Unshown(ns) == SubSeq(Costs(ns), shown[ns] + 1, Len(Costs(ns)))
\* One tool of a namespace; who is done or whose next does not fit drops out.
Show(state, ns) ==
  LET rest == SubSeq(Costs(ns), state.shown[ns] + 1, Len(Costs(ns)))
  IN IF rest # << >> /\ Head(rest) <= state.left
     THEN [shown |-> [state.shown EXCEPT ![ns] = @ + 1], left |-> state.left - Head(rest),
           turn |-> IF Len(rest) > 1 THEN state.turn \cup {ns} ELSE state.turn]
     ELSE state
\* Mutant: two at once.
ShowTwo(state, ns) == Show(Show(state, ns), ns)
ShowOne(state, ns) == Show(state, ns)
\* A round over the namespaces that still take part, in their order.
AfterRound ==
  FoldLeft(ShowOne, [shown |-> shown, left |-> left, turn |-> {}], SetToSortSeq(turn, <))
ShowRound ==
  /\ turn # {} /\ caller = "off"
  /\ shown' = AfterRound.shown /\ left' = AfterRound.left /\ turn' = AfterRound.turn
  /\ UNCHANGED <<limits, child, pipe, thread, caller, invoked, listed, partial, verdict, report,
                 late, offer>>

Next ==
  \/ turn = {} /\ Begin
  \/ CallsTool \/ Returns \/ Dies \/ Reads \/ ReadsNothing \/ Invoked
  \/ Joined \/ TimesOut \/ Kills \/ GivesUp \/ ShowRound

Spec == Init /\ [][Next]_vars

-----------------------------------------------------------------------------
(***************************************************************************)
(* Properties.                                                             *)
(***************************************************************************)

\* The report has the calls that were made, in their order and with what came of them; when time
\* ran out it may miss the latest, and two where one more began after the kill.
CallsReported ==
  caller = "returned" =>
    /\ report.is # "empty"
    /\ report.is = "timeout" => /\ IsPrefix(report.calls, listed)
                                /\ invoked - late <= Len(report.calls) + 1
    /\ report.is \notin {"timeout", "refused"} => report.calls = listed

\* No more tools are invoked than the limit allows, and after the caller killed the process at
\* most one more, whose call was in the pipe.
LimitKept ==
  /\ limits.calls # Unlimited => invoked <= limits.calls
  /\ late <= 1

\* Nothing runs on for a caller that has its answer, and a program that is reported to have
\* succeeded has been answered on every call.
ProcessGone ==
  caller = "returned" =>
    /\ child \in {"off", "dead"}
    /\ report.is = "ok" => Len(report.calls) = invoked

\* What the catalog leaves out costs more than what is left of its budget, and a namespace
\* shows less than another only if it has no more, or its next tool did not fit before the
\* other's further ones.
Sum(costs) == FoldLeft(LAMBDA a, b : a + b, 0, costs)
CatalogFair ==
  /\ MapThenSumSet(LAMBDA ns : Sum(SubSeq(Costs(ns), 1, shown[ns])), DOMAIN shown) + left = offer.budget
  /\ turn = {} => \A ns \in DOMAIN shown : Unshown(ns) # << >> => Head(Unshown(ns)) > left
  /\ \A a, b \in DOMAIN shown :
       shown[a] + 1 < shown[b] =>
         Unshown(a) = << >> \/ Head(Unshown(a)) > left + Sum(SubSeq(Costs(b), shown[a] + 2, shown[b]))

CodeSound == CallsReported /\ LimitKept /\ ProcessGone /\ CatalogFair
=============================================================================
