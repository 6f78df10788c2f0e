------------------------------ MODULE EventStream ------------------------------
(***************************************************************************)
(* The events of a session and what it costs.  Every hook of the engine is *)
(* normalized and emitted (kernel/queue_bridge.py): appended to the        *)
(* session's ledger, and queued for the pump of the serve loop, which      *)
(* writes it to the client and meters the root's responses                 *)
(* (kernel/context_meter.py over kernel/cost.py).  A client that attaches  *)
(* late has the ledger replayed, and what is replayed and also queued must *)
(* not come again.  A resumed session takes its cost so far from the       *)
(* ledger; kernel/stats.py adds up the same ledgers by a way of its own.   *)
(*                                                                         *)
(* A streaming orchestrator puts the usage of a response on each of its    *)
(* blocks, with the cost or without and never with a model; another one    *)
(* reports it by itself, with the model and without a cost.  The sessions  *)
(* of one behaviour use one kind.  The append of a record may fail.        *)
(***************************************************************************)
EXTENDS Naturals, Sequences, FiniteSets, SequencesExt

CONSTANTS
  Root, Kids,   \* the session and its children
  Blocks,       \* blocks of a response
  Page,         \* records of a page of the ledger
  Budgets       \* bounds a behaviour may have: on the events emitted, the replays asked for, the
                \* processes that open the session and the appends that fail, and which of the
                \* sessions, kinds of price and notes it has

Streamed == {"given", "blank"}
Prices == Streamed \cup {"listed", "new"}
Notes == {"piece", "compacted"}
StreamAssumption ==
  /\ Root \notin Kids /\ Blocks \in Nat \ {0} /\ Page \in Nat \ {0}
  /\ \A b \in Budgets : {b.events, b.replays, b.runs, b.fails} \subseteq Nat /\ b.prices \subseteq Prices
                       /\ Root \in b.who /\ b.who \subseteq {Root} \cup Kids /\ b.notes \subseteq Notes

VARIABLES
  ledger,    \* ui-events.jsonl
  feed,      \* the queue between the bridge and the pump
  open,      \* session -> the response it streams: blocks left, number
  price,     \* of every response, which tells how its usage is reported
  prices,    \* the active table of prices
  meter,     \* the cost tracker, what it recorded, and the response the context is measured by
  muted,     \* the root's responses that were not metered
  view,      \* what the client has: ids, those that came twice, its cursor in the ledger
  hush,      \* the part of the queue that may hold what was replayed, and which ids those are
  run,       \* the process: whether it is there, records there were when it began
  budget,    \* the bounds of the behaviour
  spent      \* what it used of them
streamVars == <<ledger, feed, open, price, prices, meter, muted, view, hush, run, budget, spent>>

NoHush == [left |-> 0, ids |-> {}]
NoView == [got |-> {}, twice |-> {}, cursor |-> 0, whole |-> TRUE, paged |-> FALSE]
Quiet == [left |-> 0, is |-> 0]
IdsOf(records) == {records[i].id : i \in DOMAIN records}

-----------------------------------------------------------------------------
(***************************************************************************)
(* What a response costs.                                                  *)
(***************************************************************************)

\* cost_of: the provider's own figure, else the table's for the model, else none.
Priced(p, table) == p \in {"given", "listed"} \/ (p = "new" /\ table = "live")
Cost(p, table) ==
  IF ~Priced(p, table) THEN 0 ELSE IF p = "listed" /\ table = "live" THEN 3 ELSE 2
Bundled(p) == Cost(p, "bundled")

\* sum_prior_cost: a usage counts when what follows shows that it was its response's last, and
\* a last block counts for a usage that is missing.
Prior(records) ==
  LET Read(acc, e) ==
        CASE e.kind = "usage" -> [sum |-> acc.sum + Bundled(acc.pending), pending |-> e.price]
          [] e.kind = "block" ->
               [sum |-> acc.sum + (IF e.last
                                   THEN Bundled(IF acc.pending = "none" THEN e.price ELSE acc.pending)
                                   ELSE 0),
                pending |-> "none"]
          [] OTHER -> [sum |-> acc.sum + Bundled(acc.pending), pending |-> "none"]
      end == FoldLeft(Read, [sum |-> 0, pending |-> "none"], records)
  IN end.sum + Bundled(end.pending)

\* aggregate: every usage record.
Total(records) ==
  FoldLeft(LAMBDA sum, e : sum + (IF e.kind = "usage" THEN Bundled(e.price) ELSE 0), 0, records)

NoMeter == [seed |-> 0, sum |-> 0, unpriced |-> 0, ids |-> {}, context |-> 0]
\* ContextMeter.record and CostTracker.record.
Recorded(e) ==
  [meter EXCEPT !.sum = @ + Cost(e.price, prices),
                !.unpriced = @ + (IF Priced(e.price, prices) THEN 0 ELSE 1),
                !.ids = @ \cup {e.id}, !.context = e.id]

-----------------------------------------------------------------------------
\* A session of an earlier release left one response with the usage before each of two blocks.
Earlier ==
  LET Of(kind, id, last) ==
        [kind |-> kind, id |-> id, who |-> Root, price |-> "given", last |-> last, is |-> 0]
  IN <<Of("usage", 1, FALSE), Of("block", 2, FALSE), Of("usage", 3, FALSE), Of("block", 4, TRUE)>>

Init ==
  /\ budget \in Budgets /\ price \in budget.prices
  /\ ledger \in {<< >>} \cup (IF price = "given" THEN {Earlier} ELSE {})
  /\ feed = << >> /\ open = [s \in budget.who |-> Quiet]
  /\ prices = "bundled"
  /\ meter = [NoMeter EXCEPT !.seed = Prior(ledger)]
  /\ muted = {} /\ view = NoView /\ hush = NoHush
  /\ run = [up |-> TRUE, base |-> Len(ledger)]
  /\ spent = [events |-> 0, replays |-> 0, runs |-> 1, fails |-> 0]

\* _tap: the pieces of a stream are not kept.
Durable(events) == SelectSeq(events, LAMBDA e : e.kind # "piece")
Event(s, kind, n) ==
  [kind |-> kind, id |-> 4 + spent.events + n, who |-> s, price |-> "none", last |-> FALSE, is |-> 0]

Killed ==
  /\ run' = [run EXCEPT !.up = FALSE]
  /\ feed' = << >> /\ open' = [s \in DOMAIN open |-> Quiet]
  /\ meter' = NoMeter /\ muted' = {} /\ view' = NoView /\ hush' = NoHush /\ prices' = "bundled"

\* emit: the ledger, then the queue, one event after another; the process may be killed in
\* between, and an append may fail, which is logged.
Emit(events) ==
  /\ run.up /\ spent.events + Len(events) <= budget.events
  /\ \/ /\ ledger' = ledger \o Durable(events)
        /\ feed' = feed \o events
        /\ spent' = [spent EXCEPT !.events = @ + Len(events)]
     \/ \E i \in DOMAIN events :
          /\ spent.fails < budget.fails /\ events[i].price # "none"
          /\ ledger' = ledger \o RemoveAt(events, i)
          /\ feed' = feed \o events
          /\ spent' = [spent EXCEPT !.events = @ + Len(events), !.fails = @ + 1]
  /\ UNCHANGED <<price, prices, meter, muted, view, hush, budget>>
EmitCut(events) ==
  /\ run.up /\ Len(events) = 2 /\ spent.events + 2 <= budget.events
  /\ ledger' = Append(ledger, Head(events))
  /\ spent' = [spent EXCEPT !.events = @ + 2]
  /\ Killed /\ UNCHANGED <<price, budget>>

\* What is no response: a piece of one, and the compaction of the root's context.
Note(kind) == Emit(<<Event(Root, kind, 1)>>) /\ UNCHANGED <<run, open>>

\* A response begins to stream.
Begin(s) ==
  /\ run.up /\ price \in Streamed /\ open[s] = Quiet /\ spent.events + Blocks < budget.events
  /\ open' = [open EXCEPT ![s] = [left |-> Blocks, is |-> 1 + Cardinality({t \in DOMAIN open : open[t].is > 0})
                                                             + spent.events]]
  /\ UNCHANGED <<ledger, feed, price, prices, meter, muted, view, hush, run, budget, spent>>
\* content_block:end; usage_from_content_block_end: the last block's usage comes before it.
Usage(s) == [Event(s, "usage", 1) EXCEPT !.price = price, !.is = open[s].is]
Block(s, n, last) ==
  [Event(s, "block", n) EXCEPT !.price = price, !.last = last, !.is = open[s].is]
\* Mutant: each block brings the usage of its response.
EachBlock(s) == <<Usage(s), Block(s, 2, open[s].left = 1)>>
Records(s) == IF open[s].left > 1 THEN <<Block(s, 1, FALSE)>> ELSE <<Usage(s), Block(s, 2, TRUE)>>
BlockEnds(s) ==
  /\ open[s].left > 0
  /\ \/ /\ Emit(Records(s))
        /\ open' = [open EXCEPT ![s] = IF @.left = 1 THEN Quiet ELSE [@ EXCEPT !.left = @ - 1]]
        /\ UNCHANGED run
     \/ EmitCut(Records(s))
\* provider:response.
Respond(s) ==
  /\ price \notin Streamed
  /\ Emit(<<[Event(s, "usage", 1) EXCEPT !.price = price, !.is = spent.events + 1]>>)
  /\ UNCHANGED <<run, open>>

\* The thread of start_live_pricing has fetched the prices; they matter to responses with a model.
Reprice ==
  /\ run.up /\ price \notin Streamed /\ prices = "bundled" /\ prices' = "live"
  /\ UNCHANGED <<ledger, feed, open, price, meter, muted, view, hush, run, budget, spent>>

-----------------------------------------------------------------------------
(***************************************************************************)
(* The client.                                                             *)
(***************************************************************************)

Hushed(e) == hush.left > 0 /\ e.id \in hush.ids
OfRoot(e) == e.who = Root
Received(ids) == [view EXCEPT !.got = @ \cup ids, !.twice = @ \cup (ids \cap view.got)]

\* _pump: one event; only the root's usage is metered, and only if the event is shown.
Pump ==
  /\ run.up /\ feed # << >>
  /\ LET e == Head(feed)
     IN /\ view' = IF Hushed(e) THEN view ELSE Received({e.id})
        /\ meter' = IF Hushed(e) \/ ~OfRoot(e) THEN meter
                    ELSE CASE e.kind = "usage" -> Recorded(e)
                           [] e.kind = "compacted" -> [meter EXCEPT !.context = e.id]
                           [] OTHER -> meter
        /\ muted' = IF Hushed(e) /\ OfRoot(e) /\ e.kind = "usage" THEN muted \cup {e.id} ELSE muted
  /\ hush' = IF hush.left <= 1 THEN NoHush ELSE [hush EXCEPT !.left = @ - 1]
  /\ feed' = Tail(feed)
  /\ UNCHANGED <<ledger, open, price, prices, run, budget, spent>>

\* Mutant: the page's beginning is taken for its end.
MarkFirst(page) == {page[i].id : i \in {j \in DOMAIN page : j <= Len(feed)}}
\* history.replay, from the start or the client's cursor, of everything or a page: of the queue
\* as it is now, what was just replayed is not shown again.
Mark(page) == {page[i].id : i \in {j \in DOMAIN page : j > Len(page) - Len(feed)}}
Replay(since, limit) ==
  /\ run.up /\ spent.replays < budget.replays
  /\ LET to == IF limit > 0 THEN Min({since + limit, Len(ledger)}) ELSE Len(ledger)
         page == SubSeq(ledger, since + 1, to)
     IN /\ view' = [(IF since = 0 THEN [NoView EXCEPT !.got = IdsOf(page)] ELSE Received(IdsOf(page)))
                    EXCEPT !.cursor = to, !.whole = (to = Len(ledger)),
                           !.paged = (since > 0 \/ to < Len(ledger))]
        /\ hush' = [left |-> Len(feed), ids |-> Mark(page)]
  /\ spent' = [spent EXCEPT !.replays = @ + 1]
  /\ UNCHANGED <<ledger, feed, open, price, prices, meter, muted, run, budget>>

-----------------------------------------------------------------------------
Kill == run.up /\ Killed /\ UNCHANGED <<ledger, price, budget, spent>>
\* restore_session_cost: what the ledger holds, by the bundled prices.  Its first event follows.
Resume ==
  /\ ~run.up /\ spent.runs < budget.runs
  /\ run' = [up |-> TRUE, base |-> Len(ledger)]
  /\ ledger' = Append(ledger, Event(Root, "other", 1)) /\ feed' = <<Event(Root, "other", 1)>>
  /\ meter' = [NoMeter EXCEPT !.seed = Prior(ledger)]
  /\ spent' = [spent EXCEPT !.runs = @ + 1, !.events = @ + 1]
  /\ UNCHANGED <<open, price, prices, muted, view, hush, budget>>

Next ==
  \/ \E s \in DOMAIN open :
       Begin(s) \/ BlockEnds(s) \/ Respond(s)
  \/ \E kind \in budget.notes : Note(kind)
  \/ Reprice \/ Pump
  \/ Replay(0, 0) \/ (\E since \in {0, view.cursor} : Replay(since, Page))
  \/ Kill \/ Resume

Spec == Init /\ [][Next]_streamVars

-----------------------------------------------------------------------------
(***************************************************************************)
(* Properties.                                                             *)
(***************************************************************************)

\* What a resumed session has cost is each kept response once, however often its usage was
\* written, whichever children wrote between, and wherever the process before was killed.
Responses(records) == {records[i].is : i \in {j \in DOMAIN records : records[j].kind = "usage"}}
PriceOf(records, r) ==
  (CHOOSE e \in ToSet(records) : e.kind = "usage" /\ e.is = r).price
CostCarriesOver ==
  run.up /\ spent.fails = 0 =>
    LET before == SubSeq(ledger, 1, run.base)
    IN meter.seed = FoldSet(LAMBDA r, sum : sum + Bundled(PriceOf(before, r)), 0, Responses(before))

\* The statistics say what the meter of a resumed session would, for what this release wrote.
StatsAgree ==
  spent.fails = 0 /\ ~(ledger # << >> /\ ledger[1].kind = "usage" /\ ledger[1].is = 0) => Total(ledger) = Prior(ledger)

\* Every response of the root is metered once, by the prices that hold when it arrives, or is
\* still queued; what a replay brought instead is the known exception.
Waiting == {feed[i] : i \in DOMAIN feed}
MeterTrue ==
  run.up =>
    /\ spent.fails = 0 =>
         meter.ids \cup muted \cup {e.id : e \in {w \in Waiting : OfRoot(w) /\ w.kind = "usage"}}
           = {ledger[i].id : i \in {j \in DOMAIN ledger :
                j > run.base /\ ledger[j].kind = "usage" /\ OfRoot(ledger[j])}}
    /\ meter.ids \cap muted = {} /\ \A id \in meter.ids : id <= meter.context
    /\ prices = "bundled" /\ spent.fails = 0 =>
         meter.sum = FoldSet(LAMBDA id, sum : sum + Bundled((CHOOSE e \in ToSet(ledger) : e.id = id).price),
                             0, meter.ids)

\* A client that had everything replayed gets every event, once: nothing that was replayed comes
\* again, and nothing that was not is held back.
NothingMissing ==
  run.up =>
    \A i \in DOMAIN ledger :
      \/ ledger[i].id \in view.got
      \/ \E k \in DOMAIN feed : feed[k].id = ledger[i].id /\ ~(k <= hush.left /\ feed[k].id \in hush.ids)
      \/ ~view.whole /\ i > view.cursor
      \/ view.cursor = 0 /\ i <= run.base
NothingTwice == ~view.paged => view.twice = {}

StreamSound == CostCarriesOver /\ StatsAgree /\ MeterTrue /\ NothingMissing /\ NothingTwice
=============================================================================
