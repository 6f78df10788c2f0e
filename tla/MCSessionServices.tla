------------------------- MODULE MCSessionServices -------------------------
(***************************************************************************)
(* Small instances of the parts of the runtime beside each other.          *)
(***************************************************************************)
EXTENDS SessionServices, TLC

TwoNames == {<<"a">>, <<"a", "b">>}
\* Two notifications of one event, the second under a newer secret, and one of another.
Envelopes == "n1" :> "x" @@ "n2" :> "x" @@ "n3" :> "y"
Signed == "n1" :> 1 @@ "n2" :> 2 @@ "n3" :> 1

Two == <<"a", "b">>
Issued == {[store |-> "tokens", verb |-> "write", only |-> "any", lasting |-> TRUE],
           [store |-> "grants", verb |-> "read", only |-> "mine", lasting |-> FALSE],
           [store |-> "grants", verb |-> "read", only |-> "other", lasting |-> FALSE]}

\* Streams with replays, with children, restarts and every kind of price, and with a failed append.
Streamed ==
  LET none == [events |-> 4, replays |-> 0, runs |-> 1, fails |-> 0, prices |-> {"given"},
               who |-> {RootSession}, notes |-> {}]
  IN {[none EXCEPT !.replays = 2, !.notes = {"piece"}],
      [none EXCEPT !.events = 6, !.runs = 2, !.prices = Stream!Prices, !.who = {RootSession} \cup ChildSessions],
      [none EXCEPT !.fails = 1, !.notes = {"compacted"}]}

\* A name of one tool resembles the module of another.
Resembling == {<<"m", "n">>}
\* Starts of two processes, starts with bundles that come and go, a start with tools.
Starts ==
  LET one == [starts |-> 1, turns |-> 1, moves |-> 0, fails |-> 0, tools |-> {},
              wants |-> {"none"}, homes |-> {"old"}, serves |-> {FALSE}]
  IN {[one EXCEPT !.starts = 3, !.turns = 3, !.fails = 1, !.homes = Start!Projects,
                  !.serves = BOOLEAN],
      [one EXCEPT !.starts = 2, !.turns = 2, !.moves = 1, !.wants = {"none", "active"}],
      [one EXCEPT !.tools = Tools]}

\* Two bundles that share a module.
Mounts == "u" :> <<"x", "y">> @@ "v" :> <<"y">>
\* Two loads and a cancellation; a load and a context that is compacted; a load after an edit of
\* the settings; edits.
Loads ==
  LET none == [loads |-> 0, cuts |-> 0, losses |-> 0, edits |-> 0]
  IN {[none EXCEPT !.loads = 2, !.cuts = 1], [none EXCEPT !.loads = 1, !.losses = 1],
      [none EXCEPT !.loads = 1, !.edits = 1], [none EXCEPT !.edits = 3]}

ProgramLimits ==
  {[calls |-> Unlimited, time |-> TRUE], [calls |-> 2, time |-> TRUE],
   [calls |-> 1, time |-> FALSE], [calls |-> 0, time |-> TRUE]}
\* Three namespaces, under every budget up to one that all but suffices; no namespace.
Catalogs ==
  {[tools |-> <<<<1, 2>>, <<3>>, <<2, 2, 1>>>>, budget |-> b] : b \in 0 .. 6}
  \cup {[tools |-> << >>, budget |-> 1]}

\* The names of two instances lead to one variable.
Suggested == "m" :> "T" @@ "a" :> "I" @@ "b" :> "I"
\* Terminals that add, set, unset and export keys, one that is killed, and ones that install a
\* provider's module, that has a defect or is not there, and check it.
Wizards ==
  LET none == [adds |-> 0, sets |-> 0, unsets |-> 0, hands |-> 0, kills |-> 0, checks |-> 0,
               installs |-> 0]
      Of(most, own, defect, cloned) ==
        [most |-> most, exports |-> own, defect |-> defect, clone |-> cloned]
  IN {Of([none EXCEPT !.adds = 1, !.sets = 1, !.unsets = 1], {}, FALSE, TRUE),
      Of([none EXCEPT !.adds = 1, !.sets = 1, !.kills = 1], {}, FALSE, TRUE),
      Of([none EXCEPT !.adds = 2, !.unsets = 1], {}, FALSE, TRUE),
      Of([none EXCEPT !.sets = 1, !.hands = 1, !.checks = 1], {1}, FALSE, TRUE),
      Of([none EXCEPT !.sets = 1, !.installs = 1, !.checks = 1], {9}, FALSE, TRUE),
      Of([none EXCEPT !.adds = 1, !.checks = 1], {1}, TRUE, TRUE),
      Of([none EXCEPT !.installs = 3, !.checks = 1], {1}, FALSE, FALSE)}

\* Three sub-sessions one below the other, and one whose mask is the first one's.
Parents == "a" :> RootSession @@ "b" :> "a" @@ "c" :> "b" @@ "d" :> RootSession
Redacted == "a" :> "m" @@ "b" :> "n" @@ "c" :> "o" @@ "d" :> "m"
\* Parent and child; two with one mask; one that is resumed; three under their own names.
Spawns ==
  LET none == [who |-> {"a", "b"}, masked |-> TRUE, resumes |-> 0, binds |-> 0, pins |-> 0]
  IN {[none EXCEPT !.binds = 1], [none EXCEPT !.who = {"a", "d"}, !.binds = 1],
      [none EXCEPT !.who = {"a", "d"}, !.pins = 1],
      [none EXCEPT !.who = {"a"}, !.resumes = 2, !.binds = 2, !.pins = 1],
      [none EXCEPT !.who = {"a", "b", "c"}, !.masked = FALSE]}

\* Two views of one session and one of another, which may take the ports of the first.
Homes == "v" :> "s" @@ "w" :> "s" @@ "x" :> "t"
\* A bridge looks while views come and go, one is started again, one is killed, or a listener
\* does not answer at once; two are killed.
Listened ==
  LET none == [who |-> {"v", "w"}, restarts |-> 0, kills |-> 0, busy |-> 0, fails |-> 0, looks |-> 1]
  IN {[none EXCEPT !.restarts = 1], [none EXCEPT !.kills = 1, !.fails = 1], [none EXCEPT !.busy = 1],
      [none EXCEPT !.who = {"v", "w", "x"}, !.kills = 2, !.looks = 0]}

\* The same two values stand for the concurrent actors of every part that has some.
Interchangeable == Permutations(Handlers)
=============================================================================
