-------------------------- MODULE MCSessionControl --------------------------
(***************************************************************************)
(* Small instances of SessionControl: one automation and one or two        *)
(* people.                                                                 *)
(***************************************************************************)
EXTENDS SessionControl

Person(id) == [id |-> id, kind |-> "human", verified |-> TRUE]
Bot(id) == [id |-> id, kind |-> "automation", verified |-> FALSE]
Anonymous == [id |-> "anonymous", kind |-> "unknown", verified |-> FALSE]

BotAndPerson == {Bot("bot"), Person("ann")}
=============================================================================
