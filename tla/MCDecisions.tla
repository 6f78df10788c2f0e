---------------------------- MODULE MCDecisions ----------------------------
(* Small instances of Decisions: an execution with two questions, one in     *)
(* Auto mode, and a decision parked by governance.                           *)
EXTENDS Decisions
CONSTANTS b, c, q1, q2, q3, g
MCAskOf == [d \in Decs |-> IF d \in {q1, q2} THEN b ELSE IF d = q3 THEN c ELSE NoAsk]
=============================================================================
