---------------------------- MODULE MCApprovals ----------------------------
(* Small instances of Approvals: two calls of one action and one of another, *)
(* one of them with the default to allow.                                    *)
EXTENDS Approvals
CONSTANTS a1, a2, b1
MCPromptOf == [c \in Calls |-> IF c = b1 THEN "b" ELSE "a"]
MCDefaultOf == [c \in Calls |-> IF c = a2 THEN "allow" ELSE "deny"]
=============================================================================
