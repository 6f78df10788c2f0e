---------------------------- MODULE Instructions ----------------------------
(***************************************************************************)
(* What the serve loop promises about the instructions it takes: each one  *)
(* is done, once, after it was taken, unless the process dies first; and   *)
(* what a process took and lost is not taken again.                        *)
(***************************************************************************)
CONSTANT Instr
VARIABLES taken,  \* taken and not done yet
          done,   \* reached the model
          lost    \* taken by a process that died

ivars == <<taken, done, lost>>

Init == taken = {} /\ done = {} /\ lost = {}

\* One step takes an instruction, or does some, or both.
Advance(new, did) ==
  /\ new \cap (taken \cup done \cup lost) = {}
  /\ did \subseteq taken \cup new
  /\ taken' = (taken \cup new) \ did
  /\ done' = done \cup did
  /\ UNCHANGED lost

Die == /\ lost' = lost \cup taken /\ taken' = {}
       /\ UNCHANGED done

Next == Die \/ \E new, did \in SUBSET Instr : Advance(new, did)

Spec == Init /\ [][Next]_ivars
=============================================================================
