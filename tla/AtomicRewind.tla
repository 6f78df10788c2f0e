----------------------------- MODULE AtomicRewind -----------------------------
(***************************************************************************)
(* What a restore of the conversation promises across crashes: the history *)
(* the next start resumes is cut back to a prefix, extended by turns never *)
(* seen before, or both, in one step.  While a restore is undecided the    *)
(* history it replaces lives on and may still win; nothing else that was   *)
(* cut ever comes back.                                                    *)
(***************************************************************************)
EXTENDS Naturals, Sequences, SequencesExt

CONSTANT Turns

VARIABLES hist,  \* the history the next start resumes
          held,  \* << >>, or the one history an undecided restore replaces
          known  \* the turns any decided history held

vars == <<hist, held, known>>

Init == hist = << >> /\ held = << >> /\ known = {}

Live == IF held = << >> THEN hist ELSE held[1]

\* A prefix of h, then turns never seen before, in order.
Revises(h, new) ==
  /\ new \in Seq(Turns)
  /\ \E k \in 0 .. Len(h) :
       /\ k <= Len(new) /\ SubSeq(new, 1, k) = SubSeq(h, 1, k)
       /\ \A i \in k + 1 .. Len(new) : /\ new[i] \notin known
                                      /\ \A j \in k + 1 .. i - 1 : new[j] < new[i]

Revise == Revises(Live, hist') /\ held' \in {<< >>, <<Live>>}
Drift  == held # << >> /\ hist' = hist /\ held' = <<held'[1]>> /\ Revises(Live, held'[1])
Decide == hist' = hist /\ held' = << >>

Next ==
  /\ Revise \/ Drift \/ Decide
  /\ known' = IF held' = << >> THEN known \cup Range(hist') ELSE known

Spec == Init /\ [][Next]_vars
===============================================================================
