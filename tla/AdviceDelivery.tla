--------------------------- MODULE AdviceDelivery ---------------------------
(***************************************************************************)
(* What the terminal promises about offline-approved advices, with no      *)
(* files, counters, flags or retries: an advice that was taken on is held  *)
(* until the host has heard of it or somebody gives it up, and once it is  *)
(* out of the terminal's hands it never comes back.  SafQueue implements   *)
(* this (run saf_delivery).                                                *)
(***************************************************************************)
CONSTANT Advices

VARIABLES
    stage,  \* stage[a]: where the terminal stands with advice a
    heard   \* the advices the host has heard of

vars == <<stage, heard>>

Stages == {"new", "held", "closed", "dropped"}

Init == stage = [a \in Advices |-> "new"] /\ heard = {}

InStage(s) == {a \in Advices : stage[a] = s}

\* stage[a] becomes s for every a of A
Move(A, s) == stage' = [a \in Advices |-> IF a \in A THEN s ELSE stage[a]]

Hold(a) == a \in InStage("new") /\ Move({a}, "held") /\ UNCHANGED heard

Reach(a) == a \in InStage("held") /\ heard' = heard \cup {a} /\ UNCHANGED stage

Close(a) == a \in InStage("held") \cap heard /\ Move({a}, "closed") /\ UNCHANGED heard

Drop(A) == A \subseteq InStage("held") /\ Move(A, "dropped") /\ UNCHANGED heard

Next == \/ \E a \in Advices : Hold(a) \/ Reach(a) \/ Close(a)
        \/ \E A \in SUBSET Advices : Drop(A)

Spec == Init /\ [][Next]_vars
=============================================================================
