--------------------------- MODULE MCSeekerPlans ---------------------------
(* SeekerPlans for TLC: a seller who offers both ways to pay is looked at    *)
(* with one link and one submission, the others with two of their kind.      *)
EXTENDS SeekerPlans

First(S) == CHOOSE x \in S : TRUE

OneOfEach ==
  mode = "both" => /\ \A s \in Subs \ {First(Subs)} : sub'[s].status = "none"
                   /\ task' # NoTask => task'.sub = First(Subs)
                   /\ \A l \in Links \ {First(Links)} : provider'[l] = "none"

MCSpec == Init /\ [][Next /\ OneOfEach]_vars /\ Fairness
=============================================================================
