------------------------- MODULE MCEvaluationWriter -------------------------
(* Instances of EvaluationWriter for TLC: the budgets of incidents.        *)
EXTENDS EvaluationWriter, TLC

NoIncident == [i \in Incident |-> 0]

(* Only incidents after which nothing published is withdrawn.              *)
CalmBudget == [NoIncident EXCEPT !["io"] = 1, !["crash"] = 1]

(* Everything: the directory is replaced twice (so that it can come back), *)
(* calls fail and are killed, the file is deleted, the power fails.        *)
FaultBudget == [i \in Incident |-> IF i = "swap" THEN 2 ELSE 1]

(* A replaced directory and a failed verification, for the behaviour of    *)
(* calls to their end.                                                     *)
EndBudget == [NoIncident EXCEPT !["swap"] = 1, !["readback"] = 1]

(* One failed verification of a published file.                            *)
ReadBackBudget == [NoIncident EXCEPT !["readback"] = 1]

Symmetry == Permutations(Writer) \cup Permutations(Eer) \cup Permutations(Dir)
=============================================================================
