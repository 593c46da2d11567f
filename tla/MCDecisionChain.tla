--------------------------- MODULE MCDecisionChain ---------------------------
(* Instances of DecisionChain for TLC: two routes, one of them with an     *)
(* alias, two texts of a case, and the records people write.               *)
EXTENDS DecisionChain, TLC

CONSTANTS r1, r2, alias, typo, e1, e2, t1, p1, p2

Resolve == (r1 :> r1) @@ (r2 :> r2) @@ (alias :> r1) @@ (typo :> Unknown)

(* Everything known and declared, so that the board depends on the review  *)
(* in the sidecars; and a text that lacks an input.                        *)
Ready ==
  [ missing |-> {}, patterns |-> <<r1, r2>>, diamond |-> TRUE, bounded |-> TRUE,
    packageUncertain |-> FALSE, packagePath |-> TRUE, symptom |-> TRUE,
    measured |-> TRUE, thermomechanical |-> "declared", reviewed |-> TRUE ]
Hold ==
  [Ready EXCEPT !.missing = {"cooling_boundary"}, !.patterns = <<r1>>,
                !.thermomechanical = "not_applicable"]

TwoCases == {Ready, Hold}

Kinds ==
  (e1 :> "export") @@ (e2 :> "export") @@ (t1 :> "template") @@ (p1 :> "propose") @@
  (p2 :> "propose")

Final ==
  [TemplateBody EXCEPT !.status = "final", !.rationale = "system", !.evidence = TRUE,
                       !.required = TRUE, !.identity = TRUE, !.acknowledged = TRUE,
                       !.risk = TRUE]

Approval == [Final EXCEPT !.outcome = "approved", !.approved = <<r1>>]
Aliased  == [Approval EXCEPT !.approved = <<alias>>]
Rejected == [Final EXCEPT !.outcome = "rejected", !.rejected = <<r2>>]
Deferral == [Final EXCEPT !.outcome = "deferred", !.deferred = <<r1>>]
Mixed    == [Deferral EXCEPT !.approved = <<r1>>, !.deferred = <<>>]

ThreeBodies == {Approval, Aliased, Rejected}
HoldBodies  == {Deferral, Mixed}

Symmetry == Permutations({e1, e2}) \cup Permutations({p1, p2})
=============================================================================
