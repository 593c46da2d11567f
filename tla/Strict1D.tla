------------------------------ MODULE Strict1D ------------------------------
(***************************************************************************)
(* The strict one-dimensional thermal model: how the inputs of a candidate *)
(* are bound and their assumptions closed against the acknowledgements,    *)
(* and what one scenario comes to.                                         *)
(*                                                                         *)
(* A problem is a record                                                   *)
(*   candidates : for each candidate, an envelope [status, value] per      *)
(*                field; "spare" is a field the model itself does not use  *)
(*   globals    : the envelopes of the source power and of the limit       *)
(*   limited    : the candidates the temperature limit applies to          *)
(***************************************************************************)
EXTENDS EvaluationPlan

CONSTANTS
  SourceTemperature(_),  \* the arithmetic: source temperature by conductivity
  NoResult,              \* what it gives when Decimal arithmetic fails
  SourceArea             \* the heated area of the source

CandidateField == {"area", "conductivity", "spare"}
ModelField == {"area", "conductivity"}
GlobalField == {"power", "limit"}

Usable(e) == e.status # "missing"
Assumed(e) == e.status = "assumed"
Nonphysical(e) == Usable(e) /\ e.value <= 0

Acknowledgement(scope, c, f) == [scope |-> scope, candidate |-> c, field |-> f]

(* A threshold the model can compare with: it is consumed, others are not. *)
ThresholdUsable(problem) == Usable(problem.globals.limit) /\ problem.globals.limit.value >= 0

GlobalsConsumed(problem, c) ==
  {g \in GlobalField : g = "limit" => c \in problem.limited /\ ThresholdUsable(problem)}

-----------------------------------------------------------------------------
(* Binding.                                                                *)

(* An acknowledgement of something that is not assumed is refused outright.*)
AcknowledgesAssumptions(problem, plan) ==
  \A a \in Elements(plan.acknowledgements) :
    Assumed(IF a.scope = "global" THEN problem.globals[a.field]
            ELSE problem.candidates[a.candidate][a.field])

AssumedBy(c, envelopes, fields) ==
  {Acknowledgement("candidate", c, f) : f \in {x \in fields : Assumed(envelopes[x])}}

RequiredGlobals(problem, c) ==
  {Acknowledgement("global", Nobody, g) :
     g \in {x \in GlobalsConsumed(problem, c) : Assumed(problem.globals[x])}}

Required(problem, c) ==
  AssumedBy(c, problem.candidates[c], ModelField) \cup RequiredGlobals(problem, c)

Supplied(plan, scope) == {a \in Elements(plan.acknowledgements) : a.scope = scope}

OatFields(plan, c) ==
  IF c = plan.baseline THEN {p.field : p \in Elements(plan.parameters)} ELSE {}

(* A global acknowledgement no selected candidate requires blocks them all.*)
GlobalFindings(problem, plan) ==
  LET wanted == UNION {RequiredGlobals(problem, c) : c \in Elements(plan.selected)}
  IN IF Supplied(plan, "global") \subseteq wanted THEN {} ELSE {"acknowledgement closure"}

InputMissing(problem, c) ==
  \/ \E f \in ModelField : ~Usable(problem.candidates[c][f])
  \/ \E g \in GlobalsConsumed(problem, c) : ~Usable(problem.globals[g])

(* Faulty variant: what is acknowledged beyond need goes unnoticed.        *)
AcknowledgementsClose_Loosely(problem, plan, c) ==
  Required(problem, c) \subseteq Elements(plan.acknowledgements)

(* The candidate's own acknowledgements are those it requires, no more and *)
(* no less; an assumed field only its OAT points consume may be among them.*)
AcknowledgementsClose(problem, plan, c) ==
  LET own == {a \in Supplied(plan, "candidate") : a.candidate = c}
      forOat == AssumedBy(c, problem.candidates[c], OatFields(plan, c))
  IN /\ Required(problem, c) \subseteq own \cup Supplied(plan, "global")
     /\ own \subseteq Required(problem, c) \cup forOat

BindingFindings(problem, plan, c) ==
  GlobalFindings(problem, plan)
  \cup (IF InputMissing(problem, c) THEN {"missing input"} ELSE {})
  \cup (IF AcknowledgementsClose(problem, plan, c) THEN {} ELSE {"acknowledgement closure"})

EvidenceWanted(problem, c) ==
  \/ \E f \in ModelField : problem.candidates[c][f].status = "evidence_required"
  \/ \E g \in GlobalsConsumed(problem, c) : problem.globals[g].status = "evidence_required"

-----------------------------------------------------------------------------
(* One scenario of candidate c: its envelopes as overridden, the fields    *)
(* the overrides replaced, and the further fields it consumes.             *)

(* Areas differ: the path is not one-dimensional.                          *)
OutOfModel(view) == Usable(view.area) /\ view.area.value > 0 /\ view.area.value # SourceArea

NonphysicalInputs(problem, view, fields) ==
  {f \in fields : Nonphysical(view[f])}
  \cup {g \in {"power"} : Nonphysical(problem.globals[g])}

LimitStatus(problem, c, disposition, temperature) ==
  CASE c \notin problem.limited -> "none"
    [] c \in problem.limited /\ (disposition # "evaluated" \/ ~ThresholdUsable(problem)) ->
         "not_evaluable"
    [] OTHER -> IF temperature <= problem.globals.limit.value THEN "pass" ELSE "fail"

(* An override that cannot be is said to be invalid first; then comes what *)
(* the model does not cover, then what it cannot compute.                  *)
Disposition(invalid, outside, blocked, temperature) ==
  CASE invalid # {} -> "invalid"
    [] invalid = {} /\ outside -> "not_applicable"
    [] invalid = {} /\ ~outside /\ blocked -> "blocked"
    [] OTHER -> IF temperature = NoResult THEN "blocked" ELSE "evaluated"

Scenario(id, problem, plan, c, view, overridden, further) ==
  LET local == further \ ModelField
      forLocal == AssumedBy(c, view, local)
      findings == BindingFindings(problem, plan, c)
                  \cup (IF forLocal \subseteq Elements(plan.acknowledgements) THEN {}
                        ELSE {"acknowledgement closure"})
      invalid == {f \in overridden : Nonphysical(view[f])}
      nonphysical == NonphysicalInputs(problem, view, ModelField \cup further) # {}
      blocked == findings # {} \/ nonphysical
      temperature == IF blocked THEN NoResult ELSE SourceTemperature(view.conductivity.value)
      warned == EvidenceWanted(problem, c)
                \/ \E f \in local : view[f].status = "evidence_required"
      d == Disposition(invalid, OutOfModel(view), blocked, temperature)
  IN [ id            |-> id,
       disposition   |-> d,
       applicability |-> CASE d = "evaluated" /\ ~warned -> "applicable"
                           [] d = "evaluated" /\ warned  -> "applicable_with_warnings"
                           [] d = "not_applicable"       -> "not_applicable"
                           [] OTHER                      -> "not_evaluated",
       used          |-> IF d = "evaluated" THEN Required(problem, c) \cup forLocal ELSE {},
       temperature   |-> IF d = "evaluated" THEN temperature ELSE NoResult,
       limit         |-> LimitStatus(problem, c, d, temperature),
       findings      |->
         CASE d = "evaluated" -> IF warned THEN {"evidence required"} ELSE {}
           [] d = "invalid"   -> findings \cup {"invalid override"}
           [] OTHER           -> findings \cup (IF nonphysical \/ ~blocked
                                               THEN {"nonphysical input"} ELSE {}) ]
=============================================================================
