--------------------------- MODULE Orchestration ---------------------------
(***************************************************************************)
(* One call that turns an evaluation plan into an engineering evaluation   *)
(* result: the plan is checked, its inputs are bound, the candidates are   *)
(* executed one after the other, compared, and the result is put before    *)
(* the validator of the record that will hold it.  Three parts of the code *)
(* decide independently on the same facts - the plan, the model and the    *)
(* record - and the call only ends well where they agree.                  *)
(***************************************************************************)
EXTENDS Strict1D

CONSTANTS
  Problems,     \* the compiled problems the call may be made with
  Plans(_)      \* the plans that may be brought to a problem

(* A problem and a plan for it are read into these records; the arithmetic *)
(* gives a temperature for what it is applied to, or fails.                *)
ASSUME PlanAssumption ==
  \A p \in Problems : \A q \in Plans(p) : q \in Plan

ASSUME ArithmeticAssumption ==
  \A p \in Problems : \A c \in DOMAIN p.candidates :
    LET e == p.candidates[c].conductivity
    IN Usable(e) /\ ~Nonphysical(e) => SourceTemperature(e.value) \in Int \cup {NoResult}

VARIABLES
  request,      \* the problem and the plan
  stage,        \* what the call does next; "refused" and "recorded" end it
  refusal,      \* who refused it
  results,      \* the executed candidates, in plan order
  comparison,   \* eligibility and ranking, once all are executed
  evaluation    \* what the orchestration hands to the record

vars == <<request, stage, refusal, results, comparison, evaluation>>

None == <<>>

problem == request.problem
plan == request.plan

Init ==
  /\ \E p \in Problems : \E q \in Plans(p) : request = [problem |-> p, plan |-> q]
  /\ stage = "plan"
  /\ refusal = "nobody"
  /\ results = None
  /\ comparison = None
  /\ evaluation = None

Refuse(who) == stage' = "refused" /\ refusal' = who

-----------------------------------------------------------------------------
ReadPlan ==
  /\ stage = "plan"
  /\ IF PlanAccepted(plan) THEN stage' = "bind" /\ UNCHANGED refusal ELSE Refuse("plan")
  /\ UNCHANGED <<request, results, comparison, evaluation>>

KnownCandidates == Elements(plan.selected) \subseteq DOMAIN problem.candidates

(* OAT points and sweeps need a usable value to vary, and a field is swept *)
(* once per candidate.                                                     *)
Varies ==
  /\ \A f \in OatFields(plan, plan.baseline) : Usable(problem.candidates[plan.baseline][f])
  /\ \A i, j \in DOMAIN plan.sweeps :
       /\ Usable(problem.candidates[plan.sweeps[i].candidate][plan.sweeps[i].field])
       /\ i # j => \/ plan.sweeps[i].candidate # plan.sweeps[j].candidate
                   \/ plan.sweeps[i].field # plan.sweeps[j].field

Bind ==
  /\ stage = "bind"
  /\ IF KnownCandidates /\ AcknowledgesAssumptions(problem, plan) /\ Varies
     THEN stage' = "execute" /\ UNCHANGED refusal ELSE Refuse("binding")
  /\ UNCHANGED <<request, results, comparison, evaluation>>

-----------------------------------------------------------------------------
(* The j-th combination of sweep points, the last sweep varying fastest.   *)
Combination(sweeps, j) ==
  [k \in DOMAIN sweeps |->
     LET points == Points(sweeps[k].values)
         inner == Product([i \in 1 .. Len(sweeps) - k |-> Len(Points(sweeps[k + i].values))])
     IN points[(((j - 1) \div inner) % Len(points)) + 1]]

Combinations(sweeps) == Product([k \in DOMAIN sweeps |-> Len(Points(sweeps[k].values))])

Overridden(view, f, n) == [view EXCEPT ![f].value = n]

CoreScenario(position, j) ==
  LET c == plan.selected[position]
      sweeps == SweepsOf(plan, c)
      point == Combination(sweeps, j)
      base == problem.candidates[c]
      view == [f \in CandidateField |->
                 IF \E k \in DOMAIN sweeps : sweeps[k].field = f
                 THEN [base[f] EXCEPT !.value =
                         point[CHOOSE k \in DOMAIN sweeps : sweeps[k].field = f]]
                 ELSE base[f]]
  IN Scenario(<<position, "K", j, "core">>, problem, plan, c, view,
              {sweeps[k].field : k \in DOMAIN sweeps}, {})

(* The reference is the sole core scenario where there is one, the points  *)
(* on either side are the baseline with one field replaced.                *)
OatScenarios(position, core, swept) ==
  LET c == plan.selected[position]
      base == problem.candidates[c]
      reference == IF ~swept /\ core[1].disposition = "evaluated"
                   THEN [core[1] EXCEPT !.id = <<position, "O", 0, "reference">>]
                   ELSE Scenario(<<position, "O", 0, "reference">>, problem, plan, c, base, {}, {})
      beside(n, side) ==
        LET p == plan.parameters[n]
            value == IF side = "minus" THEN p.minus ELSE p.plus
        IN Scenario(<<position, "O", n, side>>, problem, plan, c,
                    Overridden(base, p.field, value), {p.field}, {p.field})
  IN [k \in 1 .. 2 * Len(plan.parameters) + 1 |->
        IF k = 1 THEN reference ELSE beside(k \div 2, IF k % 2 = 0 THEN "minus" ELSE "plus")]

Count(scenarios, d) == Cardinality({j \in DOMAIN scenarios : scenarios[j].disposition = d})

Coverage(scenarios) ==
  [ requested      |-> Len(scenarios),
    evaluated      |-> Count(scenarios, "evaluated"),
    blocked        |-> Count(scenarios, "blocked"),
    invalid        |-> Count(scenarios, "invalid"),
    not_applicable |-> Count(scenarios, "not_applicable") ]

AllEvaluated(scenarios) == Count(scenarios, "evaluated") = Len(scenarios)

Warned(scenarios) ==
  \E s \in Elements(scenarios) : s.applicability = "applicable_with_warnings"

(* Faulty variant: OAT points count towards the candidate.                 *)
Status_WithOat(core, oat) ==
  CASE Count(core \o oat, "evaluated") > 0 -> "evaluated"
    [] Count(core \o oat, "not_applicable") = Len(core \o oat) -> "not_applicable"
    [] OTHER -> "blocked"

(* Only core scenarios decide what became of a candidate.                  *)
Status(core, oat) ==
  CASE Count(core, "evaluated") > 0 -> "evaluated"
    [] Count(core, "not_applicable") = Len(core) -> "not_applicable"
    [] OTHER -> "blocked"

(* Every scenario asked for was evaluated, and none with a warning.        *)
Clean(core, oat) == AllEvaluated(core \o oat) /\ ~Warned(core \o oat)

Applicability(status, core, oat) ==
  CASE status = "evaluated" /\ Clean(core, oat)  -> "applicable"
    [] status = "evaluated" /\ ~Clean(core, oat) -> "applicable_with_warnings"
    [] status = "not_applicable"                 -> "not_applicable"
    [] OTHER                                     -> "not_evaluated"

UsedBy(scenarios) == UNION {s.used : s \in Elements(scenarios)}

OatComplete(oat, n) ==
  \A s \in {oat[1], oat[2 * n], oat[2 * n + 1]} : s.disposition = "evaluated"

(* The findings and warnings of a candidate, by rule.                      *)
FindingsOf(c, core, oat) ==
  {<<"outside the model", c>> : s \in {x \in Elements(core \o oat) :
                                         x.disposition = "not_applicable"}}
  \cup (IF c \in problem.limited /\ ~ThresholdUsable(problem)
        THEN {<<"limit not evaluable", c>>} ELSE {})

WarningsOf(c, core, oat) ==
  {<<rule, c>> : rule \in UNION {s.findings : s \in Elements(core \o oat)}}
  \cup (IF oat # <<>> /\ \E n \in DOMAIN plan.parameters : ~OatComplete(oat, n)
        THEN {<<"OAT incomplete", c>>} ELSE {})
  \cup (IF Status(core, oat) = "evaluated" /\ ~Clean(core, oat)
        THEN {<<"partial coverage", c>>} ELSE {})

CandidateResult(position) ==
  LET c == plan.selected[position]
      sweeps == SweepsOf(plan, c)
      core == [j \in 1 .. Combinations(sweeps) |-> CoreScenario(position, j)]
      oat == IF c = plan.baseline THEN OatScenarios(position, core, sweeps # <<>>) ELSE <<>>
      status == Status(core, oat)
  IN [ candidate     |-> c,
       core          |-> core,
       oat           |-> oat,
       swept         |-> sweeps # <<>>,
       coverage      |-> Coverage(core),
       oatCoverage   |-> Coverage(oat),
       status        |-> status,
       applicability |-> Applicability(status, core, oat),
       presence      |-> status = "evaluated",
       used          |-> SortedForModel(UsedBy(core \o oat)),
       findings      |-> FindingsOf(c, core, oat),
       warnings      |-> WarningsOf(c, core, oat) ]

ExecuteCandidate ==
  /\ stage = "execute"
  /\ results' = Append(results, CandidateResult(Len(results) + 1))
  /\ stage' = IF Len(results') = Len(plan.selected) THEN "compare" ELSE "execute"
  /\ UNCHANGED <<request, refusal, comparison, evaluation>>

-----------------------------------------------------------------------------
(* Comparison.                                                             *)

(* Only the sole, unswept, evaluated scenario of a candidate can be ranked.*)
HasBasis(r) == ~r.swept /\ r.core[1].disposition = "evaluated"

Reasons(r) ==
  CASE ~HasBasis(r) -> {"ineligible basis"}
    [] HasBasis(r) /\ plan.exclude /\ r.core[1].limit = "fail" -> {"constraint violation"}
    [] OTHER -> {}

Eligibility(r) == [candidate |-> r.candidate, eligible |-> Reasons(r) = {}, reasons |-> Reasons(r)]

Cooler(r, s) ==
  \/ r.core[1].temperature < s.core[1].temperature
  \/ r.core[1].temperature = s.core[1].temperature /\ r.candidate < s.candidate

(* Faulty variant: the eligible candidates are listed as the plan has them.*)
Ranked_InPlanOrder(eligible) ==
  IF Cardinality(eligible) >= 2
  THEN Sorted(eligible, LAMBDA r, s : r.candidate < s.candidate) ELSE <<>>

(* The best first, ties by candidate ID; a single candidate is not ranked. *)
Ranked(eligible) ==
  IF Cardinality(eligible) >= 2 THEN Sorted(eligible, Cooler) ELSE <<>>

WithReasons(r) == [r EXCEPT !.findings = @ \cup {<<x, r.candidate>> : x \in Reasons(r)}]

Content ==
  LET final == [i \in DOMAIN results |-> WithReasons(results[i])]
      ranked == Ranked({r \in Elements(final) : Reasons(r) = {}})
  IN [ candidates  |-> final,
       eligibility |-> [i \in DOMAIN results |-> Eligibility(results[i])],
       ranked      |-> ranked,
       findings    |-> UNION {r.findings : r \in Elements(final)},
       warnings    |-> UNION {r.warnings : r \in Elements(final)} ]

(* What the result schema asks of one scenario and of one candidate.       *)
ScenarioAccepted(s) ==
  /\ CASE s.disposition = "evaluated" ->
            s.applicability \in {"applicable", "applicable_with_warnings"}
       [] s.disposition = "not_applicable" -> s.applicability = "not_applicable"
       [] OTHER -> s.applicability = "not_evaluated"
  /\ s.disposition = "evaluated" <=> s.temperature # NoResult

CandidateAccepted(r) ==
  /\ r.core # <<>>
  /\ \A s \in Elements(r.core \o r.oat) : ScenarioAccepted(s)
  /\ IsInjective([j \in DOMAIN r.core |-> r.core[j].id])
  /\ r.coverage = Coverage(r.core)
  /\ LET c == r.oatCoverage
     IN c.evaluated + c.blocked + c.invalid + c.not_applicable = c.requested

ContentAccepted(content) ==
  /\ \A r \in Elements(content.candidates) : CandidateAccepted(r)
  /\ IsInjective([i \in DOMAIN content.candidates |-> content.candidates[i].candidate])
  /\ {e.candidate : e \in Elements(content.eligibility)}
       = {r.candidate : r \in Elements(content.candidates)}
  /\ IsInjective([i \in DOMAIN content.ranked |-> content.ranked[i].candidate])
  /\ content.findings = UNION {r.findings : r \in Elements(content.candidates)}
  /\ content.warnings = UNION {r.warnings : r \in Elements(content.candidates)}

-----------------------------------------------------------------------------
Evaluated(rs) == {i \in DOMAIN rs : rs[i].status = "evaluated"}

Outcome(rs) ==
  CASE Cardinality(Evaluated(rs)) = Len(rs) -> "completed"
    [] Evaluated(rs) = {}                   -> "not_evaluated"
    [] OTHER                                -> "partial"

(* The assumptions the orchestration reports: those of evaluated candidates*)
AssumptionsUsed(rs) == SortedForModel(UNION {Elements(rs[i].used) : i \in Evaluated(rs)})

CountsMatch ==
  Total([i \in DOMAIN results |-> Len(results[i].core)]) = RequestedTotal(plan)

Compare ==
  /\ stage = "compare"
  /\ \/ ~CountsMatch /\ Refuse("count") /\ UNCHANGED <<comparison, evaluation>>
     \/ CountsMatch /\ ~ContentAccepted(Content) /\ Refuse("content")
        /\ UNCHANGED <<comparison, evaluation>>
     \/ /\ CountsMatch
        /\ ContentAccepted(Content)
        /\ comparison' = Content
        /\ evaluation' = [outcome |-> Outcome(results), used |-> AssumptionsUsed(results)]
        /\ stage' = "record"
        /\ UNCHANGED refusal
  /\ UNCHANGED <<request, results>>

(* One prediction per metric of each sole evaluated baseline.              *)
Metric == {"source_temperature", "temperature_rise", "total_thermal_resistance"}

PredictionOutputs(rs) ==
  LET sole == {r \in Elements(rs) : /\ r.presence /\ ~r.swept
                                    /\ Len(r.core) = 1 /\ r.core[1].disposition = "evaluated"}
  IN {[candidate |-> r.candidate, metric |-> m] : r \in sole, m \in Metric}

(* The validator of the record works its own values out.                   *)
ExecutionAccepted(r, i) ==
  /\ r.candidate = plan.selected[i]
  /\ CASE r.status = "evaluated" ->
            r.applicability \in {"applicable", "applicable_with_warnings"} /\ r.presence
       [] r.status = "blocked" -> r.applicability = "not_evaluated" /\ ~r.presence
       [] r.status = "not_applicable" -> r.applicability = "not_applicable" /\ ~r.presence
  /\ AcknowledgementsAccepted(r.used, plan.selected)
  /\ Elements(r.used) \subseteq Elements(plan.acknowledgements)
  /\ \A a \in Elements(r.used) : a.scope = "candidate" => a.candidate = r.candidate

RecordAccepted(rs, e) ==
  /\ Len(rs) = Len(plan.selected)
  /\ \A i \in DOMAIN rs : ExecutionAccepted(rs[i], i)
  /\ e.outcome = Outcome(rs)
  /\ AcknowledgementsAccepted(e.used, plan.selected)
  /\ e.used = SortedForPlan(UNION {Elements(r.used) : r \in Elements(rs)})
  /\ \A o \in PredictionOutputs(rs) : o.candidate \in {rs[i].candidate : i \in Evaluated(rs)}

BuildResult ==
  /\ stage = "record"
  /\ IF RecordAccepted(comparison.candidates, evaluation)
     THEN stage' = "recorded" /\ UNCHANGED refusal ELSE Refuse("record")
  /\ UNCHANGED <<request, results, comparison, evaluation>>

Next == ReadPlan \/ Bind \/ ExecuteCandidate \/ Compare \/ BuildResult

Spec == Init /\ [][Next]_vars

-----------------------------------------------------------------------------
(* Properties.                                                             *)

Executed == stage \in {"record", "recorded"} \/ refusal = "record"

AllScenarios(r) == r.core \o r.oat

(* The count the plan reckons differs from the points generated only when  *)
(* a range is too long for the ambient context to subtract its ends        *)
(* exactly (evaluation.py _range_progression, orchestration.py _expand_    *)
(* sweep); the content the orchestrator assembles is one its own schema    *)
(* accepts; and the record is refused only when one list mixes global and  *)
(* candidate acknowledgements, or a candidate without a result reports     *)
(* acknowledgements of its OAT points.                                     *)
RefusalsExplained ==
  /\ refusal = "count" => \E s \in Elements(plan.sweeps) :
       /\ s.values.kind = "range"
       /\ \/ Magnitude(s.values.stop - s.values.start) >= AmbientLimit
          \/ Magnitude(s.values.step) >= AmbientLimit
  /\ refusal # "content"
  /\ refusal = "record" =>
       \/ \E a, b \in UNION {Elements(r.used) : r \in Elements(results)} : a.scope # b.scope
       \/ \E r \in Elements(results) : r.status # "evaluated" /\ r.used # <<>>

(* A candidate has a result exactly when a core scenario of it was         *)
(* evaluated, whatever its OAT points came to; no prediction is emitted for*)
(* any other candidate, nor for a swept one.                               *)
ResultsComeFromCore ==
  Executed =>
    /\ \A r \in Elements(comparison.candidates) :
         r.presence <=> \E s \in Elements(r.core) : s.disposition = "evaluated"
    /\ \A o \in PredictionOutputs(comparison.candidates) :
         \E r \in Elements(comparison.candidates) :
           r.candidate = o.candidate /\ ~r.swept /\ r.core[1].temperature # NoResult

(* The ranking compares like with like: at least two candidates, every one *)
(* an unswept evaluated baseline that does not break a limit that excludes,*)
(* all such candidates, the cooler first and ties by candidate ID.         *)
RankedAreComparable ==
  Executed =>
    LET ranked == comparison.ranked
        fit == {r \in Elements(results) : /\ ~r.swept /\ r.core[1].temperature # NoResult
                                          /\ plan.exclude => r.core[1].limit # "fail"}
    IN /\ {r.candidate : r \in Elements(ranked)}
            = (IF Cardinality(fit) >= 2 THEN {r.candidate : r \in fit} ELSE {})
       /\ \A i, j \in DOMAIN ranked : i < j =>
            \/ ranked[i].core[1].temperature < ranked[j].core[1].temperature
            \/ /\ ranked[i].core[1].temperature = ranked[j].core[1].temperature
               /\ ranked[i].candidate < ranked[j].candidate

(* Where anything of a candidate was evaluated, the acknowledgements it may*)
(* use - the plan's global ones and its own - are those of the assumed     *)
(* inputs it consumes and nothing besides: each of its own is the field of *)
(* the model, or of an OAT point, and each scenario uses no acknowledgement*)
(* the plan lacks and leaves no assumed model input unacknowledged.        *)
AcknowledgementsClosed ==
  \A r \in Elements(results) : \A s \in Elements(AllScenarios(r)) :
    s.disposition = "evaluated" =>
      /\ s.used \subseteq Elements(plan.acknowledgements)
      /\ \A f \in ModelField : Assumed(problem.candidates[r.candidate][f]) =>
           Acknowledgement("candidate", r.candidate, f) \in s.used
      /\ \A a \in Elements(plan.acknowledgements) : a.candidate = r.candidate =>
           a.field \in ModelField \cup OatFields(plan, r.candidate)
      /\ \A a \in Supplied(plan, "global") : \E c \in Elements(plan.selected) :
           a.field \in GlobalsConsumed(problem, c)

(* Docs: the orchestration is put in the record "as I3 requires": what is  *)
(* completed can be recorded.                                              *)
OrchestratedIsRecorded == refusal # "record"
=============================================================================
