--------------------------- MODULE EvaluationPlan ---------------------------
(***************************************************************************)
(* What an evaluation plan asks for and when it is accepted: candidates in *)
(* order, sweeps over fields of candidates, one-at-a-time (OAT) points     *)
(* around a baseline, and the assumptions its author acknowledges.         *)
(* Quantities are integers: coefficients over one shared exponent.         *)
(***************************************************************************)
EXTENDS Integers, SequencesExt

CONSTANT AmbientLimit   \* first coefficient the ambient Decimal context rounds

ASSUME AmbientAssumption == AmbientLimit \in Nat \ {0}

Nobody == 0             \* the null candidate ID

(* The fields of a candidate and of the problem that carry quantities, by  *)
(* the lexical order of the pointers they stand for.                       *)
Pointer == <<"area", "conductivity", "limit", "power", "spare">>

Elements(s) == {s[i] : i \in DOMAIN s}

(* The elements of a finite set in a strict order of them.                 *)
Orderings(S, less(_, _)) ==
  {s \in [1 .. Cardinality(S) -> S] : \A i, j \in 1 .. Cardinality(S) : i < j => less(s[i], s[j])}

Sorted(S, less(_, _)) == CHOOSE s \in Orderings(S, less) : TRUE

Total(s) == FoldSeq(+, 0, s)

Product(s) ==
  LET product[n \in 0 .. Len(s)] == IF n = 0 THEN 1 ELSE product[n - 1] * s[n]
  IN product[Len(s)]

(* A plan, as far as its fields are concerned.                             *)
Values ==
  [kind : {"grid"}, points : Seq(Int)]
  \cup [kind : {"range"}, start : Int, stop : Int, step : Int, inclusive : BOOLEAN]

Plan ==
  [ selected         : Seq(Nat \ {Nobody}),
    sweeps           : Seq([candidate : Nat, field : Elements(Pointer), values : Values]),
    baseline         : Nat,        \* of the OAT request, Nobody if there is none
    parameters       : Seq([field : Elements(Pointer), minus : Int, plus : Int]),
    acknowledgements : Seq([scope : {"candidate", "global"}, candidate : Nat,
                            field : Elements(Pointer)]),
    exclude          : BOOLEAN,    \* do violating candidates stay out of the ranking
    maximum          : Nat ]       \* the core scenarios its author allows

Increasing(s) == \A i, j \in DOMAIN s : i < j => s[i] < s[j]

Magnitude(n) == IF n < 0 THEN -n ELSE n

-----------------------------------------------------------------------------
(* The two orders of acknowledgements.                                     *)

Place(f) == CHOOSE i \in DOMAIN Pointer : Pointer[i] = f

(* The plan and its result compare the scope as text, candidate first.     *)
PlanKey(a) == <<IF a.scope = "candidate" THEN 0 ELSE 1, a.candidate, Place(a.field)>>

(* The thermal model puts global acknowledgements first.                   *)
ModelKey(a) == <<IF a.scope = "global" THEN 0 ELSE 1, a.candidate, Place(a.field)>>

Before(k, l) == \E i \in DOMAIN k : k[i] < l[i] /\ \A j \in 1 .. i - 1 : k[j] = l[j]

InPlanOrder(s) ==
  \A i, j \in DOMAIN s : i < j => Before(PlanKey(s[i]), PlanKey(s[j]))

SortedForPlan(S) == Sorted(S, LAMBDA a, b : Before(PlanKey(a), PlanKey(b)))

SortedForModel(S) == Sorted(S, LAMBDA a, b : Before(ModelKey(a), ModelKey(b)))

-----------------------------------------------------------------------------
(* Sweeps.                                                                 *)

(* The context rounds half to even; one digit of excess is enough here.    *)
Rounded(n) ==
  LET q == n \div 10
      r == n % 10
      up == r > 5 \/ (r = 5 /\ q % 2 = 1)
  IN IF n < AmbientLimit THEN n ELSE 10 * (IF up THEN q + 1 ELSE q)

RangeAccepted(v) == v.step # 0 /\ v.start # v.stop /\ (v.stop > v.start <=> v.step > 0)

ValuesAccepted(v) ==
  IF v.kind = "grid" THEN v.points # <<>> /\ IsInjective(v.points) ELSE RangeAccepted(v)

(* Faulty variant: the end point is counted whatever the policy says.      *)
PointCount_CountsStop(v) ==
  IF v.kind = "grid" THEN Len(v.points)
  ELSE Rounded(Magnitude(v.stop - v.start)) \div Rounded(Magnitude(v.step)) + 1

(* The number of points the plan reckons, by division.                     *)
PointCount(v) ==
  LET delta == Rounded(Magnitude(v.stop - v.start))
      step == Rounded(Magnitude(v.step))
  IN IF v.kind = "grid" THEN Len(v.points)
     ELSE delta \div step + (IF delta % step = 0 /\ ~v.inclusive THEN 0 ELSE 1)

(* The points the orchestrator generates, by stepping.                     *)
Points(v) ==
  LET before(n) == IF v.step > 0 THEN n < v.stop ELSE n > v.stop
      steps == {i \in 0 .. Magnitude(v.stop - v.start) : before(v.start + i * v.step)}
      n == Cardinality(steps)
  IN IF v.kind = "grid" THEN v.points
     ELSE [i \in 1 .. n |-> v.start + (i - 1) * v.step]
          \o (IF v.inclusive /\ v.start + n * v.step = v.stop THEN <<v.stop>> ELSE <<>>)

(* The sweeps of candidate c, in the order of the plan.                    *)
SweepsOf(plan, c) ==
  LET place == Sorted({i \in DOMAIN plan.sweeps : plan.sweeps[i].candidate = c},
                      LAMBDA i, j : i < j)
  IN [k \in DOMAIN place |-> plan.sweeps[place[k]]]

RequestedOf(plan, c) ==
  LET sweeps == SweepsOf(plan, c)
  IN Product([k \in DOMAIN sweeps |-> PointCount(sweeps[k].values)])

RequestedTotal(plan) ==
  Total([i \in DOMAIN plan.selected |-> RequestedOf(plan, plan.selected[i])])

-----------------------------------------------------------------------------
SweepsAccepted(plan) ==
  \A s \in Elements(plan.sweeps) :
    s.candidate \in Elements(plan.selected) /\ ValuesAccepted(s.values)

SensitivityAccepted(plan) ==
  plan.baseline # Nobody =>
    /\ plan.baseline \in Elements(plan.selected)
    /\ plan.parameters # <<>>
    /\ \A p \in Elements(plan.parameters) : p.minus # p.plus
    /\ Increasing([i \in DOMAIN plan.parameters |-> Place(plan.parameters[i].field)])

AcknowledgementsAccepted(acks, selected) ==
  /\ \A a \in Elements(acks) : IF a.scope = "global" THEN a.candidate = Nobody
                               ELSE a.candidate \in Elements(selected)
  /\ InPlanOrder(acks)

PlanAccepted(plan) ==
  /\ plan.selected # <<>> /\ Increasing(plan.selected)
  /\ SweepsAccepted(plan)
  /\ SensitivityAccepted(plan)
  /\ AcknowledgementsAccepted(plan.acknowledgements, plan.selected)
  /\ RequestedTotal(plan) <= plan.maximum
=============================================================================
