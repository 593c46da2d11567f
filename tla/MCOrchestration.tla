--------------------------- MODULE MCOrchestration --------------------------
(* Values for the constants of Orchestration: two candidates, of which the  *)
(* first varies in everything the code distinguishes and the second is the  *)
(* one it is compared with.                                                 *)
EXTENDS Orchestration

(* Hotter with a lower conductivity; the arithmetic fails at the extreme.   *)
MCSourceTemperature(k) == IF k >= 30 THEN NoResult ELSE 12 \div k

Envelope(status, value) == [status |-> status, value |-> value]

Given(n) == Envelope("provided", n)
Taken(n) == Envelope("assumed", n)
Unproven(n) == Envelope("evidence_required", n)
Absent == Envelope("missing", 0)

Candidate(area, conductivity, spare) ==
  [area |-> area, conductivity |-> conductivity, spare |-> spare]

First ==
  { Candidate(Given(1), Given(3), Given(1)),  Candidate(Given(1), Given(3), Taken(1)),
    Candidate(Given(1), Taken(3), Given(1)),  Candidate(Given(1), Taken(3), Taken(1)),
    Candidate(Given(1), Taken(0), Given(1)),  Candidate(Given(1), Unproven(3), Given(1)),
    Candidate(Given(1), Absent, Given(1)),    Candidate(Given(2), Given(3), Given(1)),
    Candidate(Given(1), Given(30), Unproven(1)) }

Second == {Candidate(Given(1), Given(3), Given(1)), Candidate(Given(1), Taken(4), Given(1))}

MCProblems ==
  [ candidates : {<<a, b>> : a \in First, b \in Second},
    globals    : [power : {Given(1)}, limit : {Absent, Given(4), Taken(4)}],
    limited    : {{}, {1}, {1, 2}} ]

Swept(f, v) == <<[candidate |-> 1, field |-> f, values |-> v]>>
Grid(points) == [kind |-> "grid", points |-> points]
Steps(start, stop, step, inclusive) ==
  [kind |-> "range", start |-> start, stop |-> stop, step |-> step, inclusive |-> inclusive]

Sweep ==
  { <<>>,
    Swept("conductivity", Grid(<<4, 0>>)),
    Swept("conductivity", Steps(2, 6, 2, TRUE)),
    Swept("conductivity", Steps(5, 1, -3, FALSE)),
    Swept("conductivity", Steps(1, 5, 2, FALSE)),
    Swept("conductivity", Steps(1, 12, 10, FALSE)),
    Swept("conductivity", Steps(1, 5, -2, TRUE)),
    Swept("area", Grid(<<1, 2>>)) \o Swept("conductivity", Grid(<<3, 0>>)),
    Swept("spare", Grid(<<1>>)) \o Swept("spare", Grid(<<2>>)) }

Around(f, minus, plus) == [field |-> f, minus |-> minus, plus |-> plus]

Oat ==
  { <<>>,
    <<Around("conductivity", 2, 4)>>,
    <<Around("conductivity", 0, 4), Around("spare", 1, 2)>>,
    <<Around("spare", 1, 2)>> }

(* What is acknowledged: all that is required, less one, or one more.       *)
AcknowledgedIn(p, selected, oat) ==
  LET own == {Acknowledgement("candidate", c, f) : c \in Elements(selected),
                                                   f \in CandidateField}
      all == {a \in own \cup {Acknowledgement("global", Nobody, "limit")} :
                Assumed(IF a.scope = "global" THEN p.globals.limit
                        ELSE p.candidates[a.candidate][a.field])}
      needed == UNION {Required(p, c) : c \in Elements(selected)}
  IN {needed, {}} \cup {needed \cup {a} : a \in all} \cup {needed \ {a} : a \in needed}

(* Acknowledgements and the exclusion of violating candidates vary where    *)
(* nothing is swept, the sweeps with all that is required acknowledged.     *)
PlanOf(selected, sweeps, oat, S, exclude) ==
  [ selected         |-> selected,
    sweeps           |-> sweeps,
    baseline         |-> IF oat = <<>> THEN Nobody ELSE 1,
    parameters       |-> oat,
    acknowledgements |-> SortedForPlan(S),
    exclude          |-> exclude,
    maximum          |-> 6 ]

MCPlans(p) ==
  {PlanOf(<<1, 3>>, <<>>, <<>>, {}, TRUE)}   \* there is no third candidate
  \cup UNION {
    {PlanOf(selected, <<>>, oat, S, x) : S \in AcknowledgedIn(p, selected, oat), x \in BOOLEAN}
    \cup {PlanOf(selected, sweeps, oat, UNION {Required(p, c) : c \in Elements(selected)}, TRUE)
            : sweeps \in Sweep}
    : selected \in {<<1>>, <<1, 2>>}, oat \in Oat }
=============================================================================
