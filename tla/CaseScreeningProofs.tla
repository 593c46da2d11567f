------------------------- MODULE CaseScreeningProofs -------------------------
(***************************************************************************)
(* What holds of a case in the course of its life for any set of patterns  *)
(* and any number of them in one case.                                     *)
(***************************************************************************)
EXTENDS CaseScreening, WellFoundedInduction, FiniteSetTheorems, TLAPS

-----------------------------------------------------------------------------
(* What is kept of a sequence.                                             *)

(* Induction over the natural numbers, on a set of them.                   *)
LEMMA NoneLeftOut ==
  ASSUME NEW N \in SUBSET Nat, 0 \in N, \A n \in N : n + 1 \in N
  PROVE  N = Nat
<1> SUFFICES ASSUME N # Nat PROVE FALSE
  OBVIOUS
<1> DEFINE S == Nat \ N
<1>1. S \in SUBSET Nat /\ S # {}
  OBVIOUS
<1>2. IsWellFoundedOn(OpToRel(<, Nat), Nat)
  BY NatLessThanWellFounded
<1>3. PICK m \in S : \A n \in S : ~(<<n, m>> \in OpToRel(<, Nat))
  BY <1>1, <1>2, WFMin
<1>4. m \in Nat \ {0} /\ m - 1 \in Nat /\ m - 1 < m
  BY <1>1
<1>5. m - 1 \notin S
  <2>1. \A a \in Nat, b \in Nat : a < b => <<a, b>> \in OpToRel(<, Nat)
    BY DEF OpToRel
  <2> QED
    BY <1>3, <1>4, <2>1
<1>6. (m - 1) + 1 \in N
  BY <1>4, <1>5
<1> QED
  BY <1>4, <1>6

(* The first n steps of the recursion that defines Kept.                   *)
Steps(g, s, S, n) ==
  g = [k \in 0..n |-> IF k = 0 THEN <<>>
                      ELSE IF s[k] \in S THEN Append(g[k - 1], s[k]) ELSE g[k - 1]]

LEMMA StepsExist ==
  ASSUME NEW s, NEW S, NEW n \in Nat
  PROVE  \E g : Steps(g, s, S, n)
<1> DEFINE N == {m \in Nat : \E g : Steps(g, s, S, m)}
<1>1. 0 \in N
  <2> DEFINE g == [k \in 0..0 |-> <<>>]
  <2>1. g = [k \in 0..0 |-> IF k = 0 THEN <<>>
                            ELSE IF s[k] \in S THEN Append(g[k - 1], s[k]) ELSE g[k - 1]]
    BY \A k \in 0..0 : k = 0
  <2> QED
    BY <2>1 DEF Steps
<1>2. ASSUME NEW m \in N PROVE m + 1 \in N
  <2>1. PICK g : Steps(g, s, S, m)
    OBVIOUS
  <2>0. m \in Nat
    OBVIOUS
  <2> DEFINE next == IF s[m + 1] \in S THEN Append(g[m], s[m + 1]) ELSE g[m]
             h == [k \in 0..(m + 1) |-> IF k = m + 1 THEN next ELSE g[k]]
             r(k) == IF k = 0 THEN <<>>
                     ELSE IF s[k] \in S THEN Append(h[k - 1], s[k]) ELSE h[k - 1]
  <2>2. ASSUME NEW k \in 0..(m + 1) PROVE h[k] = r(k)
    <3>1. CASE k = m + 1
      BY <2>0, <3>1
    <3>2. CASE k # m + 1
      <4>1. k \in 0..m /\ (k # 0 => k - 1 \in 0..m) /\ k - 1 # m + 1
        BY <2>0, <3>2
      <4>2. g[k] = IF k = 0 THEN <<>>
                   ELSE IF s[k] \in S THEN Append(g[k - 1], s[k]) ELSE g[k - 1]
        BY <2>1, <4>1 DEF Steps
      <4>3. k # 0 => h[k - 1] = g[k - 1]
        BY <2>0, <4>1
      <4> QED
        BY <3>2, <4>1, <4>2, <4>3
    <3> QED
      BY <3>1, <3>2
  <2>3. h = [k \in 0..(m + 1) |-> h[k]]
    OBVIOUS
  <2>4. h = [k \in 0..(m + 1) |-> r(k)]
    BY <2>2, <2>3
  <2>5. Steps(h, s, S, m + 1)
    BY <2>4 DEF Steps
  <2> QED
    BY <2>0, <2>5
<1> HIDE DEF N
<1>3. N = Nat
  <2>1. N \in SUBSET Nat
    BY DEF N
  <2> QED
    BY <1>1, <1>2, <2>1, NoneLeftOut
<1> QED
  BY <1>3 DEF N

(* No element is in s twice.                                               *)
Distinct(s) == \A i, j \in DOMAIN s : i # j => s[i] # s[j]

(* What k has of the first n elements of s.                                *)
Selects(k, s, S, n) ==
  /\ k \in Seq(Elements(s)) /\ Len(k) <= n
  /\ \A x : x \in Elements(k) <=> x \in S /\ \E i \in 1..n : s[i] = x
  /\ Distinct(s) => Distinct(k)

LEMMA SelectsMore ==
  ASSUME NEW T, NEW s \in Seq(T), NEW S, NEW n \in 1..Len(s), NEW k, Selects(k, s, S, n - 1)
  PROVE  Selects(IF s[n] \in S THEN Append(k, s[n]) ELSE k, s, S, n)
<1>1. n \in Nat \ {0} /\ DOMAIN s = 1..Len(s) /\ Len(s) \in Nat /\ n \in DOMAIN s
  OBVIOUS
<1>2. k \in Seq(Elements(s)) /\ Len(k) \in Nat /\ DOMAIN k = 1..Len(k) /\ Len(k) <= n - 1
  BY DEF Selects
<1>3. s[n] \in Elements(s)
  BY <1>1 DEF Elements
<1>4. \A i : i \in 1..n <=> i \in 1..(n - 1) \/ i = n
  BY <1>1
<1>5. CASE s[n] \notin S
  BY <1>1, <1>2, <1>4, <1>5 DEF Selects
<1>6. CASE s[n] \in S
  <2> DEFINE l == Append(k, s[n])
             E == Elements(s)
  <2> HIDE DEF E
  <2>0. k \in Seq(E) /\ s[n] \in E
    BY <1>2, <1>3 DEF E
  <2>1. /\ l \in Seq(E) /\ Len(l) = Len(k) + 1 /\ DOMAIN l = 1..(Len(k) + 1)
        /\ l[Len(k) + 1] = s[n] /\ \A i \in 1..Len(k) : l[i] = k[i]
    BY <1>2, <2>0
  <2> HIDE DEF l
  <2>2. Len(l) <= n
    BY <1>1, <1>2, <2>1
  <2>3. \A x : x \in Elements(l) <=> x \in Elements(k) \/ x = s[n]
    <3>1. ASSUME NEW i \in DOMAIN l PROVE l[i] \in Elements(k) \/ l[i] = s[n]
      <4>1. CASE i = Len(k) + 1
        BY <2>1, <4>1
      <4>2. CASE i # Len(k) + 1
        <5>1. i \in DOMAIN k /\ l[i] = k[i]
          BY <1>2, <2>1, <4>2
        <5> QED
          BY <5>1 DEF Elements
      <4> QED
        BY <4>1, <4>2
    <3>2. ASSUME NEW i \in DOMAIN k PROVE k[i] \in Elements(l)
      <4>1. i \in DOMAIN l /\ l[i] = k[i]
        BY <1>2, <2>1
      <4> QED
        BY <4>1 DEF Elements
    <3>3. s[n] \in Elements(l)
      <4>1. Len(k) + 1 \in DOMAIN l
        BY <1>2, <2>1
      <4> QED
        BY <2>1, <4>1 DEF Elements
    <3> QED
      BY <3>1, <3>2, <3>3 DEF Elements
  <2>4. \A x : x \in Elements(l) <=> x \in S /\ \E i \in 1..n : s[i] = x
    BY <1>1, <1>4, <1>6, <2>3 DEF Selects
  <2>5. ASSUME Distinct(s) PROVE Distinct(l)
    <3>1. Distinct(k)
      BY <2>5 DEF Selects
    <3>2. s[n] \notin Elements(k)
      <4>1. \A i \in 1..(n - 1) : i \in DOMAIN s /\ i # n
        BY <1>1
      <4> QED
        BY <1>1, <2>5, <4>1 DEF Selects, Distinct
    <3>3. \A i \in 1..Len(k) : k[i] # s[n]
      BY <1>2, <3>2 DEF Elements
    <3> SUFFICES ASSUME NEW i \in 1..(Len(k) + 1), NEW j \in 1..(Len(k) + 1), i # j
                 PROVE  l[i] # l[j]
      BY <2>1 DEF Distinct
    <3>4. CASE i = Len(k) + 1 /\ j # Len(k) + 1
      <4>1. j \in 1..Len(k)
        BY <1>2, <3>4
      <4> QED
        BY <2>1, <3>3, <3>4, <4>1
    <3>5. CASE i # Len(k) + 1 /\ j = Len(k) + 1
      <4>1. i \in 1..Len(k)
        BY <1>2, <3>5
      <4> QED
        BY <2>1, <3>3, <3>5, <4>1
    <3>6. CASE i # Len(k) + 1 /\ j # Len(k) + 1
      <4>1. i \in 1..Len(k) /\ j \in 1..Len(k)
        BY <1>2, <3>6
      <4> QED
        BY <1>2, <2>1, <3>1, <4>1 DEF Distinct
    <3> QED
      BY <3>4, <3>5, <3>6
  <2>6. Selects(l, s, S, n)
    BY <2>1, <2>2, <2>4, <2>5 DEF Selects, E
  <2> QED
    BY <1>6, <2>6 DEF l
<1> QED
  BY <1>5, <1>6

(* Kept is the sequence of those elements of s that are in S; it has no    *)
(* more elements than s, and none twice unless s has.                      *)
LEMMA KeptIs ==
  ASSUME NEW T, NEW s \in Seq(T), NEW S
  PROVE  Selects(Kept(s, S), s, S, Len(s))
<1> DEFINE f == CHOOSE g : Steps(g, s, S, Len(s))
<1>0. Len(s) \in Nat /\ DOMAIN s = 1..Len(s)
  OBVIOUS
<1>1. Steps(f, s, S, Len(s))
  BY <1>0, StepsExist
<1>2. Kept(s, S) = f[Len(s)]
  BY Zenon DEF Kept, Steps
<1> HIDE DEF f
<1>3. f[0] = <<>> /\ \A k \in 1..Len(s) : f[k] = IF s[k] \in S THEN Append(f[k - 1], s[k]) ELSE f[k - 1]
  <2>1. \A k \in 0..Len(s) : f[k] = IF k = 0 THEN <<>>
                                   ELSE IF s[k] \in S THEN Append(f[k - 1], s[k]) ELSE f[k - 1]
    BY <1>1 DEF Steps
  <2>2. 0 \in 0..Len(s) /\ \A k \in 1..Len(s) : k \in 0..Len(s) /\ k # 0
    BY <1>0
  <2> QED
    BY <2>1, <2>2
<1> DEFINE N == {n \in Nat : n <= Len(s) => Selects(f[n], s, S, n)}
<1>4. 0 \in N
  <2>1. Selects(<<>>, s, S, 0)
    BY DEF Selects, Elements, Distinct
  <2> QED
    BY <1>3, <2>1
<1>5. ASSUME NEW n \in N PROVE n + 1 \in N
  <2> SUFFICES ASSUME n + 1 <= Len(s) PROVE Selects(f[n + 1], s, S, n + 1)
    OBVIOUS
  <2>1. n \in Nat /\ n <= Len(s) /\ n + 1 \in 1..Len(s) /\ (n + 1) - 1 = n
    BY <1>0
  <2>2. Selects(f[(n + 1) - 1], s, S, (n + 1) - 1)
    BY <2>1
  <2>3. f[n + 1] = IF s[n + 1] \in S THEN Append(f[(n + 1) - 1], s[n + 1]) ELSE f[(n + 1) - 1]
    BY <1>3, <2>1
  <2> DEFINE m == n + 1
  <2> HIDE DEF m
  <2>4. m \in 1..Len(s) /\ Selects(f[m - 1], s, S, m - 1)
    BY <2>1, <2>2 DEF m
  <2>5. Selects(IF s[m] \in S THEN Append(f[m - 1], s[m]) ELSE f[m - 1], s, S, m)
    BY <2>4, SelectsMore
  <2> QED
    BY <2>3, <2>5 DEF m
<1> HIDE DEF N
<1>6. N = Nat
  <2>1. N \in SUBSET Nat
    BY DEF N
  <2> QED
    BY <1>4, <1>5, <2>1, NoneLeftOut
<1> QED
  BY <1>0, <1>2, <1>6 DEF N

LEMMA KeptFacts ==
  ASSUME NEW T, NEW s \in Seq(T), NEW S
  PROVE  /\ Kept(s, S) \in Seq(T) /\ Len(Kept(s, S)) \in Nat /\ Len(Kept(s, S)) <= Len(s)
         /\ Elements(Kept(s, S)) = Elements(s) \cap S
         /\ Distinct(s) => Distinct(Kept(s, S))
<1>1. Selects(Kept(s, S), s, S, Len(s))
  BY KeptIs
<1>2. Elements(s) \subseteq T /\ DOMAIN s = 1..Len(s)
  BY DEF Elements
<1>3. Kept(s, S) \in Seq(T)
  BY <1>1, <1>2 DEF Selects
<1>4. \A x : x \in Elements(Kept(s, S)) <=> x \in S /\ x \in Elements(s)
  BY <1>1, <1>2 DEF Selects, Elements
<1> QED
  BY <1>1, <1>3, <1>4 DEF Selects

-----------------------------------------------------------------------------
(* All that the proofs need of the type: which facts a case states.        *)
Shape ==
  DOMAIN case = {"missing", "patterns", "diamond", "bounded", "packageUncertain",
                 "packagePath", "symptom", "measured", "thermomechanical", "reviewed"}

LEMMA ShapeHolds == Spec => []Shape
<1>1. Init => Shape
  BY DEF Init, Shape
<1>2. Shape /\ [Next]_case => Shape'
  BY DEF Shape, Next, StateInput, WithdrawInput, Revise, SelectPattern, DropPattern
<1>3. QED
  BY <1>1, <1>2, PTL DEF Spec

(* No classification is left open iff none of the five is made.            *)
LEMMA NothingSecondary ==
  ASSUME NEW f, f.missing = {}
  PROVE  Secondary(f) = {} <=> /\ DiamondContext(f) => f.bounded
                               /\ ~f.packageUncertain
                               /\ ~f.thermomechanical
                               /\ f.symptom => f.measured
<1> DEFINE C == {"cooling_boundary_limited", "interface_limited_candidate",
                 "package_limited_candidate", "thermomechanical_validation_needed",
                 "measurement_limited"}
<1>1. Elements(Classes) = C
  <2>1. DOMAIN Classes = 1..5
    BY DEF Classes
  <2>2. /\ Classes[1] = "cooling_boundary_limited"
        /\ Classes[2] = "interface_limited_candidate"
        /\ Classes[3] = "package_limited_candidate"
        /\ Classes[4] = "thermomechanical_validation_needed"
        /\ Classes[5] = "measurement_limited"
    BY DEF Classes
  <2>3. 1..5 = {1, 2, 3, 4, 5}
    OBVIOUS
  <2> QED
    BY <2>1, <2>2, <2>3, Zenon DEF Elements
<1>2. Secondary(f) = {} <=> \A class \in C : ~Classified(f, class)
  BY <1>1, Zenon DEF Secondary
<1>3. /\ Classified(f, "cooling_boundary_limited") <=> FALSE
      /\ Classified(f, "interface_limited_candidate") <=> DiamondContext(f) /\ ~f.bounded
      /\ Classified(f, "package_limited_candidate") <=> f.packageUncertain
      /\ Classified(f, "thermomechanical_validation_needed") <=> f.thermomechanical
      /\ Classified(f, "measurement_limited") <=> f.symptom /\ ~f.measured
  BY DEF Classified
<1> HIDE DEF C
<1>4. \A class : class \in C <=> \/ class = "cooling_boundary_limited"
                                 \/ class = "interface_limited_candidate"
                                 \/ class = "package_limited_candidate"
                                 \/ class = "thermomechanical_validation_needed"
                                 \/ class = "measurement_limited"
  BY DEF C
<1> QED
  BY <1>2, <1>3, <1>4, Zenon

(* A board is ready for a human decision exactly if nothing is missing, a  *)
(* comparison has been reviewed and no classification is left open.        *)
LEMMA ReadyMeansClear ==
  ASSUME NEW f
  PROVE  StatusOf(f) = "READY_FOR_HUMAN_DECISION"
           <=> f.missing = {} /\ f.reviewed /\ Secondary(f) = {}
<1>1. Secondary(f) = {} => Secondary(f) # {"measurement_limited"}
  OBVIOUS
<1> QED
  BY <1>1 DEF StatusOf, TriageStatus

(* A board is held for data exactly if an input is missing.                *)
LEMMA HeldMeansMissing ==
  ASSUME NEW f
  PROVE  StatusOf(f) = "HOLD_FOR_DATA" <=> f.missing # {}
BY DEF StatusOf, TriageStatus

(* If only patterns are added, the diamond context is not lost, and with   *)
(* it no classification.                                                   *)
LEMMA SelectionAddsContext ==
  ASSUME Shape, Elements(case.patterns) \subseteq Elements(case'.patterns),
         case' = [case EXCEPT !.patterns = case'.patterns]
  PROVE  /\ case'.missing = case.missing
         /\ case'.reviewed = case.reviewed
         /\ case.missing = {} /\ Secondary(case') = {} => Secondary(case) = {}
<1>1. /\ case'.missing = case.missing
      /\ case'.diamond = case.diamond
      /\ case'.bounded = case.bounded
      /\ case'.packageUncertain = case.packageUncertain
      /\ case'.symptom = case.symptom
      /\ case'.measured = case.measured
      /\ case'.thermomechanical = case.thermomechanical
      /\ case'.reviewed = case.reviewed
  BY DEF Shape
<1>2. DiamondContext(case) => DiamondContext(case')
  BY <1>1 DEF DiamondContext
<1>3. ASSUME case.missing = {}, Secondary(case') = {}
      PROVE  Secondary(case) = {}
  <2>1. case'.missing = {}
    BY <1>1, <1>3
  <2>2. /\ DiamondContext(case') => case'.bounded
        /\ ~case'.packageUncertain /\ ~case'.thermomechanical
        /\ case'.symptom => case'.measured
    BY <2>1, <1>3, NothingSecondary
  <2>3. /\ DiamondContext(case) => case.bounded
        /\ ~case.packageUncertain /\ ~case.thermomechanical
        /\ case.symptom => case.measured
    BY <2>2, <1>1, <1>2
  <2> QED
    BY <2>3, <1>3, NothingSecondary
<1> QED
  BY <1>1, <1>3

(* Selecting patterns never makes a case ready for a human decision and    *)
(* never lifts a hold for data, whatever the patterns and however many.    *)
THEOREM SelectionAloneNeverReadies == Spec => SelectionNeverReadies
<1>1. ASSUME Shape, Elements(case.patterns) \subseteq Elements(case'.patterns),
             case' = [case EXCEPT !.patterns = case'.patterns]
      PROVE  /\ StatusOf(case') = "READY_FOR_HUMAN_DECISION" => StatusOf(case) = StatusOf(case')
             /\ StatusOf(case) = "HOLD_FOR_DATA" => StatusOf(case') = StatusOf(case)
  <2>1. /\ case'.missing = case.missing
        /\ case'.reviewed = case.reviewed
        /\ case.missing = {} /\ Secondary(case') = {} => Secondary(case) = {}
    BY <1>1, SelectionAddsContext
  <2>2. ASSUME StatusOf(case') = "READY_FOR_HUMAN_DECISION"
        PROVE  StatusOf(case) = StatusOf(case')
    <3>1. case'.missing = {} /\ case'.reviewed /\ Secondary(case') = {}
      BY <2>2, ReadyMeansClear
    <3>2. case.missing = {} /\ case.reviewed /\ Secondary(case) = {}
      BY <3>1, <2>1
    <3> QED
      BY <3>2, <2>2, ReadyMeansClear
  <2>3. ASSUME StatusOf(case) = "HOLD_FOR_DATA"
        PROVE  StatusOf(case') = StatusOf(case)
    BY <2>1, <2>3, HeldMeansMissing
  <2> QED
    BY <2>2, <2>3
<1>2. Shape /\ [Next]_case
        => [Elements(case.patterns) \subseteq Elements(case'.patterns)
            /\ case' = [case EXCEPT !.patterns = case'.patterns]
              => /\ StatusOf(case') = "READY_FOR_HUMAN_DECISION"
                      => StatusOf(case) = StatusOf(case')
                 /\ StatusOf(case) = "HOLD_FOR_DATA"
                      => StatusOf(case') = StatusOf(case)]_case
  BY <1>1
<1>3. QED
  BY <1>2, ShapeHolds, PTL DEF Spec, SelectionNeverReadies

(* A case is no longer ready only because something new is open: an input, *)
(* the review, the interface, the package, the reliability, a measurement. *)
THEOREM ReadinessIsLostToGaps == Spec => ReadyIsLostToGaps
<1>1. ASSUME StatusOf(case) = "READY_FOR_HUMAN_DECISION",
             case'.missing = {}, case'.reviewed,
             DiamondContext(case') => case'.bounded,
             case'.packageUncertain => case.packageUncertain,
             case'.thermomechanical => case.thermomechanical,
             case'.symptom => case'.measured
      PROVE  StatusOf(case') = StatusOf(case)
  <2>1. case.missing = {} /\ Secondary(case) = {}
    BY <1>1, ReadyMeansClear
  <2>2. ~case.packageUncertain /\ ~case.thermomechanical
    BY <2>1, NothingSecondary
  <2>3. Secondary(case') = {}
    BY <1>1, <2>2, NothingSecondary
  <2> QED
    BY <1>1, <2>3, ReadyMeansClear
<1>2. [Next]_case
        => [StatusOf(case) = "READY_FOR_HUMAN_DECISION" /\ StatusOf(case') # StatusOf(case)
              => \/ case'.missing # {} \/ ~case'.reviewed
                 \/ DiamondContext(case') /\ ~case'.bounded
                 \/ case'.packageUncertain /\ ~case.packageUncertain
                 \/ case'.thermomechanical /\ ~case.thermomechanical
                 \/ case'.symptom /\ ~case'.measured]_case
  BY <1>1
<1>3. QED
  BY <1>2, PTL DEF Spec, ReadyIsLostToGaps
-----------------------------------------------------------------------------
(* The lists of a board.                                                   *)

(* The patterns of a case are canonical and listed once each.              *)
Listed ==
  /\ Shape
  /\ case.patterns \in Seq(Route)
  /\ Distinct(case.patterns)

LEMMA ListedHolds == Spec => []Listed
<1>1. Init => Listed
  <2> SUFFICES ASSUME Init PROVE Listed
    OBVIOUS
  <2>1. Shape /\ (case.patterns = <<>> \/ \E r \in Route : case.patterns = <<r>>)
    BY DEF Init, Shape
  <2>2. <<>> \in Seq(Route) /\ Distinct(<<>>)
    BY DEF Distinct
  <2>3. ASSUME NEW r \in Route PROVE <<r>> \in Seq(Route) /\ Distinct(<<r>>)
    <3>1. DOMAIN <<r>> = {1}
      OBVIOUS
    <3> QED
      BY <3>1 DEF Distinct
  <2> QED
    BY <2>1, <2>2, <2>3 DEF Listed
<1>2. Listed /\ [Next]_case => Listed'
  <2> SUFFICES ASSUME Listed, [Next]_case PROVE Listed'
    OBVIOUS
  <2>1. Shape'
    BY DEF Listed, Shape, Next, StateInput, WithdrawInput, Revise, SelectPattern, DropPattern
  <2>2. CASE case'.patterns = case.patterns
    BY <2>1, <2>2 DEF Listed
  <2>3. ASSUME NEW r \in Route, SelectPattern(r) PROVE Listed'
    <3> DEFINE s == case.patterns
               t == Append(s, r)
    <3>1. case'.patterns = t
      BY <2>3 DEF Listed, Shape, SelectPattern
    <3>2. s \in Seq(Route) /\ Distinct(s) /\ \A i \in DOMAIN s : s[i] # r
      BY <2>3 DEF Listed, SelectPattern, Elements
    <3> HIDE DEF s
    <3>3. t \in Seq(Route) /\ DOMAIN t = 1..(Len(s) + 1) /\ t[Len(s) + 1] = r
          /\ Len(s) \in Nat /\ DOMAIN s = 1..Len(s) /\ \A i \in 1..Len(s) : t[i] = s[i]
      BY <3>2
    <3> HIDE DEF t
    <3>4. Distinct(t)
      <4> SUFFICES ASSUME NEW i \in 1..(Len(s) + 1), NEW j \in 1..(Len(s) + 1), i # j
                   PROVE  t[i] # t[j]
        BY <3>3 DEF Distinct
      <4>1. \A k \in 1..(Len(s) + 1) : k = Len(s) + 1 \/ (k \in DOMAIN s /\ t[k] = s[k])
        BY <3>3
      <4> QED
        BY <3>2, <3>3, <4>1 DEF Distinct
    <3> QED
      BY <2>1, <3>1, <3>3, <3>4 DEF Listed
  <2>4. ASSUME NEW r \in Route, DropPattern(r) PROVE Listed'
    <3>1. case'.patterns = Kept(case.patterns, Route \ {r})
      BY <2>4 DEF Listed, Shape, DropPattern
    <3> QED
      BY <2>1, <3>1, KeptFacts DEF Listed
  <2>5. ASSUME NEW x \in Elements(Critical), StateInput(x) \/ WithdrawInput(x)
        PROVE  case'.patterns = case.patterns
    BY <2>5 DEF Listed, Shape, StateInput, WithdrawInput
  <2>6. ASSUME NEW s \in Statement, Revise(s)
        PROVE  case'.patterns = case.patterns
    BY <2>6 DEF Listed, Shape, Revise, Statement
  <2> QED
    BY <2>2, <2>3, <2>4, <2>5, <2>6 DEF Next
<1> QED
  BY <1>1, <1>2, PTL DEF Spec

LEMMA JoinedFacts ==
  ASSUME NEW T, NEW s \in Seq(T), NEW t \in Seq(T)
  PROVE  /\ s \o t \in Seq(T) /\ Len(s \o t) = Len(s) + Len(t)
         /\ Elements(s \o t) = Elements(s) \cup Elements(t)
         /\ Distinct(s) /\ Distinct(t) /\ Elements(s) \cap Elements(t) = {} => Distinct(s \o t)
<1> DEFINE u == s \o t
<1>1. /\ u \in Seq(T) /\ Len(u) = Len(s) + Len(t) /\ DOMAIN u = 1..(Len(s) + Len(t))
      /\ Len(s) \in Nat /\ Len(t) \in Nat /\ DOMAIN s = 1..Len(s) /\ DOMAIN t = 1..Len(t)
  OBVIOUS
<1>2. \A i \in 1..Len(s) : u[i] = s[i]
  OBVIOUS
<1>3. \A i \in 1..Len(t) : u[Len(s) + i] = t[i]
  OBVIOUS
<1> HIDE DEF u
<1>4. \A i \in DOMAIN u : \/ i \in DOMAIN s /\ u[i] = s[i]
                          \/ i \notin DOMAIN s /\ i - Len(s) \in DOMAIN t /\ u[i] = t[i - Len(s)]
  <2> SUFFICES ASSUME NEW i \in 1..(Len(s) + Len(t)), i \notin 1..Len(s)
               PROVE  i - Len(s) \in 1..Len(t) /\ u[i] = t[i - Len(s)]
    BY <1>1, <1>2
  <2> DEFINE k == i - Len(s)
  <2>1. k \in 1..Len(t) /\ i = Len(s) + k
    BY <1>1
  <2> QED
    BY <1>3, <2>1
<1>5. Elements(u) = Elements(s) \cup Elements(t)
  <2>1. Elements(u) \subseteq Elements(s) \cup Elements(t)
    BY <1>4 DEF Elements
  <2>2. Elements(s) \subseteq Elements(u)
    <3>1. \A i \in DOMAIN s : i \in DOMAIN u /\ u[i] = s[i]
      BY <1>1, <1>2
    <3> QED
      BY <3>1 DEF Elements
  <2>3. Elements(t) \subseteq Elements(u)
    <3>1. \A i \in DOMAIN t : Len(s) + i \in DOMAIN u /\ u[Len(s) + i] = t[i]
      BY <1>1, <1>3
    <3> QED
      BY <3>1 DEF Elements
  <2> QED
    BY <2>1, <2>2, <2>3
<1>6. ASSUME Distinct(s), Distinct(t), Elements(s) \cap Elements(t) = {} PROVE Distinct(u)
  <2> SUFFICES ASSUME NEW i \in DOMAIN u, NEW j \in DOMAIN u, i # j PROVE u[i] # u[j]
    BY DEF Distinct
  <2>1. CASE i \in DOMAIN s /\ j \in DOMAIN s
    BY <1>4, <1>6, <2>1 DEF Distinct
  <2>2. CASE i \notin DOMAIN s /\ j \notin DOMAIN s
    <3>1. i - Len(s) # j - Len(s)
      BY <1>1
    <3> QED
      BY <1>4, <1>6, <2>2, <3>1 DEF Distinct
  <2>3. CASE i \in DOMAIN s /\ j \notin DOMAIN s
    <3>1. u[i] \in Elements(s) /\ u[j] \in Elements(t)
      BY <1>4, <2>3 DEF Elements
    <3> QED
      BY <1>6, <3>1
  <2>4. CASE i \notin DOMAIN s /\ j \in DOMAIN s
    <3>1. u[j] \in Elements(s) /\ u[i] \in Elements(t)
      BY <1>4, <2>4 DEF Elements
    <3> QED
      BY <1>6, <3>1
  <2> QED
    BY <2>1, <2>2, <2>3, <2>4
<1> QED
  BY <1>1, <1>5, <1>6 DEF u

LEMMA DistinctCount ==
  ASSUME NEW T, NEW s \in Seq(T), Distinct(s)
  PROVE  Len(s) = Cardinality(Elements(s))
<1>1. DOMAIN s = 1..Len(s) /\ Len(s) \in Nat
  OBVIOUS
<1>2. IsFiniteSet(1..Len(s)) /\ Cardinality(1..Len(s)) = Len(s)
  BY <1>1, FS_Interval
<1>3. s \in Bijection(1..Len(s), Elements(s))
  BY <1>1 DEF Bijection, Injection, Surjection, IsInjective, Elements, Distinct
<1> QED
  BY <1>2, <1>3, FS_Bijection DEF ExistsBijection

(* What is deferred, and that no route is deferred for two reasons.        *)
LEMMA DeferredIs ==
  ASSUME NEW f, f.patterns \in Seq(Route), Distinct(f.patterns)
  PROVE  /\ Deferred(f) \in Seq(Route) /\ Distinct(Deferred(f))
         /\ \A r : r \in Elements(Deferred(f)) <=>
              /\ r \in Elements(f.patterns)
              /\ \/ r = GanOnDiamond /\ f.missing # {}
                 \/ r \in Diamond /\ r # GanOnDiamond /\ InterfaceOpen(f)
<1> DEFINE A == IF f.missing # {} THEN {GanOnDiamond} ELSE {}
           B == IF InterfaceOpen(f) THEN Diamond \ {GanOnDiamond} ELSE {}
           s == Kept(f.patterns, A)
           t == Kept(f.patterns, B)
<1>1. A \cap B = {}
  OBVIOUS
<1>2. Deferred(f) = s \o t
  BY DEF Deferred
<1>3. \A r : r \in A \cup B <=> \/ r = GanOnDiamond /\ f.missing # {}
                                \/ r \in Diamond /\ r # GanOnDiamond /\ InterfaceOpen(f)
  OBVIOUS
<1> HIDE DEF A, B
<1>4. s \in Seq(Route) /\ Distinct(s) /\ Elements(s) = Elements(f.patterns) \cap A
  BY KeptFacts
<1>5. t \in Seq(Route) /\ Distinct(t) /\ Elements(t) = Elements(f.patterns) \cap B
  BY KeptFacts
<1> HIDE DEF s, t
<1>6. s \o t \in Seq(Route) /\ Distinct(s \o t) /\ Elements(s \o t) = Elements(s) \cup Elements(t)
  BY <1>1, <1>4, <1>5, JoinedFacts
<1> QED
  BY <1>2, <1>3, <1>4, <1>5, <1>6

(* Routes are framed consistently, whatever the case states.               *)
THEOREM DeferredAreAlwaysFramed == Spec => []DeferredAreFramed
<1>1. Listed => DeferredAreFramed
  <2> SUFFICES ASSUME Listed PROVE DeferredAreFramed
    OBVIOUS
  <2>1. case.patterns \in Seq(Route) /\ Distinct(case.patterns)
    BY DEF Listed
  <2>2. /\ Deferred(case) \in Seq(Route) /\ Distinct(Deferred(case))
        /\ \A r : r \in Elements(Deferred(case)) <=>
             /\ r \in Elements(case.patterns)
             /\ \/ r = GanOnDiamond /\ case.missing # {}
                \/ r \in Diamond /\ r # GanOnDiamond /\ InterfaceOpen(case)
    BY <2>1, DeferredIs
  <2>3. Len(Deferred(case)) = Cardinality(Elements(Deferred(case)))
    BY <2>2, DistinctCount
  <2>4. ASSUME NEW r \in Elements(Deferred(case))
        PROVE  /\ r \in Elements(case.patterns)
               /\ RouteStatus(case, r) \in {"needs_data", "needs_validation"}
               /\ RouteUncertainties(case, r) \cap {"data", "interface unbounded"} # {}
    <3>1. CASE r = GanOnDiamond /\ case.missing # {}
      BY <2>2, <3>1 DEF RouteStatus, RouteUncertainties
    <3>2. CASE r \in Diamond /\ r # GanOnDiamond /\ InterfaceOpen(case)
      BY <2>2, <3>2 DEF RouteStatus, RouteUncertainties
    <3> QED
      BY <2>2, <3>1, <3>2
  <2>5. ASSUME NEW r \in Elements(case.patterns) \cap Diamond
        PROVE  RouteUncertainties(case, r) \cap {"interface unbounded", "interface review"} # {}
    BY DEF RouteUncertainties
  <2> QED
    BY <2>3, <2>4, <2>5 DEF DeferredAreFramed
<1> QED
  BY <1>1, ListedHolds, PTL

(* The five secondary classifications, in order.                           *)
LEMMA ClassOrder ==
  /\ DOMAIN Classes = 1..5
  /\ Classes[1] = "cooling_boundary_limited"
  /\ Classes[2] = "interface_limited_candidate"
  /\ Classes[3] = "package_limited_candidate"
  /\ Classes[4] = "thermomechanical_validation_needed"
  /\ Classes[5] = "measurement_limited"
BY DEF Classes

(* The first of s that is in S is in both, and nothing before it is in S.  *)
LEMMA FirstIs ==
  ASSUME NEW T, NEW s \in Seq(T), NEW S, Elements(s) \cap S # {}
  PROVE  \E i \in DOMAIN s : /\ FirstOf(s, S) = s[i] /\ s[i] \in S
                             /\ \A j \in DOMAIN s : j < i => s[j] \notin S
<1> DEFINE I == {i \in DOMAIN s : s[i] \in S}
<1>1. DOMAIN s = 1..Len(s) /\ Len(s) \in Nat
  OBVIOUS
<1>2. I \in SUBSET Nat /\ I # {}
  BY <1>1 DEF Elements
<1>3. IsWellFoundedOn(OpToRel(<, Nat), Nat)
  BY NatLessThanWellFounded
<1>4. PICK m \in I : \A n \in I : ~(<<n, m>> \in OpToRel(<, Nat))
  BY <1>2, <1>3, WFMin
<1>5. \A a \in Nat, b \in Nat : a < b => <<a, b>> \in OpToRel(<, Nat)
  BY DEF OpToRel
<1>6. m \in DOMAIN s /\ s[m] \in S /\ \A j \in DOMAIN s : j < m => s[j] \notin S
  <2>1. m \in DOMAIN s /\ s[m] \in S /\ m \in Nat
    BY <1>2
  <2>2. ASSUME NEW j \in DOMAIN s, j < m, s[j] \in S PROVE FALSE
    <3>1. j \in I /\ j \in Nat
      BY <1>1, <2>2
    <3>2. <<j, m>> \in OpToRel(<, Nat)
      BY <1>5, <2>1, <2>2, <3>1
    <3> QED
      BY <1>4, <3>1, <3>2
  <2> QED
    BY <2>1, <2>2
<1> QED
  BY <1>6 DEF FirstOf

LEMMA ClassElements ==
  \A c : c \in Elements(Classes) <=> \/ c = "cooling_boundary_limited"
                                     \/ c = "interface_limited_candidate"
                                     \/ c = "package_limited_candidate"
                                     \/ c = "thermomechanical_validation_needed"
                                     \/ c = "measurement_limited"
<1>1. 1..5 = {1, 2, 3, 4, 5}
  OBVIOUS
<1>2. Elements(Classes) = {Classes[1], Classes[2], Classes[3], Classes[4], Classes[5]}
  BY <1>1, ClassOrder, Zenon DEF Elements
<1> QED
  BY <1>2, ClassOrder, Zenon

(* No input is missing but the critical ones.                              *)
Known == Shape /\ case.missing \subseteq Elements(Critical)

LEMMA KnownHolds == Spec => []Known
<1>1. Init => Known
  BY DEF Init, Known, Shape
<1>2. Known /\ [Next]_case => Known'
  <2> SUFFICES ASSUME Known, [Next]_case PROVE Known'
    OBVIOUS
  <2>1. Shape'
    BY DEF Known, Shape, Next, StateInput, WithdrawInput, Revise, SelectPattern, DropPattern
  <2>2. ASSUME NEW x \in Elements(Critical), StateInput(x) \/ WithdrawInput(x)
        PROVE  case'.missing \subseteq case.missing \cup {x}
    BY <2>2 DEF Known, Shape, StateInput, WithdrawInput
  <2>3. ASSUME NEW s \in Statement, Revise(s) PROVE case'.missing = case.missing
    BY <2>3 DEF Known, Shape, Revise, Statement
  <2>4. ASSUME NEW r \in Route, SelectPattern(r) \/ DropPattern(r)
        PROVE  case'.missing = case.missing
    BY <2>4 DEF Known, Shape, SelectPattern, DropPattern
  <2>5. case'.missing \subseteq Elements(Critical)
    BY <2>2, <2>3, <2>4 DEF Next, Known
  <2> QED
    BY <2>1, <2>5 DEF Known
<1> QED
  BY <1>1, <1>2, PTL DEF Spec

LEMMA CriticalIs ==
  /\ Critical \in Seq({"heat_source_geometry", "power_or_power_density", "cooling_boundary"})
  /\ Classes \in Seq(Elements(Classes))
BY DEF Critical, Classes, Elements

(* Triage names the lack of a measurement as its top uncertainty only if   *)
(* nothing else is open: it is the last class.                             *)
LEMMA MeasurementComesLast ==
  ASSUME NEW f, f.missing \subseteq Elements(Critical), TopUncertainty(f) = "measurement_limited"
  PROVE  f.missing = {} /\ ~f.thermomechanical /\ Secondary(f) = {"measurement_limited"}
<1>1. f.missing = {}
  <2> SUFFICES ASSUME f.missing # {} PROVE FALSE
    OBVIOUS
  <2>1. PICK i \in DOMAIN Critical : FirstOf(Critical, f.missing) = Critical[i]
    BY CriticalIs, FirstIs
  <2>2. Critical[i] \in {"heat_source_geometry", "power_or_power_density", "cooling_boundary"}
    BY CriticalIs
  <2>3. FirstOf(Critical, f.missing) = "measurement_limited"
    BY DEF TopUncertainty
  <2> QED
    BY <2>1, <2>2, <2>3
<1>2. ~f.thermomechanical /\ Secondary(f) # {}
      /\ FirstOf(Classes, Secondary(f)) = "measurement_limited"
  BY <1>1 DEF TopUncertainty
<1>3. Secondary(f) \subseteq Elements(Classes)
  BY DEF Secondary
<1>4. PICK i \in DOMAIN Classes :
        /\ Classes[i] = "measurement_limited" /\ Classes[i] \in Secondary(f)
        /\ \A j \in DOMAIN Classes : j < i => Classes[j] \notin Secondary(f)
  BY <1>2, <1>3, CriticalIs, FirstIs
<1>5. i = 5
  <2>1. i = 1 \/ i = 2 \/ i = 3 \/ i = 4 \/ i = 5
    BY <1>4, ClassOrder
  <2> QED
    BY <1>4, <2>1, ClassOrder
<1>6. \A j \in 1..4 : Classes[j] \notin Secondary(f)
  BY <1>4, <1>5, ClassOrder
<1>7. /\ "cooling_boundary_limited" \notin Secondary(f)
      /\ "interface_limited_candidate" \notin Secondary(f)
      /\ "package_limited_candidate" \notin Secondary(f)
      /\ "thermomechanical_validation_needed" \notin Secondary(f)
  BY <1>6, ClassOrder
<1>8. "measurement_limited" \in Secondary(f)
  BY <1>4
<1>9. \A c : c \in Secondary(f) <=> c = "measurement_limited"
  BY <1>3, <1>7, <1>8, ClassElements
<1> QED
  BY <1>1, <1>2, <1>9

(* Triage names the interface only if it is open.                          *)
LEMMA InterfaceIsOpen ==
  ASSUME NEW f, f.missing \subseteq Elements(Critical),
         TopUncertainty(f) = "interface_limited_candidate"
  PROVE  InterfaceOpen(f)
<1>1. f.missing = {}
  <2> SUFFICES ASSUME f.missing # {} PROVE FALSE
    OBVIOUS
  <2>1. PICK i \in DOMAIN Critical : FirstOf(Critical, f.missing) = Critical[i]
    BY CriticalIs, FirstIs
  <2>2. Critical[i] \in {"heat_source_geometry", "power_or_power_density", "cooling_boundary"}
    BY CriticalIs
  <2>3. FirstOf(Critical, f.missing) = "interface_limited_candidate"
    BY DEF TopUncertainty
  <2> QED
    BY <2>1, <2>2, <2>3
<1>2. Secondary(f) # {} /\ FirstOf(Classes, Secondary(f)) = "interface_limited_candidate"
  BY <1>1 DEF TopUncertainty
<1>3. Secondary(f) \subseteq Elements(Classes)
  BY DEF Secondary
<1>4. PICK i \in DOMAIN Classes : FirstOf(Classes, Secondary(f)) = Classes[i]
                                  /\ Classes[i] \in Secondary(f)
  BY <1>2, <1>3, CriticalIs, FirstIs
<1> QED
  BY <1>2, <1>4 DEF InterfaceOpen

(* The actions besides that of triage are at most four, and all that are   *)
(* wanted are among them.                                                  *)
LEMMA ActionsAre ==
  ASSUME NEW f
  PROVE  /\ NextActions(f) = AllActions(f)
         /\ TriageAction(f) \in Elements(AllActions(f))
         /\ \A x \in {"interface", "powered mapping", "comparison basis", "criteria"} :
              x \in Wanted(f) => x \in Elements(AllActions(f))
<1> DEFINE more == <<"interface", "powered mapping", "comparison basis", "criteria">>
           A == {"interface", "powered mapping", "comparison basis", "criteria"}
           T == A \cup {TriageAction(f)}
           first == <<TriageAction(f)>>
           k == Kept(more, Wanted(f))
<1>1. more \in Seq(T) /\ Len(more) = 4
  OBVIOUS
<1>2. \A x \in A : x \in Elements(more)
  <2>1. DOMAIN more = 1..4 /\ more[1] = "interface" /\ more[2] = "powered mapping"
        /\ more[3] = "comparison basis" /\ more[4] = "criteria"
    OBVIOUS
  <2>2. 1 \in 1..4 /\ 2 \in 1..4 /\ 3 \in 1..4 /\ 4 \in 1..4
    OBVIOUS
  <2> HIDE DEF more
  <2>3. \A i \in 1..4 : more[i] \in Elements(more)
    BY <2>1 DEF Elements
  <2> QED
    BY <2>1, <2>2, <2>3
<1>3. first \in Seq(T) /\ Len(first) = 1 /\ TriageAction(f) \in Elements(first)
  <2>1. DOMAIN first = 1..1 /\ first[1] = TriageAction(f) /\ 1 \in 1..1
    OBVIOUS
  <2>2. TriageAction(f) \in Elements(first)
    BY <2>1 DEF Elements
  <2> QED
    BY <2>2
<1>4. AllActions(f) = first \o k
  BY DEF AllActions
<1> HIDE DEF more, T, first
<1>5. k \in Seq(T) /\ Len(k) \in Nat /\ Len(k) <= 4 /\ Elements(k) = Elements(more) \cap Wanted(f)
  BY <1>1, KeptFacts
<1> HIDE DEF k
<1>6. first \o k \in Seq(T) /\ Len(first \o k) = Len(first) + Len(k)
      /\ Elements(first \o k) = Elements(first) \cup Elements(k)
  <2>1. first \in Seq(T) /\ k \in Seq(T)
    BY <1>3, <1>5
  <2> QED
    BY ONLY <2>1, JoinedFacts
<1> DEFINE all == AllActions(f)
<1>7. all \in Seq(T) /\ Len(all) \in Nat /\ Len(all) <= 5
      /\ Elements(all) = Elements(first) \cup Elements(k)
  BY <1>3, <1>4, <1>5, <1>6
<1> HIDE DEF all
<1>8. SubSeq(all, 1, Len(all)) = all
  BY <1>7
<1>9. NextActions(f) = SubSeq(all, 1, IF Len(all) < 5 THEN Len(all) ELSE 5)
  BY DEF NextActions, all
<1>10. Len(all) < 5 \/ Len(all) = 5
  <2>1. \A n \in Nat : n <= 5 => n < 5 \/ n = 5
    OBVIOUS
  <2>2. Len(all) \in Nat /\ Len(all) <= 5
    BY <1>7
  <2> QED
    BY <2>1, <2>2, Zenon
<1>11. NextActions(f) = all
  BY <1>8, <1>9, <1>10
<1>12. TriageAction(f) \in Elements(all)
  BY <1>3, <1>7
<1>13. \A x \in A : x \in Wanted(f) => x \in Elements(all)
  BY <1>2, <1>5, <1>7
<1> QED
  BY <1>11, <1>12, <1>13 DEF all

(* The cut at five never takes an action away, and what triage is most     *)
(* uncertain about is acted upon.                                          *)
THEOREM ActionsAreNeverCut == Spec => []NoActionIsCut
<1>1. Known => NoActionIsCut
  <2> SUFFICES ASSUME Known PROVE NoActionIsCut
    OBVIOUS
  <2>1. case.missing \subseteq Elements(Critical)
    BY DEF Known
  <2>2. NextActions(case) = AllActions(case)
    BY ActionsAre
  <2>3. ASSUME TopUncertainty(case) = "interface_limited_candidate"
        PROVE  "interface" \in Elements(NextActions(case))
    <3>1. "interface" \in Wanted(case)
      BY <2>1, <2>3, InterfaceIsOpen DEF Wanted
    <3> QED
      BY <2>2, <3>1, ActionsAre
  <2>4. ASSUME TopUncertainty(case) = "measurement_limited"
        PROVE  {"measurement", "powered mapping"} \subseteq Elements(NextActions(case))
    <3>1. /\ case.missing = {} /\ ~case.thermomechanical
          /\ Secondary(case) = {"measurement_limited"}
      BY <2>1, <2>4, MeasurementComesLast
    <3>2. TriageAction(case) = "measurement"
      BY <3>1 DEF TriageAction, TriageStatus
    <3>3. "powered mapping" \in Wanted(case)
      BY <3>1 DEF Wanted
    <3> QED
      BY <2>2, <3>2, <3>3, ActionsAre
  <2> QED
    BY <2>2, <2>3, <2>4 DEF NoActionIsCut
<1> QED
  BY <1>1, KnownHolds, PTL

(* A board that is ready for a human decision hides no gap, neither in its *)
(* routes nor in what it asks for next.                                    *)
THEOREM ReadyBoardsHideNoGap == Spec => []ReadyHidesNoGap
<1>1. Listed => ReadyHidesNoGap
  <2> SUFFICES ASSUME Listed, StatusOf(case) = "READY_FOR_HUMAN_DECISION"
               PROVE  /\ case.missing = {} /\ case.reviewed
                      /\ Deferred(case) = <<>>
                      /\ \A r \in RoutesOf(case) :
                           /\ RouteStatus(case, r) \notin {"needs_data", "needs_validation"}
                           /\ r \in Diamond => case.bounded
                      /\ case.symptom => case.measured
                      /\ Primary(case) \notin {"insufficient_data", "measurement_limited"}
                      /\ TriageAction(case) = "comparison"
                      /\ TopUncertainty(case) = "comparison"
    BY DEF ReadyHidesNoGap
  <2>1. case.missing = {} /\ case.reviewed /\ Secondary(case) = {}
    BY ReadyMeansClear
  <2>2. /\ DiamondContext(case) => case.bounded
        /\ ~case.thermomechanical
        /\ case.symptom => case.measured
    BY <2>1, NothingSecondary
  <2>3. ~InterfaceOpen(case)
    BY <2>1 DEF InterfaceOpen
  <2>4. case.patterns \in Seq(Route) /\ Distinct(case.patterns)
    BY DEF Listed
  <2>5. Deferred(case) \in Seq(Route) /\ Elements(Deferred(case)) = {}
    BY <2>1, <2>3, <2>4, DeferredIs
  <2>6. Deferred(case) = <<>>
    <3> DEFINE d == Deferred(case)
    <3> HIDE DEF d
    <3>1. d \in Seq(Route) /\ DOMAIN d = {}
      BY <2>5 DEF Elements, d
    <3>2. d = <<>>
      BY <3>1
    <3> QED
      BY <3>2 DEF d
  <2>7. ASSUME NEW r \in RoutesOf(case)
        PROVE  /\ RouteStatus(case, r) \notin {"needs_data", "needs_validation"}
               /\ r \in Diamond => case.bounded
    <3>1. r \in Elements(case.patterns)
      BY <2>5 DEF RoutesOf
    <3>2. r \in Diamond => case.bounded
      BY <2>2, <3>1 DEF DiamondContext
    <3>3. RouteStatus(case, r) \in {"human_review_required", "screening_only"}
      <4>1. CASE r = GanOnDiamond
        BY <2>1, <4>1 DEF RouteStatus
      <4>2. CASE r # GanOnDiamond
        BY <2>1, <2>3, <4>2 DEF RouteStatus
      <4> QED
        BY <4>1, <4>2
    <3> QED
      BY <3>2, <3>3
  <2>8. TriageStatus(case) = "READY_FOR_SCREENING"
    BY <2>1 DEF TriageStatus
  <2>9. Primary(case) \notin {"insufficient_data", "measurement_limited"}
    <3>1. CASE MaterialReady(case)
      BY <2>8, <3>1 DEF Primary
    <3>2. CASE ~MaterialReady(case)
      BY <2>8, <3>2 DEF Primary
    <3> QED
      BY <3>1, <3>2
  <2>10. TriageAction(case) = "comparison" /\ TopUncertainty(case) = "comparison"
    BY <2>1, <2>2, <2>8 DEF TriageAction, TopUncertainty
  <2> QED
    BY <2>1, <2>2, <2>6, <2>7, <2>9, <2>10
<1> QED
  BY <1>1, ListedHolds, PTL
=============================================================================
