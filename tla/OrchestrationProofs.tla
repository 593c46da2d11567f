------------------------- MODULE OrchestrationProofs -------------------------
(***************************************************************************)
(* What holds of a call for any problems and plans it may be made with,    *)
(* any arithmetic, and any limit of the ambient context.                   *)
(***************************************************************************)
EXTENDS Orchestration, WellFoundedInduction, FiniteSetTheorems, TLAPS

-----------------------------------------------------------------------------
(* Numbers, sequences and orders.                                          *)

(* Induction over the natural numbers, on a set of them.                   *)
LEMMA NoneLeftOut ==
  ASSUME NEW N \in SUBSET Nat, 0 \in N, \A n \in N : n + 1 \in N
  PROVE  N = Nat
<1> SUFFICES ASSUME N # Nat PROVE FALSE
  OBVIOUS
<1> DEFINE S == Nat \ N
<1>1. S \in SUBSET Nat /\ S # {}
  OBVIOUS
<1>2. IsWellFoundedOn(OpToRel(<, Nat), Nat)
  BY NatLessThanWellFounded
<1>3. PICK m \in S : \A n \in S : ~(<<n, m>> \in OpToRel(<, Nat))
  BY <1>1, <1>2, WFMin
<1>4. m \in Nat \ {0} /\ m - 1 \in Nat /\ m - 1 < m
  BY <1>1
<1>5. m - 1 \notin S
  <2>1. \A a \in Nat, b \in Nat : a < b => <<a, b>> \in OpToRel(<, Nat)
    BY DEF OpToRel
  <2> QED
    BY <1>3, <1>4, <2>1
<1>6. (m - 1) + 1 \in N
  BY <1>4, <1>5
<1> QED
  BY <1>4, <1>6

(* The first n steps of the recursion that defines Product.                *)
Multiplies(g, s, n) ==
  g = [k \in 0..n |-> IF k = 0 THEN 1 ELSE g[k - 1] * s[k]]

LEMMA ProductExists ==
  ASSUME NEW s, NEW n \in Nat
  PROVE  \E g : Multiplies(g, s, n)
<1> DEFINE N == {m \in Nat : \E g : Multiplies(g, s, m)}
<1>1. 0 \in N
  <2> DEFINE g == [k \in 0..0 |-> 1]
  <2>1. g = [k \in 0..0 |-> IF k = 0 THEN 1 ELSE g[k - 1] * s[k]]
    BY \A k \in 0..0 : k = 0
  <2> QED
    BY <2>1 DEF Multiplies
<1>2. ASSUME NEW m \in N PROVE m + 1 \in N
  <2>1. PICK g : Multiplies(g, s, m)
    OBVIOUS
  <2>0. m \in Nat
    OBVIOUS
  <2> DEFINE h == [k \in 0..(m + 1) |-> IF k = m + 1 THEN g[m] * s[m + 1] ELSE g[k]]
             r(k) == IF k = 0 THEN 1 ELSE h[k - 1] * s[k]
  <2>2. ASSUME NEW k \in 0..(m + 1) PROVE h[k] = r(k)
    <3>1. CASE k = m + 1
      <4>1. k # 0 /\ k - 1 = m /\ m \in 0..(m + 1) /\ m # m + 1
        BY <2>0, <3>1
      <4>2. h[m] = g[m]
        BY <4>1
      <4>3. h[k] = g[m] * s[m + 1]
        BY <3>1
      <4> HIDE DEF h
      <4>4. r(k) = h[m] * s[m + 1]
        BY <3>1, <4>1
      <4> QED
        BY <4>2, <4>3, <4>4
    <3>2. CASE k # m + 1
      <4>1. k \in 0..m /\ (k # 0 => k - 1 \in 0..m) /\ k - 1 # m + 1
        BY <2>0, <3>2
      <4>2. g[k] = IF k = 0 THEN 1 ELSE g[k - 1] * s[k]
        BY <2>1, <4>1 DEF Multiplies
      <4>3. k # 0 => h[k - 1] = g[k - 1]
        BY <2>0, <4>1
      <4>4. h[k] = g[k]
        BY <3>2
      <4> HIDE DEF h
      <4>5. r(k) = IF k = 0 THEN 1 ELSE g[k - 1] * s[k]
        BY <4>3
      <4> QED
        BY <4>2, <4>4, <4>5
    <3> QED
      BY <3>1, <3>2
  <2>3. h = [k \in 0..(m + 1) |-> h[k]]
    OBVIOUS
  <2>4. h = [k \in 0..(m + 1) |-> r(k)]
    BY <2>2, <2>3
  <2>5. Multiplies(h, s, m + 1)
    BY <2>4 DEF Multiplies
  <2> QED
    BY <2>0, <2>5
<1> HIDE DEF N
<1>3. N = Nat
  <2>1. N \in SUBSET Nat
    BY DEF N
  <2> QED
    BY <1>1, <1>2, <2>1, NoneLeftOut
<1> QED
  BY <1>3 DEF N

(* A product of positive numbers is one.                                   *)
LEMMA ProductIsPositive ==
  ASSUME NEW s, Len(s) \in Nat, \A k \in 1..Len(s) : s[k] \in Nat \ {0}
  PROVE  Product(s) \in Nat \ {0}
<1> DEFINE f == CHOOSE g : Multiplies(g, s, Len(s))
<1>1. Multiplies(f, s, Len(s))
  BY ProductExists
<1>2. Product(s) = f[Len(s)]
  BY Zenon DEF Product, Multiplies
<1> HIDE DEF f
<1>3. f[0] = 1 /\ \A k \in 1..Len(s) : f[k] = f[k - 1] * s[k]
  <2>1. \A k \in 0..Len(s) : f[k] = IF k = 0 THEN 1 ELSE f[k - 1] * s[k]
    BY <1>1 DEF Multiplies
  <2>2. 0 \in 0..Len(s) /\ \A k \in 1..Len(s) : k \in 0..Len(s) /\ k # 0
    OBVIOUS
  <2> QED
    BY <2>1, <2>2
<1> DEFINE N == {n \in Nat : n <= Len(s) => f[n] \in Nat \ {0}}
<1>4. 0 \in N
  BY <1>3
<1>5. ASSUME NEW n \in N PROVE n + 1 \in N
  <2> SUFFICES ASSUME n + 1 <= Len(s) PROVE f[n + 1] \in Nat \ {0}
    OBVIOUS
  <2>1. n \in Nat /\ f[n] \in Nat \ {0} /\ n + 1 \in 1..Len(s) /\ (n + 1) - 1 = n
    OBVIOUS
  <2>2. f[n + 1] = f[n] * s[n + 1] /\ s[n + 1] \in Nat \ {0}
    BY <1>3, <2>1
  <2>3. \A a, b \in Nat \ {0} : a * b \in Nat \ {0}
    OBVIOUS
  <2> QED
    BY <2>1, <2>2, <2>3
<1> HIDE DEF N
<1>6. N = Nat
  <2>1. N \in SUBSET Nat
    BY DEF N
  <2> QED
    BY <1>4, <1>5, <2>1, NoneLeftOut
<1> QED
  BY <1>2, <1>6 DEF N

LEMMA JoinedElements ==
  ASSUME NEW T, NEW s \in Seq(T), NEW t \in Seq(T)
  PROVE  Elements(s \o t) = Elements(s) \cup Elements(t)
<1> DEFINE u == s \o t
<1>1. /\ DOMAIN u = 1..(Len(s) + Len(t))
      /\ Len(s) \in Nat /\ Len(t) \in Nat /\ DOMAIN s = 1..Len(s) /\ DOMAIN t = 1..Len(t)
  OBVIOUS
<1>2. \A i \in 1..Len(s) : u[i] = s[i]
  OBVIOUS
<1>3. \A i \in 1..Len(t) : u[Len(s) + i] = t[i]
  OBVIOUS
<1> HIDE DEF u
<1>4. \A i \in DOMAIN u : \/ i \in DOMAIN s /\ u[i] = s[i]
                          \/ i - Len(s) \in DOMAIN t /\ u[i] = t[i - Len(s)]
  <2> SUFFICES ASSUME NEW i \in 1..(Len(s) + Len(t)), i \notin 1..Len(s)
               PROVE  i - Len(s) \in 1..Len(t) /\ u[i] = t[i - Len(s)]
    BY <1>1, <1>2
  <2> DEFINE k == i - Len(s)
  <2>1. k \in 1..Len(t) /\ i = Len(s) + k
    BY <1>1
  <2> QED
    BY <1>3, <2>1
<1>5. Elements(u) \subseteq Elements(s) \cup Elements(t)
  BY <1>4 DEF Elements
<1>6. Elements(s) \subseteq Elements(u)
  <2>1. \A i \in DOMAIN s : i \in DOMAIN u /\ u[i] = s[i]
    BY <1>1, <1>2
  <2> QED
    BY <2>1 DEF Elements
<1>7. Elements(t) \subseteq Elements(u)
  <2>1. \A i \in DOMAIN t : Len(s) + i \in DOMAIN u /\ u[Len(s) + i] = t[i]
    BY <1>1, <1>3
  <2> QED
    BY <2>1 DEF Elements
<1> QED
  BY <1>5, <1>6, <1>7 DEF u

LEMMA ElementsAreFinite ==
  ASSUME NEW T, NEW s \in Seq(T)
  PROVE  IsFiniteSet(Elements(s))
<1> DEFINE n == Len(s)
           E == Elements(s)
<1>1. n \in Nat /\ DOMAIN s = 1..n
  OBVIOUS
<1>2. IsFiniteSet(1..n)
  BY <1>1, FS_Interval
<1>3. s = [i \in 1..n |-> s[i]] /\ \A i \in 1..n : s[i] \in E
  BY <1>1 DEF Elements
<1>4. \A x \in E : \E i \in 1..n : s[i] = x
  BY <1>1 DEF Elements
<1> HIDE DEF n, E
<1>5. s \in [1..n -> E]
  BY <1>3
<1>6. s \in Surjection(1..n, E)
  BY <1>4, <1>5 DEF Surjection
<1>7. IsFiniteSet(E)
  BY <1>2, <1>6, FS_Surjection
<1> QED
  BY <1>7 DEF E

(* R is a strict order of all of S.                                        *)
Orders(R, S) ==
  /\ \A a \in S : <<a, a>> \notin R
  /\ \A a, b \in S : a # b => <<a, b>> \in R \/ <<b, a>> \in R
  /\ \A a, b, c \in S : <<a, b>> \in R /\ <<b, c>> \in R => <<a, c>> \in R

(* An element's place is after the number of elements before it.           *)
LEMMA OrderingExists ==
  ASSUME NEW S, IsFiniteSet(S), NEW R, Orders(R, S)
  PROVE  \E s \in [1..Cardinality(S) -> S] :
           \A i, j \in 1..Cardinality(S) : i < j => <<s[i], s[j]>> \in R
<1> DEFINE n == Cardinality(S)
           below(x) == {y \in S : <<y, x>> \in R}
           place == [x \in S |-> Cardinality(below(x)) + 1]
<1>1. n \in Nat
  BY FS_CardinalityType
<1>2. \A x \in S : IsFiniteSet(below(x)) /\ Cardinality(below(x)) \in Nat
  <2> TAKE x \in S
  <2>1. below(x) \in SUBSET S
    OBVIOUS
  <2>2. IsFiniteSet(below(x))
    BY <2>1, FS_Subset
  <2> QED
    BY <2>2, FS_CardinalityType
<1>3. ASSUME NEW x \in S PROVE Cardinality(below(x)) < n
  <2>1. below(x) \in SUBSET S /\ below(x) # S
    BY DEF Orders
  <2>2. Cardinality(below(x)) <= n /\ (n = Cardinality(below(x)) => S = below(x))
    BY <2>1, FS_Subset
  <2> QED
    BY <1>1, <1>2, <2>1, <2>2
<1>4. ASSUME NEW x \in S, NEW y \in S, <<x, y>> \in R
      PROVE  Cardinality(below(x)) < Cardinality(below(y))
  <2>1. below(x) \in SUBSET below(y)
    BY <1>4 DEF Orders
  <2>2. x \in below(y) /\ x \notin below(x)
    BY <1>4 DEF Orders
  <2> DEFINE A == below(x)
             B == below(y)
  <2>3. A \in SUBSET B /\ A # B /\ IsFiniteSet(B)
    BY <1>2, <2>1, <2>2
  <2>4. Cardinality(A) \in Nat /\ Cardinality(B) \in Nat
    BY <1>2
  <2> HIDE DEF A, B
  <2>5. Cardinality(A) <= Cardinality(B) /\ (Cardinality(B) = Cardinality(A) => B = A)
    BY <2>3, FS_Subset
  <2>6. Cardinality(A) < Cardinality(B)
    BY <2>3, <2>4, <2>5
  <2> QED
    BY <2>6 DEF A, B
<1> DEFINE count == [x \in S |-> Cardinality(below(x))]
<1>13. \A x \in S : count[x] \in Nat /\ count[x] < n /\ place[x] = count[x] + 1
  BY <1>2, <1>3
<1>14. \A x, y \in S : <<x, y>> \in R => count[x] < count[y]
  BY <1>4
<1> HIDE DEF count
<1>5. \A x \in S : place[x] \in 1..n
  <2> TAKE x \in S
  <2>1. count[x] \in Nat /\ count[x] < n /\ place[x] = count[x] + 1
    BY <1>13
  <2> HIDE DEF place, n
  <2> QED
    BY <1>1, <2>1 DEF n
<1>6. \A x, y \in S : <<x, y>> \in R => place[x] < place[y]
  <2> TAKE x \in S, y \in S
  <2> HAVE <<x, y>> \in R
  <2>1. /\ count[x] \in Nat /\ place[x] = count[x] + 1
        /\ count[y] \in Nat /\ place[y] = count[y] + 1
        /\ count[x] < count[y]
    BY <1>13, <1>14
  <2> HIDE DEF place
  <2> QED
    BY <2>1
<1>0. place = [x \in S |-> place[x]]
  OBVIOUS
<1> HIDE DEF place
<1>7. place \in Injection(S, 1..n)
  <2>1. place \in [S -> 1..n]
    BY <1>0, <1>5
  <2>2. \A x, y \in S : x # y => place[x] # place[y]
    <3> SUFFICES ASSUME NEW x \in S, NEW y \in S, x # y PROVE place[x] # place[y]
      OBVIOUS
    <3>1. place[x] \in Int /\ place[y] \in Int
      BY <1>5
    <3>2. place[x] < place[y] \/ place[y] < place[x]
      BY <1>6 DEF Orders
    <3> QED
      BY <3>1, <3>2
  <2> QED
    BY <2>1, <2>2 DEF Injection, IsInjective
<1>8. place \in Surjection(S, 1..n)
  <2>1. IsFiniteSet(1..n) /\ Cardinality(1..n) = n
    BY <1>1, FS_Interval
  <2> HIDE DEF n
  <2>2. Cardinality(S) = Cardinality(1..n)
    BY <2>1 DEF n
  <2> QED
    BY <1>7, <2>1, <2>2, FS_Injection
<1>9. \A i \in 1..n : \E x \in S : place[x] = i
  BY <1>8 DEF Surjection
<1> DEFINE s == [i \in 1..n |-> CHOOSE x \in S : place[x] = i]
<1>10. \A i \in 1..n : s[i] \in S /\ place[s[i]] = i
  BY <1>9
<1>11. s \in [1..n -> S]
  BY <1>10
<1> HIDE DEF s
<1>12. ASSUME NEW i \in 1..n, NEW j \in 1..n, i < j PROVE <<s[i], s[j]>> \in R
  <2>1. s[i] \in S /\ s[j] \in S /\ place[s[i]] = i /\ place[s[j]] = j
    BY <1>10
  <2>2. s[i] # s[j] /\ ~(place[s[j]] < place[s[i]])
    BY <1>12, <2>1
  <2> QED
    BY <1>6, <2>1, <2>2 DEF Orders
<1> QED
  BY <1>11, <1>12

(* An ordering of a finite set has every element of the set, each once.    *)
LEMMA OrderingIsComplete ==
  ASSUME NEW S, IsFiniteSet(S), NEW s \in [1..Cardinality(S) -> S],
         \A i, j \in 1..Cardinality(S) : i < j => s[i] # s[j]
  PROVE  /\ s \in Seq(S) /\ Len(s) = Cardinality(S) /\ DOMAIN s = 1..Cardinality(S)
         /\ Elements(s) = S
         /\ \A i, j \in DOMAIN s : i # j => s[i] # s[j]
<1> DEFINE n == Cardinality(S)
<1>1. n \in Nat
  BY FS_CardinalityType
<1>2. IsFiniteSet(1..n) /\ Cardinality(1..n) = n
  BY <1>1, FS_Interval
<1>3. \A i, j \in 1..n : i # j => s[i] # s[j]
  <2> SUFFICES ASSUME NEW i \in 1..n, NEW j \in 1..n, i # j PROVE s[i] # s[j]
    OBVIOUS
  <2>1. i < j \/ j < i
    BY <1>1
  <2> QED
    BY <2>1
<1> HIDE DEF n
<1>4. s \in Injection(1..n, S)
  BY <1>3 DEF Injection, IsInjective, n
<1>5. s \in Surjection(1..n, S)
  <2>1. Cardinality(1..n) = Cardinality(S)
    BY <1>2 DEF n
  <2> QED
    BY <1>4, <2>1, FS_Injection
<1>6. DOMAIN s = 1..n
  BY DEF n
<1>7. Elements(s) = S
  <2>1. \A x \in S : \E i \in 1..n : s[i] = x
    BY <1>5 DEF Surjection
  <2>2. \A i \in 1..n : s[i] \in S
    BY <1>4 DEF Injection
  <2>3. Elements(s) = {s[i] : i \in 1..n}
    BY <1>6 DEF Elements
  <2> QED
    BY <2>1, <2>2, <2>3
<1>8. s \in Seq(S) /\ Len(s) = n
  BY <1>1 DEF n
<1> QED
  BY <1>3, <1>6, <1>7, <1>8 DEF n

-----------------------------------------------------------------------------
(* The orders of acknowledgements and of sweeps.                           *)

(* What a plan may acknowledge.                                            *)
Acknowledgements ==
  [scope : {"candidate", "global"}, candidate : Nat, field : Elements(Pointer)]

LEMMA PlaceIs ==
  /\ \A f \in Elements(Pointer) : Place(f) \in Nat /\ Pointer[Place(f)] = f
<1> SUFFICES ASSUME NEW f \in Elements(Pointer) PROVE Place(f) \in Nat /\ Pointer[Place(f)] = f
  OBVIOUS
<1>1. DOMAIN Pointer = 1..5
  BY DEF Pointer
<1>2. \E i \in DOMAIN Pointer : Pointer[i] = f
  BY DEF Elements
<1>3. Place(f) \in DOMAIN Pointer /\ Pointer[Place(f)] = f
  BY <1>2, Zenon DEF Place
<1> QED
  BY <1>1, <1>3

LEMMA BeforeIs ==
  ASSUME NEW a \in Int, NEW b \in Int, NEW c \in Int, NEW d \in Int, NEW e \in Int, NEW f \in Int
  PROVE  Before(<<a, b, c>>, <<d, e, f>>) <=> \/ a < d
                                              \/ a = d /\ b < e
                                              \/ a = d /\ b = e /\ c < f
<1> DEFINE k == <<a, b, c>>
           l == <<d, e, f>>
<1>1. /\ DOMAIN k = 1..3
      /\ k[1] = a /\ k[2] = b /\ k[3] = c /\ l[1] = d /\ l[2] = e /\ l[3] = f
  OBVIOUS
<1>2. \A i : i \in 1..3 <=> i = 1 \/ i = 2 \/ i = 3
  OBVIOUS
<1>3. \A j : /\ j \in 1..(1 - 1) <=> FALSE
             /\ j \in 1..(2 - 1) <=> j = 1
             /\ j \in 1..(3 - 1) <=> j = 1 \/ j = 2
  OBVIOUS
<1> HIDE DEF k, l
<1>4. Before(k, l) <=> \/ k[1] < l[1]
                       \/ k[2] < l[2] /\ k[1] = l[1]
                       \/ k[3] < l[3] /\ k[1] = l[1] /\ k[2] = l[2]
  <2>1. Before(k, l) <=> \E i \in 1..3 : k[i] < l[i] /\ \A j \in 1..(i - 1) : k[j] = l[j]
    BY <1>1 DEF Before
  <2> DEFINE Q(i) == k[i] < l[i] /\ \A j \in 1..(i - 1) : k[j] = l[j]
  <2>2. Q(1) <=> k[1] < l[1]
    BY <1>3
  <2>3. Q(2) <=> k[2] < l[2] /\ k[1] = l[1]
    BY <1>3
  <2>4. Q(3) <=> k[3] < l[3] /\ k[1] = l[1] /\ k[2] = l[2]
    BY <1>3
  <2>5. Before(k, l) <=> \E i \in 1..3 : Q(i)
    BY <2>1
  <2> HIDE DEF Q
  <2>6. (\E i \in 1..3 : Q(i)) <=> Q(1) \/ Q(2) \/ Q(3)
    BY <1>2
  <2> QED
    BY <2>2, <2>3, <2>4, <2>5, <2>6
<1>5. Before(k, l) <=> a < d \/ (a = d /\ b < e) \/ (a = d /\ b = e /\ c < f)
  BY <1>1, <1>4
<1> QED
  BY <1>5 DEF k, l

(* Both orders are strict and total; they differ in the order of scopes.   *)
ModelRank(a) == IF a.scope = "global" THEN 0 ELSE 1
PlanRank(a) == IF a.scope = "candidate" THEN 0 ELSE 1

LEMMA KeysCompare ==
  ASSUME NEW a \in Acknowledgements, NEW b \in Acknowledgements
  PROVE  /\ Before(ModelKey(a), ModelKey(b)) <=>
              \/ ModelRank(a) < ModelRank(b)
              \/ ModelRank(a) = ModelRank(b) /\ a.candidate < b.candidate
              \/ ModelRank(a) = ModelRank(b) /\ a.candidate = b.candidate
                 /\ Place(a.field) < Place(b.field)
         /\ Before(PlanKey(a), PlanKey(b)) <=>
              \/ PlanRank(a) < PlanRank(b)
              \/ PlanRank(a) = PlanRank(b) /\ a.candidate < b.candidate
              \/ PlanRank(a) = PlanRank(b) /\ a.candidate = b.candidate
                 /\ Place(a.field) < Place(b.field)
<1>1. /\ ModelKey(a) = <<ModelRank(a), a.candidate, Place(a.field)>>
      /\ ModelKey(b) = <<ModelRank(b), b.candidate, Place(b.field)>>
      /\ PlanKey(a) = <<PlanRank(a), a.candidate, Place(a.field)>>
      /\ PlanKey(b) = <<PlanRank(b), b.candidate, Place(b.field)>>
  BY DEF ModelKey, PlanKey, ModelRank, PlanRank
<1>2. /\ a.candidate \in Int /\ b.candidate \in Int
      /\ Place(a.field) \in Int /\ Place(b.field) \in Int
  BY PlaceIs DEF Acknowledgements
<1>3. /\ ModelRank(a) \in Int /\ ModelRank(b) \in Int
      /\ PlanRank(a) \in Int /\ PlanRank(b) \in Int
  BY DEF ModelRank, PlanRank
<1>4. Before(ModelKey(a), ModelKey(b)) <=>
        \/ ModelRank(a) < ModelRank(b)
        \/ ModelRank(a) = ModelRank(b) /\ a.candidate < b.candidate
        \/ ModelRank(a) = ModelRank(b) /\ a.candidate = b.candidate
           /\ Place(a.field) < Place(b.field)
  <2>1. Before(<<ModelRank(a), a.candidate, Place(a.field)>>,
               <<ModelRank(b), b.candidate, Place(b.field)>>) <=>
          \/ ModelRank(a) < ModelRank(b)
          \/ ModelRank(a) = ModelRank(b) /\ a.candidate < b.candidate
          \/ ModelRank(a) = ModelRank(b) /\ a.candidate = b.candidate
             /\ Place(a.field) < Place(b.field)
    BY <1>2, <1>3, BeforeIs
  <2> QED
    BY <1>1, <2>1
<1>5. Before(PlanKey(a), PlanKey(b)) <=>
        \/ PlanRank(a) < PlanRank(b)
        \/ PlanRank(a) = PlanRank(b) /\ a.candidate < b.candidate
        \/ PlanRank(a) = PlanRank(b) /\ a.candidate = b.candidate
           /\ Place(a.field) < Place(b.field)
  <2>1. Before(<<PlanRank(a), a.candidate, Place(a.field)>>,
               <<PlanRank(b), b.candidate, Place(b.field)>>) <=>
          \/ PlanRank(a) < PlanRank(b)
          \/ PlanRank(a) = PlanRank(b) /\ a.candidate < b.candidate
          \/ PlanRank(a) = PlanRank(b) /\ a.candidate = b.candidate
             /\ Place(a.field) < Place(b.field)
    BY <1>2, <1>3, BeforeIs
  <2> QED
    BY <1>1, <2>1
<1> QED
  BY <1>4, <1>5

LEMMA KeysOrder ==
  ASSUME NEW S \in SUBSET Acknowledgements
  PROVE  /\ Orders({x \in S \X S : Before(ModelKey(x[1]), ModelKey(x[2]))}, S)
         /\ Orders({x \in S \X S : Before(PlanKey(x[1]), PlanKey(x[2]))}, S)
<1>1. \A a, b \in S : a = b <=> /\ a.scope = b.scope
                                /\ a.candidate = b.candidate
                                /\ Place(a.field) = Place(b.field)
  BY PlaceIs DEF Acknowledgements
<1>2. \A a, b \in S : /\ a.scope = b.scope <=> ModelRank(a) = ModelRank(b)
                      /\ a.scope = b.scope <=> PlanRank(a) = PlanRank(b)
  BY DEF Acknowledgements, ModelRank, PlanRank
<1>3. \A a \in S : /\ a.candidate \in Int /\ Place(a.field) \in Int
                   /\ ModelRank(a) \in Int /\ PlanRank(a) \in Int
  BY PlaceIs DEF Acknowledgements, ModelRank, PlanRank
<1> DEFINE R == {x \in S \X S : Before(ModelKey(x[1]), ModelKey(x[2]))}
           Q == {x \in S \X S : Before(PlanKey(x[1]), PlanKey(x[2]))}
<1>4. \A a, b \in S : <<a, b>> \in R <=>
        \/ ModelRank(a) < ModelRank(b)
        \/ ModelRank(a) = ModelRank(b) /\ a.candidate < b.candidate
        \/ ModelRank(a) = ModelRank(b) /\ a.candidate = b.candidate
           /\ Place(a.field) < Place(b.field)
  BY KeysCompare
<1>5. \A a, b \in S : <<a, b>> \in Q <=>
        \/ PlanRank(a) < PlanRank(b)
        \/ PlanRank(a) = PlanRank(b) /\ a.candidate < b.candidate
        \/ PlanRank(a) = PlanRank(b) /\ a.candidate = b.candidate
           /\ Place(a.field) < Place(b.field)
  BY KeysCompare
<1> HIDE DEF R, Q
<1>6. Orders(R, S)
  BY <1>1, <1>2, <1>3, <1>4 DEF Orders
<1>7. Orders(Q, S)
  BY <1>1, <1>2, <1>3, <1>5 DEF Orders
<1> QED
  BY <1>6, <1>7 DEF R, Q

(* What a sorted list of acknowledgements is.                              *)
Lists(s, S) ==
  /\ s \in Seq(S) /\ Elements(s) = S
  /\ \A i, j \in DOMAIN s : i # j => s[i] # s[j]

LEMMA SortedForModelIs ==
  ASSUME NEW S \in SUBSET Acknowledgements, IsFiniteSet(S)
  PROVE  /\ Lists(SortedForModel(S), S)
         /\ \A i, j \in DOMAIN SortedForModel(S) :
              i < j => Before(ModelKey(SortedForModel(S)[i]), ModelKey(SortedForModel(S)[j]))
<1> DEFINE n == Cardinality(S)
           R == {x \in S \X S : Before(ModelKey(x[1]), ModelKey(x[2]))}
           O == {s \in [1..n -> S] :
                   \A i, j \in 1..n : i < j => Before(ModelKey(s[i]), ModelKey(s[j]))}
<1>1. PICK s \in [1..n -> S] : \A i, j \in 1..n : i < j => <<s[i], s[j]>> \in R
  BY KeysOrder, OrderingExists
<1>2. s \in O
  BY <1>1
<1>3. SortedForModel(S) = CHOOSE t \in O : TRUE
  BY DEF SortedForModel, Sorted, Orderings
<1> DEFINE t == SortedForModel(S)
<1>4. t \in O
  BY <1>2, <1>3
<1> HIDE DEF t
<1>5. t \in [1..n -> S] /\ \A i, j \in 1..n : i < j => Before(ModelKey(t[i]), ModelKey(t[j]))
  BY <1>4
<1>6. \A a \in S : ~Before(ModelKey(a), ModelKey(a))
  BY KeysOrder DEF Orders
<1>7. \A i, j \in 1..n : i < j => t[i] # t[j]
  BY <1>5, <1>6
<1>8. Lists(t, S) /\ DOMAIN t = 1..n
  BY <1>5, <1>7, OrderingIsComplete DEF Lists
<1> QED
  BY <1>5, <1>8 DEF t

(* Where all acknowledgements are of one scope, the two orders are one.    *)
LEMMA OneScopeOneOrder ==
  ASSUME NEW S \in SUBSET Acknowledgements, \A a, b \in S : a.scope = b.scope
  PROVE  /\ SortedForModel(S) = SortedForPlan(S)
         /\ \A a, b \in S : Before(ModelKey(a), ModelKey(b)) <=> Before(PlanKey(a), PlanKey(b))
<1>1. \A a, b \in S : Before(ModelKey(a), ModelKey(b)) <=> Before(PlanKey(a), PlanKey(b))
  <2> SUFFICES ASSUME NEW a \in S, NEW b \in S
               PROVE  Before(ModelKey(a), ModelKey(b)) <=> Before(PlanKey(a), PlanKey(b))
    OBVIOUS
  <2>1. ModelRank(a) = ModelRank(b) /\ PlanRank(a) = PlanRank(b)
    BY DEF ModelRank, PlanRank
  <2>2. ModelRank(a) \in Int /\ PlanRank(a) \in Int
    BY DEF ModelRank, PlanRank
  <2> QED
    BY <2>1, <2>2, KeysCompare
<1> DEFINE n == Cardinality(S)
           O == {s \in [1..n -> S] :
                   \A i, j \in 1..n : i < j => Before(ModelKey(s[i]), ModelKey(s[j]))}
           P == {s \in [1..n -> S] :
                   \A i, j \in 1..n : i < j => Before(PlanKey(s[i]), PlanKey(s[j]))}
<1>2. O = P
  BY <1>1
<1>3. SortedForModel(S) = CHOOSE t \in O : TRUE
  BY DEF SortedForModel, Sorted, Orderings
<1>4. SortedForPlan(S) = CHOOSE t \in P : TRUE
  BY DEF SortedForPlan, Sorted, Orderings
<1> HIDE DEF O, P
<1> QED
  BY <1>1, <1>2, <1>3, <1>4

(* The sweeps of a candidate are sweeps of the plan.                       *)
LEMMA SweepsAre ==
  ASSUME NEW q \in Plan, NEW c
  PROVE  /\ SweepsOf(q, c) \in Seq(Elements(q.sweeps))
         /\ \A k \in DOMAIN SweepsOf(q, c) : SweepsOf(q, c)[k].candidate = c
<1> DEFINE I == {i \in DOMAIN q.sweeps : q.sweeps[i].candidate = c}
           n == Cardinality(I)
           R == {x \in I \X I : x[1] < x[2]}
           O == {s \in [1..n -> I] : \A i, j \in 1..n : i < j => s[i] < s[j]}
           place == CHOOSE s \in O : TRUE
<1>1. Len(q.sweeps) \in Nat /\ DOMAIN q.sweeps = 1..Len(q.sweeps)
  BY DEF Plan
<1>2. IsFiniteSet(I) /\ n \in Nat
  <2>1. IsFiniteSet(1..Len(q.sweeps)) /\ I \in SUBSET (1..Len(q.sweeps))
    BY <1>1, FS_Interval
  <2>2. IsFiniteSet(I)
    BY <2>1, FS_Subset
  <2> QED
    BY <2>2, FS_CardinalityType
<1>3. Orders(R, I)
  BY <1>1 DEF Orders
<1>4. PICK s \in [1..n -> I] : \A i, j \in 1..n : i < j => <<s[i], s[j]>> \in R
  <2> HIDE DEF I, R
  <2> QED
    BY <1>2, <1>3, OrderingExists
<1>5. s \in O
  BY <1>4
<1>6. place \in [1..n -> I]
  <2>1. place \in O
    BY <1>5
  <2> QED
    BY <2>1
<1>7. SweepsOf(q, c) = [k \in DOMAIN place |-> q.sweeps[place[k]]]
  BY DEF SweepsOf, Sorted, Orderings
<1> HIDE DEF place, n
<1>8. SweepsOf(q, c) = [k \in 1..n |-> q.sweeps[place[k]]]
  BY <1>6, <1>7
<1>9. \A k \in 1..n : q.sweeps[place[k]] \in Elements(q.sweeps) /\ q.sweeps[place[k]].candidate = c
  BY <1>6 DEF Elements
<1> QED
  BY <1>2, <1>8, <1>9

-----------------------------------------------------------------------------
(* The points of a sweep.                                                  *)

LEMMA Monotone ==
  ASSUME NEW a \in Nat, NEW b \in Nat, NEW t \in Nat \ {0}
  PROVE  /\ a * t \in Nat
         /\ (a + 1) * t = a * t + t
         /\ a < b => a * t + t <= b * t
<1>1. a * t \in Nat /\ (a + 1) * t = a * t + t
  OBVIOUS
<1>2. ASSUME a < b PROVE a * t + t <= b * t
  <2> DEFINE k == b - (a + 1)
  <2>1. k \in Nat /\ b = (a + 1) + k
    BY <1>2
  <2> HIDE DEF k
  <2>2. k * t \in Nat /\ ((a + 1) + k) * t = (a + 1) * t + k * t
    BY <2>1
  <2>3. (a + 1) * t \in Nat
    OBVIOUS
  <2> QED
    BY <1>1, <2>1, <2>2, <2>3
<1> QED
  BY <1>1, <1>2

(* Of the multiples of t from zero on, those below d are counted by the    *)
(* quotient, and one more if it leaves a rest.                             *)
LEMMA MultiplesBelow ==
  ASSUME NEW d \in Nat \ {0}, NEW t \in Nat \ {0}
  PROVE  LET q == d \div t
             n == IF d % t = 0 THEN q ELSE q + 1
         IN  /\ q \in Nat /\ n \in Nat \ {0} /\ n - 1 <= d
             /\ \A i \in Nat : i * t < d <=> i < n
             /\ n * t = d <=> d % t = 0
<1> DEFINE q == d \div t
           r == d % t
           n == IF r = 0 THEN q ELSE q + 1
<1>1. q \in Nat /\ r \in Nat /\ r < t /\ d = q * t + r
  OBVIOUS
<1> HIDE DEF q, r
<1>2. q * t \in Nat /\ (q + 1) * t = q * t + t
  BY <1>1, Monotone
<1>3. q <= d
  <2>1. q * t >= q
    <3>1. CASE q = 0
      BY <1>2, <3>1
    <3>2. CASE q # 0
      <4>1. \A x \in Nat, y \in Nat \ {0} : x * y >= x
        OBVIOUS
      <4> QED
        BY <1>1, <4>1
    <3> QED
      BY <3>1, <3>2
  <2> QED
    BY <1>1, <1>2, <2>1
<1>4. CASE r = 0
  <2>1. q # 0
    <3>1. 0 * t = 0
      OBVIOUS
    <3> QED
      BY <1>1, <1>4, <3>1
  <2>2. ASSUME NEW i \in Nat PROVE i * t < d <=> i < q
    <3>1. i < q => i * t + t <= q * t
      BY <1>1, Monotone
    <3>2. q < i => q * t + t <= i * t
      BY <1>1, Monotone
    <3>3. i * t \in Nat
      OBVIOUS
    <3>4. i = q => i * t = q * t
      OBVIOUS
    <3> QED
      BY <1>1, <1>2, <1>4, <3>1, <3>2, <3>3, <3>4
  <2>3. q * t = d
    BY <1>1, <1>2, <1>4
  <2>4. n = q
    BY <1>4
  <2> QED
    BY <1>1, <1>3, <1>4, <2>1, <2>2, <2>3, <2>4 DEF q, r
<1>5. CASE r # 0
  <2>1. n = q + 1
    BY <1>5
  <2>2. ASSUME NEW i \in Nat PROVE i * t < d <=> i < q + 1
    <3>1. i < q => i * t + t <= q * t
      BY <1>1, Monotone
    <3>2. q < i => q * t + t <= i * t
      BY <1>1, Monotone
    <3>3. i * t \in Nat
      OBVIOUS
    <3>4. i = q => i * t = q * t
      OBVIOUS
    <3> QED
      BY <1>1, <1>2, <1>5, <3>1, <3>2, <3>3, <3>4
  <2>3. (q + 1) * t # d
    BY <1>1, <1>2
  <2> QED
    BY <1>1, <1>3, <1>5, <2>1, <2>2, <2>3 DEF q, r
<1> QED
  BY <1>4, <1>5

(* A range that is accepted has as many points as the plan reckons, except *)
(* that the context may round its ends.                                    *)
LEMMA RangePoints ==
  ASSUME NEW v, v \in [kind : {"range"}, start : Int, stop : Int, step : Int,
                       inclusive : BOOLEAN],
         RangeAccepted(v)
  PROVE  LET d == Magnitude(v.stop - v.start)
             t == Magnitude(v.step)
         IN  /\ d \in Nat \ {0} /\ t \in Nat \ {0}
             /\ Len(Points(v)) \in Nat \ {0}
             /\ Len(Points(v)) = d \div t + (IF d % t = 0 /\ ~v.inclusive THEN 0 ELSE 1)
<1> DEFINE d == Magnitude(v.stop - v.start)
           t == Magnitude(v.step)
           n == IF d % t = 0 THEN d \div t ELSE d \div t + 1
           before(m) == IF v.step > 0 THEN m < v.stop ELSE m > v.stop
           steps == {i \in 0..d : before(v.start + i * v.step)}
<1>1. v.start \in Int /\ v.stop \in Int /\ v.step \in Int /\ v.inclusive \in BOOLEAN
      /\ v.kind = "range"
  OBVIOUS
<1>2. d \in Nat \ {0} /\ t \in Nat \ {0}
  BY <1>1 DEF Magnitude, RangeAccepted
<1>3. \/ v.step > 0 /\ t = v.step /\ d = v.stop - v.start
      \/ v.step < 0 /\ t = -v.step /\ d = v.start - v.stop
  BY <1>1 DEF Magnitude, RangeAccepted
<1> HIDE DEF d, t
<1>4. /\ d \div t \in Nat /\ n \in Nat \ {0} /\ n - 1 <= d
      /\ \A i \in Nat : i * t < d <=> i < n
      /\ n * t = d <=> d % t = 0
  BY <1>2, MultiplesBelow
<1> HIDE DEF n
<1>5. ASSUME NEW i \in Nat
      PROVE  /\ before(v.start + i * v.step) <=> i * t < d
             /\ v.start + i * v.step = v.stop <=> i * t = d
  <2>1. CASE v.step > 0
    <3>1. t = v.step /\ d = v.stop - v.start /\ i * v.step \in Int
      BY <1>1, <1>3, <2>1
    <3> QED
      BY <1>1, <2>1, <3>1
  <2>2. CASE v.step < 0
    <3>1. t = -v.step /\ d = v.start - v.stop /\ i * v.step \in Int
      BY <1>1, <1>3, <2>2
    <3>2. i * (-v.step) = -(i * v.step)
      BY <1>1
    <3> QED
      BY <1>1, <2>2, <3>1, <3>2
  <2> QED
    BY <1>1, <1>3, <2>1, <2>2
<1>6. steps = 0..(n - 1)
  <2>1. \A i : i \in steps <=> i \in 0..d /\ before(v.start + i * v.step)
    OBVIOUS
  <2>2. \A i \in 0..d : i \in steps <=> i < n
    BY <1>2, <1>4, <1>5, <2>1
  <2>3. steps \subseteq 0..d
    OBVIOUS
  <2> HIDE DEF steps
  <2>4. n \in Nat \ {0} /\ n - 1 <= d /\ d \in Nat
    BY <1>2, <1>4
  <2>5. \A i : i \in 0..(n - 1) <=> i \in 0..d /\ i < n
    BY <2>4
  <2> QED
    BY <2>2, <2>3, <2>5
<1>7. Cardinality(steps) = n
  <2>1. 0 \in Int /\ n - 1 \in Int /\ ~(0 > n - 1) /\ (n - 1) - 0 + 1 = n
    BY <1>4
  <2>2. Cardinality(0..(n - 1)) = n
    BY <2>1, FS_Interval
  <2> QED
    BY <1>6, <2>2
<1>8. v.start + n * v.step = v.stop <=> d % t = 0
  BY <1>4, <1>5
<1> DEFINE body == [i \in 1..n |-> v.start + (i - 1) * v.step]
           tail == IF v.inclusive /\ v.start + n * v.step = v.stop THEN <<v.stop>> ELSE <<>>
<1>9. Points(v) = body \o tail
  BY <1>1, <1>7 DEF Points, d
<1>10. body \in Seq(Int) /\ Len(body) = n
  <2>1. \A i \in 1..n : v.start + (i - 1) * v.step \in Int
    BY <1>1, <1>4
  <2> QED
    BY <1>4, <2>1
<1>11. tail \in Seq(Int) /\ Len(tail) = IF v.inclusive /\ d % t = 0 THEN 1 ELSE 0
  BY <1>1, <1>8
<1> HIDE DEF body, tail
<1>12. Len(Points(v)) = n + (IF v.inclusive /\ d % t = 0 THEN 1 ELSE 0)
  <2>2. body \in Seq(Int) /\ tail \in Seq(Int)
    BY <1>10, <1>11
  <2>1. Len(body \o tail) = Len(body) + Len(tail)
    BY ONLY <2>2
  <2> QED
    BY <1>9, <1>10, <1>11, <2>1
<1>13. /\ Len(Points(v)) \in Nat \ {0}
       /\ Len(Points(v)) = d \div t + (IF d % t = 0 /\ ~v.inclusive THEN 0 ELSE 1)
  <2>1. CASE d % t = 0
    BY <1>1, <1>4, <1>12, <2>1 DEF n
  <2>2. CASE d % t # 0
    BY <1>1, <1>4, <1>12, <2>2 DEF n
  <2> QED
    BY <2>1, <2>2
<1> QED
  BY <1>2, <1>13 DEF d, t

(* A range the ambient context does not round.                             *)
Exact(v) ==
  v.kind = "range" => /\ Magnitude(v.stop - v.start) < AmbientLimit
                      /\ Magnitude(v.step) < AmbientLimit

LEMMA PointsAre ==
  ASSUME NEW v \in Values, ValuesAccepted(v)
  PROVE  /\ Len(Points(v)) \in Nat \ {0}
         /\ Exact(v) => PointCount(v) = Len(Points(v))
<1>1. CASE v.kind = "grid"
  <2>1. v.points \in Seq(Int) /\ v.points # <<>>
    BY <1>1 DEF Values, ValuesAccepted
  <2>2. Points(v) = v.points /\ PointCount(v) = Len(v.points)
    BY <1>1 DEF Points, PointCount
  <2> DEFINE p == v.points
  <2>3. p \in Seq(Int) /\ p # <<>>
    BY <2>1
  <2> HIDE DEF p
  <2>4. Len(p) \in Nat \ {0}
    BY <2>3
  <2> QED
    BY <2>2, <2>4 DEF p
<1>2. CASE v.kind # "grid"
  <2>1. v \in [kind : {"range"}, start : Int, stop : Int, step : Int, inclusive : BOOLEAN]
    BY <1>2 DEF Values
  <2>2. RangeAccepted(v) /\ v.kind = "range"
    BY <1>2, <2>1 DEF ValuesAccepted
  <2> DEFINE d == Magnitude(v.stop - v.start)
             t == Magnitude(v.step)
  <2>3. /\ d \in Nat \ {0} /\ t \in Nat \ {0}
        /\ Len(Points(v)) \in Nat \ {0}
        /\ Len(Points(v)) = d \div t + (IF d % t = 0 /\ ~v.inclusive THEN 0 ELSE 1)
    BY <2>1, <2>2, RangePoints
  <2>4. Exact(v) => Rounded(d) = d /\ Rounded(t) = t
    BY <2>2 DEF Exact, Rounded
  <2>5. PointCount(v) = Rounded(d) \div Rounded(t)
                        + (IF Rounded(d) % Rounded(t) = 0 /\ ~v.inclusive THEN 0 ELSE 1)
    BY <2>2 DEF PointCount
  <2> HIDE DEF d, t
  <2>6. Exact(v) => PointCount(v) = Len(Points(v))
    BY <2>3, <2>4, <2>5
  <2> QED
    BY <2>3, <2>6
<1> QED
  BY <1>1, <1>2

-----------------------------------------------------------------------------
(* What one scenario comes to.                                             *)

Dispositions == {"evaluated", "blocked", "invalid", "not_applicable"}

(* What is known of a scenario s of candidate c: it is one the result      *)
(* schema accepts, and what it uses is acknowledged and is what c requires.*)
Fits(s, p, q, c) ==
  /\ DOMAIN s = {"id", "disposition", "applicability", "used", "temperature", "limit", "findings"}
  /\ ScenarioAccepted(s)
  /\ s.disposition \in Dispositions
  /\ s.used \subseteq Elements(q.acknowledgements)
  /\ \A a \in s.used : a.scope = "candidate" => a.candidate = c
  /\ s.disposition # "evaluated" => s.used = {}
  /\ s.disposition = "evaluated" => BindingFindings(p, q, c) = {} /\ Required(p, c) \subseteq s.used

LEMMA RequiredIs ==
  ASSUME NEW p, NEW q, NEW c, BindingFindings(p, q, c) = {}
  PROVE  /\ Required(p, c) \subseteq Elements(q.acknowledgements)
         /\ \A a \in Required(p, c) : a.scope = "candidate" => a.candidate = c
<1>1. AcknowledgementsClose(p, q, c)
  BY DEF BindingFindings
<1>2. Required(p, c) \subseteq Elements(q.acknowledgements)
  BY <1>1 DEF AcknowledgementsClose, Supplied
<1>3. \A a \in Required(p, c) : a.scope = "candidate" => a.candidate = c
  BY DEF Required, AssumedBy, RequiredGlobals, Acknowledgement
<1> QED
  BY <1>2, <1>3

LEMMA ScenarioFits ==
  ASSUME NEW id, NEW p, NEW q, NEW c, NEW view, NEW overridden, NEW further
  PROVE  /\ Fits(Scenario(id, p, q, c, view, overridden, further), p, q, c)
         /\ Scenario(id, p, q, c, view, overridden, further).id = id
<1> DEFINE local == further \ ModelField
           forLocal == AssumedBy(c, view, local)
           findings == BindingFindings(p, q, c)
                       \cup (IF forLocal \subseteq Elements(q.acknowledgements) THEN {}
                             ELSE {"acknowledgement closure"})
           invalid == {f \in overridden : Nonphysical(view[f])}
           nonphysical == NonphysicalInputs(p, view, ModelField \cup further) # {}
           blocked == findings # {} \/ nonphysical
           temperature == IF blocked THEN NoResult ELSE SourceTemperature(view.conductivity.value)
           warned == EvidenceWanted(p, c)
                     \/ \E f \in local : view[f].status = "evidence_required"
           outside == OutOfModel(view)
           d == Disposition(invalid, outside, blocked, temperature)
           s == Scenario(id, p, q, c, view, overridden, further)
<1>1. /\ DOMAIN s = {"id", "disposition", "applicability", "used", "temperature", "limit",
                     "findings"}
      /\ s.id = id /\ s.disposition = d
      /\ s.applicability = CASE d = "evaluated" /\ ~warned -> "applicable"
                             [] d = "evaluated" /\ warned  -> "applicable_with_warnings"
                             [] d = "not_applicable"       -> "not_applicable"
                             [] OTHER                      -> "not_evaluated"
      /\ s.used = IF d = "evaluated" THEN Required(p, c) \cup forLocal ELSE {}
      /\ s.temperature = IF d = "evaluated" THEN temperature ELSE NoResult
  BY DEF Scenario
<1>2. d = "evaluated" => findings = {} /\ temperature # NoResult
  <2> HIDE DEF findings, invalid, nonphysical, temperature, outside
  <2>1. d = "evaluated" => ~blocked /\ temperature # NoResult
    BY DEF Disposition
  <2> QED
    BY <2>1
<1>3. d \in Dispositions
  BY DEF Disposition, Dispositions
<1>4. findings = {} => BindingFindings(p, q, c) = {} /\ forLocal \subseteq Elements(q.acknowledgements)
  OBVIOUS
<1>5. \A a \in forLocal : a.scope = "candidate" => a.candidate = c
  BY DEF AssumedBy, Acknowledgement
<1> HIDE DEF s, d, warned, temperature, blocked, findings, forLocal
<1>6. ScenarioAccepted(s)
  <2>1. CASE d = "evaluated"
    BY <1>1, <1>2, <2>1 DEF ScenarioAccepted
  <2>2. CASE d = "not_applicable"
    BY <1>1, <2>2 DEF ScenarioAccepted
  <2>3. CASE d # "evaluated" /\ d # "not_applicable"
    BY <1>1, <2>3 DEF ScenarioAccepted
  <2> QED
    BY <2>1, <2>2, <2>3
<1>7. d = "evaluated" => /\ BindingFindings(p, q, c) = {}
                         /\ s.used = Required(p, c) \cup forLocal
                         /\ s.used \subseteq Elements(q.acknowledgements)
                         /\ \A a \in s.used : a.scope = "candidate" => a.candidate = c
  BY <1>1, <1>2, <1>4, <1>5, RequiredIs
<1>8. d # "evaluated" => s.used = {}
  BY <1>1
<1>9. Fits(s, p, q, c)
  BY <1>1, <1>3, <1>6, <1>7, <1>8 DEF Fits
<1> QED
  BY <1>1, <1>9 DEF s

(* The same scenario under another name.                                   *)
LEMMA RenamedFits ==
  ASSUME NEW s, NEW id, NEW p, NEW q, NEW c, Fits(s, p, q, c)
  PROVE  /\ Fits([s EXCEPT !.id = id], p, q, c)
         /\ [s EXCEPT !.id = id].id = id
<1> DEFINE t == [s EXCEPT !.id = id]
<1>1. DOMAIN t = DOMAIN s /\ t.id = id
  BY DEF Fits
<1>2. /\ t.disposition = s.disposition /\ t.applicability = s.applicability
      /\ t.used = s.used /\ t.temperature = s.temperature
  BY DEF Fits
<1> HIDE DEF t
<1>3. ScenarioAccepted(t)
  BY <1>2 DEF Fits, ScenarioAccepted
<1>4. Fits(t, p, q, c)
  BY <1>1, <1>2, <1>3 DEF Fits
<1> QED
  BY <1>1, <1>4 DEF t

(* A scenario with the inputs as they are has the temperature of what the  *)
(* problem says of the conductivity.                                       *)
LEMMA BaselineTemperature ==
  ASSUME NEW id, NEW p, NEW q, NEW c, NEW view, NEW overridden, NEW further,
         view.conductivity = p.candidates[c].conductivity,
         Scenario(id, p, q, c, view, overridden, further).disposition = "evaluated"
  PROVE  LET e == p.candidates[c].conductivity
         IN  /\ Usable(e) /\ ~Nonphysical(e)
             /\ Scenario(id, p, q, c, view, overridden, further).temperature
                  = SourceTemperature(e.value)
<1> DEFINE local == further \ ModelField
           forLocal == AssumedBy(c, view, local)
           findings == BindingFindings(p, q, c)
                       \cup (IF forLocal \subseteq Elements(q.acknowledgements) THEN {}
                             ELSE {"acknowledgement closure"})
           invalid == {f \in overridden : Nonphysical(view[f])}
           nonphysical == NonphysicalInputs(p, view, ModelField \cup further) # {}
           blocked == findings # {} \/ nonphysical
           temperature == IF blocked THEN NoResult ELSE SourceTemperature(view.conductivity.value)
           outside == OutOfModel(view)
           d == Disposition(invalid, outside, blocked, temperature)
           s == Scenario(id, p, q, c, view, overridden, further)
<1>1. s.disposition = d /\ s.temperature = IF d = "evaluated" THEN temperature ELSE NoResult
  BY DEF Scenario
<1>2. d = "evaluated"
  BY <1>1
<1>3. ~blocked
  <2> HIDE DEF findings, invalid, nonphysical, temperature, outside
  <2> QED
    BY <1>2 DEF Disposition
<1>4. s.temperature = SourceTemperature(view.conductivity.value)
  BY <1>1, <1>2, <1>3
<1>5. ~Nonphysical(view.conductivity)
  BY <1>3 DEF NonphysicalInputs, ModelField
<1>6. Usable(p.candidates[c].conductivity)
  BY <1>3 DEF BindingFindings, InputMissing, ModelField
<1> QED
  BY <1>4, <1>5, <1>6

-----------------------------------------------------------------------------
(* What becomes of one candidate.                                          *)

(* The plan is one the orchestration takes up.                             *)
Planned == plan \in Plan /\ PlanAccepted(plan)

LEMMA SweepValues ==
  ASSUME Planned
  PROVE  \A s \in Elements(plan.sweeps) : s.values \in Values /\ ValuesAccepted(s.values)
<1> DEFINE T == [candidate : Nat, field : Elements(Pointer), values : Values]
<1>1. plan.sweeps \in Seq(T)
  BY DEF Planned, Plan
<1>2. \A x \in T : x.values \in Values
  OBVIOUS
<1> HIDE DEF T
<1>3. \A i \in DOMAIN plan.sweeps : plan.sweeps[i] \in T
  BY <1>1
<1> QED
  BY <1>2, <1>3 DEF Elements, Planned, PlanAccepted, SweepsAccepted

LEMMA CombinationsArePositive ==
  ASSUME Planned, NEW c
  PROVE  Combinations(SweepsOf(plan, c)) \in Nat \ {0}
<1> DEFINE w == SweepsOf(plan, c)
           lens == [k \in DOMAIN w |-> Len(Points(w[k].values))]
<1>1. w \in Seq(Elements(plan.sweeps))
  BY SweepsAre DEF Planned
<1>2. \A s \in Elements(plan.sweeps) : s.values \in Values /\ ValuesAccepted(s.values)
  BY SweepValues
<1> HIDE DEF w
<1>3. Len(w) \in Nat /\ DOMAIN w = 1..Len(w)
  BY <1>1
<1>4. \A k \in 1..Len(w) : w[k] \in Elements(plan.sweeps)
  BY <1>1
<1>5. \A k \in 1..Len(w) : Len(Points(w[k].values)) \in Nat \ {0}
  BY <1>2, <1>4, PointsAre
<1>6. Len(lens) = Len(w) /\ \A k \in 1..Len(w) : lens[k] \in Nat \ {0}
  BY <1>3, <1>5
<1> HIDE DEF lens
<1>7. Product(lens) \in Nat \ {0}
  BY <1>3, <1>6, ProductIsPositive
<1> QED
  BY <1>7 DEF Combinations, lens, w

LEMMA CoreFits ==
  ASSUME NEW position, NEW j
  PROVE  /\ Fits(CoreScenario(position, j), problem, plan, plan.selected[position])
         /\ CoreScenario(position, j).id = <<position, "K", j, "core">>
<1> DEFINE c == plan.selected[position]
           w == SweepsOf(plan, c)
           point == Combination(w, j)
           base == problem.candidates[c]
           view == [f \in CandidateField |->
                      IF \E k \in DOMAIN w : w[k].field = f
                      THEN [base[f] EXCEPT !.value = point[CHOOSE k \in DOMAIN w : w[k].field = f]]
                      ELSE base[f]]
           swept == {w[k].field : k \in DOMAIN w}
<1>1. CoreScenario(position, j)
        = Scenario(<<position, "K", j, "core">>, problem, plan, c, view, swept, {})
  BY DEF CoreScenario
<1> HIDE DEF view, swept
<1>2. /\ Fits(Scenario(<<position, "K", j, "core">>, problem, plan, c, view, swept, {}),
              problem, plan, c)
      /\ Scenario(<<position, "K", j, "core">>, problem, plan, c, view, swept, {}).id
           = <<position, "K", j, "core">>
  BY ScenarioFits
<1> QED
  BY <1>1, <1>2

(* What is not swept is as the problem says.                               *)
LEMMA UnsweptTemperature ==
  ASSUME NEW position, SweepsOf(plan, plan.selected[position]) = <<>>,
         CoreScenario(position, 1).disposition = "evaluated"
  PROVE  LET e == problem.candidates[plan.selected[position]].conductivity
         IN  /\ Usable(e) /\ ~Nonphysical(e)
             /\ CoreScenario(position, 1).temperature = SourceTemperature(e.value)
<1> DEFINE c == plan.selected[position]
           w == SweepsOf(plan, c)
           point == Combination(w, 1)
           base == problem.candidates[c]
           view == [f \in CandidateField |->
                      IF \E k \in DOMAIN w : w[k].field = f
                      THEN [base[f] EXCEPT !.value = point[CHOOSE k \in DOMAIN w : w[k].field = f]]
                      ELSE base[f]]
<1>1. CoreScenario(position, 1)
        = Scenario(<<position, "K", 1, "core">>, problem, plan, c, view,
                   {w[k].field : k \in DOMAIN w}, {})
  BY DEF CoreScenario
<1>2. DOMAIN w = {}
  OBVIOUS
<1>3. view.conductivity = base.conductivity
  BY <1>2 DEF CandidateField
<1> HIDE DEF view, w
<1> QED
  BY <1>1, <1>3, BaselineTemperature

LEMMA OatFits ==
  ASSUME Planned, NEW position, NEW core, NEW swept,
         Fits(core[1], problem, plan, plan.selected[position])
  PROVE  LET oat == OatScenarios(position, core, swept)
         IN  /\ oat \in Seq(Elements(oat))
             /\ \A s \in Elements(oat) : Fits(s, problem, plan, plan.selected[position])
<1> DEFINE c == plan.selected[position]
           base == problem.candidates[c]
           reference == IF ~swept /\ core[1].disposition = "evaluated"
                        THEN [core[1] EXCEPT !.id = <<position, "O", 0, "reference">>]
                        ELSE Scenario(<<position, "O", 0, "reference">>, problem, plan, c, base,
                                      {}, {})
           beside(n, side) ==
             LET p == plan.parameters[n]
                 value == IF side = "minus" THEN p.minus ELSE p.plus
             IN Scenario(<<position, "O", n, side>>, problem, plan, c,
                         Overridden(base, p.field, value), {p.field}, {p.field})
           oat == OatScenarios(position, core, swept)
           last == 2 * Len(plan.parameters) + 1
<1>1. Fits(reference, problem, plan, c)
  BY RenamedFits, ScenarioFits
<1>2. \A n, side : Fits(beside(n, side), problem, plan, c)
  BY ScenarioFits
<1> HIDE DEF reference, beside
<1>3. oat = [k \in 1..last |-> IF k = 1 THEN reference
                               ELSE beside(k \div 2, IF k % 2 = 0 THEN "minus" ELSE "plus")]
  BY DEF OatScenarios, reference, beside
<1>4. last \in Nat
  BY DEF Planned, Plan
<1> HIDE DEF oat, last
<1>5. DOMAIN oat = 1..last /\ \A k \in 1..last : Fits(oat[k], problem, plan, c)
  BY <1>1, <1>2, <1>3
<1>6. \A s \in Elements(oat) : Fits(s, problem, plan, c)
  BY <1>5 DEF Elements
<1>7. oat = [k \in 1..last |-> oat[k]] /\ \A k \in 1..last : oat[k] \in Elements(oat)
  BY <1>3, <1>5 DEF Elements
<1>8. oat \in Seq(Elements(oat))
  BY <1>4, <1>7
<1> QED
  BY <1>6, <1>8 DEF oat

(* The result of the candidate at a position of the plan.                  *)
ResultFits(r, position) ==
  LET c == plan.selected[position]
  IN  /\ DOMAIN r = {"candidate", "core", "oat", "swept", "coverage", "oatCoverage", "status",
                     "applicability", "presence", "used", "findings", "warnings"}
      /\ r = [x \in DOMAIN r |-> r[x]]
      /\ r.candidate = c
      /\ Len(r.core) = Combinations(SweepsOf(plan, c)) /\ Len(r.core) \in Nat \ {0}
      /\ r.core \in Seq(Elements(r.core))
      /\ \A j \in 1..Len(r.core) : r.core[j] = CoreScenario(position, j)
      /\ r.oat \in Seq(Elements(r.oat))
      /\ \A s \in Elements(r.core) \cup Elements(r.oat) : Fits(s, problem, plan, c)
      /\ r.swept = (SweepsOf(plan, c) # <<>>)
      /\ r.coverage = Coverage(r.core) /\ r.oatCoverage = Coverage(r.oat)
      /\ r.status = Status(r.core, r.oat)
      /\ r.applicability = Applicability(r.status, r.core, r.oat)
      /\ r.presence = (r.status = "evaluated")
      /\ r.used = SortedForModel(UsedBy(r.core \o r.oat))

LEMMA CandidateFits ==
  ASSUME Planned, NEW position
  PROVE  ResultFits(CandidateResult(position), position)
<1> DEFINE c == plan.selected[position]
           w == SweepsOf(plan, c)
           n == Combinations(w)
           core == [j \in 1..n |-> CoreScenario(position, j)]
           oat == IF c = plan.baseline THEN OatScenarios(position, core, w # <<>>) ELSE <<>>
           r == CandidateResult(position)
<1>1. n \in Nat \ {0}
  BY CombinationsArePositive
<1>2. core[1] = CoreScenario(position, 1)
  BY <1>1
<1>3. Fits(core[1], problem, plan, c)
  BY <1>2, CoreFits
<1>4. oat \in Seq(Elements(oat)) /\ \A s \in Elements(oat) : Fits(s, problem, plan, c)
  <2>1. CASE c = plan.baseline
    <3> DEFINE o == OatScenarios(position, core, w # <<>>)
    <3> HIDE DEF core
    <3>1. o \in Seq(Elements(o)) /\ \A s \in Elements(o) : Fits(s, problem, plan, c)
      BY <1>3, OatFits
    <3> QED
      BY <2>1, <3>1
  <2>2. CASE c # plan.baseline
    <3>1. oat = <<>>
      BY <2>2
    <3> HIDE DEF oat
    <3> QED
      BY <3>1 DEF Elements
  <2> QED
    BY <2>1, <2>2
<1>6. \A s \in Elements(core) : Fits(s, problem, plan, c)
  BY CoreFits DEF Elements
<1>7. core \in Seq(Elements(core)) /\ Len(core) = n
  <2>1. \A j \in 1..n : CoreScenario(position, j) \in Elements(core)
    BY DEF Elements
  <2> QED
    BY <1>1, <2>1
<1>8. \A j \in 1..n : core[j] = CoreScenario(position, j)
  OBVIOUS
<1>9. /\ DOMAIN r = {"candidate", "core", "oat", "swept", "coverage", "oatCoverage", "status",
                     "applicability", "presence", "used", "findings", "warnings"}
      /\ r.candidate = c /\ r.core = core /\ r.oat = oat /\ r.swept = (w # <<>>)
  BY DEF CandidateResult
<1>15. r = [x \in DOMAIN r |-> r[x]]
  <2> DEFINE swept == w # <<>>
             status == Status(core, oat)
             reach == Applicability(status, core, oat)
             presence == status = "evaluated"
             used == SortedForModel(UsedBy(core \o oat))
             findings == FindingsOf(c, core, oat)
             warnings == WarningsOf(c, core, oat)
  <2>1. r = [ candidate |-> c, core |-> core, oat |-> oat, swept |-> swept,
              coverage |-> Coverage(core), oatCoverage |-> Coverage(oat), status |-> status,
              applicability |-> reach, presence |-> presence, used |-> used,
              findings |-> findings, warnings |-> warnings ]
    BY DEF CandidateResult
  <2> HIDE DEF c, core, oat, swept, status, reach, presence, used, findings, warnings, r
  <2> QED
    BY <2>1
<1>10. /\ r.coverage = Coverage(core) /\ r.oatCoverage = Coverage(oat)
       /\ r.status = Status(core, oat)
       /\ r.applicability = Applicability(r.status, core, oat)
       /\ r.presence = (r.status = "evaluated")
       /\ r.used = SortedForModel(UsedBy(core \o oat))
  BY DEF CandidateResult
<1> HIDE DEF core, oat, r
<1>11. /\ Len(r.core) = Combinations(SweepsOf(plan, c)) /\ Len(r.core) \in Nat \ {0}
       /\ r.core \in Seq(Elements(r.core))
       /\ \A j \in 1..Len(r.core) : r.core[j] = CoreScenario(position, j)
       /\ r.oat \in Seq(Elements(r.oat))
  BY <1>1, <1>4, <1>7, <1>8, <1>9
<1>12. \A s \in Elements(r.core) \cup Elements(r.oat) : Fits(s, problem, plan, c)
  BY <1>4, <1>6, <1>9
<1>13. /\ r.coverage = Coverage(r.core) /\ r.oatCoverage = Coverage(r.oat)
       /\ r.status = Status(r.core, r.oat)
       /\ r.applicability = Applicability(r.status, r.core, r.oat)
       /\ r.presence = (r.status = "evaluated")
       /\ r.used = SortedForModel(UsedBy(r.core \o r.oat))
  BY <1>9, <1>10
<1>14. ResultFits(r, position)
  BY <1>9, <1>11, <1>12, <1>13, <1>15 DEF ResultFits
<1> QED
  BY <1>14 DEF r

(* Counting: a list counts to nothing exactly if nothing in it counts.     *)
LEMMA CountIs ==
  ASSUME NEW T, NEW s \in Seq(T), NEW d
  PROVE  /\ Count(s, d) \in Nat
         /\ Count(s, d) > 0 <=> \E x \in Elements(s) : x.disposition = d
<1> DEFINE S == {j \in DOMAIN s : s[j].disposition = d}
<1>1. IsFiniteSet(S)
  <2>1. DOMAIN s = 1..Len(s) /\ Len(s) \in Nat
    OBVIOUS
  <2>2. IsFiniteSet(1..Len(s)) /\ S \in SUBSET (1..Len(s))
    BY <2>1, FS_Interval
  <2> QED
    BY <2>2, FS_Subset
<1>2. S # {} <=> \E x \in Elements(s) : x.disposition = d
  BY DEF Elements
<1>3. Count(s, d) = Cardinality(S)
  BY DEF Count
<1> HIDE DEF S
<1>4. Cardinality(S) \in Nat /\ (Cardinality(S) = 0 <=> S = {})
  BY <1>1, FS_CardinalityType, FS_EmptySet
<1> QED
  BY <1>2, <1>3, <1>4

(* Every scenario has one of the four dispositions, so the counts add up.  *)
LEMMA CountsAddUp ==
  ASSUME NEW T, NEW s \in Seq(T), \A x \in Elements(s) : x.disposition \in Dispositions
  PROVE  Count(s, "evaluated") + Count(s, "blocked") + Count(s, "invalid")
           + Count(s, "not_applicable") = Len(s)
<1> DEFINE of(d) == {j \in DOMAIN s : s[j].disposition = d}
           E == of("evaluated")
           B == of("blocked")
           I == of("invalid")
           N == of("not_applicable")
<1>1. DOMAIN s = 1..Len(s) /\ Len(s) \in Nat
  OBVIOUS
<1>2. IsFiniteSet(1..Len(s)) /\ Cardinality(1..Len(s)) = Len(s)
  <2>1. \A n \in Nat : IsFiniteSet(1..n) /\ Cardinality(1..n) = n
    <3> TAKE n \in Nat
    <3> QED
      BY FS_Interval
  <2> QED
    BY <1>1, <2>1
<1>3. \A d : IsFiniteSet(of(d))
  <2> TAKE d
  <2>1. of(d) \in SUBSET (1..Len(s))
    BY <1>1
  <2> HIDE DEF of
  <2> QED
    BY <1>2, <2>1, FS_Subset
<1>4. \A j \in DOMAIN s : j \in E \/ j \in B \/ j \in I \/ j \in N
  BY DEF Elements, Dispositions
<1>5. E \subseteq DOMAIN s /\ B \subseteq DOMAIN s /\ I \subseteq DOMAIN s /\ N \subseteq DOMAIN s
  OBVIOUS
<1>6. E \cap B = {} /\ (E \cup B) \cap I = {} /\ ((E \cup B) \cup I) \cap N = {}
  OBVIOUS
<1>7. IsFiniteSet(E) /\ IsFiniteSet(B) /\ IsFiniteSet(I) /\ IsFiniteSet(N)
  BY <1>3
<1>0. /\ Count(s, "evaluated") = Cardinality(E) /\ Count(s, "blocked") = Cardinality(B)
      /\ Count(s, "invalid") = Cardinality(I) /\ Count(s, "not_applicable") = Cardinality(N)
  BY DEF Count
<1> HIDE DEF of, E, B, I, N
<1>8. ((E \cup B) \cup I) \cup N = 1..Len(s)
  BY <1>1, <1>4, <1>5
<1>9. /\ Cardinality(E) \in Nat /\ Cardinality(B) \in Nat
      /\ Cardinality(I) \in Nat /\ Cardinality(N) \in Nat
  BY <1>7, FS_CardinalityType
<1>10. IsFiniteSet(E \cup B) /\ Cardinality(E \cup B) = Cardinality(E) + Cardinality(B)
  <2>1. Cardinality(E \cup B) = Cardinality(E) + Cardinality(B) - Cardinality(E \cap B)
        /\ IsFiniteSet(E \cup B)
    BY <1>7, FS_Union
  <2>2. Cardinality(E \cap B) = 0
    BY <1>6, FS_EmptySet
  <2> QED
    BY <1>9, <2>1, <2>2
<1>11. /\ IsFiniteSet((E \cup B) \cup I)
       /\ Cardinality((E \cup B) \cup I) = Cardinality(E \cup B) + Cardinality(I)
  <2>1. /\ Cardinality((E \cup B) \cup I)
             = Cardinality(E \cup B) + Cardinality(I) - Cardinality((E \cup B) \cap I)
        /\ IsFiniteSet((E \cup B) \cup I)
    BY <1>7, <1>10, FS_Union
  <2>2. Cardinality((E \cup B) \cap I) = 0
    BY <1>6, FS_EmptySet
  <2> QED
    BY <1>9, <1>10, <2>1, <2>2
<1>12. Cardinality(((E \cup B) \cup I) \cup N) = Cardinality((E \cup B) \cup I) + Cardinality(N)
  <2>1. Cardinality(((E \cup B) \cup I) \cup N)
          = Cardinality((E \cup B) \cup I) + Cardinality(N)
            - Cardinality(((E \cup B) \cup I) \cap N)
    BY <1>7, <1>11, FS_Union
  <2>2. Cardinality(((E \cup B) \cup I) \cap N) = 0
    BY <1>6, FS_EmptySet
  <2> QED
    BY <1>9, <1>10, <1>11, <2>1, <2>2
<1> QED
  BY <1>0, <1>2, <1>8, <1>9, <1>10, <1>11, <1>12

-----------------------------------------------------------------------------
(* How far a call has come.                                                *)

(* The first n candidates of the plan have been executed.                  *)
Done(n) == results = [i \in 1..n |-> CandidateResult(i)]

Compared ==
  /\ comparison = Content
  /\ evaluation = [outcome |-> Outcome(results), used |-> AssumptionsUsed(results)]

AllDone == Done(Len(plan.selected))

(* The plan was taken up and bound to the problem.                         *)
Accepted == PlanAccepted(plan) /\ KnownCandidates

Phase ==
  \/ stage = "plan" /\ refusal = "nobody" /\ results = <<>>
  \/ stage = "refused" /\ refusal = "plan" /\ results = <<>>
  \/ stage = "bind" /\ refusal = "nobody" /\ results = <<>> /\ PlanAccepted(plan)
  \/ stage = "refused" /\ refusal = "binding" /\ results = <<>> /\ PlanAccepted(plan)
  \/ /\ stage = "execute" /\ refusal = "nobody" /\ Accepted
     /\ \E n \in Nat : n < Len(plan.selected) /\ Done(n)
  \/ stage = "compare" /\ refusal = "nobody" /\ Accepted /\ AllDone
  \/ /\ stage = "refused" /\ refusal = "count" /\ Accepted /\ AllDone
     /\ ~CountsMatch
  \/ /\ stage = "refused" /\ refusal = "content" /\ Accepted /\ AllDone
     /\ ~ContentAccepted(Content)
  \/ /\ stage \in {"record", "recorded"} /\ refusal = "nobody" /\ Accepted /\ AllDone
     /\ Compared
  \/ /\ stage = "refused" /\ refusal = "record" /\ Accepted /\ AllDone
     /\ Compared /\ ~RecordAccepted(comparison.candidates, evaluation)

IInv ==
  /\ problem \in Problems /\ plan \in Plans(problem)
  /\ Phase

(* What a candidate comes to depends on the request alone.                 *)
LEMMA ResultsArePersistent ==
  ASSUME request' = request, NEW i
  PROVE  CandidateResult(i)' = CandidateResult(i)
BY DEF CandidateResult, CoreScenario, OatScenarios, FindingsOf, WarningsOf, problem, plan

LEMMA DoneIsPersistent ==
  ASSUME request' = request, results' = results, NEW n
  PROVE  Done(n)' <=> Done(n)
<1>1. [i \in 1..n |-> CandidateResult(i)'] = [i \in 1..n |-> CandidateResult(i)]
  BY ResultsArePersistent
<1> QED
  BY <1>1 DEF Done

LEMMA ContentIsPersistent ==
  ASSUME request' = request, results' = results
  PROVE  Content' = Content
BY DEF Content, WithReasons, Reasons, Eligibility, problem, plan

LEMMA Initially == Init => IInv
<1> SUFFICES ASSUME Init PROVE IInv
  OBVIOUS
<1>0. PICK p \in Problems : \E q \in Plans(p) : request = [problem |-> p, plan |-> q]
  BY DEF Init
<1>1. PICK q \in Plans(p) : request = [problem |-> p, plan |-> q]
  BY <1>0
<1>2. problem = p /\ plan = q
  BY <1>1 DEF problem, plan
<1>3. Phase
  BY DEF Init, Phase, None
<1> QED
  BY <1>2, <1>3 DEF IInv

(* One more candidate is executed.                                         *)
LEMMA OneMoreDone ==
  ASSUME NEW n \in Nat, Done(n), request' = request,
         results' = Append(results, CandidateResult(Len(results) + 1))
  PROVE  Done(n + 1)' /\ Len(results') = n + 1
<1> DEFINE all == [i \in 1..(n + 1) |-> CandidateResult(i)]
           T == {CandidateResult(i) : i \in 1..(n + 1)}
           s == [i \in 1..n |-> CandidateResult(i)]
<1>1. results = s
  BY DEF Done
<1>2. \A i \in 1..n : i \in 1..(n + 1)
  OBVIOUS
<1>3. s \in Seq(T) /\ Len(s) = n
  BY <1>2
<1>4. all \in Seq(T) /\ Len(all) = n + 1
  OBVIOUS
<1>5. CandidateResult(n + 1) \in T
  OBVIOUS
<1>6. Append(s, CandidateResult(n + 1)) = all
  OBVIOUS
<1>7. results' = all
  BY <1>1, <1>3, <1>6
<1>8. [i \in 1..(n + 1) |-> CandidateResult(i)'] = all
  BY ResultsArePersistent
<1> QED
  BY <1>4, <1>7, <1>8 DEF Done

LEMMA NextKeepsPhase ==
  ASSUME IInv, Next
  PROVE  IInv'
<1>1. request' = request
  BY DEF Next, ReadPlan, Bind, ExecuteCandidate, Compare, BuildResult
<1>2. problem' = problem /\ plan' = plan
  BY <1>1 DEF problem, plan
<1>3. plan \in Plan
  BY PlanAssumption DEF IInv
<1>4. CASE ReadPlan
  BY <1>2, <1>4 DEF IInv, Phase, ReadPlan, Refuse
<1>5. CASE Bind
  <2>1. stage = "bind" /\ results = <<>> /\ PlanAccepted(plan) /\ refusal = "nobody"
    BY <1>5 DEF IInv, Phase, Bind
  <2>2. CASE stage' = "refused"
    BY <1>2, <1>5, <2>1, <2>2 DEF IInv, Phase, Bind, Refuse
  <2>3. CASE stage' = "execute"
    <3>1. plan.selected # <<>> /\ plan.selected \in Seq(Nat \ {Nobody})
      BY <1>3, <2>1 DEF Plan, PlanAccepted
    <3> DEFINE s == plan.selected
    <3>2. s # <<>> /\ s \in Seq(Nat \ {Nobody})
      BY <3>1
    <3> HIDE DEF s
    <3>3. 0 < Len(s)
      BY <3>2
    <3>4. results' = <<>> /\ refusal' = "nobody"
      BY <1>5, <2>1, <2>3 DEF Bind, Refuse
    <3>5. Done(0)'
      <4>1. [i \in 1..0 |-> CandidateResult(i)'] = <<>>
        OBVIOUS
      <4> QED
        BY <3>4, <4>1 DEF Done
    <3>6. \E n \in Nat : n < Len(plan.selected) /\ Done(n)'
      BY <3>3, <3>5 DEF s
    <3>7. Accepted'
      BY <1>2, <1>5, <2>1, <2>3 DEF Accepted, Bind, Refuse, KnownCandidates
    <3> QED
      BY <1>2, <2>1, <2>3, <3>4, <3>6, <3>7 DEF IInv, Phase
  <2> QED
    BY <1>5, <2>2, <2>3 DEF Bind, Refuse
<1>6. CASE ExecuteCandidate
  <2>1. stage = "execute" /\ refusal = "nobody" /\ Accepted
    BY <1>6 DEF IInv, Phase, ExecuteCandidate
  <2>2. PICK n \in Nat : n < Len(plan.selected) /\ Done(n)
    BY <2>1 DEF IInv, Phase
  <2>3. Done(n + 1)' /\ Len(results') = n + 1
    BY <1>1, <1>6, <2>2, OneMoreDone DEF ExecuteCandidate
  <2>4. refusal' = "nobody"
    BY <1>6, <2>1 DEF ExecuteCandidate
  <2>8. Accepted'
    BY <1>2, <2>1 DEF Accepted, KnownCandidates
  <2>5. Len(plan.selected) \in Nat
    BY <1>3 DEF Plan
  <2>6. CASE n + 1 = Len(plan.selected)
    <3>1. stage' = "compare"
      BY <1>6, <2>3, <2>6 DEF ExecuteCandidate
    <3>2. AllDone'
      BY <1>2, <2>3, <2>6 DEF AllDone
    <3> QED
      BY <1>2, <2>8, <2>4, <3>1, <3>2 DEF IInv, Phase
  <2>7. CASE n + 1 # Len(plan.selected)
    <3>1. stage' = "execute"
      BY <1>6, <2>3, <2>7 DEF ExecuteCandidate
    <3>2. n + 1 \in Nat /\ n + 1 < Len(plan'.selected)
      BY <1>2, <2>2, <2>5, <2>7
    <3>3. (\E m \in Nat : m < Len(plan.selected) /\ Done(m))'
      BY <2>3, <3>2
    <3> QED
      BY <1>2, <2>8, <2>4, <3>1, <3>3 DEF IInv, Phase
  <2> QED
    BY <2>6, <2>7
<1>7. CASE Compare
  <2>1. stage = "compare" /\ refusal = "nobody" /\ Accepted /\ AllDone
    BY <1>7 DEF IInv, Phase, Compare
  <2>2. results' = results
    BY <1>7 DEF Compare
  <2>3. AllDone' /\ Accepted'
    BY <1>1, <1>2, <2>1, <2>2, DoneIsPersistent DEF AllDone, Accepted, KnownCandidates
  <2>4. CASE ~CountsMatch /\ Refuse("count")
    <3>1. ~CountsMatch'
      BY <1>2, <2>2, <2>4 DEF CountsMatch
    <3> QED
      BY <1>2, <2>3, <2>4, <3>1 DEF IInv, Phase, Refuse
  <2>5. CASE ~ContentAccepted(Content) /\ Refuse("content")
    <3>1. ~ContentAccepted(Content')
      BY <1>1, <2>2, <2>5, ContentIsPersistent
    <3> QED
      BY <1>2, <2>3, <2>5, <3>1 DEF IInv, Phase, Refuse
  <2>6. CASE /\ comparison' = Content
             /\ evaluation' = [outcome |-> Outcome(results), used |-> AssumptionsUsed(results)]
             /\ stage' = "record" /\ refusal' = refusal
    <3>1. comparison' = Content'
      BY <1>1, <2>2, <2>6, ContentIsPersistent
    <3>2. Compared'
      BY <2>2, <2>6, <3>1 DEF Compared
    <3> QED
      BY <1>2, <2>1, <2>3, <2>6, <3>2 DEF IInv, Phase
  <2> QED
    BY <1>7, <2>4, <2>5, <2>6 DEF Compare
<1>8. CASE BuildResult
  <2>1. stage = "record" /\ refusal = "nobody" /\ Accepted /\ AllDone /\ Compared
    BY <1>8 DEF IInv, Phase, BuildResult
  <2>2. results' = results /\ comparison' = comparison /\ evaluation' = evaluation
    BY <1>8 DEF BuildResult
  <2>3. AllDone' /\ Accepted'
    BY <1>1, <1>2, <2>1, <2>2, DoneIsPersistent DEF AllDone, Accepted, KnownCandidates
  <2>4. Compared'
    <3>1. comparison' = Content'
      BY <1>1, <2>1, <2>2, ContentIsPersistent DEF Compared
    <3> QED
      BY <2>1, <2>2, <3>1 DEF Compared
  <2>5. CASE stage' = "recorded" /\ refusal' = refusal
    BY <1>2, <2>1, <2>3, <2>4, <2>5 DEF IInv, Phase
  <2>6. CASE ~RecordAccepted(comparison.candidates, evaluation) /\ Refuse("record")
    <3>1. ~RecordAccepted(comparison.candidates, evaluation)'
      BY <1>2, <2>2, <2>6 DEF RecordAccepted, ExecutionAccepted
    <3> QED
      BY <1>2, <2>3, <2>4, <2>6, <3>1 DEF IInv, Phase, Refuse
  <2> QED
    BY <1>8, <2>5, <2>6 DEF BuildResult
<1> QED
  BY <1>4, <1>5, <1>6, <1>7, <1>8 DEF Next

LEMMA CallsProceed == Spec => []IInv
<1>1. IInv /\ UNCHANGED vars => IInv'
  <2> SUFFICES ASSUME IInv, UNCHANGED vars PROVE IInv'
    OBVIOUS
  <2>1. /\ request' = request /\ results' = results /\ stage' = stage /\ refusal' = refusal
        /\ comparison' = comparison /\ evaluation' = evaluation
    BY DEF vars
  <2>2. problem' = problem /\ plan' = plan
    BY <2>1 DEF problem, plan
  <2>3. \A n : Done(n)' <=> Done(n)
    BY <2>1, DoneIsPersistent
  <2>4. Content' = Content
    BY <2>1, ContentIsPersistent
  <2>5. AllDone' <=> AllDone
    BY <2>2, <2>3 DEF AllDone
  <2>6. CountsMatch' <=> CountsMatch
    BY <2>1, <2>2 DEF CountsMatch
  <2>7. Compared' <=> Compared
    BY <2>1, <2>4 DEF Compared
  <2>8. RecordAccepted(comparison.candidates, evaluation)'
          <=> RecordAccepted(comparison.candidates, evaluation)
    BY <2>1, <2>2 DEF RecordAccepted, ExecutionAccepted
  <2>9. ContentAccepted(Content)' <=> ContentAccepted(Content)
    BY <2>4
  <2>11. Accepted' <=> Accepted
    BY <2>2 DEF Accepted, KnownCandidates
  <2>10. Phase' <=> Phase
    BY <2>1, <2>2, <2>3, <2>5, <2>6, <2>7, <2>8, <2>9, <2>11 DEF Phase
  <2> QED
    BY <2>2, <2>10 DEF IInv
<1> QED
  BY <1>1, Initially, NextKeepsPhase, PTL DEF Spec

-----------------------------------------------------------------------------
(* What is known of the candidates executed so far.                        *)

LEMMA ResultsFit ==
  ASSUME IInv, NEW i \in DOMAIN results
  PROVE  Planned /\ i \in DOMAIN plan.selected /\ ResultFits(results[i], i)
<1>1. plan \in Plan
  BY PlanAssumption DEF IInv
<1>2. Len(plan.selected) \in Nat /\ DOMAIN plan.selected = 1..Len(plan.selected)
  BY <1>1 DEF Plan
<1>3. \/ results = <<>>
      \/ Accepted /\ \E n \in Nat : n <= Len(plan.selected) /\ Done(n)
  BY <1>2 DEF IInv, Phase, AllDone
<1>4. results # <<>>
  <2>1. ASSUME results = <<>> PROVE FALSE
    <3>1. DOMAIN results = {}
      BY <2>1
    <3> QED
      BY <3>1
  <2> QED
    BY <2>1
<1>5. PICK n \in Nat : n <= Len(plan.selected) /\ Done(n)
  BY <1>3, <1>4
<1>6. DOMAIN results = 1..n /\ results[i] = CandidateResult(i)
  BY <1>5 DEF Done
<1>7. Planned
  BY <1>1, <1>3, <1>4 DEF Planned, Accepted
<1>8. ResultFits(results[i], i)
  BY <1>6, <1>7, CandidateFits
<1> QED
  BY <1>2, <1>5, <1>6, <1>7, <1>8

(* Once all candidates are executed, there is a result for each.           *)
LEMMA ResultsAreComplete ==
  ASSUME IInv, AllDone
  PROVE  /\ DOMAIN results = DOMAIN plan.selected
         /\ results \in Seq(Elements(results)) /\ Len(results) = Len(plan.selected)
         /\ DOMAIN results = 1..Len(results) /\ Len(results) \in Nat
<1>1. plan \in Plan
  BY PlanAssumption DEF IInv
<1>2. Len(plan.selected) \in Nat /\ DOMAIN plan.selected = 1..Len(plan.selected)
  BY <1>1 DEF Plan
<1> DEFINE n == Len(plan.selected)
<1>3. results = [i \in 1..n |-> CandidateResult(i)]
  BY DEF AllDone, Done
<1>4. n \in Nat
  BY <1>2
<1> HIDE DEF n
<1>5. DOMAIN results = 1..n /\ \A i \in 1..n : results[i] \in Elements(results)
  BY <1>3 DEF Elements
<1>6. results = [i \in 1..n |-> results[i]]
  BY <1>3
<1>7. results \in Seq(Elements(results)) /\ Len(results) = n
  BY <1>4, <1>5, <1>6
<1> QED
  BY <1>2, <1>4, <1>5, <1>7 DEF n

LEMMA SelectedAre ==
  ASSUME plan \in Plan
  PROVE  /\ \A i \in DOMAIN plan.selected : plan.selected[i] \in Nat \ {0}
         /\ \A a \in Elements(plan.acknowledgements) : a \in Acknowledgements
<1> DEFINE s == plan.selected
           k == plan.acknowledgements
<1>1. s \in Seq(Nat \ {0}) /\ k \in Seq(Acknowledgements)
  BY DEF Plan, Acknowledgements, Nobody
<1> HIDE DEF s, k
<1>2. \A i \in DOMAIN s : s[i] \in Nat \ {0}
  BY <1>1
<1>3. \A i \in DOMAIN k : k[i] \in Acknowledgements
  BY <1>1
<1> QED
  BY <1>2, <1>3 DEF s, k, Elements

(* The scenarios of a candidate are those of its core and its OAT points.  *)
LEMMA ScenariosAre ==
  ASSUME NEW r, NEW position, ResultFits(r, position)
  PROVE  /\ Elements(r.core \o r.oat) = Elements(r.core) \cup Elements(r.oat)
         /\ r.core \o r.oat \in Seq(Elements(r.core) \cup Elements(r.oat))
         /\ Len(r.core \o r.oat) = Len(r.core) + Len(r.oat)
<1> DEFINE s == r.core
           t == r.oat
           T == Elements(s) \cup Elements(t)
<1>1. s \in Seq(Elements(s)) /\ t \in Seq(Elements(t))
  BY DEF ResultFits
<1> HIDE DEF s, t
<1>2. /\ \A k \in 1..Len(s) : s[k] \in Elements(s)
      /\ \A k \in 1..Len(t) : t[k] \in Elements(t)
  BY <1>1
<1>3. s = [k \in 1..Len(s) |-> s[k]] /\ t = [k \in 1..Len(t) |-> t[k]]
  BY <1>1
<1>4. Len(s) \in Nat /\ Len(t) \in Nat
  BY <1>1
<1>5. s \in Seq(T) /\ t \in Seq(T)
  BY <1>2, <1>3, <1>4
<1> HIDE DEF T
<1>6. Elements(s \o t) = Elements(s) \cup Elements(t)
  BY <1>5, JoinedElements
<1>7. s \o t \in Seq(T) /\ Len(s \o t) = Len(s) + Len(t)
  BY <1>5
<1> QED
  BY <1>6, <1>7 DEF s, t, T

(* Where anything of a candidate was evaluated, the acknowledgements its   *)
(* scenarios may use are exactly those of the assumed inputs it consumes   *)
(* (strict_1d.py _acknowledgement_closure, orchestration.py): in every     *)
(* state of every call, for any problem and any plan brought to it.        *)
THEOREM AcknowledgementsAreClosed == Spec => []AcknowledgementsClosed
<1>1. IInv => AcknowledgementsClosed
  <2> SUFFICES ASSUME IInv, NEW i \in DOMAIN results,
                      NEW s \in Elements(AllScenarios(results[i])),
                      s.disposition = "evaluated"
               PROVE  /\ s.used \subseteq Elements(plan.acknowledgements)
                      /\ \A f \in ModelField :
                           Assumed(problem.candidates[results[i].candidate][f]) =>
                             Acknowledgement("candidate", results[i].candidate, f) \in s.used
                      /\ \A a \in Elements(plan.acknowledgements) :
                           a.candidate = results[i].candidate =>
                             a.field \in ModelField \cup OatFields(plan, results[i].candidate)
                      /\ \A a \in Supplied(plan, "global") : \E c \in Elements(plan.selected) :
                           a.field \in GlobalsConsumed(problem, c)
    BY DEF AcknowledgementsClosed, Elements
  <2> DEFINE c == plan.selected[i]
             r == results[i]
  <2>1. Planned /\ i \in DOMAIN plan.selected /\ ResultFits(r, i)
    BY ResultsFit
  <2>2. r.candidate = c /\ \A x \in Elements(r.core) \cup Elements(r.oat) : Fits(x, problem, plan, c)
    BY <2>1 DEF ResultFits
  <2>3. s \in Elements(r.core) \cup Elements(r.oat)
    BY <2>1, ScenariosAre DEF AllScenarios
  <2>4. Fits(s, problem, plan, c)
    BY <2>2, <2>3
  <2>5. c \in Nat \ {0} /\ \A a \in Elements(plan.acknowledgements) : a \in Acknowledgements
    BY <2>1, SelectedAre DEF Planned
  <2> HIDE DEF c, r
  <2>6. /\ s.used \subseteq Elements(plan.acknowledgements)
        /\ BindingFindings(problem, plan, c) = {}
        /\ Required(problem, c) \subseteq s.used
    BY <2>4 DEF Fits
  <2>7. ASSUME NEW f \in ModelField, Assumed(problem.candidates[c][f])
        PROVE  Acknowledgement("candidate", c, f) \in s.used
    BY <2>6, <2>7 DEF Required, AssumedBy
  <2>8. ASSUME NEW a \in Elements(plan.acknowledgements), a.candidate = c
        PROVE  a.field \in ModelField \cup OatFields(plan, c)
    <3>1. a.scope = "candidate"
      <4>1. AcknowledgementsAccepted(plan.acknowledgements, plan.selected)
        BY <2>1 DEF Planned, PlanAccepted
      <4>2. a.scope = "global" => a.candidate = 0
        BY <4>1 DEF AcknowledgementsAccepted, Nobody
      <4>3. a.scope \in {"candidate", "global"}
        BY <2>5 DEF Acknowledgements
      <4> QED
        BY <2>5, <2>8, <4>2, <4>3
    <3>2. AcknowledgementsClose(problem, plan, c)
      BY <2>6 DEF BindingFindings
    <3>3. a \in Required(problem, c) \cup AssumedBy(c, problem.candidates[c], OatFields(plan, c))
      BY <2>8, <3>1, <3>2 DEF AcknowledgementsClose, Supplied
    <3>4. a \notin RequiredGlobals(problem, c)
      BY <3>1 DEF RequiredGlobals, Acknowledgement
    <3> QED
      BY <3>3, <3>4 DEF Required, AssumedBy, Acknowledgement
  <2>9. ASSUME NEW a \in Supplied(plan, "global")
        PROVE  \E d \in Elements(plan.selected) : a.field \in GlobalsConsumed(problem, d)
    <3>1. GlobalFindings(problem, plan) = {}
      BY <2>6 DEF BindingFindings
    <3>2. a \in UNION {RequiredGlobals(problem, d) : d \in Elements(plan.selected)}
      BY <3>1 DEF GlobalFindings
    <3> QED
      BY <3>2 DEF RequiredGlobals, Acknowledgement
  <2> QED
    BY <2>2, <2>6, <2>7, <2>8, <2>9 DEF r
<1> QED
  BY <1>1, CallsProceed, PTL

-----------------------------------------------------------------------------
(* What the comparison puts together.                                      *)

LEMMA ExecutedIs ==
  ASSUME IInv, Executed
  PROVE  /\ Accepted /\ AllDone /\ Compared
         /\ comparison.candidates = [i \in DOMAIN results |-> WithReasons(results[i])]
<1>1. Accepted /\ AllDone /\ Compared
  BY DEF IInv, Phase, Executed
<1>2. comparison.candidates = [i \in DOMAIN results |-> WithReasons(results[i])]
  BY <1>1 DEF Compared, Content
<1> QED
  BY <1>1, <1>2

(* The reasons a candidate is not ranked for change its findings alone.    *)
LEMMA WithReasonsIs ==
  ASSUME NEW r, NEW position, ResultFits(r, position)
  PROVE  LET w == WithReasons(r)
         IN  /\ w.candidate = r.candidate /\ w.core = r.core /\ w.oat = r.oat
             /\ w.swept = r.swept /\ w.coverage = r.coverage /\ w.oatCoverage = r.oatCoverage
             /\ w.status = r.status /\ w.applicability = r.applicability
             /\ w.presence = r.presence /\ w.used = r.used
             /\ Reasons(w) = Reasons(r)
             /\ Reasons(r) = {} => w = r
<1> DEFINE w == WithReasons(r)
           added == {<<x, r.candidate>> : x \in Reasons(r)}
<1>0. /\ DOMAIN r = {"candidate", "core", "oat", "swept", "coverage", "oatCoverage", "status",
                     "applicability", "presence", "used", "findings", "warnings"}
      /\ r = [x \in DOMAIN r |-> r[x]]
  BY DEF ResultFits
<1>1. w = [r EXCEPT !.findings = r.findings \cup added]
  BY DEF WithReasons
<1>2. Reasons(r) = {} => added = {}
  OBVIOUS
<1> HIDE DEF w, added
<1>3. /\ w.candidate = r.candidate /\ w.core = r.core /\ w.oat = r.oat
      /\ w.swept = r.swept /\ w.coverage = r.coverage /\ w.oatCoverage = r.oatCoverage
  BY <1>0, <1>1
<1>4. /\ w.status = r.status /\ w.applicability = r.applicability
      /\ w.presence = r.presence /\ w.used = r.used
  BY <1>0, <1>1
<1>5. Reasons(w) = Reasons(r)
  BY <1>3 DEF Reasons, HasBasis
<1>6. ASSUME Reasons(r) = {} PROVE w = r
  <2>1. r.findings \cup added = r.findings
    BY <1>2, <1>6
  <2>2. w = [r EXCEPT !.findings = r.findings]
    BY <1>1, <2>1
  <2> QED
    BY ONLY <1>0, <2>2
<1> QED
  BY <1>3, <1>4, <1>5, <1>6 DEF w

(* What became of a candidate is what became of its core scenarios.        *)
LEMMA StatusIs ==
  ASSUME NEW r, NEW position, ResultFits(r, position)
  PROVE  /\ r.status \in {"evaluated", "not_applicable", "blocked"}
         /\ r.status = "evaluated" <=> \E s \in Elements(r.core) : s.disposition = "evaluated"
<1> DEFINE core == r.core
           e == Count(core, "evaluated")
           n == Count(core, "not_applicable")
<1>1. core \in Seq(Elements(core)) /\ Len(core) \in Nat \ {0}
  BY DEF ResultFits
<1>2. \A x \in Elements(core) : x.disposition \in Dispositions
  BY DEF ResultFits, Fits
<1>3. r.status = Status(core, r.oat)
  BY DEF ResultFits
<1> HIDE DEF core
<1>4. e \in Nat /\ n \in Nat /\ Count(core, "blocked") \in Nat /\ Count(core, "invalid") \in Nat
  BY <1>1, CountIs
<1>5. e > 0 <=> \E s \in Elements(core) : s.disposition = "evaluated"
  BY <1>1, CountIs
<1>6. e + Count(core, "blocked") + Count(core, "invalid") + n = Len(core)
  BY <1>1, <1>2, CountsAddUp
<1>7. ~(e > 0 /\ n = Len(core))
  BY <1>1, <1>4, <1>6
<1>8. Status(core, r.oat) = CASE e > 0 -> "evaluated"
                              [] n = Len(core) -> "not_applicable"
                              [] OTHER -> "blocked"
  BY DEF Status
<1> HIDE DEF e, n
<1>9. /\ r.status \in {"evaluated", "not_applicable", "blocked"}
      /\ r.status = "evaluated" <=> e > 0
  BY <1>3, <1>7, <1>8
<1> QED
  BY <1>5, <1>9 DEF core

(* What was evaluated has a temperature, and nothing else has.             *)
LEMMA FirstScenario ==
  ASSUME NEW r, NEW position, ResultFits(r, position)
  PROVE  /\ r.core[1] \in Elements(r.core)
         /\ r.core[1].disposition = "evaluated" <=> r.core[1].temperature # NoResult
<1> DEFINE core == r.core
<1>1. core \in Seq(Elements(core)) /\ Len(core) \in Nat \ {0}
  BY DEF ResultFits
<1>2. \A x \in Elements(core) : ScenarioAccepted(x)
  BY DEF ResultFits, Fits
<1> HIDE DEF core
<1>3. 1 \in 1..Len(core) /\ DOMAIN core = 1..Len(core)
  BY <1>1
<1>4. core[1] \in Elements(core)
  BY <1>1, <1>3
<1> QED
  BY <1>2, <1>4 DEF core, ScenarioAccepted

(* A candidate has a result exactly when a core scenario of it was         *)
(* evaluated, and predictions are made of sole evaluated baselines alone   *)
(* (strict_1d_orchestration.py, strict_1d_sensitivity.py): for any         *)
(* problem, any plan and any arithmetic.                                   *)
THEOREM ResultsAreOfCore == Spec => []ResultsComeFromCore
<1>1. IInv => ResultsComeFromCore
  <2> SUFFICES ASSUME IInv, Executed
               PROVE  /\ \A r \in Elements(comparison.candidates) :
                           r.presence <=> \E s \in Elements(r.core) : s.disposition = "evaluated"
                      /\ \A o \in PredictionOutputs(comparison.candidates) :
                           \E r \in Elements(comparison.candidates) :
                             /\ r.candidate = o.candidate /\ ~r.swept
                             /\ r.core[1].temperature # NoResult
    BY DEF ResultsComeFromCore
  <2> DEFINE final == comparison.candidates
  <2>1. final = [i \in DOMAIN results |-> WithReasons(results[i])]
    BY ExecutedIs
  <2> HIDE DEF final
  <2>2. ASSUME NEW r \in Elements(final)
        PROVE  /\ r.presence <=> \E s \in Elements(r.core) : s.disposition = "evaluated"
               /\ r.core[1].disposition = "evaluated" <=> r.core[1].temperature # NoResult
    <3>1. PICK i \in DOMAIN results : r = WithReasons(results[i])
      BY <2>1 DEF Elements
    <3> DEFINE x == results[i]
    <3>2. ResultFits(x, i)
      BY ResultsFit
    <3> HIDE DEF x
    <3>3. r.presence = x.presence /\ r.core = x.core
      BY <3>1, <3>2, WithReasonsIs DEF x
    <3>4. x.presence = (x.status = "evaluated")
      BY <3>2 DEF ResultFits
    <3>5. /\ x.status = "evaluated" <=> \E s \in Elements(x.core) : s.disposition = "evaluated"
          /\ x.core[1].disposition = "evaluated" <=> x.core[1].temperature # NoResult
      BY <3>2, StatusIs, FirstScenario
    <3>6. r.presence <=> x.status = "evaluated"
      BY <3>3, <3>4, Zenon
    <3> QED
      BY <3>3, <3>5, <3>6, Zenon
  <2>3. ASSUME NEW o \in PredictionOutputs(final)
        PROVE  \E r \in Elements(final) :
                 r.candidate = o.candidate /\ ~r.swept /\ r.core[1].temperature # NoResult
    <3>1. PICK r \in Elements(final) : /\ ~r.swept /\ r.core[1].disposition = "evaluated"
                                       /\ o.candidate = r.candidate
      BY DEF PredictionOutputs
    <3> QED
      BY <2>2, <3>1
  <2> QED
    BY <2>2, <2>3 DEF final
<1> QED
  BY <1>1, CallsProceed, PTL

-----------------------------------------------------------------------------
(* The ranking.                                                            *)

(* The results that can be ranked.                                         *)
Comparable ==
  {r \in Elements(results) : /\ ~r.swept /\ r.core[1].temperature # NoResult
                             /\ plan.exclude => r.core[1].limit # "fail"}

LEMMA CandidatesDiffer ==
  ASSUME IInv, NEW i \in DOMAIN results, NEW j \in DOMAIN results, i # j
  PROVE  /\ results[i].candidate \in Nat /\ results[j].candidate \in Nat
         /\ results[i].candidate # results[j].candidate
<1> DEFINE s == plan.selected
<1>1. /\ Planned /\ i \in DOMAIN s /\ j \in DOMAIN s
      /\ results[i].candidate = s[i] /\ results[j].candidate = s[j]
  BY ResultsFit DEF ResultFits
<1>2. s[i] \in Nat /\ s[j] \in Nat
  BY <1>1, SelectedAre DEF Planned
<1>3. i \in Int /\ j \in Int
  <2>1. DOMAIN s = 1..Len(s)
    BY <1>1 DEF Planned, Plan
  <2> QED
    BY <1>1, <2>1
<1>4. \A k, l \in DOMAIN s : k < l => s[k] < s[l]
  BY <1>1 DEF Planned, PlanAccepted, Increasing
<1> HIDE DEF s
<1>5. s[i] < s[j] \/ s[j] < s[i]
  BY <1>1, <1>3, <1>4
<1> QED
  BY <1>1, <1>2, <1>5

(* What is ranked has a temperature that is a number.                      *)
LEMMA ComparableAre ==
  ASSUME IInv, Accepted, NEW r \in Comparable
  PROVE  r.core[1].temperature \in Int /\ r.candidate \in Nat
<1>1. PICK i \in DOMAIN results : r = results[i]
  BY DEF Comparable, Elements
<1>2. Planned /\ i \in DOMAIN plan.selected /\ ResultFits(r, i)
  BY <1>1, ResultsFit
<1> DEFINE c == plan.selected[i]
<1>3. SweepsOf(plan, c) = <<>> /\ r.candidate = c
  BY <1>2, Zenon DEF Comparable, ResultFits
<1>4. c \in Nat /\ c \in DOMAIN problem.candidates
  BY <1>2, SelectedAre DEF Planned, Accepted, KnownCandidates, Elements
<1>5. r.core[1] = CoreScenario(i, 1)
  <2>1. 1 \in 1..Len(r.core)
    BY <1>2 DEF ResultFits
  <2> QED
    BY <1>2, <2>1 DEF ResultFits
<1>6. r.core[1].disposition = "evaluated" /\ r.core[1].temperature # NoResult
  BY <1>2, FirstScenario DEF Comparable
<1> DEFINE e == problem.candidates[c].conductivity
<1>7. Usable(e) /\ ~Nonphysical(e) /\ r.core[1].temperature = SourceTemperature(e.value)
  BY <1>3, <1>5, <1>6, UnsweptTemperature
<1>8. SourceTemperature(e.value) \in Int \cup {NoResult}
  BY <1>4, <1>7, ArithmeticAssumption DEF IInv
<1> QED
  BY <1>3, <1>4, <1>6, <1>7, <1>8

LEMMA CoolerOrders ==
  ASSUME IInv, Accepted
  PROVE  Orders({x \in Comparable \X Comparable : Cooler(x[1], x[2])}, Comparable)
<1> DEFINE S == Comparable
           R == {x \in S \X S : Cooler(x[1], x[2])}
<1>1. \A r \in S : r.core[1].temperature \in Int /\ r.candidate \in Nat
  BY ComparableAre
<1>2. \A r, s \in S : r # s => r.candidate # s.candidate
  <2> SUFFICES ASSUME NEW r \in S, NEW s \in S, r # s PROVE r.candidate # s.candidate
    OBVIOUS
  <2>1. PICK i \in DOMAIN results : r = results[i]
    BY DEF Comparable, Elements
  <2>2. PICK j \in DOMAIN results : s = results[j]
    BY DEF Comparable, Elements
  <2>3. i # j
    BY <2>1, <2>2
  <2> QED
    BY <2>1, <2>2, <2>3, CandidatesDiffer
<1>3. \A r, s \in S : <<r, s>> \in R <=>
        \/ r.core[1].temperature < s.core[1].temperature
        \/ r.core[1].temperature = s.core[1].temperature /\ r.candidate < s.candidate
  BY DEF Cooler
<1> HIDE DEF S, R
<1>4. Orders(R, S)
  BY <1>1, <1>2, <1>3 DEF Orders
<1> QED
  BY <1>4 DEF R, S

LEMMA ComparableIsFinite ==
  ASSUME IInv, AllDone
  PROVE  IsFiniteSet(Comparable)
<1>1. IsFiniteSet(Elements(results))
  BY ResultsAreComplete, ElementsAreFinite
<1>2. Comparable \in SUBSET Elements(results)
  BY DEF Comparable
<1> QED
  BY <1>1, <1>2, FS_Subset

(* The ranking lists all that can be compared, in order.                   *)
RankingFits(s) ==
  /\ s \in Seq(Comparable)
  /\ Elements(s) = IF Cardinality(Comparable) >= 2 THEN Comparable ELSE {}
  /\ \A i, j \in DOMAIN s : i < j => Cooler(s[i], s[j])
  /\ \A i, j \in DOMAIN s : i # j => s[i] # s[j]

LEMMA RankedIs ==
  ASSUME IInv, Accepted, AllDone
  PROVE  RankingFits(Ranked(Comparable))
<1> DEFINE S == Comparable
           n == Cardinality(S)
           R == {x \in S \X S : Cooler(x[1], x[2])}
           O == {s \in [1..n -> S] : \A i, j \in 1..n : i < j => Cooler(s[i], s[j])}
           t == Ranked(S)
<1>1. CASE n >= 2
  <2>1. PICK s \in [1..n -> S] : \A i, j \in 1..n : i < j => <<s[i], s[j]>> \in R
    BY CoolerOrders, ComparableIsFinite, OrderingExists
  <2>2. s \in O
    BY <2>1
  <2>3. t = CHOOSE u \in O : TRUE
    BY <1>1 DEF Ranked, Sorted, Orderings
  <2>4. t \in O
    BY <2>2, <2>3
  <2>5. Orders(R, S)
    BY CoolerOrders
  <2> HIDE DEF t
  <2>6. t \in [1..n -> S] /\ \A i, j \in 1..n : i < j => Cooler(t[i], t[j])
    BY <2>4
  <2>7. \A a \in S : ~Cooler(a, a)
    BY <2>5 DEF Orders
  <2>8. \A i, j \in 1..n : i < j => t[i] # t[j]
    BY <2>6, <2>7
  <2> HIDE DEF O, R
  <2>9. /\ t \in Seq(S) /\ DOMAIN t = 1..n /\ Elements(t) = S
        /\ \A i, j \in DOMAIN t : i # j => t[i] # t[j]
    BY <2>6, <2>8, ComparableIsFinite, OrderingIsComplete
  <2> QED
    BY <1>1, <2>6, <2>9 DEF RankingFits, t
<1>2. CASE ~(n >= 2)
  <2>1. t = <<>>
    BY <1>2 DEF Ranked
  <2> HIDE DEF t
  <2>2. DOMAIN t = {} /\ Elements(t) = {} /\ t \in Seq(S)
    BY <2>1 DEF Elements
  <2> QED
    BY <1>2, <2>2 DEF RankingFits, t
<1> QED
  BY <1>1, <1>2

(* The candidates found eligible are those that can be compared.           *)
LEMMA EligibleAre ==
  ASSUME IInv, Accepted
  PROVE  {r \in Elements([i \in DOMAIN results |-> WithReasons(results[i])]) : Reasons(r) = {}}
           = Comparable
<1> DEFINE final == [i \in DOMAIN results |-> WithReasons(results[i])]
<1>1. ASSUME NEW i \in DOMAIN results
      PROVE  LET r == results[i]
             IN  /\ Reasons(WithReasons(r)) = Reasons(r)
                 /\ Reasons(r) = {} => WithReasons(r) = r
                 /\ Reasons(r) = {} <=> r \in Comparable
  <2> DEFINE r == results[i]
  <2>1. ResultFits(r, i) /\ Planned
    BY ResultsFit
  <2>2. r \in Elements(results)
    BY DEF Elements
  <2> HIDE DEF r
  <2>3. Reasons(WithReasons(r)) = Reasons(r) /\ (Reasons(r) = {} => WithReasons(r) = r)
    BY <2>1, WithReasonsIs
  <2>4. HasBasis(r) <=> ~r.swept /\ r.core[1].temperature # NoResult
    BY <2>1, FirstScenario, Zenon DEF HasBasis
  <2>5. Reasons(r) = {} <=> HasBasis(r) /\ (plan.exclude => r.core[1].limit # "fail")
    BY DEF Reasons
  <2>6. Reasons(r) = {} <=> r \in Comparable
    BY <2>2, <2>4, <2>5, Zenon DEF Comparable
  <2> QED
    BY <2>3, <2>6 DEF r
<1>2. \A r \in Elements(final) : \E i \in DOMAIN results : r = WithReasons(results[i])
  BY DEF Elements
<1>3. \A i \in DOMAIN results : WithReasons(results[i]) \in Elements(final)
  BY DEF Elements
<1>4. \A r \in Comparable : \E i \in DOMAIN results : r = results[i]
  BY DEF Comparable, Elements
<1> HIDE DEF final
<1>5. {r \in Elements(final) : Reasons(r) = {}} \subseteq Comparable
  BY <1>1, <1>2
<1>6. Comparable \subseteq {r \in Elements(final) : Reasons(r) = {}}
  <2> SUFFICES ASSUME NEW r \in Comparable PROVE r \in Elements(final) /\ Reasons(r) = {}
    OBVIOUS
  <2>1. PICK i \in DOMAIN results : r = results[i]
    BY <1>4
  <2>2. Reasons(r) = {} /\ WithReasons(r) = r
    BY <1>1, <2>1
  <2> QED
    BY <1>3, <2>1, <2>2
<1> QED
  BY <1>5, <1>6 DEF final

(* The ranking compares like with like and leaves nothing out that can be  *)
(* compared, the best first (strict_1d_orchestration.py): for any problem, *)
(* any plan and any arithmetic.                                            *)
THEOREM RankingIsComparable == Spec => []RankedAreComparable
<1>1. IInv => RankedAreComparable
  <2> SUFFICES ASSUME IInv, Executed
               PROVE  LET ranked == comparison.ranked
                      IN /\ {r.candidate : r \in Elements(ranked)}
                              = (IF Cardinality(Comparable) >= 2
                                 THEN {r.candidate : r \in Comparable} ELSE {})
                         /\ \A i, j \in DOMAIN ranked : i < j => Cooler(ranked[i], ranked[j])
    BY DEF RankedAreComparable, Comparable, Cooler
  <2> DEFINE ranked == comparison.ranked
  <2>1. Accepted /\ AllDone /\ Compared
    BY ExecutedIs
  <2>2. ranked = Ranked(Comparable)
    BY <2>1, EligibleAre DEF Compared, Content
  <2>3. RankingFits(ranked)
    BY <2>1, <2>2, RankedIs
  <2> HIDE DEF ranked
  <2>4. Elements(ranked) = IF Cardinality(Comparable) >= 2 THEN Comparable ELSE {}
    BY <2>3 DEF RankingFits
  <2>5. \A i, j \in DOMAIN ranked : i < j => Cooler(ranked[i], ranked[j])
    BY <2>3 DEF RankingFits
  <2> QED
    BY <2>4, <2>5 DEF ranked
<1> QED
  BY <1>1, CallsProceed, PTL

-----------------------------------------------------------------------------
(* What a call is refused for.                                             *)

(* Where no range is rounded, the plan reckons the scenarios that are made.*)
LEMMA CountsAgree ==
  ASSUME IInv, Accepted, AllDone, \A s \in Elements(plan.sweeps) : Exact(s.values)
  PROVE  CountsMatch
<1>1. Planned
  BY PlanAssumption DEF IInv, Accepted, Planned
<1>2. \A s \in Elements(plan.sweeps) : s.values \in Values /\ ValuesAccepted(s.values)
  BY <1>1, SweepValues
<1>3. ASSUME NEW c PROVE RequestedOf(plan, c) = Combinations(SweepsOf(plan, c))
  <2> DEFINE w == SweepsOf(plan, c)
  <2>1. \A k \in DOMAIN w : w[k] \in Elements(plan.sweeps)
    <3>1. w \in Seq(Elements(plan.sweeps))
      BY <1>1, SweepsAre DEF Planned
    <3> HIDE DEF w
    <3> QED
      BY <3>1
  <2> HIDE DEF w
  <2>2. \A k \in DOMAIN w : PointCount(w[k].values) = Len(Points(w[k].values))
    BY <1>2, <2>1, PointsAre
  <2>3. [k \in DOMAIN w |-> PointCount(w[k].values)] = [k \in DOMAIN w |-> Len(Points(w[k].values))]
    BY <2>2
  <2> QED
    BY <2>3 DEF RequestedOf, Combinations, w
<1>4. \A i \in DOMAIN results : Len(results[i].core) = RequestedOf(plan, plan.selected[i])
  BY <1>3, ResultsFit DEF ResultFits
<1>5. DOMAIN results = DOMAIN plan.selected
  BY ResultsAreComplete
<1>6. [i \in DOMAIN results |-> Len(results[i].core)]
        = [i \in DOMAIN plan.selected |-> RequestedOf(plan, plan.selected[i])]
  BY <1>4, <1>5
<1> QED
  BY <1>6 DEF CountsMatch, RequestedTotal

(* Each candidate's result is one the result schema accepts.               *)
LEMMA CandidateIsAccepted ==
  ASSUME NEW r, NEW position, ResultFits(r, position), NEW w,
         w.core = r.core, w.oat = r.oat, w.coverage = r.coverage, w.oatCoverage = r.oatCoverage
  PROVE  CandidateAccepted(w)
<1> DEFINE core == r.core
           oat == r.oat
<1>1. /\ core \in Seq(Elements(core)) /\ Len(core) \in Nat \ {0} /\ oat \in Seq(Elements(oat))
      /\ \A j \in 1..Len(core) : core[j] = CoreScenario(position, j)
      /\ r.coverage = Coverage(core) /\ r.oatCoverage = Coverage(oat)
  BY DEF ResultFits
<1>2. \A s \in Elements(core) \cup Elements(oat) :
        ScenarioAccepted(s) /\ s.disposition \in Dispositions
  BY DEF ResultFits, Fits
<1>3. Elements(core \o oat) = Elements(core) \cup Elements(oat)
  BY ScenariosAre
<1> HIDE DEF core, oat
<1>4. core # <<>>
  BY <1>1
<1>5. IsInjective([j \in DOMAIN core |-> core[j].id])
  <2>1. DOMAIN core = 1..Len(core)
    BY <1>1
  <2>2. \A j \in DOMAIN core : core[j].id = <<position, "K", j, "core">>
    BY <1>1, <2>1, CoreFits
  <2>3. \A j, k \in DOMAIN core : core[j].id = core[k].id => j = k
    BY <2>2
  <2> QED
    BY <2>3 DEF IsInjective
<1>6. LET c == Coverage(oat)
      IN  c.evaluated + c.blocked + c.invalid + c.not_applicable = c.requested
  BY <1>1, <1>2, CountsAddUp DEF Coverage
<1>7. w.core = core /\ w.oat = oat /\ w.coverage = Coverage(core) /\ w.oatCoverage = Coverage(oat)
  BY <1>1 DEF core, oat
<1> QED
  BY <1>2, <1>3, <1>4, <1>5, <1>6, <1>7 DEF CandidateAccepted

(* What the comparison puts together is content the schema accepts.        *)
LEMMA ContentIsAccepted ==
  ASSUME IInv, Accepted, AllDone
  PROVE  ContentAccepted(Content)
<1> DEFINE final == [i \in DOMAIN results |-> WithReasons(results[i])]
           told == [i \in DOMAIN results |-> Eligibility(results[i])]
           ranked == Ranked(Comparable)
<1>1. /\ Content.candidates = final /\ Content.eligibility = told /\ Content.ranked = ranked
      /\ Content.findings = UNION {r.findings : r \in Elements(final)}
      /\ Content.warnings = UNION {r.warnings : r \in Elements(final)}
  BY EligibleAre DEF Content
<1>2. \A i \in DOMAIN results : final[i] = WithReasons(results[i]) /\ ResultFits(results[i], i)
  BY ResultsFit
<1>3. DOMAIN final = DOMAIN results /\ DOMAIN told = DOMAIN results
  OBVIOUS
<1>4. \A i \in DOMAIN results : final[i].candidate = results[i].candidate
  BY <1>2, WithReasonsIs
<1>5. \A i \in DOMAIN results : told[i].candidate = results[i].candidate
  BY DEF Eligibility
<1>6. RankingFits(ranked)
  BY RankedIs
<1> HIDE DEF final, told, ranked
<1>7. ASSUME NEW r \in Elements(final) PROVE CandidateAccepted(r)
  <2>1. PICK i \in DOMAIN results : r = final[i]
    BY <1>3 DEF Elements
  <2> DEFINE x == results[i]
  <2>2. ResultFits(x, i) /\ r = WithReasons(x)
    BY <1>2, <2>1
  <2> HIDE DEF x
  <2>3. /\ r.core = x.core /\ r.oat = x.oat
        /\ r.coverage = x.coverage /\ r.oatCoverage = x.oatCoverage
    BY <2>2, WithReasonsIs
  <2> QED
    BY <2>2, <2>3, CandidateIsAccepted
<1>8. IsInjective([i \in DOMAIN final |-> final[i].candidate])
  <2>1. \A i, j \in DOMAIN final : final[i].candidate = final[j].candidate => i = j
    BY <1>3, <1>4, CandidatesDiffer
  <2> QED
    BY <2>1 DEF IsInjective
<1>9. {e.candidate : e \in Elements(told)} = {r.candidate : r \in Elements(final)}
  <2>1. {e.candidate : e \in Elements(told)} = {results[i].candidate : i \in DOMAIN results}
    BY <1>3, <1>5 DEF Elements
  <2>2. {r.candidate : r \in Elements(final)} = {results[i].candidate : i \in DOMAIN results}
    BY <1>3, <1>4 DEF Elements
  <2> QED
    BY <2>1, <2>2
<1>10. IsInjective([i \in DOMAIN ranked |-> ranked[i].candidate])
  <2>1. \A i \in DOMAIN ranked : ranked[i] \in Comparable
    BY <1>6 DEF RankingFits
  <2>2. \A i \in DOMAIN ranked : \E k \in DOMAIN results : ranked[i] = results[k]
    BY <2>1 DEF Comparable, Elements
  <2>3. \A i, j \in DOMAIN ranked : i # j => ranked[i] # ranked[j]
    BY <1>6 DEF RankingFits
  <2>4. \A i, j \in DOMAIN ranked : ranked[i].candidate = ranked[j].candidate => i = j
    <3> SUFFICES ASSUME NEW i \in DOMAIN ranked, NEW j \in DOMAIN ranked, i # j
                 PROVE  ranked[i].candidate # ranked[j].candidate
      OBVIOUS
    <3>1. PICK k \in DOMAIN results : ranked[i] = results[k]
      BY <2>2
    <3>2. PICK l \in DOMAIN results : ranked[j] = results[l]
      BY <2>2
    <3>3. k # l
      BY <2>3, <3>1, <3>2
    <3> QED
      BY <3>1, <3>2, <3>3, CandidatesDiffer
  <2> QED
    BY <2>4 DEF IsInjective
<1> QED
  BY <1>1, <1>7, <1>8, <1>9, <1>10 DEF ContentAccepted

(* The acknowledgements a candidate reports: those its scenarios use, in   *)
(* the order of the model.                                                 *)
UsedFits(s, S) ==
  /\ Lists(s, S) /\ S \subseteq Elements(plan.acknowledgements)
  /\ \A i, j \in DOMAIN s : i < j => Before(ModelKey(s[i]), ModelKey(s[j]))

LEMMA SortedUseFits ==
  ASSUME plan \in Plan, NEW S \in SUBSET Elements(plan.acknowledgements)
  PROVE  UsedFits(SortedForModel(S), S)
<1>1. plan.acknowledgements \in Seq(Acknowledgements)
  BY DEF Plan, Acknowledgements
<1>2. IsFiniteSet(Elements(plan.acknowledgements))
  BY <1>1, ElementsAreFinite
<1>3. IsFiniteSet(S)
  BY <1>2, FS_Subset
<1>4. S \in SUBSET Acknowledgements
  BY SelectedAre
<1> DEFINE s == SortedForModel(S)
<1>5. Lists(s, S) /\ \A i, j \in DOMAIN s : i < j => Before(ModelKey(s[i]), ModelKey(s[j]))
  BY <1>3, <1>4, SortedForModelIs
<1> HIDE DEF s
<1> QED
  BY <1>5 DEF UsedFits, s

LEMMA UsedIs ==
  ASSUME Planned, NEW r, NEW position, ResultFits(r, position)
  PROVE  /\ UsedFits(r.used, UsedBy(r.core \o r.oat))
         /\ Elements(r.used) \subseteq Elements(plan.acknowledgements)
         /\ \A a \in Elements(r.used) : a.scope = "candidate" => a.candidate = r.candidate
<1> DEFINE S == UsedBy(r.core \o r.oat)
<1>1. \A s \in Elements(r.core \o r.oat) : Fits(s, problem, plan, plan.selected[position])
  BY ScenariosAre DEF ResultFits
<1>2. r.candidate = plan.selected[position] /\ r.used = SortedForModel(S)
  BY DEF ResultFits
<1>3. \A a \in S : /\ a \in Elements(plan.acknowledgements)
                   /\ a.scope = "candidate" => a.candidate = r.candidate
  BY <1>1, <1>2 DEF UsedBy, Fits
<1> HIDE DEF S
<1>4. UsedFits(r.used, S)
  BY <1>2, <1>3, SortedUseFits DEF Planned
<1>5. Elements(r.used) = S
  BY <1>4 DEF UsedFits, Lists
<1> QED
  BY <1>3, <1>4, <1>5 DEF S

(* A list of acknowledgements of one scope is one the record accepts.      *)
LEMMA OneScopeIsAccepted ==
  ASSUME Planned, NEW s, NEW S, UsedFits(s, S), \A a, b \in S : a.scope = b.scope
  PROVE  AcknowledgementsAccepted(s, plan.selected)
<1>1. /\ s \in Seq(S) /\ Elements(s) = S /\ S \subseteq Elements(plan.acknowledgements)
      /\ \A i, j \in DOMAIN s : i < j => Before(ModelKey(s[i]), ModelKey(s[j]))
  BY DEF UsedFits, Lists
<1>2. S \in SUBSET Acknowledgements
  BY <1>1, SelectedAre DEF Planned
<1>3. \A a \in Elements(plan.acknowledgements) :
        IF a.scope = "global" THEN a.candidate = Nobody ELSE a.candidate \in Elements(plan.selected)
  BY DEF Planned, PlanAccepted, AcknowledgementsAccepted
<1>4. \A i \in DOMAIN s : s[i] \in S
  BY <1>1 DEF Elements
<1>5. \A a, b \in S : Before(ModelKey(a), ModelKey(b)) <=> Before(PlanKey(a), PlanKey(b))
  BY <1>2, OneScopeOneOrder
<1>6. InPlanOrder(s)
  BY <1>1, <1>4, <1>5 DEF InPlanOrder
<1> QED
  BY <1>1, <1>3, <1>6 DEF AcknowledgementsAccepted

(* The reach of a candidate's result goes with what became of it.          *)
LEMMA ReachIs ==
  ASSUME NEW r, NEW position, ResultFits(r, position)
  PROVE  /\ r.status = "evaluated" =>
              r.applicability \in {"applicable", "applicable_with_warnings"} /\ r.presence
         /\ r.status = "blocked" => r.applicability = "not_evaluated" /\ ~r.presence
         /\ r.status = "not_applicable" => r.applicability = "not_applicable" /\ ~r.presence
<1>1. r.applicability = Applicability(r.status, r.core, r.oat)
  BY DEF ResultFits
<1>2. r.presence <=> r.status = "evaluated"
  BY Zenon DEF ResultFits
<1>3. r.status = "evaluated" => r.applicability \in {"applicable", "applicable_with_warnings"}
  <2>1. CASE Clean(r.core, r.oat)
    BY <1>1, <2>1 DEF Applicability
  <2>2. CASE ~Clean(r.core, r.oat)
    BY <1>1, <2>2 DEF Applicability
  <2> QED
    BY <2>1, <2>2
<1>4. r.status = "blocked" => r.applicability = "not_evaluated"
  BY <1>1 DEF Applicability
<1>5. r.status = "not_applicable" => r.applicability = "not_applicable"
  BY <1>1 DEF Applicability
<1>6. r.status = "evaluated" => r.presence
  BY <1>2
<1>7. r.status = "blocked" \/ r.status = "not_applicable" => ~r.presence
  <2>1. r.status = "blocked" \/ r.status = "not_applicable" => r.status # "evaluated"
    OBVIOUS
  <2> QED
    BY <1>2, <2>1, Zenon
<1> QED
  BY <1>3, <1>4, <1>5, <1>6, <1>7

(* Where no list mixes scopes and only candidates with a result report     *)
(* acknowledgements, the record is accepted.                               *)
LEMMA RecordIsAccepted ==
  ASSUME IInv, Executed,
         \A a, b \in UNION {Elements(r.used) : r \in Elements(results)} : a.scope = b.scope,
         \A r \in Elements(results) : r.status # "evaluated" => r.used = <<>>
  PROVE  RecordAccepted(comparison.candidates, evaluation)
<1> DEFINE final == comparison.candidates
           U == UNION {Elements(r.used) : r \in Elements(results)}
<1>1. Planned /\ AllDone /\ Compared
  BY ExecutedIs, PlanAssumption DEF Planned, Accepted, IInv
<1>2. final = [i \in DOMAIN results |-> WithReasons(results[i])]
  BY ExecutedIs
<1>3. /\ DOMAIN results = DOMAIN plan.selected /\ DOMAIN results = 1..Len(results)
      /\ Len(results) = Len(plan.selected) /\ Len(results) \in Nat
  BY <1>1, ResultsAreComplete
<1>4. DOMAIN final = DOMAIN results /\ Len(final) = Len(results)
  BY <1>2, <1>3
<1>5. \A i \in DOMAIN results : final[i] = WithReasons(results[i]) /\ ResultFits(results[i], i)
  BY <1>2, ResultsFit
<1> HIDE DEF final
<1>6. ASSUME NEW i \in DOMAIN results
      PROVE  /\ final[i].candidate = results[i].candidate /\ final[i].core = results[i].core
             /\ final[i].status = results[i].status /\ final[i].used = results[i].used
             /\ final[i].applicability = results[i].applicability
             /\ final[i].presence = results[i].presence
  BY <1>5, WithReasonsIs
<1>7. \A i \in DOMAIN results : Elements(results[i].used) \subseteq U
  BY DEF Elements
<1>8. \A a, b \in U : a.scope = b.scope
  OBVIOUS
<1>9. U \subseteq Elements(plan.acknowledgements)
  <2> SUFFICES ASSUME NEW i \in DOMAIN results
               PROVE  Elements(results[i].used) \subseteq Elements(plan.acknowledgements)
    BY DEF Elements
  <2> QED
    BY <1>1, <1>5, UsedIs
<1>10. \A i \in DOMAIN results : results[i].status # "evaluated" => Elements(results[i].used) = {}
  <2>1. \A s : s = <<>> => Elements(s) = {}
    BY DEF Elements
  <2>2. \A i \in DOMAIN results : results[i].status # "evaluated" => results[i].used = <<>>
    BY DEF Elements
  <2> QED
    BY <2>1, <2>2
<1>11. UNION {Elements(results[i].used) : i \in Evaluated(results)} = U
  <2>1. Evaluated(results) = {i \in DOMAIN results : results[i].status = "evaluated"}
    BY DEF Evaluated
  <2>2. U = UNION {Elements(results[i].used) : i \in DOMAIN results}
    BY DEF Elements
  <2> HIDE DEF U
  <2> QED
    BY <1>10, <2>1, <2>2
<1>12. UNION {Elements(r.used) : r \in Elements(final)} = U
  <2>1. U = UNION {Elements(results[i].used) : i \in DOMAIN results}
    BY DEF Elements
  <2>2. UNION {Elements(r.used) : r \in Elements(final)}
          = UNION {Elements(final[i].used) : i \in DOMAIN results}
    BY <1>4 DEF Elements
  <2> HIDE DEF U
  <2> QED
    BY <1>6, <2>1, <2>2
<1> HIDE DEF U
<1>13. ASSUME NEW i \in DOMAIN results PROVE ExecutionAccepted(final[i], i)
  <2> DEFINE r == results[i]
             f == final[i]
  <2>1. ResultFits(r, i)
    BY <1>5
  <2>2. /\ f.candidate = r.candidate /\ f.status = r.status /\ f.used = r.used
        /\ f.applicability = r.applicability /\ f.presence = r.presence
    BY <1>6
  <2>3. Elements(r.used) \subseteq U
    BY <1>7
  <2> HIDE DEF r, f
  <2>4. r.candidate = plan.selected[i]
    BY <2>1 DEF ResultFits
  <2>5. /\ UsedFits(r.used, UsedBy(r.core \o r.oat))
        /\ Elements(r.used) \subseteq Elements(plan.acknowledgements)
        /\ \A a \in Elements(r.used) : a.scope = "candidate" => a.candidate = r.candidate
    BY <1>1, <2>1, UsedIs
  <2>6. AcknowledgementsAccepted(r.used, plan.selected)
    <3>1. Elements(r.used) = UsedBy(r.core \o r.oat)
      BY <2>5 DEF UsedFits, Lists
    <3>2. \A a, b \in UsedBy(r.core \o r.oat) : a.scope = b.scope
      BY <1>8, <2>3, <3>1
    <3> QED
      BY <1>1, <2>5, <3>2, OneScopeIsAccepted
  <2>7. r.status = "evaluated" \/ r.status = "blocked" \/ r.status = "not_applicable"
    BY <2>1, StatusIs
  <2>8. /\ CASE f.status = "evaluated" ->
                 f.applicability \in {"applicable", "applicable_with_warnings"} /\ f.presence
            [] f.status = "blocked" -> f.applicability = "not_evaluated" /\ ~f.presence
            [] f.status = "not_applicable" -> f.applicability = "not_applicable" /\ ~f.presence
    <3>1. /\ f.status = "evaluated" =>
               f.applicability \in {"applicable", "applicable_with_warnings"} /\ f.presence
          /\ f.status = "blocked" => f.applicability = "not_evaluated" /\ ~f.presence
          /\ f.status = "not_applicable" => f.applicability = "not_applicable" /\ ~f.presence
      BY <2>1, <2>2, ReachIs
    <3>2. CASE f.status = "evaluated"
      BY <3>1, <3>2
    <3>3. CASE f.status = "blocked"
      BY <3>1, <3>3
    <3>4. CASE f.status = "not_applicable"
      BY <3>1, <3>4
    <3> QED
      BY <2>2, <2>7, <3>2, <3>3, <3>4
  <2>9. ExecutionAccepted(f, i)
    BY <2>2, <2>4, <2>5, <2>6, <2>8 DEF ExecutionAccepted
  <2> QED
    BY <2>9 DEF f
<1>14. evaluation.outcome = Outcome(results) /\ evaluation.used = AssumptionsUsed(results)
  BY <1>1 DEF Compared
<1>15. Evaluated(final) = Evaluated(results)
  BY <1>4, <1>6 DEF Evaluated
<1>16. evaluation.outcome = Outcome(final)
  BY <1>4, <1>14, <1>15 DEF Outcome
<1>17. evaluation.used = SortedForModel(U)
  BY <1>11, <1>14 DEF AssumptionsUsed
<1>18. UsedFits(evaluation.used, U) /\ U \in SUBSET Acknowledgements
  BY <1>1, <1>9, <1>17, SortedUseFits, SelectedAre DEF Planned
<1>19. AcknowledgementsAccepted(evaluation.used, plan.selected)
  BY <1>1, <1>8, <1>18, OneScopeIsAccepted
<1>20. evaluation.used = SortedForPlan(UNION {Elements(r.used) : r \in Elements(final)})
  BY <1>8, <1>12, <1>17, <1>18, OneScopeOneOrder
<1>21. ASSUME NEW o \in PredictionOutputs(final)
       PROVE  o.candidate \in {final[i].candidate : i \in Evaluated(final)}
  <2>1. PICK r \in Elements(final) : o.candidate = r.candidate /\ r.core[1].disposition = "evaluated"
    BY DEF PredictionOutputs
  <2>2. PICK i \in DOMAIN final : r = final[i]
    BY DEF Elements
  <2> DEFINE x == results[i]
  <2>3. ResultFits(x, i) /\ r.core = x.core /\ r.status = x.status
    BY <1>4, <1>5, <1>6, <2>2
  <2> HIDE DEF x
  <2>4. r.status = "evaluated"
    BY <2>1, <2>3, StatusIs, FirstScenario
  <2> QED
    BY <2>1, <2>2, <2>4 DEF Evaluated
<1>22. \A i \in DOMAIN final : ExecutionAccepted(final[i], i)
  BY <1>4, <1>13
<1>23. Len(final) = Len(plan.selected)
  BY <1>3, <1>4
<1> QED
  BY <1>16, <1>19, <1>20, <1>21, <1>22, <1>23 DEF RecordAccepted, final

(* A call is refused on account of the count, the content or the record    *)
(* only for the reasons named: rounding of a range, and acknowledgements   *)
(* of both scopes in a list or reported without a result.  For any         *)
(* problem, any plan, any arithmetic and any limit of the context.         *)
THEOREM RefusalsAreExplained == Spec => []RefusalsExplained
<1>1. ASSUME IInv, refusal = "count"
      PROVE  \E s \in Elements(plan.sweeps) :
               /\ s.values.kind = "range"
               /\ \/ Magnitude(s.values.stop - s.values.start) >= AmbientLimit
                  \/ Magnitude(s.values.step) >= AmbientLimit
  <2>1. Accepted /\ AllDone /\ ~CountsMatch
    BY <1>1 DEF IInv, Phase
  <2>2. PICK s \in Elements(plan.sweeps) : ~Exact(s.values)
    BY <1>1, <2>1, CountsAgree
  <2> DEFINE v == s.values
  <2>3. v \in Values /\ v.kind = "range"
    <3>1. Planned
      BY <1>1, <2>1, PlanAssumption DEF IInv, Accepted, Planned
    <3> QED
      BY <2>2, <3>1, SweepValues DEF Exact
  <2>4. \/ ~(Magnitude(v.stop - v.start) < AmbientLimit)
        \/ ~(Magnitude(v.step) < AmbientLimit)
    BY <2>2 DEF Exact
  <2> HIDE DEF v
  <2>5. v.start \in Int /\ v.stop \in Int /\ v.step \in Int
    BY <2>3 DEF Values
  <2>6. Magnitude(v.stop - v.start) \in Int /\ Magnitude(v.step) \in Int
    BY <2>5 DEF Magnitude
  <2>7. \/ Magnitude(v.stop - v.start) >= AmbientLimit
        \/ Magnitude(v.step) >= AmbientLimit
    BY <2>4, <2>6, AmbientAssumption
  <2> QED
    BY <2>3, <2>7 DEF v
<1>2. ASSUME IInv PROVE refusal # "content"
  <2>1. refusal = "content" => Accepted /\ AllDone /\ ~ContentAccepted(Content)
    BY <1>2 DEF IInv, Phase
  <2> QED
    BY <1>2, <2>1, ContentIsAccepted
<1>3. ASSUME IInv, refusal = "record"
      PROVE  \/ \E a, b \in UNION {Elements(r.used) : r \in Elements(results)} : a.scope # b.scope
             \/ \E r \in Elements(results) : r.status # "evaluated" /\ r.used # <<>>
  <2>1. ~RecordAccepted(comparison.candidates, evaluation)
    BY <1>3 DEF IInv, Phase
  <2>2. Executed
    BY <1>3 DEF Executed
  <2> QED
    BY <1>3, <2>1, <2>2, RecordIsAccepted
<1>4. IInv => RefusalsExplained
  BY <1>1, <1>2, <1>3 DEF RefusalsExplained
<1> QED
  BY <1>4, CallsProceed, PTL
=============================================================================
