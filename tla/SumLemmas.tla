------------------------------ MODULE SumLemmas ------------------------------
(***************************************************************************)
(* What SumFunction adds up to, whichever element CHOOSE takes first, and  *)
(* that Max is an element.  The lemmas are shown with a smallest           *)
(* counterexample, of sets of numbers and of sets of elements: induction   *)
(* over finite sets takes an operator as a parameter, which the provers    *)
(* cannot instantiate.                                                     *)
(***************************************************************************)
EXTENDS Integers, FiniteSets, FiniteSetsExt, FiniteSetTheorems, TLAPS

\* The pairs of natural numbers in ascending order, a well-founded relation.
Ascending == {ss \in Nat \X Nat : ss[1] < ss[2]}

LEMMA AscendingWellFounded == IsWellFoundedOn(Ascending, Nat)
  BY NatLessThanWellFounded DEF OpToRel, Ascending

LEMMA AscendingIff ==
  ASSUME NEW x \in Nat, NEW y \in Nat
  PROVE  <<x, y>> \in Ascending <=> x < y
  BY DEF Ascending

\* A set of natural numbers that is not empty has a least element.
LEMMA LeastElement ==
  ASSUME NEW T \in SUBSET Nat, T # {}
  PROVE  \E m \in T : \A y \in T : m <= y
  <1>1. PICK x \in T : \A y \in T : ~(<<y, x>> \in Ascending)
    BY AscendingWellFounded, WFMin, Zenon
  <1>2. \A y \in T : ~(y < x)
    BY <1>1, AscendingIff
  <1>3. QED
    BY <1>2

\* Of some subsets of a finite set, one contains no other.
LEMMA SmallestSet ==
  ASSUME NEW S, IsFiniteSet(S), NEW B \in SUBSET (SUBSET S), B # {}
  PROVE  \E T \in B : \A U \in B : ~(U \subseteq T /\ U # T)
  <1>1. IsWellFoundedOn(StrictSubsetOrdering(S), SUBSET S)
    BY FS_StrictSubsetOrderingWellFounded, FS_FiniteSubsetsOfFinite
  <1>2. PICK T \in B : \A U \in B : ~(<<U, T>> \in StrictSubsetOrdering(S))
    BY <1>1, WFMin, Zenon
  <1>3. QED
    BY <1>2 DEF StrictSubsetOrdering

\* SumFunction adds up the values of the elements in the order CHOOSE takes them.
Pick(s) == CHOOSE x \in s : TRUE
AddOne(f, s, g) == f[Pick(s)] + g[s \ {Pick(s)}]
Sums(f, S, g) == g = [s \in SUBSET S |-> IF s = {} THEN 0 ELSE AddOne(f, s, g)]

LEMMA SumIsSums ==
  ASSUME NEW f
  PROVE  SumFunction(f) = (CHOOSE g : Sums(f, DOMAIN f, g))[DOMAIN f]
  BY Zenon DEF SumFunction, SumFunctionOnSet, FoldFunctionOnSet, MapThenFoldSet, Sums, AddOne, Pick

LEMMA PickIn == ASSUME NEW s, s # {} PROVE Pick(s) \in s
  BY DEF Pick

LEMMA SumsIs ==
  ASSUME NEW f, NEW S, NEW g, Sums(f, S, g)
  PROVE  /\ DOMAIN g = SUBSET S
         /\ g[{}] = 0
         /\ \A s \in SUBSET S : s # {} => g[s] = AddOne(f, s, g)
  BY DEF Sums

\* The partial sums up to n elements.
Upto(S, n) == {s \in SUBSET S : Cardinality(s) <= n}
Partial(f, S, n, g) ==
  g = [s \in Upto(S, n) |-> IF s = {} THEN 0 ELSE f[Pick(s)] + g[s \ {Pick(s)}]]

LEMMA OneLess ==
  ASSUME NEW S, IsFiniteSet(S), NEW s \in SUBSET S, s # {}
  PROVE  /\ Cardinality(s) \in Nat \ {0}
         /\ s \ {Pick(s)} \in SUBSET S
         /\ Cardinality(s \ {Pick(s)}) = Cardinality(s) - 1
  <1>1. IsFiniteSet(s)
    BY FS_Subset
  <1>2. Pick(s) \in s
    BY PickIn
  <1>3. Cardinality(s) \in Nat /\ Cardinality(s) # 0
    BY <1>1, FS_CardinalityType, FS_EmptySet
  <1>4. QED
    BY <1>1, <1>2, <1>3, FS_RemoveElement

LEMMA PartialExists ==
  ASSUME NEW f, NEW S, IsFiniteSet(S)
  PROVE  \A n \in Nat : \E g : Partial(f, S, n, g)
  <1> DEFINE B == {n \in Nat : ~\E g : Partial(f, S, n, g)}
  <1>1. SUFFICES ASSUME B # {} PROVE FALSE
    OBVIOUS
  <1>2. B \in SUBSET Nat
    OBVIOUS
  <1>3. PICK m \in B : \A n \in B : m <= n
    <2> HIDE DEF B
    <2>1. QED
      BY <1>1, <1>2, LeastElement
  <1>4. m \in Nat /\ ~\E g : Partial(f, S, m, g)
    OBVIOUS
  <1>5. CASE m = 0
    <2> DEFINE z == [s \in Upto(S, 0) |-> 0]
    <2>1. \A s \in Upto(S, 0) : s = {}
      <3>1. ASSUME NEW s \in Upto(S, 0), s # {} PROVE FALSE
        <4>1. s \in SUBSET S /\ Cardinality(s) <= 0
          BY DEF Upto
        <4>2. Cardinality(s) \in Nat \ {0}
          BY <3>1, <4>1, OneLess
        <4>3. QED
          BY <4>1, <4>2
      <3>2. QED
        BY <3>1
    <2>2. z = [s \in Upto(S, 0) |-> IF s = {} THEN 0 ELSE f[Pick(s)] + z[s \ {Pick(s)}]]
      BY <2>1
    <2>3. QED
      BY <1>4, <1>5, <2>2 DEF Partial
  <1>6. CASE m > 0
    <2>1. m - 1 \in Nat /\ ~(m <= m - 1)
      BY <1>4, <1>6
    <2>2. m - 1 \notin B
      BY <1>3, <2>1
    <2>3. PICK g : Partial(f, S, m - 1, g)
      BY <2>1, <2>2
    <2> DEFINE h == [s \in Upto(S, m) |-> IF s = {} THEN 0 ELSE f[Pick(s)] + g[s \ {Pick(s)}]]
    <2>4. \A s \in Upto(S, m - 1) : s \in Upto(S, m) /\ h[s] = g[s]
      <3>1. ASSUME NEW s \in Upto(S, m - 1) PROVE s \in Upto(S, m)
        <4>1. Cardinality(s) \in Nat
          BY FS_Subset, FS_CardinalityType DEF Upto
        <4>2. QED
          BY <1>4, <4>1 DEF Upto
      <3>2. ASSUME NEW s \in Upto(S, m - 1) PROVE h[s] = g[s]
        BY <2>3, <3>1 DEF Partial
      <3>3. QED
        BY <3>1, <3>2
    <2>5. \A s \in Upto(S, m) : s # {} => s \ {Pick(s)} \in Upto(S, m - 1)
      <3>1. ASSUME NEW s \in Upto(S, m), s # {} PROVE s \ {Pick(s)} \in Upto(S, m - 1)
        <4>1. s \in SUBSET S /\ Cardinality(s) <= m
          BY DEF Upto
        <4>2. QED
          BY <1>4, <3>1, <4>1, OneLess DEF Upto
      <3>2. QED
        BY <3>1
    <2>6. h = [s \in Upto(S, m) |-> IF s = {} THEN 0 ELSE f[Pick(s)] + h[s \ {Pick(s)}]]
      BY <2>4, <2>5
    <2>7. Partial(f, S, m, h)
      BY <2>6 DEF Partial
    <2>8. QED
      BY <1>4, <2>7
  <1>7. QED
    BY <1>4, <1>5, <1>6

LEMMA SumsExist ==
  ASSUME NEW f, NEW S, IsFiniteSet(S)
  PROVE  Sums(f, S, CHOOSE g : Sums(f, S, g))
  <1>1. Cardinality(S) \in Nat
    BY FS_CardinalityType
  <1>2. Upto(S, Cardinality(S)) = SUBSET S
    BY FS_Subset DEF Upto
  <1>3. PICK g : Partial(f, S, Cardinality(S), g)
    BY <1>1, PartialExists
  <1>4. Sums(f, S, g)
    BY <1>2, <1>3 DEF Partial, Sums, AddOne
  <1>5. QED
    BY <1>4

LEMMA SumsNat ==
  ASSUME NEW S, IsFiniteSet(S), NEW f \in [S -> Nat], NEW g, Sums(f, S, g)
  PROVE  \A s \in SUBSET S : g[s] \in Nat
  <1>0. g[{}] = 0 /\ \A s \in SUBSET S : s # {} => g[s] = AddOne(f, s, g)
    BY SumsIs
  <1> DEFINE B == {s \in SUBSET S : g[s] \notin Nat}
  <1>1. SUFFICES ASSUME B # {} PROVE FALSE
    OBVIOUS
  <1>2. PICK s \in B : \A u \in B : ~(u \subseteq s /\ u # s)
    <2>1. B \in SUBSET (SUBSET S)
      OBVIOUS
    <2> HIDE DEF B
    <2>2. QED
      BY <1>1, <2>1, SmallestSet
  <1>3. s # {} /\ s \in SUBSET S /\ g[s] \notin Nat
    <2>1. g[{}] \in Nat
      BY <1>0
    <2>2. s \in SUBSET S /\ g[s] \notin Nat
      OBVIOUS
    <2>3. QED
      BY <2>1, <2>2
  <1>4. Pick(s) \in s /\ f[Pick(s)] \in Nat
    BY <1>3, PickIn
  <1>5. s \ {Pick(s)} \notin B
    BY <1>2, <1>4
  <1>6. g[s \ {Pick(s)}] \in Nat
    BY <1>3, <1>5
  <1>7. g[s] = f[Pick(s)] + g[s \ {Pick(s)}]
    BY <1>0, <1>3 DEF AddOne
  <1>8. QED
    BY <1>3, <1>4, <1>6, <1>7

\* The order does not matter: any element may be taken first.
LEMMA SumsTake ==
  ASSUME NEW S, IsFiniteSet(S), NEW f \in [S -> Nat], NEW g, Sums(f, S, g)
  PROVE  \A s \in SUBSET S : \A x \in s : g[s] = f[x] + g[s \ {x}]
  <1>0. g[{}] = 0 /\ \A s \in SUBSET S : s # {} => g[s] = AddOne(f, s, g)
    BY SumsIs
  <1> DEFINE B == {s \in SUBSET S : \E x \in s : g[s] # f[x] + g[s \ {x}]}
  <1>1. SUFFICES ASSUME B # {} PROVE FALSE
    OBVIOUS
  <1>2. PICK s \in B : \A u \in B : ~(u \subseteq s /\ u # s)
    <2>1. B \in SUBSET (SUBSET S)
      OBVIOUS
    <2> HIDE DEF B
    <2>2. QED
      BY <1>1, <2>1, SmallestSet
  <1>3. PICK x \in s : g[s] # f[x] + g[s \ {x}]
    OBVIOUS
  <1> DEFINE c == Pick(s)
  <1>4. s \in SUBSET S /\ s # {} /\ c \in s /\ g[s] = f[c] + g[s \ {c}]
    <2>1. s \in SUBSET S /\ s # {}
      BY <1>3
    <2>2. QED
      BY <1>0, <2>1, PickIn DEF AddOne
  <1>5. c # x
    BY <1>3, <1>4
  <1> DEFINE r == (s \ {c}) \ {x}
  <1>6. r = (s \ {x}) \ {c}
    OBVIOUS
  <1>7. s \ {c} \notin B /\ s \ {x} \notin B
    BY <1>2, <1>4
  <1>8. g[s \ {c}] = f[x] + g[r]
    BY <1>4, <1>5, <1>7
  <1>9. g[s \ {x}] = f[c] + g[r]
    BY <1>4, <1>5, <1>6, <1>7
  <1>10. f[x] \in Nat /\ f[c] \in Nat /\ g[r] \in Nat
    BY <1>4, SumsNat
  <1> HIDE DEF c, r
  <1>11. QED
    BY <1>3, <1>4, <1>8, <1>9, <1>10

\* Nor do the elements that are not added.
LEMMA SumsAgree ==
  ASSUME NEW S, IsFiniteSet(S), NEW R \in SUBSET S, NEW f, NEW h, \A x \in R : f[x] = h[x],
         NEW g, NEW k, Sums(f, S, g), Sums(h, R, k)
  PROVE  \A s \in SUBSET R : g[s] = k[s]
  <1>0. g[{}] = 0 /\ \A s \in SUBSET S : s # {} => g[s] = AddOne(f, s, g)
    BY DEF Sums
  <1>9. k[{}] = 0 /\ \A s \in SUBSET R : s # {} => k[s] = AddOne(h, s, k)
    BY DEF Sums
  <1> DEFINE B == {s \in SUBSET R : g[s] # k[s]}
  <1>1. SUFFICES ASSUME B # {} PROVE FALSE
    OBVIOUS
  <1>2. PICK s \in B : \A u \in B : ~(u \subseteq s /\ u # s)
    <2>1. B \in SUBSET (SUBSET S)
      OBVIOUS
    <2> HIDE DEF B
    <2>2. QED
      BY <1>1, <2>1, SmallestSet
  <1>3. s # {} /\ s \in SUBSET R /\ s \in SUBSET S /\ g[s] # k[s]
    BY <1>0, <1>9
  <1>4. Pick(s) \in s
    BY <1>3, PickIn
  <1>5. g[s \ {Pick(s)}] = k[s \ {Pick(s)}]
    BY <1>2, <1>3, <1>4
  <1>6. g[s] = f[Pick(s)] + g[s \ {Pick(s)}] /\ k[s] = h[Pick(s)] + k[s \ {Pick(s)}]
    BY <1>0, <1>3, <1>9 DEF AddOne
  <1>7. QED
    BY <1>3, <1>4, <1>5, <1>6

LEMMA SumNothing == ASSUME NEW f, DOMAIN f = {} PROVE SumFunction(f) = 0
  <1> DEFINE g == CHOOSE g : Sums(f, {}, g)
  <1>1. Sums(f, {}, g)
    BY SumsExist, FS_EmptySet
  <1>2. SumFunction(f) = g[{}]
    BY SumIsSums
  <1> HIDE DEF g
  <1>3. QED
    BY <1>1, <1>2, SumsIs

\* What an element adds to a sum.
LEMMA SumTakes ==
  ASSUME NEW S, IsFiniteSet(S), NEW f \in [S -> Nat]
  PROVE  /\ SumFunction(f) \in Nat
         /\ \A x \in S : SumFunction(f) = f[x] + SumFunction([y \in S \ {x} |-> f[y]])
  <1> DEFINE g == CHOOSE g : Sums(f, S, g)
  <1>1. Sums(f, S, g) /\ SumFunction(f) = g[S]
    BY SumsExist, SumIsSums
  <1> HIDE DEF g
  <1>2. SumFunction(f) \in Nat
    BY <1>1, SumsNat
  <1>3. ASSUME NEW x \in S
        PROVE  SumFunction(f) = f[x] + SumFunction([y \in S \ {x} |-> f[y]])
    <2> DEFINE R == S \ {x}
    <2> DEFINE h == [y \in R |-> f[y]]
    <2> DEFINE k == CHOOSE k : Sums(h, R, k)
    <2>1. R \in SUBSET S /\ IsFiniteSet(R) /\ DOMAIN h = R
      BY FS_Subset
    <2>2. Sums(h, R, k) /\ SumFunction(h) = k[R]
      BY <2>1, SumsExist, SumIsSums
    <2>3. \A y \in R : f[y] = h[y]
      OBVIOUS
    <2> HIDE DEF k, h
    <2>4. g[R] = k[R]
      BY <1>1, <2>1, <2>2, <2>3, SumsAgree
    <2>5. g[S] = f[x] + g[R]
      BY <1>1, SumsTake
    <2>6. QED
      BY <1>1, <2>2, <2>4, <2>5 DEF h
  <1>4. QED
    BY <1>2, <1>3

LEMMA SumGrows ==
  ASSUME NEW S, IsFiniteSet(S), NEW x, x \notin S, NEW f \in [S \cup {x} -> Nat]
  PROVE  /\ SumFunction(f) = f[x] + SumFunction([y \in S |-> f[y]])
         /\ SumFunction([y \in S |-> f[y]]) \in Nat
  <1>1. IsFiniteSet(S \cup {x}) /\ (S \cup {x}) \ {x} = S /\ x \in S \cup {x}
    BY FS_AddElement
  <1>2. SumFunction(f) = f[x] + SumFunction([y \in (S \cup {x}) \ {x} |-> f[y]])
    BY <1>1, SumTakes
  <1>3. [y \in S |-> f[y]] \in [S -> Nat]
    OBVIOUS
  <1>4. SumFunction([y \in S |-> f[y]]) \in Nat
    BY <1>3, SumTakes
  <1>5. QED
    BY <1>1, <1>2, <1>4

\* The sum over a set that an element has joined.
LEMMA SumJoins ==
  ASSUME NEW S, IsFiniteSet(S), NEW x, x \notin S, NEW g, NEW h,
         \A y \in S : g[y] \in Nat /\ h[y] = g[y], h[x] \in Nat
  PROVE  /\ SumFunction([y \in S \cup {x} |-> h[y]]) = h[x] + SumFunction([y \in S |-> g[y]])
         /\ SumFunction([y \in S |-> g[y]]) \in Nat
  <1> DEFINE f == [y \in S \cup {x} |-> h[y]]
  <1>1. f \in [S \cup {x} -> Nat] /\ f[x] = h[x]
    OBVIOUS
  <1>2. [y \in S |-> f[y]] = [y \in S |-> g[y]]
    OBVIOUS
  <1> HIDE DEF f
  <1>3. SumFunction(f) = f[x] + SumFunction([y \in S |-> f[y]]) /\ SumFunction([y \in S |-> f[y]]) \in Nat
    BY <1>1, SumGrows
  <1>4. QED
    BY <1>1, <1>2, <1>3 DEF f

\* A finite set of natural numbers that is not empty has a greatest element.
LEMMA GreatestElement ==
  ASSUME NEW S, IsFiniteSet(S), S # {}, \A x \in S : x \in Nat
  PROVE  Max(S) \in S /\ \A y \in S : y <= Max(S)
  <1> DEFINE B == {T \in SUBSET S : T # {} /\ ~\E m \in T : \A y \in T : y <= m}
  <1>0. B \in SUBSET (SUBSET S)
    OBVIOUS
  <1>1. ASSUME B # {} PROVE FALSE
    <2>1. PICK T \in B : \A U \in B : ~(U \subseteq T /\ U # T)
      <3> HIDE DEF B
      <3>1. QED
        BY <1>0, <1>1, SmallestSet
    <2>2. T \in SUBSET S /\ T # {} /\ ~\E m \in T : \A y \in T : y <= m
      OBVIOUS
    <2>3. PICK x \in T : TRUE
      BY <2>2
    <2>4. T \ {x} \notin B
      BY <2>1, <2>3
    <2>5. CASE T \ {x} = {}
      BY <2>2, <2>3, <2>5
    <2>6. CASE T \ {x} # {}
      <3>1. PICK m \in T \ {x} : \A y \in T \ {x} : y <= m
        BY <2>2, <2>4, <2>6
      <3>2. x \in Nat /\ m \in Nat /\ T \subseteq Nat
        BY <2>2, <2>3, <3>1
      <3>3. CASE x <= m
        BY <2>2, <2>3, <3>1, <3>2, <3>3
      <3>4. CASE m <= x
        BY <2>2, <2>3, <3>1, <3>2, <3>4
      <3>5. QED
        BY <3>2, <3>3, <3>4
    <2>7. QED
      BY <2>5, <2>6
  <1>2. S \notin B
    BY <1>1
  <1>3. \E m \in S : \A y \in S : y <= m
    BY <1>2
  <1>4. \E m \in S : \A y \in S : m >= y
    BY <1>3
  <1>5. QED
    BY <1>4 DEF Max
=============================================================================
