------------------------------- MODULE SetLemmas -------------------------------
(* What the proofs of the components need about finite sets: an induction over *)
(* the subsets of a finite set and one over the natural numbers that take the   *)
(* property as a set, the largest element, and the sum of a function over a set.*)
EXTENDS Integers, FiniteSets, FiniteSetsExt, FiniteSetTheorems, WellFoundedInduction, TLAPS

\* A set P that holds a subset of S whenever it holds its strict subsets holds
\* every subset of S.
LEMMA SubsetInduction ==
    ASSUME NEW S, IsFiniteSet(S), NEW P,
           ASSUME NEW T \in SUBSET S, \A U \in SUBSET T : U # T => U \in P
           PROVE  T \in P
    PROVE  \A T \in SUBSET S : T \in P
<1> DEFINE Bad == (SUBSET S) \ P
<1> SUFFICES ASSUME Bad # {}
             PROVE  FALSE
  OBVIOUS
<1>1. IsWellFoundedOn(StrictSubsetOrdering(S), SUBSET S)
  <2>1. FiniteSubsetsOf(S) = SUBSET S
    BY FS_FiniteSubsetsOfFinite
  <2>2. IsWellFoundedOn(StrictSubsetOrdering(S), FiniteSubsetsOf(S))
    BY FS_StrictSubsetOrderingWellFounded
  <2> QED  BY <2>1, <2>2
<1>2. PICK T \in Bad : \A U \in Bad : <<U, T>> \notin StrictSubsetOrdering(S)
  <2>1. Bad \subseteq SUBSET S
    OBVIOUS
  <2> HIDE DEF Bad
  <2> QED  BY <1>1, <2>1, WFMin
<1>3. \A U \in SUBSET T : U # T => U \in P
  BY <1>2 DEF StrictSubsetOrdering
<1> QED  BY <1>3

\* A finite set of integers has a largest element, and Max is it.
LEMMA MaxOfFinite ==
    ASSUME NEW S \in SUBSET Int, IsFiniteSet(S), S # {}
    PROVE  Max(S) \in S /\ \A y \in S : y <= Max(S)
<1> DEFINE P == {T \in SUBSET S : T = {} \/ \E x \in T : \A y \in T : x >= y}
<1>1. ASSUME NEW T \in SUBSET S, \A U \in SUBSET T : U # T => U \in P
      PROVE  T \in P
  <2> SUFFICES ASSUME T # {}
               PROVE  \E x \in T : \A y \in T : x >= y
    OBVIOUS
  <2>1. PICK z \in T : TRUE
    OBVIOUS
  <2>2. T \ {z} \in P
    BY <1>1
  <2>3. CASE T \ {z} = {}
    <3>1. \A y \in T : y = z
      BY <2>3
    <3> QED BY <3>1
  <2>4. CASE T \ {z} # {}
    <3>1. PICK x \in T \ {z} : \A y \in T \ {z} : x >= y
      BY <2>2, <2>4
    <3> QED BY <3>1
  <2> QED BY <2>3, <2>4
<1>2. S \in P
  <2> HIDE DEF P
  <2> QED  BY <1>1, SubsetInduction
<1>3. \E x \in S : \A y \in S : x >= y
  BY <1>2
<1>4. Max(S) \in S /\ \A y \in S : Max(S) >= y
  BY <1>3 DEF Max
<1> QED  BY <1>4

\* A set of natural numbers has a smallest element.
LEMMA LeastOfNaturals ==
    ASSUME NEW S \in SUBSET Nat, S # {}
    PROVE  \E n \in S : \A m \in S : n <= m
<1>1. PICK s \in S : TRUE
  OBVIOUS
<1> DEFINE below == {k \in 0 .. s : s - k \in S}
<1>2. below \in SUBSET Int /\ IsFiniteSet(below) /\ below # {}
  <2>1. IsFiniteSet(0 .. s)
    BY FS_Interval
  <2>2. 0 \in below /\ below \subseteq 0 .. s
    BY <1>1
  <2>3. below \in SUBSET Int /\ below # {}
    BY <1>1, <2>2
  <2> HIDE DEF below
  <2> QED  BY <2>1, <2>2, <2>3, FS_Subset
<1>3. PICK k \in below : \A y \in below : y <= k
  <2> HIDE DEF below
  <2> QED  BY <1>2, MaxOfFinite
<1>4. ASSUME NEW m \in S
      PROVE  s - k <= m
  <2>1. CASE m > s
    BY <1>1, <1>3, <2>1
  <2>2. CASE m <= s
    <3>1. s - m \in below
      BY <1>1, <2>2
    <3> QED  BY <1>1, <1>3, <3>1
  <2> QED  BY <1>1, <2>1, <2>2
<1> QED  BY <1>3, <1>4

\* A set that holds 0 and the successor of what it holds, holds every natural number.
LEMMA UpwardInduction ==
    ASSUME NEW P, 0 \in P, \A n \in Nat : n \in P => n + 1 \in P
    PROVE  \A n \in Nat : n \in P
<1> DEFINE Bad == Nat \ P
<1> SUFFICES ASSUME Bad # {}
             PROVE  FALSE
  OBVIOUS
<1>1. PICK n \in Bad : \A m \in Bad : n <= m
  <2>1. Bad \in SUBSET Nat
    OBVIOUS
  <2> HIDE DEF Bad
  <2> QED  BY <2>1, LeastOfNaturals
<1>2. n # 0 /\ n - 1 \in Nat
  OBVIOUS
<1>3. n - 1 \in P
  BY <1>1, <1>2
<1>4. (n - 1) + 1 \in P
  BY <1>2, <1>3
<1> QED  BY <1>4

----------------------------------------------------------------------------
\* The sum of a function over a set, as MapThenSumSet computes it: g holds the
\* sums over all subsets of S.
Sum(f, S) == MapThenSumSet(LAMBDA x : f[x], S)

IsSum(g, f, S) ==
    g = [s \in SUBSET S |->
            IF s = {} THEN 0
            ELSE LET x == CHOOSE x \in s : TRUE IN f[x] + g[s \ {x}]]

\* What MapThenSumSet means by its local recursive function.
LEMMA SumIsChosen ==
    ASSUME NEW f, NEW S
    PROVE  Sum(f, S) = (CHOOSE g : IsSum(g, f, S))[S]
BY DEF Sum, MapThenSumSet, MapThenFoldSet, IsSum

\* The sums over the subsets of a set are those of any set that contains it.
LEMMA SumsAgree ==
    ASSUME NEW f, NEW S, IsFiniteSet(S), NEW T \in SUBSET S,
           NEW g, IsSum(g, f, S), NEW h, IsSum(h, f, T)
    PROVE  \A U \in SUBSET T : g[U] = h[U]
<1> DEFINE P == {U \in SUBSET T : g[U] = h[U]}
<1>1. IsFiniteSet(T)
  BY FS_Subset
<1>2. ASSUME NEW U \in SUBSET T, \A V \in SUBSET U : V # U => V \in P
      PROVE  U \in P
  <2>1. CASE U = {}
    BY <2>1 DEF IsSum
  <2>2. CASE U # {}
    <3> DEFINE x == CHOOSE x \in U : TRUE
    <3>1. x \in U
      BY <2>2
    <3>2. g[U \ {x}] = h[U \ {x}]
      BY <1>2, <3>1
    <3>3. g[U] = f[x] + g[U \ {x}]
      BY <2>2 DEF IsSum
    <3>4. h[U] = f[x] + h[U \ {x}]
      BY <2>2 DEF IsSum
    <3> QED  BY <3>2, <3>3, <3>4
  <2> QED  BY <2>1, <2>2
<1>3. \A U \in SUBSET T : U \in P
  <2> HIDE DEF P
  <2> QED  BY <1>1, <1>2, SubsetInduction
<1> QED  BY <1>3

\* The function that Sum chooses exists, over every finite set.
LEMMA SumExists ==
    ASSUME NEW f, NEW S, IsFiniteSet(S)
    PROVE  \E g : IsSum(g, f, S)
<1> DEFINE P == {T \in SUBSET S : \E g : IsSum(g, f, T)}
<1>1. ASSUME NEW T \in SUBSET S, \A U \in SUBSET T : U # T => U \in P
      PROVE  T \in P
  <2> DEFINE sum(s) == (CHOOSE h : IsSum(h, f, s))[s]
             next(s) == LET x == CHOOSE x \in s : TRUE IN f[x] + sum(s \ {x})
             g == [s \in SUBSET T |-> IF s = {} THEN 0 ELSE next(s)]
  <2>1. ASSUME NEW s \in SUBSET T, s # T
        PROVE  sum(s) = g[s]
    <3> DEFINE h == CHOOSE h : IsSum(h, f, s)
               x == CHOOSE x \in s : TRUE
    <3>1. IsSum(h, f, s)
      BY <1>1, <2>1
    <3>2. CASE s = {}
      BY <3>1, <3>2 DEF IsSum
    <3>3. CASE s # {}
      <4>1. x \in s /\ s \ {x} \in SUBSET T /\ s \ {x} # T
        BY <3>3
      <4> DEFINE k == CHOOSE k : IsSum(k, f, s \ {x})
      <4>2. IsSum(k, f, s \ {x})
        BY <1>1, <4>1
      <4>3. IsFiniteSet(s)
        BY FS_Subset
      <4>4. h[s \ {x}] = k[s \ {x}]
        <5> HIDE DEF h, k, x
        <5> QED  BY <3>1, <4>2, <4>3, SumsAgree
      <4>5. h[s] = f[x] + h[s \ {x}]
        <5> HIDE DEF h
        <5> QED  BY <3>1, <3>3 DEF IsSum
      <4>6. g[s] = f[x] + k[s \ {x}]
        BY <3>3
      <4> QED  BY <4>4, <4>5, <4>6
    <3> QED  BY <3>2, <3>3
  <2>2. ASSUME NEW s \in SUBSET T, s # {}
        PROVE  LET x == CHOOSE x \in s : TRUE IN next(s) = f[x] + g[s \ {x}]
    <3> DEFINE x == CHOOSE x \in s : TRUE
    <3>1. x \in s /\ s \ {x} \in SUBSET T /\ s \ {x} # T
      BY <2>2
    <3>2. sum(s \ {x}) = g[s \ {x}]
      <4> HIDE DEF x, sum, g
      <4> QED  BY <2>1, <3>1
    <3> QED  BY <3>2
  <2>3. g = [s \in SUBSET T |->
               IF s = {} THEN 0
               ELSE LET x == CHOOSE x \in s : TRUE IN f[x] + g[s \ {x}]]
    <3> DEFINE k == [s \in SUBSET T |->
                       IF s = {} THEN 0
                       ELSE LET x == CHOOSE x \in s : TRUE IN f[x] + g[s \ {x}]]
    <3>1. \A s \in SUBSET T : g[s] = IF s = {} THEN 0 ELSE next(s)
      <4> HIDE DEF next
      <4> QED  OBVIOUS
    <3>2. \A s \in SUBSET T : g[s] = k[s]
      <4> HIDE DEF g, next
      <4> QED  BY <2>2, <3>1
    <3>3. DOMAIN g = SUBSET T /\ DOMAIN k = SUBSET T
      OBVIOUS
    <3>4. g = [s \in DOMAIN g |-> g[s]] /\ k = [s \in DOMAIN k |-> k[s]]
      OBVIOUS
    <3> HIDE DEF g, k
    <3>5. g = k
      BY <3>2, <3>3, <3>4
    <3> QED  BY <3>5 DEF k
  <2> HIDE DEF g
  <2> QED  BY <2>3 DEF IsSum
<1>2. S \in P
  <2> HIDE DEF P
  <2> QED  BY <1>1, SubsetInduction
<1> QED  BY <1>2

\* So a sum is the value of the chosen element and the sum of the rest.
LEMMA SumOfChoice ==
    ASSUME NEW f, NEW S, IsFiniteSet(S)
    PROVE  /\ S = {} => Sum(f, S) = 0
           /\ S # {} => LET x == CHOOSE x \in S : TRUE IN Sum(f, S) = f[x] + Sum(f, S \ {x})
<1> DEFINE g == CHOOSE g : IsSum(g, f, S)
           x == CHOOSE x \in S : TRUE
           h == CHOOSE h : IsSum(h, f, S \ {x})
<1>1. IsSum(g, f, S)
  BY SumExists
<1>2. IsSum(h, f, S \ {x})
  BY SumExists, FS_RemoveElement
<1>3. Sum(f, S) = g[S] /\ Sum(f, S \ {x}) = h[S \ {x}]
  BY SumIsChosen
<1>4. CASE S = {}
  <2> HIDE DEF g
  <2> QED  BY <1>1, <1>3, <1>4 DEF IsSum
<1>5. CASE S # {}
  <2>1. g[S] = f[x] + g[S \ {x}]
    <3> HIDE DEF g
    <3> QED  BY <1>1, <1>5 DEF IsSum
  <2>2. g[S \ {x}] = h[S \ {x}]
    <3> HIDE DEF g, h, x
    <3> QED  BY <1>1, <1>2, SumsAgree
  <2> QED  BY <2>1, <2>2, <1>3, <1>5
<1> QED  BY <1>4, <1>5

\* Natural numbers sum to a natural number.
LEMMA SumNat ==
    ASSUME NEW S, IsFiniteSet(S), NEW f, \A x \in S : f[x] \in Nat
    PROVE  Sum(f, S) \in Nat
<1> DEFINE P == {T \in SUBSET S : Sum(f, T) \in Nat}
<1>1. ASSUME NEW T \in SUBSET S, \A U \in SUBSET T : U # T => U \in P
      PROVE  T \in P
  <2>1. IsFiniteSet(T)
    BY FS_Subset
  <2>2. CASE T = {}
    <3>1. Sum(f, T) = 0
      BY <2>1, <2>2, SumOfChoice
    <3> QED  BY <3>1
  <2>3. CASE T # {}
    <3> DEFINE x == CHOOSE x \in T : TRUE
    <3>1. x \in T
      BY <2>3
    <3>2. Sum(f, T) = f[x] + Sum(f, T \ {x})
      BY <2>1, <2>3, SumOfChoice
    <3>3. Sum(f, T \ {x}) \in Nat
      BY <1>1, <3>1
    <3> QED  BY <3>1, <3>2, <3>3
  <2> QED  BY <2>2, <2>3
<1>2. S \in P
  <2> HIDE DEF P
  <2> QED  BY <1>1, SubsetInduction
<1> QED  BY <1>2

LEMMA SumEmpty == ASSUME NEW f PROVE Sum(f, {}) = 0
BY SumOfChoice, FS_EmptySet

\* Any element may be taken out, not only the chosen one.
LEMMA SumSplit ==
    ASSUME NEW S, IsFiniteSet(S), NEW f, \A x \in S : f[x] \in Nat, NEW e \in S
    PROVE  Sum(f, S) = f[e] + Sum(f, S \ {e})
<1> DEFINE P == {T \in SUBSET S : \A y \in T : Sum(f, T) = f[y] + Sum(f, T \ {y})}
<1>1. ASSUME NEW T \in SUBSET S, \A U \in SUBSET T : U # T => U \in P
      PROVE  T \in P
  <2> SUFFICES ASSUME NEW y \in T
               PROVE  Sum(f, T) = f[y] + Sum(f, T \ {y})
    OBVIOUS
  <2> DEFINE x == CHOOSE x \in T : TRUE
  <2>1. x \in T
    OBVIOUS
  <2>2. IsFiniteSet(T)
    BY FS_Subset
  <2>3. Sum(f, T) = f[x] + Sum(f, T \ {x})
    BY <2>2, SumOfChoice
  <2> HIDE DEF x
  <2>4. CASE x = y
    BY <2>3, <2>4
  <2>5. CASE x # y
    <3> DEFINE rest == T \ {x, y}
    <3>1. rest = (T \ {x}) \ {y} /\ rest = (T \ {y}) \ {x}
      OBVIOUS
    <3>2. T \ {x} \in P /\ T \ {y} \in P
      BY <1>1, <2>1
    <3>3. Sum(f, T \ {x}) = f[y] + Sum(f, rest)
      BY <2>5, <3>1, <3>2
    <3>4. Sum(f, T \ {y}) = f[x] + Sum(f, rest)
      BY <2>1, <2>5, <3>1, <3>2
    <3>5. Sum(f, rest) \in Nat
      <4>1. IsFiniteSet(rest) /\ \A z \in rest : f[z] \in Nat
        BY <2>2, FS_Subset
      <4> QED  BY <4>1, SumNat
    <3>6. f[x] \in Nat /\ f[y] \in Nat
      BY <2>1
    <3> QED  BY <2>3, <3>3, <3>4, <3>5, <3>6
  <2> QED  BY <2>4, <2>5
<1>2. S \in P
  <2> HIDE DEF P
  <2> QED  BY <1>1, SubsetInduction
<1> QED  BY <1>2

\* The sum depends on the values over its set only.
LEMMA SumSame ==
    ASSUME NEW S, IsFiniteSet(S), NEW f, NEW g, \A x \in S : f[x] = g[x]
    PROVE  Sum(f, S) = Sum(g, S)
<1> DEFINE P == {T \in SUBSET S : Sum(f, T) = Sum(g, T)}
<1>1. ASSUME NEW T \in SUBSET S, \A U \in SUBSET T : U # T => U \in P
      PROVE  T \in P
  <2>1. IsFiniteSet(T)
    BY FS_Subset
  <2>2. CASE T = {}
    BY <2>2, SumEmpty
  <2>3. CASE T # {}
    <3> DEFINE x == CHOOSE x \in T : TRUE
    <3>1. x \in T
      BY <2>3
    <3>2. Sum(f, T) = f[x] + Sum(f, T \ {x}) /\ Sum(g, T) = g[x] + Sum(g, T \ {x})
      BY <2>1, <2>3, SumOfChoice
    <3>3. Sum(f, T \ {x}) = Sum(g, T \ {x})
      BY <1>1, <3>1
    <3> HIDE DEF x
    <3> QED  BY <3>1, <3>2, <3>3
  <2> QED  BY <2>2, <2>3
<1>2. S \in P
  <2> HIDE DEF P
  <2> QED  BY <1>1, SubsetInduction
<1> QED  BY <1>2

LEMMA SumZero ==
    ASSUME NEW S, IsFiniteSet(S), NEW f, \A x \in S : f[x] = 0
    PROVE  Sum(f, S) = 0
<1> DEFINE P == {T \in SUBSET S : Sum(f, T) = 0}
<1>1. ASSUME NEW T \in SUBSET S, \A U \in SUBSET T : U # T => U \in P
      PROVE  T \in P
  <2>1. IsFiniteSet(T)
    BY FS_Subset
  <2>2. CASE T = {}
    BY <2>2, SumEmpty
  <2>3. CASE T # {}
    <3>1. PICK x \in T : TRUE
      BY <2>3
    <3>2. Sum(f, T) = f[x] + Sum(f, T \ {x})
      BY <2>1, SumSplit
    <3>3. Sum(f, T \ {x}) = 0
      BY <1>1
    <3> QED  BY <3>2, <3>3
  <2> QED  BY <2>2, <2>3
<1>2. S \in P
  <2> HIDE DEF P
  <2> QED  BY <1>1, SubsetInduction
<1> QED  BY <1>2

\* One element's value changes.
LEMMA SumUpdate ==
    ASSUME NEW S, IsFiniteSet(S), NEW f, \A x \in S : f[x] \in Nat,
           NEW g, \A x \in S : g[x] \in Nat, NEW e \in S, \A x \in S \ {e} : g[x] = f[x]
    PROVE  Sum(g, S) = Sum(f, S) - f[e] + g[e]
<1>1. Sum(f, S) = f[e] + Sum(f, S \ {e}) /\ Sum(g, S) = g[e] + Sum(g, S \ {e})
  BY SumSplit
<1>2. IsFiniteSet(S \ {e})
  BY FS_RemoveElement
<1>3. Sum(f, S \ {e}) = Sum(g, S \ {e}) /\ Sum(f, S \ {e}) \in Nat
  BY <1>2, SumSame, SumNat
<1> QED  BY <1>1, <1>3
================================================================================
