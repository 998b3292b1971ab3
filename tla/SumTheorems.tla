------------------------------ MODULE SumTheorems ------------------------------
(* What the library's sums over finite sets compute: the facts the invariants   *)
(* that add up strikes or bytes rest on. An induction over the subsets of a set *)
(* is a proof that none of them is the least counterexample.                    *)
EXTENDS Integers, FiniteSetsExt, FiniteSetTheorems, WellFoundedInduction, TLAPS

-----------------------------------------------------------------------------
(* Induction over the subsets of a finite set *)

\* Among the subsets of a finite set with some property there is a least one: none
\* smaller has it.
LEMMA LeastSubset ==
  ASSUME NEW S, IsFiniteSet(S), NEW Family \in SUBSET SUBSET S, Family # {}
  PROVE  \E U \in Family : \A V \in SUBSET U : V # U => V \notin Family
<1>1. IsWellFoundedOn(StrictSubsetOrdering(S), SUBSET S)
  BY FS_StrictSubsetOrderingWellFounded, FS_FiniteSubsetsOfFinite
<1>2. \E U \in Family : \A V \in Family : ~ (<<V, U>> \in StrictSubsetOrdering(S))
  BY <1>1, WFMin
<1>3. \A U, V \in Family : V \subseteq U /\ V # U => <<V, U>> \in StrictSubsetOrdering(S)
  BY DEF StrictSubsetOrdering
<1>4. QED
  BY <1>2, <1>3

-----------------------------------------------------------------------------
(* What SumFunctionOnSet computes *)

Summing(f, S, h) ==
  h = [s \in SUBSET S |-> IF s = {} THEN 0
         ELSE LET x == CHOOSE x \in s : TRUE IN f[x] + h[s \ {x}]]

LEMMA SumIsSumming ==
  ASSUME NEW f, NEW S
  PROVE  SumFunctionOnSet(f, S) = (CHOOSE h : Summing(f, S, h))[S]
BY DEF SumFunctionOnSet, FoldFunctionOnSet, MapThenFoldSet, Summing

LEMMA SummingUnique ==
  ASSUME NEW f, NEW S, IsFiniteSet(S), NEW g, NEW h, Summing(f, S, g), Summing(f, S, h)
  PROVE  g = h
<1> DEFINE Differ == {s \in SUBSET S : g[s] # h[s]}
<1>1. SUFFICES ASSUME Differ # {} PROVE FALSE
  BY DEF Summing
<1>2. PICK U \in Differ : \A V \in SUBSET U : V # U => V \notin Differ
  <2>1. Differ \in SUBSET SUBSET S
    OBVIOUS
  <2> HIDE DEF Differ
  <2>2. QED
    BY <1>1, <2>1, LeastSubset
<1>3. U # {}
  BY DEF Summing
<1> DEFINE x == CHOOSE x \in U : TRUE
<1>4. x \in U
  BY <1>3
<1>5. g[U] = f[x] + g[U \ {x}] /\ h[U] = f[x] + h[U \ {x}]
  BY <1>3, SMT DEF Summing
<1>6. g[U \ {x}] = h[U \ {x}]
  BY <1>2, <1>4
<1>7. QED
  BY <1>5, <1>6

\* What sums the subsets of V sums those of a part of V too.
LEMMA SummingRestricts ==
  ASSUME NEW f, NEW V, IsFiniteSet(V), NEW W \in SUBSET V,
         NEW h, Summing(f, V, h), NEW g, Summing(f, W, g)
  PROVE  h[W] = g[W]
<1> DEFINE R == [s \in SUBSET W |-> h[s]]
<1>1. Summing(f, W, R)
  <2>1. ASSUME NEW s \in SUBSET W
        PROVE  R[s] = IF s = {} THEN 0
                 ELSE LET x == CHOOSE x \in s : TRUE IN f[x] + R[s \ {x}]
    BY DEF Summing
  <2>2. QED
    BY <2>1 DEF Summing
<1>2. R = g
  <2> HIDE DEF R
  <2>1. QED
    BY <1>1, FS_Subset, SummingUnique
<1>3. QED
  BY <1>2

LEMMA SummingExists ==
  ASSUME NEW f, NEW S, IsFiniteSet(S)
  PROVE  \E h : Summing(f, S, h)
<1> DEFINE Bad == {s \in SUBSET S : ~ \E h : Summing(f, s, h)}
<1>1. SUFFICES ASSUME Bad # {} PROVE FALSE
  OBVIOUS
<1>2. PICK U \in Bad : \A V \in SUBSET U : V # U => V \notin Bad
  <2>1. Bad \in SUBSET SUBSET S
    OBVIOUS
  <2> HIDE DEF Bad
  <2>2. QED
    BY <1>1, <2>1, LeastSubset
<1> DEFINE H(s) == CHOOSE h : Summing(f, s, h)
           x == CHOOSE x \in U : TRUE
           G == [s \in SUBSET U |-> IF s = {} THEN 0
                   ELSE IF s = U THEN f[x] + H(U \ {x})[U \ {x}] ELSE H(s)[s]]
<1>3. \A V \in SUBSET U : V # U => Summing(f, V, H(V))
  BY <1>2
<1>4. ASSUME NEW V \in SUBSET U, V # U, NEW W \in SUBSET V
      PROVE  H(V)[W] = H(W)[W]
  <2>1. Summing(f, V, H(V)) /\ Summing(f, W, H(W)) /\ IsFiniteSet(V)
    BY <1>3, <1>4, FS_Subset
  <2> HIDE DEF H
  <2>2. QED
    BY <2>1, SummingRestricts
<1>5. Summing(f, U, G)
  <2>1. ASSUME NEW s \in SUBSET U
        PROVE  G[s] = IF s = {} THEN 0
                 ELSE LET y == CHOOSE y \in s : TRUE IN f[y] + G[s \ {y}]
    <3>1. CASE s = {}
      BY <3>1
    <3>2. CASE s # {}
      <4> DEFINE y == CHOOSE y \in s : TRUE
      <4>1. y \in s
        BY <3>2
      <4>2. G[s \ {y}] = H(s \ {y})[s \ {y}]
        <5>1. CASE s \ {y} = {}
          <6>1. Summing(f, s \ {y}, H(s \ {y}))
            BY <1>3, <4>1
          <6> HIDE DEF H
          <6>2. QED
            BY <6>1, <5>1 DEF Summing
        <5>2. CASE s \ {y} # {}
          BY <4>1, <5>2
        <5>3. QED
          BY <5>1, <5>2
      <4>3. CASE s = U
        BY <3>2, <4>2, <4>3
      <4>4. CASE s # U
        <5>1. G[s] = H(s)[s]
          BY <3>2, <4>4
        <5>2. Summing(f, s, H(s))
          BY <1>3, <4>4
        <5>3. H(s)[s] = f[y] + H(s)[s \ {y}]
          <6> HIDE DEF H
          <6> QED BY <3>2, <5>2 DEF Summing
        <5>4. H(s)[s \ {y}] = H(s \ {y})[s \ {y}]
          BY <1>4, <4>4
        <5>5. QED
          BY <3>2, <4>2, <5>1, <5>3, <5>4
      <4>5. QED
        BY <4>3, <4>4
    <3>3. QED
      BY <3>1, <3>2
  <2> HIDE DEF H, x
  <2>2. G = [s \in SUBSET U |-> IF s = {} THEN 0
                 ELSE LET y == CHOOSE y \in s : TRUE IN f[y] + G[s \ {y}]]
    BY <2>1
  <2> HIDE DEF G
  <2>3. QED
    BY <2>2 DEF Summing
<1>6. QED
  BY <1>2, <1>5

LEMMA SumUnfolds ==
  ASSUME NEW f, NEW S, IsFiniteSet(S)
  PROVE  /\ SumFunctionOnSet(f, {}) = 0
         /\ S # {} => LET x == CHOOSE x \in S : TRUE
                      IN  SumFunctionOnSet(f, S) = f[x] + SumFunctionOnSet(f, S \ {x})
<1> DEFINE H(s) == CHOOSE h : Summing(f, s, h)
<1>1. \A W : IsFiniteSet(W) => Summing(f, W, H(W))
  BY SummingExists
<1>2. ASSUME NEW W \in SUBSET S
      PROVE  H(S)[W] = H(W)[W]
  <2>1. Summing(f, S, H(S)) /\ Summing(f, W, H(W))
    BY <1>1, FS_Subset
  <2> HIDE DEF H
  <2>2. QED
    BY <2>1, SummingRestricts
<1>3. SumFunctionOnSet(f, {}) = 0
  <2>1. Summing(f, {}, H({}))
    BY <1>1, FS_EmptySet
  <2>2. SumFunctionOnSet(f, {}) = H({})[{}]
    BY SumIsSumming
  <2> HIDE DEF H
  <2>3. QED
    BY <2>1, <2>2 DEF Summing
<1>4. ASSUME S # {}
      PROVE  LET x == CHOOSE x \in S : TRUE
             IN  SumFunctionOnSet(f, S) = f[x] + SumFunctionOnSet(f, S \ {x})
  <2> DEFINE x == CHOOSE x \in S : TRUE
  <2>1. Summing(f, S, H(S))
    BY <1>1
  <2>2. H(S)[S] = f[x] + H(S)[S \ {x}]
    <3> HIDE DEF H
    <3> QED BY <2>1, <1>4 DEF Summing
  <2>3. SumFunctionOnSet(f, S) = H(S)[S] /\ SumFunctionOnSet(f, S \ {x}) = H(S \ {x})[S \ {x}]
    BY SumIsSumming
  <2>4. H(S)[S \ {x}] = H(S \ {x})[S \ {x}]
    BY <1>2
  <2>5. QED
    BY <2>2, <2>3, <2>4
<1>5. QED
  BY <1>3, <1>4

-----------------------------------------------------------------------------
(* Sums of integers *)

\* A sum of integers is one.
LEMMA SumType ==
  ASSUME NEW S, IsFiniteSet(S), NEW f, \A x \in S : f[x] \in Int
  PROVE  SumFunctionOnSet(f, S) \in Int
<1> DEFINE Bad == {s \in SUBSET S : SumFunctionOnSet(f, s) \notin Int}
<1>1. SUFFICES ASSUME Bad # {} PROVE FALSE
  OBVIOUS
<1>2. PICK U \in Bad : \A V \in SUBSET U : V # U => V \notin Bad
  <2>1. Bad \in SUBSET SUBSET S
    OBVIOUS
  <2> HIDE DEF Bad
  <2>2. QED
    BY <1>1, <2>1, LeastSubset
<1> DEFINE x == CHOOSE x \in U : TRUE
<1>3. U # {} /\ IsFiniteSet(U)
  <2>1. IsFiniteSet(U) /\ IsFiniteSet({})
    BY FS_Subset, FS_EmptySet
  <2>2. SumFunctionOnSet(f, {}) = 0
    BY <2>1, SumUnfolds
  <2>3. QED
    BY <2>1, <2>2
<1>4. SumFunctionOnSet(f, U) = f[x] + SumFunctionOnSet(f, U \ {x})
  BY <1>3, SumUnfolds
<1>5. x \in U /\ SumFunctionOnSet(f, U \ {x}) \in Int
  BY <1>2, <1>3
<1>6. QED
  BY <1>4, <1>5

\* Any element can be taken out of a sum first.
LEMMA SumTakesOut ==
  ASSUME NEW S, IsFiniteSet(S), NEW f, \A x \in S : f[x] \in Int, NEW y \in S
  PROVE  SumFunctionOnSet(f, S) = f[y] + SumFunctionOnSet(f, S \ {y})
<1> DEFINE Bad == {s \in SUBSET S : \E z \in s :
                     SumFunctionOnSet(f, s) # f[z] + SumFunctionOnSet(f, s \ {z})}
<1>1. SUFFICES ASSUME Bad # {} PROVE FALSE
  OBVIOUS
<1>2. PICK U \in Bad : \A V \in SUBSET U : V # U => V \notin Bad
  <2>1. Bad \in SUBSET SUBSET S
    OBVIOUS
  <2> HIDE DEF Bad
  <2>2. QED
    BY <1>1, <2>1, LeastSubset
<1>3. PICK z \in U : SumFunctionOnSet(f, U) # f[z] + SumFunctionOnSet(f, U \ {z})
  OBVIOUS
<1> DEFINE x == CHOOSE x \in U : TRUE
<1>4. x \in U
  BY <1>3
<1>5. SumFunctionOnSet(f, U) = f[x] + SumFunctionOnSet(f, U \ {x})
  BY <1>3, SumUnfolds, FS_Subset
<1>6. x # z
  BY <1>3, <1>5
<1>7. SumFunctionOnSet(f, U \ {x}) = f[z] + SumFunctionOnSet(f, (U \ {x}) \ {z})
  BY <1>2, <1>4, <1>6
<1>8. SumFunctionOnSet(f, U \ {z}) = f[x] + SumFunctionOnSet(f, (U \ {z}) \ {x})
  BY <1>2, <1>4, <1>6
<1>9. (U \ {x}) \ {z} = (U \ {z}) \ {x}
  OBVIOUS
<1>10. SumFunctionOnSet(f, (U \ {x}) \ {z}) \in Int
  <2>1. IsFiniteSet((U \ {x}) \ {z}) /\ \A t \in (U \ {x}) \ {z} : f[t] \in Int
    BY FS_Subset
  <2>2. QED
    BY <2>1, SumType
<1> HIDE DEF x
<1>11. f[x] \in Int /\ f[z] \in Int
  BY <1>4
<1>12. SumFunctionOnSet(f, U) = f[x] + (f[z] + SumFunctionOnSet(f, (U \ {x}) \ {z}))
  BY <1>5, <1>7
<1>13. SumFunctionOnSet(f, U \ {z}) = f[x] + SumFunctionOnSet(f, (U \ {x}) \ {z})
  BY <1>8, <1>9
<1>14. \A a, b, c \in Int : a + (b + c) = b + (a + c)
  OBVIOUS
<1>15. QED
  BY <1>3, <1>10, <1>11, <1>12, <1>13, <1>14

\* A sum depends on the summands alone.
LEMMA SumOfEqual ==
  ASSUME NEW S, IsFiniteSet(S), NEW f, NEW g, \A x \in S : f[x] = g[x]
  PROVE  SumFunctionOnSet(f, S) = SumFunctionOnSet(g, S)
<1> DEFINE Bad == {s \in SUBSET S : SumFunctionOnSet(f, s) # SumFunctionOnSet(g, s)}
<1>1. SUFFICES ASSUME Bad # {} PROVE FALSE
  OBVIOUS
<1>2. PICK U \in Bad : \A V \in SUBSET U : V # U => V \notin Bad
  <2>1. Bad \in SUBSET SUBSET S
    OBVIOUS
  <2> HIDE DEF Bad
  <2>2. QED
    BY <1>1, <2>1, LeastSubset
<1> DEFINE x == CHOOSE x \in U : TRUE
<1>3. U # {} /\ IsFiniteSet(U)
  <2>1. IsFiniteSet(U) /\ IsFiniteSet({})
    BY FS_Subset, FS_EmptySet
  <2>2. SumFunctionOnSet(f, {}) = 0 /\ SumFunctionOnSet(g, {}) = 0
    BY <2>1, SumUnfolds
  <2>3. QED
    BY <2>1, <2>2
<1>4. /\ SumFunctionOnSet(f, U) = f[x] + SumFunctionOnSet(f, U \ {x})
      /\ SumFunctionOnSet(g, U) = g[x] + SumFunctionOnSet(g, U \ {x})
  BY <1>3, SumUnfolds
<1>5. x \in U /\ SumFunctionOnSet(f, U \ {x}) = SumFunctionOnSet(g, U \ {x})
  BY <1>2, <1>3
<1>6. QED
  BY <1>4, <1>5

\* A sum of naturals is one.
LEMMA SumOfNaturals ==
  ASSUME NEW S, IsFiniteSet(S), NEW f, \A x \in S : f[x] \in Nat
  PROVE  SumFunctionOnSet(f, S) \in Nat
<1> DEFINE Bad == {s \in SUBSET S : SumFunctionOnSet(f, s) \notin Nat}
<1>1. SUFFICES ASSUME Bad # {} PROVE FALSE
  OBVIOUS
<1>2. PICK U \in Bad : \A V \in SUBSET U : V # U => V \notin Bad
  <2>1. Bad \in SUBSET SUBSET S
    OBVIOUS
  <2> HIDE DEF Bad
  <2>2. QED
    BY <1>1, <2>1, LeastSubset
<1> DEFINE x == CHOOSE x \in U : TRUE
<1>3. U # {} /\ IsFiniteSet(U)
  <2>1. IsFiniteSet(U) /\ IsFiniteSet({})
    BY FS_Subset, FS_EmptySet
  <2>2. SumFunctionOnSet(f, {}) = 0
    BY <2>1, SumUnfolds
  <2>3. QED
    BY <2>1, <2>2
<1>4. SumFunctionOnSet(f, U) = f[x] + SumFunctionOnSet(f, U \ {x})
  BY <1>3, SumUnfolds
<1>5. x \in U /\ SumFunctionOnSet(f, U \ {x}) \in Nat
  BY <1>2, <1>3
<1>6. QED
  BY <1>4, <1>5

\* Changing one summand changes the sum by as much.
LEMMA SumOfChanged ==
  ASSUME NEW S, IsFiniteSet(S), NEW f \in [S -> Int], NEW y \in S, NEW v \in Int
  PROVE  SumFunction([f EXCEPT ![y] = v]) = SumFunction(f) - f[y] + v
<1> DEFINE g == [f EXCEPT ![y] = v]
<1>1. g \in [S -> Int] /\ g[y] = v /\ \A x \in S \ {y} : g[x] = f[x]
  OBVIOUS
<1>2. IsFiniteSet(S \ {y})
  BY FS_Subset
<1>3. SumFunctionOnSet(f, S) = f[y] + SumFunctionOnSet(f, S \ {y})
  BY SumTakesOut
<1> HIDE DEF g
<1>4. SumFunctionOnSet(g, S) = v + SumFunctionOnSet(g, S \ {y})
  BY <1>1, SumTakesOut
<1>5. SumFunctionOnSet(g, S \ {y}) = SumFunctionOnSet(f, S \ {y})
  BY <1>1, <1>2, SumOfEqual
<1>6. SumFunctionOnSet(f, S \ {y}) \in Int
  BY <1>2, SumType
<1>7. SumFunction(g) = SumFunctionOnSet(g, S) /\ SumFunction(f) = SumFunctionOnSet(f, S)
  BY <1>1 DEF SumFunction
<1>8. f[y] \in Int
  OBVIOUS
<1>9. SumFunction(g) = SumFunction(f) - f[y] + v
  BY <1>3, <1>4, <1>5, <1>6, <1>7, <1>8
<1>10. QED
  BY <1>9 DEF g

LEMMA SumOfIncrement ==
  ASSUME NEW S, IsFiniteSet(S), NEW f \in [S -> Int], NEW y \in S
  PROVE  SumFunction([f EXCEPT ![y] = f[y] + 1]) = SumFunction(f) + 1
<1>1. f[y] \in Int /\ SumFunction(f) \in Int
  BY SumType DEF SumFunction
<1>2. PICK v \in Int : v = f[y] + 1
  BY <1>1
<1>3. SumFunction([f EXCEPT ![y] = v]) = SumFunction(f) - f[y] + v
  BY SumOfChanged
<1>4. QED
  BY <1>1, <1>2, <1>3

\* The sum of two functions of the same elements, added one by one.
LEMMA SumOfPairs ==
  ASSUME NEW S, IsFiniteSet(S), NEW f \in [S -> Int], NEW g \in [S -> Int]
  PROVE  SumFunction([x \in S |-> f[x] + g[x]]) = SumFunction(f) + SumFunction(g)
<1> DEFINE h == [x \in S |-> f[x] + g[x]]
           Bad == {s \in SUBSET S : SumFunctionOnSet(h, s)
                     # SumFunctionOnSet(f, s) + SumFunctionOnSet(g, s)}
<1>1. Bad = {}
  <2>1. SUFFICES ASSUME Bad # {} PROVE FALSE
    OBVIOUS
  <2>2. PICK U \in Bad : \A V \in SUBSET U : V # U => V \notin Bad
    <3>1. Bad \in SUBSET SUBSET S
      OBVIOUS
    <3> HIDE DEF Bad
    <3>2. QED
      BY <2>1, <3>1, LeastSubset
  <2> HIDE DEF h
  <2>3. U # {} /\ IsFiniteSet(U)
    <3>1. IsFiniteSet(U) /\ IsFiniteSet({})
      BY FS_Subset, FS_EmptySet
    <3>2. /\ SumFunctionOnSet(f, {}) = 0 /\ SumFunctionOnSet(g, {}) = 0
          /\ SumFunctionOnSet(h, {}) = 0
      BY <3>1, SumUnfolds
    <3>3. SumFunctionOnSet(h, U) # SumFunctionOnSet(f, U) + SumFunctionOnSet(g, U)
      OBVIOUS
    <3>4. U # {}
      BY <3>2, <3>3
    <3>5. QED
      BY <3>1, <3>4
  <2> DEFINE x == CHOOSE x \in U : TRUE
  <2>4. /\ SumFunctionOnSet(f, U) = f[x] + SumFunctionOnSet(f, U \ {x})
        /\ SumFunctionOnSet(g, U) = g[x] + SumFunctionOnSet(g, U \ {x})
        /\ SumFunctionOnSet(h, U) = h[x] + SumFunctionOnSet(h, U \ {x})
    BY <2>3, SumUnfolds
  <2>5. x \in U
    BY <2>3
  <2> HIDE DEF x
  <2>6. SumFunctionOnSet(h, U \ {x})
          = SumFunctionOnSet(f, U \ {x}) + SumFunctionOnSet(g, U \ {x})
    BY <2>2, <2>5
  <2>7. SumFunctionOnSet(f, U \ {x}) \in Int /\ SumFunctionOnSet(g, U \ {x}) \in Int
    BY <2>3, SumType, FS_Subset
  <2>8. h[x] = f[x] + g[x] /\ f[x] \in Int /\ g[x] \in Int
    BY <2>5 DEF h
  <2>9. SumFunctionOnSet(h, U) = SumFunctionOnSet(f, U) + SumFunctionOnSet(g, U)
    BY <2>4, <2>6, <2>7, <2>8
  <2>10. QED
    BY <2>9
<1>2. SumFunctionOnSet(h, S) = SumFunctionOnSet(f, S) + SumFunctionOnSet(g, S)
  BY <1>1
<1>3. DOMAIN h = S /\ DOMAIN f = S /\ DOMAIN g = S
  OBVIOUS
<1> HIDE DEF h
<1>4. SumFunction(h) = SumFunction(f) + SumFunction(g)
  BY <1>2, <1>3 DEF SumFunction
<1>5. QED
  BY <1>4 DEF h

\* A sum of zeros is zero.
LEMMA SumOfZeros ==
  ASSUME NEW S, IsFiniteSet(S)
  PROVE  SumFunction([x \in S |-> 0]) = 0
<1> DEFINE f == [x \in S |-> 0]
           Bad == {s \in SUBSET S : SumFunctionOnSet(f, s) # 0}
<1>1. SUFFICES ASSUME Bad # {} PROVE FALSE
  <2>1. SumFunction(f) = SumFunctionOnSet(f, S)
    BY DEF SumFunction
  <2>2. QED
    BY <2>1
<1>2. PICK U \in Bad : \A V \in SUBSET U : V # U => V \notin Bad
  <2>1. Bad \in SUBSET SUBSET S
    OBVIOUS
  <2> HIDE DEF Bad
  <2>2. QED
    BY <1>1, <2>1, LeastSubset
<1> DEFINE x == CHOOSE x \in U : TRUE
<1>3. U # {} /\ IsFiniteSet(U)
  <2>1. IsFiniteSet(U) /\ IsFiniteSet({})
    BY FS_Subset, FS_EmptySet
  <2>2. SumFunctionOnSet(f, {}) = 0
    BY <2>1, SumUnfolds
  <2>3. QED
    BY <2>1, <2>2
<1>4. SumFunctionOnSet(f, U) = f[x] + SumFunctionOnSet(f, U \ {x})
  BY <1>3, SumUnfolds
<1>5. x \in U /\ f[x] = 0 /\ SumFunctionOnSet(f, U \ {x}) = 0
  BY <1>2, <1>3
<1>6. QED
  BY <1>4, <1>5

\* A sum of equal numbers, but for one.
LEMMA SumOfAlmostEqual ==
  ASSUME NEW S, IsFiniteSet(S), NEW c \in Int, NEW last, NEW d \in Int
  PROVE  SumFunctionOnSet([x \in S |-> IF x = last THEN d ELSE c], S)
           = IF last \in S THEN c * (Cardinality(S) - 1) + d ELSE c * Cardinality(S)
<1> DEFINE f == [x \in S |-> IF x = last THEN d ELSE c]
           Total(s) == IF last \in s THEN c * (Cardinality(s) - 1) + d ELSE c * Cardinality(s)
           Bad == {s \in SUBSET S : SumFunctionOnSet(f, s) # Total(s)}
<1>1. SUFFICES ASSUME Bad # {} PROVE FALSE
  OBVIOUS
<1>2. PICK U \in Bad : \A V \in SUBSET U : V # U => V \notin Bad
  <2>1. Bad \in SUBSET SUBSET S
    OBVIOUS
  <2> HIDE DEF Bad
  <2>2. QED
    BY <1>1, <2>1, LeastSubset
<1>3. IsFiniteSet(U) /\ IsFiniteSet({}) /\ Cardinality({}) = 0
  BY FS_Subset, FS_EmptySet
<1>4. U # {}
  <2>1. SumFunctionOnSet(f, {}) = 0
    BY <1>3, SumUnfolds
  <2>2. c * 0 = 0
    OBVIOUS
  <2>3. QED
    BY <1>3, <2>1, <2>2
<1> DEFINE x == CHOOSE x \in U : TRUE
           W == U \ {x}
<1>5. SumFunctionOnSet(f, U) = f[x] + SumFunctionOnSet(f, W)
  BY <1>3, <1>4, SumUnfolds
<1>6. x \in U /\ SumFunctionOnSet(f, W) = Total(W)
  BY <1>2, <1>4
<1>7. Cardinality(U) \in Int /\ Cardinality(W) = Cardinality(U) - 1
  <2>1. Cardinality(U) \in Int
    BY <1>3, FS_CardinalityType
  <2>2. Cardinality(W) = Cardinality(U) - 1
    BY <1>3, <1>6, FS_RemoveElement
  <2>3. QED
    BY <2>1, <2>2
<1> HIDE DEF x
<1>8. PICK n \in Int : n = Cardinality(U)
  BY <1>7
<1>9. c * (n - 1) = c * n - c /\ c * (n - 1 - 1) = c * n - c - c /\ c * n \in Int
  <2>1. \A m \in Int : c * (m - 1) = c * m - c /\ c * m \in Int
    OBVIOUS
  <2>2. QED
    BY <2>1
<1>10. f[x] = IF x = last THEN d ELSE c
  BY <1>6
<1>11. CASE x = last
  <2>1. Total(W) = c * (n - 1) /\ Total(U) = c * (n - 1) + d
    BY <1>6, <1>7, <1>8, <1>11
  <2>2. QED
    BY <1>5, <1>6, <1>9, <1>10, <1>11, <2>1
<1>12. CASE x # last /\ last \in U
  <2>1. Total(W) = c * (n - 1 - 1) + d /\ Total(U) = c * (n - 1) + d
    BY <1>7, <1>8, <1>12
  <2>2. QED
    BY <1>5, <1>6, <1>9, <1>10, <1>12, <2>1
<1>13. CASE x # last /\ last \notin U
  <2>1. Total(W) = c * (n - 1) /\ Total(U) = c * n
    BY <1>7, <1>8, <1>13
  <2>2. QED
    BY <1>5, <1>6, <1>9, <1>10, <1>13, <2>1
<1>14. QED
  BY <1>11, <1>12, <1>13

-----------------------------------------------------------------------------
(* Counting by class *)

\* A finite set has as many elements as its classes have together.
LEMMA CountByClass ==
  ASSUME NEW S, IsFiniteSet(S), NEW P, IsFiniteSet(P), NEW class \in [S -> P]
  PROVE  SumFunction([p \in P |-> Cardinality({x \in S : class[x] = p})]) = Cardinality(S)
<1> DEFINE Of(s, p) == {x \in s : class[x] = p}
           Counts(s) == [p \in P |-> Cardinality(Of(s, p))]
           Bad == {s \in SUBSET S : SumFunction(Counts(s)) # Cardinality(s)}
<1>1. SUFFICES ASSUME Bad # {} PROVE FALSE
  OBVIOUS
<1>2. PICK U \in Bad : \A V \in SUBSET U : V # U => V \notin Bad
  <2>1. Bad \in SUBSET SUBSET S
    OBVIOUS
  <2> HIDE DEF Bad
  <2>2. QED
    BY <1>1, <2>1, LeastSubset
<1>3. U # {}
  <2>1. SUFFICES ASSUME U = {} PROVE FALSE
    OBVIOUS
  <2>2. \A p \in P : Of(U, p) = {}
    BY <2>1
  <2>3. Counts(U) = [p \in P |-> 0]
    BY <2>2, FS_EmptySet
  <2> HIDE DEF Counts
  <2>4. QED
    BY <2>1, <2>3, SumOfZeros, FS_EmptySet
<1>4. PICK x \in U : TRUE
  BY <1>3
<1>5. \A s \in SUBSET S, p \in P : IsFiniteSet(Of(s, p)) /\ Cardinality(Of(s, p)) \in Nat
  BY FS_Subset, FS_CardinalityType
<1> DEFINE W == U \ {x}
<1>6. SumFunction(Counts(W)) = Cardinality(W)
  BY <1>2, <1>4
<1>7. Counts(U) = [Counts(W) EXCEPT ![class[x]] = Counts(W)[class[x]] + 1]
  <2>1. ASSUME NEW p \in P, p # class[x]
        PROVE  Of(U, p) = Of(W, p)
    BY <2>1
  <2>2. Of(U, class[x]) = Of(W, class[x]) \cup {x} /\ x \notin Of(W, class[x])
    OBVIOUS
  <2>3. class[x] \in P
    OBVIOUS
  <2>4. Cardinality(Of(U, class[x])) = Cardinality(Of(W, class[x])) + 1
    <3> HIDE DEF Of
    <3>1. QED
      BY <1>5, <2>2, <2>3, FS_AddElement
  <2> HIDE DEF Of
  <2>5. QED
    BY <2>1, <2>3, <2>4
<1>8. Counts(W) \in [P -> Int] /\ class[x] \in P
  <2>1. W \in SUBSET S /\ class[x] \in P
    OBVIOUS
  <2> HIDE DEF Of, W
  <2>2. QED
    BY <1>5, <2>1
<1>9. SumFunction(Counts(U)) = SumFunction(Counts(W)) + 1
  <2> HIDE DEF Counts, W
  <2>1. PICK c \in [P -> Int] : c = Counts(W)
    BY <1>8
  <2>2. SumFunction([c EXCEPT ![class[x]] = c[class[x]] + 1]) = SumFunction(c) + 1
    BY <1>8, SumOfIncrement
  <2>3. QED
    BY <1>7, <2>1, <2>2
<1>10. Cardinality(U) = Cardinality(W) + 1
  <2>1. IsFiniteSet(W) /\ x \notin W /\ U = W \cup {x}
    BY FS_Subset
  <2>2. QED
    BY <2>1, FS_AddElement
<1>11. QED
  BY <1>6, <1>9, <1>10
================================================================================
