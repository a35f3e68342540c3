------------------------------ MODULE SumProofs ------------------------------
(***************************************************************************)
(* What SumFunctionOnSet() of the community modules computes over a finite *)
(* set of integers.  The library's induction theorems take the property as *)
(* an operator; here it is a set, that of the subsets for which a claim    *)
(* does not hold, and the smallest of them gives the contradiction.        *)
(***************************************************************************)
EXTENDS Integers, FiniteSets, Functions, FiniteSetTheorems, WellFoundedInduction, TLAPS

\* The smallest subset of a finite set for which a claim does not hold.
LEMMA SmallestSubset ==
  ASSUME NEW S, IsFiniteSet(S), NEW bad, bad \subseteq SUBSET S, bad # {}
  PROVE  \E T \in bad : \A U \in SUBSET T : U # T => U \notin bad
  <1>1. FiniteSubsetsOf(S) = SUBSET S
    BY FS_FiniteSubsetsOfFinite
  <1>2. IsWellFoundedOn(StrictSubsetOrdering(S), SUBSET S)
    BY <1>1, FS_StrictSubsetOrderingWellFounded
  <1>3. PICK T \in bad : \A U \in bad : <<U, T>> \notin StrictSubsetOrdering(S)
    BY <1>2, WFMin
  <1>4. ASSUME NEW U \in SUBSET T, U # T, U \in bad
        PROVE  FALSE
    BY <1>3, <1>4 DEF StrictSubsetOrdering
  <1> QED
    BY <1>4

-----------------------------------------------------------------------------
(***************************************************************************)
(* The recursive function behind the sum exists and is unique.             *)
(***************************************************************************)
Any(S) == CHOOSE x \in S : TRUE

SumStep(f, T, part) == IF T = {} THEN 0 ELSE f[Any(T)] + part[T \ {Any(T)}]

SumsUp(part, f, S) == part = [T \in SUBSET S |-> SumStep(f, T, part)]

Partial(f, S) == CHOOSE part : SumsUp(part, f, S)

\* The sum is the last value of that function.
LEMMA SumIsPartial ==
  ASSUME NEW f, NEW S
  PROVE  SumFunctionOnSet(f, S) = Partial(f, S)[S]
  BY DEF SumFunctionOnSet, FoldFunctionOnSet, MapThenFoldSet, Partial, SumsUp, SumStep, Any

LEMMA AnyIsMember ==
  ASSUME NEW S, S # {}
  PROVE  Any(S) \in S
  BY DEF Any

\* Two such functions agree wherever both are defined.
LEMMA PartialAgree ==
  ASSUME NEW A, NEW B, IsFiniteSet(A), NEW f, NEW g, NEW h,
         SumsUp(g, f, A), SumsUp(h, f, B), NEW T \in SUBSET (A \cap B)
  PROVE  g[T] = h[T]
  <1> DEFINE bad == {U \in SUBSET (A \cap B) : g[U] # h[U]}
  <1>1. SUFFICES ASSUME bad # {} PROVE FALSE
    OBVIOUS
  <1>2. IsFiniteSet(A \cap B)
    BY FS_Intersection
  <1>3. bad \subseteq SUBSET (A \cap B)
    OBVIOUS
  <1> HIDE DEF bad
  <1>4. PICK U \in bad : \A V \in SUBSET U : V # U => V \notin bad
    BY <1>1, <1>2, <1>3, SmallestSubset
  <1>5. U \in SUBSET A /\ U \in SUBSET B /\ g[U] # h[U]
    BY <1>4 DEF bad
  <1>6. g[U] = SumStep(f, U, g) /\ h[U] = SumStep(f, U, h)
    BY <1>5 DEF SumsUp
  <1>7. U # {}
    BY <1>5, <1>6 DEF SumStep
  <1>8. U \ {Any(U)} \in SUBSET U /\ U \ {Any(U)} # U
    BY <1>7, AnyIsMember
  <1>9. U \ {Any(U)} \notin bad
    BY <1>4, <1>8
  <1>10. g[U \ {Any(U)}] = h[U \ {Any(U)}]
    BY <1>5, <1>9 DEF bad
  <1> QED
    BY <1>5, <1>6, <1>7, <1>10 DEF SumStep

\* There is such a function over every finite set.
LEMMA PartialExists ==
  ASSUME NEW S, IsFiniteSet(S), NEW f
  PROVE  SumsUp(Partial(f, S), f, S)
  <1> DEFINE bad == {T \in SUBSET S : ~SumsUp(Partial(f, T), f, T)}
  <1>1. SUFFICES ASSUME bad # {} PROVE FALSE
    OBVIOUS
  <1>2. bad \subseteq SUBSET S
    OBVIOUS
  <1>3. PICK T \in bad : \A U \in SUBSET T : U # T => U \notin bad
    <2> HIDE DEF bad
    <2> QED BY <1>1, <1>2, SmallestSubset
  <1>4. T \in SUBSET S /\ IsFiniteSet(T) /\ ~SumsUp(Partial(f, T), f, T)
    BY FS_Subset
  <1>5. ASSUME NEW U \in SUBSET T, U # T
        PROVE  SumsUp(Partial(f, U), f, U) /\ IsFiniteSet(U)
    BY <1>3, <1>4, <1>5, FS_Subset
  <1> HIDE DEF bad
  <1> DEFINE less(U) == U \ {Any(U)}
             of(U) == IF U = {} THEN 0 ELSE f[Any(U)] + Partial(f, less(U))[less(U)]
             g == [U \in SUBSET T |-> of(U)]
  <1>6. ASSUME NEW U \in SUBSET T, U # T
        PROVE  of(U) = Partial(f, U)[U]
    <2>1. SumsUp(Partial(f, U), f, U) /\ IsFiniteSet(U)
      BY <1>5, <1>6
    <2>2. Partial(f, U)[U] = SumStep(f, U, Partial(f, U))
      BY <2>1 DEF SumsUp
    <2>3. CASE U = {}
      BY <2>2, <2>3 DEF SumStep
    <2>4. CASE U # {}
      <3>1. less(U) \in SUBSET U /\ less(U) # U
        BY <2>4, AnyIsMember
      <3>2. less(U) \in SUBSET T /\ less(U) # T
        BY <3>1
      <3>3. SumsUp(Partial(f, less(U)), f, less(U))
        BY <1>5, <3>2
      <3>4. less(U) \in SUBSET (U \cap less(U))
        BY <3>1
      <3>5. Partial(f, U)[less(U)] = Partial(f, less(U))[less(U)]
        BY <2>1, <3>3, <3>4, PartialAgree
      <3> QED
        BY <2>2, <2>4, <3>5 DEF SumStep
    <2> QED
      BY <2>3, <2>4
  <1>7. ASSUME NEW U \in SUBSET T
        PROVE  of(U) = SumStep(f, U, g)
    <2>1. CASE U = {}
      BY <2>1 DEF SumStep
    <2>2. CASE U # {}
      <3>1. less(U) \in SUBSET U /\ less(U) # U
        BY <2>2, AnyIsMember
      <3>2. less(U) \in SUBSET T /\ less(U) # T
        BY <3>1
      <3>3. of(less(U)) = Partial(f, less(U))[less(U)]
        BY <1>6, <3>2
      <3>4. g[less(U)] = of(less(U))
        BY <3>2
      <3>5. of(U) = f[Any(U)] + Partial(f, less(U))[less(U)]
        BY <2>2
      <3>6. SumStep(f, U, g) = f[Any(U)] + g[less(U)]
        BY <2>2 DEF SumStep
      <3> HIDE DEF of, g, less
      <3> QED
        BY <3>3, <3>4, <3>5, <3>6
    <2> QED
      BY <2>1, <2>2
  <1>8. SumsUp(g, f, T)
    <2>1. g = [U \in SUBSET T |-> of(U)]
      OBVIOUS
    <2> HIDE DEF of, g
    <2> QED BY <1>7, <2>1 DEF SumsUp
  <1>9. SumsUp(Partial(f, T), f, T)
    <2> HIDE DEF of, g
    <2> QED BY <1>8 DEF Partial
  <1> QED
    BY <1>4, <1>9
-----------------------------------------------------------------------------
(***************************************************************************)
(* The sum.                                                                *)
(***************************************************************************)
LEMMA SumEmpty ==
  ASSUME NEW f
  PROVE  SumFunctionOnSet(f, {}) = 0
  <1>1. SumsUp(Partial(f, {}), f, {})
    BY PartialExists, FS_EmptySet
  <1> QED
    BY <1>1, SumIsPartial DEF SumsUp, SumStep

LEMMA SumOne ==
  ASSUME NEW f, NEW S, IsFiniteSet(S), S # {}
  PROVE  /\ Any(S) \in S
         /\ SumFunctionOnSet(f, S) = f[Any(S)] + SumFunctionOnSet(f, S \ {Any(S)})
  <1> DEFINE R == S \ {Any(S)}
  <1>1. Any(S) \in S
    BY AnyIsMember
  <1>2. SumsUp(Partial(f, S), f, S)
    BY PartialExists
  <1>3. IsFiniteSet(R)
    BY FS_Subset
  <1> HIDE DEF R
  <1>4. SumsUp(Partial(f, R), f, R)
    BY <1>3, PartialExists
  <1>5. Partial(f, S)[R] = Partial(f, R)[R]
    <2>1. R \in SUBSET (S \cap R)
      BY DEF R
    <2> QED BY <1>2, <1>4, <2>1, PartialAgree
  <1>6. Partial(f, S)[S] = f[Any(S)] + Partial(f, S)[R]
    BY <1>2 DEF SumsUp, SumStep, R
  <1> QED
    BY <1>1, <1>5, <1>6, SumIsPartial DEF R

\* A sum of integers is an integer.
LEMMA SumType ==
  ASSUME NEW S, IsFiniteSet(S), NEW f, \A x \in S : f[x] \in Int
  PROVE  SumFunctionOnSet(f, S) \in Int
  <1> DEFINE bad == {T \in SUBSET S : SumFunctionOnSet(f, T) \notin Int}
  <1>1. SUFFICES ASSUME bad # {} PROVE FALSE
    OBVIOUS
  <1>2. bad \subseteq SUBSET S
    OBVIOUS
  <1> HIDE DEF bad
  <1>3. PICK T \in bad : \A U \in SUBSET T : U # T => U \notin bad
    BY <1>1, <1>2, SmallestSubset
  <1>4. T \in SUBSET S /\ IsFiniteSet(T) /\ SumFunctionOnSet(f, T) \notin Int
    BY <1>3, FS_Subset DEF bad
  <1>5. T # {}
    BY <1>4, SumEmpty
  <1>6. /\ Any(T) \in T
        /\ SumFunctionOnSet(f, T) = f[Any(T)] + SumFunctionOnSet(f, T \ {Any(T)})
    BY <1>4, <1>5, SumOne
  <1>7. SumFunctionOnSet(f, T \ {Any(T)}) \in Int
    BY <1>3, <1>4, <1>6 DEF bad
  <1> QED
    BY <1>4, <1>6, <1>7

\* Any element may be taken out first.
LEMMA SumRemove ==
  ASSUME NEW S, IsFiniteSet(S), NEW f, \A x \in S : f[x] \in Int, NEW e \in S
  PROVE  SumFunctionOnSet(f, S) = f[e] + SumFunctionOnSet(f, S \ {e})
  <1> DEFINE Sum(T) == SumFunctionOnSet(f, T)
             bad == {T \in SUBSET S : \E x \in T : Sum(T) # f[x] + Sum(T \ {x})}
  <1>1. SUFFICES ASSUME bad # {} PROVE FALSE
    OBVIOUS
  <1>2. bad \subseteq SUBSET S
    OBVIOUS
  <1> HIDE DEF bad
  <1>3. PICK T \in bad : \A U \in SUBSET T : U # T => U \notin bad
    BY <1>1, <1>2, SmallestSubset
  <1>4. T \in SUBSET S /\ IsFiniteSet(T)
    BY <1>3, FS_Subset DEF bad
  <1>5. PICK x \in T : Sum(T) # f[x] + Sum(T \ {x})
    BY <1>3 DEF bad
  <1>6. PICK a \in T : Sum(T) = f[a] + Sum(T \ {a})
    BY <1>4, <1>5, SumOne
  <1>7. a # x
    BY <1>5, <1>6
  <1> DEFINE R == T \ {a, x}
  <1>8. Sum(T \ {a}) = f[x] + Sum(R)
    <2>1. /\ T \ {a} \in SUBSET T /\ T \ {a} # T /\ x \in T \ {a} /\ T \ {a} \in SUBSET S
          /\ (T \ {a}) \ {x} = R
      BY <1>4, <1>7
    <2> QED
      BY <1>3, <2>1 DEF bad
  <1>9. Sum(T \ {x}) = f[a] + Sum(R)
    <2>1. /\ T \ {x} \in SUBSET T /\ T \ {x} # T /\ a \in T \ {x} /\ T \ {x} \in SUBSET S
          /\ (T \ {x}) \ {a} = R
      BY <1>4, <1>7
    <2> QED
      BY <1>3, <2>1 DEF bad
  <1>10. f[a] \in Int /\ f[x] \in Int /\ Sum(R) \in Int
    BY <1>4, SumType, FS_Subset
  <1> HIDE DEF Sum, R
  <1> QED
    BY <1>5, <1>6, <1>8, <1>9, <1>10

\* The sum depends on the values only.
LEMMA SumSame ==
  ASSUME NEW S, IsFiniteSet(S), NEW f, NEW g, \A x \in S : f[x] = g[x]
  PROVE  SumFunctionOnSet(f, S) = SumFunctionOnSet(g, S)
  <1> DEFINE bad == {T \in SUBSET S : SumFunctionOnSet(f, T) # SumFunctionOnSet(g, T)}
  <1>1. SUFFICES ASSUME bad # {} PROVE FALSE
    OBVIOUS
  <1>2. bad \subseteq SUBSET S
    OBVIOUS
  <1> HIDE DEF bad
  <1>3. PICK T \in bad : \A U \in SUBSET T : U # T => U \notin bad
    BY <1>1, <1>2, SmallestSubset
  <1>4. /\ T \in SUBSET S /\ IsFiniteSet(T)
        /\ SumFunctionOnSet(f, T) # SumFunctionOnSet(g, T)
    BY <1>3, FS_Subset DEF bad
  <1>5. T # {}
    BY <1>4, SumEmpty
  <1>6. /\ Any(T) \in T
        /\ SumFunctionOnSet(f, T) = f[Any(T)] + SumFunctionOnSet(f, T \ {Any(T)})
        /\ SumFunctionOnSet(g, T) = g[Any(T)] + SumFunctionOnSet(g, T \ {Any(T)})
    BY <1>4, <1>5, SumOne
  <1>7. SumFunctionOnSet(f, T \ {Any(T)}) = SumFunctionOnSet(g, T \ {Any(T)})
    BY <1>3, <1>4, <1>6 DEF bad
  <1> QED
    BY <1>4, <1>6, <1>7

\* Where one value changes, the sum changes by as much.
LEMMA SumChange ==
  ASSUME NEW S, IsFiniteSet(S), NEW f, NEW g, NEW e \in S,
         \A x \in S : f[x] \in Int /\ g[x] \in Int,
         \A x \in S \ {e} : f[x] = g[x]
  PROVE  SumFunctionOnSet(g, S) = (SumFunctionOnSet(f, S) - f[e]) + g[e]
  <1> DEFINE R == S \ {e}
  <1>1. IsFiniteSet(R)
    BY FS_Subset
  <1>2. SumFunctionOnSet(f, S) = f[e] + SumFunctionOnSet(f, R)
    BY SumRemove
  <1>3. SumFunctionOnSet(g, S) = g[e] + SumFunctionOnSet(g, R)
    BY SumRemove
  <1>4. SumFunctionOnSet(f, R) = SumFunctionOnSet(g, R)
    BY <1>1, SumSame
  <1>5. SumFunctionOnSet(f, R) \in Int /\ f[e] \in Int /\ g[e] \in Int
    BY <1>1, SumType
  <1> QED
    BY <1>2, <1>3, <1>4, <1>5

\* A sum of nothing but zeros.
LEMMA SumZero ==
  ASSUME NEW S, IsFiniteSet(S), NEW f, \A x \in S : f[x] = 0
  PROVE  SumFunctionOnSet(f, S) = 0
  <1> DEFINE bad == {T \in SUBSET S : SumFunctionOnSet(f, T) # 0}
  <1>1. SUFFICES ASSUME bad # {} PROVE FALSE
    OBVIOUS
  <1>2. bad \subseteq SUBSET S
    OBVIOUS
  <1> HIDE DEF bad
  <1>3. PICK T \in bad : \A U \in SUBSET T : U # T => U \notin bad
    BY <1>1, <1>2, SmallestSubset
  <1>4. T \in SUBSET S /\ IsFiniteSet(T) /\ SumFunctionOnSet(f, T) # 0
    BY <1>3, FS_Subset DEF bad
  <1>5. T # {}
    BY <1>4, SumEmpty
  <1>6. /\ Any(T) \in T
        /\ SumFunctionOnSet(f, T) = f[Any(T)] + SumFunctionOnSet(f, T \ {Any(T)})
    BY <1>4, <1>5, SumOne
  <1>7. SumFunctionOnSet(f, T \ {Any(T)}) = 0
    BY <1>3, <1>4, <1>6 DEF bad
  <1> QED
    BY <1>4, <1>6, <1>7

\* Values that are all less by the same sum up to as much less for each.
LEMMA SumShift ==
  ASSUME NEW S, IsFiniteSet(S), NEW f, NEW g, NEW c \in Int,
         \A x \in S : f[x] \in Int /\ g[x] = f[x] - c
  PROVE  SumFunctionOnSet(g, S) = SumFunctionOnSet(f, S) - c * Cardinality(S)
  <1> DEFINE F(T) == SumFunctionOnSet(f, T)
             G(T) == SumFunctionOnSet(g, T)
             bad == {T \in SUBSET S : G(T) # F(T) - c * Cardinality(T)}
  <1>1. SUFFICES ASSUME bad # {} PROVE FALSE
    OBVIOUS
  <1>2. bad \subseteq SUBSET S
    OBVIOUS
  <1> HIDE DEF bad
  <1>3. PICK T \in bad : \A U \in SUBSET T : U # T => U \notin bad
    BY <1>1, <1>2, SmallestSubset
  <1>4. T \in SUBSET S /\ IsFiniteSet(T) /\ G(T) # F(T) - c * Cardinality(T)
    BY <1>3, FS_Subset DEF bad
  <1>5. T # {}
    <2>1. G({}) = 0 /\ F({}) = 0 /\ Cardinality({}) = 0
      BY SumEmpty, FS_EmptySet
    <2>2. c * 0 = 0
      OBVIOUS
    <2> HIDE DEF F, G
    <2> QED BY <1>4, <2>1, <2>2
  <1> DEFINE a == Any(T)
             R == T \ {a}
  <1>6. a \in T /\ F(T) = f[a] + F(R) /\ G(T) = g[a] + G(R)
    BY <1>4, <1>5, SumOne
  <1>7. G(R) = F(R) - c * Cardinality(R)
    BY <1>3, <1>4, <1>6 DEF bad
  <1>8. f[a] \in Int /\ g[a] = f[a] - c /\ F(R) \in Int
    BY <1>4, <1>6, SumType, FS_Subset
  <1>9. PICK k \in Nat : k = Cardinality(R) /\ Cardinality(T) = k + 1
    <2>1. IsFiniteSet(R) /\ Cardinality(R) = Cardinality(T) - 1
      BY <1>4, <1>6, FS_RemoveElement
    <2> QED BY <1>4, <2>1, FS_CardinalityType
  <1> HIDE DEF F, G, a, R
  <1>10. c * (k + 1) = c * k + c
    OBVIOUS
  <1>11. c * k \in Int
    OBVIOUS
  <1> QED
    BY <1>4, <1>6, <1>7, <1>8, <1>9, <1>10, <1>11

\* Where nothing is negative, part of a set has at most the sum of the whole.
LEMMA SumSubset ==
  ASSUME NEW S, IsFiniteSet(S), NEW f, \A x \in S : f[x] \in Nat, NEW T \in SUBSET S
  PROVE  /\ SumFunctionOnSet(f, T) \in Nat /\ SumFunctionOnSet(f, S) \in Nat
         /\ SumFunctionOnSet(f, T) <= SumFunctionOnSet(f, S)
  <1> DEFINE F(U) == SumFunctionOnSet(f, U)
  <1>0. \A x \in S : f[x] \in Int
    OBVIOUS
  <1>1. ASSUME NEW A \in SUBSET S
        PROVE  F(A) <= F(S)
    <2> DEFINE bad == {U \in SUBSET S : A \subseteq U /\ ~(F(A) <= F(U))}
    <2>1. SUFFICES ASSUME bad # {} PROVE FALSE
      OBVIOUS
    <2>2. bad \subseteq SUBSET S
      OBVIOUS
    <2> HIDE DEF bad
    <2>3. PICK U \in bad : \A V \in SUBSET U : V # U => V \notin bad
      BY <2>1, <2>2, SmallestSubset
    <2>4. U \in SUBSET S /\ IsFiniteSet(U) /\ A \subseteq U /\ ~(F(A) <= F(U))
      BY <2>3, FS_Subset DEF bad
    <2>5. IsFiniteSet(A) /\ F(A) \in Int
      BY <1>0, FS_Subset, SumType
    <2>6. PICK e \in U : e \notin A
      BY <2>4, <2>5
    <2> DEFINE R == U \ {e}
    <2>7. F(U) = f[e] + F(R)
      BY <2>4, <2>6, SumRemove
    <2>8. F(A) <= F(R)
      <3>1. R \in SUBSET U /\ R # U /\ A \subseteq R /\ R \in SUBSET S
        BY <2>4, <2>6
      <3> QED BY <2>3, <3>1 DEF bad
    <2>9. f[e] \in Nat /\ F(R) \in Int
      BY <1>0, <2>4, <2>6, SumType, FS_Subset
    <2> HIDE DEF F, R
    <2> QED BY <2>4, <2>5, <2>7, <2>8, <2>9
  <1>2. IsFiniteSet(T) /\ F(T) \in Int /\ F(S) \in Int
    BY <1>0, FS_Subset, SumType
  <1>3. \A x \in T : f[x] \in Nat
    OBVIOUS
  <1>4. 0 <= F(T)
    <2> DEFINE bad == {U \in SUBSET T : ~(0 <= F(U))}
    <2>1. SUFFICES ASSUME bad # {} PROVE FALSE
      OBVIOUS
    <2>2. bad \subseteq SUBSET T
      OBVIOUS
    <2> HIDE DEF bad
    <2>3. PICK U \in bad : \A V \in SUBSET U : V # U => V \notin bad
      BY <1>2, <2>1, <2>2, SmallestSubset
    <2>4. U \in SUBSET T /\ IsFiniteSet(U) /\ ~(0 <= F(U))
      BY <1>2, <2>3, FS_Subset DEF bad
    <2>5. U # {}
      BY <2>4, SumEmpty
    <2>6. Any(U) \in U /\ F(U) = f[Any(U)] + F(U \ {Any(U)})
      BY <2>4, <2>5, SumOne
    <2>7. 0 <= F(U \ {Any(U)})
      BY <2>3, <2>4, <2>6 DEF bad
    <2>8. f[Any(U)] \in Nat /\ F(U \ {Any(U)}) \in Int
      BY <2>4, <2>6, SumType, FS_Subset
    <2> HIDE DEF F
    <2> QED BY <2>4, <2>6, <2>7, <2>8
  <1>5. F(T) <= F(S)
    BY <1>1
  <1> HIDE DEF F
  <1>6. F(T) \in Nat /\ F(S) \in Nat
    BY <1>2, <1>4, <1>5
  <1> QED BY <1>5, <1>6 DEF F
=============================================================================
