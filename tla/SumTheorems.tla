---------------------------- MODULE SumTheorems ----------------------------
(***************************************************************************)
(* Sums over finite sets, for the proofs of the modules that add things    *)
(* up: SumFunctionOnSet(f, S) has a value, does not depend on the order in *)
(* which it adds, and changes with f and S as a sum does.                  *)
(***************************************************************************)
EXTENDS Integers, FiniteSets, Functions, FiniteSetTheorems, WellFoundedInduction, TLAPS

-----------------------------------------------------------------------------
(* Induction, for sets: a set of naturals or of subsets takes the place of  *)
(* the property.                                                           *)

LEMMA NatSetInduction ==
    ASSUME NEW S \in SUBSET Nat, 0 \in S, \A n \in S : n + 1 \in S
    PROVE  S = Nat
<1> SUFFICES ASSUME Nat \ S # {} PROVE FALSE
  OBVIOUS
<1>1. PICK n \in Nat \ S : \A m \in Nat \ S : ~ (<<m, n>> \in OpToRel(<, Nat))
  BY NatLessThanWellFounded, WFMin
<1>2. n # 0 /\ n - 1 \in Nat
  OBVIOUS
<1>3. <<n - 1, n>> \in OpToRel(<, Nat)
  BY <1>2 DEF OpToRel
<1>4. n - 1 \in S
  BY <1>1, <1>2, <1>3
<1> QED  BY <1>2, <1>4

\* Subsets of S, smaller ones first.
LEMMA SubsetInduction ==
    ASSUME NEW S, IsFiniteSet(S), NEW C,
           \A s \in SUBSET S : (\A x \in s : s \ {x} \in C) => s \in C
    PROVE  SUBSET S \subseteq C
<1> DEFINE N == {n \in Nat : \A s \in SUBSET S : Cardinality(s) = n => s \in C}
<1>1. \A s \in SUBSET S : IsFiniteSet(s) /\ Cardinality(s) \in Nat
  BY FS_Subset, FS_CardinalityType
<1>2. 0 \in N
  BY <1>1, FS_EmptySet
<1>3. ASSUME NEW n \in N PROVE n + 1 \in N
  <2> SUFFICES ASSUME NEW s \in SUBSET S, Cardinality(s) = n + 1 PROVE s \in C
    OBVIOUS
  <2>1. ASSUME NEW x \in s PROVE s \ {x} \in C
    <3>1. Cardinality(s \ {x}) = n
      BY <1>1, FS_RemoveElement
    <3> QED  BY <3>1
  <2> QED  BY <2>1
<1>4. N = Nat
  <2> HIDE DEF N
  <2>1. N \in SUBSET Nat  BY DEF N
  <2> QED  BY <1>2, <1>3, <2>1, NatSetInduction
<1> QED  BY <1>1, <1>4

-----------------------------------------------------------------------------
(* The function the library's fold is taken from.                          *)

Pick(s) == CHOOSE x \in s : TRUE

\* One element at a time is added to what the rest adds up to.
Adds(f, S, g) ==
    g = [s \in SUBSET S |-> IF s = {} THEN 0 ELSE f[Pick(s)] + g[s \ {Pick(s)}]]

Ints(f, S) == \A x \in S : f[x] \in Int

SumOn(f, S) == SumFunctionOnSet(f, S)

\* Pick takes an element.
LEMMA PickIsElement == ASSUME NEW s, s # {} PROVE Pick(s) \in s
BY DEF Pick

\* A finite set of integers has sums for all its parts.
LEMMA AddsExists ==
    ASSUME NEW S, IsFiniteSet(S), NEW f, Ints(f, S)
    PROVE  \E g : Adds(f, S, g)
<1> DEFINE Step(g, s) == IF s = {} THEN 0 ELSE f[Pick(s)] + g[s \ {Pick(s)}]
           UpTo(g, n) == \A s \in SUBSET S : Cardinality(s) <= n => g[s] = Step(g, s)
           N == {n \in Nat : \E g \in [SUBSET S -> Int] : UpTo(g, n)}
<1>1. \A s \in SUBSET S : IsFiniteSet(s) /\ Cardinality(s) \in Nat
  BY FS_Subset, FS_CardinalityType
<1>2. 0 \in N
  <2>1. [s \in SUBSET S |-> 0] \in [SUBSET S -> Int]
    OBVIOUS
  <2>2. UpTo([s \in SUBSET S |-> 0], 0)
    BY <1>1, FS_EmptySet
  <2> QED  BY <2>1, <2>2
<1>3. ASSUME NEW n \in N PROVE n + 1 \in N
  <2>1. PICK g \in [SUBSET S -> Int] : UpTo(g, n)
    OBVIOUS
  <2> DEFINE h == [s \in SUBSET S |-> Step(g, s)]
  <2>2. h \in [SUBSET S -> Int]
    <3> SUFFICES ASSUME NEW s \in SUBSET S PROVE Step(g, s) \in Int
      OBVIOUS
    <3>1. CASE s = {}  BY <3>1
    <3>2. CASE s # {}
      BY <3>2, PickIsElement DEF Ints
    <3> QED  BY <3>1, <3>2
  <2>3. ASSUME NEW s \in SUBSET S, Cardinality(s) <= n + 1
        PROVE  h[s] = Step(h, s)
    <3>1. CASE s = {}  BY <3>1
    <3>2. CASE s # {}
      <4>1. Pick(s) \in s
        BY <3>2, PickIsElement
      <4>2. Cardinality(s \ {Pick(s)}) <= n
        BY <1>1, <2>3, <4>1, FS_RemoveElement
      <4>3. h[s \ {Pick(s)}] = g[s \ {Pick(s)}]
        BY <2>1, <4>2
      <4> QED  BY <3>2, <4>3
    <3> QED  BY <3>1, <3>2
  <2>4. UpTo(h, n + 1)  BY <2>3
  <2>5. n + 1 \in Nat
    OBVIOUS
  <2> HIDE DEF h, UpTo
  <2> QED  BY <2>2, <2>4, <2>5
<1>4. N = Nat
  <2> HIDE DEF N
  <2>1. N \in SUBSET Nat  BY DEF N
  <2> QED  BY <1>2, <1>3, <2>1, NatSetInduction
<1>5. PICK g \in [SUBSET S -> Int] : UpTo(g, Cardinality(S))
  BY <1>1, <1>4
<1>6. \A s \in SUBSET S : Cardinality(s) <= Cardinality(S)
  BY FS_Subset
<1>7. \A s \in SUBSET S : g[s] = Step(g, s)
  BY <1>5, <1>6
<1>8. g = [s \in SUBSET S |-> Step(g, s)]
  <2> HIDE DEF Step
  <2> QED  BY <1>5, <1>7
<1> QED  BY <1>8 DEF Adds

\* The fold of the library is the sum of the whole.
LEMMA SumIsAdded ==
    ASSUME NEW S, IsFiniteSet(S), NEW f, Ints(f, S)
    PROVE  \E g : Adds(f, S, g) /\ SumOn(f, S) = g[S]
<1> DEFINE F(g) == [s \in SUBSET S |->
                       IF s = {} THEN 0
                       ELSE f[CHOOSE x \in s : TRUE] + g[s \ {CHOOSE x \in s : TRUE}]]
           iter == CHOOSE g : g = F(g)
<1>1. SumOn(f, S) = iter[S]
  BY DEF SumOn, SumFunctionOnSet, FoldFunctionOnSet, MapThenFoldSet
<1>2. \E g : g = F(g)
  <2>1. PICK g : Adds(f, S, g)
    BY AddsExists
  <2>2. g = F(g)
    BY <2>1 DEF Adds, Pick
  <2> QED  BY <2>2
<1>3. iter = F(iter)
  <2> HIDE DEF F
  <2> QED  BY <1>2
<1>4. Adds(f, S, iter)
  <2> HIDE DEF iter
  <2> QED  BY <1>3 DEF Adds, Pick
<1> HIDE DEF iter
<1> QED  BY <1>1, <1>4

\* Sums of integers are integers.
LEMMA AddsIntegers ==
    ASSUME NEW S, IsFiniteSet(S), NEW f, Ints(f, S), NEW g, Adds(f, S, g)
    PROVE  \A s \in SUBSET S : g[s] \in Int
<1> DEFINE C == {s \in SUBSET S : g[s] \in Int}
<1>1. ASSUME NEW s \in SUBSET S, \A x \in s : s \ {x} \in C
      PROVE  s \in C
  <2>1. CASE s = {}
    BY <2>1 DEF Adds
  <2>2. CASE s # {}
    <3> DEFINE c == Pick(s)
    <3>1. c \in s /\ f[c] \in Int
      BY <2>2, PickIsElement DEF Ints
    <3>2. g[s] = f[c] + g[s \ {c}]
      BY <2>2 DEF Adds
    <3> HIDE DEF c
    <3> QED  BY <1>1, <3>1, <3>2
  <2> QED  BY <2>1, <2>2
<1>2. SUBSET S \subseteq C
  <2> HIDE DEF C
  <2> QED  BY <1>1, SubsetInduction
<1> QED  BY <1>2

\* Whatever is picked first, any element can be taken out of the sum.
LEMMA AddsInAnyOrder ==
    ASSUME NEW S, IsFiniteSet(S), NEW f, Ints(f, S), NEW g, Adds(f, S, g)
    PROVE  \A s \in SUBSET S : \A x \in s : g[s] = f[x] + g[s \ {x}]
<1> DEFINE C == {s \in SUBSET S : \A x \in s : g[s] = f[x] + g[s \ {x}]}
<1>1. ASSUME NEW s \in SUBSET S, \A x \in s : s \ {x} \in C
      PROVE  s \in C
  <2> SUFFICES ASSUME NEW x \in s PROVE g[s] = f[x] + g[s \ {x}]
    OBVIOUS
  <2> DEFINE c == Pick(s)
  <2>1. c \in s /\ f[c] \in Int /\ f[x] \in Int
    BY PickIsElement DEF Ints
  <2>2. g[s] = f[c] + g[s \ {c}]
    BY DEF Adds
  <2> HIDE DEF c
  <2>3. CASE x # c
    <3> DEFINE rest == s \ {c, x}
    <3>1. rest = (s \ {c}) \ {x} /\ rest = (s \ {x}) \ {c}
      OBVIOUS
    <3>2. g[s \ {c}] = f[x] + g[rest] /\ g[s \ {x}] = f[c] + g[rest]
      BY <1>1, <2>1, <2>3, <3>1
    <3>3. g[rest] \in Int
      BY AddsIntegers
    <3> HIDE DEF rest
    <3> QED  BY <2>1, <2>2, <3>2, <3>3
  <2> QED  BY <2>2, <2>3
<1>2. SUBSET S \subseteq C
  <2> HIDE DEF C
  <2> QED  BY <1>1, SubsetInduction
<1> QED  BY <1>2

\* The sum over a set depends on what is added there alone.
LEMMA AddsAgree ==
    ASSUME NEW S, IsFiniteSet(S), NEW f, Ints(f, S), NEW g, Adds(f, S, g),
           NEW T, IsFiniteSet(T), NEW e, Ints(e, T), NEW h, Adds(e, T, h),
           S \subseteq T, \A x \in S : f[x] = e[x]
    PROVE  g[S] = h[S]
<1> DEFINE C == {s \in SUBSET S : g[s] = h[s]}
<1>1. ASSUME NEW s \in SUBSET S, \A x \in s : s \ {x} \in C
      PROVE  s \in C
  <2>1. CASE s = {}
    BY <2>1 DEF Adds
  <2>2. CASE s # {}
    <3>1. Pick(s) \in s
      BY <2>2, PickIsElement
    <3>2. g[s] = f[Pick(s)] + g[s \ {Pick(s)}] /\ h[s] = e[Pick(s)] + h[s \ {Pick(s)}]
      BY <2>2 DEF Adds
    <3> QED  BY <1>1, <3>1, <3>2
  <2> QED  BY <2>1, <2>2
<1>2. SUBSET S \subseteq C
  <2> HIDE DEF C
  <2> QED  BY <1>1, SubsetInduction
<1> QED  BY <1>2

-----------------------------------------------------------------------------
(* Sums.                                                                   *)

\* The sum over no element is 0.
LEMMA SumEmpty == ASSUME NEW f PROVE SumOn(f, {}) = 0
<1>1. IsFiniteSet({}) /\ Ints(f, {})
  BY FS_EmptySet DEF Ints
<1> QED  BY <1>1, SumIsAdded DEF Adds

\* A sum of integers is an integer.
LEMMA SumIsInteger ==
    ASSUME NEW S, IsFiniteSet(S), NEW f, Ints(f, S)
    PROVE  SumOn(f, S) \in Int
BY SumIsAdded, AddsIntegers

\* Functions that agree on a set have the same sum over it.
LEMMA SumAgrees ==
    ASSUME NEW S, IsFiniteSet(S), NEW f, Ints(f, S), NEW e, \A x \in S : f[x] = e[x]
    PROVE  SumOn(f, S) = SumOn(e, S)
<1>1. Ints(e, S)  BY DEF Ints
<1> QED  BY <1>1, SumIsAdded, AddsAgree

\* An element can be taken out of a sum.
LEMMA SumTakesOut ==
    ASSUME NEW S, IsFiniteSet(S), NEW f, Ints(f, S), NEW x \in S
    PROVE  SumOn(f, S) = f[x] + SumOn(f, S \ {x})
<1> DEFINE R == S \ {x}
<1>1. IsFiniteSet(R) /\ Ints(f, R)
  BY FS_RemoveElement DEF Ints
<1>2. PICK g : Adds(f, S, g) /\ SumOn(f, S) = g[S]
  BY SumIsAdded
<1>3. PICK h : Adds(f, R, h) /\ SumOn(f, R) = h[R]
  BY <1>1, SumIsAdded
<1>4. g[S] = f[x] + g[R]
  BY <1>2, AddsInAnyOrder
<1>5. h[R] = g[R]
  <2> HIDE DEF R
  <2> R \subseteq S  BY DEF R
  <2> QED  BY <1>1, <1>2, <1>3, AddsAgree
<1> QED  BY <1>2, <1>3, <1>4, <1>5

\* An element can be added to a sum.
LEMMA SumAddsTo ==
    ASSUME NEW S, IsFiniteSet(S), NEW f, NEW x, x \notin S, Ints(f, S \union {x})
    PROVE  SumOn(f, S \union {x}) = f[x] + SumOn(f, S)
<1>1. IsFiniteSet(S \union {x})
  BY FS_AddElement
<1>2. (S \union {x}) \ {x} = S
  OBVIOUS
<1> QED  BY <1>1, <1>2, SumTakesOut

\* One summand changes, and the sum by as much.
LEMMA SumChanges ==
    ASSUME NEW S, IsFiniteSet(S), NEW f, Ints(f, S), NEW e, Ints(e, S), NEW x \in S,
           \A y \in S \ {x} : f[y] = e[y]
    PROVE  SumOn(e, S) = SumOn(f, S) - f[x] + e[x]
<1> DEFINE R == S \ {x}
<1>1. IsFiniteSet(R) /\ Ints(f, R) /\ Ints(e, R) /\ \A y \in R : f[y] = e[y]
  BY FS_RemoveElement DEF Ints
<1>2. SumOn(f, R) = SumOn(e, R) /\ SumOn(f, R) \in Int
  <2> HIDE DEF R
  <2> QED  BY <1>1, SumAgrees, SumIsInteger
<1>3. SumOn(f, S) = f[x] + SumOn(f, R) /\ SumOn(e, S) = e[x] + SumOn(e, R)
  BY SumTakesOut
<1>4. f[x] \in Int /\ e[x] \in Int
  BY DEF Ints
<1> HIDE DEF R
<1> QED  BY <1>2, <1>3, <1>4

\* Larger terms, larger sum.
LEMMA SumIsMonotone ==
    ASSUME NEW S, IsFiniteSet(S), NEW f, Ints(f, S), NEW e, Ints(e, S),
           \A x \in S : f[x] <= e[x]
    PROVE  SumOn(f, S) <= SumOn(e, S)
<1> DEFINE C == {s \in SUBSET S : SumOn(f, s) <= SumOn(e, s)}
<1>1. ASSUME NEW s \in SUBSET S, \A x \in s : s \ {x} \in C
      PROVE  s \in C
  <2>0. IsFiniteSet(s) /\ Ints(f, s) /\ Ints(e, s)
    BY FS_Subset DEF Ints
  <2>1. CASE s = {}
    BY <2>1, SumEmpty
  <2>2. CASE s # {}
    <3>1. PICK x : x \in s
      BY <2>2
    <3> DEFINE r == s \ {x}
    <3>2. SumOn(f, s) = f[x] + SumOn(f, r) /\ SumOn(e, s) = e[x] + SumOn(e, r)
      BY <2>0, <3>1, SumTakesOut
    <3>3. IsFiniteSet(r) /\ Ints(f, r) /\ Ints(e, r) /\ r \in C
      BY <1>1, <2>0, <3>1, FS_Subset DEF Ints
    <3>4. f[x] \in Int /\ e[x] \in Int /\ f[x] <= e[x]
      BY <3>1 DEF Ints
    <3> HIDE DEF r
    <3>5. SumOn(f, r) \in Int /\ SumOn(e, r) \in Int
      BY <3>3, SumIsInteger
    <3> QED  BY <3>2, <3>3, <3>4, <3>5
  <2> QED  BY <2>1, <2>2
<1>2. SUBSET S \subseteq C
  <2> HIDE DEF C
  <2> QED  BY <1>1, SubsetInduction
<1> QED  BY <1>2

\* A sum of zeros is 0.
LEMMA SumOfZeros ==
    ASSUME NEW S, IsFiniteSet(S), NEW f, \A x \in S : f[x] = 0
    PROVE  SumOn(f, S) = 0
<1> DEFINE C == {s \in SUBSET S : SumOn(f, s) = 0}
<1>1. ASSUME NEW s \in SUBSET S, \A x \in s : s \ {x} \in C
      PROVE  s \in C
  <2>0. IsFiniteSet(s) /\ Ints(f, s)
    BY FS_Subset DEF Ints
  <2>1. CASE s = {}
    BY <2>1, SumEmpty
  <2>2. CASE s # {}
    <3>1. PICK x : x \in s
      BY <2>2
    <3>2. SumOn(f, s) = f[x] + SumOn(f, s \ {x})
      BY <2>0, <3>1, SumTakesOut
    <3> QED  BY <1>1, <3>1, <3>2
  <2> QED  BY <2>1, <2>2
<1>2. SUBSET S \subseteq C
  <2> HIDE DEF C
  <2> QED  BY <1>1, SubsetInduction
<1> QED  BY <1>2

\* What adds nothing can be left out.
LEMMA SumLeavesOutZeros ==
    ASSUME NEW S, IsFiniteSet(S), NEW f, Ints(f, S), NEW T \in SUBSET S,
           \A x \in S \ T : f[x] = 0
    PROVE  SumOn(f, S) = SumOn(f, T)
<1> DEFINE C == {s \in SUBSET S : SumOn(f, s) = SumOn(f, s \intersect T)}
<1>1. ASSUME NEW s \in SUBSET S, \A x \in s : s \ {x} \in C
      PROVE  s \in C
  <2>1. CASE s = {}
    <3>1. s \intersect T = {}
      BY <2>1
    <3> QED  BY <2>1, <3>1, SumEmpty
  <2>2. CASE s # {}
    <3>1. PICK x \in s : TRUE
      BY <2>2
    <3>2. /\ IsFiniteSet(s) /\ Ints(f, s)
          /\ IsFiniteSet(s \intersect T) /\ Ints(f, s \intersect T)
          /\ IsFiniteSet((s \ {x}) \intersect T) /\ Ints(f, (s \ {x}) \intersect T)
      BY FS_Subset DEF Ints
    <3>3. SumOn(f, s) = f[x] + SumOn(f, s \ {x})
      BY <3>2, SumTakesOut
    <3>4. SumOn(f, s \ {x}) = SumOn(f, (s \ {x}) \intersect T)
      BY <1>1
    <3>5. SumOn(f, (s \ {x}) \intersect T) \in Int
      BY <3>2, SumIsInteger
    <3>6. CASE x \in T
      <4>1. (s \intersect T) \ {x} = (s \ {x}) \intersect T /\ x \in s \intersect T
        BY <3>6
      <4>2. SumOn(f, s \intersect T) = f[x] + SumOn(f, (s \intersect T) \ {x})
        BY <3>2, <4>1, SumTakesOut
      <4>3. SumOn(f, s) = SumOn(f, s \intersect T)
        BY <3>3, <3>4, <4>1, <4>2
      <4> QED  BY <4>3
    <3>7. CASE x \notin T
      <4>1. (s \ {x}) \intersect T = s \intersect T /\ f[x] = 0
        BY <3>7
      <4>2. SumOn(f, s \ {x}) = SumOn(f, s \intersect T) /\ SumOn(f, s \intersect T) \in Int
        BY <3>4, <3>5, <4>1
      <4>3. SumOn(f, s) = SumOn(f, s \intersect T)
        BY <3>3, <4>1, <4>2
      <4> QED  BY <4>3
    <3> QED  BY <3>6, <3>7
  <2> QED  BY <2>1, <2>2
<1>2. SUBSET S \subseteq C
  <2> HIDE DEF C
  <2> QED  BY <1>1, SubsetInduction
<1>3. S \intersect T = T /\ S \in C
  BY <1>2
<1> QED  BY <1>3

\* The sum over a part of S, as a sum over all of S.
LEMMA SumOverAll ==
    ASSUME NEW S, IsFiniteSet(S), NEW T \in SUBSET S, NEW f, Ints(f, T),
           NEW e, \A x \in S : e[x] = IF x \in T THEN f[x] ELSE 0
    PROVE  Ints(e, S) /\ SumOn(f, T) = SumOn(e, S)
<1>1. Ints(e, S) /\ IsFiniteSet(T)
  BY FS_Subset DEF Ints
<1>2. SumOn(e, S) = SumOn(e, T)
  BY <1>1, SumLeavesOutZeros
<1>3. SumOn(f, T) = SumOn(e, T)
  BY <1>1, SumAgrees
<1> QED  BY <1>1, <1>2, <1>3

\* A sum of naturals is a natural.
LEMMA SumIsNatural ==
    ASSUME NEW S, IsFiniteSet(S), NEW f, \A x \in S : f[x] \in Nat
    PROVE  SumOn(f, S) \in Nat
<1> DEFINE zero == [x \in S |-> 0]
<1>1. Ints(f, S) /\ Ints(zero, S) /\ \A x \in S : zero[x] <= f[x]
  BY DEF Ints
<1>2. SumOn(zero, S) = 0
  BY SumOfZeros
<1> HIDE DEF zero
<1>3. SumOn(zero, S) <= SumOn(f, S) /\ SumOn(f, S) \in Int
  BY <1>1, SumIsMonotone, SumIsInteger
<1> QED  BY <1>2, <1>3

\* What leaves a window that moves on leaves the sum over it.
LEMMA SumMovesOn ==
    ASSUME NEW n \in Nat, NEW f, \A a \in 0..n : f[a] \in Nat,
           NEW e, e[0] = 0, \A a \in 1..n : e[a] = f[a - 1]
    PROVE  SumOn(e, 0..n) <= SumOn(f, 0..n)
<1> DEFINE N == {k \in Nat : k <= n => SumOn(e, 0..k) = SumOn(f, 0..k) - f[k]}
<1>0. \A k \in Nat : k <= n =>
         /\ IsFiniteSet(0..k) /\ Ints(f, 0..k) /\ Ints(e, 0..k)
         /\ f[k] \in Nat
  <2> SUFFICES ASSUME NEW k \in Nat, k <= n
               PROVE  IsFiniteSet(0..k) /\ Ints(f, 0..k) /\ Ints(e, 0..k) /\ f[k] \in Nat
    OBVIOUS
  <2>1. IsFiniteSet(0..k)  BY FS_Interval
  <2>2. ASSUME NEW a \in 0..k PROVE f[a] \in Nat /\ e[a] \in Nat
    <3>1. CASE a = 0  BY <3>1
    <3>2. CASE a # 0
      <4>1. a \in 1..n /\ a - 1 \in 0..n /\ a \in 0..n
        BY <2>2, <3>2
      <4> QED  BY <4>1
    <3> QED  BY <3>1, <3>2
  <2> QED  BY <2>1, <2>2 DEF Ints
<1>1. 0 \in N
  <2>1. 0..0 = {0}  OBVIOUS
  <2>2. SumOn(e, {0}) = e[0] + SumOn(e, {} ) /\ SumOn(f, {0}) = f[0] + SumOn(f, {})
    <3>1. IsFiniteSet({}) /\ {} \union {0} = {0} /\ f[0] \in Nat
      BY FS_EmptySet
    <3>2. Ints(e, {0}) /\ Ints(f, {0})
      BY <3>1 DEF Ints
    <3> QED  BY <3>1, <3>2, SumAddsTo
  <2> QED  BY <2>1, <2>2, <1>0, SumEmpty
<1>2. ASSUME NEW k \in N PROVE k + 1 \in N
  <2> SUFFICES ASSUME k + 1 <= n
               PROVE  SumOn(e, 0..(k + 1)) = SumOn(f, 0..(k + 1)) - f[k + 1]
    OBVIOUS
  <2>1. (0..(k + 1)) = (0..k) \union {k + 1} /\ k + 1 \notin 0..k
    OBVIOUS
  <2>2. /\ SumOn(e, 0..(k + 1)) = e[k + 1] + SumOn(e, 0..k)
        /\ SumOn(f, 0..(k + 1)) = f[k + 1] + SumOn(f, 0..k)
    <3> DEFINE S == 0..k
    <3>1. IsFiniteSet(S) /\ Ints(e, S \union {k + 1}) /\ Ints(f, S \union {k + 1})
      <4>1. k \in Nat /\ k <= n /\ k + 1 \in Nat
        OBVIOUS
      <4>2. Ints(e, 0..(k + 1)) /\ Ints(f, 0..(k + 1))
        BY <1>0, <4>1
      <4>3. IsFiniteSet(0..k)
        BY <1>0, <4>1
      <4> QED  BY <2>1, <4>2, <4>3
    <3>2. (0..(k + 1)) = S \union {k + 1} /\ k + 1 \notin S
      BY <2>1
    <3> HIDE DEF S
    <3>3. /\ SumOn(e, S \union {k + 1}) = e[k + 1] + SumOn(e, S)
          /\ SumOn(f, S \union {k + 1}) = f[k + 1] + SumOn(f, S)
      BY <3>1, <3>2, SumAddsTo
    <3> QED  BY <3>2, <3>3 DEF S
  <2>3. e[k + 1] = f[k]
    <3>1. k + 1 \in 1..n /\ (k + 1) - 1 = k  OBVIOUS
    <3> QED  BY <3>1
  <2>4. SumOn(e, 0..k) = SumOn(f, 0..k) - f[k] /\ SumOn(f, 0..k) \in Int
    BY <1>0, SumIsInteger
  <2>5. f[k] \in Nat /\ f[k + 1] \in Nat  BY <1>0
  <2> QED  BY <2>2, <2>3, <2>4, <2>5
<1>3. N = Nat
  <2> HIDE DEF N
  <2>1. N \in SUBSET Nat  BY DEF N
  <2> QED  BY <1>1, <1>2, <2>1, NatSetInduction
<1>4. SumOn(e, 0..n) = SumOn(f, 0..n) - f[n]
  BY <1>3
<1>5. SumOn(f, 0..n) \in Int /\ f[n] \in Nat
  BY <1>0, SumIsInteger
<1> QED  BY <1>4, <1>5
=============================================================================
