----------------------------- MODULE Sums_proofs -----------------------------
(***************************************************************************)
(* Induction over the subsets of a finite set, and with it what the sum of *)
(* a function over such a set is: for the weights and deficits of sprints, *)
(* and for the slots that ticks hold.                                      *)
(***************************************************************************)
EXTENDS Integers, FiniteSetsExt, FiniteSetTheorems, WellFoundedInduction, TLAPS

-----------------------------------------------------------------------------
(* Induction: a set of sets holds every set that can be built up to.       *)

\* A set is good if it is good whenever all it is with one element less are.
LEMMA SetInduction ==
  ASSUME NEW S, IsFiniteSet(S), NEW Good,
         \A T \in SUBSET S : (\A x \in T : T \ {x} \in Good) => T \in Good
  PROVE  \A T \in SUBSET S : T \in Good
<1> DEFINE bad == {T \in SUBSET S : T \notin Good}
<1> SUFFICES ASSUME bad # {} PROVE FALSE
  OBVIOUS
<1>1. IsWellFoundedOn(StrictSubsetOrdering(S), SUBSET S)
  <2>1. FiniteSubsetsOf(S) = SUBSET S
    BY FS_FiniteSubsetsOfFinite
  <2>2. IsWellFoundedOn(StrictSubsetOrdering(S), FiniteSubsetsOf(S))
    BY FS_StrictSubsetOrderingWellFounded
  <2> QED
    BY <2>1, <2>2
<1>2. PICK T \in bad : \A U \in bad : <<U, T>> \notin StrictSubsetOrdering(S)
  <2>1. bad \subseteq SUBSET S
    OBVIOUS
  <2> HIDE DEF bad
  <2> QED
    BY <1>1, <2>1, WFMin
<1>3. ASSUME NEW x \in T PROVE T \ {x} \in Good
  <2>1. <<T \ {x}, T>> \in StrictSubsetOrdering(S)
    BY DEF StrictSubsetOrdering
  <2> QED
    BY <1>2, <2>1
<1> QED
  BY <1>3

-----------------------------------------------------------------------------
(* The sum of f over T                                                     *)

SumOver(f, T) == MapThenSumSet(LAMBDA x : f[x], T)

\* The function that MapThenSumSet recurs on.
SumAt(g, f, T) == IF T = {} THEN 0
                  ELSE LET x == CHOOSE x \in T : TRUE IN f[x] + g[T \ {x}]
AddsUp(g, f, S) == g = [T \in SUBSET S |-> SumAt(g, f, T)]
Sums(f, S) == CHOOSE g : AddsUp(g, f, S)

LEMMA SumIsRecursive == ASSUME NEW f, NEW S PROVE SumOver(f, S) = Sums(f, S)[S]
  BY DEF SumOver, MapThenSumSet, MapThenFoldSet, Sums, AddsUp, SumAt

\* Two functions that add up agree where both are defined.
LEMMA SumsAgree ==
  ASSUME NEW f, NEW S, NEW R \in SUBSET S, IsFiniteSet(R), NEW g, NEW h,
         AddsUp(g, f, S), AddsUp(h, f, R)
  PROVE  \A T \in SUBSET R : g[T] = h[T]
<1> DEFINE good == {T \in SUBSET R : g[T] = h[T]}
<1>1. ASSUME NEW T \in SUBSET R, \A x \in T : T \ {x} \in good PROVE T \in good
  <2>1. g[T] = SumAt(g, f, T) /\ h[T] = SumAt(h, f, T)
    BY DEF AddsUp
  <2>2. CASE T = {}
    BY <2>1, <2>2 DEF SumAt
  <2>3. CASE T # {}
    BY <1>1, <2>1, <2>3 DEF SumAt
  <2> QED
    BY <2>2, <2>3
<1>2. \A T \in SUBSET R : T \in good
  <2> HIDE DEF good
  <2> QED
    BY <1>1, SetInduction
<1> QED
  BY <1>2

\* There is a function that adds up over a finite set.
LEMMA SumsExist == ASSUME NEW f, NEW S, IsFiniteSet(S) PROVE AddsUp(Sums(f, S), f, S)
<1> DEFINE good == {T \in SUBSET S : \A U \in SUBSET T : AddsUp(Sums(f, U), f, U)}
<1>1. ASSUME NEW T \in SUBSET S, \A x \in T : T \ {x} \in good PROVE T \in good
  <2> DEFINE g == [U \in SUBSET T |->
                     IF U = {} THEN 0
                     ELSE LET z == CHOOSE z \in U : TRUE IN f[z] + Sums(f, U \ {z})[U \ {z}]]
  <2>1. ASSUME NEW U \in SUBSET T, U # T PROVE AddsUp(Sums(f, U), f, U)
    <3>1. PICK x \in T : U \in SUBSET (T \ {x})
      BY <2>1
    <3> QED
      BY <1>1, <3>1
  <2>2. ASSUME NEW V \in SUBSET T, V # T PROVE g[V] = Sums(f, V)[V]
    <3>1. Sums(f, V)[V] = SumAt(Sums(f, V), f, V)
      BY <2>1, <2>2 DEF AddsUp
    <3>2. CASE V = {}
      BY <3>1, <3>2 DEF SumAt
    <3>3. CASE V # {}
      <4> DEFINE w == CHOOSE w \in V : TRUE
                 W == V \ {w}
      <4>1. w \in V /\ W \in SUBSET V /\ W \in SUBSET T /\ W # T
        BY <3>3
      <4>2. IsFiniteSet(W)
        BY <4>1, FS_Subset
      <4>3. AddsUp(Sums(f, V), f, V) /\ AddsUp(Sums(f, W), f, W)
        BY <2>1, <2>2, <4>1
      <4>4. Sums(f, V)[W] = Sums(f, W)[W]
        <5> HIDE DEF W
        <5> QED
          BY <4>1, <4>2, <4>3, SumsAgree
      <4>5. g[V] = f[w] + Sums(f, W)[W]
        BY <3>3
      <4> QED
        BY <3>1, <3>3, <4>4, <4>5 DEF SumAt
    <3> QED
      BY <3>2, <3>3
  <2>3. AddsUp(g, f, T)
    <3>1. ASSUME NEW U \in SUBSET T PROVE g[U] = SumAt(g, f, U)
      <4>1. CASE U = {}
        BY <4>1 DEF SumAt
      <4>2. CASE U # {}
        <5> DEFINE z == CHOOSE z \in U : TRUE
        <5>1. g[U \ {z}] = Sums(f, U \ {z})[U \ {z}]
          BY <2>2, <4>2
        <5> QED
          BY <4>2, <5>1 DEF SumAt
      <4> QED
        BY <4>1, <4>2
    <3>2. g = [U \in SUBSET T |-> g[U]]
      OBVIOUS
    <3> HIDE DEF g
    <3> QED
      BY <3>1, <3>2 DEF AddsUp
  <2>4. AddsUp(Sums(f, T), f, T)
    <3> HIDE DEF g
    <3> QED
      BY <2>3 DEF Sums
  <2> QED
    BY <2>1, <2>4
<1>2. \A T \in SUBSET S : T \in good
  <2> HIDE DEF good
  <2> QED
    BY <1>1, SetInduction
<1> QED
  BY <1>2

LEMMA SumOverEmpty == ASSUME NEW f PROVE SumOver(f, {}) = 0
<1>1. IsFiniteSet({})
  BY FS_EmptySet
<1>2. AddsUp(Sums(f, {}), f, {})
  BY <1>1, SumsExist
<1> QED
  BY <1>2, SumIsRecursive DEF AddsUp, SumAt

LEMMA SumOverChosen ==
  ASSUME NEW f, NEW S, IsFiniteSet(S), S # {}
  PROVE  \E x \in S : SumOver(f, S) = f[x] + SumOver(f, S \ {x})
<1> DEFINE x == CHOOSE x \in S : TRUE
           R == S \ {x}
<1>1. x \in S /\ R \in SUBSET S
  OBVIOUS
<1>2. IsFiniteSet(R)
  BY <1>1, FS_Subset
<1>3. AddsUp(Sums(f, S), f, S) /\ AddsUp(Sums(f, R), f, R)
  BY <1>2, SumsExist
<1>4. Sums(f, S)[R] = Sums(f, R)[R]
  <2> HIDE DEF R
  <2> QED
    BY <1>1, <1>2, <1>3, SumsAgree
<1>5. Sums(f, S)[S] = f[x] + Sums(f, S)[R]
  BY <1>3 DEF AddsUp, SumAt
<1> QED
  BY <1>1, <1>4, <1>5, SumIsRecursive

-----------------------------------------------------------------------------
(* What the sums of whole numbers are                                      *)

LEMMA SumOverInt ==
  ASSUME NEW S, IsFiniteSet(S), NEW f, \A x \in S : f[x] \in Int
  PROVE  SumOver(f, S) \in Int
<1> DEFINE good == {T \in SUBSET S : SumOver(f, T) \in Int}
<1>1. ASSUME NEW T \in SUBSET S, \A x \in T : T \ {x} \in good PROVE T \in good
  <2>1. CASE T = {}
    BY <2>1, SumOverEmpty
  <2>2. CASE T # {}
    <3>1. IsFiniteSet(T)
      BY FS_Subset
    <3>2. PICK x \in T : SumOver(f, T) = f[x] + SumOver(f, T \ {x})
      BY <2>2, <3>1, SumOverChosen
    <3>3. f[x] \in Int /\ SumOver(f, T \ {x}) \in Int
      BY <1>1
    <3> QED
      BY <3>2, <3>3
  <2> QED
    BY <2>1, <2>2
<1>2. \A T \in SUBSET S : T \in good
  <2> HIDE DEF good
  <2> QED
    BY <1>1, SetInduction
<1> QED
  BY <1>2

\* Any element can be taken out of a sum.
LEMMA SumOverTakeOut ==
  ASSUME NEW S, IsFiniteSet(S), NEW f, \A x \in S : f[x] \in Int, NEW y \in S
  PROVE  SumOver(f, S) = f[y] + SumOver(f, S \ {y})
<1> DEFINE good == {T \in SUBSET S : \A z \in T : SumOver(f, T) = f[z] + SumOver(f, T \ {z})}
<1>1. ASSUME NEW T \in SUBSET S, \A x \in T : T \ {x} \in good PROVE T \in good
  <2> SUFFICES ASSUME NEW z \in T PROVE SumOver(f, T) = f[z] + SumOver(f, T \ {z})
    OBVIOUS
  <2>1. IsFiniteSet(T)
    BY FS_Subset
  <2>2. PICK x \in T : SumOver(f, T) = f[x] + SumOver(f, T \ {x})
    BY <2>1, SumOverChosen
  <2>3. CASE x # z
    <3> DEFINE rest == (T \ {x}) \ {z}
    <3>1. SumOver(f, T \ {x}) = f[z] + SumOver(f, rest)
      BY <1>1, <2>3
    <3>2. SumOver(f, T \ {z}) = f[x] + SumOver(f, rest)
      <4>1. (T \ {z}) \ {x} = rest /\ x \in T \ {z} /\ T \ {z} \in good
        BY <1>1, <2>3
      <4> QED
        BY <4>1
    <3>3. f[x] \in Int /\ f[z] \in Int
      OBVIOUS
    <3>4. SumOver(f, rest) \in Int
      <4>1. IsFiniteSet(rest)
        BY <2>1, FS_Subset
      <4> QED
        BY <4>1, SumOverInt
    <3> HIDE DEF rest
    <3> QED
      BY <2>2, <3>1, <3>2, <3>3, <3>4
  <2> QED
    BY <2>2, <2>3
<1>2. \A T \in SUBSET S : T \in good
  <2> HIDE DEF good
  <2> QED
    BY <1>1, SetInduction
<1> QED
  BY <1>2

\* A sum splits over two disjoint sets.
LEMMA SumOverUnion ==
  ASSUME NEW R, IsFiniteSet(R), NEW S, IsFiniteSet(S), R \cap S = {},
         NEW f, \A x \in R \cup S : f[x] \in Int
  PROVE  SumOver(f, R \cup S) = SumOver(f, R) + SumOver(f, S)
<1> DEFINE good == {T \in SUBSET R : SumOver(f, T \cup S) = SumOver(f, T) + SumOver(f, S)}
<1>0. SumOver(f, S) \in Int
  BY SumOverInt
<1>1. ASSUME NEW T \in SUBSET R, \A x \in T : T \ {x} \in good PROVE T \in good
  <2>1. CASE T = {}
    <3>1. SumOver(f, T \cup S) = SumOver(f, S)
      <4>1. T \cup S = S
        BY <2>1
      <4> QED
        BY <4>1
    <3>2. SumOver(f, T) = 0
      BY <2>1, SumOverEmpty
    <3>3. SumOver(f, T \cup S) = SumOver(f, T) + SumOver(f, S)
      BY <1>0, <3>1, <3>2
    <3> QED
      BY <3>3
  <2>2. CASE T # {}
    <3>1. PICK x \in T : TRUE
      BY <2>2
    <3>2. IsFiniteSet(T)
      BY FS_Subset
    <3>3. IsFiniteSet(T \cup S)
      BY <3>2, FS_Union
    <3>4. SumOver(f, T) = f[x] + SumOver(f, T \ {x})
      BY <3>2, SumOverTakeOut
    <3>5. SumOver(f, T \cup S) = f[x] + SumOver(f, (T \ {x}) \cup S)
      <4>1. (T \cup S) \ {x} = (T \ {x}) \cup S
        OBVIOUS
      <4>2. SumOver(f, T \cup S) = f[x] + SumOver(f, (T \cup S) \ {x})
        BY <3>3, SumOverTakeOut
      <4> QED
        BY <4>1, <4>2
    <3>6. SumOver(f, (T \ {x}) \cup S) = SumOver(f, T \ {x}) + SumOver(f, S)
      BY <1>1
    <3>7. f[x] \in Int /\ SumOver(f, T \ {x}) \in Int
      <4>1. IsFiniteSet(T \ {x})
        BY <3>2, FS_Subset
      <4> QED
        BY <4>1, SumOverInt
    <3> QED
      BY <1>0, <3>4, <3>5, <3>6, <3>7
  <2> QED
    BY <2>1, <2>2
<1>2. \A T \in SUBSET R : T \in good
  <2> HIDE DEF good
  <2> QED
    BY <1>1, SetInduction
<1> QED
  BY <1>2

\* Multiples of the terms make multiples of the sums.
LEMMA SumOverScaled ==
  ASSUME NEW S, IsFiniteSet(S), NEW f, NEW g, \A x \in S : f[x] \in Int /\ g[x] \in Int,
         NEW a \in Int, NEW b \in Int, \A x \in S : a * f[x] = b * g[x]
  PROVE  a * SumOver(f, S) = b * SumOver(g, S)
<1> DEFINE good == {T \in SUBSET S : a * SumOver(f, T) = b * SumOver(g, T)}
<1>1. ASSUME NEW T \in SUBSET S, \A x \in T : T \ {x} \in good PROVE T \in good
  <2>1. CASE T = {}
    BY <2>1, SumOverEmpty
  <2>2. CASE T # {}
    <3>1. PICK x \in T : TRUE
      BY <2>2
    <3>2. IsFiniteSet(T) /\ IsFiniteSet(T \ {x})
      BY FS_Subset
    <3>3. SumOver(f, T) = f[x] + SumOver(f, T \ {x}) /\ SumOver(g, T) = g[x] + SumOver(g, T \ {x})
      BY <3>2, SumOverTakeOut
    <3>4. SumOver(f, T \ {x}) \in Int /\ SumOver(g, T \ {x}) \in Int
      BY <3>2, SumOverInt
    <3>5. a * (f[x] + SumOver(f, T \ {x})) = a * f[x] + a * SumOver(f, T \ {x})
      BY <3>4
    <3>6. b * (g[x] + SumOver(g, T \ {x})) = b * g[x] + b * SumOver(g, T \ {x})
      BY <3>4
    <3>7. a * SumOver(f, T \ {x}) = b * SumOver(g, T \ {x})
      BY <1>1
    <3> QED
      BY <3>3, <3>5, <3>6, <3>7
  <2> QED
    BY <2>1, <2>2
<1>2. \A T \in SUBSET S : T \in good
  <2> HIDE DEF good
  <2> QED
    BY <1>1, SetInduction
<1> QED
  BY <1>2

\* Sums of terms that add up, term by term.
LEMMA SumOverPlus ==
  ASSUME NEW S, IsFiniteSet(S), NEW f, NEW g, NEW h,
         \A x \in S : f[x] \in Int /\ g[x] \in Int /\ h[x] = f[x] + g[x]
  PROVE  SumOver(h, S) = SumOver(f, S) + SumOver(g, S)
<1> DEFINE good == {T \in SUBSET S : SumOver(h, T) = SumOver(f, T) + SumOver(g, T)}
<1>1. ASSUME NEW T \in SUBSET S, \A x \in T : T \ {x} \in good PROVE T \in good
  <2>1. CASE T = {}
    BY <2>1, SumOverEmpty
  <2>2. CASE T # {}
    <3>1. PICK x \in T : TRUE
      BY <2>2
    <3>2. IsFiniteSet(T) /\ IsFiniteSet(T \ {x})
      BY FS_Subset
    <3>3. h[x] = f[x] + g[x] /\ \A y \in S : h[y] \in Int
      OBVIOUS
    <3>4. SumOver(f, T) = f[x] + SumOver(f, T \ {x}) /\ SumOver(g, T) = g[x] + SumOver(g, T \ {x})
      BY <3>2, SumOverTakeOut
    <3>5. SumOver(h, T) = h[x] + SumOver(h, T \ {x})
      BY <3>2, <3>3, SumOverTakeOut
    <3>6. SumOver(f, T \ {x}) \in Int /\ SumOver(g, T \ {x}) \in Int
      BY <3>2, SumOverInt
    <3>7. SumOver(h, T \ {x}) = SumOver(f, T \ {x}) + SumOver(g, T \ {x})
      BY <1>1
    <3> QED
      BY <3>3, <3>4, <3>5, <3>6, <3>7
  <2> QED
    BY <2>1, <2>2
<1>2. \A T \in SUBSET S : T \in good
  <2> HIDE DEF good
  <2> QED
    BY <1>1, SetInduction
<1> QED
  BY <1>2

\* A sum of terms up to b is up to b for each of them.
LEMMA SumOverAtMost ==
  ASSUME NEW S, IsFiniteSet(S), NEW f, NEW b \in Int, \A x \in S : f[x] \in Int /\ f[x] <= b
  PROVE  SumOver(f, S) <= Cardinality(S) * b
<1> DEFINE good == {T \in SUBSET S : SumOver(f, T) <= Cardinality(T) * b}
<1>1. ASSUME NEW T \in SUBSET S, \A x \in T : T \ {x} \in good PROVE T \in good
  <2>1. CASE T = {}
    <3>1. SumOver(f, T) = 0 /\ Cardinality(T) = 0
      BY <2>1, SumOverEmpty, FS_EmptySet
    <3> QED
      BY <3>1
  <2>2. CASE T # {}
    <3>1. PICK x \in T : TRUE
      BY <2>2
    <3>2. IsFiniteSet(T) /\ IsFiniteSet(T \ {x})
      BY FS_Subset
    <3>3. SumOver(f, T) = f[x] + SumOver(f, T \ {x})
      BY <3>2, SumOverTakeOut
    <3>4. SumOver(f, T \ {x}) \in Int /\ Cardinality(T) \in Nat /\ Cardinality(T \ {x}) \in Nat
      BY <3>2, SumOverInt, FS_CardinalityType
    <3>5. Cardinality(T \ {x}) = Cardinality(T) - 1
      BY <3>2, FS_RemoveElement
    <3>6. SumOver(f, T \ {x}) <= (Cardinality(T) - 1) * b
      BY <1>1, <3>5
    <3>7. (Cardinality(T) - 1) * b = Cardinality(T) * b - b
      BY <3>4
    <3>8. Cardinality(T) * b \in Int /\ f[x] <= b /\ f[x] \in Int
      BY <3>4
    <3> QED
      BY <3>3, <3>4, <3>6, <3>7, <3>8
  <2> QED
    BY <2>1, <2>2
<1>2. \A T \in SUBSET S : T \in good
  <2> HIDE DEF good
  <2> QED
    BY <1>1, SetInduction
<1> QED
  BY <1>2

LEMMA SumOverNat ==
  ASSUME NEW S, IsFiniteSet(S), NEW f, \A x \in S : f[x] \in Nat
  PROVE  SumOver(f, S) \in Nat
<1> DEFINE good == {T \in SUBSET S : SumOver(f, T) \in Nat}
<1>1. ASSUME NEW T \in SUBSET S, \A x \in T : T \ {x} \in good PROVE T \in good
  <2>1. CASE T = {}
    BY <2>1, SumOverEmpty
  <2>2. CASE T # {}
    <3>1. IsFiniteSet(T)
      BY FS_Subset
    <3>2. PICK x \in T : SumOver(f, T) = f[x] + SumOver(f, T \ {x})
      BY <2>2, <3>1, SumOverChosen
    <3>3. f[x] \in Nat /\ SumOver(f, T \ {x}) \in Nat
      BY <1>1
    <3> QED
      BY <3>2, <3>3
  <2> QED
    BY <2>1, <2>2
<1>2. \A T \in SUBSET S : T \in good
  <2> HIDE DEF good
  <2> QED
    BY <1>1, SetInduction
<1> QED
  BY <1>2

LEMMA SumOverSame ==
  ASSUME NEW S, IsFiniteSet(S), NEW f, NEW g, \A x \in S : f[x] \in Int /\ g[x] = f[x]
  PROVE  SumOver(g, S) = SumOver(f, S)
<1>1. 1 * SumOver(g, S) = 1 * SumOver(f, S)
  <2>1. \A x \in S : g[x] \in Int /\ f[x] \in Int /\ 1 * g[x] = 1 * f[x]
    OBVIOUS
  <2> QED
    BY <2>1, SumOverScaled
<1>2. SumOver(g, S) \in Int /\ SumOver(f, S) \in Int
  BY SumOverInt
<1> QED
  BY <1>1, <1>2

\* Terms that grow by c at most, each, make a sum that grows by c for each.
LEMMA SumOverRaised ==
  ASSUME NEW S, IsFiniteSet(S), NEW f, NEW g, NEW c \in Int,
         \A x \in S : f[x] \in Int /\ g[x] \in Int /\ g[x] <= f[x] + c
  PROVE  SumOver(g, S) <= SumOver(f, S) + Cardinality(S) * c
<1> DEFINE h == [x \in S |-> g[x] - f[x]]
<1>1. \A x \in S : h[x] \in Int /\ h[x] <= c /\ g[x] = f[x] + h[x]
  OBVIOUS
<1> HIDE DEF h
<1>2. SumOver(h, S) <= Cardinality(S) * c
  BY <1>1, SumOverAtMost
<1>3. SumOver(g, S) = SumOver(f, S) + SumOver(h, S)
  BY <1>1, SumOverPlus
<1>4. SumOver(f, S) \in Int /\ SumOver(h, S) \in Int
  BY <1>1, SumOverInt
<1>5. Cardinality(S) * c \in Int
  BY FS_CardinalityType
<1> QED
  BY <1>2, <1>3, <1>4, <1>5

\* A sum changes as its only term that changes.
LEMMA SumOverChanged ==
  ASSUME NEW S, IsFiniteSet(S), NEW f, NEW g, \A x \in S : f[x] \in Int /\ g[x] \in Int,
         NEW y \in S, \A x \in S \ {y} : g[x] = f[x]
  PROVE  SumOver(g, S) = SumOver(f, S) + (g[y] - f[y])
<1> DEFINE rest == S \ {y}
<1>1. IsFiniteSet(rest)
  BY FS_Subset
<1>2. SumOver(f, S) = f[y] + SumOver(f, rest) /\ SumOver(g, S) = g[y] + SumOver(g, rest)
  BY SumOverTakeOut
<1>3. SumOver(g, rest) = SumOver(f, rest)
  BY <1>1, SumOverSame
<1>4. SumOver(f, rest) \in Int
  BY <1>1, SumOverInt
<1> HIDE DEF rest
<1> QED
  BY <1>2, <1>3, <1>4
=============================================================================
