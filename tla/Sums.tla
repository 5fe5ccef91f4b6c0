-------------------------------- MODULE Sums --------------------------------
(***************************************************************************)
(* What the sums of the community modules add up to: facts about           *)
(* SumFunctionOnSet(f, S), the sum of f[x] over the x in a finite set S,   *)
(* that follow from its definition as a fold.                              *)
(*                                                                         *)
(* A fold chooses the order of the elements, and a fold over a part of S   *)
(* is not the same recursive function as one over S; that neither matters  *)
(* takes an induction each.  SubsetInduction is that induction, said with  *)
(* a set of subsets where a predicate would be usual; NatInSet is the one  *)
(* over the numbers.                                                       *)
(***************************************************************************)
EXTENDS Integers, FiniteSets, Functions, FiniteSetTheorems, TLAPS

\* What holds of every subset whose proper subsets it holds of, holds of the
\* whole finite set.
LEMMA SubsetInduction ==
    ASSUME NEW S, IsFiniteSet(S), NEW G,
           \A T \in SUBSET S : (\A U \in SUBSET T : U # T => U \in G) => T \in G
    PROVE  S \in G
<1> DEFINE Bad == {T \in SUBSET S : T \notin G}
<1> SUFFICES ASSUME S \notin G PROVE FALSE
    OBVIOUS
<1>1. IsWellFoundedOn(StrictSubsetOrdering(S), FiniteSubsetsOf(S))
    BY FS_StrictSubsetOrderingWellFounded
<1>2. Bad \subseteq FiniteSubsetsOf(S) /\ Bad # {} /\ Bad \subseteq SUBSET S
    BY FS_FiniteSubsetsOfFinite
<1>3. \A T \in Bad : \E U \in SUBSET T : U # T /\ U \in Bad
    OBVIOUS
<1> HIDE DEF Bad
<1>4. \E T \in Bad : \A U \in Bad : ~(<<U, T>> \in StrictSubsetOrdering(S))
    BY <1>1, <1>2, WFMin
<1>5. PICK T \in Bad : \A U \in Bad : <<U, T>> \notin StrictSubsetOrdering(S)
    BY <1>4
<1>6. PICK U \in SUBSET T : U # T /\ U \in Bad
    BY <1>3
<1>7. <<U, T>> \in StrictSubsetOrdering(S)
    BY <1>2, <1>5, <1>6 DEF StrictSubsetOrdering
<1> QED BY <1>5, <1>6, <1>7

(* Induction over the numbers, with a set in the place of the predicate.             *)
LEMMA NatInSet ==
    ASSUME NEW G, 0 \in G, \A n \in Nat : n \in G => n + 1 \in G
    PROVE  \A n \in Nat : n \in G
<1> SUFFICES ASSUME NEW n \in Nat PROVE n \in G
  OBVIOUS
<1> DEFINE S == 0..n
           Good == {T \in SUBSET S : \A k \in Nat : T = 0..k => k \in G}
<1>1. ASSUME NEW T \in SUBSET S, \A U \in SUBSET T : U # T => U \in Good
      PROVE  T \in Good
  <2> SUFFICES ASSUME NEW k \in Nat, T = 0..k, k # 0 PROVE k \in G
    OBVIOUS
  <2>1. k - 1 \in Nat /\ 0..(k - 1) \in SUBSET T /\ k \in T /\ k \notin 0..(k - 1)
    OBVIOUS
  <2>2. 0..(k - 1) \in Good
    BY <1>1, <2>1
  <2>3. k - 1 \in G
    BY <2>1, <2>2
  <2> QED BY <2>1, <2>3
<1>2. IsFiniteSet(S)
  BY FS_Interval
<1>3. S \in Good
  <2> HIDE DEF S, Good
  <2> QED BY <1>1, <1>2, SubsetInduction
<1> QED BY <1>3

(* Some number is the least.                                                         *)
LEMMA LeastNumber == ASSUME NEW S \in SUBSET Nat, S # {} PROVE \E x \in S : \A y \in S : x <= y
<1> DEFINE G == {n \in Nat : \A T \in SUBSET Nat : (\E x \in T : x <= n) => \E x \in T : \A y \in T : x <= y}
<1>1. 0 \in G
  <2>1. ASSUME NEW T \in SUBSET Nat, NEW x \in T, x <= 0 PROVE \A y \in T : x <= y
    BY <2>1
  <2> QED BY <2>1
<1>2. ASSUME NEW n \in Nat, n \in G PROVE n + 1 \in G
  <2>1. ASSUME NEW T \in SUBSET Nat, NEW z \in T, z <= n + 1 PROVE \E x \in T : \A y \in T : x <= y
    <3>1. CASE \E x \in T : x <= n
      BY <1>2, <3>1
    <3>2. CASE ~\E x \in T : x <= n
      <4>1. \A y \in T : z <= y
        BY <2>1, <3>2
      <4> QED BY <4>1
    <3> QED BY <3>1, <3>2
  <2> QED BY <2>1
<1>3. PICK s \in S : TRUE
  OBVIOUS
<1>4. s \in G
  <2> HIDE DEF G
  <2> QED BY <1>1, <1>2, NatInSet
<1> QED BY <1>4

-----------------------------------------------------------------------------
(* The fold and its steps *)

FirstOf(S) == CHOOSE x \in S : TRUE

\* it is the fold of f over S, as MapThenFoldSet defines it.
IsFold(it, f, S) ==
    it = [s \in SUBSET S |->
             IF s = {} THEN 0 ELSE f[FirstOf(s)] + it[s \ {FirstOf(s)}]]

\* A sum is a fold.
LEMMA SumUnfolded ==
    ASSUME NEW f, NEW S
    PROVE  SumFunctionOnSet(f, S) = (CHOOSE it : IsFold(it, f, S))[S]
BY DEF SumFunctionOnSet, FoldFunctionOnSet, MapThenFoldSet, IsFold, FirstOf

\* Two folds of f agree on their common subsets.
LEMMA FoldsAgree ==
    ASSUME NEW f, NEW S, NEW T, NEW i, NEW j, IsFold(i, f, S), IsFold(j, f, T),
           NEW U \in SUBSET (S \cap T), IsFiniteSet(U)
    PROVE  i[U] = j[U]
<1> DEFINE G == {V \in SUBSET U : i[V] = j[V]}
<1>1. ASSUME NEW V \in SUBSET U, \A W \in SUBSET V : W # V => W \in G
      PROVE  V \in G
  <2>1. CASE V = {}
      BY <2>1 DEF IsFold
  <2>2. CASE V # {}
    <3>1. FirstOf(V) \in V
        BY <2>2 DEF FirstOf
    <3>2. i[V \ {FirstOf(V)}] = j[V \ {FirstOf(V)}]
        BY <1>1, <3>1
    <3>3. i[V] = f[FirstOf(V)] + i[V \ {FirstOf(V)}]
        BY <2>2 DEF IsFold
    <3>4. j[V] = f[FirstOf(V)] + j[V \ {FirstOf(V)}]
        BY <2>2 DEF IsFold
    <3> QED BY <3>2, <3>3, <3>4
  <2> QED BY <2>1, <2>2
<1>2. U \in G
  <2> HIDE DEF G
  <2> QED BY <1>1, SubsetInduction
<1> QED BY <1>2

\* Where there is a fold, the sum of each finite part is its value.
LEMMA SumIsFold ==
    ASSUME NEW f, NEW S, IsFiniteSet(S), NEW i, IsFold(i, f, S)
    PROVE  SumFunctionOnSet(f, S) = i[S]
<1>1. IsFold(CHOOSE it : IsFold(it, f, S), f, S)
    OBVIOUS
<1> QED BY <1>1, SumUnfolded, FoldsAgree

\* The recursion of a sum: its first element, and the others.
LEMMA SumStep ==
    ASSUME NEW f, NEW S, IsFiniteSet(S)
    PROVE  SumFunctionOnSet(f, S) =
               IF S = {} THEN 0
               ELSE f[FirstOf(S)] + SumFunctionOnSet(f, S \ {FirstOf(S)})
<1> DEFINE Step(T) == IF T = {} THEN 0
                      ELSE f[FirstOf(T)] + SumFunctionOnSet(f, T \ {FirstOf(T)})
           G == {T \in SUBSET S : SumFunctionOnSet(f, T) = Step(T)}
<1>1. ASSUME NEW T \in SUBSET S, \A U \in SUBSET T : U # T => U \in G
      PROVE  T \in G
  <2> DEFINE i == [s \in SUBSET T |-> Step(s)]
  <2>1. ASSUME NEW s \in SUBSET T, s # {}
        PROVE  i[s \ {FirstOf(s)}] = SumFunctionOnSet(f, s \ {FirstOf(s)})
    <3>1. FirstOf(s) \in s
        BY <2>1 DEF FirstOf
    <3>2. s \ {FirstOf(s)} \in G /\ s \ {FirstOf(s)} \in SUBSET T
        BY <1>1, <3>1
    <3> QED BY <3>2
  <2>2. IsFold(i, f, T)
    <3>1. \A s \in SUBSET T :
              Step(s) = IF s = {} THEN 0 ELSE f[FirstOf(s)] + i[s \ {FirstOf(s)}]
        BY <2>1
    <3> QED BY <3>1 DEF IsFold
  <2>3. IsFiniteSet(T)
      BY FS_Subset
  <2>4. SumFunctionOnSet(f, T) = i[T]
    <3> HIDE DEF i
    <3> QED BY <2>2, <2>3, SumIsFold
  <2> QED BY <2>4
<1>2. S \in G
  <2> HIDE DEF G
  <2> QED BY <1>1, SubsetInduction
<1> QED BY <1>2

-----------------------------------------------------------------------------
(* What a sum does not depend on *)

\* Nothing adds up to nothing.
LEMMA SumEmpty == ASSUME NEW f PROVE SumFunctionOnSet(f, {}) = 0
BY SumStep, FS_EmptySet

\* Only the values on the set count.
LEMMA SumSame ==
    ASSUME NEW S, IsFiniteSet(S), NEW f, NEW g, \A x \in S : f[x] = g[x]
    PROVE  SumFunctionOnSet(f, S) = SumFunctionOnSet(g, S)
<1> DEFINE G == {T \in SUBSET S : SumFunctionOnSet(f, T) = SumFunctionOnSet(g, T)}
<1>1. ASSUME NEW T \in SUBSET S, \A U \in SUBSET T : U # T => U \in G
      PROVE  T \in G
  <2>1. IsFiniteSet(T)
      BY FS_Subset
  <2>2. CASE T = {}
      BY <2>2, SumEmpty
  <2>3. CASE T # {}
    <3>1. FirstOf(T) \in T
        BY <2>3 DEF FirstOf
    <3>2. SumFunctionOnSet(f, T \ {FirstOf(T)}) = SumFunctionOnSet(g, T \ {FirstOf(T)})
        BY <1>1, <3>1
    <3>3. f[FirstOf(T)] = g[FirstOf(T)]
        BY <3>1
    <3> QED BY <2>1, <2>3, <3>2, <3>3, SumStep
  <2> QED BY <2>2, <2>3
<1>2. S \in G
  <2> HIDE DEF G
  <2> QED BY <1>1, SubsetInduction
<1> QED BY <1>2

\* A sum of integers is an integer.
LEMMA SumInt ==
    ASSUME NEW S, IsFiniteSet(S), NEW f, \A x \in S : f[x] \in Int
    PROVE  SumFunctionOnSet(f, S) \in Int
<1> DEFINE G == {T \in SUBSET S : SumFunctionOnSet(f, T) \in Int}
<1>1. ASSUME NEW T \in SUBSET S, \A U \in SUBSET T : U # T => U \in G
      PROVE  T \in G
  <2>1. IsFiniteSet(T)
      BY FS_Subset
  <2>2. CASE T = {}
      BY <2>2, SumEmpty
  <2>3. CASE T # {}
    <3>1. FirstOf(T) \in T
        BY <2>3 DEF FirstOf
    <3>2. SumFunctionOnSet(f, T \ {FirstOf(T)}) \in Int
        BY <1>1, <3>1
    <3>3. f[FirstOf(T)] \in Int
        BY <3>1
    <3> QED BY <2>1, <2>3, <3>2, <3>3, SumStep
  <2> QED BY <2>2, <2>3
<1>2. S \in G
  <2> HIDE DEF G
  <2> QED BY <1>1, SubsetInduction
<1> QED BY <1>2

\* Any element may be the first.
LEMMA SumRemove ==
    ASSUME NEW S, IsFiniteSet(S), NEW f, \A x \in S : f[x] \in Int, NEW x \in S
    PROVE  SumFunctionOnSet(f, S) = f[x] + SumFunctionOnSet(f, S \ {x})
<1> DEFINE Any(T) == \A y \in T :
               SumFunctionOnSet(f, T) = f[y] + SumFunctionOnSet(f, T \ {y})
           G == {T \in SUBSET S : Any(T)}
<1>1. ASSUME NEW T \in SUBSET S, \A U \in SUBSET T : U # T => U \in G
      PROVE  T \in G
  <2> SUFFICES ASSUME NEW y \in T
               PROVE  SumFunctionOnSet(f, T) = f[y] + SumFunctionOnSet(f, T \ {y})
      OBVIOUS
  <2> DEFINE z == FirstOf(T)
  <2>1. z \in T
      BY DEF FirstOf
  <2>2. IsFiniteSet(T) /\ IsFiniteSet(T \ {y, z})
      BY FS_Subset
  <2>3. SumFunctionOnSet(f, T) = f[z] + SumFunctionOnSet(f, T \ {z})
      BY <2>2, SumStep
  <2> HIDE DEF z
  <2>4. CASE y = z
      BY <2>3, <2>4
  <2>5. CASE y # z
    <3>1. T \ {z} \in G /\ T \ {y} \in G
        BY <1>1, <2>1
    <3>2. SumFunctionOnSet(f, T \ {z}) = f[y] + SumFunctionOnSet(f, (T \ {z}) \ {y})
        BY <2>5, <3>1
    <3>3. SumFunctionOnSet(f, T \ {y}) = f[z] + SumFunctionOnSet(f, (T \ {y}) \ {z})
        BY <2>1, <2>5, <3>1
    <3>4. (T \ {z}) \ {y} = T \ {y, z} /\ (T \ {y}) \ {z} = T \ {y, z}
        OBVIOUS
    <3>5. SumFunctionOnSet(f, T \ {y, z}) \in Int /\ f[y] \in Int /\ f[z] \in Int
        BY <2>1, <2>2, SumInt
    <3>6. /\ SumFunctionOnSet(f, T \ {z}) = f[y] + SumFunctionOnSet(f, T \ {y, z})
          /\ SumFunctionOnSet(f, T \ {y}) = f[z] + SumFunctionOnSet(f, T \ {y, z})
        BY <3>2, <3>3, <3>4
    <3> QED BY <2>3, <3>5, <3>6
  <2> QED BY <2>4, <2>5
<1>2. S \in G
  <2> HIDE DEF G
  <2> QED BY <1>1, SubsetInduction
<1> QED BY <1>2

\* A sum of natural numbers is one.
LEMMA SumNat ==
    ASSUME NEW S, IsFiniteSet(S), NEW f, \A x \in S : f[x] \in Nat
    PROVE  SumFunctionOnSet(f, S) \in Nat
<1> DEFINE G == {T \in SUBSET S : SumFunctionOnSet(f, T) \in Nat}
<1>1. ASSUME NEW T \in SUBSET S, \A U \in SUBSET T : U # T => U \in G
      PROVE  T \in G
  <2>1. IsFiniteSet(T)
      BY FS_Subset
  <2>2. CASE T = {}
      BY <2>2, SumEmpty
  <2>3. CASE T # {}
    <3>1. FirstOf(T) \in T
        BY <2>3 DEF FirstOf
    <3>2. SumFunctionOnSet(f, T \ {FirstOf(T)}) \in Nat
        BY <1>1, <3>1
    <3>3. f[FirstOf(T)] \in Nat
        BY <3>1
    <3> QED BY <2>1, <2>3, <3>2, <3>3, SumStep
  <2> QED BY <2>2, <2>3
<1>2. S \in G
  <2> HIDE DEF G
  <2> QED BY <1>1, SubsetInduction
<1> QED BY <1>2

-----------------------------------------------------------------------------
(* Sums of other functions and other sets *)

\* A function that changes at one element changes its sum by as much.
LEMMA SumUpdate ==
    ASSUME NEW S, IsFiniteSet(S), NEW f, NEW g, NEW x \in S,
           \A y \in S : f[y] \in Int /\ g[y] \in Int,
           \A y \in S \ {x} : g[y] = f[y]
    PROVE  SumFunctionOnSet(g, S) = SumFunctionOnSet(f, S) + (g[x] - f[x])
<1>1. IsFiniteSet(S \ {x})
    BY FS_Subset
<1>2. SumFunctionOnSet(g, S \ {x}) = SumFunctionOnSet(f, S \ {x})
    BY <1>1, SumSame
<1>3. SumFunctionOnSet(f, S \ {x}) \in Int
    BY <1>1, SumInt
<1>4. /\ SumFunctionOnSet(f, S) = f[x] + SumFunctionOnSet(f, S \ {x})
      /\ SumFunctionOnSet(g, S) = g[x] + SumFunctionOnSet(g, S \ {x})
    BY SumRemove
<1> QED BY <1>2, <1>3, <1>4

\* Two sums over one set may be added element by element.
LEMMA SumPlus ==
    ASSUME NEW S, IsFiniteSet(S), NEW f, NEW g, NEW h,
           \A x \in S : f[x] \in Int /\ g[x] \in Int /\ h[x] = f[x] + g[x]
    PROVE  SumFunctionOnSet(h, S) = SumFunctionOnSet(f, S) + SumFunctionOnSet(g, S)
<1> DEFINE G == {T \in SUBSET S :
                    SumFunctionOnSet(h, T) = SumFunctionOnSet(f, T) + SumFunctionOnSet(g, T)}
<1>1. ASSUME NEW T \in SUBSET S, \A U \in SUBSET T : U # T => U \in G
      PROVE  T \in G
  <2>1. IsFiniteSet(T)
      BY FS_Subset
  <2>2. CASE T = {}
      BY <2>2, SumEmpty
  <2>3. CASE T # {}
    <3> DEFINE z == FirstOf(T)
    <3>1. z \in T
        BY <2>3 DEF FirstOf
    <3>2. /\ SumFunctionOnSet(f, T) = f[z] + SumFunctionOnSet(f, T \ {z})
          /\ SumFunctionOnSet(g, T) = g[z] + SumFunctionOnSet(g, T \ {z})
          /\ SumFunctionOnSet(h, T) = h[z] + SumFunctionOnSet(h, T \ {z})
        BY <2>1, <2>3, SumStep
    <3> HIDE DEF z
    <3>3. SumFunctionOnSet(h, T \ {z})
              = SumFunctionOnSet(f, T \ {z}) + SumFunctionOnSet(g, T \ {z})
        BY <1>1, <3>1
    <3>4. IsFiniteSet(T \ {z})
        BY FS_Subset
    <3>5. SumFunctionOnSet(f, T \ {z}) \in Int /\ SumFunctionOnSet(g, T \ {z}) \in Int
        BY <3>4, SumInt
    <3>6. f[z] \in Int /\ g[z] \in Int /\ h[z] = f[z] + g[z]
        BY <3>1
    <3> QED BY <3>2, <3>3, <3>5, <3>6
  <2> QED BY <2>2, <2>3
<1>2. S \in G
  <2> HIDE DEF G
  <2> QED BY <1>1, SubsetInduction
<1> QED BY <1>2

\* A sum is the sum over a part of the set and the sum over the rest.
LEMMA SumSplit ==
    ASSUME NEW S, IsFiniteSet(S), NEW R \in SUBSET S, NEW f, \A x \in S : f[x] \in Int
    PROVE  SumFunctionOnSet(f, S) = SumFunctionOnSet(f, R) + SumFunctionOnSet(f, S \ R)
<1> DEFINE G == {T \in SUBSET S :
                    SumFunctionOnSet(f, T)
                        = SumFunctionOnSet(f, T \cap R) + SumFunctionOnSet(f, T \ R)}
<1>1. ASSUME NEW T \in SUBSET S, \A U \in SUBSET T : U # T => U \in G
      PROVE  T \in G
  <2>1. IsFiniteSet(T) /\ IsFiniteSet(T \cap R) /\ IsFiniteSet(T \ R)
      BY FS_Subset
  <2>2. CASE T = {}
    <3>1. T \cap R = {} /\ T \ R = {}
        BY <2>2
    <3> QED BY <2>2, <3>1, SumEmpty
  <2>3. CASE T # {}
    <3> DEFINE z == FirstOf(T)
    <3>1. z \in T
        BY <2>3 DEF FirstOf
    <3>2. SumFunctionOnSet(f, T) = f[z] + SumFunctionOnSet(f, T \ {z})
        BY <2>1, <2>3, SumStep
    <3> HIDE DEF z
    <3>3. SumFunctionOnSet(f, T \ {z})
              = SumFunctionOnSet(f, (T \ {z}) \cap R) + SumFunctionOnSet(f, (T \ {z}) \ R)
        BY <1>1, <3>1
    <3>4. f[z] \in Int /\ SumFunctionOnSet(f, T \cap R) \in Int /\ SumFunctionOnSet(f, T \ R) \in Int
        BY <2>1, <3>1, SumInt
    <3>5. CASE z \in R
      <4>1. (T \ {z}) \cap R = (T \cap R) \ {z} /\ (T \ {z}) \ R = T \ R
          BY <3>5
      <4>2. SumFunctionOnSet(f, T \cap R) = f[z] + SumFunctionOnSet(f, (T \cap R) \ {z})
          BY <2>1, <3>1, <3>5, SumRemove
      <4>3. SumFunctionOnSet(f, (T \cap R) \ {z}) \in Int
        <5>1. IsFiniteSet((T \cap R) \ {z})
            BY <2>1, FS_RemoveElement
        <5> QED BY <5>1, SumInt
      <4>4. SumFunctionOnSet(f, T \ {z})
                = SumFunctionOnSet(f, (T \cap R) \ {z}) + SumFunctionOnSet(f, T \ R)
          BY <3>3, <4>1
      <4> QED BY <3>2, <3>4, <4>2, <4>3, <4>4
    <3>6. CASE z \notin R
      <4>1. (T \ {z}) \cap R = T \cap R /\ (T \ {z}) \ R = (T \ R) \ {z}
          BY <3>6
      <4>2. SumFunctionOnSet(f, T \ R) = f[z] + SumFunctionOnSet(f, (T \ R) \ {z})
          BY <2>1, <3>1, <3>6, SumRemove
      <4>3. SumFunctionOnSet(f, (T \ R) \ {z}) \in Int
        <5>1. IsFiniteSet((T \ R) \ {z})
            BY <2>1, FS_RemoveElement
        <5> QED BY <5>1, SumInt
      <4>4. SumFunctionOnSet(f, T \ {z})
                = SumFunctionOnSet(f, T \cap R) + SumFunctionOnSet(f, (T \ R) \ {z})
          BY <3>3, <4>1
      <4> QED BY <3>2, <3>4, <4>2, <4>3, <4>4
    <3> QED BY <3>5, <3>6
  <2> QED BY <2>2, <2>3
<1>2. S \in G
  <2> HIDE DEF G
  <2> QED BY <1>1, SubsetInduction
<1>3. S \cap R = R
    OBVIOUS
<1> QED BY <1>2, <1>3

\* Zeros add up to zero.
LEMMA SumZeros ==
    ASSUME NEW S, IsFiniteSet(S), NEW f, \A x \in S : f[x] = 0
    PROVE  SumFunctionOnSet(f, S) = 0
<1> DEFINE G == {T \in SUBSET S : SumFunctionOnSet(f, T) = 0}
<1>1. ASSUME NEW T \in SUBSET S, \A U \in SUBSET T : U # T => U \in G
      PROVE  T \in G
  <2>1. IsFiniteSet(T)
      BY FS_Subset
  <2>2. CASE T = {}
      BY <2>2, SumEmpty
  <2>3. CASE T # {}
    <3>1. FirstOf(T) \in T
        BY <2>3 DEF FirstOf
    <3>2. SumFunctionOnSet(f, T \ {FirstOf(T)}) = 0 /\ f[FirstOf(T)] = 0
        BY <1>1, <3>1
    <3> QED BY <2>1, <2>3, <3>2, SumStep
  <2> QED BY <2>2, <2>3
<1>2. S \in G
  <2> HIDE DEF G
  <2> QED BY <1>1, SubsetInduction
<1> QED BY <1>2

\* Elements with the value 0 may be left out.
LEMMA SumLeaveZeros ==
    ASSUME NEW S, IsFiniteSet(S), NEW R \in SUBSET S, NEW f,
           \A x \in S : f[x] \in Int, \A x \in S \ R : f[x] = 0
    PROVE  SumFunctionOnSet(f, S) = SumFunctionOnSet(f, R)
<1>1. IsFiniteSet(R) /\ IsFiniteSet(S \ R)
    BY FS_Subset
<1>2. SumFunctionOnSet(f, S \ R) = 0
    BY <1>1, SumZeros
<1>3. SumFunctionOnSet(f, R) \in Int
    BY <1>1, SumInt
<1> QED BY <1>2, <1>3, SumSplit

\* More elements, and larger values, do not make a smaller sum.
LEMMA SumMonotone ==
    ASSUME NEW S, IsFiniteSet(S), NEW R \in SUBSET S, NEW f, NEW g,
           \A x \in S : f[x] \in Nat /\ g[x] \in Nat /\ f[x] <= g[x]
    PROVE  SumFunctionOnSet(f, R) <= SumFunctionOnSet(g, S)
<1>1. IsFiniteSet(R) /\ IsFiniteSet(S \ R)
    BY FS_Subset
<1> DEFINE d == [x \in S |-> g[x] - f[x]]
<1>2. SumFunctionOnSet(g, R) = SumFunctionOnSet(f, R) + SumFunctionOnSet(d, R)
  <2>1. \A x \in R : f[x] \in Int /\ d[x] \in Int /\ g[x] = f[x] + d[x]
      OBVIOUS
  <2> HIDE DEF d
  <2> QED BY <1>1, <2>1, SumPlus
<1>3. SumFunctionOnSet(d, R) \in Nat /\ SumFunctionOnSet(g, S \ R) \in Nat
      /\ SumFunctionOnSet(f, R) \in Nat
  <2>1. \A x \in R : d[x] \in Nat
      OBVIOUS
  <2> HIDE DEF d
  <2> QED BY <1>1, <2>1, SumNat
<1>4. SumFunctionOnSet(g, S) = SumFunctionOnSet(g, R) + SumFunctionOnSet(g, S \ R)
    BY SumSplit
<1> HIDE DEF d
<1> QED BY <1>2, <1>3, <1>4

\* Adding up by groups: key[x] says to which group x belongs, and g[m] is the
\* sum of the group m.
GroupOf(S, key, m) == {x \in S : key[x] = m}

LEMMA SumGroups ==
    ASSUME NEW S, IsFiniteSet(S), NEW M, IsFiniteSet(M), NEW f, NEW g, NEW key,
           \A x \in S : key[x] \in M /\ f[x] \in Int,
           \A m \in M : g[m] = SumFunctionOnSet(f, GroupOf(S, key, m))
    PROVE  SumFunctionOnSet(g, M) = SumFunctionOnSet(f, S)
<1> DEFINE Group(T, m) == GroupOf(T, key, m)
           Sums(T) == [m \in M |-> SumFunctionOnSet(f, Group(T, m))]
           G == {T \in SUBSET S : SumFunctionOnSet(Sums(T), M) = SumFunctionOnSet(f, T)}
<1>1. ASSUME NEW T \in SUBSET S, \A U \in SUBSET T : U # T => U \in G
      PROVE  T \in G
  <2>1. IsFiniteSet(T)
      BY FS_Subset
  <2>2. CASE T = {}
    <3>1. \A m \in M : Group(T, m) = {}
        BY <2>2 DEF GroupOf
    <3>2. \A m \in M : Sums(T)[m] = 0
        BY <3>1, SumEmpty
    <3>3. SumFunctionOnSet(Sums(T), M) = 0
      <4> HIDE DEF Sums
      <4> QED BY <3>2, SumZeros
    <3> QED BY <2>2, <3>3, SumEmpty
  <2>3. CASE T # {}
    <3>1. PICK z \in T : TRUE
        BY <2>3
    <3> DEFINE R == T \ {z}
               k == key[z]
    <3>2. SumFunctionOnSet(Sums(R), M) = SumFunctionOnSet(f, R) /\ IsFiniteSet(R)
        BY <1>1, <2>1, FS_RemoveElement
    <3>3. SumFunctionOnSet(f, T) = f[z] + SumFunctionOnSet(f, R)
        BY <2>1, SumRemove
    <3>4. \A m \in M : IsFiniteSet(Group(T, m)) /\ IsFiniteSet(Group(R, m))
        BY <2>1, <3>2, FS_Subset DEF GroupOf
    <3>5. \A m \in M : Sums(T)[m] \in Int /\ Sums(R)[m] \in Int
      <4> SUFFICES ASSUME NEW m \in M
                   PROVE  /\ SumFunctionOnSet(f, Group(T, m)) \in Int
                          /\ SumFunctionOnSet(f, Group(R, m)) \in Int
          OBVIOUS
      <4>1. \A x \in Group(T, m) : f[x] \in Int
          BY DEF GroupOf
      <4>2. \A x \in Group(R, m) : f[x] \in Int
          BY DEF GroupOf
      <4> HIDE DEF Group
      <4> QED BY <3>4, <4>1, <4>2, SumInt
    <3>6. \A m \in M \ {k} : Sums(T)[m] = Sums(R)[m]
      <4>1. \A m \in M \ {k} : Group(T, m) = Group(R, m)
          BY DEF GroupOf
      <4> QED BY <4>1
    <3>7. k \in M /\ Sums(T)[k] = f[z] + Sums(R)[k]
      <4>1. k \in M /\ z \in Group(T, k) /\ Group(T, k) \ {z} = Group(R, k)
          BY DEF GroupOf
      <4>2. \A x \in Group(T, k) : f[x] \in Int
          BY DEF GroupOf
      <4> HIDE DEF Group
      <4>3. SumFunctionOnSet(f, Group(T, k))
                = f[z] + SumFunctionOnSet(f, Group(T, k) \ {z})
          BY <3>4, <4>1, <4>2, SumRemove
      <4> QED BY <4>1, <4>3
    <3> HIDE DEF Sums, R, k
    <3>8. SumFunctionOnSet(Sums(T), M)
              = SumFunctionOnSet(Sums(R), M) + (Sums(T)[k] - Sums(R)[k])
      <4> DEFINE a == Sums(T)
                 b == Sums(R)
      <4>1. \A m \in M : b[m] \in Int /\ a[m] \in Int
          BY <3>5
      <4>2. \A m \in M \ {k} : a[m] = b[m]
          BY <3>6
      <4>3. k \in M
          BY <3>7
      <4> HIDE DEF a, b
      <4>4. SumFunctionOnSet(a, M) = SumFunctionOnSet(b, M) + (a[k] - b[k])
          BY <4>1, <4>2, <4>3, SumUpdate
      <4> QED BY <4>4 DEF a, b
    <3>9. SumFunctionOnSet(f, R) \in Int /\ f[z] \in Int /\ Sums(R)[k] \in Int
      <4>1. \A x \in R : f[x] \in Int
          BY DEF R
      <4> QED BY <3>2, <3>5, <3>7, <4>1, SumInt
    <3>10. SumFunctionOnSet(Sums(T), M) = SumFunctionOnSet(f, T)
        BY <3>2, <3>3, <3>7, <3>8, <3>9
    <3> QED BY <3>10 DEF G
  <2> QED BY <2>2, <2>3
<1>2. S \in G
  <2> HIDE DEF G
  <2> QED BY <1>1, SubsetInduction
<1>3. SumFunctionOnSet(Sums(S), M) = SumFunctionOnSet(g, M)
  <2>1. \A m \in M : Sums(S)[m] = g[m]
      OBVIOUS
  <2> HIDE DEF Sums
  <2> QED BY <2>1, SumSame
<1> QED BY <1>2, <1>3
=============================================================================
