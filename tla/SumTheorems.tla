----------------------------- MODULE SumTheorems -----------------------------
(***************************************************************************)
(* Sums of an integer function over a finite set of indices: that the      *)
(* recursion SumFunctionOnSet is defined by has a solution, and that the   *)
(* sum does not depend on the order in which the indices are taken; and    *)
(* pairs counted by their members.                                         *)
(* Everything is derived from the absence of infinite descending chains of *)
(* finite sets, by the least counterexample.                               *)
(***************************************************************************)
EXTENDS Integers, FiniteSets, Sequences, Functions, FiniteSetTheorems, SequenceTheorems, TLAPS

(***************************************************************************)
(* Induction over the subsets of a finite set                              *)
(***************************************************************************)

\* A nonempty collection of subsets of a finite set has a member without a proper subset in it.
LEMMA LeastSubset ==
  ASSUME NEW S, IsFiniteSet(S), NEW B \in SUBSET (SUBSET S), B # {}
  PROVE  \E X \in B : \A Y \in B : Y \subseteq X => Y = X
  <1>1. B \subseteq FiniteSubsetsOf(S)
    BY FS_FiniteSubsetsOfFinite
  <1>2. IsWellFoundedOn(StrictSubsetOrdering(S), FiniteSubsetsOf(S))
    BY FS_StrictSubsetOrderingWellFounded
  <1>3. PICK X \in B : \A Y \in B : ~ (<<Y, X>> \in StrictSubsetOrdering(S))
    BY <1>1, <1>2, WFMin
  <1>4. ASSUME NEW Y \in B, Y \subseteq X PROVE Y = X
    BY <1>3, <1>4 DEF StrictSubsetOrdering
  <1> QED BY <1>3, <1>4

\* What holds of the empty set, and of a subset with one more element if it holds of the subset, holds of the set.
LEMMA SubsetInduction ==
  ASSUME NEW S, IsFiniteSet(S), NEW G, {} \in G,
         \A T \in SUBSET S, x \in S : T \in G => T \cup {x} \in G
  PROVE  S \in G
  <1> DEFINE B == (SUBSET S) \ G
  <1> SUFFICES ASSUME S \notin G PROVE FALSE
    OBVIOUS
  <1>1. PICK X \in B : \A Y \in B : Y \subseteq X => Y = X
    <2>1. B \in SUBSET (SUBSET S) /\ B # {}
      OBVIOUS
    <2> HIDE DEF B
    <2> QED BY <2>1, LeastSubset
  <1>2. PICK x \in X : TRUE
    BY <1>1
  <1>3. X \ {x} \notin B
    BY <1>1, <1>2
  <1>4. X \ {x} \in G /\ X \ {x} \in SUBSET S /\ x \in S
    BY <1>1, <1>2, <1>3
  <1>5. (X \ {x}) \cup {x} \in G
    BY <1>4
  <1>6. (X \ {x}) \cup {x} = X
    BY <1>2
  <1> QED BY <1>1, <1>5, <1>6

(***************************************************************************)
(* Induction along a sequence                                              *)
(***************************************************************************)

\* What holds of 0, and of n + 1 if it holds of n, holds up to any number.
LEMMA Climb ==
  ASSUME NEW N \in Nat, NEW G, 0 \in G, \A n \in 0..(N - 1) : n \in G => n + 1 \in G
  PROVE  \A n \in 0..N : n \in G
  <1> SUFFICES ASSUME NEW b \in 0..N, b \notin G PROVE FALSE
    OBVIOUS
  <1> DEFINE B == {1..n : n \in {n \in 0..N : n \notin G}}
  <1>1. IsFiniteSet(1..N) /\ B \in SUBSET (SUBSET (1..N)) /\ B # {}
    <2>1. IsFiniteSet(1..N)
      BY FS_Interval
    <2>2. (1..b) \in B
      OBVIOUS
    <2>3. \A n \in 0..N : (1..n) \subseteq (1..N)
      OBVIOUS
    <2> QED BY <2>1, <2>2, <2>3
  <1>2. PICK X \in B : \A Y \in B : Y \subseteq X => Y = X
    <2> DEFINE S == 1..N
    <2>1. IsFiniteSet(S) /\ B \in SUBSET (SUBSET S) /\ B # {}
      BY <1>1
    <2> HIDE DEF B, S
    <2> QED BY <2>1, LeastSubset
  <1>3. PICK n \in 0..N : n \notin G /\ X = 1..n
    BY <1>2
  <1>4. n \in Nat /\ n # 0
    BY <1>3
  <1>5. n - 1 \in 0..(N - 1) /\ (n - 1) + 1 = n
    BY <1>3, <1>4
  <1>6. n - 1 \notin G
    BY <1>3, <1>5
  <1>7. (1..(n - 1)) \in B
    BY <1>5, <1>6
  <1>8. (1..(n - 1)) \subseteq X /\ n \in X /\ n \notin (1..(n - 1))
    BY <1>3, <1>4
  <1>9. (1..(n - 1)) = X
    <2> HIDE DEF B
    <2> QED BY <1>2, <1>7, <1>8
  <1> QED BY <1>8, <1>9

(***************************************************************************)
(* The recursion                                                           *)
(***************************************************************************)

AnyOf(s) == CHOOSE x \in s : TRUE

\* One step of the recursion, given what it returns on smaller sets.
SumStep(f, g, s) == IF s = {} THEN 0 ELSE f[AnyOf(s)] + g[s \ {AnyOf(s)}]

\* g solves the recursion on the collection C of sets.
Solves(g, f, C) == g = [s \in C |-> SumStep(f, g, s)]

LEMMA AnyIsMember == ASSUME NEW s, s # {} PROVE AnyOf(s) \in s
  BY DEF AnyOf

SubsetsUpTo(S, n) == {s \in SUBSET S : Cardinality(s) <= n}

LEMMA SolutionGrows ==
  ASSUME NEW S, IsFiniteSet(S), NEW f, NEW n \in Nat, NEW g, Solves(g, f, SubsetsUpTo(S, n))
  PROVE  \E h : Solves(h, f, SubsetsUpTo(S, n + 1))
  <1> DEFINE h == [s \in SubsetsUpTo(S, n + 1) |-> SumStep(f, g, s)]
  <1>1. ASSUME NEW s \in SubsetsUpTo(S, n) PROVE s \in SubsetsUpTo(S, n + 1) /\ h[s] = g[s]
    <2>1. s \in SubsetsUpTo(S, n + 1)
      <3>1. IsFiniteSet(s) /\ Cardinality(s) \in Nat
        BY FS_Subset, FS_CardinalityType DEF SubsetsUpTo
      <3> QED BY <3>1 DEF SubsetsUpTo
    <2>2. g[s] = SumStep(f, g, s)
      BY DEF Solves
    <2> QED BY <2>1, <2>2
  <1>2. ASSUME NEW s \in SubsetsUpTo(S, n + 1) PROVE SumStep(f, h, s) = SumStep(f, g, s)
    <2>1. CASE s = {}
      BY <2>1 DEF SumStep
    <2>2. CASE s # {}
      <3>1. AnyOf(s) \in s /\ s \in SUBSET S /\ IsFiniteSet(s)
        BY <2>2, AnyIsMember, FS_Subset DEF SubsetsUpTo
      <3>2. Cardinality(s \ {AnyOf(s)}) = Cardinality(s) - 1 /\ Cardinality(s) \in Nat
        BY <3>1, FS_RemoveElement, FS_CardinalityType
      <3>3. s \ {AnyOf(s)} \in SubsetsUpTo(S, n)
        BY <3>1, <3>2 DEF SubsetsUpTo
      <3> QED BY <2>2, <3>3, <1>1 DEF SumStep
    <2> QED BY <2>1, <2>2
  <1>3. h = [s \in SubsetsUpTo(S, n + 1) |-> SumStep(f, h, s)]
    BY <1>2
  <1> QED BY <1>3 DEF Solves

\* The recursion has a solution on the subsets of a finite set.
LEMMA SolutionExists ==
  ASSUME NEW S, IsFiniteSet(S), NEW f
  PROVE  \E g : Solves(g, f, SUBSET S)
  <1> DEFINE G == {T \in SUBSET S : \E g : Solves(g, f, SubsetsUpTo(S, Cardinality(T)))}
  <1>1. {} \in G
    <2> DEFINE g == [s \in SubsetsUpTo(S, 0) |-> 0]
    <2>1. \A s \in SubsetsUpTo(S, 0) : s = {}
      <3> SUFFICES ASSUME NEW s \in SubsetsUpTo(S, 0) PROVE s = {}
        OBVIOUS
      <3>1. IsFiniteSet(s) /\ Cardinality(s) \in Nat /\ Cardinality(s) <= 0
        BY FS_Subset, FS_CardinalityType DEF SubsetsUpTo
      <3> QED BY <3>1, FS_EmptySet
    <2>2. g = [s \in SubsetsUpTo(S, 0) |-> SumStep(f, g, s)]
      BY <2>1 DEF SumStep
    <2>3. Solves(g, f, SubsetsUpTo(S, 0))
      BY <2>2 DEF Solves
    <2> QED BY <2>3, FS_EmptySet
  <1>2. ASSUME NEW T \in SUBSET S, NEW x \in S, T \in G PROVE T \cup {x} \in G
    <2>1. IsFiniteSet(T) /\ Cardinality(T) \in Nat
      BY FS_Subset, FS_CardinalityType
    <2>2. Cardinality(T \cup {x}) \in {Cardinality(T), Cardinality(T) + 1}
      BY <2>1, FS_AddElement
    <2>3. \E g : Solves(g, f, SubsetsUpTo(S, Cardinality(T)))
      BY <1>2
    <2>4. \E g : Solves(g, f, SubsetsUpTo(S, Cardinality(T) + 1))
      BY <2>1, <2>3, SolutionGrows
    <2> QED BY <2>2, <2>3, <2>4
  <1>3. S \in G
    <2> HIDE DEF G
    <2> QED BY <1>1, <1>2, SubsetInduction
  <1>4. SubsetsUpTo(S, Cardinality(S)) = SUBSET S
    BY FS_Subset DEF SubsetsUpTo
  <1> QED BY <1>3, <1>4

\* Two solutions agree wherever both are defined.
LEMMA SolutionsAgree ==
  ASSUME NEW S, IsFiniteSet(S), NEW T \in SUBSET S, NEW f, NEW g, NEW h,
         Solves(g, f, SUBSET S), Solves(h, f, SUBSET T)
  PROVE  g[T] = h[T]
  <1> DEFINE B == {s \in SUBSET T : g[s] # h[s]}
  <1> SUFFICES ASSUME B # {} PROVE FALSE
    OBVIOUS
  <1>1. IsFiniteSet(T)
    BY FS_Subset
  <1>2. PICK X \in B : \A Y \in B : Y \subseteq X => Y = X
    <2>1. B \in SUBSET (SUBSET T)
      OBVIOUS
    <2> HIDE DEF B
    <2> QED BY <1>1, <2>1, LeastSubset
  <1>3. g[X] = SumStep(f, g, X) /\ h[X] = SumStep(f, h, X)
    BY <1>2 DEF Solves
  <1>4. X # {} /\ AnyOf(X) \in X
    BY <1>2, <1>3, AnyIsMember DEF SumStep
  <1>5. X \ {AnyOf(X)} \notin B
    BY <1>2, <1>4
  <1>6. g[X \ {AnyOf(X)}] = h[X \ {AnyOf(X)}]
    BY <1>2, <1>5
  <1> QED BY <1>2, <1>3, <1>4, <1>6 DEF SumStep

Solution(f, S) == CHOOSE g : Solves(g, f, SUBSET S)

LEMMA SolutionSolves ==
  ASSUME NEW S, IsFiniteSet(S), NEW f
  PROVE  Solves(Solution(f, S), f, SUBSET S)
  BY SolutionExists DEF Solution

\* The sum is what the solution returns on the whole set.
LEMMA SumIsSolution == \A f, S : SumFunctionOnSet(f, S) = Solution(f, S)[S]
  BY DEF SumFunctionOnSet, FoldFunctionOnSet, MapThenFoldSet, Solution, Solves, SumStep, AnyOf

(***************************************************************************)
(* Facts to cite                                                           *)
(***************************************************************************)

LEMMA SumOfNothing == \A f : SumFunctionOnSet(f, {}) = 0
  <1> SUFFICES ASSUME NEW f PROVE SumFunctionOnSet(f, {}) = 0
    OBVIOUS
  <1>1. Solves(Solution(f, {}), f, SUBSET {})
    BY SolutionSolves, FS_EmptySet
  <1>2. Solution(f, {})[{}] = 0
    BY <1>1 DEF Solves, SumStep
  <1> QED BY <1>2, SumIsSolution

\* The sum takes the indices in the order in which CHOOSE picks them.
LEMMA SumPicks ==
  ASSUME NEW S, IsFiniteSet(S), S # {}, NEW f
  PROVE  SumFunctionOnSet(f, S) = f[AnyOf(S)] + SumFunctionOnSet(f, S \ {AnyOf(S)})
  <1> DEFINE T == S \ {AnyOf(S)}
  <1>1. IsFiniteSet(T) /\ T \in SUBSET S
    BY FS_Subset
  <1>2. Solves(Solution(f, S), f, SUBSET S) /\ Solves(Solution(f, T), f, SUBSET T)
    BY <1>1, SolutionSolves
  <1>3. Solution(f, S)[S] = f[AnyOf(S)] + Solution(f, S)[T]
    BY <1>2 DEF Solves, SumStep
  <1>4. Solution(f, S)[T] = Solution(f, T)[T]
    <2> HIDE DEF T
    <2> QED BY <1>1, <1>2, SolutionsAgree
  <1> QED BY <1>3, <1>4, SumIsSolution

\* A sum of integers is an integer.
LEMMA SumType ==
  ASSUME NEW S, IsFiniteSet(S), NEW f, \A x \in S : f[x] \in Int
  PROVE  SumFunctionOnSet(f, S) \in Int
  <1> DEFINE B == {s \in SUBSET S : SumFunctionOnSet(f, s) \notin Int}
  <1> SUFFICES ASSUME B # {} PROVE FALSE
    OBVIOUS
  <1>1. PICK X \in B : \A Y \in B : Y \subseteq X => Y = X
    <2>1. B \in SUBSET (SUBSET S)
      OBVIOUS
    <2> HIDE DEF B
    <2> QED BY <2>1, LeastSubset
  <1>2. X # {} /\ AnyOf(X) \in X /\ IsFiniteSet(X)
    <2>1. SumFunctionOnSet(f, {}) \in Int
      BY SumOfNothing
    <2>2. X \in SUBSET S /\ X # {}
      BY <1>1, <2>1
    <2> QED BY <2>2, AnyIsMember, FS_Subset
  <1>3. X \ {AnyOf(X)} \notin B
    BY <1>1, <1>2
  <1>4. SumFunctionOnSet(f, X \ {AnyOf(X)}) \in Int /\ f[AnyOf(X)] \in Int
    BY <1>1, <1>2, <1>3
  <1>5. SumFunctionOnSet(f, X) = f[AnyOf(X)] + SumFunctionOnSet(f, X \ {AnyOf(X)})
    BY <1>2, SumPicks
  <1> QED BY <1>1, <1>4, <1>5

\* A sum of natural numbers is one.
LEMMA SumNat ==
  ASSUME NEW S, IsFiniteSet(S), NEW f, \A x \in S : f[x] \in Nat
  PROVE  SumFunctionOnSet(f, S) \in Nat
  <1> DEFINE B == {s \in SUBSET S : SumFunctionOnSet(f, s) \notin Nat}
  <1> SUFFICES ASSUME B # {} PROVE FALSE
    OBVIOUS
  <1>1. PICK X \in B : \A Y \in B : Y \subseteq X => Y = X
    <2>1. B \in SUBSET (SUBSET S)
      OBVIOUS
    <2> HIDE DEF B
    <2> QED BY <2>1, LeastSubset
  <1>2. X # {} /\ AnyOf(X) \in X /\ IsFiniteSet(X)
    <2>1. SumFunctionOnSet(f, {}) \in Nat
      BY SumOfNothing
    <2>2. X \in SUBSET S /\ X # {}
      BY <1>1, <2>1
    <2> QED BY <2>2, AnyIsMember, FS_Subset
  <1>3. X \ {AnyOf(X)} \notin B
    BY <1>1, <1>2
  <1>4. SumFunctionOnSet(f, X \ {AnyOf(X)}) \in Nat /\ f[AnyOf(X)] \in Nat
    BY <1>1, <1>2, <1>3
  <1>5. SumFunctionOnSet(f, X) = f[AnyOf(X)] + SumFunctionOnSet(f, X \ {AnyOf(X)})
    BY <1>2, SumPicks
  <1> QED BY <1>1, <1>4, <1>5

\* Any index can be taken first.
LEMMA SumTakesAny ==
  ASSUME NEW S, IsFiniteSet(S), NEW f, \A x \in S : f[x] \in Int, NEW a \in S
  PROVE  SumFunctionOnSet(f, S) = f[a] + SumFunctionOnSet(f, S \ {a})
  <1> DEFINE Sum(s) == SumFunctionOnSet(f, s)
             B == {s \in SUBSET S : \E x \in s : Sum(s) # f[x] + Sum(s \ {x})}
  <1> SUFFICES ASSUME B # {} PROVE FALSE
    OBVIOUS
  <1>1. PICK X \in B : \A Y \in B : Y \subseteq X => Y = X
    <2>1. B \in SUBSET (SUBSET S)
      OBVIOUS
    <2> HIDE DEF B
    <2> QED BY <2>1, LeastSubset
  <1>2. PICK x \in X : Sum(X) # f[x] + Sum(X \ {x})
    BY <1>1
  <1> DEFINE p == AnyOf(X)
             W == (X \ {p}) \ {x}
  <1>3. p \in X /\ IsFiniteSet(X) /\ X \in SUBSET S
    BY <1>1, <1>2, AnyIsMember, FS_Subset
  <1>4. Sum(X) = f[p] + Sum(X \ {p})
    BY <1>2, <1>3, SumPicks
  <1>5. p # x
    BY <1>2, <1>4
  <1>6. X \ {p} \notin B /\ X \ {x} \notin B
    BY <1>1, <1>2, <1>3
  <1>7. Sum(X \ {p}) = f[x] + Sum(W)
    BY <1>2, <1>3, <1>5, <1>6
  <1>8. Sum(X \ {x}) = f[p] + Sum(W)
    <2>1. (X \ {x}) \ {p} = W
      OBVIOUS
    <2>2. p \in X \ {x} /\ X \ {x} \in SUBSET S
      BY <1>3, <1>5
    <2> QED BY <1>6, <2>1, <2>2
  <1>9. Sum(W) \in Int /\ f[p] \in Int /\ f[x] \in Int
    <2>1. IsFiniteSet(W) /\ W \in SUBSET S
      BY <1>3, FS_Subset
    <2> QED BY <1>2, <1>3, <2>1, SumType
  <1> HIDE DEF Sum, W, p
  <1> QED BY <1>2, <1>4, <1>7, <1>8, <1>9

\* A sum depends on the values at its indices only.
LEMMA SumExtensional ==
  ASSUME NEW S, IsFiniteSet(S), NEW f, NEW g, \A x \in S : f[x] = g[x]
  PROVE  SumFunctionOnSet(f, S) = SumFunctionOnSet(g, S)
  <1> DEFINE B == {s \in SUBSET S : SumFunctionOnSet(f, s) # SumFunctionOnSet(g, s)}
  <1> SUFFICES ASSUME B # {} PROVE FALSE
    OBVIOUS
  <1>1. PICK X \in B : \A Y \in B : Y \subseteq X => Y = X
    <2>1. B \in SUBSET (SUBSET S)
      OBVIOUS
    <2> HIDE DEF B
    <2> QED BY <2>1, LeastSubset
  <1>2. X # {} /\ AnyOf(X) \in X /\ IsFiniteSet(X)
    <2>1. X \in SUBSET S /\ X # {}
      BY <1>1, SumOfNothing
    <2> QED BY <2>1, AnyIsMember, FS_Subset
  <1>3. X \ {AnyOf(X)} \notin B
    BY <1>1, <1>2
  <1>4. SumFunctionOnSet(f, X \ {AnyOf(X)}) = SumFunctionOnSet(g, X \ {AnyOf(X)}) /\ f[AnyOf(X)] = g[AnyOf(X)]
    BY <1>1, <1>2, <1>3
  <1>5. /\ SumFunctionOnSet(f, X) = f[AnyOf(X)] + SumFunctionOnSet(f, X \ {AnyOf(X)})
        /\ SumFunctionOnSet(g, X) = g[AnyOf(X)] + SumFunctionOnSet(g, X \ {AnyOf(X)})
    BY <1>2, SumPicks
  <1> QED BY <1>1, <1>4, <1>5

\* Changing the value at one index changes the sum by as much.
LEMMA SumUpdated ==
  ASSUME NEW S, IsFiniteSet(S), NEW f, NEW g, \A x \in S : f[x] \in Int /\ g[x] \in Int,
         NEW a \in S, \A x \in S \ {a} : f[x] = g[x]
  PROVE  SumFunctionOnSet(g, S) = SumFunctionOnSet(f, S) + (g[a] - f[a])
  <1> DEFINE T == S \ {a}
  <1>1. IsFiniteSet(T)
    BY FS_Subset
  <1>2. SumFunctionOnSet(f, S) = f[a] + SumFunctionOnSet(f, T)
    BY SumTakesAny
  <1>3. SumFunctionOnSet(g, S) = g[a] + SumFunctionOnSet(g, T)
    BY SumTakesAny
  <1>4. SumFunctionOnSet(f, T) = SumFunctionOnSet(g, T)
    <2>1. \A x \in T : f[x] = g[x]
      OBVIOUS
    <2> HIDE DEF T
    <2> QED BY <1>1, <2>1, SumExtensional
  <1>5. SumFunctionOnSet(f, T) \in Int
    <2>1. \A x \in T : f[x] \in Int
      OBVIOUS
    <2> HIDE DEF T
    <2> QED BY <1>1, <2>1, SumType
  <1> HIDE DEF T
  <1> QED BY <1>2, <1>3, <1>4, <1>5

\* A sum is the sum over a part and the sum over the rest.
LEMMA SumSplit ==
  ASSUME NEW S, IsFiniteSet(S), NEW f, \A x \in S : f[x] \in Int, NEW T \in SUBSET S
  PROVE  /\ SumFunctionOnSet(f, S) = SumFunctionOnSet(f, T) + SumFunctionOnSet(f, S \ T)
         /\ SumFunctionOnSet(f, T) \in Int /\ SumFunctionOnSet(f, S \ T) \in Int
  <1> DEFINE Sum == [s \in SUBSET S |-> SumFunctionOnSet(f, s)]
             B == {s \in SUBSET S : Sum[S] # Sum[s] + Sum[S \ s]}
  <1>1. ASSUME NEW s \in SUBSET S PROVE IsFiniteSet(s) /\ Sum[s] \in Int /\ \A x \in s : Sum[s] = f[x] + Sum[s \ {x}]
    <2>1. IsFiniteSet(s) /\ \A x \in s : f[x] \in Int
      BY FS_Subset
    <2> QED BY <2>1, SumType, SumTakesAny
  <1>2. Sum[{}] = 0
    BY SumOfNothing
  <1>3. SumFunctionOnSet(f, S) = Sum[S] /\ SumFunctionOnSet(f, T) = Sum[T] /\ SumFunctionOnSet(f, S \ T) = Sum[S \ T]
    OBVIOUS
  <1> HIDE DEF Sum
  <1>4. B = {}
    <2> SUFFICES ASSUME B # {} PROVE FALSE
      OBVIOUS
    <2>1. PICK X \in B : \A Y \in B : Y \subseteq X => Y = X
      <3>1. B \in SUBSET (SUBSET S)
        OBVIOUS
      <3> HIDE DEF B
      <3> QED BY <3>1, LeastSubset
    <2>2. X # {}
      <3> SUFFICES ASSUME X = {} PROVE FALSE
        OBVIOUS
      <3>1. S \ X = S /\ Sum[S] \in Int /\ Sum[X] = 0
        BY <1>1, <1>2
      <3>2. Sum[S] = Sum[X] + Sum[S \ X]
        BY <3>1
      <3> QED BY <2>1, <3>2
    <2>3. PICK x \in X : TRUE
      BY <2>2
    <2> DEFINE Y == X \ {x}
    <2>4. Y \notin B /\ Y \in SUBSET S /\ S \ Y \in SUBSET S /\ X \in SUBSET S /\ S \ X \in SUBSET S
          /\ x \in S \ Y /\ (S \ Y) \ {x} = S \ X
      BY <2>1, <2>3
    <2>5. Sum[S] = Sum[Y] + Sum[S \ Y]
      BY <2>4
    <2>6. Sum[X] = f[x] + Sum[Y] /\ Sum[S \ Y] = f[x] + Sum[S \ X]
      BY <1>1, <2>3, <2>4
    <2>7. Sum[Y] \in Int /\ Sum[S \ X] \in Int /\ f[x] \in Int
      BY <1>1, <2>4
    <2>8. Sum[S] = Sum[X] + Sum[S \ X]
      <3> HIDE DEF Y
      <3> QED BY <2>5, <2>6, <2>7
    <2> QED BY <2>1, <2>8
  <1>5. Sum[S] = Sum[T] + Sum[S \ T]
    BY <1>4
  <1>6. Sum[T] \in Int /\ Sum[S \ T] \in Int
    BY <1>1
  <1> QED BY <1>5, <1>6, <1>3

\* A sum may be taken over other names for its indices.
LEMMA SumReindexed ==
  ASSUME NEW S, IsFiniteSet(S), NEW b, \A x, y \in S : b[x] = b[y] => x = y,
         NEW f, NEW g, \A x \in S : f[b[x]] \in Int /\ g[x] = f[b[x]],
         NEW T, \A x \in S : b[x] \in T, \A y \in T : \E x \in S : b[x] = y
  PROVE  SumFunctionOnSet(g, S) = SumFunctionOnSet(f, T)
  <1> DEFINE Image(s) == {b[x] : x \in s}
             B == {s \in SUBSET S : SumFunctionOnSet(g, s) # SumFunctionOnSet(f, Image(s))}
  <1>0. Image(S) = T
    OBVIOUS
  <1> SUFFICES ASSUME B # {} PROVE FALSE
    <2> HIDE DEF Image
    <2> QED BY <1>0
  <1>1. PICK X \in B : \A Y \in B : Y \subseteq X => Y = X
    <2>1. B \in SUBSET (SUBSET S)
      OBVIOUS
    <2> HIDE DEF B
    <2> QED BY <2>1, LeastSubset
  <1>2. X # {} /\ AnyOf(X) \in X /\ IsFiniteSet(X) /\ X \in SUBSET S
    <2>1. Image({}) = {}
      OBVIOUS
    <2>2. X \in SUBSET S /\ X # {}
      BY <1>1, <2>1, SumOfNothing
    <2> QED BY <2>2, AnyIsMember, FS_Subset
  <1> DEFINE a == AnyOf(X)
             W == X \ {a}
  <1>3. W \notin B /\ W \in SUBSET S
    BY <1>1, <1>2
  <1>4. SumFunctionOnSet(g, W) = SumFunctionOnSet(f, Image(W))
    BY <1>3
  <1>5. SumFunctionOnSet(g, X) = g[a] + SumFunctionOnSet(g, W)
    BY <1>2, SumPicks
  <1>6. SumFunctionOnSet(f, Image(X)) = f[b[a]] + SumFunctionOnSet(f, Image(X) \ {b[a]})
    <2>1. IsFiniteSet(Image(X))
      <3>1. [x \in X |-> b[x]] \in Surjection(X, Image(X))
        BY DEF Surjection
      <3> HIDE DEF B, Image
      <3> QED BY <1>2, <3>1, FS_Surjection
    <2>2. b[a] \in Image(X) /\ \A y \in Image(X) : f[y] \in Int
      BY <1>2
    <2> HIDE DEF Image, a
    <2> QED BY <2>1, <2>2, SumTakesAny
  <1>7. Image(X) \ {b[a]} = Image(W)
    BY <1>2
  <1>8. g[a] = f[b[a]]
    BY <1>2
  <1>9. SumFunctionOnSet(g, X) = SumFunctionOnSet(f, Image(X))
    <2> HIDE DEF Image, a, W
    <2> QED BY <1>4, <1>5, <1>6, <1>7, <1>8
  <1> QED BY <1>1, <1>9

(***************************************************************************)
(* Sums over a sequence                                                    *)
(***************************************************************************)

\* One more item adds its value.
LEMMA SumAppend ==
  ASSUME NEW q \in Seq(Int), NEW x \in Int
  PROVE  SumFunction(Append(q, x)) = SumFunction(q) + x /\ SumFunction(q) \in Int
  <1> DEFINE r == Append(q, x)
             n == Len(q)
  <1>1. /\ n \in Nat /\ DOMAIN q = 1 .. n /\ DOMAIN r = 1 .. n + 1 /\ r[n + 1] = x
        /\ \A i \in 1 .. n : r[i] = q[i] /\ q[i] \in Int
    <2>1. n \in Nat /\ DOMAIN q = 1 .. n /\ \A i \in 1 .. n : q[i] \in Int
      BY LenProperties, ElementOfSeq
    <2>2. r \in Seq(Int) /\ Len(r) = n + 1 /\ r[n + 1] = x /\ \A i \in 1 .. n : r[i] = q[i]
      BY AppendProperties
    <2>3. DOMAIN r = 1 .. n + 1
      BY <2>2, LenProperties
    <2> QED BY <2>1, <2>2, <2>3
  <1> HIDE DEF r, n
  <1>2. IsFiniteSet(1 .. n + 1) /\ IsFiniteSet(1 .. n)
    BY <1>1, FS_Interval
  <1>3. \A i \in 1 .. n + 1 : r[i] \in Int
    BY <1>1
  <1>4. SumFunctionOnSet(r, 1 .. n + 1) = r[n + 1] + SumFunctionOnSet(r, (1 .. n + 1) \ {n + 1})
    <2>1. n + 1 \in 1 .. n + 1
      BY <1>1
    <2> QED BY <1>2, <1>3, <2>1, SumTakesAny
  <1>5. (1 .. n + 1) \ {n + 1} = 1 .. n
    BY <1>1
  <1>6. SumFunctionOnSet(r, 1 .. n) = SumFunctionOnSet(q, 1 .. n)
    BY <1>1, <1>2, SumExtensional
  <1>7. SumFunctionOnSet(q, 1 .. n) \in Int
    BY <1>1, <1>2, SumType
  <1>8. SumFunction(r) = SumFunctionOnSet(r, 1 .. n + 1) /\ SumFunction(q) = SumFunctionOnSet(q, 1 .. n)
    BY <1>1 DEF SumFunction
  <1>9. SumFunction(r) = x + SumFunction(q)
    BY <1>1, <1>4, <1>5, <1>6, <1>8
  <1> QED BY <1>7, <1>8, <1>9 DEF r

\* Without its first item a sequence sums to the rest.
LEMMA SumTail ==
  ASSUME NEW q \in Seq(Int), q # <<>>
  PROVE  SumFunction(q) = Head(q) + SumFunction(Tail(q)) /\ SumFunction(Tail(q)) \in Int
  <1> DEFINE r == Tail(q)
             m == Len(q) - 1
             b == [i \in 1 .. m |-> i + 1]
  <1>1. /\ m \in Nat /\ DOMAIN q = 1 .. m + 1 /\ DOMAIN r = 1 .. m /\ Head(q) = q[1]
        /\ \A i \in 1 .. m : r[i] = q[i + 1]
        /\ \A i \in 1 .. m + 1 : q[i] \in Int
    <2>1. /\ Len(q) \in Nat /\ Len(q) # 0 /\ DOMAIN q = 1 .. Len(q)
          /\ \A i \in 1 .. Len(q) : q[i] \in Int
      BY EmptySeq, LenProperties, ElementOfSeq
    <2>2. /\ Head(q) = q[1] /\ r \in Seq(Int) /\ Len(r) = m
          /\ \A i \in 1 .. Len(r) : r[i] = q[i + 1]
      BY HeadTailProperties
    <2>3. DOMAIN r = 1 .. m
      BY <2>2, LenProperties
    <2> QED BY <2>1, <2>2, <2>3
  <1> HIDE DEF r, m
  <1>2. IsFiniteSet(1 .. m + 1) /\ IsFiniteSet(1 .. m)
    BY <1>1, FS_Interval
  <1>3. SumFunctionOnSet(q, 1 .. m + 1) = q[1] + SumFunctionOnSet(q, (1 .. m + 1) \ {1})
    <2>1. 1 \in 1 .. m + 1
      BY <1>1
    <2> QED BY <1>1, <1>2, <2>1, SumTakesAny
  <1> DEFINE T == (1 .. m + 1) \ {1}
  <1>4. /\ \A i \in 1 .. m : b[i] \in T
        /\ \A j \in T : \E i \in 1 .. m : b[i] = j
    <2>1. ASSUME NEW j \in T PROVE j - 1 \in 1 .. m /\ b[j - 1] = j
      BY <1>1, <2>1
    <2>2. ASSUME NEW i \in 1 .. m PROVE b[i] \in T
      BY <1>1, <2>2
    <2> HIDE DEF b
    <2> QED BY <2>1, <2>2
  <1>5. SumFunctionOnSet(r, 1 .. m) = SumFunctionOnSet(q, T)
    <2> DEFINE I == 1 .. m
    <2>1. \A i, j \in I : b[i] = b[j] => i = j
      BY <1>1
    <2>2. \A i \in I : q[b[i]] \in Int /\ r[i] = q[b[i]]
      BY <1>1
    <2>3. IsFiniteSet(I)
      BY <1>2
    <2>4. (\A i \in I : b[i] \in T) /\ (\A j \in T : \E i \in I : b[i] = j)
      BY <1>4
    <2> HIDE DEF b, T, I
    <2>5. SumFunctionOnSet(r, I) = SumFunctionOnSet(q, T)
      BY <2>1, <2>2, <2>3, <2>4, SumReindexed
    <2> QED BY <2>5 DEF I
  <1>6. SumFunctionOnSet(r, 1 .. m) \in Int
    <2>1. \A i \in 1 .. m : r[i] \in Int
      BY <1>1
    <2> QED BY <1>2, <2>1, SumType
  <1>7. SumFunction(q) = SumFunctionOnSet(q, 1 .. m + 1) /\ SumFunction(r) = SumFunctionOnSet(r, 1 .. m)
    BY <1>1 DEF SumFunction
  <1>8. SumFunction(q) = Head(q) + SumFunction(r)
    BY <1>1, <1>3, <1>5, <1>7
  <1> QED BY <1>6, <1>7, <1>8 DEF r

\* The weights of the items of a sequence.
Weighed(w, h) == [i \in DOMAIN h |-> w[h[i]]]

LEMMA WeighedTyped ==
  ASSUME NEW L, NEW w \in [L -> Nat], NEW h \in Seq(L)
  PROVE  /\ Weighed(w, h) \in Seq(Int) /\ Len(Weighed(w, h)) = Len(h) /\ Len(h) \in Nat
         /\ \A i \in 1 .. Len(h) : h[i] \in L /\ Weighed(w, h)[i] = w[h[i]] /\ w[h[i]] \in Nat
  <1>1. DOMAIN h = 1 .. Len(h) /\ Len(h) \in Nat /\ \A i \in 1 .. Len(h) : h[i] \in L
    BY LenProperties, ElementOfSeq
  <1>2. \A i \in 1 .. Len(h) : Weighed(w, h)[i] = w[h[i]] /\ w[h[i]] \in Nat
    BY <1>1 DEF Weighed
  <1>3. Weighed(w, h) \in [1 .. Len(h) -> Int]
    BY <1>1, <1>2 DEF Weighed
  <1> QED BY <1>1, <1>2, <1>3

LEMMA SumWeighed ==
  ASSUME NEW L, NEW w \in [L -> Nat], NEW h \in Seq(L)
  PROVE  SumFunction(Weighed(w, h)) \in Nat
  <1>1. /\ Len(h) \in Nat /\ \A i \in 1 .. Len(h) : Weighed(w, h)[i] \in Nat
        /\ Weighed(w, h) \in Seq(Int) /\ Len(Weighed(w, h)) = Len(h)
    BY WeighedTyped
  <1>2. DOMAIN Weighed(w, h) = 1 .. Len(h)
    BY <1>1, LenProperties
  <1>3. SumFunctionOnSet(Weighed(w, h), 1 .. Len(h)) \in Nat
    <2>1. IsFiniteSet(1 .. Len(h))
      BY <1>1, FS_Interval
    <2> QED BY <1>1, <2>1, SumNat
  <1> QED BY <1>2, <1>3 DEF SumFunction

\* An item appended adds its weight.
LEMMA WeighedGrows ==
  ASSUME NEW L, NEW w \in [L -> Nat], NEW h \in Seq(L), NEW x \in L
  PROVE  SumFunction(Weighed(w, Append(h, x))) = SumFunction(Weighed(w, h)) + w[x]
  <1> DEFINE new == Append(h, x)
             q == Append(Weighed(w, h), w[x])
  <1>1. /\ new \in Seq(L) /\ Len(new) = Len(h) + 1 /\ new[Len(h) + 1] = x
        /\ \A i \in 1 .. Len(h) : new[i] = h[i]
    BY AppendProperties
  <1>2. /\ Weighed(w, h) \in Seq(Int) /\ Len(Weighed(w, h)) = Len(h) /\ Len(h) \in Nat
        /\ \A i \in 1 .. Len(h) : Weighed(w, h)[i] = w[h[i]]
        /\ w[x] \in Int
    BY WeighedTyped
  <1>3. /\ q \in Seq(Int) /\ Len(q) = Len(h) + 1 /\ q[Len(h) + 1] = w[x]
        /\ \A i \in 1 .. Len(h) : q[i] = Weighed(w, h)[i]
    BY <1>2, AppendProperties
  <1>4. SumFunction(q) = SumFunction(Weighed(w, h)) + w[x]
    BY <1>2, SumAppend
  <1> HIDE DEF new, q
  <1>5. /\ Weighed(w, new) \in Seq(Int) /\ Len(Weighed(w, new)) = Len(new)
        /\ \A i \in 1 .. Len(new) : Weighed(w, new)[i] = w[new[i]]
    <2>1. new \in Seq(L)
      BY <1>1
    <2> QED BY <2>1, WeighedTyped
  <1>6. ASSUME NEW i \in 1 .. Len(new) PROVE Weighed(w, new)[i] = q[i]
    <2>1. CASE i \in 1 .. Len(h)
      BY <1>1, <1>2, <1>3, <1>5, <2>1
    <2>2. CASE i \notin 1 .. Len(h)
      <3>1. i = Len(h) + 1
        BY <1>1, <1>2, <2>2
      <3> QED BY <1>1, <1>3, <1>5, <3>1
    <2> QED BY <2>1, <2>2
  <1>7. Weighed(w, new) = q
    BY <1>1, <1>3, <1>5, <1>6, SeqEqual
  <1> QED BY <1>4, <1>7 DEF new

\* The first item takes its weight along.
LEMMA WeighedShrinks ==
  ASSUME NEW L, NEW w \in [L -> Nat], NEW h \in Seq(L), h # <<>>
  PROVE  SumFunction(Weighed(w, h)) = w[Head(h)] + SumFunction(Weighed(w, Tail(h)))
  <1> DEFINE new == Tail(h)
             q == Weighed(w, h)
  <1>1. /\ new \in Seq(L) /\ Len(new) = Len(h) - 1 /\ Len(h) # 0
        /\ \A i \in 1 .. Len(new) : new[i] = h[i + 1]
    BY HeadTailProperties, EmptySeq
  <1>0. ASSUME NEW g \in Seq(L)
        PROVE  /\ Weighed(w, g) \in Seq(Int) /\ Len(Weighed(w, g)) = Len(g)
               /\ \A i \in 1 .. Len(g) : Weighed(w, g)[i] = w[g[i]]
    BY WeighedTyped
  <1>2. /\ q \in Seq(Int) /\ Len(q) = Len(h) /\ Len(h) \in Nat
        /\ \A i \in 1 .. Len(h) : q[i] = w[h[i]]
    BY WeighedTyped
  <1> HIDE DEF new, q
  <1>3. q # <<>> /\ Head(q) = w[Head(h)]
    <2>1. q # <<>> /\ 1 \in 1 .. Len(h)
      BY <1>1, <1>2
    <2> QED BY <1>2, <2>1
  <1>4. /\ Tail(q) \in Seq(Int) /\ Len(Tail(q)) = Len(new)
        /\ \A i \in 1 .. Len(new) : Tail(q)[i] = q[i + 1]
    BY <1>1, <1>2, <1>3, HeadTailProperties
  <1>5. SumFunction(q) = Head(q) + SumFunction(Tail(q))
    BY <1>2, <1>3, SumTail
  <1>6. /\ Weighed(w, new) \in Seq(Int) /\ Len(Weighed(w, new)) = Len(new)
        /\ \A i \in 1 .. Len(new) : Weighed(w, new)[i] = w[new[i]]
    <2>1. new \in Seq(L)
      BY <1>1
    <2> QED BY <1>0, <2>1
  <1>7. ASSUME NEW i \in 1 .. Len(new) PROVE Weighed(w, new)[i] = Tail(q)[i]
    <2>1. i + 1 \in 1 .. Len(h)
      BY <1>1, <1>2
    <2> QED BY <1>1, <1>2, <1>4, <1>6, <2>1
  <1>8. Weighed(w, new) = Tail(q)
    BY <1>4, <1>6, <1>7, SeqEqual
  <1> QED BY <1>3, <1>5, <1>8 DEF new, q

(***************************************************************************)
(* Sums of sums, and counting pairs                                        *)
(***************************************************************************)

\* One element more adds its value.
LEMMA SumGrows ==
  ASSUME NEW S, IsFiniteSet(S), NEW f, \A x \in S : f[x] \in Int, NEW T \in SUBSET S, NEW a \in S, a \notin T
  PROVE  /\ SumFunctionOnSet(f, T \cup {a}) = f[a] + SumFunctionOnSet(f, T)
         /\ SumFunctionOnSet(f, T) \in Int /\ f[a] \in Int
  <1> DEFINE U == T \cup {a}
  <1>1. /\ IsFiniteSet(U) /\ IsFiniteSet(T) /\ a \in U /\ U \ {a} = T
        /\ \A x \in U : f[x] \in Int
    BY FS_Subset
  <1> HIDE DEF U
  <1>2. SumFunctionOnSet(f, U) = f[a] + SumFunctionOnSet(f, U \ {a})
    BY <1>1, SumTakesAny
  <1>3. SumFunctionOnSet(f, T) \in Int
    BY <1>1, SumType
  <1> QED BY <1>1, <1>2, <1>3 DEF U

\* The sum of a sum of functions.
LEMMA SumOfBoth ==
  ASSUME NEW S, IsFiniteSet(S), NEW f, NEW g, NEW h,
         \A x \in S : f[x] \in Int, \A x \in S : g[x] \in Int, \A x \in S : h[x] = f[x] + g[x]
  PROVE  SumFunctionOnSet(h, S) = SumFunctionOnSet(f, S) + SumFunctionOnSet(g, S)
  <1>1. \A k : (\A x \in S : k[x] \in Int) =>
               \A T \in SUBSET S, x \in S : x \notin T => /\ SumFunctionOnSet(k, T \cup {x}) = k[x] + SumFunctionOnSet(k, T)
                                                        /\ SumFunctionOnSet(k, T) \in Int
    BY SumGrows
  <1> DEFINE G == {T \in SUBSET S : SumFunctionOnSet(h, T) = SumFunctionOnSet(f, T) + SumFunctionOnSet(g, T)}
  <1>2. {} \in G
    BY SumOfNothing
  <1>3. ASSUME NEW T \in SUBSET S, NEW x \in S, T \in G PROVE T \cup {x} \in G
    <2>1. CASE x \in T
      <3>1. T \cup {x} = T
        BY <2>1
      <3> QED BY <1>3, <3>1
    <2>2. CASE x \notin T
      <3>1. \A y \in S : h[y] \in Int
        OBVIOUS
      <3>2. SumFunctionOnSet(f, T \cup {x}) = f[x] + SumFunctionOnSet(f, T) /\ SumFunctionOnSet(f, T) \in Int
        BY <2>2, <1>1
      <3>3. SumFunctionOnSet(g, T \cup {x}) = g[x] + SumFunctionOnSet(g, T) /\ SumFunctionOnSet(g, T) \in Int
        BY <2>2, <1>1
      <3>4. SumFunctionOnSet(h, T \cup {x}) = h[x] + SumFunctionOnSet(h, T)
        BY <2>2, <3>1, SumGrows
      <3>5. h[x] = f[x] + g[x] /\ f[x] \in Int /\ g[x] \in Int
        OBVIOUS
      <3>6. SumFunctionOnSet(h, T) = SumFunctionOnSet(f, T) + SumFunctionOnSet(g, T)
        BY <1>3
      <3>7. SumFunctionOnSet(h, T \cup {x}) = SumFunctionOnSet(f, T \cup {x}) + SumFunctionOnSet(g, T \cup {x})
        BY <3>2, <3>3, <3>4, <3>5, <3>6
      <3> QED BY <3>7
    <2> QED BY <2>1, <2>2
  <1>4. S \in G
    <2> HIDE DEF G
    <2> QED BY <1>2, <1>3, SubsetInduction
  <1> QED BY <1>4

\* The sum of a constant.
LEMMA SumOfConstant ==
  ASSUME NEW S, IsFiniteSet(S), NEW k \in Int, NEW f, \A x \in S : f[x] = k
  PROVE  SumFunctionOnSet(f, S) = k * Cardinality(S)
  <1> DEFINE G == {T \in SUBSET S : SumFunctionOnSet(f, T) = k * Cardinality(T)}
  <1>1. {} \in G
    BY SumOfNothing, FS_EmptySet
  <1>2. ASSUME NEW T \in SUBSET S, NEW x \in S, T \in G PROVE T \cup {x} \in G
    <2>1. CASE x \in T
      <3>1. T \cup {x} = T
        BY <2>1
      <3> QED BY <1>2, <3>1
    <2>2. CASE x \notin T
      <3>1. \A y \in S : f[y] \in Int
        OBVIOUS
      <3>2. SumFunctionOnSet(f, T \cup {x}) = f[x] + SumFunctionOnSet(f, T)
        BY <2>2, <3>1, SumGrows
      <3>3. IsFiniteSet(T)
        BY FS_Subset
      <3>4. Cardinality(T \cup {x}) = Cardinality(T) + 1 /\ Cardinality(T) \in Nat
        BY <2>2, <3>3, FS_AddElement, FS_CardinalityType
      <3>5. SumFunctionOnSet(f, T) = k * Cardinality(T) /\ f[x] = k
        BY <1>2
      <3>6. k + k * Cardinality(T) = k * (Cardinality(T) + 1)
        BY <3>4
      <3> QED BY <3>2, <3>4, <3>5, <3>6
    <2> QED BY <2>1, <2>2
  <1>3. S \in G
    <2> HIDE DEF G
    <2> QED BY <1>1, <1>2, SubsetInduction
  <1> QED BY <1>3

\* Pairs are counted by their first members.
LEMMA CountedByFirst ==
  ASSUME NEW A, IsFiniteSet(A), NEW B, IsFiniteSet(B), NEW R \in SUBSET (A \X B),
         NEW of, \A a \in A : of[a] \in SUBSET B, \A a \in A, b \in B : b \in of[a] <=> <<a, b>> \in R,
         NEW f, \A a \in A : f[a] = Cardinality(of[a])
  PROVE  SumFunctionOnSet(f, A) = Cardinality(R)
  <1> DEFINE Of(T) == {p \in R : p[1] \in T}
             G == {T \in SUBSET A : SumFunctionOnSet(f, T) = Cardinality(Of(T))}
  <1>1. IsFiniteSet(R)
    BY FS_Product, FS_Subset
  <1>2. \A T : IsFiniteSet(Of(T)) /\ Cardinality(Of(T)) \in Nat
    <2> SUFFICES ASSUME NEW T PROVE IsFiniteSet(Of(T)) /\ Cardinality(Of(T)) \in Nat
      OBVIOUS
    <2>1. Of(T) \in SUBSET R
      OBVIOUS
    <2> HIDE DEF Of
    <2> QED BY <1>1, <2>1, FS_Subset, FS_CardinalityType
  <1>3. ASSUME NEW a \in A PROVE f[a] = Cardinality(Of({a})) /\ f[a] \in Int
    <2> DEFINE M == of[a]
               g == [b \in M |-> <<a, b>>]
    <2>1. g \in Bijection(M, Of({a}))
      <3>1. g \in [M -> Of({a})]
        OBVIOUS
      <3>2. \A b, c \in M : g[b] = g[c] => b = c
        OBVIOUS
      <3>3. \A p \in Of({a}) : \E b \in M : g[b] = p
        <4> SUFFICES ASSUME NEW p \in Of({a}) PROVE \E b \in M : g[b] = p
          OBVIOUS
        <4>1. p = <<a, p[2]>> /\ p[2] \in B
          OBVIOUS
        <4>2. p[2] \in M
          BY <4>1
        <4> QED BY <4>1, <4>2
      <3> HIDE DEF M, g, Of
      <3> QED BY <3>1, <3>2, <3>3 DEF Bijection, Injection, Surjection, IsInjective
    <2>2. M \in SUBSET B
      OBVIOUS
    <2>3. f[a] = Cardinality(M)
      OBVIOUS
    <2> HIDE DEF M, g, Of
    <2>4. IsFiniteSet(M)
      BY <2>2, FS_Subset
    <2>5. Cardinality(Of({a})) = Cardinality(M)
      BY <2>1, <2>4, FS_Bijection DEF ExistsBijection
    <2> QED BY <1>2, <2>3, <2>5
  <1>4. {} \in G
    <2>1. Of({}) = {}
      OBVIOUS
    <2> QED BY <2>1, SumOfNothing, FS_EmptySet
  <1>5. ASSUME NEW T \in SUBSET A, NEW x \in A, T \in G PROVE T \cup {x} \in G
    <2>1. CASE x \in T
      <3>1. T \cup {x} = T
        BY <2>1
      <3> QED BY <1>5, <3>1
    <2>2. CASE x \notin T
      <3>1. \A a \in A : f[a] \in Int
        BY <1>3
      <3>2. SumFunctionOnSet(f, T \cup {x}) = f[x] + SumFunctionOnSet(f, T)
        BY <2>2, <3>1, SumGrows
      <3>3. Of(T \cup {x}) = Of(T) \cup Of({x}) /\ Of(T) \cap Of({x}) = {}
        BY <2>2
      <3>4. SumFunctionOnSet(f, T) = Cardinality(Of(T))
        BY <1>5
      <3>5. f[x] = Cardinality(Of({x}))
        BY <1>3
      <3>6. /\ IsFiniteSet(Of(T)) /\ IsFiniteSet(Of({x})) /\ Cardinality(Of(T)) \in Nat /\ Cardinality(Of({x})) \in Nat
        BY <1>2
      <3> HIDE DEF Of
      <3>7. Cardinality(Of(T) \cup Of({x})) = Cardinality(Of(T)) + Cardinality(Of({x})) - Cardinality(Of(T) \cap Of({x}))
        BY <3>6, FS_Union
      <3>8. Cardinality(Of(T) \cap Of({x})) = 0
        BY <3>3, FS_EmptySet
      <3>9. Cardinality(Of(T \cup {x})) = Cardinality(Of(T) \cup Of({x}))
        BY <3>3, Zenon
      <3>10. Cardinality(Of(T \cup {x})) = Cardinality(Of({x})) + Cardinality(Of(T))
        BY <3>6, <3>7, <3>8, <3>9
      <3>11. f[x] + SumFunctionOnSet(f, T) = Cardinality(Of({x})) + Cardinality(Of(T))
        BY <3>4, <3>5, Zenon
      <3>12. SumFunctionOnSet(f, T \cup {x}) = Cardinality(Of(T \cup {x}))
        BY <3>2, <3>10, <3>11
      <3>13. T \cup {x} \in SUBSET A
        OBVIOUS
      <3> QED BY <3>12, <3>13
    <2> QED BY <2>1, <2>2
  <1>6. A \in G
    <2> HIDE DEF G
    <2> QED BY <1>4, <1>5, SubsetInduction
  <1>7. Of(A) = R
    OBVIOUS
  <1> QED BY <1>6, <1>7

\* There are as many pairs the other way round.
LEMMA CountedTheOtherWay ==
  ASSUME NEW A, IsFiniteSet(A), NEW B, IsFiniteSet(B), NEW R \in SUBSET (A \X B), NEW Q \in SUBSET (B \X A),
         \A a \in A, b \in B : <<a, b>> \in R <=> <<b, a>> \in Q
  PROVE  Cardinality(R) = Cardinality(Q)
  <1> DEFINE g == [p \in R |-> <<p[2], p[1]>>]
  <1>1. IsFiniteSet(R)
    BY FS_Product, FS_Subset
  <1>2. \A p \in R : p = <<p[1], p[2]>> /\ p[1] \in A /\ p[2] \in B
    OBVIOUS
  <1>3. \A q \in Q : q = <<q[1], q[2]>> /\ q[1] \in B /\ q[2] \in A
    OBVIOUS
  <1>4. g \in Bijection(R, Q)
    <2>1. g \in [R -> Q]
      BY <1>2
    <2>2. \A p, q \in R : g[p] = g[q] => p = q
      BY <1>2
    <2>3. \A q \in Q : \E p \in R : g[p] = q
      <3> SUFFICES ASSUME NEW q \in Q PROVE \E p \in R : g[p] = q
        OBVIOUS
      <3>1. <<q[2], q[1]>> \in R
        BY <1>3
      <3>2. g[<<q[2], q[1]>>] = q
        BY <1>3, <3>1
      <3> QED BY <3>1, <3>2
    <2> HIDE DEF g
    <2> QED BY <2>1, <2>2, <2>3 DEF Bijection, Injection, Surjection, IsInjective
  <1> HIDE DEF g
  <1> QED BY <1>1, <1>4, FS_Bijection DEF ExistsBijection

\* Finitely many numbers have a least one.
LEMMA LeastNumber ==
  ASSUME NEW S \in SUBSET Int, IsFiniteSet(S), S # {}
  PROVE  \E x \in S : \A y \in S : x <= y
  <1> DEFINE G == {T \in SUBSET S : T = {} \/ \E x \in T : \A y \in T : x <= y}
  <1>1. {} \in G
    OBVIOUS
  <1>2. ASSUME NEW T \in SUBSET S, NEW a \in S, T \in G PROVE T \cup {a} \in G
    <2>1. CASE T = {}
      BY <2>1
    <2>2. CASE T # {}
      <3>1. PICK x \in T : \A y \in T : x <= y
        BY <1>2, <2>2
      <3>2. CASE a <= x
        <4>1. \A y \in T \cup {a} : a <= y
          BY <3>1, <3>2
        <4> QED BY <4>1
      <3>3. CASE x <= a
        <4>1. \A y \in T \cup {a} : x <= y
          BY <3>1, <3>3
        <4> QED BY <3>1, <4>1
      <3> QED BY <3>2, <3>3
    <2> QED BY <2>1, <2>2
  <1>3. S \in G
    <2> HIDE DEF G
    <2> QED BY <1>1, <1>2, SubsetInduction
  <1> QED BY <1>3
=============================================================================
