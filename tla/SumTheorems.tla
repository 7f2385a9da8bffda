---------------------------- MODULE SumTheorems ----------------------------
(***************************************************************************)
(* What the proofs need to know of SumFunctionOnSet, the sum of the values *)
(* that a function takes on a finite set.  The library defines it by       *)
(* recursion on the set, taking out an element at a time, which element    *)
(* being left to CHOOSE: that such a recursion has a solution, and that    *)
(* the order does not matter, is proved here by induction on the           *)
(* cardinality.  The induction rests on the least element of a set of      *)
(* naturals, which is a first-order fact.                                  *)
(***************************************************************************)
EXTENDS Integers, Functions, FiniteSetTheorems, WellFoundedInduction, TLAPS

(* Induction.                                                              *)

LEMMA LeastElement ==
    ASSUME NEW T, T \subseteq Nat, T # {}
    PROVE  \E n \in T : \A m \in T : n <= m
<1>1. IsWellFoundedOn(OpToRel(<, Nat), Nat)
  BY NatLessThanWellFounded
<1>2. PICK n \in T : \A m \in T : <<m, n>> \notin OpToRel(<, Nat)
  BY <1>1, WFMin
<1>3. \A m \in T : ~(m < n)
  BY <1>2 DEF OpToRel
<1> QED  BY <1>3

LEMMA Induction ==
    ASSUME NEW T, 0 \in T, \A n \in Nat : n \in T => n + 1 \in T
    PROVE  \A n \in Nat : n \in T
<1> SUFFICES ASSUME Nat \ T # {}  PROVE FALSE
  OBVIOUS
<1>1. PICK n \in Nat \ T : \A m \in Nat \ T : n <= m
  BY LeastElement
<1>2. n - 1 \in Nat /\ n - 1 \in T
  BY <1>1
<1> QED  BY <1>1, <1>2
-----------------------------------------------------------------------------
(* The recursion and its solution.                                         *)

Pick(s) == CHOOSE x \in s : TRUE

Rest(s) == s \ {Pick(s)}

Solves(g, f, S) == g = [s \in SUBSET S |-> IF s = {} THEN 0 ELSE f[Pick(s)] + g[Rest(s)]]

Solution(f, S) == CHOOSE g : Solves(g, f, S)

LEMMA SumIsSolution == \A f, S : SumFunctionOnSet(f, S) = Solution(f, S)[S]
BY DEF SumFunctionOnSet, FoldFunctionOnSet, MapThenFoldSet, Solution, Solves, Rest, Pick

LEMMA PickIn == \A s : s # {} => Pick(s) \in s
BY DEF Pick

LEMMA RestOfFinite ==
    ASSUME NEW S, IsFiniteSet(S), NEW s \in SUBSET S, s # {}
    PROVE  /\ IsFiniteSet(s) /\ Cardinality(s) \in Nat \ {0}
           /\ Rest(s) \in SUBSET S
           /\ IsFiniteSet(Rest(s)) /\ Cardinality(Rest(s)) = Cardinality(s) - 1
<1>1. IsFiniteSet(s) /\ Cardinality(s) \in Nat /\ Cardinality(s) # 0
  BY FS_Subset, FS_CardinalityType, FS_EmptySet
<1>2. Pick(s) \in s
  BY PickIn
<1>3. IsFiniteSet(Rest(s)) /\ Cardinality(Rest(s)) = Cardinality(s) - 1
  BY <1>1, <1>2, FS_RemoveElement DEF Rest
<1> QED  BY <1>1, <1>3 DEF Rest

LEMMA SolutionExists ==
    ASSUME NEW f, NEW S, IsFiniteSet(S)
    PROVE  \E g : Solves(g, f, S)
<1> DEFINE Next(g, s) == IF s = {} THEN 0 ELSE f[Pick(s)] + g[Rest(s)]
           Upto(g, n) == \A s \in SUBSET S : Cardinality(s) <= n => g[s] = Next(g, s)
           T == {n \in Nat : \E g : Upto(g, n)}
<1>1. 0 \in T
  <2> DEFINE g == [s \in SUBSET S |-> 0]
  <2>1. ASSUME NEW s \in SUBSET S, Cardinality(s) <= 0  PROVE g[s] = Next(g, s)
    BY <2>1, RestOfFinite
  <2> QED  BY <2>1
<1>2. ASSUME NEW n \in Nat, n \in T  PROVE n + 1 \in T
  <2>1. PICK g : Upto(g, n)
    BY <1>2
  <2> DEFINE h == [s \in SUBSET S |-> Next(g, s)]
  <2>2. ASSUME NEW s \in SUBSET S, Cardinality(s) <= n + 1  PROVE h[s] = Next(h, s)
    <3>1. CASE s = {}
      BY <3>1
    <3>2. CASE s # {}
      <4>1. Rest(s) \in SUBSET S /\ Cardinality(Rest(s)) <= n
        BY <2>2, <3>2, RestOfFinite
      <4>2. h[Rest(s)] = g[Rest(s)]
        BY <2>1, <4>1
      <4> HIDE DEF h
      <4>3. h[s] = f[Pick(s)] + g[Rest(s)]
        BY <3>2 DEF h
      <4> QED  BY <3>2, <4>2, <4>3
    <3> QED  BY <3>1, <3>2
  <2> HIDE DEF h
  <2>3. Upto(h, n + 1)
    BY <2>2
  <2> QED  BY <2>3
<1>3. Cardinality(S) \in T
  <2> HIDE DEF T
  <2>1. \A n \in Nat : n \in T
    BY <1>1, <1>2, Induction
  <2> QED  BY <2>1, FS_CardinalityType
<1>4. PICK g : Upto(g, Cardinality(S))
  BY <1>3
<1>5. \A s \in SUBSET S : g[s] = Next(g, s)
  BY <1>4, FS_Subset
<1> DEFINE h == [s \in SUBSET S |-> g[s]]
<1>6. \A s \in SUBSET S : s # {} => h[Rest(s)] = g[Rest(s)]
  BY RestOfFinite
<1>7. \A s \in SUBSET S : h[s] = IF s = {} THEN 0 ELSE f[Pick(s)] + h[Rest(s)]
  BY <1>5, <1>6
<1>8. h = [s \in SUBSET S |-> h[s]]
  OBVIOUS
<1> HIDE DEF h
<1>9. Solves(h, f, S)
  BY <1>7, <1>8 DEF Solves
<1> QED  BY <1>9

LEMMA SolutionValue ==
    ASSUME NEW f, NEW S, IsFiniteSet(S), NEW s \in SUBSET S
    PROVE  Solution(f, S)[s]
             = IF s = {} THEN 0 ELSE f[Pick(s)] + Solution(f, S)[Rest(s)]
<1>1. Solves(Solution(f, S), f, S)
  BY SolutionExists DEF Solution
<1> QED  BY <1>1 DEF Solves

\* The solution for a larger set is one for its subsets.
LEMMA SolutionOnSubset ==
    ASSUME NEW f, NEW S, IsFiniteSet(S), NEW R \in SUBSET S
    PROVE  Solution(f, S)[R] = SumFunctionOnSet(f, R)
<1> DEFINE T == {n \in Nat : \A s \in SUBSET R : Cardinality(s) <= n =>
                                Solution(f, S)[s] = Solution(f, R)[s]}
<1>0. IsFiniteSet(R)
  BY FS_Subset
<1>1. 0 \in T
  <2>1. ASSUME NEW s \in SUBSET R, Cardinality(s) <= 0
        PROVE  Solution(f, S)[s] = Solution(f, R)[s]
    <3>1. s = {}
      BY <1>0, <2>1, RestOfFinite
    <3> QED  BY <1>0, <3>1, SolutionValue
  <2> QED  BY <2>1
<1>2. ASSUME NEW n \in Nat, n \in T  PROVE n + 1 \in T
  <2>1. ASSUME NEW s \in SUBSET R, Cardinality(s) <= n + 1
        PROVE  Solution(f, S)[s] = Solution(f, R)[s]
    <3>0. s \in SUBSET S
      OBVIOUS
    <3>1. CASE s = {}
      BY <1>0, <3>1, SolutionValue
    <3>2. CASE s # {}
      <4>1. Rest(s) \in SUBSET R /\ Cardinality(Rest(s)) <= n
        BY <1>0, <2>1, <3>2, RestOfFinite
      <4>2. Solution(f, S)[Rest(s)] = Solution(f, R)[Rest(s)]
        BY <1>2, <4>1
      <4> QED  BY <1>0, <3>0, <3>2, <4>2, SolutionValue
    <3> QED  BY <3>1, <3>2
  <2> QED  BY <2>1
<1>3. Cardinality(R) \in T
  <2> HIDE DEF T
  <2>1. \A n \in Nat : n \in T
    BY <1>1, <1>2, Induction
  <2> QED  BY <1>0, <2>1, FS_CardinalityType
<1> QED  BY <1>0, <1>3, FS_CardinalityType, SumIsSolution
-----------------------------------------------------------------------------
(* The sum.                                                                *)

LEMMA SumEmpty == \A f : SumFunctionOnSet(f, {}) = 0
<1> TAKE f
<1>1. IsFiniteSet({}) /\ {} \in SUBSET {}
  BY FS_EmptySet
<1>2. Solution(f, {})[{}] = 0
  BY <1>1, SolutionValue
<1> QED  BY <1>2, SumIsSolution

LEMMA SumPick ==
    ASSUME NEW f, NEW S, IsFiniteSet(S), S # {}
    PROVE  SumFunctionOnSet(f, S) = f[Pick(S)] + SumFunctionOnSet(f, Rest(S))
<1>1. S \in SUBSET S /\ Rest(S) \in SUBSET S
  BY DEF Rest
<1>2. Solution(f, S)[S] = f[Pick(S)] + Solution(f, S)[Rest(S)]
  BY <1>1, SolutionValue
<1> QED  BY <1>1, <1>2, SumIsSolution, SolutionOnSubset

\* Two functions that agree on a set have the same sum there.
LEMMA SumSame ==
    ASSUME NEW f, NEW g, NEW S, IsFiniteSet(S), \A x \in S : f[x] = g[x]
    PROVE  SumFunctionOnSet(f, S) = SumFunctionOnSet(g, S)
<1> DEFINE T == {n \in Nat : \A s \in SUBSET S : Cardinality(s) <= n =>
                                SumFunctionOnSet(f, s) = SumFunctionOnSet(g, s)}
<1>1. 0 \in T
  <2>1. ASSUME NEW s \in SUBSET S, Cardinality(s) <= 0  PROVE s = {}
    BY <2>1, RestOfFinite
  <2> QED  BY <2>1, SumEmpty
<1>2. ASSUME NEW n \in Nat, n \in T  PROVE n + 1 \in T
  <2>1. ASSUME NEW s \in SUBSET S, Cardinality(s) <= n + 1
        PROVE  SumFunctionOnSet(f, s) = SumFunctionOnSet(g, s)
    <3>1. CASE s = {}
      BY <3>1, SumEmpty
    <3>2. CASE s # {}
      <4>1. /\ IsFiniteSet(s)
            /\ Rest(s) \in SUBSET S /\ Cardinality(Rest(s)) <= n
        BY <2>1, <3>2, RestOfFinite
      <4>2. SumFunctionOnSet(f, Rest(s)) = SumFunctionOnSet(g, Rest(s))
        BY <1>2, <4>1
      <4>3. Pick(s) \in S
        BY <3>2, PickIn
      <4> QED  BY <3>2, <4>1, <4>2, <4>3, SumPick
    <3> QED  BY <3>1, <3>2
  <2> QED  BY <2>1
<1>3. Cardinality(S) \in T
  <2> HIDE DEF T
  <2>1. \A n \in Nat : n \in T
    BY <1>1, <1>2, Induction
  <2> QED  BY <2>1, FS_CardinalityType
<1> QED  BY <1>3, FS_CardinalityType

LEMMA SumInt ==
    ASSUME NEW f, NEW S, IsFiniteSet(S), \A x \in S : f[x] \in Int
    PROVE  SumFunctionOnSet(f, S) \in Int
<1> DEFINE T == {n \in Nat : \A s \in SUBSET S : Cardinality(s) <= n =>
                                SumFunctionOnSet(f, s) \in Int}
<1>1. 0 \in T
  <2>1. ASSUME NEW s \in SUBSET S, Cardinality(s) <= 0  PROVE s = {}
    BY <2>1, RestOfFinite
  <2> QED  BY <2>1, SumEmpty
<1>2. ASSUME NEW n \in Nat, n \in T  PROVE n + 1 \in T
  <2>1. ASSUME NEW s \in SUBSET S, Cardinality(s) <= n + 1
        PROVE  SumFunctionOnSet(f, s) \in Int
    <3>1. CASE s = {}
      BY <3>1, SumEmpty
    <3>2. CASE s # {}
      <4>1. /\ IsFiniteSet(s)
            /\ Rest(s) \in SUBSET S /\ Cardinality(Rest(s)) <= n
        BY <2>1, <3>2, RestOfFinite
      <4>2. SumFunctionOnSet(f, Rest(s)) \in Int
        BY <1>2, <4>1
      <4>3. f[Pick(s)] \in Int
        BY <3>2, PickIn
      <4>4. SumFunctionOnSet(f, s) = f[Pick(s)] + SumFunctionOnSet(f, Rest(s))
        BY <3>2, <4>1, SumPick
      <4> QED  BY <4>2, <4>3, <4>4
    <3> QED  BY <3>1, <3>2
  <2> QED  BY <2>1
<1>3. Cardinality(S) \in T
  <2> HIDE DEF T
  <2>1. \A n \in Nat : n \in T
    BY <1>1, <1>2, Induction
  <2> QED  BY <2>1, FS_CardinalityType
<1> QED  BY <1>3, FS_CardinalityType

\* Any element can be taken out first.
LEMMA SumRemove ==
    ASSUME NEW f, NEW S, IsFiniteSet(S), \A x \in S : f[x] \in Int, NEW x \in S
    PROVE  SumFunctionOnSet(f, S) = f[x] + SumFunctionOnSet(f, S \ {x})
<1> DEFINE Sum(s) == SumFunctionOnSet(f, s)
           T == {n \in Nat : \A s \in SUBSET S : Cardinality(s) <= n =>
                                \A y \in s : Sum(s) = f[y] + Sum(s \ {y})}
<1>1. 0 \in T
  <2>1. ASSUME NEW s \in SUBSET S, Cardinality(s) <= 0  PROVE s = {}
    BY <2>1, RestOfFinite
  <2> QED  BY <2>1
<1>2. ASSUME NEW n \in Nat, n \in T  PROVE n + 1 \in T
  <2>1. ASSUME NEW s \in SUBSET S, Cardinality(s) <= n + 1, NEW y \in s
        PROVE  Sum(s) = f[y] + Sum(s \ {y})
    <3>1. /\ IsFiniteSet(s) /\ Cardinality(s) \in Nat
          /\ Rest(s) \in SUBSET S /\ Cardinality(Rest(s)) <= n
      BY <2>1, RestOfFinite
    <3>2. Sum(s) = f[Pick(s)] + Sum(Rest(s))
      BY <3>1, SumPick
    <3>3. CASE y = Pick(s)
      BY <3>2, <3>3 DEF Rest
    <3>4. CASE y # Pick(s)
      <4> DEFINE p == Pick(s)
      <4>1. y \in Rest(s) /\ p \in s \ {y} /\ Rest(s) \ {y} = (s \ {y}) \ {p}
        BY <3>4, PickIn DEF Rest
      <4>2. Sum(Rest(s)) = f[y] + Sum(Rest(s) \ {y})
        BY <1>2, <3>1, <4>1
      <4>3. s \ {y} \in SUBSET S /\ Cardinality(s \ {y}) <= n
        <5>1. Cardinality(s \ {y}) = Cardinality(s) - 1
          BY <3>1, FS_RemoveElement
        <5> QED  BY <2>1, <3>1, <5>1
      <4>4. Sum(s \ {y}) = f[p] + Sum((s \ {y}) \ {p})
        BY <1>2, <4>1, <4>3
      <4>5. IsFiniteSet(Rest(s) \ {y}) /\ Rest(s) \ {y} \in SUBSET S
        BY <3>1, FS_Subset
      <4>6. Sum(Rest(s) \ {y}) \in Int
        BY <4>5, SumInt
      <4>7. f[y] \in Int /\ f[p] \in Int
        BY <4>1
      <4>8. Sum((s \ {y}) \ {p}) = Sum(Rest(s) \ {y})
        BY <4>1
      <4>9. Sum(s) = f[p] + (f[y] + Sum(Rest(s) \ {y}))
        BY <3>2, <4>2
      <4>10. Sum(s \ {y}) = f[p] + Sum(Rest(s) \ {y})
        BY <4>4, <4>8
      <4> HIDE DEF p, Sum
      <4> QED  BY <4>6, <4>7, <4>9, <4>10
    <3> QED  BY <3>3, <3>4
  <2> QED  BY <2>1
<1>3. Cardinality(S) \in T
  <2> HIDE DEF T
  <2>1. \A n \in Nat : n \in T
    BY <1>1, <1>2, Induction
  <2> QED  BY <2>1, FS_CardinalityType
<1> QED  BY <1>3, FS_CardinalityType

\* An element more.
LEMMA SumAdd ==
    ASSUME NEW f, NEW S, IsFiniteSet(S), NEW x, x \notin S,
           \A y \in S \cup {x} : f[y] \in Int
    PROVE  SumFunctionOnSet(f, S \cup {x}) = SumFunctionOnSet(f, S) + f[x]
<1>1. IsFiniteSet(S \cup {x})
  BY FS_AddElement
<1>2. SumFunctionOnSet(f, S \cup {x}) = f[x] + SumFunctionOnSet(f, (S \cup {x}) \ {x})
  BY <1>1, SumRemove
<1>3. (S \cup {x}) \ {x} = S
  OBVIOUS
<1>4. SumFunctionOnSet(f, S) \in Int /\ f[x] \in Int
  BY SumInt
<1>5. SumFunctionOnSet(f, S \cup {x}) = f[x] + SumFunctionOnSet(f, S)
  BY <1>2, <1>3
<1> QED  BY <1>4, <1>5

\* One value changes: the sum changes by as much.
LEMMA SumChange ==
    ASSUME NEW f, NEW g, NEW S, IsFiniteSet(S), NEW x \in S,
           \A y \in S : f[y] \in Int /\ g[y] \in Int,
           \A y \in S \ {x} : f[y] = g[y]
    PROVE  SumFunctionOnSet(g, S) = SumFunctionOnSet(f, S) + (g[x] - f[x])
<1>1. IsFiniteSet(S \ {x})
  BY FS_Subset
<1>2. /\ SumFunctionOnSet(f, S) = f[x] + SumFunctionOnSet(f, S \ {x})
      /\ SumFunctionOnSet(g, S) = g[x] + SumFunctionOnSet(g, S \ {x})
  BY SumRemove
<1>3. SumFunctionOnSet(f, S \ {x}) = SumFunctionOnSet(g, S \ {x})
  BY <1>1, SumSame
<1>4. SumFunctionOnSet(f, S \ {x}) \in Int
  BY <1>1, SumInt
<1> QED  BY <1>2, <1>3, <1>4

\* A sum of values that are not negative is not, nor smaller than one over fewer.
LEMMA SumNat ==
    ASSUME NEW f, NEW S, IsFiniteSet(S), \A x \in S : f[x] \in Nat
    PROVE  SumFunctionOnSet(f, S) \in Nat
<1> DEFINE T == {n \in Nat : \A s \in SUBSET S : Cardinality(s) <= n =>
                                SumFunctionOnSet(f, s) \in Nat}
<1>1. 0 \in T
  <2>1. ASSUME NEW s \in SUBSET S, Cardinality(s) <= 0  PROVE s = {}
    BY <2>1, RestOfFinite
  <2> QED  BY <2>1, SumEmpty
<1>2. ASSUME NEW n \in Nat, n \in T  PROVE n + 1 \in T
  <2>1. ASSUME NEW s \in SUBSET S, Cardinality(s) <= n + 1
        PROVE  SumFunctionOnSet(f, s) \in Nat
    <3>1. CASE s = {}
      BY <3>1, SumEmpty
    <3>2. CASE s # {}
      <4>1. /\ IsFiniteSet(s)
            /\ Rest(s) \in SUBSET S /\ Cardinality(Rest(s)) <= n
        BY <2>1, <3>2, RestOfFinite
      <4>2. SumFunctionOnSet(f, Rest(s)) \in Nat
        BY <1>2, <4>1
      <4>3. f[Pick(s)] \in Nat
        BY <3>2, PickIn
      <4>4. SumFunctionOnSet(f, s) = f[Pick(s)] + SumFunctionOnSet(f, Rest(s))
        BY <3>2, <4>1, SumPick
      <4> QED  BY <4>2, <4>3, <4>4
    <3> QED  BY <3>1, <3>2
  <2> QED  BY <2>1
<1>3. Cardinality(S) \in T
  <2> HIDE DEF T
  <2>1. \A n \in Nat : n \in T
    BY <1>1, <1>2, Induction
  <2> QED  BY <2>1, FS_CardinalityType
<1> QED  BY <1>3, FS_CardinalityType
-----------------------------------------------------------------------------
(* SumFunction, the sum over the whole domain.                             *)

LEMMA TotalEmpty == \A f : DOMAIN f = {} => SumFunction(f) = 0
BY SumEmpty DEF SumFunction

LEMMA TotalInt ==
    ASSUME NEW f, IsFiniteSet(DOMAIN f), \A x \in DOMAIN f : f[x] \in Int
    PROVE  SumFunction(f) \in Int
BY SumInt DEF SumFunction

\* A function with an argument more.
LEMMA TotalAdd ==
    ASSUME NEW f, IsFiniteSet(DOMAIN f), NEW x, x \notin DOMAIN f,
           NEW g, DOMAIN g = DOMAIN f \cup {x}, g[x] \in Int,
           \A y \in DOMAIN f : f[y] \in Int /\ g[y] = f[y]
    PROVE  SumFunction(g) = SumFunction(f) + g[x]
<1>1. SumFunctionOnSet(g, DOMAIN f \cup {x}) = SumFunctionOnSet(g, DOMAIN f) + g[x]
  <2>1. \A y \in DOMAIN f \cup {x} : g[y] \in Int
    OBVIOUS
  <2> QED  BY <2>1, SumAdd
<1>2. SumFunctionOnSet(g, DOMAIN f) = SumFunctionOnSet(f, DOMAIN f)
  BY SumSame
<1> QED  BY <1>1, <1>2 DEF SumFunction

\* One value changes.
LEMMA TotalChange ==
    ASSUME NEW f, IsFiniteSet(DOMAIN f), NEW g, DOMAIN g = DOMAIN f, NEW x \in DOMAIN f,
           \A y \in DOMAIN f : f[y] \in Int /\ g[y] \in Int,
           \A y \in DOMAIN f \ {x} : f[y] = g[y]
    PROVE  SumFunction(g) = SumFunction(f) + (g[x] - f[x])
BY SumChange DEF SumFunction
=============================================================================
