-------------------------------- MODULE Sums --------------------------------
(***************************************************************************)
(* Lemmas about induction and about sums over finite sets, on which the    *)
(* proofs of several components rest. Induction is stated for a set        *)
(* instead of a predicate: it is cited with the set of the numbers, or     *)
(* sets, that have the property.                                           *)
(***************************************************************************)
EXTENDS Integers, FiniteSets, Functions, FiniteSetTheorems, WellFoundedInduction, TLAPS

(* What holds of the empty set, and of a set with one more element if it holds of the set,
   holds of a finite set. *)
LEMMA SetInduction ==
    ASSUME NEW S, IsFiniteSet(S), NEW T, {} \in T,
           \A s \in T : \A x \in S \ s : s \cup {x} \in T
    PROVE  S \in T
<1> DEFINE Bad == {s \in SUBSET S : s \notin T}
<1> SUFFICES ASSUME Bad # {} PROVE FALSE
  OBVIOUS
<1>1. IsWellFoundedOn(StrictSubsetOrdering(S), FiniteSubsetsOf(S))
  BY FS_StrictSubsetOrderingWellFounded
<1>2. Bad \subseteq FiniteSubsetsOf(S)
  BY FS_Subset DEF FiniteSubsetsOf
<1>3. PICK b \in Bad : \A c \in Bad : ~ (<<c, b>> \in StrictSubsetOrdering(S))
  <2> HIDE DEF Bad
  <2> QED
    BY <1>1, <1>2, WFMin
<1>4. PICK x : x \in b
  OBVIOUS
<1>5. b \ {x} \in T
  <2>1. b \ {x} \in SUBSET S /\ b \in SUBSET S /\ b \ {x} # b
    BY <1>4
  <2>2. <<b \ {x}, b>> \in StrictSubsetOrdering(S)
    BY <2>1 DEF StrictSubsetOrdering
  <2> QED
    BY <1>3, <2>1, <2>2
<1>6. b = (b \ {x}) \cup {x} /\ x \in S \ (b \ {x})
  BY <1>4
<1> QED
  BY <1>5, <1>6

(* What holds of 0, and of the successor of every number it holds of, holds of all. *)
LEMMA NumberInduction ==
    ASSUME NEW T \in SUBSET Nat, 0 \in T, \A n \in T : n + 1 \in T
    PROVE  T = Nat
<1> SUFFICES ASSUME NEW n \in Nat PROVE n \in T
  OBVIOUS
<1> DEFINE U == {s \in SUBSET (1..n) : Cardinality(s) \in T}
<1>1. IsFiniteSet(1..n) /\ Cardinality(1..n) = n
  BY FS_Interval
<1>2. {} \in U
  BY FS_EmptySet
<1>3. ASSUME NEW s \in U, NEW x \in (1..n) \ s PROVE s \cup {x} \in U
  <2>1. Cardinality(s \cup {x}) = Cardinality(s) + 1
    BY <1>1, FS_Subset, FS_AddElement, ZenonT(30)
  <2> QED
    BY <2>1, Zenon
<1>4. 1..n \in U
  <2> HIDE DEF U
  <2> QED
    BY <1>1, <1>2, <1>3, SetInduction, Zenon
<1> QED
  BY <1>1, <1>4

-----------------------------------------------------------------------------
(* The function that SumFunctionOnSet() of the community modules computes: the sum of f
   over every subset of S, taking the elements in an order that nothing is known of. *)
SumFirst(s) == CHOOSE x \in s : TRUE
SumBody(g, f, s) == IF s = {} THEN 0 ELSE f[SumFirst(s)] + g[s \ {SumFirst(s)}]
IsSum(g, f, S) == g = [s \in SUBSET S |-> SumBody(g, f, s)]

LEMMA SumUnfold ==
    ASSUME NEW f, NEW S
    PROVE  SumFunctionOnSet(f, S) = (CHOOSE g : IsSum(g, f, S))[S]
  BY DEF SumFunctionOnSet, FoldFunctionOnSet, MapThenFoldSet, IsSum, SumBody, SumFirst

(* There is such a function. *)
LEMMA SumExists ==
    ASSUME NEW S, IsFiniteSet(S), NEW f, \A x \in S : f[x] \in Int
    PROVE  \E g \in [SUBSET S -> Int] : IsSum(g, f, S)
<1> DEFINE Upto(n) == {s \in SUBSET S : Cardinality(s) <= n}
           T == {n \in Nat : \E g \in [SUBSET S -> Int] : \A s \in Upto(n) : g[s] = SumBody(g, f, s)}
<1>1. \A s \in SUBSET S : IsFiniteSet(s) /\ Cardinality(s) \in Nat /\ Cardinality(s) <= Cardinality(S)
  BY FS_Subset, FS_CardinalityType
<1>2. \A s \in SUBSET S : s # {} =>
         /\ SumFirst(s) \in s /\ s \ {SumFirst(s)} \in SUBSET S
         /\ Cardinality(s \ {SumFirst(s)}) = Cardinality(s) - 1
  BY <1>1, FS_RemoveElement, ZenonT(30) DEF SumFirst
<1>3. 0 \in T
  <2> DEFINE g == [s \in SUBSET S |-> 0]
  <2>1. \A s \in Upto(0) : s = {}
    BY <1>1, FS_EmptySet
  <2>2. \A s \in Upto(0) : g[s] = SumBody(g, f, s)
    BY <2>1 DEF SumBody
  <2>3. g \in [SUBSET S -> Int]
    OBVIOUS
  <2> HIDE DEF g
  <2> QED
    BY <2>2, <2>3
<1>4. ASSUME NEW n \in T PROVE n + 1 \in T
  <2>0. n \in Nat
    OBVIOUS
  <2>1. PICK g \in [SUBSET S -> Int] : \A s \in Upto(n) : g[s] = SumBody(g, f, s)
    OBVIOUS
  <2> HIDE DEF T
  <2> DEFINE h == [s \in SUBSET S |-> IF s \in Upto(n) THEN g[s] ELSE SumBody(g, f, s)]
  <2>2. \A s \in SUBSET S : SumBody(g, f, s) \in Int
    <3> TAKE s \in SUBSET S
    <3>1. s # {} => f[SumFirst(s)] \in Int /\ g[s \ {SumFirst(s)}] \in Int
      BY <1>2, ZenonT(30)
    <3> QED
      BY <3>1 DEF SumBody
  <2>3. h \in [SUBSET S -> Int]
    BY <2>2
  <2>4. \A s \in Upto(n + 1) : h[s] = SumBody(g, f, s)
    BY <2>1
  <2>5. \A s \in Upto(n + 1) : SumBody(h, f, s) = SumBody(g, f, s)
    <3> TAKE s \in Upto(n + 1)
    <3>1. CASE s = {}
      BY <3>1 DEF SumBody
    <3>2. CASE s # {}
      <4>1. s \ {SumFirst(s)} \in Upto(n)
        <5>1. Cardinality(s) <= n + 1 /\ Cardinality(s) \in Nat
          BY <1>1
        <5> QED
          BY <1>2, <2>0, <3>2, <5>1
      <4>2. h[s \ {SumFirst(s)}] = g[s \ {SumFirst(s)}]
        BY <4>1
      <4> QED
        BY <4>2, <3>2 DEF SumBody
    <3> QED
      BY <3>1, <3>2
  <2>6. \A s \in Upto(n + 1) : h[s] = SumBody(h, f, s)
    BY <2>4, <2>5, ZenonT(30)
  <2> HIDE DEF h, Upto
  <2> QED
    BY <2>0, <2>3, <2>6 DEF T
<1>5. Cardinality(S) \in T
  <2> HIDE DEF T
  <2>1. T \in SUBSET Nat
    BY DEF T
  <2> QED
    BY <1>1, <1>3, <1>4, <2>1, NumberInduction
<1>6. PICK g \in [SUBSET S -> Int] : \A s \in Upto(Cardinality(S)) : g[s] = SumBody(g, f, s)
  BY <1>5, Zenon
<1>7. \A s \in SUBSET S : g[s] = SumBody(g, f, s)
  BY <1>1, <1>6
<1>8. IsSum(g, f, S)
  BY <1>7 DEF IsSum
<1> QED
  BY <1>8

(* Any element may be taken out first. *)
LEMMA SumTakes ==
    ASSUME NEW S, IsFiniteSet(S), NEW f, \A x \in S : f[x] \in Int,
           NEW g, IsSum(g, f, S)
    PROVE  \A s \in SUBSET S : g[s] \in Int /\ \A x \in s : g[s] = f[x] + g[s \ {x}]
<1> DEFINE Right(s) == g[s] \in Int /\ \A x \in s : g[s] = f[x] + g[s \ {x}]
           T == {n \in Nat : \A s \in SUBSET S : Cardinality(s) <= n => Right(s)}
<1>0. \A s \in SUBSET S : IsFiniteSet(s) /\ Cardinality(s) \in Nat /\ (Cardinality(s) = 0 => s = {})
  BY FS_Subset, FS_CardinalityType, FS_EmptySet
<1>1. \A s \in SUBSET S : g[s] = SumBody(g, f, s)
  BY DEF IsSum
<1>2. 0 \in T
  <2>1. g[{}] = 0
    BY <1>1, ZenonT(30) DEF SumBody
  <2> QED
    BY <1>0, <2>1
<1>3. ASSUME NEW n \in T PROVE n + 1 \in T
  <2>0. n \in Nat /\ \A s \in SUBSET S : Cardinality(s) <= n => Right(s)
    OBVIOUS
  <2> HIDE DEF T, Right
  <2> SUFFICES ASSUME NEW s \in SUBSET S, Cardinality(s) <= n + 1 PROVE Right(s)
    BY <2>0 DEF T
  <2>1. CASE s = {}
    BY <1>0, <2>0, <2>1, FS_EmptySet
  <2>2. CASE s # {}
    <3> DEFINE c == SumFirst(s)
    <3>1. c \in s /\ g[s] = f[c] + g[s \ {c}]
      BY <1>1, <2>2 DEF SumBody, SumFirst
    <3>2. \A x \in s : s \ {x} \in SUBSET S /\ Right(s \ {x})
      <4> TAKE x \in s
      <4>1. Cardinality(s \ {x}) = Cardinality(s) - 1
        BY <1>0, FS_RemoveElement
      <4> QED
        BY <1>0, <2>0, <4>1
    <3>3. g[s] \in Int
      <4>1. g[s \ {c}] \in Int /\ f[c] \in Int
        BY <3>1, <3>2, Zenon DEF Right
      <4> HIDE DEF c
      <4> QED
        BY <3>1, <4>1
    <3>4. ASSUME NEW x \in s, x # c PROVE g[s] = f[x] + g[s \ {x}]
      <4>1. g[s \ {c}] = f[x] + g[(s \ {c}) \ {x}]
        BY <3>1, <3>2, <3>4 DEF Right
      <4>2. g[s \ {x}] = f[c] + g[(s \ {x}) \ {c}]
        BY <3>1, <3>2, <3>4, ZenonT(30) DEF Right
      <4>3. (s \ {c}) \ {x} = (s \ {x}) \ {c}
        OBVIOUS
      <4>4. g[(s \ {c}) \ {x}] \in Int
        <5>1. Right((s \ {c}) \ {x})
          <6>1. Cardinality(s \ {c}) = Cardinality(s) - 1 /\ IsFiniteSet(s \ {c})
            BY <1>0, <3>1, FS_RemoveElement
          <6>2. Cardinality((s \ {c}) \ {x}) = Cardinality(s \ {c}) - 1
            BY <6>1, <3>4, FS_RemoveElement, Zenon
          <6> QED
            BY <1>0, <2>0, <6>1, <6>2
        <5> QED
          BY <5>1 DEF Right
      <4>5. f[x] \in Int /\ f[c] \in Int
        BY <3>1
      <4> HIDE DEF c
      <4> DEFINE rest == g[(s \ {x}) \ {c}]
      <4>6. g[s] = f[c] + (f[x] + rest)
        BY <3>1, <4>1, <4>3
      <4>7. g[s \ {x}] = f[c] + rest /\ rest \in Int
        BY <4>2, <4>3, <4>4
      <4> HIDE DEF rest
      <4> QED
        BY <4>5, <4>6, <4>7
    <3> QED
      BY <3>1, <3>3, <3>4, Zenon DEF Right
  <2> QED
    BY <2>1, <2>2
<1>4. T = Nat
  <2>1. T \in SUBSET Nat
    OBVIOUS
  <2> HIDE DEF T
  <2> QED
    BY <1>2, <1>3, <2>1, NumberInduction
<1> QED
  <2> SUFFICES ASSUME NEW s \in SUBSET S PROVE Right(s)
    OBVIOUS
  <2>1. Cardinality(s) \in Nat
    BY <1>0
  <2> QED
    BY <1>4, <2>1

(* The sum over s depends on s, and on f for its elements, only. *)
LEMMA SumDepends ==
    ASSUME NEW S, IsFiniteSet(S), NEW f, NEW g, IsSum(g, f, S),
           NEW R, NEW e, NEW h, IsSum(h, e, R), S \subseteq R, \A x \in S : f[x] = e[x]
    PROVE  g[S] = h[S]
<1> DEFINE T == {n \in Nat : \A s \in SUBSET S : Cardinality(s) <= n => g[s] = h[s]}
<1>0. \A s \in SUBSET S : IsFiniteSet(s) /\ Cardinality(s) \in Nat /\ (Cardinality(s) = 0 => s = {})
  BY FS_Subset, FS_CardinalityType, FS_EmptySet
<1>1. \A s \in SUBSET S : g[s] = SumBody(g, f, s) /\ h[s] = SumBody(h, e, s)
  BY DEF IsSum
<1>2. 0 \in T
  <2>1. g[{}] = 0 /\ h[{}] = 0
    BY <1>1 DEF SumBody
  <2> QED
    BY <1>0, <2>1
<1>3. ASSUME NEW n \in T PROVE n + 1 \in T
  <2>0. n \in Nat /\ \A s \in SUBSET S : Cardinality(s) <= n => g[s] = h[s]
    OBVIOUS
  <2> HIDE DEF T
  <2> SUFFICES ASSUME NEW s \in SUBSET S, Cardinality(s) <= n + 1 PROVE g[s] = h[s]
    BY <2>0 DEF T
  <2>1. CASE s = {}
    BY <1>1, <2>1, Zenon DEF SumBody
  <2>2. CASE s # {}
    <3> DEFINE c == SumFirst(s)
    <3>1. c \in s
      BY <2>2 DEF SumFirst
    <3>2. Cardinality(s \ {c}) = Cardinality(s) - 1
      BY <1>0, <3>1, FS_RemoveElement
    <3>3. g[s \ {c}] = h[s \ {c}]
      BY <1>0, <2>0, <3>2
    <3> QED
      BY <1>1, <2>2, <3>1, <3>3 DEF SumBody
  <2> QED
    BY <2>1, <2>2
<1>4. T = Nat
  <2>1. T \in SUBSET Nat
    OBVIOUS
  <2> HIDE DEF T
  <2> QED
    BY <1>2, <1>3, <2>1, NumberInduction
<1> QED
  <2>1. Cardinality(S) \in Nat
    BY <1>0
  <2> QED
    BY <1>4, <2>1

(* A sum of integers (naturals) is an integer (a natural), and the sum over no
   element is 0. *)
LEMMA SumType ==
    ASSUME NEW S, IsFiniteSet(S), NEW f, \A x \in S : f[x] \in Int
    PROVE  SumFunctionOnSet(f, S) \in Int
<1>1. \E g : IsSum(g, f, S)
  BY SumExists, ZenonT(30)
<1>2. IsSum(CHOOSE g : IsSum(g, f, S), f, S)
  BY <1>1
<1> DEFINE g == CHOOSE h : IsSum(h, f, S)
<1>3. IsSum(g, f, S) /\ SumFunctionOnSet(f, S) = g[S]
  BY <1>2, SumUnfold
<1> HIDE DEF g
<1> QED
  BY <1>3, SumTakes

LEMMA SumEmpty ==
    ASSUME NEW f
    PROVE  SumFunctionOnSet(f, {}) = 0
<1>1. IsFiniteSet({})
  BY FS_EmptySet
<1>2. \E g : IsSum(g, f, {})
  BY <1>1, SumExists, Zenon
<1> DEFINE g == CHOOSE h : IsSum(h, f, {})
<1>3. IsSum(g, f, {}) /\ SumFunctionOnSet(f, {}) = g[{}]
  BY <1>2, SumUnfold
<1> HIDE DEF g
<1> QED
  BY <1>3 DEF IsSum, SumBody

(* The sum over S and one element more. *)
LEMMA SumAdd ==
    ASSUME NEW S, IsFiniteSet(S), NEW x, x \notin S, NEW f, \A y \in S \cup {x} : f[y] \in Int
    PROVE  SumFunctionOnSet(f, S \cup {x}) = SumFunctionOnSet(f, S) + f[x]
<1> DEFINE R == S \cup {x}
<1>1. IsFiniteSet(R)
  BY FS_AddElement
<1>2. (\E g : IsSum(g, f, S)) /\ (\E h : IsSum(h, f, R))
  BY <1>1, SumExists, ZenonT(30)
<1>3. PICK g : IsSum(g, f, S) /\ SumFunctionOnSet(f, S) = g[S]
  BY <1>2, SumUnfold
<1>4. PICK h : IsSum(h, f, R) /\ SumFunctionOnSet(f, R) = h[R]
  BY <1>2, SumUnfold
<1>5. g[S] = h[S]
  BY <1>3, <1>4, SumDepends
<1>6. h[R] = f[x] + h[R \ {x}] /\ h[S] \in Int
  BY <1>1, <1>4, SumTakes
<1>7. R \ {x} = S
  OBVIOUS
<1>8. f[x] \in Int
  OBVIOUS
<1>9. SumFunctionOnSet(f, R) = f[x] + SumFunctionOnSet(f, S) /\ SumFunctionOnSet(f, S) \in Int
  <2> HIDE DEF R
  <2> QED
    BY <1>3, <1>4, <1>5, <1>6, <1>7, ZenonT(30)
<1> QED
  BY <1>8, <1>9

(* Functions that agree on S have the same sum over it. *)
LEMMA SumCongruence ==
    ASSUME NEW S, IsFiniteSet(S), NEW f, NEW e, \A x \in S : f[x] \in Int /\ e[x] = f[x]
    PROVE  SumFunctionOnSet(e, S) = SumFunctionOnSet(f, S)
<1>2. (\E g : IsSum(g, f, S)) /\ (\E h : IsSum(h, e, S))
  BY SumExists, ZenonT(30)
<1>3. PICK g : IsSum(g, f, S) /\ SumFunctionOnSet(f, S) = g[S]
  BY <1>2, SumUnfold
<1>4. PICK h : IsSum(h, e, S) /\ SumFunctionOnSet(e, S) = h[S]
  BY <1>2, SumUnfold
<1> QED
  BY <1>3, <1>4, SumDepends

(* What a change of one addend does to the sum. *)
LEMMA SumUpdate ==
    ASSUME NEW S, IsFiniteSet(S), NEW f, NEW e, NEW x \in S,
           \A y \in S : f[y] \in Int, e[x] \in Int, \A y \in S \ {x} : e[y] = f[y]
    PROVE  SumFunctionOnSet(e, S) = SumFunctionOnSet(f, S) - f[x] + e[x]
<1> DEFINE R == S \ {x}
<1>1. IsFiniteSet(R) /\ R \cup {x} = S /\ x \notin R
  BY FS_RemoveElement
<1>2. SumFunctionOnSet(e, R) = SumFunctionOnSet(f, R)
  BY <1>1, SumCongruence
<1>3. SumFunctionOnSet(f, R \cup {x}) = SumFunctionOnSet(f, R) + f[x]
  BY <1>1, SumAdd
<1>4. SumFunctionOnSet(e, R \cup {x}) = SumFunctionOnSet(e, R) + e[x]
  <2>1. \A y \in R \cup {x} : e[y] \in Int
    OBVIOUS
  <2> HIDE DEF R
  <2> QED
    BY <1>1, <2>1, SumAdd
<1>5. SumFunctionOnSet(f, R) \in Int /\ f[x] \in Int
  BY <1>1, SumType
<1>6. /\ SumFunctionOnSet(f, S) = SumFunctionOnSet(f, R) + f[x]
      /\ SumFunctionOnSet(e, S) = SumFunctionOnSet(f, R) + e[x]
  BY <1>1, <1>2, <1>3, <1>4
<1> HIDE DEF R
<1> QED
  BY <1>5, <1>6

(* A sum of naturals is a natural, at least as large as each of them, and 0
   only when they all are. *)
LEMMA SumNat ==
    ASSUME NEW S, IsFiniteSet(S), NEW f, \A x \in S : f[x] \in Nat
    PROVE  /\ SumFunctionOnSet(f, S) \in Nat
           /\ \A x \in S : f[x] <= SumFunctionOnSet(f, S)
<1> DEFINE T == {s \in SUBSET S : /\ SumFunctionOnSet(f, s) \in Nat
                                 /\ \A x \in s : f[x] <= SumFunctionOnSet(f, s)}
<1>1. {} \in T
  BY SumEmpty
<1>2. ASSUME NEW s \in T, NEW x \in S \ s PROVE s \cup {x} \in T
  <2>1. SumFunctionOnSet(f, s \cup {x}) = SumFunctionOnSet(f, s) + f[x]
    <3>1. IsFiniteSet(s)
      BY FS_Subset
    <3>2. x \notin s /\ \A y \in s \cup {x} : f[y] \in Int
      OBVIOUS
    <3> QED
      BY <3>1, <3>2, SumAdd
  <2>2. SumFunctionOnSet(f, s) \in Nat /\ \A y \in s : f[y] <= SumFunctionOnSet(f, s)
    OBVIOUS
  <2>3. f[x] \in Nat /\ \A y \in s : f[y] \in Nat
    OBVIOUS
  <2>4. \A y \in s \cup {x} : f[y] <= SumFunctionOnSet(f, s \cup {x})
    BY <2>1, <2>2, <2>3
  <2> QED
    BY <2>1, <2>2, <2>3, <2>4
<1>3. S \in T
  <2> HIDE DEF T
  <2> QED
    BY <1>1, <1>2, SetInduction, ZenonT(30)
<1> QED
  BY <1>3
=============================================================================
