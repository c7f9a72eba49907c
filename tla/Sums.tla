-------------------------------- MODULE Sums --------------------------------
(***************************************************************************)
(* Induction over numbers and sums over finite sets, for the proofs of the *)
(* other modules.  The library's induction theorems take the statement as  *)
(* an operator; here it is a set, whose members are the cases that hold.   *)
(***************************************************************************)
EXTENDS Integers, Functions, FiniteSetTheorems, TLAPS

(* Every non-empty set of natural numbers has a least element.             *)
LEMMA LeastNumber ==
    ASSUME NEW T, T \subseteq Nat, T # {}
    PROVE  \E x \in T : \A y \in T : x <= y
  <1> DEFINE R == {ss \in Nat \X Nat : ss[1] < ss[2]}
  <1>1. IsWellFoundedOn(R, Nat)
    BY NatLessThanWellFounded, Zenon DEF OpToRel
  <1> HIDE DEF R
  <1>2. PICK x \in T : \A y \in T : ~(<<y, x>> \in R)
    BY <1>1, WFMin, Zenon
  <1>3. \A y \in Nat : <<y, x>> \in R <=> y < x
    BY DEF R
  <1>4. ASSUME NEW y \in T PROVE x <= y
    <2>1. x \in Nat /\ y \in Nat
      OBVIOUS
    <2>2. ~(y < x)
      BY <1>2, <1>3, <2>1, Zenon
    <2> QED
      BY <2>1, <2>2
  <1> QED
    BY <1>4

(* Induction: a set that has 0 and with n also n + 1 has every number.     *)
LEMMA InductionOverNat ==
    ASSUME NEW P, 0 \in P, \A n \in Nat : n \in P => n + 1 \in P
    PROVE  Nat \subseteq P
  <1> SUFFICES ASSUME Nat \ P # {} PROVE FALSE
    OBVIOUS
  <1>1. PICK m \in Nat \ P : \A y \in Nat \ P : m <= y
    <2>1. Nat \ P \subseteq Nat
      OBVIOUS
    <2> QED
      BY <2>1, LeastNumber
  <1>2. m - 1 \in Nat /\ m - 1 \in P
    <2>1. m # 0
      OBVIOUS
    <2>2. m - 1 \in Nat /\ ~(m <= m - 1)
      BY <2>1
    <2> QED
      BY <1>1, <2>2
  <1>3. (m - 1) + 1 = m
    OBVIOUS
  <1> QED
    BY <1>2, <1>3

(* Induction over the subsets of a finite set: a set that has every subset *)
(* that it has if it has all with one element less.                        *)
LEMMA InductionOverSubsets ==
    ASSUME NEW S, IsFiniteSet(S), NEW P, {} \in P,
           \A T \in SUBSET S : T # {} /\ (\A x \in T : T \ {x} \in P) => T \in P
    PROVE  SUBSET S \subseteq P
  <1> DEFINE Q == {n \in Nat : \A T \in SUBSET S : Cardinality(T) = n => T \in P}
  <1>1. 0 \in Q
    BY FS_Subset, FS_EmptySet
  <1>2. ASSUME NEW n \in Nat, n \in Q PROVE n + 1 \in Q
    <2> SUFFICES ASSUME NEW T \in SUBSET S, Cardinality(T) = n + 1 PROVE T \in P
      OBVIOUS
    <2>1. IsFiniteSet(T) /\ T # {}
      BY FS_Subset, FS_EmptySet
    <2>2. ASSUME NEW x \in T PROVE T \ {x} \in P
      <3> HIDE DEF Q
      <3>1. Cardinality(T \ {x}) = n
        <4>1. Cardinality(T \ {x}) = Cardinality(T) - 1
          BY <2>1, FS_RemoveElement
        <4> QED
          BY <4>1
      <3> USE DEF Q
      <3>2. T \ {x} \in SUBSET S
        OBVIOUS
      <3> QED
        BY <1>2, <3>1, <3>2
    <2> QED
      BY <2>1, <2>2
  <1>3. Nat \subseteq Q
    <2> HIDE DEF Q
    <2> QED
      BY <1>1, <1>2, InductionOverNat
  <1>4. ASSUME NEW T \in SUBSET S PROVE T \in P
    <2>1. Cardinality(T) \in Nat
      BY FS_Subset, FS_CardinalityType
    <2> QED
      BY <1>3, <2>1
  <1> QED
    BY <1>4

-----------------------------------------------------------------------------
(* What the recursion of SumFunctionOnSet defines: g adds up f over every  *)
(* set of U, one element at a time.                                        *)
AddsUp(g, f, U) ==
    g = [s \in U |-> IF s = {} THEN 0
                     ELSE f[CHOOSE x \in s : TRUE] + g[s \ {CHOOSE x \in s : TRUE}]]

(* There is such a function over the subsets of a finite set.              *)
LEMMA SumExists ==
    ASSUME NEW S, IsFiniteSet(S), NEW f
    PROVE  \E g : AddsUp(g, f, SUBSET S)
  <1> DEFINE Upto(n) == {s \in SUBSET S : Cardinality(s) <= n}
             c(s) == CHOOSE x \in s : TRUE
             P == {n \in Nat : \E g : AddsUp(g, f, Upto(n))}
  <1>0. \A s \in SUBSET S : IsFiniteSet(s) /\ Cardinality(s) \in Nat
    BY FS_Subset, FS_CardinalityType
  <1>1. 0 \in P
    <2> DEFINE g == [s \in Upto(0) |-> 0]
    <2>1. \A s \in Upto(0) : s = {}
      BY <1>0, FS_EmptySet
    <2>2. AddsUp(g, f, Upto(0))
      BY <2>1 DEF AddsUp
    <2> QED
      BY <2>2
  <1>2. ASSUME NEW n \in Nat, n \in P PROVE n + 1 \in P
    <2>1. PICK g : AddsUp(g, f, Upto(n))
      BY <1>2
    <2> DEFINE h == [s \in Upto(n + 1) |-> IF s \in Upto(n) THEN g[s]
                                           ELSE f[c(s)] + g[s \ {c(s)}]]
    <2>2. ASSUME NEW s \in Upto(n + 1), s # {} PROVE s \ {c(s)} \in Upto(n)
      <3>1. c(s) \in s
        BY <2>2
      <3> HIDE DEF c
      <3>2. Cardinality(s \ {c(s)}) = Cardinality(s) - 1
        BY <1>0, <3>1, FS_RemoveElement
      <3> QED
        BY <1>0, <3>2
    <2>3. Upto(n) \subseteq Upto(n + 1)
      BY <1>0
    <2>4. {} \in Upto(n)
      BY FS_EmptySet
    <2> HIDE DEF Upto
    <2>5. \A s \in Upto(n) : g[s] = IF s = {} THEN 0 ELSE f[c(s)] + g[s \ {c(s)}]
      BY <2>1, Zenon DEF AddsUp
    <2> HIDE DEF c
    <2>6. ASSUME NEW s \in Upto(n + 1)
          PROVE  h[s] = IF s = {} THEN 0 ELSE f[c(s)] + h[s \ {c(s)}]
      <3>1. CASE s = {}
        BY <2>3, <2>4, <2>5, <3>1
      <3>2. CASE s # {}
        <4>1. h[s \ {c(s)}] = g[s \ {c(s)}]
          BY <2>2, <2>3, <3>2
        <4> QED
          BY <2>5, <3>2, <4>1
      <3> QED
        BY <3>1, <3>2
    <2>7. h = [s \in Upto(n + 1) |-> IF s = {} THEN 0 ELSE f[c(s)] + h[s \ {c(s)}]]
      BY <2>6
    <2> HIDE DEF h
    <2>8. AddsUp(h, f, Upto(n + 1))
      BY <2>7, Zenon DEF AddsUp, c
    <2> QED
      BY <2>8
  <1>3. Nat \subseteq P
    <2> HIDE DEF P
    <2> QED
      BY <1>1, <1>2, InductionOverNat
  <1>4. SUBSET S = Upto(Cardinality(S)) /\ Cardinality(S) \in Nat
    BY <1>0, FS_Subset
  <1> QED
    BY <1>3, <1>4

(* SumFunctionOnSet is that function's value.                              *)
LEMMA SumAddsUp ==
    ASSUME NEW S, IsFiniteSet(S), NEW f
    PROVE  \E g : AddsUp(g, f, SUBSET S) /\ SumFunctionOnSet(f, S) = g[S]
  <1> DEFINE g == CHOOSE h : AddsUp(h, f, SUBSET S)
  <1>1. AddsUp(g, f, SUBSET S)
    BY SumExists, Zenon
  <1>2. SumFunctionOnSet(f, S) = g[S]
    BY Zenon DEF SumFunctionOnSet, FoldFunctionOnSet, MapThenFoldSet, AddsUp
  <1> QED
    BY <1>1, <1>2

(* A sum of integers is an integer, a sum of natural numbers a natural     *)
(* number: a set that has 0 and is closed under adding the values of f has *)
(* the sum.                                                                *)
LEMMA SumClosed ==
    ASSUME NEW S, IsFiniteSet(S), NEW f, NEW V, 0 \in V,
           \A x \in S : \A v \in V : f[x] + v \in V
    PROVE  SumFunctionOnSet(f, S) \in V
  <1>1. PICK g : AddsUp(g, f, SUBSET S) /\ SumFunctionOnSet(f, S) = g[S]
    BY SumAddsUp
  <1> DEFINE c(s) == CHOOSE x \in s : TRUE
             P == {s \in SUBSET S : g[s] \in V}
  <1>2. \A s \in SUBSET S : g[s] = IF s = {} THEN 0 ELSE f[c(s)] + g[s \ {c(s)}]
    BY <1>1, Zenon DEF AddsUp
  <1>3. \A s \in SUBSET S : s # {} => c(s) \in s
    OBVIOUS
  <1> HIDE DEF c
  <1>4. {} \in P
    BY <1>2
  <1>5. ASSUME NEW T \in SUBSET S, T # {}, \A x \in T : T \ {x} \in P
        PROVE  T \in P
    <2> DEFINE x == c(T)
               U == T \ {x}
    <2>1. x \in S /\ U \in P
      BY <1>3, <1>5
    <2>2. g[T] = f[x] + g[U]
      BY <1>2, <1>5
    <2> HIDE DEF x, U
    <2> QED
      BY <2>1, <2>2
  <1> HIDE DEF P
  <1>6. SUBSET S \subseteq P
    BY <1>4, <1>5, InductionOverSubsets
  <1> QED
    BY <1>1, <1>6 DEF P

(* Sums are monotone.                                                      *)
LEMMA SumMonotone ==
    ASSUME NEW S, IsFiniteSet(S), NEW f, NEW g,
           \A x \in S : f[x] \in Int /\ g[x] \in Int /\ f[x] <= g[x]
    PROVE  SumFunctionOnSet(f, S) <= SumFunctionOnSet(g, S)
  <1>1. PICK F : AddsUp(F, f, SUBSET S) /\ SumFunctionOnSet(f, S) = F[S]
    BY SumAddsUp
  <1>2. PICK G : AddsUp(G, g, SUBSET S) /\ SumFunctionOnSet(g, S) = G[S]
    BY SumAddsUp
  <1> DEFINE c(s) == CHOOSE x \in s : TRUE
             P == {s \in SUBSET S : F[s] \in Int /\ G[s] \in Int /\ F[s] <= G[s]}
  <1>3. \A s \in SUBSET S : F[s] = IF s = {} THEN 0 ELSE f[c(s)] + F[s \ {c(s)}]
    BY <1>1, Zenon DEF AddsUp
  <1>4. \A s \in SUBSET S : G[s] = IF s = {} THEN 0 ELSE g[c(s)] + G[s \ {c(s)}]
    BY <1>2, Zenon DEF AddsUp
  <1>5. \A s \in SUBSET S : s # {} => c(s) \in s
    OBVIOUS
  <1> HIDE DEF c
  <1>6. {} \in P
    <2>1. F[{}] = 0 /\ G[{}] = 0
      BY <1>3, <1>4
    <2> QED
      BY <2>1
  <1>7. ASSUME NEW T \in SUBSET S, T # {}, \A x \in T : T \ {x} \in P
        PROVE  T \in P
    <2> DEFINE x == c(T)
               U == T \ {x}
    <2>1. x \in S /\ U \in P
      BY <1>5, <1>7
    <2>2. F[T] = f[x] + F[U] /\ G[T] = g[x] + G[U]
      BY <1>3, <1>4, <1>7
    <2>3. F[U] \in Int /\ G[U] \in Int /\ F[U] <= G[U]
      BY <2>1
    <2>4. f[x] \in Int /\ g[x] \in Int /\ f[x] <= g[x]
      BY <2>1
    <2> HIDE DEF x, U
    <2> QED
      BY <2>2, <2>3, <2>4
  <1> HIDE DEF P
  <1>8. SUBSET S \subseteq P
    BY <1>6, <1>7, InductionOverSubsets
  <1> QED
    BY <1>1, <1>2, <1>8 DEF P

=============================================================================
