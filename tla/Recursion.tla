----------------------------- MODULE Recursion ------------------------------
(***************************************************************************)
(* Induction over the naturals and recursive functions, stated for sets    *)
(* and functions, in the form in which the proofs of the other modules     *)
(* use them.                                                               *)
(***************************************************************************)
EXTENDS Integers, FiniteSetsExt, WellFoundedInduction, TLAPS

(* A set of naturals that is not empty has a least element.                *)
LEMMA LeastExists ==
    ASSUME NEW S \in SUBSET Nat, S # {}
    PROVE  \E x \in S : \A y \in S : x <= y
  <1> DEFINE R == OpToRel(<, Nat)
  <1>1. IsWellFoundedOn(R, Nat)
    BY NatLessThanWellFounded
  <1>2. \A x, y \in Nat : <<x, y>> \in R <=> x < y
    BY DEF OpToRel
  <1> HIDE DEF R
  <1>3. PICK x \in S : \A y \in S : ~ (<<y, x>> \in R)
    BY <1>1, WFMin
  <1>4. ASSUME NEW y \in S PROVE x <= y
    <2>1. x \in Nat /\ y \in Nat
      OBVIOUS
    <2>2. ~(y < x)
      BY <1>2, <1>3, <2>1, Zenon
    <2> QED
      BY <2>1, <2>2
  <1> QED
    BY <1>4

(* Min picks it: the loops that stop at the first match.                   *)
LEMMA MinIsLeast ==
    ASSUME NEW S \in SUBSET Nat, S # {}
    PROVE  Min(S) \in S /\ \A y \in S : Min(S) <= y
  BY LeastExists DEF Min

(* Induction: a set that holds 0, and n + 1 with every n, holds all.       *)
LEMMA NatInduct ==
    ASSUME NEW T, 0 \in T, \A n \in Nat : n \in T => n + 1 \in T
    PROVE  Nat \subseteq T
  <1> SUFFICES ASSUME Nat \ T # {} PROVE FALSE
    OBVIOUS
  <1>1. PICK n \in Nat \ T : \A y \in Nat \ T : n <= y
    BY LeastExists
  <1>2. n # 0 /\ n - 1 \in Nat
    BY <1>1
  <1>3. n - 1 \in T
    BY <1>1, <1>2
  <1> QED
    BY <1>1, <1>2, <1>3

(* The same from 0 up to a bound.                                          *)
LEMMA IntervalInduct ==
    ASSUME NEW N \in Nat, NEW T, 0 \in T, \A n \in 0 .. N - 1 : n \in T => n + 1 \in T
    PROVE  0 .. N \subseteq T
  <1> SUFFICES ASSUME (0 .. N) \ T # {} PROVE FALSE
    OBVIOUS
  <1>0. (0 .. N) \ T \in SUBSET Nat
    OBVIOUS
  <1>1. PICK n \in (0 .. N) \ T : \A y \in (0 .. N) \ T : n <= y
    BY <1>0, LeastExists
  <1>2. n # 0 /\ n - 1 \in 0 .. N - 1
    BY <1>1
  <1>3. n - 1 \in T
    BY <1>1, <1>2
  <1> QED
    BY <1>1, <1>2, <1>3

(* A loop of N rounds whose round k turns v into step[k][v]: f holds the   *)
(* values after each round.                                                *)
Rounds(f, N, first, step) == f[0] = first /\ \A k \in 1 .. N : f[k] = step[k][f[k - 1]]

(* The rounds keep the values within V.                                    *)
StaysIn(V, N, step) == \A k \in 1 .. N : \A v \in V : step[k][v] \in V

(* Such a loop has its function of values.                                 *)
LEMMA LoopExists ==
    ASSUME NEW N \in Nat, NEW V, NEW first \in V, NEW step, StaysIn(V, N, step)
    PROVE  \E f \in [0 .. N -> V] : Rounds(f, N, first, step)
  <1> DEFINE T == {n \in 0 .. N : \E f \in [0 .. n -> V] : Rounds(f, n, first, step)}
  <1>1. 0 \in T
    <2> DEFINE f == [k \in 0 .. 0 |-> first]
    <2>1. f \in [0 .. 0 -> V] /\ f[0] = first
      OBVIOUS
    <2>2. Rounds(f, 0, first, step)
      BY <2>1 DEF Rounds
    <2> HIDE DEF f
    <2> QED
      BY <2>1, <2>2
  <1>2. ASSUME NEW n \in 0 .. N - 1, n \in T PROVE n + 1 \in T
    <2>1. PICK f \in [0 .. n -> V] : Rounds(f, n, first, step)
      BY <1>2
    <2> DEFINE g == [k \in 0 .. n + 1 |-> IF k = n + 1 THEN step[n + 1][f[n]] ELSE f[k]]
    <2>2. n \in 0 .. n /\ n + 1 \in 1 .. N /\ 0 .. n + 1 \subseteq Nat
      OBVIOUS
    <2>3. f[n] \in V /\ step[n + 1][f[n]] \in V
      BY <2>2 DEF StaysIn
    <2>4. g \in [0 .. n + 1 -> V]
      BY <2>3
    <2>5. Rounds(g, n + 1, first, step)
      <3>1. g[0] = first
        BY <2>1 DEF Rounds
      <3>2. ASSUME NEW k \in 1 .. n + 1 PROVE g[k] = step[k][g[k - 1]]
        <4>1. CASE k = n + 1
          BY <4>1
        <4>2. CASE k # n + 1
          <5>1. k \in 1 .. n /\ k - 1 \in 0 .. n
            BY <4>2
          <5>2. g[k] = f[k] /\ g[k - 1] = f[k - 1]
            BY <5>1
          <5> QED
            BY <2>1, <5>1, <5>2 DEF Rounds
        <4> QED
          BY <4>1, <4>2
      <3> HIDE DEF g
      <3> QED
        BY <3>1, <3>2 DEF Rounds
    <2> HIDE DEF g
    <2> QED
      BY <2>2, <2>4, <2>5
  <1> HIDE DEF T
  <1>3. \A n \in 0 .. N - 1 : n \in T => n + 1 \in T
    BY <1>2
  <1>4. 0 .. N \subseteq T
    BY <1>1, <1>3, IntervalInduct
  <1>5. N \in T
    BY <1>4
  <1> QED
    BY <1>5 DEF T
=============================================================================
