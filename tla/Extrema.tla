------------------------------ MODULE Extrema ------------------------------
(***************************************************************************)
(* Least and greatest elements of sets of numbers, induction and loops,    *)
(* for the proofs.                                                         *)
(***************************************************************************)
EXTENDS Integers, WellFoundedInduction, TLAPS

\* A set of numbers that is not empty has a least element.
LEMMA LeastExists ==
  ASSUME NEW S \in SUBSET Nat, S # {}
  PROVE  \E k \in S : \A j \in S : k <= j
<1> DEFINE R == OpToRel(<, Nat)
<1>1. IsWellFoundedOn(R, Nat)
  BY NatLessThanWellFounded
<1>2. \A x, y \in Nat : x < y => <<x, y>> \in R
  BY DEF OpToRel
<1> HIDE DEF R
<1>3. PICK k \in S : \A y \in S : ~(<<y, k>> \in R)
  BY <1>1, WFMin
<1>4. \A j \in S : ~(j < k)
  BY <1>2, <1>3
<1>5. \A j \in S : k <= j
  BY <1>4
<1> QED  BY <1>5

\* A bounded set of numbers that is not empty has a greatest element.
LEMMA GreatestExists ==
  ASSUME NEW n \in Nat, NEW S \in SUBSET (0 .. n), S # {}
  PROVE  \E k \in S : \A j \in S : j <= k
<1> DEFINE M == {m \in 0 .. n : n - m \in S}
<1>1. M \in SUBSET Nat
  OBVIOUS
<1>2. M # {}
  <2>1. PICK j \in S : TRUE
    OBVIOUS
  <2>2. n - j \in 0 .. n /\ n - (n - j) = j
    OBVIOUS
  <2> QED  BY <2>1, <2>2
<1>3. PICK m \in M : \A l \in M : m <= l
  <2> HIDE DEF M
  <2> QED  BY <1>1, <1>2, LeastExists
<1>4. n - m \in S
  OBVIOUS
<1>5. \A j \in S : n - j \in M
  OBVIOUS
<1>6. \A j \in S : j <= n - m
  BY <1>3, <1>5
<1> QED  BY <1>4, <1>6

\* Induction over the natural numbers: a set that holds 0 and, with every
\* number, the next one, holds them all.
LEMMA SetInduction ==
  ASSUME NEW S, 0 \in S, \A n \in Nat : n \in S => n + 1 \in S
  PROVE  Nat \subseteq S
<1> DEFINE M == Nat \ S
<1> SUFFICES ASSUME M # {} PROVE FALSE
  OBVIOUS
<1>1. PICK k \in M : \A j \in M : k <= j
  <2> HIDE DEF M
  <2>1. M \in SUBSET Nat
    BY DEF M
  <2> QED  BY <2>1, LeastExists
<1>2. k \in Nat /\ k # 0
  OBVIOUS
<1>3. k - 1 \in Nat /\ k - 1 \in S
  BY <1>1, <1>2
<1>4. (k - 1) + 1 \in S /\ (k - 1) + 1 = k
  BY <1>2, <1>3
<1> QED  BY <1>4

-----------------------------------------------------------------------------
(***************************************************************************)
(* Loops.                                                                  *)
(***************************************************************************)
\* t holds the states after each of n rounds.
IsTable(t, n, x, F) == t = [k \in 0 .. n |-> IF k = 0 THEN x ELSE F[<<k, t[k - 1]>>]]

\* A loop of n rounds, F[<<k, s>>] being what round k makes of s, has a table
\* of the states after each round.
LEMMA LoopExists ==
  ASSUME NEW n \in Nat, NEW S, NEW F \in [(1 .. n) \X S -> S], NEW x \in S
  PROVE  \E t \in [0 .. n -> S] : IsTable(t, n, x, F)
<1> DEFINE Table(t, m) == /\ t \in [0 .. m -> S] /\ t[0] = x
                          /\ \A k \in 1 .. m : t[k] = F[<<k, t[k - 1]>>]
           M == {m \in Nat : m <= n => \E t : Table(t, m)}
<1>1. 0 \in M
  <2>1. Table([k \in 0 .. 0 |-> x], 0)
    OBVIOUS
  <2> QED  BY <2>1
<1>2. ASSUME NEW m \in Nat, m \in M PROVE m + 1 \in M
  <2> SUFFICES ASSUME m + 1 <= n PROVE \E t : Table(t, m + 1)
    OBVIOUS
  <2>1. PICK t : Table(t, m)
    BY <1>2
  <2> DEFINE v == F[<<m + 1, t[m]>>]  u == [k \in 0 .. m + 1 |-> IF k = m + 1 THEN v ELSE t[k]]
  <2>2. v \in S
    <3>1. t[m] \in S /\ m + 1 \in 1 .. n
      BY <2>1
    <3> QED  BY <3>1
  <2>3. u \in [0 .. m + 1 -> S] /\ u[0] = x
    <3>1. \A k \in 0 .. m : t[k] \in S
      BY <2>1
    <3>2. \A k \in 0 .. m + 1 : k = m + 1 \/ k \in 0 .. m
      OBVIOUS
    <3> HIDE DEF v
    <3> QED  BY <2>1, <2>2, <3>1, <3>2
  <2>4. ASSUME NEW k \in 1 .. m + 1 PROVE u[k] = F[<<k, u[k - 1]>>]
    <3>1. CASE k = m + 1
      <4>1. u[k] = v /\ u[k - 1] = t[m]
        BY <3>1
      <4> QED  BY <3>1, <4>1
    <3>2. CASE k # m + 1
      <4>1. k \in 1 .. m /\ u[k] = t[k] /\ u[k - 1] = t[k - 1]
        BY <3>2
      <4> QED  BY <2>1, <4>1
    <3> QED  BY <3>1, <3>2
  <2> HIDE DEF u
  <2>5. Table(u, m + 1)
    BY <2>3, <2>4
  <2> QED  BY <2>5
<1> HIDE DEF M
<1>3. n \in M
  <2>1. Nat \subseteq M
    BY <1>1, <1>2, SetInduction
  <2> QED  BY <2>1
<1>4. PICK t : Table(t, n)
  BY <1>3 DEF M
<1>5. t = [k \in 0 .. n |-> t[k]]
  BY <1>4
<1>6. \A k \in 0 .. n : t[k] = IF k = 0 THEN x ELSE F[<<k, t[k - 1]>>]
  BY <1>4
<1>7. t = [k \in 0 .. n |-> IF k = 0 THEN x ELSE F[<<k, t[k - 1]>>]]
  BY <1>5, <1>6
<1> QED  BY <1>4, <1>7 DEF IsTable

\* What holds before the first round of a loop and is kept by each round holds
\* after every round.
Keeps(t, I, n) == t[0] \in I[0] /\ \A k \in 1 .. n : t[k - 1] \in I[k - 1] => t[k] \in I[k]

LEMMA LoopInvariant ==
  ASSUME NEW n \in Nat, NEW t, NEW I, Keeps(t, I, n)
  PROVE  \A k \in 0 .. n : t[k] \in I[k]
<1> DEFINE M == {m \in Nat : m <= n => t[m] \in I[m]}
<1>1. 0 \in M
  BY DEF Keeps
<1>2. ASSUME NEW m \in Nat, m \in M PROVE m + 1 \in M
  <2> SUFFICES ASSUME m + 1 <= n PROVE t[m + 1] \in I[m + 1]
    OBVIOUS
  <2>1. m + 1 \in 1 .. n /\ (m + 1) - 1 = m /\ t[m] \in I[m]
    BY <1>2
  <2>2. t[(m + 1) - 1] \in I[(m + 1) - 1]
    BY <2>1
  <2> QED  BY <2>1, <2>2 DEF Keeps
<1> HIDE DEF M
<1>3. Nat \subseteq M
  BY <1>1, <1>2, SetInduction
<1> QED  BY <1>3 DEF M
=============================================================================
