----------------------------- MODULE Induction -----------------------------
(***************************************************************************)
(* Induction over the natural numbers, stated of sets: what the recursive  *)
(* functions of the other modules compute, and how far a list is counted,  *)
(* is proved with it.                                                      *)
(***************************************************************************)
EXTENDS WellFoundedInduction, TLAPS

LEMMA LessIsWellFounded ==
    \E R : IsWellFoundedOn(R, Nat) /\ \A x, y \in Nat : x < y => <<x, y>> \in R
  <1>1. ASSUME NEW x \in Nat, NEW y \in Nat, x < y PROVE <<x, y>> \in OpToRel(<, Nat)
    BY <1>1, Zenon DEF OpToRel
  <1> QED
    BY <1>1, NatLessThanWellFounded, Zenon

\* Every set of natural numbers that is not empty has a least element.
LEMMA LeastNumber ==
    ASSUME NEW T, T \subseteq Nat, T # {} PROVE \E x \in T : \A y \in T : x <= y
  <1>1. PICK R : IsWellFoundedOn(R, Nat) /\ \A x, y \in Nat : x < y => <<x, y>> \in R
    BY LessIsWellFounded, Zenon
  <1>2. IsWellFoundedOn(R, Nat)
    BY <1>1, Zenon
  <1>3. \A x, y \in Nat : x < y => <<x, y>> \in R
    BY <1>1, Zenon
  <1>4. \E x \in T : \A y \in T : ~(<<y, x>> \in R)
    BY <1>2, WFMin
  <1>5. PICK x \in T : \A y \in T : ~(<<y, x>> \in R)
    BY <1>4
  <1>6. ASSUME NEW y \in T PROVE x <= y
    <2>1. ~(y < x)
      BY <1>3, <1>5
    <2> QED
      BY <2>1
  <1> QED
    BY <1>6

\* A set that has 0, and n + 1 with every n, has every natural number.
LEMMA SetInduction ==
    ASSUME NEW S, 0 \in S, \A n \in Nat : n \in S => n + 1 \in S PROVE Nat \subseteq S
  <1> SUFFICES ASSUME Nat \ S # {} PROVE FALSE
    OBVIOUS
  <1>1. PICK x \in Nat \ S : \A y \in Nat \ S : x <= y
    BY LeastNumber
  <1>2. x # 0 /\ x - 1 \in Nat /\ ~(x <= x - 1)
    BY <1>1
  <1>3. x - 1 \in S
    BY <1>1, <1>2
  <1>4. (x - 1) + 1 \in S
    BY <1>2, <1>3
  <1> QED
    BY <1>4

\* The same, up to a last number.
LEMMA BoundedInduction ==
    ASSUME NEW N \in Nat, NEW S, 0 \in S, \A n \in 0 .. N - 1 : n \in S => n + 1 \in S
    PROVE  0 .. N \subseteq S
  <1> DEFINE T == {n \in Nat : n <= N => n \in S}
  <1>1. 0 \in T /\ \A n \in Nat : n \in T => n + 1 \in T
    OBVIOUS
  <1> HIDE DEF T
  <1>2. Nat \subseteq T
    BY <1>1, SetInduction
  <1> QED
    BY <1>2 DEF T

\* What a function computes step by step, from its value at 0: there is such a
\* function, and its values are in the set that the steps do not leave.
StepByStep(f, N, a, G) ==
    f = [n \in 0 .. N |-> IF n = 0 THEN a ELSE G[<<n, f[n - 1]>>]]

LEMMA StepsExist ==
    ASSUME NEW N \in Nat, NEW a, NEW G PROVE \E f : StepByStep(f, N, a, G)
  <1> DEFINE S == {n \in Nat : \E f : StepByStep(f, n, a, G)}
  <1>1. 0 \in S
    <2> DEFINE g == [n \in 0 .. 0 |-> a]
    <2>1. g = [n \in 0 .. 0 |-> IF n = 0 THEN a ELSE G[<<n, g[n - 1]>>]]
      OBVIOUS
    <2> QED
      BY <2>1 DEF StepByStep
  <1>2. ASSUME NEW m \in Nat, m \in S PROVE m + 1 \in S
    <2>1. PICK f : StepByStep(f, m, a, G)
      BY <1>2
    <2> DEFINE g == [n \in 0 .. m + 1 |-> IF n = m + 1 THEN G[<<m + 1, f[m]>>] ELSE f[n]]
    <2>2. ASSUME NEW n \in 0 .. m + 1
          PROVE  g[n] = IF n = 0 THEN a ELSE G[<<n, g[n - 1]>>]
      <3>1. CASE n = m + 1
        <4>1. g[n] = G[<<m + 1, f[m]>>]
          BY <3>1
        <4>2. g[m] = f[m] /\ n - 1 = m /\ n # 0
          BY <3>1
        <4> QED
          BY <3>1, <4>1, <4>2
      <3>2. CASE n = 0
        BY <2>1, <3>2 DEF StepByStep
      <3>3. CASE n \in 1 .. m
        <4>1. g[n] = f[n] /\ g[n - 1] = f[n - 1]
          BY <3>3
        <4>2. f[n] = G[<<n, f[n - 1]>>]
          BY <2>1, <3>3 DEF StepByStep
        <4> QED
          BY <3>3, <4>1, <4>2
      <3> QED
        BY <3>1, <3>2, <3>3
    <2> HIDE DEF g
    <2>3. g = [n \in 0 .. m + 1 |-> g[n]]
      BY DEF g
    <2>4. StepByStep(g, m + 1, a, G)
      BY <2>2, <2>3, Zenon DEF StepByStep
    <2> QED
      BY <2>4
  <1> HIDE DEF S
  <1>3. Nat \subseteq S
    BY <1>1, <1>2, SetInduction
  <1> QED
    BY <1>3 DEF S

LEMMA StepsStay ==
    ASSUME NEW N \in Nat, NEW T, NEW a \in T, NEW G, NEW f, StepByStep(f, N, a, G),
           \A n \in 1 .. N, x \in T : G[<<n, x>>] \in T
    PROVE  \A n \in 0 .. N : f[n] \in T
  <1> DEFINE S == {n \in 0 .. N : f[n] \in T}
  <1>1. 0 \in S
    BY DEF StepByStep
  <1>2. ASSUME NEW n \in 0 .. N - 1, n \in S PROVE n + 1 \in S
    <2>1. n + 1 \in 1 .. N /\ n + 1 # 0 /\ (n + 1) - 1 = n
      OBVIOUS
    <2>2. f[n + 1] = G[<<n + 1, f[n]>>]
      BY <2>1 DEF StepByStep
    <2> QED
      BY <1>2, <2>1, <2>2
  <1> HIDE DEF S
  <1>3. 0 .. N \subseteq S
    BY <1>1, <1>2, BoundedInduction
  <1> QED
    BY <1>3 DEF S

=============================================================================
