---------------------------- MODULE NatRecursion ----------------------------
(***************************************************************************)
(* Induction and recursion over the natural numbers, for the loops of the  *)
(* code that are written as recursive functions.  What is proved by        *)
(* induction is given as a set of numbers, and the step of a recursive     *)
(* function as a function, so that both can be instantiated like any other *)
(* constant.                                                               *)
(***************************************************************************)
EXTENDS Integers, WellFoundedInduction, TLAPS

(* There is no infinite descent in the natural numbers.                    *)
LEMMA NatDescends == IsWellFoundedOn({p \in Nat \X Nat : p[1] < p[2]}, Nat)
<1>1. OpToRel(<, Nat) = {p \in Nat \X Nat : p[1] < p[2]}
  BY DEF OpToRel
<1> QED
  BY <1>1, NatLessThanWellFounded

(* A set of numbers has a least one.                                       *)
LEMMA Smallest ==
  ASSUME NEW T, T \subseteq Nat, T # {}
  PROVE  \E m \in T : \A k \in T : m <= k
<1> DEFINE R == {p \in Nat \X Nat : p[1] < p[2]}
<1>1. PICK x \in T : \A y \in T : ~(<<y, x>> \in R)
  <2> HIDE DEF R
  <2> QED
    BY NatDescends, WFMin DEF R
<1>2. ASSUME NEW y \in T
      PROVE  x <= y
  <2>1. <<y, x>> \in Nat \X Nat
    OBVIOUS
  <2>2. ~(y < x)
    BY <1>1, <2>1
  <2> QED
    BY <2>2
<1> QED
  BY <1>2

(* What holds of 0 and, if of a number, then of the next, holds of all.    *)
LEMMA Induction ==
  ASSUME NEW T, 0 \in T, \A n \in Nat : n \in T => n + 1 \in T
  PROVE  Nat \subseteq T
<1> SUFFICES ASSUME Nat \ T # {}
             PROVE  FALSE
  OBVIOUS
<1>1. PICK m \in Nat \ T : \A k \in Nat \ T : m <= k
  BY Smallest
<1>2. m # 0 /\ m - 1 \in Nat /\ m - 1 \in T
  BY <1>1
<1> QED
  BY <1>1, <1>2

(* f is the function whose first value is x0 and whose n-th step is        *)
(* step[n].                                                                *)
Follows(f, X, x0, step) ==
  f \in [Nat -> X] /\ f[0] = x0 /\ \A n \in Nat : f[n + 1] = step[n][f[n]]

(* A first value and a step define a function: there are functions of the  *)
(* numbers up to n that follow the step, they agree with each other, and   *)
(* the function takes from each its last value.                            *)
LEMMA Recursion ==
  ASSUME NEW X, NEW x0 \in X, NEW step \in [Nat -> [X -> X]]
  PROVE  \E f : Follows(f, X, x0, step)
<1> DEFINE Upto(g, n) == /\ g \in [0..n -> X] /\ g[0] = x0
                         /\ \A i \in 0..(n - 1) : g[i + 1] = step[i][g[i]]
           T == {n \in Nat : \E g : Upto(g, n)}
<1>1. 0 \in T
  <2>1. Upto([i \in 0..0 |-> x0], 0)
    OBVIOUS
  <2> QED
    BY <2>1
<1>2. ASSUME NEW n \in Nat, n \in T
      PROVE  n + 1 \in T
  <2>1. PICK g : Upto(g, n)
    BY <1>2
  <2> DEFINE h == [i \in 0..(n + 1) |-> IF i = n + 1 THEN step[n][g[n]] ELSE g[i]]
  <2>2. h \in [0..(n + 1) -> X]
    <3>1. \A i \in 0..(n + 1) : i # n + 1 => i \in 0..n
      OBVIOUS
    <3> QED
      BY <2>1, <3>1
  <2>3. h[0] = x0
    BY <2>1
  <2>4. ASSUME NEW i \in 0..n
        PROVE  h[i + 1] = step[i][h[i]]
    <3>1. CASE i = n
      BY <3>1
    <3>2. CASE i # n
      BY <2>1, <3>2
    <3> QED
      BY <3>1, <3>2
  <2> HIDE DEF h
  <2>5. 0..((n + 1) - 1) = 0..n
    OBVIOUS
  <2>6. Upto(h, n + 1)
    BY <2>2, <2>3, <2>4, <2>5
  <2> HIDE DEF Upto
  <2> QED
    BY <2>6
<1>3. \A n \in Nat : \E g : Upto(g, n)
  <2> HIDE DEF Upto
  <2> QED
    BY <1>1, <1>2, Induction
<1>4. ASSUME NEW n \in Nat, NEW m \in Nat, NEW g, NEW h, Upto(g, n), Upto(h, m), n <= m
      PROVE  \A i \in 0..n : g[i] = h[i]
  <2> DEFINE S == {i \in Nat : i <= n => g[i] = h[i]}
  <2>1. 0 \in S
    BY <1>4
  <2>2. ASSUME NEW i \in Nat, i \in S
        PROVE  i + 1 \in S
    <3> SUFFICES ASSUME i + 1 <= n
                 PROVE  g[i + 1] = h[i + 1]
      OBVIOUS
    <3>1. i \in 0..(n - 1) /\ i \in 0..(m - 1) /\ g[i] = h[i]
      BY <1>4, <2>2
    <3> QED
      BY <1>4, <3>1
  <2>3. \A i \in Nat : i \in S
    <3> HIDE DEF S
    <3> QED
      BY <2>1, <2>2, Induction
  <2> QED
    BY <2>3
<1> DEFINE gs == [n \in Nat |-> CHOOSE g : Upto(g, n)]
           f == [n \in Nat |-> gs[n][n]]
<1>5. \A n \in Nat : Upto(gs[n], n)
  <2> HIDE DEF Upto
  <2> QED
    BY <1>3
<1> HIDE DEF gs
<1>6. f \in [Nat -> X] /\ f[0] = x0
  BY <1>5
<1>7. ASSUME NEW n \in Nat
      PROVE  f[n + 1] = step[n][f[n]]
  <2>1. Upto(gs[n], n) /\ Upto(gs[n + 1], n + 1)
    <3> HIDE DEF Upto
    <3> QED
      BY <1>5
  <2>2. gs[n][n] = gs[n + 1][n]
    <3>1. n + 1 \in Nat /\ n <= n + 1 /\ n \in 0..n
      OBVIOUS
    <3> HIDE DEF Upto
    <3> QED
      BY <1>4, <2>1, <3>1
  <2>3. gs[n + 1][n + 1] = step[n][gs[n + 1][n]]
    BY <2>1
  <2> QED
    BY <2>2, <2>3
<1> QED
  BY <1>6, <1>7 DEF Follows
=============================================================================
