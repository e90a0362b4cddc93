------------------------------ MODULE Induction ------------------------------
(***************************************************************************)
(* Induction and recursion over numbers, in a form that needs no operator  *)
(* as a parameter: a property is a set, and the step of a recursion is a   *)
(* function.  Everything rests on the well-founded order of the naturals.  *)
(***************************************************************************)
EXTENDS Naturals, Sequences, WellFoundedInduction, TLAPS

\* A set of numbers that is not empty has a least element.
LEMMA Least ==
    ASSUME NEW T, T \subseteq Nat, T # {}
    PROVE  \E n \in T : \A m \in T : n <= m
<1> DEFINE R == OpToRel(<, Nat)
<1>1. IsWellFoundedOn(R, Nat)
  BY NatLessThanWellFounded
<1>2. ASSUME NEW m \in Nat, NEW n \in Nat, m < n PROVE <<m, n>> \in R
  BY <1>2, Z3 DEF OpToRel
<1> HIDE DEF R
<1>3. PICK n \in T : \A m \in T : ~(<<m, n>> \in R)
  BY <1>1, WFMin
<1>4. ASSUME NEW m \in T PROVE n <= m
  <2>1. ~(m < n)
    BY <1>2, <1>3
  <2> QED
    BY <2>1
<1> QED
  BY <1>4

\* What holds of 0, and of n + 1 when it holds of n, holds of every number.
LEMMA InductionOnNat ==
    ASSUME NEW P, 0 \in P, \A n \in Nat \cap P : n + 1 \in P
    PROVE  Nat \subseteq P
<1> SUFFICES ASSUME Nat \ P # {} PROVE FALSE
  OBVIOUS
<1>1. PICK n \in Nat \ P : \A m \in Nat \ P : n <= m
  BY Least
<1>2. n - 1 \in Nat \cap P
  BY <1>1
<1> QED
  BY <1>2, <1>1

\* The same up to a bound.
LEMMA InductionUpTo ==
    ASSUME NEW n \in Nat, NEW P, 0 \in P,
           \A i \in 1 .. n : i - 1 \in P => i \in P
    PROVE  \A i \in 0 .. n : i \in P
<1> DEFINE Q == {i \in Nat : i <= n => i \in P}
<1>1. 0 \in Q
  OBVIOUS
<1>2. ASSUME NEW i \in Nat \cap Q PROVE i + 1 \in Q
  <2> SUFFICES ASSUME i + 1 <= n PROVE i + 1 \in P
    OBVIOUS
  <2>1. i + 1 \in 1 .. n /\ (i + 1) - 1 = i /\ i \in P
    OBVIOUS
  <2> QED
    BY <2>1
<1> HIDE DEF Q
<1>3. Nat \subseteq Q
  BY <1>1, <1>2, InductionOnNat
<1> QED
  BY <1>3 DEF Q

\* G takes a value, and a number up to n, to the next value.
IsStep(G, S, n) == G \in [S \X (1 .. n) -> S]

\* f starts with s and goes on as G says.
Follows(f, S, s, n, G) ==
    /\ f \in [0 .. n -> S]
    /\ f[0] = s
    /\ \A i \in 1 .. n : f[i] = G[<<f[i - 1], i>>]

\* There is a function that starts as one says and goes on as one says.
LEMMA Recursion ==
    ASSUME NEW S, NEW s \in S, NEW n \in Nat, NEW G, IsStep(G, S, n)
    PROVE  \E f : Follows(f, S, s, n, G)
<1> DEFINE Made(g, k) == /\ g[0] = s
                         /\ \A i \in 1 .. k : g[i] = G[<<g[i - 1], i>>]
           P == {k \in Nat : \E g \in [0 .. k -> S] : Made(g, k)}
<1> USE DEF IsStep
<1>1. 0 \in P
  <2>1. [i \in 0 .. 0 |-> s] \in [0 .. 0 -> S] /\ Made([i \in 0 .. 0 |-> s], 0)
    OBVIOUS
  <2> QED
    BY <2>1
<1>2. ASSUME NEW k \in 1 .. n, k - 1 \in P PROVE k \in P
  <2>1. PICK g \in [0 .. k - 1 -> S] : Made(g, k - 1)
    BY <1>2
  <2> DEFINE h == [i \in 0 .. k |-> IF i < k THEN g[i] ELSE G[<<g[k - 1], k>>]]
  <2>2. g[k - 1] \in S /\ <<g[k - 1], k>> \in S \X (1 .. n)
    OBVIOUS
  <2>3. h \in [0 .. k -> S]
    BY <2>2
  <2>4. h[k] = G[<<h[k - 1], k>>] /\ h[0] = s
    <3>1. k - 1 \in 0 .. k /\ k - 1 < k /\ 0 < k /\ 0 \in 0 .. k
      OBVIOUS
    <3>2. h[k - 1] = g[k - 1] /\ h[0] = g[0]
      BY <3>1
    <3>3. k \in 0 .. k /\ ~(k < k)
      OBVIOUS
    <3>4. h[k] = G[<<g[k - 1], k>>]
      BY <3>3
    <3> QED
      BY <2>1, <3>2, <3>4
  <2>5. ASSUME NEW i \in 1 .. k - 1 PROVE h[i] = G[<<h[i - 1], i>>]
    BY <2>1
  <2> HIDE DEF h
  <2>6. Made(h, k)
    <3>1. \A i \in 1 .. k : i = k \/ i \in 1 .. k - 1
      OBVIOUS
    <3> QED
      BY <2>4, <2>5, <3>1
  <2> QED
    BY <2>3, <2>6
<1> HIDE DEF P
<1>3. n \in P
  BY <1>1, <1>2, InductionUpTo
<1> QED
  BY <1>3 DEF P, Follows
=============================================================================
