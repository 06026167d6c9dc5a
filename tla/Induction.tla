----------------------------- MODULE Induction -----------------------------
(***************************************************************************)
(* Induction over the naturals and over functions defined by recursion.    *)
(* The library states both for a predicate and a step that are operators.  *)
(* Here they are a set and a function, which every prover can instantiate. *)
(***************************************************************************)
EXTENDS Integers, WellFoundedInduction, TLAPS

\* A set of naturals that is not empty has a least element.
LEMMA LeastElement ==
  ASSUME NEW S, S \subseteq Nat, S # {}
  PROVE  \E m \in S : \A k \in S : m <= k
<1> DEFINE R == {p \in Nat \X Nat : p[1] < p[2]}
<1>1. OpToRel(<, Nat) = R
  BY DEF OpToRel
<1>2. IsWellFoundedOn(R, Nat)
  BY <1>1, NatLessThanWellFounded
<1> HIDE DEF R
<1>3. PICK m \in S : \A k \in S : ~ (<<k, m>> \in R)
  BY <1>2, WFMin
<1>4. ASSUME NEW k \in S
      PROVE  m <= k
  <2>1. ~ (<<k, m>> \in R)
    BY <1>3
  <2>2. <<k, m>> \in Nat \X Nat /\ <<k, m>>[1] = k /\ <<k, m>>[2] = m
    OBVIOUS
  <2> QED
    BY <2>1, <2>2 DEF R
<1> QED
  BY <1>3, <1>4

\* A set with 0 and the successor of each of its elements below N has all
\* naturals up to N.
LEMMA InductionUpTo ==
  ASSUME NEW N \in Nat, NEW S, 0 \in S,
         \A n \in 0..(N - 1) : n \in S => n + 1 \in S
  PROVE  0..N \subseteq S
<1> SUFFICES ASSUME (0..N) \ S # {}
             PROVE  FALSE
  OBVIOUS
<1>1. (0..N) \ S \subseteq Nat
  OBVIOUS
<1>2. PICK m \in (0..N) \ S : \A k \in (0..N) \ S : m <= k
  BY <1>1, LeastElement
<1>3. m # 0 /\ m - 1 \in 0..(N - 1)
  BY <1>2
<1>4. m - 1 \in S
  BY <1>2, <1>3
<1>5. (m - 1) + 1 \in S
  BY <1>3, <1>4
<1> QED
  BY <1>2, <1>5

\* g has a first value, and a step from each to the next.
Recurs(g, N, base, step) == g[0] = base /\ \A i \in 1..N : g[i] = step[i][g[i - 1]]

\* There is such a function.
LEMMA RecursionUpTo ==
  ASSUME NEW N \in Nat, NEW T, NEW base \in T, NEW step \in [1..N -> [T -> T]]
  PROVE  \E g \in [0..N -> T] : Recurs(g, N, base, step)
<1> DEFINE S == {k \in Nat : \E g \in [0..k -> T] : Recurs(g, k, base, step)}
<1>1. 0 \in S
  <2>1. [i \in 0..0 |-> base] \in [0..0 -> T] /\ Recurs([i \in 0..0 |-> base], 0, base, step)
    BY DEF Recurs
  <2> QED
    BY <2>1
<1>2. ASSUME NEW n \in 0..(N - 1), n \in S
      PROVE  n + 1 \in S
  <2>1. PICK g \in [0..n -> T] : Recurs(g, n, base, step)
    BY <1>2
  <2> DEFINE h == [i \in 0..(n + 1) |-> IF i <= n THEN g[i] ELSE step[n + 1][g[n]]]
  <2>2. n \in Nat /\ n + 1 \in 1..N /\ n \in 0..n
    OBVIOUS
  <2>3. g[n] \in T /\ step[n + 1][g[n]] \in T
    BY <2>1, <2>2
  <2>4. h \in [0..(n + 1) -> T]
    BY <2>1, <2>2, <2>3
  <2>5. h[0] = base
    BY <2>1, <2>2 DEF Recurs
  <2>6. ASSUME NEW i \in 1..(n + 1)
        PROVE  h[i] = step[i][h[i - 1]]
    <3>1. i - 1 \in 0..n /\ h[i - 1] = g[i - 1]
      BY <2>2
    <3>2. CASE i <= n
      <4>1. i \in 1..n /\ h[i] = g[i]
        BY <2>2, <3>2
      <4> QED
        BY <2>1, <3>1, <4>1 DEF Recurs
    <3>3. CASE i = n + 1
      <4>1. h[i] = step[n + 1][g[n]] /\ h[i - 1] = g[n]
        BY <2>2, <3>1, <3>3
      <4> QED
        BY <3>3, <4>1
    <3> QED
      BY <2>2, <3>2, <3>3
  <2> HIDE DEF h
  <2>7. Recurs(h, n + 1, base, step)
    BY <2>5, <2>6 DEF Recurs
  <2> QED
    BY <2>2, <2>4, <2>7
<1> HIDE DEF S
<1>3. 0..N \subseteq S
  BY <1>1, <1>2, InductionUpTo
<1>4. N \in S
  BY <1>3
<1> QED
  BY <1>4 DEF S
=============================================================================
