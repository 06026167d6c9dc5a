--------------------------- MODULE EvidenceProofs ---------------------------
(***************************************************************************)
(* TypeOK, PassIsEquivalence, LimitationsAreVisible and OwnClientsPass of  *)
(* Evidence, for every hello, capture, table of ciphers, settings of the   *)
(* library and reserved value.                                             *)
(*                                                                         *)
(* The first parts are about the parsers and the mirror, and have no       *)
(* states: equal observations are of hellos, and of SYNs, that are the     *)
(* same, and the other way round; a hello of the library that is observed  *)
(* as the client's was has everything that was to be mirrored; and the     *)
(* hello of a client that is the library itself becomes settings with      *)
(* which the library sends the same hello.                                 *)
(* The last part puts them together with inductive invariants, which say   *)
(* of a document that it is what the parsers make of the wire, and of the  *)
(* library as a client that it is nowhere refused.                         *)
(***************************************************************************)
EXTENDS Evidence, Induction, SequenceTheorems, FiniteSetTheorems, TLAPS

-----------------------------------------------------------------------------
(***************************************************************************)
(* Lists: what Keep and Once return.                                       *)
(***************************************************************************)
\* The elements of a sequence after Append.
LEMMA RangeOfAppend ==
  ASSUME NEW E, NEW q \in Seq(E), NEW x \in E
  PROVE  Range(Append(q, x)) = Range(q) \cup {x}
<1> DEFINE a == Append(q, x)
<1>1. /\ DOMAIN q = 1..Len(q) /\ Len(q) \in Nat
      /\ DOMAIN a = 1..(Len(q) + 1)
      /\ a[Len(q) + 1] = x
      /\ \A i \in 1..Len(q) : a[i] = q[i]
  BY AppendProperties, LenProperties
<1> HIDE DEF a
<1> QED
  BY <1>1 DEF Range

\* The function in Keep(s, S).
KeepRecurs(g, s, S) ==
  /\ g[0] = <<>>
  /\ \A i \in 1..Len(s) : g[i] = IF s[i] \in S THEN Append(g[i - 1], s[i]) ELSE g[i - 1]

\* The recursion of Keep has a solution.
LEMMA KeepIsDefined ==
  ASSUME NEW E, NEW s \in Seq(E), NEW S
  PROVE  \E g \in [0..Len(s) -> Seq(E)] : KeepRecurs(g, s, S) /\ Keep(s, S) = g[Len(s)]
<1> DEFINE N == Len(s)
           next(i, q) == IF s[i] \in S THEN Append(q, s[i]) ELSE q
           step == [i \in 1..N |-> [q \in Seq(E) |-> next(i, q)]]
           kept == CHOOSE f : f = [i \in 0..N |-> IF i = 0 THEN <<>> ELSE
                                   IF s[i] \in S THEN Append(f[i - 1], s[i]) ELSE f[i - 1]]
<1>1. N \in Nat /\ <<>> \in Seq(E)
  BY LenProperties, EmptySeq
<1>2. \A i \in 1..N : \A q \in Seq(E) : next(i, q) \in Seq(E)
  BY ElementOfSeq, AppendProperties
<1>3. step \in [1..N -> [Seq(E) -> Seq(E)]]
  BY <1>2
<1>4. \A i \in 1..N : \A q \in Seq(E) : step[i][q] = next(i, q)
  OBVIOUS
<1>5. Keep(s, S) = kept[N]
  BY DEF Keep
<1> HIDE DEF step, N
<1>6. PICK g \in [0..N -> Seq(E)] : Recurs(g, N, <<>>, step)
  BY <1>1, <1>3, RecursionUpTo
<1>7. g[0] = <<>> /\ \A i \in 1..N : g[i] = next(i, g[i - 1])
  <2>1. ASSUME NEW i \in 1..N PROVE g[i] = next(i, g[i - 1])
    <3>1. i - 1 \in 0..N
      BY <1>1
    <3> QED
      BY <1>4, <1>6, <3>1 DEF Recurs
  <2> QED
    BY <1>6, <2>1 DEF Recurs
<1>8. g = [i \in 0..N |-> IF i = 0 THEN <<>> ELSE IF s[i] \in S THEN Append(g[i - 1], s[i]) ELSE g[i - 1]]
  <2>1. ASSUME NEW i \in 0..N
        PROVE  g[i] = IF i = 0 THEN <<>> ELSE IF s[i] \in S THEN Append(g[i - 1], s[i]) ELSE g[i - 1]
    <3>1. i = 0 \/ i \in 1..N
      BY <1>1
    <3> QED
      BY <1>7, <3>1
  <2> HIDE DEF next
  <2>2. g = [i \in 0..N |-> g[i]]
    BY <1>6
  <2> QED
    BY <2>1, <2>2, Zenon
<1>9. kept = [i \in 0..N |-> IF i = 0 THEN <<>> ELSE
                                   IF s[i] \in S THEN Append(kept[i - 1], s[i]) ELSE kept[i - 1]]
  BY <1>8, Zenon
<1>10. kept[0] = <<>> /\ \A i \in 1..N : kept[i] = next(i, kept[i - 1])
  <2>1. ASSUME NEW f, f = [i \in 0..N |-> IF i = 0 THEN <<>> ELSE
                                   IF s[i] \in S THEN Append(f[i - 1], s[i]) ELSE f[i - 1]]
        PROVE  f[0] = <<>> /\ \A i \in 1..N : f[i] = next(i, f[i - 1])
    <3>1. 0 \in 0..N /\ \A i \in 1..N : i \in 0..N /\ i # 0
      BY <1>1
    <3> QED
      BY <2>1, <3>1
  <2> HIDE DEF kept
  <2> QED
    BY <1>9, <2>1, Zenon
<1> HIDE DEF kept, next
<1> DEFINE A == {i \in 0..N : kept[i] = g[i]}
<1>11. 0..N \subseteq A
  <2>1. 0 \in A
    BY <1>1, <1>7, <1>10
  <2>2. ASSUME NEW n \in 0..(N - 1), n \in A PROVE n + 1 \in A
    <3>1. n + 1 \in 1..N /\ (n + 1) - 1 = n /\ n + 1 \in 0..N
      BY <1>1
    <3> QED
      BY <1>7, <1>10, <2>2, <3>1
  <2> HIDE DEF A
  <2> QED
    BY <1>1, <2>1, <2>2, InductionUpTo
<1>12. kept[N] = g[N]
  BY <1>1, <1>11
<1> QED
  BY <1>5, <1>6, <1>7, <1>12 DEF KeepRecurs, N, next

\* Keep returns the elements of s that are in S.
LEMMA KeepProperties ==
  ASSUME NEW E, NEW s \in Seq(E), NEW S
  PROVE  Keep(s, S) \in Seq(E) /\ Range(Keep(s, S)) = Range(s) \cap S
<1>1. PICK g \in [0..Len(s) -> Seq(E)] : KeepRecurs(g, s, S) /\ Keep(s, S) = g[Len(s)]
  BY KeepIsDefined
<1> DEFINE N == Len(s)
           A == {n \in 0..N : Range(g[n]) = {x \in E : x \in S /\ \E j \in 1..n : s[j] = x}}
<1>2. N \in Nat /\ DOMAIN s = 1..N /\ \A i \in 1..N : s[i] \in E
  BY LenProperties, ElementOfSeq
<1> HIDE DEF N
<1>3. 0..N \subseteq A
  <2>1. 0 \in A
    BY <1>1, <1>2 DEF KeepRecurs, Range
  <2>2. ASSUME NEW n \in 0..(N - 1), n \in A PROVE n + 1 \in A
    <3>1. n + 1 \in 1..N /\ (n + 1) - 1 = n /\ n \in 0..N /\ n + 1 \in 0..N
      BY <1>2
    <3>2. g[n] \in Seq(E) /\ s[n + 1] \in E
      BY <1>1, <1>2, <3>1 DEF N
    <3>3. g[n + 1] = IF s[n + 1] \in S THEN Append(g[n], s[n + 1]) ELSE g[n]
      BY <1>1, <3>1 DEF KeepRecurs, N
    <3>4. Range(g[n + 1]) = IF s[n + 1] \in S THEN Range(g[n]) \cup {s[n + 1]} ELSE Range(g[n])
      <4>1. Range(Append(g[n], s[n + 1])) = Range(g[n]) \cup {s[n + 1]}
        BY <3>2, RangeOfAppend
      <4> QED
        BY <3>3, <4>1, Zenon
    <3>5. \A j : j \in 1..(n + 1) <=> j \in 1..n \/ j = n + 1
      BY <1>2
    <3>6. Range(g[n]) = {x \in E : x \in S /\ \E j \in 1..n : s[j] = x}
      BY <2>2
    <3>7. Range(g[n + 1]) = {x \in E : x \in S /\ \E j \in 1..(n + 1) : s[j] = x}
      BY <3>2, <3>4, <3>5, <3>6
    <3> QED
      BY <3>1, <3>7
  <2> HIDE DEF A
  <2> QED
    BY <1>2, <2>1, <2>2, InductionUpTo
<1>4. N \in 0..N
  BY <1>2
<1>5. Range(g[N]) = {x \in E : x \in S /\ \E j \in 1..N : s[j] = x}
  BY <1>3, <1>4
<1>6. g[N] \in Seq(E)
  BY <1>1, <1>4 DEF N
<1>7. Range(g[N]) = Range(s) \cap S
  BY <1>2, <1>5 DEF Range
<1> QED
  BY <1>1, <1>6, <1>7 DEF N

\* What Keep returns is decided place by place.
LEMMA KeepPointwise ==
  ASSUME NEW E, NEW s \in Seq(E), NEW t \in Seq(E), NEW S, NEW T, Len(s) = Len(t),
         \A i \in 1..Len(s) : /\ s[i] \in S <=> t[i] \in T
                              /\ s[i] \in S => s[i] = t[i]
  PROVE  Keep(s, S) = Keep(t, T)
<1>1. PICK g \in [0..Len(s) -> Seq(E)] : KeepRecurs(g, s, S) /\ Keep(s, S) = g[Len(s)]
  BY KeepIsDefined
<1>2. PICK h \in [0..Len(t) -> Seq(E)] : KeepRecurs(h, t, T) /\ Keep(t, T) = h[Len(t)]
  BY KeepIsDefined
<1> DEFINE N == Len(s)
           A == {n \in 0..N : g[n] = h[n]}
<1>3. N \in Nat
  BY LenProperties
<1>4. \A i \in 1..N : (s[i] \in S <=> t[i] \in T) /\ (s[i] \in S => s[i] = t[i])
  OBVIOUS
<1>5. N = Len(t)
  OBVIOUS
<1> HIDE DEF N
<1>6. 0 \in A
  BY <1>1, <1>2, <1>3 DEF KeepRecurs
<1>7. ASSUME NEW n \in 0..(N - 1), n \in A PROVE n + 1 \in A
  <2>1. n + 1 \in 1..N /\ (n + 1) - 1 = n /\ n + 1 \in 0..N
    BY <1>3
  <2>2. g[n + 1] = IF s[n + 1] \in S THEN Append(g[n], s[n + 1]) ELSE g[n]
    BY <1>1, <2>1 DEF KeepRecurs, N
  <2>3. h[n + 1] = IF t[n + 1] \in T THEN Append(h[n], t[n + 1]) ELSE h[n]
    BY <1>2, <1>5, <2>1 DEF KeepRecurs
  <2> QED
    BY <1>4, <1>7, <2>1, <2>2, <2>3
<1> HIDE DEF A
<1>8. 0..N \subseteq A
  BY <1>3, <1>6, <1>7, InductionUpTo
<1>9. g[N] = h[N]
  BY <1>3, <1>8 DEF A
<1> QED
  BY <1>1, <1>2, <1>5, <1>9 DEF N
-----------------------------------------------------------------------------
Distinct(s) == \A i, j \in DOMAIN s : s[i] = s[j] => i = j

\* A new element behind elements that differ.
LEMMA DistinctAppend ==
  ASSUME NEW E, NEW q \in Seq(E), Distinct(q), NEW x \in E, x \notin Range(q)
  PROVE  Distinct(Append(q, x))
<1> DEFINE a == Append(q, x)
<1>1. /\ DOMAIN q = 1..Len(q) /\ Len(q) \in Nat
      /\ DOMAIN a = 1..(Len(q) + 1)
      /\ a[Len(q) + 1] = x
      /\ \A i \in 1..Len(q) : a[i] = q[i]
  BY AppendProperties, LenProperties
<1>2. \A i \in 1..Len(q) : q[i] # x
  BY <1>1 DEF Range
<1> HIDE DEF a
<1>3. ASSUME NEW i \in DOMAIN a, NEW j \in DOMAIN a, a[i] = a[j] PROVE i = j
  <2>1. \A k \in DOMAIN a : k \in 1..Len(q) \/ k = Len(q) + 1
    BY <1>1
  <2>2. CASE i \in 1..Len(q) /\ j \in 1..Len(q)
    BY <1>1, <1>3, <2>2 DEF Distinct
  <2>3. CASE ~(i \in 1..Len(q) /\ j \in 1..Len(q))
    BY <1>1, <1>2, <1>3, <2>1, <2>3
  <2> QED
    BY <2>2, <2>3
<1>4. Distinct(a)
  BY <1>3 DEF Distinct
<1> QED
  BY <1>4 DEF a

\* The function in Once(s).
OnceRecurs(g, s) ==
  /\ g[0] = <<>>
  /\ \A i \in 1..Len(s) : g[i] = IF s[i] \in Range(g[i - 1]) THEN g[i - 1] ELSE Append(g[i - 1], s[i])

\* The recursion of Once has a solution.
LEMMA OnceIsDefined ==
  ASSUME NEW E, NEW s \in Seq(E)
  PROVE  \E g \in [0..Len(s) -> Seq(E)] : OnceRecurs(g, s) /\ Once(s) = g[Len(s)]
<1> DEFINE N == Len(s)
           next(i, q) == IF s[i] \in Range(q) THEN q ELSE Append(q, s[i])
           step == [i \in 1..N |-> [q \in Seq(E) |-> next(i, q)]]
           once == CHOOSE f : f = [i \in 0..N |-> IF i = 0 THEN <<>> ELSE
                     IF s[i] \in Range(f[i - 1]) THEN f[i - 1] ELSE Append(f[i - 1], s[i])]
<1>1. N \in Nat /\ <<>> \in Seq(E)
  BY LenProperties, EmptySeq
<1>2. \A i \in 1..N : \A q \in Seq(E) : next(i, q) \in Seq(E)
  BY ElementOfSeq, AppendProperties
<1>3. step \in [1..N -> [Seq(E) -> Seq(E)]]
  BY <1>2
<1>4. \A i \in 1..N : \A q \in Seq(E) : step[i][q] = next(i, q)
  OBVIOUS
<1>5. Once(s) = once[N]
  BY DEF Once
<1> HIDE DEF step, N
<1>6. PICK g \in [0..N -> Seq(E)] : Recurs(g, N, <<>>, step)
  BY <1>1, <1>3, RecursionUpTo
<1>7. g[0] = <<>> /\ \A i \in 1..N : g[i] = next(i, g[i - 1])
  <2>1. ASSUME NEW i \in 1..N PROVE g[i] = next(i, g[i - 1])
    <3>1. i - 1 \in 0..N
      BY <1>1
    <3> QED
      BY <1>4, <1>6, <3>1 DEF Recurs
  <2> QED
    BY <1>6, <2>1 DEF Recurs
<1>8. g = [i \in 0..N |-> IF i = 0 THEN <<>> ELSE
                          IF s[i] \in Range(g[i - 1]) THEN g[i - 1] ELSE Append(g[i - 1], s[i])]
  <2>1. ASSUME NEW i \in 0..N
        PROVE  g[i] = IF i = 0 THEN <<>> ELSE
                      IF s[i] \in Range(g[i - 1]) THEN g[i - 1] ELSE Append(g[i - 1], s[i])
    <3>1. i = 0 \/ i \in 1..N
      BY <1>1
    <3> QED
      BY <1>7, <3>1
  <2> HIDE DEF next
  <2>2. g = [i \in 0..N |-> g[i]]
    BY <1>6
  <2> QED
    BY <2>1, <2>2, Zenon
<1>9. once = [i \in 0..N |-> IF i = 0 THEN <<>> ELSE
                IF s[i] \in Range(once[i - 1]) THEN once[i - 1] ELSE Append(once[i - 1], s[i])]
  BY <1>8, Zenon
<1>10. once[0] = <<>> /\ \A i \in 1..N : once[i] = next(i, once[i - 1])
  <2>1. ASSUME NEW f, f = [i \in 0..N |-> IF i = 0 THEN <<>> ELSE
                             IF s[i] \in Range(f[i - 1]) THEN f[i - 1] ELSE Append(f[i - 1], s[i])]
        PROVE  f[0] = <<>> /\ \A i \in 1..N : f[i] = next(i, f[i - 1])
    <3>1. 0 \in 0..N /\ \A i \in 1..N : i \in 0..N /\ i # 0
      BY <1>1
    <3> QED
      BY <2>1, <3>1
  <2> HIDE DEF once
  <2> QED
    BY <1>9, <2>1, Zenon
<1> HIDE DEF once, next
<1> DEFINE A == {i \in 0..N : once[i] = g[i]}
<1>11. 0..N \subseteq A
  <2>1. 0 \in A
    BY <1>1, <1>7, <1>10
  <2>2. ASSUME NEW n \in 0..(N - 1), n \in A PROVE n + 1 \in A
    <3>1. n + 1 \in 1..N /\ (n + 1) - 1 = n /\ n + 1 \in 0..N
      BY <1>1
    <3> QED
      BY <1>7, <1>10, <2>2, <3>1
  <2> HIDE DEF A
  <2> QED
    BY <1>1, <2>1, <2>2, InductionUpTo
<1>12. once[N] = g[N]
  BY <1>1, <1>11
<1> QED
  BY <1>5, <1>6, <1>7, <1>12 DEF OnceRecurs, N, next

\* Once returns the elements of s, each at one place.
LEMMA OnceProperties ==
  ASSUME NEW E, NEW s \in Seq(E)
  PROVE  Once(s) \in Seq(E) /\ Range(Once(s)) = Range(s) /\ Distinct(Once(s))
<1>1. PICK g \in [0..Len(s) -> Seq(E)] : OnceRecurs(g, s) /\ Once(s) = g[Len(s)]
  BY OnceIsDefined
<1> DEFINE N == Len(s)
           A == {n \in 0..N : /\ Range(g[n]) = {x \in E : \E j \in 1..n : s[j] = x}
                              /\ Distinct(g[n])}
<1>2. N \in Nat /\ DOMAIN s = 1..N /\ \A i \in 1..N : s[i] \in E
  BY LenProperties, ElementOfSeq
<1> HIDE DEF N
<1>3. 0..N \subseteq A
  <2>1. 0 \in A
    BY <1>1, <1>2 DEF OnceRecurs, Range, Distinct
  <2>2. ASSUME NEW n \in 0..(N - 1), n \in A PROVE n + 1 \in A
    <3>1. n + 1 \in 1..N /\ (n + 1) - 1 = n /\ n \in 0..N /\ n + 1 \in 0..N
      BY <1>2
    <3>2. g[n] \in Seq(E) /\ s[n + 1] \in E
      BY <1>1, <1>2, <3>1 DEF N
    <3>3. g[n + 1] = IF s[n + 1] \in Range(g[n]) THEN g[n] ELSE Append(g[n], s[n + 1])
      BY <1>1, <3>1 DEF OnceRecurs, N
    <3>4. Range(g[n + 1]) = Range(g[n]) \cup {s[n + 1]}
      <4>1. Range(Append(g[n], s[n + 1])) = Range(g[n]) \cup {s[n + 1]}
        BY <3>2, RangeOfAppend
      <4> QED
        BY <3>3, <4>1, Zenon
    <3>5. \A j : j \in 1..(n + 1) <=> j \in 1..n \/ j = n + 1
      BY <1>2
    <3>6. Range(g[n]) = {x \in E : \E j \in 1..n : s[j] = x} /\ Distinct(g[n])
      BY <2>2
    <3>7. Range(g[n + 1]) = {x \in E : \E j \in 1..(n + 1) : s[j] = x}
      BY <3>2, <3>4, <3>5, <3>6
    <3>8. Distinct(g[n + 1])
      <4>1. CASE s[n + 1] \in Range(g[n])
        BY <3>3, <3>6, <4>1
      <4>2. CASE s[n + 1] \notin Range(g[n])
        <5>1. Distinct(Append(g[n], s[n + 1]))
          BY <3>2, <3>6, <4>2, DistinctAppend
        <5> QED
          BY <3>3, <4>2, <5>1, Zenon
      <4> QED
        BY <4>1, <4>2
    <3> QED
      BY <3>1, <3>7, <3>8
  <2> HIDE DEF A
  <2> QED
    BY <1>2, <2>1, <2>2, InductionUpTo
<1>4. N \in 0..N
  BY <1>2
<1>5. Range(g[N]) = {x \in E : \E j \in 1..N : s[j] = x} /\ Distinct(g[N])
  BY <1>3, <1>4
<1>6. g[N] \in Seq(E)
  BY <1>1, <1>4 DEF N
<1>7. Range(g[N]) = Range(s)
  BY <1>2, <1>5 DEF Range
<1> QED
  BY <1>1, <1>5, <1>6, <1>7 DEF N

\* Two such lists of the same elements are equally long.
LEMMA DistinctLength ==
  ASSUME NEW E, NEW s \in Seq(E), NEW t \in Seq(E), Distinct(s), Distinct(t), Range(s) = Range(t)
  PROVE  Len(s) = Len(t)
<1>1. ASSUME NEW q \in Seq(E), Distinct(q)
      PROVE  Len(q) \in Nat /\ Cardinality(Range(q)) = Len(q)
  <2>1. Len(q) \in Nat /\ DOMAIN q = 1..Len(q) /\ q \in [1..Len(q) -> Range(q)]
    BY LenProperties DEF Range
  <2>2. q \in Bijection(1..Len(q), Range(q))
    BY <1>1, <2>1 DEF Bijection, Injection, Surjection, Distinct, Range, IsInjective
  <2>3. ExistsBijection(1..Len(q), Range(q))
    BY <2>2 DEF ExistsBijection
  <2> QED
    BY <2>1, <2>3, FS_CountingElements
<1> QED
  BY <1>1

-----------------------------------------------------------------------------
(***************************************************************************)
(* Normalised lists: observing a list loses exactly its reserved values.   *)
(***************************************************************************)
\* A function from 1..n is a sequence.
LEMMA FunctionIsSeq ==
  ASSUME NEW E, NEW n \in Nat, NEW f \in [1..n -> E]
  PROVE  f \in Seq(E) /\ Len(f) = n
OBVIOUS

\* normalize() makes two values the same exactly if they are equal or both
\* reserved.
LEMMA NormalizeIsSame ==
  ASSUME NEW x \in Nat, NEW y \in Nat
  PROVE  /\ normalize(x) \in Nat
         /\ normalize(x) = normalize(y) <=> SameValue(x, y)
         /\ grease(x) <=> grease(normalize(x))
BY DEF normalize, SameValue, grease

\* Two lists of the same places are equally long.
LEMMA SameDomain ==
  ASSUME NEW E, NEW s \in Seq(E), NEW F, NEW t \in Seq(F)
  PROVE  DOMAIN s = DOMAIN t <=> Len(s) = Len(t)
<1>1. Len(s) \in Nat /\ DOMAIN s = 1..Len(s) /\ Len(t) \in Nat /\ DOMAIN t = 1..Len(t)
  BY LenProperties
<1>2. ASSUME NEW n \in Nat, NEW m \in Nat, 1..n = 1..m PROVE n = m
  <2>1. (n > 0 => n \in 1..n) /\ (m > 0 => m \in 1..m)
    OBVIOUS
  <2>2. (n > 0 => n \in 1..m) /\ (m > 0 => m \in 1..n)
    BY <1>2, <2>1, Zenon
  <2>3. (n > 0 => n <= m) /\ (m > 0 => m <= n)
    BY <2>2
  <2> QED
    BY <2>3
<1> QED
  BY <1>1, <1>2

\* Cipher suites.
LEMMA CiphersAreSame ==
  ASSUME NEW s \in Seq(Nat), NEW t \in Seq(Nat)
  PROVE  Map(normalize, s) = Map(normalize, t) <=> SameList(s, t)
<1> DEFINE a == Map(normalize, s)
           b == Map(normalize, t)
<1>1. /\ Len(s) \in Nat /\ DOMAIN s = 1..Len(s) /\ Len(t) \in Nat /\ DOMAIN t = 1..Len(t)
      /\ \A i \in DOMAIN s : s[i] \in Nat
      /\ \A i \in DOMAIN t : t[i] \in Nat
  BY LenProperties, ElementOfSeq
<1>2. a = [i \in DOMAIN s |-> normalize(s[i])] /\ b = [i \in DOMAIN t |-> normalize(t[i])]
  BY DEF Map
<1> HIDE DEF a, b
<1>3. ASSUME a = b PROVE SameList(s, t)
  <2>1. DOMAIN s = DOMAIN t /\ Len(s) = Len(t)
    <3>1. DOMAIN a = DOMAIN s /\ DOMAIN b = DOMAIN t
      BY <1>2
    <3> QED
      BY <1>3, <3>1, SameDomain
  <2>2. ASSUME NEW i \in DOMAIN s PROVE SameValue(s[i], t[i])
    <3>1. normalize(s[i]) = normalize(t[i])
      BY <1>2, <1>3, <2>1
    <3> QED
      BY <1>1, <2>1, <3>1, NormalizeIsSame
  <2> QED
    BY <2>1, <2>2 DEF SameList
<1>4. ASSUME SameList(s, t) PROVE a = b
  <2>1. DOMAIN s = DOMAIN t
    BY <1>1, <1>4 DEF SameList
  <2>2. \A i \in DOMAIN s : normalize(s[i]) = normalize(t[i])
    BY <1>1, <1>4, <2>1, NormalizeIsSame DEF SameList
  <2> QED
    BY <1>2, <2>1, <2>2
<1> QED
  BY <1>3, <1>4 DEF a, b
-----------------------------------------------------------------------------
\* What parse_hello() makes of the items of an extension.
One == [1..1 -> Nat]
Two == [1..2 -> Nat]
WordsOf(items) == Map(LAMBDA t : normalize(t[1]), items)
OctsOf(items) == Map(LAMBDA t : t[1], items)
LengthsOf(items) == Map(LAMBDA t : t[2], items)
SameWords(s, t) == Len(s) = Len(t) /\ \A i \in DOMAIN s : SameValue(s[i][1], t[i][1])

\* Lists of words: groups, signatures, versions, compression.
LEMMA WordsAreSame ==
  ASSUME NEW T \in {One, Two}, NEW s \in Seq(T), NEW t \in Seq(T)
  PROVE  WordsOf(s) = WordsOf(t) <=> SameWords(s, t)
<1> DEFINE a == WordsOf(s)
           b == WordsOf(t)
<1>1. /\ Len(s) \in Nat /\ DOMAIN s = 1..Len(s) /\ Len(t) \in Nat /\ DOMAIN t = 1..Len(t)
      /\ \A i \in DOMAIN s : s[i] \in T
      /\ \A i \in DOMAIN t : t[i] \in T
  BY LenProperties, ElementOfSeq
<1>2. a = [i \in DOMAIN s |-> normalize(s[i][1])] /\ b = [i \in DOMAIN t |-> normalize(t[i][1])]
  BY DEF Map, WordsOf
<1>3. \A x \in T : x[1] \in Nat
  BY DEF One, Two
<1> HIDE DEF a, b
<1>4. ASSUME a = b PROVE SameWords(s, t)
  <2>1. DOMAIN s = DOMAIN t /\ Len(s) = Len(t)
    <3>1. DOMAIN a = DOMAIN s /\ DOMAIN b = DOMAIN t
      BY <1>2
    <3> QED
      BY <1>4, <3>1, SameDomain
  <2>2. ASSUME NEW i \in DOMAIN s PROVE SameValue(s[i][1], t[i][1])
    <3>1. normalize(s[i][1]) = normalize(t[i][1])
      BY <1>2, <1>4, <2>1
    <3>2. s[i][1] \in Nat /\ t[i][1] \in Nat
      BY <1>1, <1>3, <2>1
    <3> QED
      BY <3>1, <3>2, NormalizeIsSame
  <2> QED
    BY <2>1, <2>2 DEF SameWords
<1>5. ASSUME SameWords(s, t) PROVE a = b
  <2>1. DOMAIN s = DOMAIN t
    BY <1>1, <1>5 DEF SameWords
  <2>2. ASSUME NEW i \in DOMAIN s PROVE normalize(s[i][1]) = normalize(t[i][1])
    <3>1. s[i][1] \in Nat /\ t[i][1] \in Nat
      BY <1>1, <1>3, <2>1
    <3> QED
      BY <1>5, <3>1, NormalizeIsSame DEF SameWords
  <2> QED
    BY <1>2, <2>1, <2>2
<1> QED
  BY <1>4, <1>5 DEF a, b

\* Lists of octets, and protocols: they are not normalised.
LEMMA OctsAreSame ==
  ASSUME NEW s \in Seq(One), NEW t \in Seq(One)
  PROVE  OctsOf(s) = OctsOf(t) <=> s = t
<1> DEFINE a == OctsOf(s)
           b == OctsOf(t)
<1>1. /\ Len(s) \in Nat /\ DOMAIN s = 1..Len(s) /\ Len(t) \in Nat /\ DOMAIN t = 1..Len(t)
      /\ \A i \in DOMAIN s : s[i] \in One
      /\ \A i \in DOMAIN t : t[i] \in One
  BY LenProperties, ElementOfSeq
<1>2. a = [i \in DOMAIN s |-> s[i][1]] /\ b = [i \in DOMAIN t |-> t[i][1]]
  BY DEF Map, OctsOf
<1> HIDE DEF a, b
<1>3. ASSUME a = b PROVE s = t
  <2>1. DOMAIN s = DOMAIN t /\ Len(s) = Len(t)
    <3>1. DOMAIN a = DOMAIN s /\ DOMAIN b = DOMAIN t
      BY <1>2
    <3> QED
      BY <1>3, <3>1, SameDomain
  <2>2. ASSUME NEW i \in DOMAIN s PROVE s[i] = t[i]
    <3>1. s[i][1] = t[i][1]
      BY <1>2, <1>3, <2>1
    <3>2. s[i] \in One /\ t[i] \in One
      BY <1>1, <2>1
    <3>3. \A x, y \in One : x[1] = y[1] => x = y
      BY DEF One
    <3> QED
      BY <3>1, <3>2, <3>3
  <2> QED
    BY <1>1, <2>1, <2>2, SeqEqual
<1>4. s = t => a = b
  BY DEF a, b
<1> QED
  BY <1>3, <1>4 DEF a, b

\* An item of one value has no more ...
LEMMA TailOfOne ==
  ASSUME NEW x \in One, NEW y \in One
  PROVE  Tail(x) = Tail(y)
<1>1. x \in Seq(Nat) /\ Len(x) = 1 /\ y \in Seq(Nat) /\ Len(y) = 1
  BY FunctionIsSeq DEF One
<1>2. ASSUME NEW z \in Seq(Nat), Len(z) = 1 PROVE Tail(z) = <<>>
  <2>1. z # <<>>
    <3>1. Len(<<>>) = 0
      OBVIOUS
    <3> QED
      BY <1>2, <3>1
  <2>2. Tail(z) = SubSeq(z, 2, 1)
    BY <1>2, <2>1, TailIsSubSeq
  <2> QED
    BY <2>2, SubSeqEmpty
<1> QED
  BY <1>1, <1>2

\* ... and an item of two values has one more.
LEMMA TailOfTwo ==
  ASSUME NEW x \in Two, NEW y \in Two
  PROVE  Tail(x) = Tail(y) <=> x[2] = y[2]
<1>1. x \in Seq(Nat) /\ Len(x) = 2 /\ y \in Seq(Nat) /\ Len(y) = 2
  BY FunctionIsSeq DEF Two
<1>2. ASSUME NEW z \in Seq(Nat), Len(z) = 2
      PROVE  Tail(z) \in Seq(Nat) /\ Len(Tail(z)) = 1 /\ Tail(z)[1] = z[2]
  <2>1. z # <<>>
    <3>1. Len(<<>>) = 0 /\ 0 # 2
      OBVIOUS
    <3> QED
      BY <1>2, <3>1, Zenon
  <2>2. /\ Tail(z) \in Seq(Nat) /\ Len(Tail(z)) = Len(z) - 1
        /\ \A i \in 1..Len(Tail(z)) : Tail(z)[i] = z[i + 1]
    BY <1>2, <2>1, HeadTailProperties
  <2>3. Len(Tail(z)) = 1
    BY <1>2, <2>2
  <2>4. Tail(z)[1] = z[1 + 1] /\ 1 + 1 = 2
    BY <2>2, <2>3
  <2>5. Tail(z)[1] = z[2]
    BY <2>4, Zenon
  <2> QED
    BY <2>2, <2>3, <2>5, Zenon
<1> DEFINE a == Tail(x)
           b == Tail(y)
<1>3. /\ a \in Seq(Nat) /\ Len(a) = 1 /\ a[1] = x[2]
      /\ b \in Seq(Nat) /\ Len(b) = 1 /\ b[1] = y[2]
  BY <1>1, <1>2
<1> HIDE DEF a, b
<1>4. ASSUME a[1] = b[1] PROVE a = b
  <2>1. \A i \in 1..Len(a) : a[i] = b[i]
    BY <1>3, <1>4
  <2> QED
    BY <1>3, <2>1, SeqEqual
<1> QED
  BY <1>3, <1>4 DEF a, b

\* SameItems for items of one value.
LEMMA SinglesAreSame ==
  ASSUME NEW s \in Seq(One), NEW t \in Seq(One)
  PROVE  SameItems(s, t) <=> WordsOf(s) = WordsOf(t)
<1>1. WordsOf(s) = WordsOf(t) <=> SameWords(s, t)
  BY WordsAreSame
<1>2. /\ DOMAIN s = 1..Len(s) /\ DOMAIN t = 1..Len(t)
      /\ \A i \in DOMAIN s : s[i] \in One
      /\ \A i \in DOMAIN t : t[i] \in One
  BY LenProperties, ElementOfSeq
<1>3. Len(s) = Len(t) => \A i \in DOMAIN s : Tail(s[i]) = Tail(t[i])
  BY <1>2, TailOfOne
<1> QED
  BY <1>1, <1>3 DEF SameItems, SameWords

\* SameItems for key shares: the lengths are compared too.
LEMMA SharesAreSame ==
  ASSUME NEW s \in Seq(Two), NEW t \in Seq(Two)
  PROVE  SameItems(s, t) <=> WordsOf(s) = WordsOf(t) /\ LengthsOf(s) = LengthsOf(t)
<1> DEFINE a == LengthsOf(s)
           b == LengthsOf(t)
<1>1. WordsOf(s) = WordsOf(t) <=> SameWords(s, t)
  BY WordsAreSame
<1>2. /\ DOMAIN s = 1..Len(s) /\ DOMAIN t = 1..Len(t)
      /\ \A i \in DOMAIN s : s[i] \in Two
      /\ \A i \in DOMAIN t : t[i] \in Two
  BY LenProperties, ElementOfSeq
<1>3. Len(s) = Len(t) => \A i \in DOMAIN s : Tail(s[i]) = Tail(t[i]) <=> s[i][2] = t[i][2]
  BY <1>2, TailOfTwo
<1>4. a = [i \in DOMAIN s |-> s[i][2]] /\ b = [i \in DOMAIN t |-> t[i][2]]
  BY DEF Map, LengthsOf
<1> HIDE DEF a, b
<1>5. Len(s) = Len(t) => (a = b <=> \A i \in DOMAIN s : s[i][2] = t[i][2])
  <2>1. Len(s) = Len(t) => DOMAIN s = DOMAIN t
    BY <1>2
  <2>2. ASSUME DOMAIN s = DOMAIN t, a = b, NEW i \in DOMAIN s PROVE s[i][2] = t[i][2]
    BY <1>4, <2>2
  <2>3. ASSUME DOMAIN s = DOMAIN t, \A i \in DOMAIN s : s[i][2] = t[i][2] PROVE a = b
    BY <1>4, <2>3
  <2> QED
    BY <2>1, <2>2, <2>3
<1>6. SameItems(s, t) <=> SameWords(s, t) /\ a = b
  BY <1>3, <1>5 DEF SameItems, SameWords
<1> QED
  BY <1>1, <1>6 DEF a, b

-----------------------------------------------------------------------------
(***************************************************************************)
(* Two hellos are observed to be the same exactly if they are.             *)
(***************************************************************************)
\* An extension is its id, items and properness.
LEMMA ExtensionTypes ==
  ASSUME NEW x \in Extension
  PROVE  /\ x.id \in Nat /\ x.proper \in BOOLEAN
         /\ x.id \in {0, 51} => x.items \in Seq(Two)
         /\ x.id \notin {0, 51} => x.items \in Seq(One)
         /\ \A y \in Extension : x.id = y.id /\ x.items = y.items /\ x.proper = y.proper => x = y
<1>1. /\ x.id \in Nat /\ x.proper \in BOOLEAN
      /\ x.id \in {0, 51} => x.items \in Seq(Two)
      /\ x.id \notin {0, 51} => x.items \in Seq(One)
  <2>1. CASE x \in [id : Nat \ {0, 51}, items : Seq(One), proper : BOOLEAN]
    BY <2>1
  <2>2. CASE x \in [id : {0, 51}, items : Seq(Two), proper : BOOLEAN]
    BY <2>2
  <2> QED
    BY <2>1, <2>2 DEF Extension, One, Two
<1>2. ASSUME NEW y \in Extension
      PROVE  x.id = y.id /\ x.items = y.items /\ x.proper = y.proper => x = y
  <2>1. /\ x = [id |-> x.id, items |-> x.items, proper |-> x.proper]
        /\ y = [id |-> y.id, items |-> y.items, proper |-> y.proper]
    BY DEF Extension
  <2> QED
    BY <2>1
<1> QED
  BY <1>1, <1>2

\* The lists of a hello.
LEMMA HelloTypes ==
  ASSUME NEW h \in Hello
  PROVE  /\ h.version \in Nat /\ h.ciphers \in Seq(Nat) /\ h.compression \in Seq(Nat)
         /\ h.extensions \in Seq(Extension)
         /\ DOMAIN h.extensions = 1..Len(h.extensions) /\ Len(h.extensions) \in Nat
         /\ \A i \in DOMAIN h.extensions : h.extensions[i] \in Extension
<1>1. /\ h.version \in Nat /\ h.ciphers \in Seq(Nat) /\ h.compression \in Seq(Nat)
      /\ h.extensions \in Seq(Extension)
  BY DEF Hello
<1>2. /\ DOMAIN h.extensions = 1..Len(h.extensions) /\ Len(h.extensions) \in Nat
      /\ \A i \in DOMAIN h.extensions : h.extensions[i] \in Extension
  BY <1>1, LenProperties, ElementOfSeq
<1> QED
  BY <1>1, <1>2

\* Items finds the extension, which is the only one of its kind.
LEMMA ItemsAreFound ==
  ASSUME NEW h \in Hello, Parsable(h), NEW i \in DOMAIN h.extensions
  PROVE  Items(h, h.extensions[i].id) = h.extensions[i].items
<1>1. \A j \in DOMAIN h.extensions : h.extensions[j].id = h.extensions[i].id => j = i
  BY DEF Parsable, DuplicateExtension
<1>2. Place(h, h.extensions[i].id) = {i}
  BY <1>1 DEF Place
<1> QED
  BY <1>2 DEF Items

\* The items found for an id are items of an extension with that id.
LEMMA ItemsTypes ==
  ASSUME NEW h \in Hello, NEW id \in Nat
  PROVE  /\ id \in {0, 51} => Items(h, id) \in Seq(Two)
         /\ id \notin {0, 51} => Items(h, id) \in Seq(One)
<1>1. CASE Place(h, id) = {}
  BY <1>1, EmptySeq DEF Items
<1>2. CASE Place(h, id) # {}
  <2>1. PICK i \in Place(h, id) : Items(h, id) = h.extensions[i].items
    BY <1>2 DEF Items
  <2>2. h.extensions[i] \in Extension /\ h.extensions[i].id = id
    BY <2>1, HelloTypes DEF Place
  <2> QED
    BY <2>1, <2>2, ExtensionTypes
<1> QED
  BY <1>1, <1>2

\* What differs of two extensions of one kind.
LEMMA SameExtensionCases ==
  ASSUME NEW x \in Extension, NEW y \in Extension, x.id = y.id, ~grease(x.id)
  PROVE  /\ x.id \in Exempt => SameExtension(x, y)
         /\ x.id = 0 => (SameExtension(x, y) <=> NamesServer(x) = NamesServer(y))
         /\ x.id \in {10, 13, 27, 43, 51} => (SameExtension(x, y) <=> SameItems(x.items, y.items))
         /\ x.id \notin Exempt \cup {0, 10, 13, 27, 43, 51} => (SameExtension(x, y) <=> x = y)
<1>1. x = y <=> x.items = y.items /\ x.proper = y.proper
  BY ExtensionTypes
<1> QED
  BY <1>1 DEF SameExtension, Exempt

-----------------------------------------------------------------------------
\* Equal observations, the same hello.
LEMMA ObservedEqualIsSame ==
  ASSUME NEW g \in Hello, NEW h \in Hello, Parsable(g), Parsable(h), TlsHello(g) = TlsHello(h)
  PROVE  SameHello(g, h)
<1> DEFINE x(i) == g.extensions[i]
           y(i) == h.extensions[i]
           gids == Map(LAMBDA e : normalize(e.id), g.extensions)
           hids == Map(LAMBDA e : normalize(e.id), h.extensions)
<1>1. /\ g.version = h.version
      /\ g.compression = h.compression
      /\ Map(normalize, g.ciphers) = Map(normalize, h.ciphers)
      /\ gids = hids
  BY DEF TlsHello
<1>2. /\ words(g, 10) = words(h, 10) /\ words(g, 13) = words(h, 13)
      /\ words(g, 43) = words(h, 43) /\ words(g, 51) = words(h, 51) /\ words(g, 27) = words(h, 27)
      /\ Octs(g, 11) = Octs(h, 11) /\ Octs(g, 16) = Octs(h, 16) /\ Octs(g, 45) = Octs(h, 45)
      /\ LengthsOf(Items(g, 51)) = LengthsOf(Items(h, 51))
  BY DEF TlsHello, LengthsOf
<1>3. /\ (\E i \in DOMAIN Items(g, 0) : Items(g, 0)[i][1] = 0)
         = (\E i \in DOMAIN Items(h, 0) : Items(h, 0)[i][1] = 0)
      /\ Keep(g.extensions, {e \in Range(g.extensions) : Other(e)})
         = Keep(h.extensions, {e \in Range(h.extensions) : Other(e)})
  BY DEF TlsHello
<1>4. SameList(g.ciphers, h.ciphers)
  BY <1>1, HelloTypes, CiphersAreSame
<1>5. /\ gids = [i \in DOMAIN g.extensions |-> normalize(x(i).id)]
      /\ hids = [i \in DOMAIN h.extensions |-> normalize(y(i).id)]
  BY DEF Map
<1> HIDE DEF gids, hids
<1>6. /\ DOMAIN g.extensions = DOMAIN h.extensions /\ Len(g.extensions) = Len(h.extensions)
  <2>1. DOMAIN gids = DOMAIN g.extensions /\ DOMAIN hids = DOMAIN h.extensions
    BY <1>5
  <2>2. g.extensions \in Seq(Extension) /\ h.extensions \in Seq(Extension)
    BY HelloTypes
  <2> QED
    BY <1>1, <2>1, <2>2, SameDomain
<1>7. ASSUME NEW i \in DOMAIN g.extensions
      PROVE  SameExtension(x(i), y(i))
  <2>1. x(i) \in Extension /\ y(i) \in Extension /\ i \in DOMAIN h.extensions
    BY <1>6, <1>7, HelloTypes
  <2>2. normalize(x(i).id) = normalize(y(i).id)
    BY <1>1, <1>5, <1>6, <1>7
  <2>3. SameValue(x(i).id, y(i).id)
    BY <2>1, <2>2, ExtensionTypes, NormalizeIsSame
  <2>4. CASE grease(x(i).id) /\ grease(y(i).id)
    BY <2>4 DEF SameExtension
  <2>5. CASE x(i).id = y(i).id /\ ~grease(x(i).id)
    <3>1. Items(g, x(i).id) = x(i).items /\ Items(h, x(i).id) = y(i).items
      BY <2>1, <2>5, <1>7, ItemsAreFound
    <3>2. ~BadBody(x(i)) /\ ~BadBody(y(i))
      BY <1>7, <2>1 DEF Parsable
    <3>3. CASE x(i).id \in Exempt
      BY <2>1, <2>5, <3>3, SameExtensionCases
    <3>4. CASE x(i).id = 0
      <4>1. NamesServer(x(i)) = NamesServer(y(i))
        BY <1>3, <3>1, <3>4 DEF NamesServer
      <4> QED
        BY <2>1, <2>5, <3>4, <4>1, SameExtensionCases
    <3>5. CASE x(i).id \in {10, 13, 27, 43}
      <4>1. x(i).items \in Seq(One) /\ y(i).items \in Seq(One)
        BY <2>1, <2>5, <3>5, ExtensionTypes
      <4>2. words(g, x(i).id) = words(h, x(i).id)
        BY <1>2, <3>5
      <4>3. WordsOf(x(i).items) = WordsOf(y(i).items)
        BY <3>1, <4>2 DEF words, WordsOf
      <4>4. SameItems(x(i).items, y(i).items)
        BY <4>1, <4>3, SinglesAreSame
      <4> QED
        BY <2>1, <2>5, <3>5, <4>4, SameExtensionCases
    <3>6. CASE x(i).id = 51
      <4>1. x(i).items \in Seq(Two) /\ y(i).items \in Seq(Two)
        BY <2>1, <2>5, <3>6, ExtensionTypes
      <4>2. WordsOf(x(i).items) = WordsOf(y(i).items)
        BY <1>2, <3>1, <3>6 DEF words, WordsOf
      <4>3. LengthsOf(x(i).items) = LengthsOf(y(i).items)
        BY <1>2, <3>1, <3>6
      <4>4. SameItems(x(i).items, y(i).items)
        BY <4>1, <4>2, <4>3, SharesAreSame
      <4> QED
        BY <2>1, <2>5, <3>6, <4>4, SameExtensionCases
    <3>7. CASE x(i).id \in {11, 16, 45}
      <4>1. x(i).items \in Seq(One) /\ y(i).items \in Seq(One)
        BY <2>1, <2>5, <3>7, ExtensionTypes
      <4>2. Octs(g, x(i).id) = Octs(h, x(i).id)
        BY <1>2, <3>7
      <4>3. OctsOf(x(i).items) = OctsOf(y(i).items)
        BY <3>1, <4>2 DEF Octs, OctsOf
      <4>4. x(i).items = y(i).items
        BY <4>1, <4>3, OctsAreSame
      <4>5. x(i).proper = y(i).proper
        BY <2>1, <2>5, <3>2, <3>7, ExtensionTypes DEF BadBody, Decoded
      <4>6. x(i) = y(i)
        BY <2>1, <2>5, <4>4, <4>5, ExtensionTypes
      <4>7. x(i).id \notin Exempt \cup {0, 10, 13, 27, 43, 51}
        BY <3>7 DEF Exempt
      <4> QED
        BY <2>1, <2>5, <4>6, <4>7, SameExtensionCases
    <3>8. CASE x(i).id = 50 \/ x(i).id \notin Exempt \cup Decoded
      <4>1. Other(x(i))
        BY <2>5, <3>8 DEF Other, Exempt, Decoded
      <4>2. x(i) \in Range(g.extensions)
        BY <1>7 DEF Range
      <4>3. x(i) \in Range(Keep(g.extensions, {e \in Range(g.extensions) : Other(e)}))
        BY <4>1, <4>2, HelloTypes, KeepProperties
      <4>4. x(i) \in Range(h.extensions)
        BY <1>3, <4>3, HelloTypes, KeepProperties
      <4>5. PICK j \in DOMAIN h.extensions : y(j) = x(i)
        BY <4>4 DEF Range
      <4>6. j = i
        BY <2>1, <2>5, <4>5 DEF Parsable, DuplicateExtension
      <4>7. x(i).id \notin Exempt \cup {0, 10, 13, 27, 43, 51}
        BY <3>8 DEF Exempt, Decoded
      <4> QED
        BY <2>1, <2>5, <4>5, <4>6, <4>7, SameExtensionCases
    <3> QED
      BY <3>3, <3>4, <3>5, <3>6, <3>7, <3>8 DEF Decoded
  <2> QED
    BY <2>3, <2>4, <2>5 DEF SameValue
<1> QED
  BY <1>1, <1>4, <1>6, <1>7 DEF SameHello
\* The same hello, equal observations.
LEMMA SameIsObservedEqual ==
  ASSUME NEW g \in Hello, NEW h \in Hello, Parsable(g), Parsable(h), SameHello(g, h)
  PROVE  TlsHello(g) = TlsHello(h)
<1> DEFINE x(i) == g.extensions[i]
           y(i) == h.extensions[i]
           gids == Map(LAMBDA e : normalize(e.id), g.extensions)
           hids == Map(LAMBDA e : normalize(e.id), h.extensions)
<1>1. DOMAIN g.extensions = DOMAIN h.extensions /\ Len(g.extensions) = Len(h.extensions)
  BY HelloTypes DEF SameHello
<1>2. \A i \in DOMAIN g.extensions : /\ x(i) \in Extension /\ y(i) \in Extension
                                     /\ SameExtension(x(i), y(i))
  BY <1>1, HelloTypes DEF SameHello
<1>3. \A i \in DOMAIN g.extensions : \/ grease(x(i).id) /\ grease(y(i).id)
                                     \/ x(i).id = y(i).id /\ ~grease(x(i).id)
  <2>1. \A i \in DOMAIN g.extensions : \/ grease(x(i).id) /\ grease(y(i).id)
                                       \/ x(i).id = y(i).id
    BY <1>2 DEF SameExtension
  <2> QED
    BY <2>1
<1>4. Map(normalize, g.ciphers) = Map(normalize, h.ciphers)
  BY HelloTypes, CiphersAreSame DEF SameHello
<1>5. gids = hids
  <2>1. \A i \in DOMAIN g.extensions : normalize(x(i).id) = normalize(y(i).id)
    BY <1>3 DEF normalize
  <2> QED
    BY <1>1, <2>1 DEF Map
\* Each kind has its items at the same place.
<1>6. ASSUME NEW id \in Nat, ~grease(id)
      PROVE  \/ Items(g, id) = <<>> /\ Items(h, id) = <<>>
             \/ \E i \in DOMAIN g.extensions :
                  /\ x(i).id = id /\ y(i).id = id
                  /\ Items(g, id) = x(i).items /\ Items(h, id) = y(i).items
  <2>1. Place(g, id) = Place(h, id)
    BY <1>1, <1>3, <1>6 DEF Place
  <2>2. CASE Place(g, id) = {}
    BY <2>1, <2>2 DEF Items
  <2>3. CASE Place(g, id) # {}
    <3>1. PICK i \in Place(g, id) : TRUE
      BY <2>3
    <3>2. i \in DOMAIN g.extensions /\ i \in DOMAIN h.extensions /\ x(i).id = id /\ y(i).id = id
      BY <2>1, <3>1 DEF Place
    <3>3. Items(g, id) = x(i).items /\ Items(h, id) = y(i).items
      BY <3>2, ItemsAreFound
    <3> QED
      BY <3>2, <3>3
  <2> QED
    BY <2>2, <2>3
<1>7. ASSUME NEW id \in {10, 13, 27, 43, 50, 51}
      PROVE  words(g, id) = words(h, id)
  <2>1. id \in Nat /\ ~grease(id) /\ id \notin Exempt
    BY <1>7 DEF grease, Exempt
  <2>2. CASE Items(g, id) = <<>> /\ Items(h, id) = <<>>
    BY <2>2 DEF words
  <2>3. ASSUME NEW i \in DOMAIN g.extensions, x(i).id = id, y(i).id = id,
               Items(g, id) = x(i).items, Items(h, id) = y(i).items
        PROVE  words(g, id) = words(h, id)
    <3>1. CASE id = 50
      <4>1. x(i) = y(i)
        BY <1>2, <2>1, <2>3, <3>1, SameExtensionCases DEF Exempt
      <4> QED
        BY <2>3, <4>1 DEF words
    <3>2. CASE id # 50
      <4>1. SameItems(x(i).items, y(i).items)
        BY <1>2, <1>7, <2>1, <2>3, <3>2, SameExtensionCases
      <4>2. \/ x(i).items \in Seq(One) /\ y(i).items \in Seq(One)
            \/ x(i).items \in Seq(Two) /\ y(i).items \in Seq(Two)
        BY <1>2, <2>3, ExtensionTypes
      <4>3. WordsOf(x(i).items) = WordsOf(y(i).items)
        BY <4>1, <4>2, SinglesAreSame, SharesAreSame
      <4> QED
        BY <2>3, <4>3 DEF words, WordsOf
    <3> QED
      BY <3>1, <3>2
  <2> QED
    BY <1>6, <2>1, <2>2, <2>3
<1>8. LengthsOf(Items(g, 51)) = LengthsOf(Items(h, 51))
  <2>1. 51 \in Nat /\ ~grease(51) /\ 51 \notin Exempt
    BY DEF grease, Exempt
  <2>2. ASSUME NEW i \in DOMAIN g.extensions, x(i).id = 51, y(i).id = 51,
               Items(g, 51) = x(i).items, Items(h, 51) = y(i).items
        PROVE  LengthsOf(Items(g, 51)) = LengthsOf(Items(h, 51))
    <3>1. SameItems(x(i).items, y(i).items)
      BY <1>2, <2>1, <2>2, SameExtensionCases
    <3>2. x(i).items \in Seq(Two) /\ y(i).items \in Seq(Two)
      BY <1>2, <2>2, ExtensionTypes
    <3> QED
      BY <2>2, <3>1, <3>2, SharesAreSame
  <2> QED
    BY <1>6, <2>1, <2>2
<1>9. ASSUME NEW id \in {11, 16, 45}
      PROVE  Octs(g, id) = Octs(h, id)
  <2>1. id \in Nat /\ ~grease(id) /\ id \notin Exempt \cup {0, 10, 13, 27, 43, 51}
    BY <1>9 DEF grease, Exempt
  <2>2. Items(g, id) = Items(h, id)
    BY <1>2, <1>6, <2>1, SameExtensionCases
  <2> QED
    BY <2>2 DEF Octs
<1>10. (\E i \in DOMAIN Items(g, 0) : Items(g, 0)[i][1] = 0)
       = (\E i \in DOMAIN Items(h, 0) : Items(h, 0)[i][1] = 0)
  <2>1. 0 \in Nat /\ ~grease(0)
    BY DEF grease
  <2>2. ASSUME NEW i \in DOMAIN g.extensions, x(i).id = 0, y(i).id = 0,
               Items(g, 0) = x(i).items, Items(h, 0) = y(i).items
        PROVE  (\E j \in DOMAIN Items(g, 0) : Items(g, 0)[j][1] = 0)
               = (\E j \in DOMAIN Items(h, 0) : Items(h, 0)[j][1] = 0)
    <3>1. NamesServer(x(i)) = NamesServer(y(i))
      BY <1>2, <2>1, <2>2, SameExtensionCases
    <3> QED
      BY <2>2, <3>1 DEF NamesServer
  <2> QED
    BY <1>6, <2>1, <2>2
<1>11. Keep(g.extensions, {e \in Range(g.extensions) : Other(e)})
       = Keep(h.extensions, {e \in Range(h.extensions) : Other(e)})
  <2>1. ASSUME NEW i \in 1..Len(g.extensions)
        PROVE  /\ Other(x(i)) <=> Other(y(i))
               /\ Other(x(i)) => x(i) = y(i)
    <3>1. i \in DOMAIN g.extensions /\ x(i) \in Extension /\ y(i) \in Extension
      BY <1>2, <2>1, HelloTypes
    <3>2. CASE grease(x(i).id) /\ grease(y(i).id)
      BY <3>2 DEF Other
    <3>3. CASE x(i).id = y(i).id /\ ~grease(x(i).id)
      <4>1. Other(x(i)) => x(i).id \notin Exempt \cup {0, 10, 13, 27, 43, 51}
        BY DEF Other, Decoded
      <4> QED
        BY <1>2, <3>1, <3>3, <4>1, SameExtensionCases DEF Other
    <3> QED
      BY <1>3, <3>1, <3>2, <3>3
  <2>2. \A i \in 1..Len(g.extensions) : x(i) \in Range(g.extensions) /\ y(i) \in Range(h.extensions)
    BY <1>1, HelloTypes DEF Range
  <2> DEFINE S == {e \in Range(g.extensions) : Other(e)}
             T == {e \in Range(h.extensions) : Other(e)}
             s == g.extensions
             t == h.extensions
  <2>3. \A i \in 1..Len(s) : /\ s[i] \in S <=> t[i] \in T
                             /\ s[i] \in S => s[i] = t[i]
    BY <2>1, <2>2
  <2>4. s \in Seq(Extension) /\ t \in Seq(Extension) /\ Len(s) = Len(t)
    BY <1>1, HelloTypes
  <2> HIDE DEF S, T, s, t
  <2>5. Keep(s, S) = Keep(t, T)
    BY <2>3, <2>4, KeepPointwise
  <2> QED
    BY <2>5 DEF S, T, s, t
<1> HIDE DEF gids, hids
<1>12. TlsHello(g).extensions = gids /\ TlsHello(h).extensions = hids
  BY DEF TlsHello, gids, hids
<1> QED
  BY <1>4, <1>5, <1>7, <1>8, <1>9, <1>10, <1>11 DEF TlsHello, gids, hids, SameHello, LengthsOf

-----------------------------------------------------------------------------
(***************************************************************************)
(* What is observed has its type, and so has what mirror() makes of it.    *)
(***************************************************************************)
\* The elements of two sequences in a row.
LEMMA RangeOfConcat ==
  ASSUME NEW E, NEW s \in Seq(E), NEW t \in Seq(E)
  PROVE  s \o t \in Seq(E) /\ Range(s \o t) = Range(s) \cup Range(t)
<1> DEFINE a == s \o t
<1>1. /\ a \in Seq(E) /\ Len(a) = Len(s) + Len(t)
      /\ \A i \in 1..Len(s) + Len(t) : a[i] = IF i <= Len(s) THEN s[i] ELSE t[i - Len(s)]
  BY ConcatProperties
<1>2. /\ Len(s) \in Nat /\ DOMAIN s = 1..Len(s) /\ Len(t) \in Nat /\ DOMAIN t = 1..Len(t)
      /\ DOMAIN a = 1..Len(s) + Len(t)
  BY <1>1, LenProperties
<1> HIDE DEF a
<1>3. \A x \in Range(a) : x \in Range(s) \cup Range(t)
  <2>1. ASSUME NEW i \in 1..Len(s) + Len(t) PROVE a[i] \in Range(s) \cup Range(t)
    <3>1. CASE i <= Len(s)
      <4>1. i \in 1..Len(s) /\ a[i] = s[i]
        BY <1>1, <1>2, <3>1
      <4> QED
        BY <1>2, <4>1 DEF Range
    <3>2. CASE ~(i <= Len(s))
      <4>1. i - Len(s) \in 1..Len(t) /\ a[i] = t[i - Len(s)]
        BY <1>1, <1>2, <3>2
      <4> QED
        BY <1>2, <4>1 DEF Range
    <3> QED
      BY <3>1, <3>2
  <2> QED
    BY <1>2, <2>1 DEF Range
<1>4. ASSUME NEW i \in 1..Len(s) PROVE s[i] \in Range(a)
  <2>1. i \in 1..Len(s) + Len(t) /\ i <= Len(s)
    BY <1>2
  <2> QED
    BY <1>1, <1>2, <2>1 DEF Range
<1>5. ASSUME NEW i \in 1..Len(t) PROVE t[i] \in Range(a)
  <2>1. i + Len(s) \in 1..Len(s) + Len(t) /\ ~(i + Len(s) <= Len(s)) /\ (i + Len(s)) - Len(s) = i
    BY <1>2
  <2>2. a[i + Len(s)] = t[i]
    BY <1>1, <2>1
  <2> QED
    BY <1>2, <2>1, <2>2 DEF Range
<1>6. Range(a) = Range(s) \cup Range(t)
  BY <1>2, <1>3, <1>4, <1>5 DEF Range
<1> QED
  BY <1>1, <1>6 DEF a

\* Items of one value have the values of the list.
LEMMA SinglesProperties ==
  ASSUME NEW s \in Seq(Nat)
  PROVE  Singles(s) \in Seq(One) /\ \A t \in Range(Singles(s)) : t[1] \in Range(s)
<1> DEFINE a == Singles(s)
<1>1. Len(s) \in Nat /\ DOMAIN s = 1..Len(s) /\ \A i \in 1..Len(s) : s[i] \in Nat
  BY LenProperties, ElementOfSeq
<1>2. a = [i \in DOMAIN s |-> <<s[i]>>]
  BY DEF Singles, Map
<1>3. \A n \in Nat : <<n>> \in One /\ <<n>>[1] = n
  BY DEF One
<1> HIDE DEF a
<1>4. a \in [1..Len(s) -> One]
  BY <1>1, <1>2, <1>3
<1>5. \A t \in Range(a) : t[1] \in Range(s)
  BY <1>1, <1>2, <1>3 DEF Range
<1> QED
  BY <1>1, <1>4, <1>5, FunctionIsSeq DEF a

-----------------------------------------------------------------------------
\* What parse_hello() returns.
TlsHellos ==
  [legacy_version : Nat, ciphers : Seq(Nat), extensions : Seq(Nat), compression : Seq(Nat),
   groups : Seq(Nat), point_formats : Seq(Nat), signature_algorithms : Seq(Nat),
   signature_algorithms_cert : Seq(Nat), supported_versions : Seq(Nat), alpn : Seq(Nat),
   key_share_groups : Seq(Nat), key_share_lengths : Seq(Nat), cert_compression : Seq(Nat),
   psk_modes : Seq(Nat), sni_present : BOOLEAN, other_extensions : Seq(Extension)]

\* Observed lists are lists of numbers.
LEMMA WordsTypes ==
  ASSUME NEW T \in {One, Two}, NEW s \in Seq(T)
  PROVE  /\ WordsOf(s) \in Seq(Nat) /\ OctsOf(s) \in Seq(Nat)
         /\ T = Two => LengthsOf(s) \in Seq(Nat)
<1>1. Len(s) \in Nat /\ DOMAIN s = 1..Len(s) /\ \A i \in 1..Len(s) : s[i] \in T
  BY LenProperties, ElementOfSeq
<1>2. \A x \in T : x[1] \in Nat /\ (T = Two => x[2] \in Nat)
  BY DEF One, Two
<1>3. /\ WordsOf(s) = [i \in DOMAIN s |-> normalize(s[i][1])]
      /\ OctsOf(s) = [i \in DOMAIN s |-> s[i][1]]
      /\ LengthsOf(s) = [i \in DOMAIN s |-> s[i][2]]
  BY DEF Map, WordsOf, OctsOf, LengthsOf
<1>4. \A i \in DOMAIN s : normalize(s[i][1]) \in Nat
  BY <1>1, <1>2, NormalizeIsSame
<1>5. /\ WordsOf(s) \in [1..Len(s) -> Nat] /\ OctsOf(s) \in [1..Len(s) -> Nat]
      /\ T = Two => LengthsOf(s) \in [1..Len(s) -> Nat]
  BY <1>1, <1>2, <1>3, <1>4
<1> QED
  BY <1>1, <1>5, FunctionIsSeq

\* An observation is a TlsHello.
LEMMA ObservationTypes ==
  ASSUME NEW h \in Hello
  PROVE  TlsHello(h) \in TlsHellos
<1>1. \A id \in {10, 11, 13, 16, 27, 43, 45, 50, 51} :
        \E T \in {One, Two} : Items(h, id) \in Seq(T)
  BY ItemsTypes
<1>2. \A id \in {10, 11, 13, 16, 27, 43, 45, 50, 51} : words(h, id) \in Seq(Nat) /\ Octs(h, id) \in Seq(Nat)
  BY <1>1, WordsTypes DEF words, Octs, WordsOf, OctsOf
<1>3. LengthsOf(Items(h, 51)) \in Seq(Nat)
  BY ItemsTypes, WordsTypes
<1>4. Keep(h.extensions, {e \in Range(h.extensions) : Other(e)}) \in Seq(Extension)
  BY HelloTypes, KeepProperties
<1>5. Map(normalize, h.ciphers) \in Seq(Nat)
  <2>1. Len(h.ciphers) \in Nat /\ DOMAIN h.ciphers = 1..Len(h.ciphers) /\ \A i \in 1..Len(h.ciphers) : h.ciphers[i] \in Nat
    BY HelloTypes, LenProperties, ElementOfSeq
  <2>2. Map(normalize, h.ciphers) \in [1..Len(h.ciphers) -> Nat]
    BY <2>1, NormalizeIsSame DEF Map
  <2> QED
    BY <2>1, <2>2, FunctionIsSeq
<1>6. Map(LAMBDA e : normalize(e.id), h.extensions) \in Seq(Nat)
  <2>1. \A i \in 1..Len(h.extensions) : normalize(h.extensions[i].id) \in Nat
    BY HelloTypes, ExtensionTypes, NormalizeIsSame
  <2>2. Map(LAMBDA e : normalize(e.id), h.extensions) \in [1..Len(h.extensions) -> Nat]
    BY <2>1, HelloTypes DEF Map
  <2> QED
    BY <2>2, HelloTypes, FunctionIsSeq
<1>7. h.version \in Nat /\ h.compression \in Seq(Nat)
  BY HelloTypes
<1> QED
  BY <1>2, <1>3, <1>4, <1>5, <1>6, <1>7 DEF TlsHello, TlsHellos, LengthsOf

-----------------------------------------------------------------------------
\* Elements differ over two sequences in a row, if those of one are not in the other.
LEMMA DistinctConcat ==
  ASSUME NEW s \in Seq(Nat), NEW t \in Seq(Nat), Distinct(s), Distinct(t),
         \A x \in Range(s) : x \notin Range(t)
  PROVE  Distinct(s \o t)
<1> DEFINE a == s \o t
<1>1. /\ a \in Seq(Nat) /\ Len(a) = Len(s) + Len(t)
      /\ \A i \in 1..Len(s) + Len(t) : a[i] = IF i <= Len(s) THEN s[i] ELSE t[i - Len(s)]
  BY ConcatProperties
<1>2. /\ Len(s) \in Nat /\ DOMAIN s = 1..Len(s) /\ Len(t) \in Nat /\ DOMAIN t = 1..Len(t)
      /\ DOMAIN a = 1..Len(s) + Len(t)
  BY <1>1, LenProperties
<1> HIDE DEF a
<1>3. ASSUME NEW i \in 1..Len(s) + Len(t), NEW j \in 1..Len(s) + Len(t), i < j, a[i] = a[j]
      PROVE  FALSE
  <2>1. CASE j <= Len(s)
    <3>1. i \in 1..Len(s) /\ j \in 1..Len(s) /\ a[i] = s[i] /\ a[j] = s[j]
      BY <1>1, <1>2, <1>3, <2>1
    <3>2. s[i] = s[j]
      BY <1>3, <3>1, Zenon
    <3>3. i \in DOMAIN s /\ j \in DOMAIN s /\ i # j
      <4>1. \A k, l \in Int : k < l => k # l
        OBVIOUS
      <4> QED
        BY <1>2, <1>3, <3>1, <4>1
    <3> QED
      BY <3>2, <3>3, Zenon DEF Distinct
  <2>2. CASE i <= Len(s) /\ ~(j <= Len(s))
    <3>1. i \in 1..Len(s) /\ j - Len(s) \in 1..Len(t) /\ a[i] = s[i] /\ a[j] = t[j - Len(s)]
      BY <1>1, <1>2, <1>3, <2>2
    <3> QED
      BY <1>2, <1>3, <3>1 DEF Range
  <2>3. CASE ~(i <= Len(s))
    <3>1. /\ i - Len(s) \in 1..Len(t) /\ j - Len(s) \in 1..Len(t) /\ i - Len(s) # j - Len(s)
          /\ a[i] = t[i - Len(s)] /\ a[j] = t[j - Len(s)]
      BY <1>1, <1>2, <1>3, <2>3
    <3> QED
      BY <1>2, <1>3, <3>1 DEF Distinct
  <2> QED
    BY <1>2, <1>3, <2>1, <2>2, <2>3
<1>4. \A i, j \in 1..Len(s) + Len(t) : a[i] = a[j] => i = j
  BY <1>2, <1>3
<1>5. Distinct(a)
  BY <1>2, <1>4 DEF Distinct
<1> QED
  BY <1>5 DEF a

\* The library's table has each extension once.
AllOf(s, S) == s \in Seq(Nat) /\ Distinct(s) /\ Range(s) = S

\* A list of all elements of a set is put together from lists of its parts.
LEMMA AllOfConcat ==
  ASSUME NEW S, NEW T, NEW s, NEW t, AllOf(s, S), AllOf(t, T), S \cap T = {}
  PROVE  AllOf(s \o t, S \cup T)
<1>1. Range(s \o t) = Range(s) \cup Range(t) /\ s \o t \in Seq(Nat)
  BY RangeOfConcat DEF AllOf
<1>2. Distinct(s \o t)
  BY DistinctConcat DEF AllOf
<1> QED
  BY <1>1, <1>2 DEF AllOf

\* The extensions that the library can order.
Orderable(build) ==
  {0, 5, 10, 11, 13, 14, 16, 18, 23, 27, 28, 34, 35, 42, 43, 44, 45, 47, 51, 57, 13172, 17513,
   17613, 30032, 35387, 51764, 65037, 65281, 65445} \cup (IF build THEN {17, 22, 50} ELSE {})

\* BACKEND_EXTENSIONS names each of them once.
LEMMA BackendProperties ==
  ASSUME NEW build \in BOOLEAN
  PROVE  /\ BACKEND_EXTENSIONS(build) \in Seq(Nat) /\ Distinct(BACKEND_EXTENSIONS(build))
         /\ Range(BACKEND_EXTENSIONS(build)) = Orderable(build)
<1> DEFINE a1 == <<0, 65037, 23>>
           a2 == IF build THEN <<22>> ELSE <<>>
           a3 == <<65281, 10, 11, 35, 16, 5>>
           a4 == IF build THEN <<17>> ELSE <<>>
           a5 == <<13>>
           a6 == IF build THEN <<50>> ELSE <<>>
           a7 == <<13172, 18, 30032, 14, 51, 45, 42, 43, 44>>
           a8 == <<57, 65445, 27, 34, 17613, 17513, 47, 35387, 51764, 28>>
           S1 == {0, 65037, 23}
           S2 == IF build THEN {22} ELSE {}
           S4 == IF build THEN {17} ELSE {}
           S6 == IF build THEN {50} ELSE {}
           S3 == {65281, 10, 11, 35, 16, 5}
           S7 == {13172, 18, 30032, 14, 51, 45, 42, 43, 44}
           S8 == {57, 65445, 27, 34, 17613, 17513, 47, 35387, 51764, 28}
<1>1. AllOf(a1, S1)
  BY DEF AllOf, Distinct, Range
<1>2. AllOf(a2, S2)
  BY DEF AllOf, Distinct, Range
<1>3. AllOf(a3, S3)
  BY DEF AllOf, Distinct, Range
<1>4. AllOf(a4, S4)
  BY DEF AllOf, Distinct, Range
<1>5. AllOf(a5, {13})
  BY DEF AllOf, Distinct, Range
<1>6. AllOf(a6, S6)
  BY DEF AllOf, Distinct, Range
<1>7. AllOf(a7, S7)
  BY DEF AllOf, Distinct, Range
<1>8. AllOf(a8, S8)
  BY DEF AllOf, Distinct, Range
<1>9. BACKEND_EXTENSIONS(build) = a1 \o a2 \o a3 \o a4 \o a5 \o a6 \o a7 \o a8
  BY DEF BACKEND_EXTENSIONS
<1> HIDE DEF a1, a2, a3, a4, a5, a6, a7, a8
<1>10. AllOf(a1 \o a2, S1 \cup S2)
  BY <1>1, <1>2, AllOfConcat
<1>11. AllOf(a1 \o a2 \o a3, S1 \cup S2 \cup S3)
  BY <1>3, <1>10, AllOfConcat
<1>12. AllOf(a1 \o a2 \o a3 \o a4, S1 \cup S2 \cup S3 \cup S4)
  BY <1>4, <1>11, AllOfConcat
<1>13. AllOf(a1 \o a2 \o a3 \o a4 \o a5, S1 \cup S2 \cup S3 \cup S4 \cup {13})
  BY <1>5, <1>12, AllOfConcat
<1>14. AllOf(a1 \o a2 \o a3 \o a4 \o a5 \o a6, S1 \cup S2 \cup S3 \cup S4 \cup {13} \cup S6)
  BY <1>6, <1>13, AllOfConcat
<1>15. AllOf(a1 \o a2 \o a3 \o a4 \o a5 \o a6 \o a7,
             S1 \cup S2 \cup S3 \cup S4 \cup {13} \cup S6 \cup S7)
  BY <1>7, <1>14, AllOfConcat
<1>16. AllOf(a1 \o a2 \o a3 \o a4 \o a5 \o a6 \o a7 \o a8,
             S1 \cup S2 \cup S3 \cup S4 \cup {13} \cup S6 \cup S7 \cup S8)
  BY <1>8, <1>15, AllOfConcat
<1>17. S1 \cup S2 \cup S3 \cup S4 \cup {13} \cup S6 \cup S7 \cup S8 = Orderable(build)
  BY SMT DEF Orderable
<1> QED
  BY <1>9, <1>16, <1>17 DEF AllOf

\* extension_order() is a permutation of BACKEND_EXTENSIONS.
LEMMA OrderProperties ==
  ASSUME NEW build \in BOOLEAN, NEW s \in Seq(Nat)
  PROVE  /\ extension_order(s, build) \in Seq(Nat) /\ Distinct(extension_order(s, build))
         /\ Range(extension_order(s, build)) = Range(BACKEND_EXTENSIONS(build))
         /\ Len(extension_order(s, build)) = Len(BACKEND_EXTENSIONS(build))
<1> DEFINE table == BACKEND_EXTENSIONS(build)
           all == Keep(s \o table, Range(table))
<1>1. table \in Seq(Nat) /\ Distinct(table)
  BY BackendProperties
<1>2. s \o table \in Seq(Nat) /\ Range(s \o table) = Range(s) \cup Range(table)
  BY <1>1, RangeOfConcat
<1>3. all \in Seq(Nat) /\ Range(all) = Range(s \o table) \cap Range(table)
  BY <1>2, KeepProperties
<1>4. Once(all) \in Seq(Nat) /\ Range(Once(all)) = Range(table) /\ Distinct(Once(all))
  BY <1>2, <1>3, OnceProperties
<1>5. Len(Once(all)) = Len(table)
  BY <1>1, <1>4, DistinctLength
<1> QED
  BY <1>4, <1>5 DEF extension_order

\* mirror() makes settings that the library takes: it switches on what can be
\* switched, and orders each extension once.
LEMMA MirrorTypes ==
  ASSUME NEW build \in BOOLEAN, NEW h \in TlsHellos
  PROVE  /\ mirror(h, build) \in Settings
         /\ mirror(h, build).on \subseteq Switched(build)
         /\ Range(mirror(h, build).order) = Range(BACKEND_EXTENSIONS(build))
         /\ Len(mirror(h, build).order) = Len(BACKEND_EXTENSIONS(build))
<1>1. /\ h.ciphers \in Seq(Nat) /\ h.extensions \in Seq(Nat) /\ h.groups \in Seq(Nat)
      /\ h.point_formats \in Seq(Nat) /\ h.signature_algorithms \in Seq(Nat)
      /\ h.signature_algorithms_cert \in Seq(Nat) /\ h.alpn \in Seq(Nat)
      /\ h.key_share_groups \in Seq(Nat) /\ h.cert_compression \in Seq(Nat)
  BY DEF TlsHellos
<1>2. <<>> \in Seq(Nat)
  OBVIOUS
<1>3. CipherOrder(h, build) \in Seq(Nat)
  BY <1>1, KeepProperties DEF CipherOrder
<1>4. PointFormats(h, build) \in Seq(Nat) /\ Shares(h, build) \in Seq(Nat)
  BY <1>1, <1>2, KeepProperties DEF PointFormats, Shares
<1>5. /\ Keep(h.groups, Groups(build)) \in Seq(Nat)
      /\ Keep(h.signature_algorithms, SIGNATURES(build)) \in Seq(Nat)
      /\ Keep(h.signature_algorithms_cert, SIGNATURES(build)) \in Seq(Nat)
      /\ Keep(h.cert_compression, Compressions) \in Seq(Nat)
  BY <1>1, KeepProperties
<1>6. Range(h.extensions) \cap Switched(build) \subseteq Nat
  BY DEF Switched
<1>7. /\ extension_order(h.extensions, build) \in Seq(Nat)
      /\ Range(extension_order(h.extensions, build)) = Range(BACKEND_EXTENSIONS(build))
      /\ Len(extension_order(h.extensions, build)) = Len(BACKEND_EXTENSIONS(build))
  BY <1>1, OrderProperties
<1>8. OnlyTls13(h) \in BOOLEAN /\ AtMostTls12(h) \in BOOLEAN
  BY DEF OnlyTls13, AtMostTls12
<1>9. /\ mirror(h, build).on = Range(h.extensions) \cap Switched(build)
      /\ mirror(h, build).order = extension_order(h.extensions, build)
  BY DEF mirror
<1>10. mirror(h, build) \in Settings
  BY <1>1, <1>2, <1>3, <1>4, <1>5, <1>6, <1>7, <1>8 DEF mirror, Settings
<1> QED
  BY <1>7, <1>9, <1>10

-----------------------------------------------------------------------------
\* Which extensions the library sends of itself, and which only if switched on.
LEMMA SendsProperties ==
  ASSUME NEW c \in Settings, NEW id \in Sends(c)
  PROVE  /\ id \in {0, 5, 10, 11, 13, 16, 17, 18, 22, 23, 27, 35, 43, 45, 50, 51, 65037, 65281}
         /\ id \in {5, 17, 18, 22, 35, 45, 65037, 65281} => id \in c.on
         /\ id = 50 => c.certificate_signatures # <<>>
BY DEF Sends

\* A list of the settings, or the library's own.
LEMMA DefaultProperties ==
  ASSUME NEW s \in Seq(Nat), NEW d \in Seq(Nat)
  PROVE  Default(s, d) \in Seq(Nat) /\ Range(Default(s, d)) \subseteq Range(s) \cup Range(d)
BY DEF Default

\* The lists that the library sends: what it was set to, or its default, behind
\* the reserved value.
LEMMA BodyProperties ==
  ASSUME NEW c \in Settings, NEW G \in Seq(Nat), NEW id \in Sends(c)
  PROVE  /\ id \in {0, 51} => Body(c, G, id) \in Seq(Two)
         /\ id \notin {0, 51} => Body(c, G, id) \in Seq(One)
         /\ id = 10 => \A t \in Range(Body(c, G, id)) : t[1] \in Range(G) \cup Range(c.groups) \cup {29, 23}
         /\ id = 11 => \A t \in Range(Body(c, G, id)) : t[1] \in Range(c.point_formats) \cup {0}
         /\ id = 13 => \A t \in Range(Body(c, G, id)) : t[1] \in Range(c.signatures) \cup {1027}
         /\ id = 27 => \A t \in Range(Body(c, G, id)) : t[1] \in Range(c.compression)
         /\ id = 50 => \A t \in Range(Body(c, G, id)) : t[1] \in Range(c.certificate_signatures)
<1> DEFINE e10 == <<29, 23>>
           d10 == Default(c.groups, e10)
           e11 == <<0>>
           d11 == Default(c.point_formats, e11)
           e13 == <<1027>>
           d13 == Default(c.signatures, e13)
           d43 == IF c.only_tls13 THEN <<>> ELSE <<771>>
           d51 == <<Default(c.groups, <<29>>)[1]>>
           all == G \o Default(c.shares, d51)
           b0 == <<<<0, 6>>>>
           b10 == Singles(G \o d10)
           b11 == Singles(d11)
           b13 == Singles(d13)
           b16 == Singles(c.alpn)
           b27 == Singles(c.compression)
           b43 == Singles(G \o <<772>> \o d43)
           b45 == <<<<1>>>>
           b50 == Singles(c.certificate_signatures)
           b51 == Map(LAMBDA g : <<g, ShareLen(g)>>, all)
           b == Body(c, G, id)
<1>1. /\ c.groups \in Seq(Nat) /\ c.point_formats \in Seq(Nat) /\ c.signatures \in Seq(Nat)
      /\ c.alpn \in Seq(Nat) /\ c.compression \in Seq(Nat) /\ c.shares \in Seq(Nat)
      /\ c.certificate_signatures \in Seq(Nat)
  BY DEF Settings
<1>2. b = CASE id = 0 -> b0 [] id = 10 -> b10 [] id = 11 -> b11 [] id = 13 -> b13
            [] id = 16 -> b16 [] id = 27 -> b27 [] id = 43 -> b43 [] id = 45 -> b45
            [] id = 50 -> b50 [] id = 51 -> b51 [] OTHER -> <<>>
  BY DEF Body
<1>3. b0 \in Seq(Two)
  <2>1. <<0, 6>> \in Two
    BY DEF Two
  <2> QED
    BY <2>1
<1>4. b10 \in Seq(One) /\ \A t \in Range(b10) : t[1] \in Range(G) \cup Range(c.groups) \cup {29, 23}
  <2>1. e10 \in Seq(Nat) /\ Range(e10) = {29, 23}
    BY DEF Range
  <2> HIDE DEF e10
  <2>2. d10 \in Seq(Nat) /\ Range(d10) \subseteq Range(c.groups) \cup Range(e10)
    BY <1>1, <2>1, DefaultProperties, Zenon
  <2> HIDE DEF d10
  <2>3. G \o d10 \in Seq(Nat) /\ Range(G \o d10) = Range(G) \cup Range(d10)
    BY <2>2, RangeOfConcat
  <2>4. Range(G \o d10) \subseteq Range(G) \cup Range(c.groups) \cup {29, 23}
    BY <2>1, <2>2, <2>3, Zenon
  <2>5. b10 \in Seq(One) /\ \A t \in Range(b10) : t[1] \in Range(G \o d10)
    BY <2>3, SinglesProperties, Zenon
  <2> QED
    BY <2>4, <2>5, Zenon
<1>5. b11 \in Seq(One) /\ \A t \in Range(b11) : t[1] \in Range(c.point_formats) \cup {0}
  <2>1. e11 \in Seq(Nat) /\ Range(e11) = {0}
    BY DEF Range
  <2> HIDE DEF e11
  <2>2. d11 \in Seq(Nat) /\ Range(d11) \subseteq Range(c.point_formats) \cup Range(e11)
    BY <1>1, <2>1, DefaultProperties
  <2> HIDE DEF d11
  <2> QED
    BY <2>1, <2>2, SinglesProperties, Zenon
<1>6. b13 \in Seq(One) /\ \A t \in Range(b13) : t[1] \in Range(c.signatures) \cup {1027}
  <2>1. e13 \in Seq(Nat) /\ Range(e13) = {1027}
    BY DEF Range
  <2> HIDE DEF e13
  <2>2. d13 \in Seq(Nat) /\ Range(d13) \subseteq Range(c.signatures) \cup Range(e13)
    BY <1>1, <2>1, DefaultProperties
  <2> HIDE DEF d13
  <2>3. b13 \in Seq(One) /\ \A t \in Range(b13) : t[1] \in Range(d13)
    BY <2>2, SinglesProperties, Zenon
  <2>4. Range(d13) \subseteq Range(c.signatures) \cup {1027}
    BY <2>1, <2>2
  <2> HIDE DEF b13
  <2> QED
    BY <2>3, <2>4
<1>7. b16 \in Seq(One)
  BY <1>1, SinglesProperties, Zenon
<1>8. b27 \in Seq(One) /\ \A t \in Range(b27) : t[1] \in Range(c.compression)
  BY <1>1, SinglesProperties, Zenon
<1>9. b43 \in Seq(One)
  <2>1. <<772>> \in Seq(Nat) /\ d43 \in Seq(Nat)
    OBVIOUS
  <2> HIDE DEF d43
  <2>2. G \o <<772>> \o d43 \in Seq(Nat)
    BY <2>1, ConcatProperties
  <2> QED
    BY <2>2, SinglesProperties, Zenon
<1>10. b45 \in Seq(One)
  <2>1. <<1>> \in One
    BY DEF One
  <2> QED
    BY <2>1
<1>11. b50 \in Seq(One) /\ \A t \in Range(b50) : t[1] \in Range(c.certificate_signatures)
  BY <1>1, SinglesProperties, Zenon
<1>12. b51 \in Seq(Two)
  <2>1. Default(c.groups, <<29>>)[1] \in Nat
    <3>1. CASE c.groups = <<>>
      BY <3>1 DEF Default
    <3>2. CASE c.groups # <<>>
      <4>1. 1 \in 1..Len(c.groups)
        BY <1>1, <3>2, EmptySeq
      <4>2. c.groups[1] \in Nat
        BY <1>1, <4>1, ElementOfSeq
      <4> QED
        BY <3>2, <4>2 DEF Default
    <3> QED
      BY <3>1, <3>2
  <2>2. d51 \in Seq(Nat)
    BY <2>1
  <2> HIDE DEF d51
  <2>3. all \in Seq(Nat)
    BY <1>1, <2>2, DefaultProperties, ConcatProperties
  <2>4. Len(all) \in Nat /\ DOMAIN all = 1..Len(all) /\ \A i \in 1..Len(all) : all[i] \in Nat
    BY <2>3, LenProperties, ElementOfSeq
  <2> HIDE DEF all
  <2>5. \A g \in Nat : <<g, ShareLen(g)>> \in Two
    BY DEF Two, ShareLen
  <2>6. b51 \in [1..Len(all) -> Two]
    BY <2>4, <2>5 DEF Map
  <2> QED
    BY <2>4, <2>6, FunctionIsSeq
<1>13. <<>> \in Seq(One)
  BY EmptySeq
<1> HIDE DEF b, b0, b10, b11, b13, b16, b27, b43, b45, b50, b51
<1>14. /\ id = 0 => b = b0
       /\ id = 10 => b = b10
       /\ id = 11 => b = b11
       /\ id = 13 => b = b13
       /\ id = 16 => b = b16
       /\ id = 27 => b = b27
       /\ id = 43 => b = b43
       /\ id = 45 => b = b45
       /\ id = 50 => b = b50
       /\ id = 51 => b = b51
       /\ id \notin {0, 10, 11, 13, 16, 27, 43, 45, 50, 51} => b = <<>>
  BY <1>2
<1>15. id \in {0, 51} => b \in Seq(Two)
  BY <1>3, <1>12, <1>14
<1>16. id \notin {0, 51} => b \in Seq(One)
  <2>1. /\ b10 \in Seq(One) /\ b11 \in Seq(One) /\ b13 \in Seq(One) /\ b16 \in Seq(One)
        /\ b27 \in Seq(One) /\ b43 \in Seq(One) /\ b45 \in Seq(One) /\ b50 \in Seq(One)
    BY <1>4, <1>5, <1>6, <1>7, <1>8, <1>9, <1>10, <1>11, Zenon
  <2> QED
    BY <1>13, <1>14, <2>1
<1>17. id = 10 => \A t \in Range(b) : t[1] \in Range(G) \cup Range(c.groups) \cup {29, 23}
  BY <1>4, <1>14
<1>18. id = 11 => \A t \in Range(b) : t[1] \in Range(c.point_formats) \cup {0}
  BY <1>5, <1>14
<1>19. id = 13 => \A t \in Range(b) : t[1] \in Range(c.signatures) \cup {1027}
  BY <1>6, <1>14
<1>20. id = 27 => \A t \in Range(b) : t[1] \in Range(c.compression)
  BY <1>8, <1>14
<1>21. id = 50 => \A t \in Range(b) : t[1] \in Range(c.certificate_signatures)
  BY <1>11, <1>14
<1> QED
  BY <1>15, <1>16, <1>17, <1>18, <1>19, <1>20, <1>21 DEF b

-----------------------------------------------------------------------------
(***************************************************************************)
(* What the library sends is a hello.                                      *)
(***************************************************************************)
\* What the library draws are reserved values, and so are their seconds.
LEMMA DrawsAreGrease ==
  ASSUME NEW n \in Draws
  PROVE  n \in Nat /\ grease(n) /\ Second(n) \in Nat /\ grease(Second(n))
<1>1. PICK j \in 0..15 : n = 4112 * j + 2570
  BY DEF Draws
<1>2. \A i \in 0..15 : 4112 * i + 2570 \in Nat /\ grease(4112 * i + 2570)
  BY SMT DEF grease
<1>3. \E i \in 0..15 : Second(n) = 4112 * i + 2570
  BY <1>1, SMTT(60) DEF Second
<1> QED
  BY <1>1, <1>2, <1>3, SMT

\* Where each value of the library's hello comes from.
Comes(e, c, G) ==
  /\ \A x \in Range(e.ciphers) : grease(x) \/ x \in Range(c.ciphers)
  /\ \A x \in Range(e.extensions) :
       \/ grease(x.id)
       \/ x.id = 21 /\ 21 \in c.on
       \/ x.id \in Sends(c) /\ x.items = Body(c, G, x.id)

\* The library's hello is a hello; all its extensions but GREASE and padding are
\* of its settings.
LEMMA EmissionProperties ==
  ASSUME NEW c \in Settings, NEW build \in BOOLEAN, NEW r \in Draws
  PROVE  /\ Emission(c, build, r) \in Hello
         /\ \E G \in Seq(Nat) : /\ \A x \in Range(G) : grease(x)
                                /\ Comes(Emission(c, build, r), c, G)
<1> DEFINE G == IF c.grease THEN <<r>> ELSE <<>>
           last == Second(r)
           sent == Keep(c.order, Sends(c))
           greased == Map(LAMBDA x : IF grease(x) THEN r ELSE x, c.ciphers)
           ciphers == IF build THEN greased ELSE G \o c.ciphers
           a1 == Map(LAMBDA id : Ext(id, <<>>), G)
           a2 == Map(LAMBDA id : Ext(id, Body(c, G, id)), sent)
           a3 == IF c.grease THEN <<Ext(last, <<>>)>> ELSE <<>>
           a4 == IF 21 \in c.on THEN <<Ext(21, <<>>)>> ELSE <<>>
           e == Emission(c, build, r)
<1>1. e = [version |-> 771, session |-> IF c.at_most_tls12 THEN 0 ELSE 32,
           compression |-> <<0>>, proper |-> TRUE, ciphers |-> ciphers,
           extensions |-> a1 \o a2 \o a3 \o a4]
  BY DEF Emission
<1>2. c.ciphers \in Seq(Nat) /\ c.order \in Seq(Nat)
  BY DEF Settings
<1>3. r \in Nat /\ grease(r) /\ last \in Nat /\ grease(last)
  BY DrawsAreGrease, SMT
<1>4. G \in Seq(Nat) /\ \A x \in Range(G) : grease(x)
  BY <1>3 DEF Range
<1>5. \A id \in Nat : grease(id) \/ id = 21 => Ext(id, <<>>) \in Extension /\ Ext(id, <<>>).id = id
  <2>1. ~grease(0) /\ ~grease(51) /\ 21 \notin {0, 51}
    BY DEF grease
  <2>2. <<>> \in Seq([1..1 -> Nat])
    OBVIOUS
  <2> QED
    BY <2>1, <2>2 DEF Ext, Extension
<1> HIDE DEF last
<1>6. ciphers \in Seq(Nat) /\ \A x \in Range(ciphers) : grease(x) \/ x \in Range(c.ciphers)
  <2>1. CASE build
    <3>1. Len(c.ciphers) \in Nat /\ DOMAIN c.ciphers = 1..Len(c.ciphers) /\ \A i \in 1..Len(c.ciphers) : c.ciphers[i] \in Nat
      BY <1>2, LenProperties, ElementOfSeq
    <3>2. greased = [i \in DOMAIN c.ciphers |-> IF grease(c.ciphers[i]) THEN r ELSE c.ciphers[i]]
      BY DEF Map
    <3> HIDE DEF greased
    <3>3. greased \in [1..Len(c.ciphers) -> Nat]
      BY <1>3, <3>1, <3>2
    <3>4. \A x \in Range(greased) : grease(x) \/ x \in Range(c.ciphers)
      BY <1>3, <3>1, <3>2 DEF Range
    <3>5. greased \in Seq(Nat)
      BY <3>1, <3>3, FunctionIsSeq
    <3> QED
      BY <2>1, <3>4, <3>5
  <2>2. CASE ~build
    <3> HIDE DEF G
    <3>1. G \o c.ciphers \in Seq(Nat) /\ Range(G \o c.ciphers) = Range(G) \cup Range(c.ciphers)
      BY <1>2, <1>4, RangeOfConcat
    <3> QED
      BY <1>4, <2>2, <3>1
  <2> QED
    BY <2>1, <2>2
<1> HIDE DEF ciphers
<1>7. a1 \in Seq(Extension) /\ \A x \in Range(a1) : grease(x.id)
  <2> HIDE DEF G
  <2>1. Len(G) \in Nat /\ DOMAIN G = 1..Len(G) /\ \A i \in 1..Len(G) : G[i] \in Nat /\ grease(G[i])
    BY <1>4, LenProperties, ElementOfSeq DEF Range
  <2>2. a1 = [i \in DOMAIN G |-> Ext(G[i], <<>>)]
    BY DEF Map
  <2> HIDE DEF a1
  <2>3. \A i \in 1..Len(G) : Ext(G[i], <<>>) \in Extension /\ Ext(G[i], <<>>).id = G[i]
    BY <1>5, <2>1
  <2>4. a1 \in [1..Len(G) -> Extension] /\ \A i \in 1..Len(G) : a1[i].id = G[i]
    BY <2>1, <2>2, <2>3
  <2>5. \A x \in Range(a1) : grease(x.id)
    BY <2>1, <2>4 DEF Range
  <2> QED
    BY <2>1, <2>4, <2>5, FunctionIsSeq
<1>8. a2 \in Seq(Extension) /\ \A x \in Range(a2) : x.id \in Sends(c) /\ x.items = Body(c, G, x.id)
  <2> HIDE DEF G
  <2>1. sent \in Seq(Nat) /\ Range(sent) \subseteq Sends(c)
    BY <1>2, KeepProperties
  <2> HIDE DEF sent
  <2>2. Len(sent) \in Nat /\ DOMAIN sent = 1..Len(sent) /\ \A i \in 1..Len(sent) : sent[i] \in Nat /\ sent[i] \in Sends(c)
    BY <2>1, LenProperties, ElementOfSeq DEF Range
  <2>3. a2 = [i \in DOMAIN sent |-> Ext(sent[i], Body(c, G, sent[i]))]
    BY DEF Map
  <2> HIDE DEF a2
  <2>4. ASSUME NEW id \in Nat, id \in Sends(c)
        PROVE  /\ Ext(id, Body(c, G, id)) \in Extension
               /\ Ext(id, Body(c, G, id)).id = id /\ Ext(id, Body(c, G, id)).items = Body(c, G, id)
    <3>1. /\ id \in {0, 51} => Body(c, G, id) \in Seq(Two)
          /\ id \notin {0, 51} => Body(c, G, id) \in Seq(One)
      BY <1>4, <2>4, BodyProperties
    <3> QED
      BY <3>1 DEF Ext, Extension, One, Two
  <2>5. a2 \in [1..Len(sent) -> Extension]
    BY <2>2, <2>3, <2>4
  <2>6. \A i \in 1..Len(sent) : a2[i].id = sent[i] /\ a2[i].items = Body(c, G, sent[i])
    BY <2>2, <2>3, <2>4
  <2>7. \A x \in Range(a2) : x.id \in Sends(c) /\ x.items = Body(c, G, x.id)
    BY <2>2, <2>5, <2>6 DEF Range
  <2> QED
    BY <2>2, <2>5, <2>7, FunctionIsSeq
<1>9. a3 \in Seq(Extension) /\ \A x \in Range(a3) : grease(x.id)
  BY <1>3, <1>5 DEF Range
<1>10. a4 \in Seq(Extension) /\ \A x \in Range(a4) : x.id = 21 /\ 21 \in c.on
  BY <1>5 DEF Range
<1> HIDE DEF a1, a2, a3, a4, G
<1> DEFINE b2 == a1 \o a2
           b3 == b2 \o a3
           all == b3 \o a4
<1>11. b2 \in Seq(Extension) /\ Range(b2) = Range(a1) \cup Range(a2)
  BY <1>7, <1>8, RangeOfConcat
<1> HIDE DEF b2
<1>12. b3 \in Seq(Extension) /\ Range(b3) = Range(b2) \cup Range(a3)
  BY <1>9, <1>11, RangeOfConcat
<1> HIDE DEF b3
<1>13. all \in Seq(Extension) /\ Range(all) = Range(b3) \cup Range(a4)
  BY <1>10, <1>12, RangeOfConcat
<1> HIDE DEF all
<1>14. \A x \in Range(all) : x \in Range(a1) \/ x \in Range(a2) \/ x \in Range(a3) \/ x \in Range(a4)
  BY <1>11, <1>12, <1>13, Zenon
<1>15. all \in Seq(Extension)
  BY <1>13
<1>16. e.ciphers = ciphers /\ e.extensions = all
  BY <1>1 DEF all, b3, b2
<1>17. e \in Hello
  <2> HIDE DEF all
  <2>1. e = [version |-> 771, session |-> IF c.at_most_tls12 THEN 0 ELSE 32,
             compression |-> <<0>>, proper |-> TRUE, ciphers |-> ciphers, extensions |-> all]
    BY <1>1 DEF all, b3, b2
  <2>2. <<0>> \in Seq(Nat)
    OBVIOUS
  <2> HIDE DEF e
  <2> QED
    BY <1>6, <1>15, <2>1, <2>2 DEF Hello
<1> HIDE DEF e, all
<1>18. Comes(e, c, G)
  BY <1>6, <1>7, <1>8, <1>9, <1>10, <1>14, <1>16 DEF Comes
<1> QED
  BY <1>4, <1>17, <1>18 DEF e

-----------------------------------------------------------------------------
(***************************************************************************)
(* What mirror() leaves out is in no hello of the library.                 *)
(***************************************************************************)
\* What a parser finds in a hello of the library is what the library has put in.
LEMMA ItemsEmitted ==
  ASSUME NEW e \in Hello, NEW c \in Settings, NEW G, Comes(e, c, G), NEW id \in Nat, ~grease(id), id # 21
  PROVE  Items(e, id) = <<>> \/ (id \in Sends(c) /\ Items(e, id) = Body(c, G, id))
<1>1. CASE Place(e, id) = {}
  BY <1>1 DEF Items
<1>2. CASE Place(e, id) # {}
  <2>1. PICK i \in Place(e, id) : Items(e, id) = e.extensions[i].items
    BY <1>2 DEF Items
  <2>2. e.extensions[i].id = id /\ e.extensions[i] \in Range(e.extensions)
    BY <2>1 DEF Place, Range
  <2> QED
    BY <2>1, <2>2 DEF Comes
<1> QED
  BY <1>1, <1>2

\* An observed value is one of the extension's, normalised where words are.
LEMMA WordsFrom ==
  ASSUME NEW e \in Hello, NEW id \in Nat, id \notin {0, 51}
  PROVE  /\ \A y \in Range(words(e, id)) : \E t \in Range(Items(e, id)) : t[1] \in Nat /\ y = normalize(t[1])
         /\ \A y \in Range(Octs(e, id)) : \E t \in Range(Items(e, id)) : t[1] \in Nat /\ y = t[1]
<1> DEFINE s == Items(e, id)
<1>1. s \in Seq(One)
  BY ItemsTypes
<1>2. \A i \in DOMAIN s : s[i][1] \in Nat
  BY <1>1, LenProperties, ElementOfSeq DEF One
<1>3. /\ words(e, id) = [i \in DOMAIN s |-> normalize(s[i][1])]
      /\ Octs(e, id) = [i \in DOMAIN s |-> s[i][1]]
  BY DEF words, Octs, Map
<1> HIDE DEF s
<1>4. /\ \A y \in Range(words(e, id)) : \E i \in DOMAIN s : y = normalize(s[i][1])
      /\ \A y \in Range(Octs(e, id)) : \E i \in DOMAIN s : y = s[i][1]
  BY <1>3 DEF Range
<1>5. \A i \in DOMAIN s : s[i] \in Range(s)
  BY DEF Range
<1>6. /\ \A y \in Range(words(e, id)) : \E t \in Range(s) : t[1] \in Nat /\ y = normalize(t[1])
      /\ \A y \in Range(Octs(e, id)) : \E t \in Range(s) : t[1] \in Nat /\ y = t[1]
  BY <1>2, <1>4, <1>5
<1> QED
  BY <1>6 DEF s

\* A value that is not reserved is its own normal form.
LEMMA NormalizeBack ==
  ASSUME NEW x
  PROVE  /\ grease(x) => grease(normalize(x))
         /\ ~grease(x) => normalize(x) = x
<1>1. grease(2570)
  BY SMT DEF grease
<1> QED
  BY <1>1, SMT DEF normalize

\* What mirror() leaves out is not in the hello that the library sends.
LEMMA LimitationsDiffer ==
  ASSUME NEW build \in BOOLEAN, NEW h \in TlsHellos, NEW r \in Draws, SCSV \notin Ciphers,
         TlsHello(Emission(mirror(h, build), build, r)) = h
  PROVE  limitations(h, build) = {}
<1> DEFINE c == mirror(h, build)
           e == Emission(c, build, r)
<1>1. c \in Settings
  BY MirrorTypes
<1>2. e \in Hello /\ TlsHello(e) = h
  BY <1>1, EmissionProperties
<1>3. PICK G \in Seq(Nat) : (\A x \in Range(G) : grease(x)) /\ Comes(e, c, G)
  BY <1>1, EmissionProperties
<1>4. /\ h.ciphers \in Seq(Nat) /\ h.groups \in Seq(Nat) /\ h.signature_algorithms \in Seq(Nat)
      /\ h.signature_algorithms_cert \in Seq(Nat) /\ h.cert_compression \in Seq(Nat)
      /\ h.point_formats \in Seq(Nat)
  BY DEF TlsHellos
<1> DEFINE reserved == {x \in Range(h.ciphers) : grease(x)}
<1>5. /\ Range(c.ciphers) \subseteq Ciphers \cup {SCSV} \cup reserved
      /\ ~build => Range(c.ciphers) \subseteq Ciphers
  <2>1. c.ciphers = CipherOrder(h, build)
    BY DEF mirror
  <2>2. /\ Range(Keep(h.ciphers, Ciphers)) = Range(h.ciphers) \cap Ciphers
        /\ Range(Keep(h.ciphers, reserved \cup Ciphers \cup {SCSV}))
           = Range(h.ciphers) \cap (reserved \cup Ciphers \cup {SCSV})
    BY <1>4, KeepProperties
  <2>3. CipherOrder(h, build) = IF build THEN Keep(h.ciphers, reserved \cup Ciphers \cup {SCSV})
                                ELSE Keep(h.ciphers, Ciphers)
    BY DEF CipherOrder
  <2> HIDE DEF c, reserved
  <2> QED
    BY <2>1, <2>2, <2>3
<1>6. /\ Range(c.groups) \subseteq Groups(build)
      /\ Range(c.signatures) \subseteq SIGNATURES(build)
      /\ Range(c.compression) \subseteq Compressions
  <2>1. /\ c.groups = Keep(h.groups, Groups(build))
        /\ c.signatures = Keep(h.signature_algorithms, SIGNATURES(build))
        /\ c.compression = Keep(h.cert_compression, Compressions)
    BY DEF mirror
  <2> HIDE DEF c
  <2>2. /\ Range(c.groups) = Range(h.groups) \cap Groups(build)
        /\ Range(c.signatures) = Range(h.signature_algorithms) \cap SIGNATURES(build)
        /\ Range(c.compression) = Range(h.cert_compression) \cap Compressions
    BY <1>4, <2>1, KeepProperties
  <2> QED
    BY <2>2
<1>7. /\ build => Range(c.certificate_signatures) \subseteq SIGNATURES(build)
      /\ ~build => c.certificate_signatures = <<>>
      /\ build => Range(c.point_formats) \subseteq 0..2
  <2>1. /\ c.certificate_signatures = IF build THEN Keep(h.signature_algorithms_cert, SIGNATURES(build)) ELSE <<>>
        /\ c.point_formats = IF build THEN Keep(h.point_formats, 0..2) ELSE <<>>
    BY DEF mirror, PointFormats
  <2>2. /\ Range(Keep(h.signature_algorithms_cert, SIGNATURES(build)))
           = Range(h.signature_algorithms_cert) \cap SIGNATURES(build)
        /\ Range(Keep(h.point_formats, 0..2)) = Range(h.point_formats) \cap (0..2)
    BY <1>4, KeepProperties
  <2> HIDE DEF c
  <2> QED
    BY <2>1, <2>2
<1>8. c.on \subseteq Switched(build)
  BY MirrorTypes
<1>9. /\ h.ciphers = Map(normalize, e.ciphers)
      /\ h.extensions = Map(LAMBDA x : normalize(x.id), e.extensions)
      /\ h.groups = words(e, 10) /\ h.point_formats = Octs(e, 11)
      /\ h.signature_algorithms = words(e, 13) /\ h.signature_algorithms_cert = words(e, 50)
      /\ h.cert_compression = words(e, 27)
  BY <1>2 DEF TlsHello
<1> HIDE DEF c, e, reserved
\* Ciphers.
<1>10. ASSUME NEW y \in Range(h.ciphers), ~grease(y)
       PROVE  y \in Range(c.ciphers)
  <2>1. PICK i \in DOMAIN e.ciphers : y = normalize(e.ciphers[i])
    BY <1>9 DEF Map, Range
  <2>2. ~grease(e.ciphers[i]) /\ y = e.ciphers[i]
    BY <1>10, <2>1, NormalizeBack
  <2>3. e.ciphers[i] \in Range(e.ciphers)
    BY <2>1 DEF Range
  <2> QED
    BY <1>3, <2>2, <2>3 DEF Comes
<1>11. LeftOut("cipher", h.ciphers, Ciphers \cup {SCSV}) = {}
  BY <1>5, <1>10 DEF LeftOut, reserved
<1>12. ~build => Range(h.ciphers) \cap {SCSV} = {}
  <2>1. ~grease(SCSV)
    BY DEF grease, SCSV
  <2> QED
    BY <1>5, <1>10, <2>1
\* The items of an extension.
<1>13. ASSUME NEW id \in {10, 11, 13, 27, 50}
       PROVE  Items(e, id) = <<>> \/ (id \in Sends(c) /\ Items(e, id) = Body(c, G, id))
  <2>1. id \in Nat /\ ~grease(id) /\ id # 21
    BY <1>13 DEF grease
  <2> QED
    BY <1>1, <1>2, <1>3, <2>1, ItemsEmitted
<1>14. Range(<<>>) = {}
  BY DEF Range
<1>15. ASSUME NEW y \in Range(h.groups), ~grease(y)
       PROVE  y \in Groups(build)
  <2>1. PICK t \in Range(Items(e, 10)) : y = normalize(t[1])
    BY <1>2, <1>9, WordsFrom
  <2>2. y = t[1]
    BY <1>15, <2>1, NormalizeBack
  <2>3. t[1] \in Range(G) \cup Range(c.groups) \cup {29, 23}
    BY <1>1, <1>13, <1>14, <2>1, BodyProperties
  <2>4. {29, 23} \subseteq Groups(build)
    BY DEF Groups
  <2> QED
    BY <1>3, <1>6, <1>15, <2>2, <2>3, <2>4
<1>16. ASSUME NEW y \in Range(h.signature_algorithms), ~grease(y)
       PROVE  y \in SIGNATURES(build)
  <2>1. PICK t \in Range(Items(e, 13)) : y = normalize(t[1])
    BY <1>2, <1>9, WordsFrom
  <2>2. y = t[1]
    BY <1>16, <2>1, NormalizeBack
  <2>3. t[1] \in Range(c.signatures) \cup {1027}
    BY <1>1, <1>13, <1>14, <2>1, BodyProperties
  <2>4. 1027 \in SIGNATURES(build)
    BY DEF SIGNATURES
  <2> QED
    BY <1>6, <2>2, <2>3, <2>4
<1>17. ASSUME NEW y \in Range(h.cert_compression)
       PROVE  y \in Compressions
  <2>1. PICK t \in Range(Items(e, 27)) : y = normalize(t[1])
    BY <1>2, <1>9, WordsFrom
  <2>2. t[1] \in Range(c.compression)
    BY <1>1, <1>13, <1>14, <2>1, BodyProperties
  <2>3. \A x \in Compressions : ~grease(x)
    BY DEF Compressions, grease
  <2> QED
    BY <1>6, <2>1, <2>2, <2>3, NormalizeBack
<1>18. ASSUME build, NEW y \in Range(h.signature_algorithms_cert), ~grease(y)
       PROVE  y \in SIGNATURES(build)
  <2>1. PICK t \in Range(Items(e, 50)) : y = normalize(t[1])
    BY <1>2, <1>9, WordsFrom
  <2>2. y = t[1]
    BY <1>18, <2>1, NormalizeBack
  <2>3. t[1] \in Range(c.certificate_signatures)
    BY <1>1, <1>13, <1>14, <2>1, BodyProperties
  <2> QED
    BY <1>7, <1>18, <2>2, <2>3
<1>19. ASSUME build, NEW y \in Range(h.point_formats)
       PROVE  y \in 0..2
  <2>1. PICK t \in Range(Items(e, 11)) : y = t[1]
    <3>1. y \in Range(Octs(e, 11)) /\ e \in Hello
      BY <1>2, <1>9, <1>19
    <3>2. 11 \in Nat /\ 11 \notin {0, 51}
      OBVIOUS
    <3> QED
      BY <3>1, <3>2, WordsFrom, Zenon
  <2>2. t[1] \in Range(c.point_formats) \cup {0}
    BY <1>1, <1>13, <1>14, <2>1, BodyProperties
  <2>3. \A x \in Range(c.point_formats) : x \in 0..2
    BY <1>7, <1>19
  <2>4. y \in Range(c.point_formats) \/ y = 0
    BY <2>1, <2>2
  <2>5. 0 \in 0..2
    OBVIOUS
  <2> QED
    BY <2>3, <2>4, <2>5
\* Extensions.
<1>20. ASSUME NEW y \in Range(h.extensions), ~grease(y)
       PROVE  (y = 21 /\ 21 \in c.on) \/ y \in Sends(c)
  <2>1. PICK i \in DOMAIN e.extensions : y = normalize(e.extensions[i].id)
    BY <1>9 DEF Map, Range
  <2>2. ~grease(e.extensions[i].id) /\ y = e.extensions[i].id
    BY <1>20, <2>1, NormalizeBack
  <2>3. e.extensions[i] \in Range(e.extensions)
    BY <2>1 DEF Range
  <2> QED
    BY <1>3, <2>2, <2>3 DEF Comes
<1>21. ASSUME NEW y \in Range(h.extensions), ~grease(y)
       PROVE  y \in KNOWN(build)
  <2>1. CASE y = 21
    BY <2>1 DEF KNOWN
  <2>2. CASE y \in Sends(c)
    <3>1. /\ y \in {0, 5, 10, 11, 13, 16, 17, 18, 22, 23, 27, 35, 43, 45, 50, 51, 65037, 65281}
          /\ y \in {17, 22} => y \in Switched(build)
          /\ y = 50 => c.certificate_signatures # <<>>
      BY <1>1, <1>8, <2>2, SendsProperties
    <3>2. y \in {17, 22, 50} => build
      BY <1>7, <3>1 DEF Switched
    <3> QED
      BY <3>1, <3>2 DEF KNOWN
  <2> QED
    BY <1>20, <1>21, <2>1, <2>2
<1>22. NotInherited(h) = {}
  <2>1. ASSUME NEW y \in {17513, 17613, 41, 42}
        PROVE  ~grease(y) /\ y # 21 /\ y \notin Sends(c)
    <3>1. ~grease(y) /\ y # 21
      BY SMT DEF grease
    <3>2. y \notin {0, 5, 10, 11, 13, 16, 17, 18, 22, 23, 27, 35, 43, 45, 50, 51, 65037, 65281}
      BY SMT
    <3>3. ASSUME y \in Sends(c) PROVE FALSE
      <4>1. y \in {0, 5, 10, 11, 13, 16, 17, 18, 22, 23, 27, 35, 43, 45, 50, 51, 65037, 65281}
        BY <1>1, <3>3, SendsProperties
      <4> QED
        BY <3>2, <4>1
    <3> QED
      BY <3>1, <3>3
  <2>2. \A y \in {17513, 17613, 41, 42} : y \notin Range(h.extensions)
    BY <1>20, <2>1, SMT
  <2> DEFINE kept == Range(h.extensions) \cap {17513, 17613, 41, 42}
  <2>3. kept = {}
    BY <2>2, SMT
  <2>4. NotInherited(h) = {<<"not inherited", x>> : x \in kept}
    BY DEF NotInherited
  <2> HIDE DEF kept
  <2> QED
    BY <2>3, <2>4
<1>23. /\ LeftOut("group", h.groups, Groups(build)) = {}
       /\ LeftOut("signature", h.signature_algorithms, SIGNATURES(build)) = {}
       /\ {<<"compression", x>> : x \in Range(h.cert_compression) \ Compressions} = {}
       /\ LeftOut("extension", h.extensions, KNOWN(build)) = {}
  BY <1>15, <1>16, <1>17, <1>21 DEF LeftOut
<1>24. build => PatchedLimitations(h) = {}
  <2>1. ASSUME build PROVE PatchedLimitations(h) = {}
    <3>1. LeftOut("certificate signature", h.signature_algorithms_cert, SIGNATURES(TRUE)) = {}
      BY <1>18, <2>1 DEF LeftOut
    <3>2. {<<"point format", f>> : f \in {g \in Range(h.point_formats) : g > 2}} = {}
      <4>1. \A g \in Range(h.point_formats) : ~(g > 2)
        BY <1>19, <2>1
      <4> QED
        BY <4>1
    <3> QED
      BY <3>1, <3>2 DEF PatchedLimitations
  <2> QED
    BY <2>1
<1>25. ~build => {<<"SCSV", x>> : x \in Range(h.ciphers) \cap {SCSV}} = {}
  BY <1>12
<1> QED
  BY <1>11, <1>22, <1>23, <1>24, <1>25 DEF limitations

-----------------------------------------------------------------------------
(***************************************************************************)
(* The way from the settings of the library through its hello, the parser  *)
(* and mirror() back to settings.                                          *)
(***************************************************************************)
\* Append belongs to the second of two sequences in a row.
LEMMA AppendToConcat ==
  ASSUME NEW E, NEW s \in Seq(E), NEW u \in Seq(E), NEW x \in E,
         NEW w, w = Append(s \o u, x)
  PROVE  w = s \o Append(u, x)
<1>1. s \o u \in Seq(E) /\ <<x>> \in Seq(E)
  BY ConcatProperties
<1>2. Append(s \o u, x) = (s \o u) \o <<x>> /\ Append(u, x) = u \o <<x>>
  BY <1>1, AppendIsConcat
<1> QED
  BY <1>1, <1>2, ConcatAssociative

\* Keep goes through two sequences in a row one after the other.
LEMMA KeepConcat ==
  ASSUME NEW E, NEW s \in Seq(E), NEW t \in Seq(E), NEW S
  PROVE  Keep(s \o t, S) = Keep(s, S) \o Keep(t, S)
<1> DEFINE a == s \o t
           N == Len(s)
           M == Len(t)
<1>1. /\ N \in Nat /\ M \in Nat /\ a \in Seq(E) /\ Len(a) = N + M
      /\ \A i \in 1..N : a[i] = s[i]
      /\ \A i \in 1..M : a[N + i] = t[i] /\ t[i] \in E
  BY ConcatProperties, LenProperties, ElementOfSeq
<1>2. PICK g \in [0..Len(a) -> Seq(E)] : KeepRecurs(g, a, S) /\ Keep(a, S) = g[Len(a)]
  <2>1. a \in Seq(E)
    BY <1>1
  <2> HIDE DEF a, N, M
  <2> QED
    BY <2>1, KeepIsDefined, Zenon
<1>3. PICK f \in [0..N -> Seq(E)] : KeepRecurs(f, s, S) /\ Keep(s, S) = f[N]
  BY KeepIsDefined
<1>4. PICK h \in [0..M -> Seq(E)] : KeepRecurs(h, t, S) /\ Keep(t, S) = h[M]
  BY KeepIsDefined
<1>5. f[0] = <<>> /\ \A i \in 1..N : f[i] = IF s[i] \in S THEN Append(f[i - 1], s[i]) ELSE f[i - 1]
  BY <1>3 DEF KeepRecurs
<1>6. h[0] = <<>> /\ \A i \in 1..M : h[i] = IF t[i] \in S THEN Append(h[i - 1], t[i]) ELSE h[i - 1]
  BY <1>4 DEF KeepRecurs
<1> HIDE DEF a, N, M
<1>7. g[0] = <<>> /\ \A i \in 1..(N + M) : g[i] = IF a[i] \in S THEN Append(g[i - 1], a[i]) ELSE g[i - 1]
  BY <1>1, <1>2 DEF KeepRecurs
<1> DEFINE A == {n \in 0..N : g[n] = f[n]}
           B == {n \in 0..M : g[N + n] = f[N] \o h[n]}
<1>8. 0..N \subseteq A
  <2>1. 0 \in A
    BY <1>1, <1>5, <1>7
  <2>2. ASSUME NEW n \in 0..(N - 1), n \in A PROVE n + 1 \in A
    <3>1. n + 1 \in 1..N /\ n + 1 \in 1..(N + M) /\ (n + 1) - 1 = n /\ n + 1 \in 0..N
      BY <1>1
    <3>2. g[n + 1] = IF a[n + 1] \in S THEN Append(g[n], a[n + 1]) ELSE g[n]
      BY <1>7, <3>1
    <3>3. f[n + 1] = IF s[n + 1] \in S THEN Append(f[n], s[n + 1]) ELSE f[n]
      BY <1>5, <3>1
    <3>4. g[n] = f[n] /\ a[n + 1] = s[n + 1]
      BY <1>1, <2>2, <3>1
    <3> QED
      BY <3>1, <3>2, <3>3, <3>4
  <2> HIDE DEF A
  <2> QED
    BY <1>1, <2>1, <2>2, InductionUpTo
<1>9. g[N] = f[N] /\ f[N] \in Seq(E)
  BY <1>1, <1>3, <1>8
<1>10. 0..M \subseteq B
  <2>1. 0 \in B
    <3>1. f[N] \o <<>> = f[N]
      BY <1>9, ConcatEmptySeq
    <3>2. g[N + 0] = f[N] \o h[0] /\ 0 \in 0..M
      <4>1. N + 0 = N
        BY <1>1
      <4> QED
        BY <1>1, <1>6, <1>9, <3>1, <4>1
    <3> QED
      BY <3>2
  <2>2. ASSUME NEW n \in 0..(M - 1), n \in B PROVE n + 1 \in B
    <3>1. /\ n + 1 \in 1..M /\ N + (n + 1) \in 1..(N + M) /\ (n + 1) - 1 = n /\ n + 1 \in 0..M
          /\ (N + (n + 1)) - 1 = N + n /\ n \in 0..M
      BY <1>1
    <3>2. h[n] \in Seq(E) /\ t[n + 1] \in E /\ a[N + (n + 1)] = t[n + 1]
      BY <1>1, <1>4, <3>1
    <3>3. \A w : w = Append(f[N] \o h[n], t[n + 1]) => w = f[N] \o Append(h[n], t[n + 1])
      BY <1>9, <3>2, AppendToConcat
    <3>4. g[N + n] = f[N] \o h[n]
      BY <2>2
    <3>5. g[N + (n + 1)] = IF t[n + 1] \in S THEN Append(g[N + n], t[n + 1]) ELSE g[N + n]
      BY <1>7, <3>1, <3>2
    <3>6. h[n + 1] = IF t[n + 1] \in S THEN Append(h[n], t[n + 1]) ELSE h[n]
      BY <1>6, <3>1
    <3>7. g[N + (n + 1)] = f[N] \o h[n + 1]
      BY <3>3, <3>4, <3>5, <3>6, Zenon
    <3> QED
      BY <3>1, <3>7
  <2> HIDE DEF B
  <2> QED
    BY <1>1, <2>1, <2>2, InductionUpTo
<1>11. g[N + M] = f[N] \o h[M]
  BY <1>1, <1>10
<1> QED
  BY <1>1, <1>2, <1>3, <1>4, <1>11 DEF a

\* Keep returns all of a sequence, or nothing.
LEMMA KeepAllOrNone ==
  ASSUME NEW E, NEW s \in Seq(E), NEW S
  PROVE  /\ Range(s) \subseteq S => Keep(s, S) = s
         /\ Range(s) \cap S = {} => Keep(s, S) = <<>>
<1>1. PICK g \in [0..Len(s) -> Seq(E)] : KeepRecurs(g, s, S) /\ Keep(s, S) = g[Len(s)]
  BY KeepIsDefined
<1> DEFINE N == Len(s)
           A == {n \in 0..N : g[n] = SubSeq(s, 1, n)}
           B == {n \in 0..N : g[n] = <<>>}
<1>2. N \in Nat /\ DOMAIN s = 1..N /\ \A i \in 1..N : s[i] \in E /\ s[i] \in Range(s)
  BY LenProperties, ElementOfSeq DEF Range
<1>3. g[0] = <<>> /\ \A i \in 1..N : g[i] = IF s[i] \in S THEN Append(g[i - 1], s[i]) ELSE g[i - 1]
  BY <1>1 DEF KeepRecurs
<1>4. ASSUME Range(s) \subseteq S PROVE g[N] = s
  <2>1. 0 \in A
    BY <1>2, <1>3
  <2>2. ASSUME NEW n \in 0..(N - 1), n \in A PROVE n + 1 \in A
    <3>1. n + 1 \in 1..N /\ (n + 1) - 1 = n /\ n + 1 \in 0..N
      BY <1>2
    <3>2. g[n + 1] = Append(SubSeq(s, 1, n), s[n + 1])
      BY <1>2, <1>3, <1>4, <2>2, <3>1
    <3>3. SubSeq(s, 1, n + 1) = Append(SubSeq(s, 1, n), s[n + 1])
      BY <1>2, <3>1
    <3> QED
      BY <3>1, <3>2, <3>3
  <2> HIDE DEF A
  <2>3. 0..N \subseteq A
    BY <1>2, <2>1, <2>2, InductionUpTo
  <2>4. g[N] = SubSeq(s, 1, N)
    BY <1>2, <2>3 DEF A
  <2> QED
    BY <2>4
<1>5. ASSUME Range(s) \cap S = {} PROVE g[N] = <<>>
  <2>1. 0 \in B
    BY <1>2, <1>3
  <2>2. ASSUME NEW n \in 0..(N - 1), n \in B PROVE n + 1 \in B
    <3>1. n + 1 \in 1..N /\ (n + 1) - 1 = n /\ n + 1 \in 0..N
      BY <1>2
    <3>2. s[n + 1] \notin S
      BY <1>2, <1>5, <3>1
    <3> QED
      BY <1>3, <2>2, <3>1, <3>2
  <2> HIDE DEF B
  <2>3. 0..N \subseteq B
    BY <1>2, <2>1, <2>2, InductionUpTo
  <2> QED
    BY <1>2, <2>3 DEF B
<1> QED
  BY <1>1, <1>4, <1>5

\* Elements that differ still do in what Keep returns.
LEMMA KeepDistinct ==
  ASSUME NEW E, NEW s \in Seq(E), NEW S, Distinct(s)
  PROVE  Distinct(Keep(s, S))
<1>1. PICK g \in [0..Len(s) -> Seq(E)] : KeepRecurs(g, s, S) /\ Keep(s, S) = g[Len(s)]
  BY KeepIsDefined
<1> DEFINE N == Len(s)
           A == {n \in 0..N : Distinct(g[n]) /\ \A x \in Range(g[n]) : \E j \in 1..n : s[j] = x}
<1>2. N \in Nat /\ DOMAIN s = 1..N /\ \A i \in 1..N : s[i] \in E
  BY LenProperties, ElementOfSeq
<1>3. g[0] = <<>> /\ \A i \in 1..N : g[i] = IF s[i] \in S THEN Append(g[i - 1], s[i]) ELSE g[i - 1]
  BY <1>1 DEF KeepRecurs
<1>4. \A i, j \in 1..N : s[i] = s[j] => i = j
  BY <1>2 DEF Distinct
<1>5. \A i \in 0..N : g[i] \in Seq(E)
  BY <1>1
<1> HIDE DEF N
<1>6. 0 \in A
  <2>1. Distinct(<<>>) /\ Range(<<>>) = {}
    BY DEF Distinct, Range
  <2> QED
    BY <1>2, <1>3, <2>1
<1>7. ASSUME NEW n \in 0..(N - 1), n \in A PROVE n + 1 \in A
  <2>1. /\ n + 1 \in 1..N /\ (n + 1) - 1 = n /\ n + 1 \in 0..N /\ n \in 0..N
        /\ \A j \in 1..n : j \in 1..N /\ j \in 1..(n + 1) /\ j # n + 1
        /\ n + 1 \in 1..(n + 1)
    BY <1>2
  <2>2. Distinct(g[n]) /\ \A x \in Range(g[n]) : \E j \in 1..n : s[j] = x
    BY <1>7
  <2>3. CASE s[n + 1] \notin S
    <3>1. g[n + 1] = g[n]
      BY <1>3, <2>1, <2>3
    <3> QED
      BY <2>1, <2>2, <3>1
  <2>4. CASE s[n + 1] \in S
    <3>1. g[n + 1] = Append(g[n], s[n + 1])
      BY <1>3, <2>1, <2>4
    <3>2. s[n + 1] \notin Range(g[n])
      BY <1>4, <2>1, <2>2
    <3>3. Distinct(Append(g[n], s[n + 1])) /\ Range(Append(g[n], s[n + 1])) = Range(g[n]) \cup {s[n + 1]}
      BY <1>2, <1>5, <2>1, <2>2, <3>2, DistinctAppend, RangeOfAppend
    <3>4. \A x \in Range(g[n]) \cup {s[n + 1]} : \E j \in 1..(n + 1) : s[j] = x
      BY <2>1, <2>2
    <3>5. Distinct(g[n + 1]) /\ \A x \in Range(g[n + 1]) : \E j \in 1..(n + 1) : s[j] = x
      BY <3>1, <3>3, <3>4, Zenon
    <3> QED
      BY <2>1, <3>5
  <2> QED
    BY <2>3, <2>4
<1> HIDE DEF A
<1>8. 0..N \subseteq A
  BY <1>2, <1>6, <1>7, InductionUpTo
<1>9. N \in 0..N
  BY <1>2
<1> QED
  BY <1>1, <1>8, <1>9 DEF A, N

\* Once leaves a sequence whose elements differ, and adds others.
LEMMA OnceConcat ==
  ASSUME NEW E, NEW s \in Seq(E), NEW t \in Seq(E), Distinct(s)
  PROVE  \E u \in Seq(E) : Once(s \o t) = s \o u /\ Range(u) \cap Range(s) = {}
<1> DEFINE a == s \o t
           N == Len(s)
           M == Len(t)
<1>1. /\ N \in Nat /\ M \in Nat /\ a \in Seq(E) /\ Len(a) = N + M
      /\ \A i \in 1..N : a[i] = s[i] /\ s[i] \in E
      /\ \A i \in 1..M : a[N + i] = t[i] /\ t[i] \in E
      /\ DOMAIN s = 1..N
  BY ConcatProperties, LenProperties, ElementOfSeq
<1>2. PICK g \in [0..Len(a) -> Seq(E)] : OnceRecurs(g, a) /\ Once(a) = g[Len(a)]
  BY <1>1, OnceIsDefined
<1>3. \A i, j \in 1..N : s[i] = s[j] => i = j
  BY <1>1 DEF Distinct
<1> HIDE DEF a, M
<1>4. g[0] = <<>> /\ \A i \in 1..(N + M) : g[i] = IF a[i] \in Range(g[i - 1]) THEN g[i - 1]
                                                  ELSE Append(g[i - 1], a[i])
  BY <1>1, <1>2 DEF OnceRecurs
<1> DEFINE A == {n \in 0..N : g[n] = SubSeq(s, 1, n)}
           B == {n \in 0..M : \E u \in Seq(E) : g[N + n] = s \o u /\ Range(u) \cap Range(s) = {}}
<1>5. 0..N \subseteq A
  <2>1. 0 \in A
    <3>1. SubSeq(s, 1, 0) = <<>>
      BY SubSeqEmpty
    <3>2. 0 \in 0..N
      BY <1>1
    <3> QED
      BY <1>4, <3>1, <3>2, Zenon
  <2>2. ASSUME NEW n \in 0..(N - 1), n \in A PROVE n + 1 \in A
    <3>1. n + 1 \in 1..N /\ n + 1 \in 1..(N + M) /\ (n + 1) - 1 = n /\ n + 1 \in 0..N
          /\ \A j \in 1..n : j \in 1..N /\ j # n + 1
      BY <1>1
    <3>2. g[n] = SubSeq(s, 1, n) /\ a[n + 1] = s[n + 1]
      BY <1>1, <2>2, <3>1
    <3>3. s[n + 1] \notin Range(SubSeq(s, 1, n))
      <4>1. DOMAIN SubSeq(s, 1, n) = 1..n /\ \A j \in 1..n : SubSeq(s, 1, n)[j] = s[j]
        BY <1>1, <3>1
      <4> QED
        BY <1>3, <3>1, <4>1 DEF Range
    <3>4. g[n + 1] = Append(SubSeq(s, 1, n), s[n + 1])
      BY <1>4, <3>1, <3>2, <3>3
    <3>5. SubSeq(s, 1, n + 1) = Append(SubSeq(s, 1, n), s[n + 1])
      BY <1>1, <3>1
    <3> QED
      BY <3>1, <3>4, <3>5
  <2> HIDE DEF A
  <2> QED
    BY <1>1, <2>1, <2>2, InductionUpTo
<1>6. g[N] = s
  <2>1. g[N] = SubSeq(s, 1, N)
    BY <1>1, <1>5
  <2> QED
    BY <2>1
<1> HIDE DEF N
<1>7. 0..M \subseteq B
  <2>1. 0 \in B
    <3>1. s \o <<>> = s /\ <<>> \in Seq(E) /\ Range(<<>>) = {} /\ N + 0 = N
      BY <1>1, ConcatEmptySeq DEF Range
    <3>2. g[N + 0] = s \o <<>> /\ Range(<<>>) \cap Range(s) = {}
      BY <1>6, <3>1
    <3>3. 0 \in 0..M
      BY <1>1
    <3> QED
      BY <3>1, <3>2, <3>3, Zenon
  <2>2. ASSUME NEW n \in 0..(M - 1), n \in B PROVE n + 1 \in B
    <3>1. /\ n + 1 \in 1..M /\ N + (n + 1) \in 1..(N + M) /\ n + 1 \in 0..M
          /\ (N + (n + 1)) - 1 = N + n
      BY <1>1
    <3>2. PICK u \in Seq(E) : g[N + n] = s \o u /\ Range(u) \cap Range(s) = {}
      BY <2>2
    <3>3. a[N + (n + 1)] = t[n + 1] /\ t[n + 1] \in E
      BY <1>1, <3>1
    <3> DEFINE x == t[n + 1]
    <3>4. g[N + (n + 1)] = IF x \in Range(g[N + n]) THEN g[N + n] ELSE Append(g[N + n], x)
      BY <1>4, <3>1, <3>3
    <3> HIDE DEF x
    <3>5. CASE x \in Range(g[N + n])
      BY <3>1, <3>2, <3>4, <3>5
    <3>6. CASE x \notin Range(g[N + n])
      <4>1. x \in E
        BY <3>3 DEF x
      <4>2. Range(s \o u) = Range(s) \cup Range(u)
        BY <3>2, RangeOfConcat
      <4>3. x \notin Range(s)
        BY <3>2, <3>6, <4>2
      <4>4. Append(u, x) \in Seq(E) /\ Range(Append(u, x)) = Range(u) \cup {x}
        BY <3>2, <4>1, RangeOfAppend, AppendProperties
      <4>5. g[N + (n + 1)] = s \o Append(u, x)
        <5>1. \A w : w = Append(s \o u, x) => w = s \o Append(u, x)
          BY <4>1, AppendToConcat
        <5> QED
          BY <3>2, <3>4, <3>6, <5>1, Zenon
      <4>6. Range(Append(u, x)) \cap Range(s) = {}
        BY <3>2, <4>3, <4>4
      <4> QED
        BY <3>1, <4>4, <4>5, <4>6
    <3> QED
      BY <3>5, <3>6
  <2> HIDE DEF B
  <2> QED
    BY <1>1, <2>1, <2>2, InductionUpTo
<1>8. M \in 0..M
  BY <1>1
<1>9. \E u \in Seq(E) : g[N + M] = s \o u /\ Range(u) \cap Range(s) = {}
  BY <1>7, <1>8
<1> QED
  BY <1>1, <1>2, <1>9, Zenon DEF a

\* Reserved values are in none of the tables.
LEMMA TablesAreNotReserved ==
  ASSUME NEW build \in BOOLEAN
  PROVE  /\ \A x \in Groups(build) \cup SIGNATURES(build) \cup Compressions \cup Orderable(build) :
              x \in Nat /\ ~grease(x)
         /\ 21 \notin Orderable(build) /\ ~grease(21) /\ ~grease(SCSV)
         /\ {23, 29} \subseteq Groups(build) /\ 1027 \in SIGNATURES(build)
<1>1. \A x \in Groups(build) : x \in Nat /\ ~grease(x)
  BY SMT DEF Groups, grease
<1>2. \A x \in SIGNATURES(build) : x \in Nat /\ ~grease(x)
  BY SMT DEF SIGNATURES, grease
<1>3. \A x \in Compressions : x \in Nat /\ ~grease(x)
  BY SMT DEF Compressions, grease
<1>4. \A x \in Orderable(build) : x \in Nat /\ ~grease(x)
  BY SMT DEF Orderable, grease
<1>5. 21 \notin Orderable(build) /\ ~grease(21) /\ ~grease(SCSV)
  BY SMT DEF Orderable, grease, SCSV
<1>6. {23, 29} \subseteq Groups(build) /\ 1027 \in SIGNATURES(build)
  BY SMT DEF Groups, SIGNATURES
<1> QED
  BY <1>1, <1>2, <1>3, <1>4, <1>5, <1>6

\* Where such values are kept, it makes no difference that others were normalised.
LEMMA KeepNormalized ==
  ASSUME NEW s \in Seq(Nat), NEW S, \A x \in S : ~grease(x)
  PROVE  /\ Map(normalize, s) \in Seq(Nat) /\ Len(Map(normalize, s)) = Len(s)
         /\ Keep(Map(normalize, s), S) = Keep(s, S)
<1> DEFINE t == Map(normalize, s)
<1>1. Len(s) \in Nat /\ DOMAIN s = 1..Len(s) /\ \A i \in 1..Len(s) : s[i] \in Nat
  BY LenProperties, ElementOfSeq
<1>2. t = [i \in 1..Len(s) |-> normalize(s[i])]
  BY <1>1 DEF Map
<1> HIDE DEF t
<1>3. t \in Seq(Nat) /\ Len(t) = Len(s)
  <2>1. t \in [1..Len(s) -> Nat]
    BY <1>1, <1>2, NormalizeIsSame
  <2> QED
    BY <1>1, <2>1, FunctionIsSeq
<1>4. \A i \in 1..Len(t) : /\ t[i] \in S <=> s[i] \in S
                           /\ t[i] \in S => t[i] = s[i]
  BY <1>1, <1>2, <1>3, NormalizeBack
<1>5. Keep(t, S) = Keep(s, S)
  BY <1>3, <1>4, KeepPointwise
<1> QED
  BY <1>3, <1>5 DEF t

\* A list that is kept whole, behind reserved values.
LEMMA KeepBehind ==
  ASSUME NEW G \in Seq(Nat), NEW s \in Seq(Nat), NEW S, \A x \in S : ~grease(x),
         \A x \in Range(G) : grease(x), Range(s) \subseteq S
  PROVE  /\ G \o s \in Seq(Nat)
         /\ Keep(G \o s, S) = s
         /\ Keep(Map(normalize, G \o s), S) = s
<1>1. G \o s \in Seq(Nat)
  BY ConcatProperties
<1>2. Keep(G \o s, S) = Keep(G, S) \o Keep(s, S)
  BY KeepConcat
<1>3. Keep(G, S) = <<>> /\ Keep(s, S) = s
  <2>1. Range(G) \cap S = {}
    OBVIOUS
  <2> QED
    BY <2>1, KeepAllOrNone
<1>4. Keep(G \o s, S) = s
  <2>1. <<>> \o s = s
    BY ConcatEmptySeq
  <2> QED
    BY <1>2, <1>3, <2>1
<1>5. \A t \in Seq(Nat) : Keep(Map(normalize, t), S) = Keep(t, S)
  BY KeepNormalized
<1> QED
  BY <1>1, <1>4, <1>5

\* What is observed of items of one value.
LEMMA SinglesBack ==
  ASSUME NEW s \in Seq(Nat)
  PROVE  /\ WordsOf(Singles(s)) = Map(normalize, s)
         /\ OctsOf(Singles(s)) = s
<1>1. Len(s) \in Nat /\ DOMAIN s = 1..Len(s) /\ s = [i \in 1..Len(s) |-> s[i]]
  BY LenProperties, FunctionIsSeq
<1> DEFINE a == Singles(s)
<1>2. a = [i \in 1..Len(s) |-> <<s[i]>>]
  BY <1>1 DEF Singles, Map
<1> HIDE DEF a
<1>3. \A x : <<x>>[1] = x
  OBVIOUS
<1>4. WordsOf(a) = [i \in 1..Len(s) |-> normalize(s[i])]
  BY <1>2, <1>3 DEF WordsOf, Map
<1>5. OctsOf(a) = [i \in 1..Len(s) |-> s[i]]
  BY <1>2, <1>3 DEF OctsOf, Map
<1>6. Map(normalize, s) = [i \in 1..Len(s) |-> normalize(s[i])]
  BY <1>1 DEF Map
<1> QED
  BY <1>1, <1>4, <1>5, <1>6 DEF a

\* Two pairs of lists that are the same in a row.
LEMMA SameConcat ==
  ASSUME NEW s \in Seq(Nat), NEW t \in Seq(Nat), NEW g \in Seq(Nat), NEW h \in Seq(Nat),
         SameList(g, h), SameList(s, t)
  PROVE  SameList(g \o s, h \o t)
<1> DEFINE a == g \o s
           b == h \o t
           N == Len(g)
           M == Len(s)
<1>1. /\ N \in Nat /\ M \in Nat /\ Len(a) = N + M /\ Len(b) = Len(h) + Len(t)
      /\ \A i \in 1..N : a[i] = g[i]
      /\ \A i \in 1..M : a[N + i] = s[i]
      /\ \A i \in 1..Len(h) : b[i] = h[i]
      /\ \A i \in 1..Len(t) : b[Len(h) + i] = t[i]
      /\ DOMAIN a = 1..(N + M) /\ DOMAIN g = 1..N /\ DOMAIN s = 1..M
  BY ConcatProperties, LenProperties
<1>2. /\ Len(h) = N /\ Len(t) = M
      /\ \A i \in 1..N : SameValue(g[i], h[i])
      /\ \A i \in 1..M : SameValue(s[i], t[i])
  BY <1>1 DEF SameList
<1> HIDE DEF a, b, N, M
<1>3. ASSUME NEW i \in 1..(N + M) PROVE SameValue(a[i], b[i])
  <2>1. CASE i <= N
    BY <1>1, <1>2, <2>1
  <2>2. CASE ~(i <= N)
    <3>1. i - N \in 1..M /\ i = N + (i - N)
      BY <1>1, <2>2
    <3>2. \A j \in 1..M : SameValue(a[N + j], b[N + j])
      BY <1>1, <1>2
    <3> QED
      BY <3>1, <3>2
  <2> QED
    BY <2>1, <2>2
<1> QED
  BY <1>1, <1>2, <1>3 DEF SameList, a, b

\* A list is the same as itself, and reserved values are the same.
LEMMA SameReserved ==
  ASSUME NEW s \in Seq(Nat), NEW t \in Seq(Nat)
  PROVE  /\ SameList(s, s)
         /\ Len(s) = Len(t) /\ (\A x \in Range(s) \cup Range(t) : grease(x)) => SameList(s, t)
<1>1. Len(s) \in Nat /\ Len(t) \in Nat /\ DOMAIN s = 1..Len(s) /\ DOMAIN t = 1..Len(t)
  BY LenProperties
<1> QED
  BY <1>1 DEF SameList, SameValue, Range

\* A function over the elements of a list.
Over(F, s) == [i \in 1..Len(s) |-> F[s[i]]]

\* A function goes over two sequences in a row one after the other.
LEMMA OverConcat ==
  ASSUME NEW E, NEW F \in [Nat -> E], NEW s \in Seq(Nat), NEW t \in Seq(Nat),
         NEW w, w = Over(F, s) \o Over(F, t)
  PROVE  w = Over(F, s \o t)
<1> DEFINE a == Over(F, s)
           b == Over(F, t)
           N == Len(s)
           M == Len(t)
           u == s \o t
<1>1. N \in Nat /\ M \in Nat /\ (\A i \in 1..N : s[i] \in Nat) /\ (\A i \in 1..M : t[i] \in Nat)
  BY LenProperties, ElementOfSeq
<1>2. /\ u \in Seq(Nat) /\ Len(u) = N + M
      /\ \A i \in 1..N : u[i] = s[i]
      /\ \A i \in 1..M : u[N + i] = t[i]
  BY ConcatProperties
<1>3. a \in [1..N -> E] /\ \A i \in 1..N : a[i] = F[s[i]]
  BY <1>1 DEF Over
<1>4. b \in [1..M -> E] /\ \A i \in 1..M : b[i] = F[t[i]]
  BY <1>1 DEF Over
<1> HIDE DEF a, b, N, M, u
<1>5. a \in Seq(E) /\ Len(a) = N /\ b \in Seq(E) /\ Len(b) = M
  BY <1>1, <1>3, <1>4, FunctionIsSeq
<1>6. /\ a \o b \in Seq(E) /\ Len(a \o b) = N + M
      /\ \A i \in 1..N : (a \o b)[i] = a[i]
      /\ \A i \in 1..M : (a \o b)[N + i] = b[i]
  <2>1. ASSUME NEW p \in Seq(E), NEW q \in Seq(E)
        PROVE  /\ p \o q \in Seq(E) /\ Len(p \o q) = Len(p) + Len(q)
               /\ \A i \in 1..Len(p) : (p \o q)[i] = p[i]
               /\ \A i \in 1..Len(q) : (p \o q)[Len(p) + i] = q[i]
    BY ConcatProperties, LenProperties
  <2> QED
    BY <1>5, <2>1, Zenon
<1>7. w \in Seq(E) /\ Len(w) = N + M
  BY <1>6 DEF a, b
<1>8. w = [i \in 1..(N + M) |-> w[i]]
  <2>1. DOMAIN w = 1..Len(w) /\ w = [i \in DOMAIN w |-> w[i]]
    BY <1>7, LenProperties
  <2> QED
    BY <1>7, <2>1
<1>9. ASSUME NEW i \in 1..(N + M) PROVE w[i] = F[u[i]]
  <2>1. w = a \o b
    BY DEF a, b
  <2>2. CASE i <= N
    <3>1. i \in 1..N
      BY <1>1, <2>2
    <3>2. w[i] = a[i]
      BY <1>6, <2>1, <3>1, Zenon
    <3>3. a[i] = F[s[i]] /\ u[i] = s[i]
      BY <1>2, <1>3, <3>1, Zenon
    <3> QED
      BY <3>2, <3>3, Zenon
  <2>3. CASE ~(i <= N)
    <3>1. i - N \in 1..M /\ i = N + (i - N)
      BY <1>1, <2>3
    <3>2. \A j \in 1..M : w[N + j] = b[j]
      BY <1>6, <2>1, Zenon
    <3>3. \A j \in 1..M : w[N + j] = F[u[N + j]]
      BY <1>2, <1>4, <3>2
    <3> QED
      BY <3>1, <3>3
  <2> QED
    BY <2>2, <2>3
<1>10. Over(F, u) = [i \in 1..(N + M) |-> F[u[i]]]
  BY <1>2 DEF Over
<1>11. w = Over(F, u)
  BY <1>8, <1>9, <1>10
<1> QED
  BY <1>11 DEF u

-----------------------------------------------------------------------------
(***************************************************************************)
(* A hello of the library, one extension after the other.                  *)
(***************************************************************************)
ReservedOf(c, r) == IF c.grease THEN <<r>> ELSE <<>>
Ordered(c) == Keep(c.order, Sends(c))
Padding(c) == IF 21 \in c.on THEN <<21>> ELSE <<>>
Ids(c, r) == ReservedOf(c, r) \o Ordered(c) \o ReservedOf(c, Second(r)) \o Padding(c)
Filled(c, r, id) == IF id \in Sends(c) THEN Body(c, ReservedOf(c, r), id) ELSE <<>>

\* The parts of Ids.
LEMMA IdsTypes ==
  ASSUME NEW c \in Settings, NEW r \in Draws
  PROVE  /\ ReservedOf(c, r) \in Seq(Nat) /\ ReservedOf(c, Second(r)) \in Seq(Nat)
         /\ Range(ReservedOf(c, r)) \subseteq {r} /\ Range(ReservedOf(c, Second(r))) \subseteq {Second(r)}
         /\ Len(ReservedOf(c, r)) = Len(ReservedOf(c, Second(r)))
         /\ (c.grease => r \in Range(ReservedOf(c, r))) /\ (~c.grease => ReservedOf(c, r) = <<>>)
         /\ Ordered(c) \in Seq(Nat) /\ Range(Ordered(c)) = Range(c.order) \cap Sends(c)
         /\ Padding(c) \in Seq(Nat) /\ Range(Padding(c)) = {21} \cap c.on
<1>1. r \in Nat /\ Second(r) \in Nat
  BY DrawsAreGrease
<1>2. c.order \in Seq(Nat) /\ c.on \subseteq Nat
  BY DEF Settings
<1>3. \A n \in Nat : /\ <<n>> \in Seq(Nat) /\ Range(<<n>>) = {n} /\ Len(<<n>>) = 1
  BY DEF Range
<1>4. <<>> \in Seq(Nat) /\ Range(<<>>) = {} /\ Len(<<>>) = 0
  BY DEF Range
<1>5. Ordered(c) \in Seq(Nat) /\ Range(Ordered(c)) = Range(c.order) \cap Sends(c)
  BY <1>2, KeepProperties DEF Ordered
<1>6. Padding(c) \in Seq(Nat) /\ Range(Padding(c)) = {21} \cap c.on
  BY <1>3, <1>4 DEF Padding
<1> QED
  BY <1>1, <1>3, <1>4, <1>5, <1>6 DEF ReservedOf

\* What the library sends of itself is not reserved, and padding is not of it.
LEMMA SendsAreKnown ==
  ASSUME NEW c \in Settings, NEW id \in Sends(c)
  PROVE  id \in Nat /\ ~grease(id) /\ id # 21
BY SendsProperties, SMT DEF grease

\* Each extension of the library's hello has the body of its kind.
LEMMA EmissionIds ==
  ASSUME NEW c \in Settings, NEW build \in BOOLEAN, NEW r \in Draws
  PROVE  /\ Ids(c, r) \in Seq(Nat)
         /\ Len(Emission(c, build, r).extensions) = Len(Ids(c, r))
         /\ \A i \in 1..Len(Ids(c, r)) :
              Emission(c, build, r).extensions[i] = Ext(Ids(c, r)[i], Filled(c, r, Ids(c, r)[i]))
<1> DEFINE G == ReservedOf(c, r)
           K == Ordered(c)
           L == ReservedOf(c, Second(r))
           P == Padding(c)
           F == [id \in Nat |-> Ext(id, Filled(c, r, id))]
           E == {F[id] : id \in Nat}
           a1 == Map(LAMBDA id : Ext(id, <<>>), G)
           a2 == Map(LAMBDA id : Ext(id, Body(c, G, id)), K)
           a3 == IF c.grease THEN <<Ext(Second(r), <<>>)>> ELSE <<>>
           a4 == IF 21 \in c.on THEN <<Ext(21, <<>>)>> ELSE <<>>
           x == Emission(c, build, r).extensions
<1>1. /\ G \in Seq(Nat) /\ K \in Seq(Nat) /\ L \in Seq(Nat) /\ P \in Seq(Nat)
      /\ Range(K) \subseteq Sends(c) /\ Range(G) \subseteq {r}
  BY IdsTypes
<1>2. F \in [Nat -> E] /\ \A id \in Nat : F[id] = Ext(id, Filled(c, r, id))
  OBVIOUS
<1>3. /\ r \in Nat /\ r \notin Sends(c) /\ Second(r) \in Nat /\ Second(r) \notin Sends(c)
      /\ 21 \notin Sends(c)
  BY DrawsAreGrease, SendsAreKnown
<1>4. x = a1 \o a2 \o a3 \o a4
  BY DEF Emission, ReservedOf, Ordered
<1>5. a1 = Over(F, G)
  <2>1. DOMAIN G = 1..Len(G) /\ \A i \in 1..Len(G) : G[i] \in Nat /\ G[i] = r
    BY <1>1, LenProperties, ElementOfSeq DEF Range
  <2>2. F[r] = Ext(r, <<>>)
    BY <1>3 DEF Filled
  <2> HIDE DEF F, G
  <2>3. a1 = [i \in 1..Len(G) |-> Ext(G[i], <<>>)]
    BY <2>1 DEF Map
  <2> QED
    BY <2>1, <2>2, <2>3 DEF Over
<1>6. a2 = Over(F, K)
  <2>1. DOMAIN K = 1..Len(K) /\ \A i \in 1..Len(K) : K[i] \in Nat /\ K[i] \in Sends(c)
    BY <1>1, LenProperties, ElementOfSeq DEF Range
  <2> HIDE DEF K
  <2>2. a2 = [i \in 1..Len(K) |-> Ext(K[i], Body(c, G, K[i]))]
    BY <2>1 DEF Map
  <2>3. \A i \in 1..Len(K) : F[K[i]] = Ext(K[i], Body(c, G, K[i]))
    BY <2>1 DEF Filled
  <2> HIDE DEF F, G, a2
  <2> QED
    BY <2>2, <2>3 DEF Over
<1>7. a3 = Over(F, L)
  <2>1. F[Second(r)] = Ext(Second(r), <<>>)
    BY <1>3 DEF Filled
  <2> HIDE DEF F
  <2>2. CASE c.grease
    BY <2>1, <2>2 DEF ReservedOf, Over
  <2>3. CASE ~c.grease
    BY <2>3 DEF ReservedOf, Over
  <2> QED
    BY <2>2, <2>3
<1>8. a4 = Over(F, P)
  <2>1. F[21] = Ext(21, <<>>)
    BY <1>3 DEF Filled
  <2> HIDE DEF F
  <2>2. CASE 21 \in c.on
    BY <2>1, <2>2 DEF Padding, Over
  <2>3. CASE 21 \notin c.on
    BY <2>3 DEF Padding, Over
  <2> QED
    BY <2>2, <2>3
<1> HIDE DEF a1, a2, a3, a4, F, E, G, K, L, P, x
<1>9. G \o K \in Seq(Nat) /\ G \o K \o L \in Seq(Nat) /\ G \o K \o L \o P \in Seq(Nat)
  BY <1>1, ConcatProperties
<1>10. \A w : w = Over(F, G) \o Over(F, K) => w = Over(F, G \o K)
  BY <1>1, <1>2, OverConcat
<1>11. \A w : w = Over(F, G \o K) \o Over(F, L) => w = Over(F, G \o K \o L)
  BY <1>1, <1>2, <1>9, OverConcat
<1>12. \A w : w = Over(F, G \o K \o L) \o Over(F, P) => w = Over(F, G \o K \o L \o P)
  BY <1>1, <1>2, <1>9, OverConcat
<1>13. a1 \o a2 = Over(F, G \o K)
  BY <1>5, <1>6, <1>10, Zenon
<1>14. a1 \o a2 \o a3 = Over(F, G \o K \o L)
  BY <1>7, <1>11, <1>13, Zenon
<1>15. x = Over(F, G \o K \o L \o P)
  BY <1>4, <1>8, <1>12, <1>14, Zenon
<1>16. Ids(c, r) = G \o K \o L \o P
  BY DEF Ids, G, K, L, P
<1> DEFINE J == Ids(c, r)
<1>17. x = Over(F, J) /\ J \in Seq(Nat)
  BY <1>9, <1>15, <1>16
<1> HIDE DEF J
<1>18. Len(J) \in Nat /\ \A i \in 1..Len(J) : J[i] \in Nat
  BY <1>17, LenProperties, ElementOfSeq
<1>19. x \in [1..Len(J) -> E] /\ \A i \in 1..Len(J) : x[i] = Ext(J[i], Filled(c, r, J[i]))
  BY <1>2, <1>17, <1>18 DEF Over
<1>20. Len(x) = Len(J)
  BY <1>18, <1>19, FunctionIsSeq
<1> QED
  BY <1>17, <1>19, <1>20 DEF x, J

\* What the library sends for a list of its settings.
GroupsSent(c) == Default(c.groups, <<29, 23>>)
FormatsSent(c) == Default(c.point_formats, <<0>>)
SignaturesSent(c) == Default(c.signatures, <<1027>>)
VersionsSent(c) == <<772>> \o (IF c.only_tls13 THEN <<>> ELSE <<771>>)
SharesSent(c) == Default(c.shares, <<Default(c.groups, <<29>>)[1]>>)
Name == <<<<0, 6>>>>
PskModes == <<<<1>>>>
Paired(s) == Map(LAMBDA g : <<g, ShareLen(g)>>, s)

\* The body of each extension that has one.
LEMMA BodyCases ==
  ASSUME NEW c, NEW G \in Seq(Nat), NEW id
  PROVE  /\ id = 0 => Body(c, G, id) = Name
         /\ id = 10 => Body(c, G, id) = Singles(G \o GroupsSent(c))
         /\ id = 11 => Body(c, G, id) = Singles(FormatsSent(c))
         /\ id = 13 => Body(c, G, id) = Singles(SignaturesSent(c))
         /\ id = 16 => Body(c, G, id) = Singles(c.alpn)
         /\ id = 27 => Body(c, G, id) = Singles(c.compression)
         /\ id = 43 => Body(c, G, id) = Singles(G \o VersionsSent(c))
         /\ id = 45 => Body(c, G, id) = PskModes
         /\ id = 50 => Body(c, G, id) = Singles(c.certificate_signatures)
         /\ id = 51 => Body(c, G, id) = Paired(G \o SharesSent(c))
         /\ id \notin {0, 10, 11, 13, 16, 27, 43, 45, 50, 51} => Body(c, G, id) = <<>>
<1> DEFINE d43 == IF c.only_tls13 THEN <<>> ELSE <<771>>
           b0 == <<<<0, 6>>>>
           b10 == Singles(G \o GroupsSent(c))
           b11 == Singles(FormatsSent(c))
           b13 == Singles(SignaturesSent(c))
           b16 == Singles(c.alpn)
           b27 == Singles(c.compression)
           b43 == Singles(G \o <<772>> \o d43)
           b45 == <<<<1>>>>
           b50 == Singles(c.certificate_signatures)
           b51 == Paired(G \o SharesSent(c))
           b == Body(c, G, id)
<1>1. b = CASE id = 0 -> b0 [] id = 10 -> b10 [] id = 11 -> b11 [] id = 13 -> b13
            [] id = 16 -> b16 [] id = 27 -> b27 [] id = 43 -> b43 [] id = 45 -> b45
            [] id = 50 -> b50 [] id = 51 -> b51 [] OTHER -> <<>>
  BY DEF Body, Paired, GroupsSent, FormatsSent, SignaturesSent, SharesSent
<1>2. b43 = Singles(G \o VersionsSent(c))
  <2>1. <<772>> \in Seq(Nat) /\ d43 \in Seq(Nat)
    OBVIOUS
  <2>2. <<772>> \o d43 = VersionsSent(c)
    BY DEF VersionsSent
  <2> HIDE DEF d43
  <2>3. G \o <<772>> \o d43 = G \o (<<772>> \o d43)
    BY <2>1, ConcatAssociative
  <2> QED
    BY <2>2, <2>3
<1>3. b0 = Name /\ b45 = PskModes
  BY DEF Name, PskModes
<1> HIDE DEF b, b0, b10, b11, b13, b16, b27, b43, b45, b50, b51, d43
<1>4. /\ id = 0 => b = b0
      /\ id = 10 => b = b10
      /\ id = 11 => b = b11
      /\ id = 13 => b = b13
      /\ id = 16 => b = b16
      /\ id = 27 => b = b27
      /\ id = 43 => b = b43
      /\ id = 45 => b = b45
      /\ id = 50 => b = b50
      /\ id = 51 => b = b51
      /\ id \notin {0, 10, 11, 13, 16, 27, 43, 45, 50, 51} => b = <<>>
  BY <1>1
<1> QED
  BY <1>2, <1>3, <1>4, Zenon DEF b, b10, b11, b13, b16, b27, b50, b51

\* What the library sends of itself it can order, and so it does, once each.
LEMMA IdsProperties ==
  ASSUME NEW build \in BOOLEAN, NEW c \in Settings, Mirrorable(c, build), NEW r \in Draws
  PROVE  /\ Sends(c) \subseteq Orderable(build)
         /\ Range(Ordered(c)) = Sends(c) /\ Distinct(Ordered(c))
         /\ Range(Ids(c, r)) = Range(ReservedOf(c, r)) \cup Sends(c)
                               \cup Range(ReservedOf(c, Second(r))) \cup ({21} \cap c.on)
         /\ Distinct(Ids(c, r))
<1> DEFINE G == ReservedOf(c, r)
           K == Ordered(c)
           L == ReservedOf(c, Second(r))
           P == Padding(c)
<1>1. Sends(c) \subseteq Orderable(build)
  <2>1. ASSUME NEW id \in Sends(c) PROVE id \in Orderable(build)
    <3>1. /\ id \in {0, 5, 10, 11, 13, 16, 17, 18, 22, 23, 27, 35, 43, 45, 50, 51, 65037, 65281}
          /\ id \in {17, 22} => id \in c.on
          /\ id = 50 => c.certificate_signatures # <<>>
      BY SendsProperties
    <3>2. id \in {17, 22, 50} => build
      <4>1. c.on \subseteq Switched(build) /\ (~build => Range(c.certificate_signatures) = {})
        BY DEF Mirrorable
      <4>2. \A s \in Seq(Nat) : Range(s) = {} => s = <<>>
        <5>1. ASSUME NEW s \in Seq(Nat), s # <<>> PROVE Range(s) # {}
          <6>1. Len(s) \in Nat /\ Len(s) # 0 /\ DOMAIN s = 1..Len(s)
            BY <5>1, EmptySeq, LenProperties
          <6>2. 1 \in DOMAIN s
            BY <6>1
          <6> QED
            BY <6>2 DEF Range
        <5> QED
          BY <5>1
      <4>3. c.certificate_signatures \in Seq(Nat)
        BY DEF Settings
      <4>4. id \in {17, 22} => build
        BY <3>1, <4>1 DEF Switched
      <4> QED
        BY <3>1, <4>1, <4>2, <4>3, <4>4
    <3> QED
      BY <3>1, <3>2 DEF Orderable
  <2> QED
    BY <2>1
<1>2. c.order \in Seq(Nat) /\ Distinct(c.order) /\ Range(c.order) = Orderable(build)
  BY BackendProperties DEF Settings, Mirrorable, Distinct
<1>3. Range(K) = Sends(c)
  <2>1. Range(K) = Range(c.order) \cap Sends(c)
    BY IdsTypes
  <2> HIDE DEF K
  <2> QED
    BY <1>1, <1>2, <2>1
<1>4. Distinct(K)
  BY <1>2, KeepDistinct DEF Ordered
<1>5. /\ G \in Seq(Nat) /\ K \in Seq(Nat) /\ L \in Seq(Nat) /\ P \in Seq(Nat)
      /\ Range(G) \subseteq {r} /\ Range(L) \subseteq {Second(r)} /\ Range(P) = {21} \cap c.on
  BY IdsTypes
<1>6. Distinct(G) /\ Distinct(L) /\ Distinct(P)
  BY DEF ReservedOf, Padding, Distinct
<1>7. /\ r \in Nat /\ grease(r) /\ Second(r) \in Nat /\ grease(Second(r)) /\ r # Second(r) /\ ~grease(21)
  <2>1. r \in Nat
    BY DrawsAreGrease
  <2>2. r # Second(r)
    BY <2>1, SMT DEF Second
  <2> QED
    BY <2>2, DrawsAreGrease, TablesAreNotReserved
<1>8. \A id \in Sends(c) : ~grease(id) /\ id # 21
  BY SendsAreKnown
<1>9. Ids(c, r) = G \o K \o L \o P
  BY DEF Ids
<1> HIDE DEF G, K, L, P
<1> DEFINE b2 == G \o K
           b3 == b2 \o L
<1>10. b2 \in Seq(Nat) /\ Range(b2) = Range(G) \cup Sends(c)
  BY <1>3, <1>5, RangeOfConcat
<1>11. Distinct(b2)
  <2>1. \A x \in Range(G) : x \notin Range(K)
    BY <1>3, <1>5, <1>7, <1>8
  <2> QED
    BY <1>4, <1>5, <1>6, <2>1, DistinctConcat
<1> HIDE DEF b2
<1>12. b3 \in Seq(Nat) /\ Range(b3) = Range(b2) \cup Range(L)
  BY <1>5, <1>10, RangeOfConcat
<1>13. Distinct(b3)
  <2>1. \A x \in Range(b2) : x \notin Range(L)
    BY <1>5, <1>7, <1>8, <1>10
  <2> QED
    BY <1>5, <1>6, <1>10, <1>11, <2>1, DistinctConcat
<1> HIDE DEF b3
<1>14. Range(b3 \o P) = Range(b3) \cup Range(P)
  BY <1>5, <1>12, RangeOfConcat
<1>15. Distinct(b3 \o P)
  <2>1. \A x \in Range(b3) : x \notin Range(P)
    BY <1>5, <1>7, <1>8, <1>10, <1>12
  <2> QED
    BY <1>5, <1>6, <1>12, <1>13, <2>1, DistinctConcat
<1>16. Ids(c, r) = b3 \o P
  BY <1>9 DEF b2, b3
<1>17. Range(Ids(c, r)) = Range(G) \cup Sends(c) \cup Range(L) \cup ({21} \cap c.on)
  BY <1>5, <1>10, <1>12, <1>14, <1>16, Zenon
<1>18. Distinct(Ids(c, r))
  BY <1>15, <1>16
<1> QED
  BY <1>1, <1>3, <1>4, <1>17, <1>18 DEF G, K, L

\* The library's hello can be parsed.
LEMMA EmissionParsable ==
  ASSUME NEW build \in BOOLEAN, NEW c \in Settings, Mirrorable(c, build), NEW r \in Draws
  PROVE  Parsable(Emission(c, build, r))
<1> DEFINE e == Emission(c, build, r)
           J == Ids(c, r)
           x == e.extensions
           G == ReservedOf(c, r)
<1>1. /\ Len(x) = Len(J)
      /\ \A i \in 1..Len(J) : x[i] = Ext(J[i], Filled(c, r, J[i]))
      /\ J \in Seq(Nat)
  BY EmissionIds
<1>2. e \in Hello
  BY EmissionProperties
<1>3. DOMAIN x = 1..Len(J) /\ DOMAIN J = 1..Len(J) /\ \A i \in 1..Len(J) : J[i] \in Range(J)
  BY <1>1, <1>2, HelloTypes, LenProperties DEF Range
<1>4. /\ Distinct(J)
      /\ \A id \in Range(J) : grease(id) \/ id \in Sends(c) \/ id = 21
  <2>1. \A id \in Range(G) \cup Range(ReservedOf(c, Second(r))) : grease(id)
    BY IdsTypes, DrawsAreGrease
  <2> QED
    BY <2>1, IdsProperties
<1>5. e.proper = TRUE
  BY DEF Emission
<1>6. e.ciphers # <<>>
  <2>1. c.ciphers \in Seq(Nat) /\ \E y \in Range(c.ciphers) : y \in Ciphers
    BY DEF Mirrorable, Settings
  <2>2. DOMAIN c.ciphers # {}
    BY <2>1 DEF Range
  <2>3. Len(c.ciphers) \in Nat \ {0}
    BY <2>1, <2>2, LenProperties
  <2>4. e.ciphers = IF build THEN Map(LAMBDA y : IF grease(y) THEN r ELSE y, c.ciphers)
                    ELSE G \o c.ciphers
    BY DEF Emission, ReservedOf
  <2>5. CASE build
    <3>1. DOMAIN e.ciphers = DOMAIN c.ciphers
      BY <2>4, <2>5 DEF Map
    <3>2. DOMAIN <<>> = {}
      OBVIOUS
    <3> QED
      BY <2>2, <3>1, <3>2, Zenon
  <2>6. CASE ~build
    <3>1. G \in Seq(Nat)
      BY IdsTypes
    <3> HIDE DEF G
    <3>2. Len(G) \in Nat /\ Len(G \o c.ciphers) = Len(G) + Len(c.ciphers)
      BY <2>1, <3>1, ConcatProperties, LenProperties
    <3>3. Len(G \o c.ciphers) # Len(<<>>)
      BY <2>3, <3>2
    <3> QED
      BY <2>4, <2>6, <3>3, Zenon
  <2> QED
    BY <2>5, <2>6
<1> HIDE DEF e, J, x
<1>7. ~DuplicateExtension(e)
  <2>1. \A i, j \in 1..Len(J) : x[i].id = x[j].id => i = j
    BY <1>1, <1>3, <1>4 DEF Distinct, Ext
  <2> QED
    BY <1>3, <2>1 DEF DuplicateExtension, x
<1>8. ASSUME NEW i \in DOMAIN x PROVE ~BadBody(x[i])
  <2> DEFINE id == J[i]
             b == Filled(c, r, id)
  <2>1. x[i].id = id /\ x[i].items = b /\ x[i].proper = TRUE
    BY <1>1, <1>3 DEF Ext
  <2>2. id \in {0, 16, 50} => id \in Sends(c)
    <3>1. grease(id) \/ id \in Sends(c) \/ id = 21
      BY <1>3, <1>4
    <3>2. ~grease(0) /\ ~grease(16) /\ ~grease(50)
      BY SMT DEF grease
    <3> HIDE DEF id
    <3> QED
      BY <3>1, <3>2
  <2>3. G \in Seq(Nat) /\ (id \in Sends(c) => b = Body(c, G, id))
    BY IdsTypes DEF Filled
  <2> HIDE DEF id, b, G
  <2>4. /\ id = 0 => b = Name
        /\ id = 16 => b = Singles(c.alpn)
        /\ id = 50 => b = Singles(c.certificate_signatures)
    BY <2>2, <2>3, BodyCases
  <2>5. ASSUME id = 0, NEW j \in DOMAIN b, b[j] = <<0, 0>> PROVE FALSE
    <3>1. b = <<<<0, 6>>>>
      BY <2>4, <2>5 DEF Name
    <3>2. b[j] = <<0, 6>>
      BY <2>5, <3>1
    <3> QED
      BY <2>5, <3>2
  <2>6. ASSUME id = 16, NEW j \in DOMAIN b, b[j][1] = 0 PROVE FALSE
    <3>1. c.alpn \in Seq(Nat) /\ Range(c.alpn) \subseteq {1, 2}
      BY DEF Mirrorable, Settings
    <3>2. \A t \in Range(b) : t[1] \in {1, 2}
      BY <2>4, <2>6, <3>1, SinglesProperties
    <3>3. b[j][1] \in {1, 2}
      BY <2>6, <3>2 DEF Range
    <3> QED
      BY <2>6, <3>3
  <2>7. ASSUME id = 50 PROVE b # <<>>
    <3>1. c.certificate_signatures # <<>> /\ c.certificate_signatures \in Seq(Nat)
      <4>1. id \in Sends(c)
        BY <2>2, <2>7
      <4>2. c.certificate_signatures # <<>>
        BY <2>7, <4>1, SendsProperties
      <4> QED
        BY <4>2 DEF Settings
    <3>2. OctsOf(b) = c.certificate_signatures
      BY <2>4, <2>7, <3>1, SinglesBack
    <3>3. OctsOf(<<>>) = <<>>
      BY DEF OctsOf, Map
    <3> QED
      BY <3>1, <3>2, <3>3, Zenon
  <2> QED
    BY <2>1, <2>5, <2>6, <2>7 DEF BadBody
<1> QED
  BY <1>5, <1>6, <1>7, <1>8 DEF Parsable, e, x

\* What parse_hello() finds for an extension is what the library has put in.
LEMMA EmissionItems ==
  ASSUME NEW build \in BOOLEAN, NEW c \in Settings, Mirrorable(c, build), NEW r \in Draws,
         NEW id \in Nat, ~grease(id), id # 21
  PROVE  Items(Emission(c, build, r), id) = Filled(c, r, id)
<1> DEFINE e == Emission(c, build, r)
           J == Ids(c, r)
           x == e.extensions
<1>1. /\ Len(x) = Len(J)
      /\ \A i \in 1..Len(J) : x[i] = Ext(J[i], Filled(c, r, J[i]))
      /\ J \in Seq(Nat)
  BY EmissionIds
<1>2. e \in Hello /\ Parsable(e)
  BY EmissionProperties, EmissionParsable
<1>3. DOMAIN x = 1..Len(J) /\ DOMAIN J = 1..Len(J)
  BY <1>1, <1>2, HelloTypes, LenProperties
<1>4. id \in Sends(c) => id \in Range(J)
  BY IdsProperties
<1> HIDE DEF e, J
<1>5. ASSUME NEW i \in 1..Len(J) PROVE x[i].id = J[i] /\ x[i].items = Filled(c, r, J[i])
  <2>1. x[i] = Ext(J[i], Filled(c, r, J[i]))
    BY <1>1
  <2> QED
    BY <2>1 DEF Ext
<1>6. CASE id \in Range(J)
  <2>1. PICK i \in 1..Len(J) : J[i] = id
    BY <1>3, <1>6 DEF Range
  <2>2. i \in DOMAIN e.extensions /\ e.extensions[i].id = id /\ e.extensions[i].items = Filled(c, r, id)
    BY <1>3, <1>5, <2>1
  <2>3. Items(e, e.extensions[i].id) = e.extensions[i].items
    BY <1>2, <2>2, ItemsAreFound
  <2> QED
    BY <2>2, <2>3 DEF e
<1>7. CASE id \notin Range(J)
  <2>1. Place(e, id) = {}
    BY <1>3, <1>5, <1>7 DEF Place, Range
  <2>2. Items(e, id) = <<>>
    BY <2>1 DEF Items
  <2> QED
    BY <1>4, <1>7, <2>2 DEF Filled, e
<1> QED
  BY <1>6, <1>7

\* Which extensions the library sends.
LEMMA SendsCases ==
  ASSUME NEW c \in Settings
  PROVE  /\ {0, 10, 11, 13, 23} \subseteq Sends(c)
         /\ 16 \in Sends(c) <=> c.alpn # <<>>
         /\ 50 \in Sends(c) <=> c.certificate_signatures # <<>>
         /\ 43 \in Sends(c) <=> ~c.at_most_tls12
         /\ 51 \in Sends(c) <=> ~c.at_most_tls12
         /\ 45 \in Sends(c) <=> ~c.at_most_tls12 /\ 45 \in c.on
         /\ 27 \in Sends(c) <=> ~c.at_most_tls12 /\ c.compression # <<>>
         /\ \A id \in {5, 17, 18, 22, 35, 65037, 65281} : id \in Sends(c) <=> id \in c.on
BY SMT DEF Sends

\* Settings send the same extensions if they agree in this.
AgreeInSwitches(x, y) ==
  /\ x.alpn = <<>> <=> y.alpn = <<>>
  /\ x.certificate_signatures = <<>> <=> y.certificate_signatures = <<>>
  /\ x.at_most_tls12 <=> y.at_most_tls12
  /\ ~x.at_most_tls12 => (x.compression = <<>> <=> y.compression = <<>>)
  /\ ~x.at_most_tls12 => (45 \in x.on <=> 45 \in y.on)
  /\ \A id \in {5, 17, 18, 22, 35, 65037, 65281} : id \in x.on <=> id \in y.on

\* So far Sends is decided by them.
LEMMA SendsDecided ==
  ASSUME NEW c \in Settings, NEW d \in Settings, AgreeInSwitches(c, d)
  PROVE  Sends(c) = Sends(d)
<1>1. ASSUME NEW x \in Settings, NEW y \in Settings, AgreeInSwitches(x, y), NEW id \in Sends(x)
      PROVE  id \in Sends(y)
  <2>1. id \in {0, 5, 10, 11, 13, 16, 17, 18, 22, 23, 27, 35, 43, 45, 50, 51, 65037, 65281}
    BY <1>1, SendsProperties
  <2>2. CASE id \in {0, 10, 11, 13, 23}
    BY <2>2, SendsCases
  <2>3. CASE id \in {5, 17, 18, 22, 35, 65037, 65281}
    BY <1>1, <2>3, SendsCases DEF AgreeInSwitches
  <2>4. CASE id \in {16, 27, 43, 45, 50, 51}
    BY <1>1, <2>4, SendsCases DEF AgreeInSwitches
  <2> QED
    BY <2>1, <2>2, <2>3, <2>4
<1>2. AgreeInSwitches(d, c)
  BY SMT DEF AgreeInSwitches
<1> QED
  BY <1>1, <1>2

\* Lists that have an element.
LEMMA Nonempty ==
  ASSUME NEW s \in Seq(Nat)
  PROVE  /\ s # <<>> => Len(s) \in Nat \ {0} /\ s[1] \in Nat /\ s[1] \in Range(s)
         /\ s = <<>> <=> Range(s) = {}
<1>1. Len(s) \in Nat /\ DOMAIN s = 1..Len(s)
  BY LenProperties
<1>2. ASSUME s # <<>> PROVE Len(s) \in Nat \ {0} /\ s[1] \in Nat /\ s[1] \in Range(s)
  <2>1. Len(s) # 0
    BY <1>2, EmptySeq
  <2>2. 1 \in 1..Len(s)
    BY <1>1, <2>1
  <2> QED
    BY <1>1, <2>1, <2>2, ElementOfSeq DEF Range
<1>3. Range(<<>>) = {}
  BY DEF Range
<1> QED
  BY <1>2, <1>3

\* The lists that the library sends are of its tables.
LEMMA SentTypes ==
  ASSUME NEW build \in BOOLEAN, NEW c \in Settings, Mirrorable(c, build)
  PROVE  /\ GroupsSent(c) \in Seq(Nat) /\ Range(GroupsSent(c)) \subseteq Groups(build) /\ GroupsSent(c) # <<>>
         /\ SignaturesSent(c) \in Seq(Nat) /\ Range(SignaturesSent(c)) \subseteq SIGNATURES(build)
         /\ SignaturesSent(c) # <<>>
         /\ FormatsSent(c) \in Seq(Nat) /\ Range(FormatsSent(c)) \subseteq 0..2 /\ FormatsSent(c) # <<>>
         /\ SharesSent(c) \in Seq(Nat) /\ Range(SharesSent(c)) \subseteq Groups(build) /\ SharesSent(c) # <<>>
         /\ VersionsSent(c) \in Seq(Nat)
         /\ Range(VersionsSent(c)) = {772} \cup (IF c.only_tls13 THEN {} ELSE {771})
<1>1. /\ c.groups \in Seq(Nat) /\ c.point_formats \in Seq(Nat) /\ c.signatures \in Seq(Nat) /\ c.shares \in Seq(Nat)
  BY DEF Settings
<1>2. /\ Range(c.groups) \subseteq Groups(build) /\ Range(c.shares) \subseteq Groups(build)
      /\ Range(c.signatures) \subseteq SIGNATURES(build) /\ Range(c.point_formats) \subseteq 0..2
  BY DEF Mirrorable
<1>3. ASSUME NEW d \in Seq(Nat), d # <<>>, NEW s \in Seq(Nat), NEW S, Range(s) \subseteq S, Range(d) \subseteq S
      PROVE  Default(s, d) \in Seq(Nat) /\ Default(s, d) # <<>> /\ Range(Default(s, d)) \subseteq S
  BY <1>3 DEF Default
<1>4. \A n \in Nat : <<n>> \in Seq(Nat) /\ <<n>> # <<>> /\ Range(<<n>>) = {n}
  BY DEF Range
<1>5. 29 \in Groups(build) /\ 23 \in Groups(build) /\ 1027 \in SIGNATURES(build)
  BY TablesAreNotReserved
<1>6. GroupsSent(c) \in Seq(Nat) /\ Range(GroupsSent(c)) \subseteq Groups(build) /\ GroupsSent(c) # <<>>
  <2> DEFINE d == <<29, 23>>
  <2>1. d \in Seq(Nat) /\ d # <<>> /\ Range(d) = {29, 23}
    BY DEF Range
  <2>2. GroupsSent(c) = Default(c.groups, d)
    BY DEF GroupsSent
  <2> HIDE DEF d
  <2>3. Range(d) \subseteq Groups(build)
    BY <1>5, <2>1
  <2> QED
    BY <1>1, <1>2, <1>3, <2>1, <2>2, <2>3
<1>7. /\ SignaturesSent(c) \in Seq(Nat) /\ Range(SignaturesSent(c)) \subseteq SIGNATURES(build)
      /\ SignaturesSent(c) # <<>>
  <2> DEFINE d == <<1027>>
  <2>1. d \in Seq(Nat) /\ d # <<>> /\ Range(d) \subseteq SIGNATURES(build)
    BY <1>4, <1>5
  <2>2. SignaturesSent(c) = Default(c.signatures, d)
    BY DEF SignaturesSent
  <2> HIDE DEF d
  <2> QED
    BY <1>1, <1>2, <1>3, <2>1, <2>2
<1>8. FormatsSent(c) \in Seq(Nat) /\ Range(FormatsSent(c)) \subseteq 0..2 /\ FormatsSent(c) # <<>>
  <2>1. <<0>> \in Seq(Nat) /\ <<0>> # <<>> /\ Range(<<0>>) \subseteq 0..2
    BY <1>4
  <2> QED
    BY <1>1, <1>2, <1>3, <2>1 DEF FormatsSent
<1>9. SharesSent(c) \in Seq(Nat) /\ Range(SharesSent(c)) \subseteq Groups(build) /\ SharesSent(c) # <<>>
  <2> DEFINE d == Default(c.groups, <<29>>)
  <2>1. <<29>> \in Seq(Nat) /\ <<29>> # <<>> /\ Range(<<29>>) \subseteq Groups(build)
    BY <1>4, <1>5
  <2>2. d \in Seq(Nat) /\ d # <<>> /\ Range(d) \subseteq Groups(build)
    BY <1>1, <1>2, <1>3, <2>1
  <2>3. SharesSent(c) = Default(c.shares, <<d[1]>>)
    BY DEF SharesSent
  <2> HIDE DEF d
  <2>4. d[1] \in Nat /\ d[1] \in Groups(build)
    BY <2>2, Nonempty
  <2>5. <<d[1]>> \in Seq(Nat) /\ <<d[1]>> # <<>> /\ Range(<<d[1]>>) \subseteq Groups(build)
    BY <1>4, <2>4
  <2> QED
    BY <1>1, <1>2, <1>3, <2>3, <2>5
<1>10. /\ VersionsSent(c) \in Seq(Nat)
       /\ Range(VersionsSent(c)) = {772} \cup (IF c.only_tls13 THEN {} ELSE {771})
  <2> DEFINE f == <<772>>
             d == IF c.only_tls13 THEN <<>> ELSE <<771>>
  <2>1. f \in Seq(Nat) /\ Range(f) = {772}
    BY <1>4
  <2>2. d \in Seq(Nat) /\ Range(d) = IF c.only_tls13 THEN {} ELSE {771}
    BY <1>4 DEF Range
  <2>3. VersionsSent(c) = f \o d
    BY DEF VersionsSent
  <2> HIDE DEF f, d
  <2> QED
    BY <2>1, <2>2, <2>3, RangeOfConcat
<1> QED
  BY <1>6, <1>7, <1>8, <1>9, <1>10

\* What is observed of key shares.
LEMMA PairedBack ==
  ASSUME NEW s \in Seq(Nat)
  PROVE  /\ Paired(s) \in Seq(Two) /\ Len(Paired(s)) = Len(s)
         /\ \A i \in 1..Len(s) : Paired(s)[i] = <<s[i], ShareLen(s[i])>>
         /\ WordsOf(Paired(s)) = Map(normalize, s)
<1>1. Len(s) \in Nat /\ DOMAIN s = 1..Len(s) /\ \A i \in 1..Len(s) : s[i] \in Nat
  BY LenProperties, ElementOfSeq
<1> DEFINE a == Paired(s)
<1>2. a = [i \in 1..Len(s) |-> <<s[i], ShareLen(s[i])>>]
  BY <1>1 DEF Paired, Map
<1>3. \A x : <<x, ShareLen(x)>>[1] = x
  OBVIOUS
<1>4. \A x \in Nat : <<x, ShareLen(x)>> \in Two
  BY DEF Two, ShareLen
<1> HIDE DEF a
<1>5. a \in [1..Len(s) -> Two]
  BY <1>1, <1>2, <1>4
<1>6. WordsOf(a) = [i \in 1..Len(s) |-> normalize(s[i])]
  BY <1>2, <1>3 DEF WordsOf, Map
<1>7. Map(normalize, s) = [i \in 1..Len(s) |-> normalize(s[i])]
  BY <1>1 DEF Map
<1>8. a \in Seq(Two) /\ Len(a) = Len(s)
  BY <1>1, <1>5, FunctionIsSeq
<1> QED
  BY <1>2, <1>6, <1>7, <1>8 DEF a

\* What the bridge observes of a client that is its own library.
ObservedOf(o, c, r) ==
  LET G == ReservedOf(c, r)
  IN  /\ o.extensions = Map(normalize, Ids(c, r))
      /\ o.groups = Map(normalize, G \o GroupsSent(c))
      /\ o.point_formats = FormatsSent(c)
      /\ o.signature_algorithms = Map(normalize, SignaturesSent(c))
      /\ o.signature_algorithms_cert = Map(normalize, c.certificate_signatures)
      /\ o.alpn = c.alpn
      /\ c.at_most_tls12 => o.supported_versions = <<>> /\ o.cert_compression = <<>>
      /\ ~c.at_most_tls12 => /\ o.supported_versions = Map(normalize, G \o VersionsSent(c))
                             /\ o.key_share_groups = Map(normalize, G \o SharesSent(c))
                             /\ o.cert_compression = Map(normalize, c.compression)

\* For every setting and every draw.
LEMMA OwnObserved ==
  ASSUME NEW build \in BOOLEAN, NEW c \in Settings, Mirrorable(c, build), NEW r \in Draws
  PROVE  /\ TlsHello(Emission(c, build, r)) \in TlsHellos
         /\ TlsHello(Emission(c, build, r)).ciphers = Map(normalize, Emission(c, build, r).ciphers)
         /\ ObservedOf(TlsHello(Emission(c, build, r)), c, r)
<1> DEFINE e == Emission(c, build, r)
           o == TlsHello(e)
           G == ReservedOf(c, r)
           J == Ids(c, r)
<1>1. e \in Hello /\ o \in TlsHellos
  BY EmissionProperties, ObservationTypes
<1>2. /\ o.ciphers = Map(normalize, e.ciphers)
      /\ o.extensions = Map(LAMBDA x : normalize(x.id), e.extensions)
      /\ o.groups = WordsOf(Items(e, 10)) /\ o.point_formats = OctsOf(Items(e, 11))
      /\ o.signature_algorithms = WordsOf(Items(e, 13))
      /\ o.signature_algorithms_cert = WordsOf(Items(e, 50))
      /\ o.supported_versions = WordsOf(Items(e, 43)) /\ o.alpn = OctsOf(Items(e, 16))
      /\ o.key_share_groups = WordsOf(Items(e, 51)) /\ o.cert_compression = WordsOf(Items(e, 27))
  BY DEF TlsHello, words, Octs, WordsOf, OctsOf
<1>3. o.extensions = Map(normalize, J)
  <2> DEFINE x == e.extensions
  <2>1. /\ J \in Seq(Nat) /\ Len(x) = Len(J)
        /\ \A i \in 1..Len(J) : x[i] = Ext(J[i], Filled(c, r, J[i]))
    BY EmissionIds
  <2>2. DOMAIN x = 1..Len(J) /\ DOMAIN J = 1..Len(J)
    BY <1>1, <2>1, HelloTypes, LenProperties
  <2>3. Map(LAMBDA y : normalize(y.id), x) = [i \in DOMAIN x |-> normalize(x[i].id)]
    BY DEF Map
  <2>4. Map(normalize, J) = [i \in DOMAIN J |-> normalize(J[i])]
    BY DEF Map
  <2>5. o.extensions = [i \in DOMAIN x |-> normalize(x[i].id)]
    BY <1>2, <2>3, Zenon
  <2> HIDE DEF x, J, o
  <2>6. ASSUME NEW i \in 1..Len(J) PROVE x[i].id = J[i]
    <3>1. x[i] = Ext(J[i], Filled(c, r, J[i]))
      BY <2>1
    <3> QED
      BY <3>1 DEF Ext
  <2> QED
    BY <2>2, <2>4, <2>5, <2>6
<1> HIDE DEF e, J, o
<1>4. G \in Seq(Nat)
  BY IdsTypes
<1>5. ASSUME NEW id \in {10, 11, 13, 16, 27, 43, 50, 51}
      PROVE  /\ id \in Sends(c) => Items(e, id) = Body(c, G, id)
             /\ id \notin Sends(c) => Items(e, id) = <<>>
  <2>1. id \in Nat /\ ~grease(id) /\ id # 21
    BY <1>5, SMT DEF grease
  <2>2. Items(e, id) = Filled(c, r, id)
    BY <2>1, EmissionItems DEF e
  <2> QED
    BY <2>2 DEF Filled
<1> HIDE DEF G
<1>6. WordsOf(<<>>) = <<>> /\ OctsOf(<<>>) = <<>> /\ Map(normalize, <<>>) = <<>>
  BY DEF WordsOf, OctsOf, Map
<1>7. /\ c.alpn \in Seq(Nat) /\ c.certificate_signatures \in Seq(Nat) /\ c.compression \in Seq(Nat)
  BY DEF Settings
<1>8. /\ GroupsSent(c) \in Seq(Nat) /\ G \o GroupsSent(c) \in Seq(Nat) /\ SignaturesSent(c) \in Seq(Nat)
      /\ FormatsSent(c) \in Seq(Nat) /\ G \o SharesSent(c) \in Seq(Nat) /\ G \o VersionsSent(c) \in Seq(Nat)
  BY <1>4, SentTypes, ConcatProperties
<1>9. o.groups = Map(normalize, G \o GroupsSent(c))
  <2>1. Items(e, 10) = Singles(G \o GroupsSent(c))
    BY <1>4, <1>5, SendsCases, BodyCases
  <2> QED
    BY <1>2, <1>8, <2>1, SinglesBack
<1>10. o.point_formats = FormatsSent(c)
  <2>1. Items(e, 11) = Singles(FormatsSent(c))
    BY <1>4, <1>5, SendsCases, BodyCases
  <2> QED
    BY <1>2, <1>8, <2>1, SinglesBack
<1>11. o.signature_algorithms = Map(normalize, SignaturesSent(c))
  <2>1. Items(e, 13) = Singles(SignaturesSent(c))
    BY <1>4, <1>5, SendsCases, BodyCases
  <2> QED
    BY <1>2, <1>8, <2>1, SinglesBack
<1>12. o.signature_algorithms_cert = Map(normalize, c.certificate_signatures)
  <2>1. CASE c.certificate_signatures = <<>>
    <3>1. Items(e, 50) = <<>>
      BY <1>5, <2>1, SendsCases
    <3> QED
      BY <1>2, <1>6, <2>1, <3>1, Zenon
  <2>2. CASE c.certificate_signatures # <<>>
    <3>1. Items(e, 50) = Singles(c.certificate_signatures)
      BY <1>4, <1>5, <2>2, SendsCases, BodyCases
    <3> QED
      BY <1>2, <1>7, <3>1, SinglesBack
  <2> QED
    BY <2>1, <2>2
<1>13. o.alpn = c.alpn
  <2>1. CASE c.alpn = <<>>
    <3>1. Items(e, 16) = <<>>
      BY <1>5, <2>1, SendsCases
    <3> QED
      BY <1>2, <1>6, <2>1, <3>1, Zenon
  <2>2. CASE c.alpn # <<>>
    <3>1. Items(e, 16) = Singles(c.alpn)
      BY <1>4, <1>5, <2>2, SendsCases, BodyCases
    <3> QED
      BY <1>2, <1>7, <3>1, SinglesBack
  <2> QED
    BY <2>1, <2>2
<1>14. c.at_most_tls12 => o.supported_versions = <<>> /\ o.cert_compression = <<>>
  BY <1>2, <1>5, <1>6, SendsCases
<1>15. ASSUME ~c.at_most_tls12
       PROVE  /\ o.supported_versions = Map(normalize, G \o VersionsSent(c))
              /\ o.key_share_groups = Map(normalize, G \o SharesSent(c))
              /\ o.cert_compression = Map(normalize, c.compression)
  <2>1. Items(e, 43) = Singles(G \o VersionsSent(c))
    BY <1>4, <1>5, <1>15, SendsCases, BodyCases
  <2>2. Items(e, 51) = Paired(G \o SharesSent(c))
    BY <1>4, <1>5, <1>15, SendsCases, BodyCases
  <2>3. o.cert_compression = Map(normalize, c.compression)
    <3>1. CASE c.compression = <<>>
      <4>1. Items(e, 27) = <<>>
        BY <1>5, <3>1, SendsCases
      <4> QED
        BY <1>2, <1>6, <3>1, <4>1, Zenon
    <3>2. CASE c.compression # <<>>
      <4>1. Items(e, 27) = Singles(c.compression)
        BY <1>4, <1>5, <1>15, <3>2, SendsCases, BodyCases
      <4> QED
        BY <1>2, <1>7, <4>1, SinglesBack
    <3> QED
      BY <3>1, <3>2
  <2>4. o.supported_versions = Map(normalize, G \o VersionsSent(c))
    BY <1>2, <1>8, <2>1, SinglesBack
  <2>5. o.key_share_groups = Map(normalize, G \o SharesSent(c))
    BY <1>2, <1>8, <2>2, PairedBack
  <2> QED
    BY <2>3, <2>4, <2>5
<1>16. ObservedOf(o, c, r)
  BY <1>3, <1>9, <1>10, <1>11, <1>12, <1>13, <1>14, <1>15, Zenon DEF ObservedOf, G, J
<1> QED
  BY <1>1, <1>2, <1>16, Zenon DEF e, o

\* The values of a normalised list.
LEMMA RangeNormalized ==
  ASSUME NEW s \in Seq(Nat)
  PROVE  /\ Map(normalize, s) \in Seq(Nat)
         /\ Range(Map(normalize, s)) = {normalize(x) : x \in Range(s)}
         /\ \A x \in Range(Map(normalize, s)) : ~grease(x) => x \in Range(s)
         /\ \A x \in Range(s) : ~grease(x) => x \in Range(Map(normalize, s))
         /\ (\E x \in Range(s) : grease(x)) <=> (\E x \in Range(Map(normalize, s)) : grease(x))
<1>1. DOMAIN s = 1..Len(s) /\ Range(s) \subseteq Nat
  BY LenProperties, ElementOfSeq DEF Range
<1>2. Map(normalize, s) \in Seq(Nat)
  <2> DEFINE S == {}
  <2>1. \A x \in S : ~grease(x)
    OBVIOUS
  <2> HIDE DEF S
  <2>2. Map(normalize, s) \in Seq(Nat) /\ Keep(Map(normalize, s), S) = Keep(s, S)
    BY <2>1, KeepNormalized
  <2> QED
    BY <2>2
<1>3. Map(normalize, s) = [i \in DOMAIN s |-> normalize(s[i])]
  BY DEF Map
<1>4. Range(Map(normalize, s)) = {normalize(x) : x \in Range(s)}
  BY <1>3 DEF Range
<1>5. \A x \in Range(s) : (grease(x) <=> grease(normalize(x))) /\ (~grease(x) => normalize(x) = x)
  BY <1>1, NormalizeIsSame, NormalizeBack
<1>6. /\ \A x \in Range(Map(normalize, s)) : ~grease(x) => x \in Range(s)
      /\ \A x \in Range(s) : ~grease(x) => x \in Range(Map(normalize, s))
      /\ (\E x \in Range(s) : grease(x)) <=> (\E x \in Range(Map(normalize, s)) : grease(x))
  <2> DEFINE R == Range(s)
             N == Range(Map(normalize, s))
  <2>1. N = {normalize(x) : x \in R}
    BY <1>4
  <2>2. \A x \in R : (grease(x) <=> grease(normalize(x))) /\ (~grease(x) => normalize(x) = x)
    BY <1>5
  <2> HIDE DEF R, N
  <2>3. \A x \in N : \E y \in R : x = normalize(y)
    BY <2>1
  <2>4. \A x \in R : normalize(x) \in N
    BY <2>1
  <2>5. /\ \A x \in N : ~grease(x) => x \in R
        /\ \A x \in R : ~grease(x) => x \in N
        /\ (\E x \in R : grease(x)) <=> (\E x \in N : grease(x))
    BY <2>2, <2>3, <2>4
  <2> QED
    BY <2>5 DEF R, N
<1> QED
  BY <1>2, <1>4, <1>6

\* A list whose reserved values are drawn anew.
Redrawn(t, s, r) ==
  Len(t) = Len(s) /\ \A i \in 1..Len(s) : t[i] = IF grease(s[i]) THEN r ELSE s[i]

\* The cipher suites of the library's hello, and what CipherOrder makes of them.
LEMMA EmissionCiphers ==
  ASSUME NEW build \in BOOLEAN, NEW c \in Settings, Mirrorable(c, build), NEW r \in Draws
  PROVE  /\ Emission(c, build, r).ciphers \in Seq(Nat)
         /\ \A x \in Range(Emission(c, build, r).ciphers) :
              x \in Ciphers \/ (build /\ x = SCSV) \/ (c.grease /\ grease(x))
         /\ \E x \in Range(Emission(c, build, r).ciphers) : x \in Ciphers
         /\ build => Redrawn(Emission(c, build, r).ciphers, c.ciphers, r)
         /\ ~build => /\ Emission(c, build, r).ciphers = ReservedOf(c, r) \o c.ciphers
                      /\ Range(c.ciphers) \subseteq Ciphers
<1> DEFINE e == Emission(c, build, r)
           G == ReservedOf(c, r)
           s == c.ciphers
           t == e.ciphers
<1>1. /\ s \in Seq(Nat) /\ (\E x \in Range(s) : x \in Ciphers)
      /\ \A x \in Range(s) : x \in Ciphers \/ (build /\ (x = SCSV \/ (grease(x) /\ c.grease)))
  BY DEF Settings, Mirrorable
<1>2. \A x \in Ciphers : ~grease(x)
  BY EvidenceAssumption
<1>3. r \in Nat /\ grease(r)
  BY DrawsAreGrease
<1>4. DOMAIN s = 1..Len(s) /\ Len(s) \in Nat /\ \A i \in 1..Len(s) : s[i] \in Nat /\ s[i] \in Range(s)
  BY <1>1, LenProperties, ElementOfSeq DEF Range
<1>5. t = IF build THEN Map(LAMBDA x : IF grease(x) THEN r ELSE x, s) ELSE G \o s
  BY DEF Emission, ReservedOf
<1>6. t \in Seq(Nat)
  <2>1. e \in Hello
    BY EmissionProperties
  <2> QED
    BY <2>1, HelloTypes
<1> HIDE DEF s, t
<1>7. CASE build
  <2>1. t = [i \in 1..Len(s) |-> IF grease(s[i]) THEN r ELSE s[i]]
    BY <1>4, <1>5, <1>7 DEF Map
  <2>2. Len(t) = Len(s)
    <3>1. t \in [1..Len(s) -> Nat]
      BY <1>3, <1>4, <2>1
    <3> QED
      BY <1>4, <3>1, FunctionIsSeq
  <2>3. \A i \in 1..Len(s) : t[i] = IF grease(s[i]) THEN r ELSE s[i]
    BY <2>1
  <2>4. Range(t) = {t[i] : i \in 1..Len(s)}
    BY <2>1 DEF Range
  <2>5. \A x \in Range(t) : x \in Ciphers \/ (build /\ x = SCSV) \/ (c.grease /\ grease(x))
    <3>1. SUFFICES ASSUME NEW i \in 1..Len(s)
                   PROVE  t[i] \in Ciphers \/ (build /\ t[i] = SCSV) \/ (c.grease /\ grease(t[i]))
      BY <2>4
    <3>2. s[i] \in Ciphers \/ s[i] = SCSV \/ (grease(s[i]) /\ c.grease)
      BY <1>1, <1>4
    <3>3. CASE grease(s[i])
      <4>1. t[i] = r
        BY <2>3, <3>3
      <4>2. s[i] # SCSV
        BY <3>3, TablesAreNotReserved
      <4> QED
        BY <1>2, <1>3, <3>2, <3>3, <4>1, <4>2
    <3>4. CASE ~grease(s[i])
      <4>1. t[i] = s[i]
        BY <2>3, <3>4
      <4> QED
        BY <1>7, <3>2, <3>4, <4>1
    <3> QED
      BY <3>3, <3>4
  <2>6. \E x \in Range(t) : x \in Ciphers
    <3>1. PICK i \in 1..Len(s) : s[i] \in Ciphers
      BY <1>1, <1>4 DEF Range
    <3> QED
      BY <1>2, <2>3, <2>4, <3>1
  <2> QED
    BY <1>6, <1>7, <2>2, <2>3, <2>5, <2>6 DEF s, t, Redrawn
<1>8. CASE ~build
  <2>1. t = G \o s
    BY <1>5, <1>8
  <2>2. G \in Seq(Nat) /\ Range(G) \subseteq {r} /\ (~c.grease => G = <<>>)
    BY IdsTypes
  <2>3. Range(<<>>) = {}
    BY DEF Range
  <2> HIDE DEF G
  <2>4. Range(t) = Range(G) \cup Range(s)
    BY <1>1, <2>1, <2>2, RangeOfConcat
  <2>5. \A x \in Range(t) : x \in Ciphers \/ (c.grease /\ grease(x))
    BY <1>1, <1>3, <1>8, <2>2, <2>3, <2>4
  <2>6. \E x \in Range(t) : x \in Ciphers
    BY <1>1, <2>4
  <2>7. Range(s) \subseteq Ciphers
    BY <1>1, <1>8
  <2> QED
    BY <1>6, <1>8, <2>1, <2>5, <2>6, <2>7 DEF s, t, G
<1> QED
  BY <1>7, <1>8

\* The settings that mirror() makes of it are those of the client, with the
\* library's defaults in their places.
MirroredOf(m, c, build, ciphers) ==
  /\ m \in Settings
  /\ m.grease = c.grease /\ m.at_most_tls12 = c.at_most_tls12
  /\ m.ciphers = IF build THEN Map(normalize, ciphers) ELSE c.ciphers
  /\ m.groups = GroupsSent(c) /\ m.signatures = SignaturesSent(c)
  /\ m.certificate_signatures = c.certificate_signatures /\ m.alpn = c.alpn
  /\ m.point_formats = IF build THEN FormatsSent(c) ELSE <<>>
  /\ ~c.at_most_tls12 => /\ m.only_tls13 = c.only_tls13 /\ m.compression = c.compression
                         /\ m.shares = SharesSent(c)
  /\ 21 \in m.on <=> 21 \in c.on
  /\ Sends(m) = Sends(c) /\ Ordered(m) = Ordered(c)

\* Which extensions are switched on, and in which order all are sent.
LEMMA OwnOrder ==
  ASSUME NEW build \in BOOLEAN, NEW c \in Settings, Mirrorable(c, build), NEW r \in Draws,
         NEW S, S = Range(Map(normalize, Ids(c, r)))
  PROVE  /\ \A x \in S : grease(x) \/ x \in Sends(c) \/ (x = 21 /\ 21 \in c.on)
         /\ \A x \in Sends(c) \cup ({21} \cap c.on) : x \in S
         /\ c.grease <=> \E x \in S : grease(x)
         /\ Keep(Map(normalize, Ids(c, r)), Orderable(build)) = Ordered(c)
<1> DEFINE G == ReservedOf(c, r)
           K == Ordered(c)
           L == ReservedOf(c, Second(r))
           P == Padding(c)
           J == Ids(c, r)
           T == Orderable(build)
<1>1. J \in Seq(Nat) /\ J = G \o K \o L \o P
  BY EmissionIds DEF Ids
<1>2. Range(J) = Range(G) \cup Sends(c) \cup Range(L) \cup ({21} \cap c.on)
  BY IdsProperties
<1>3. /\ G \in Seq(Nat) /\ K \in Seq(Nat) /\ L \in Seq(Nat) /\ P \in Seq(Nat)
      /\ (\A x \in Range(G) : grease(x)) /\ (\A x \in Range(L) : grease(x))
      /\ Range(P) = {21} \cap c.on /\ Range(K) = Sends(c) /\ Sends(c) \subseteq T
  BY IdsTypes, IdsProperties, DrawsAreGrease
<1>4. /\ \A x \in T : ~grease(x)
      /\ 21 \notin T /\ ~grease(21)
  BY TablesAreNotReserved
<1>5. /\ c.grease => \E x \in Range(G) : grease(x)
      /\ ~c.grease => Range(G) = {} /\ Range(L) = {}
  <2>1. CASE c.grease
    BY <2>1, IdsTypes, DrawsAreGrease
  <2>2. CASE ~c.grease
    <3>1. G = <<>> /\ L = <<>>
      BY <2>2 DEF ReservedOf
    <3> QED
      BY <2>2, <3>1 DEF Range
  <2> QED
    BY <2>1, <2>2
<1> HIDE DEF G, K, L, P, J, T
<1>6. /\ \A x \in S : ~grease(x) => x \in Range(J)
      /\ \A x \in Range(J) : ~grease(x) => x \in S
      /\ (\E x \in Range(J) : grease(x)) <=> (\E x \in S : grease(x))
  BY <1>1, RangeNormalized DEF J
<1>7. \A x \in S : grease(x) \/ x \in Sends(c) \/ (x = 21 /\ 21 \in c.on)
  BY <1>2, <1>3, <1>6
<1>8. \A x \in Sends(c) \cup ({21} \cap c.on) : x \in S
  BY <1>2, <1>3, <1>4, <1>6
<1>9. c.grease <=> \E x \in S : grease(x)
  BY <1>2, <1>3, <1>4, <1>5, <1>6
<1>10. Keep(Map(normalize, J), T) = K
  <2>1. Keep(Map(normalize, J), T) = Keep(J, T)
    BY <1>1, <1>4, KeepNormalized
  <2>2. G \o K \in Seq(Nat)
    BY <1>3, ConcatProperties
  <2>3. Keep(G \o K, T) = K
    <3>1. Range(K) \subseteq T
      BY <1>3
    <3>2. (\A x \in T : ~grease(x)) /\ (\A x \in Range(G) : grease(x))
      BY <1>3, <1>4
    <3>3. /\ G \o K \in Seq(Nat)
          /\ Keep(G \o K, T) = K
          /\ Keep(Map(normalize, G \o K), T) = K
      BY <1>3, <3>1, <3>2, KeepBehind
    <3> QED
      BY <3>3
  <2> DEFINE a == G \o K
  <2>11. a \in Seq(Nat) /\ Keep(a, T) = K
    BY <2>2, <2>3
  <2> HIDE DEF a
  <2> DEFINE b == a \o L
  <2>4. b \in Seq(Nat)
    BY <1>3, <2>11, ConcatProperties
  <2>12. \A s, t \in Seq(Nat) : \A S_1 : Keep(s \o t, S_1) = Keep(s, S_1) \o Keep(t, S_1)
    BY KeepConcat
  <2>5. Keep(b, T) = Keep(a, T) \o Keep(L, T)
    BY <1>3, <2>11, <2>12 DEF b
  <2> HIDE DEF b
  <2>6. Keep(b \o P, T) = Keep(b, T) \o Keep(P, T)
    BY <1>3, <2>4, <2>12
  <2>7. Keep(L, T) = <<>> /\ Keep(P, T) = <<>>
    <3>1. Range(L) \cap T = {} /\ Range(P) \cap T = {}
      BY <1>3, <1>4
    <3> QED
      BY <1>3, <3>1, KeepAllOrNone
  <2>8. K \o <<>> = K
    BY <1>3, ConcatEmptySeq
  <2>9. Keep(b \o P, T) = K
    BY <2>11, <2>5, <2>6, <2>7, <2>8
  <2>10. J = b \o P
    BY <1>1 DEF a, b
  <2> QED
    BY <2>1, <2>9, <2>10
<1> QED
  BY <1>7, <1>8, <1>9, <1>10 DEF J, K, T

\* What is behind reserved values.
LEMMA RangeBehind ==
  ASSUME NEW G \in Seq(Nat), NEW s \in Seq(Nat),
         \A x \in Range(G) : grease(x), \A x \in Range(s) : ~grease(x)
  PROVE  /\ Map(normalize, G \o s) \in Seq(Nat)
         /\ \A x \in Range(Map(normalize, G \o s)) : grease(x) \/ x \in Range(s)
         /\ \A x \in Range(s) : x \in Range(Map(normalize, G \o s))
<1>1. G \o s \in Seq(Nat) /\ Range(G \o s) = Range(G) \cup Range(s)
  BY ConcatProperties, RangeOfConcat
<1> DEFINE t == G \o s
<1>2. t \in Seq(Nat) /\ Range(t) = Range(G) \cup Range(s)
  BY <1>1
<1> HIDE DEF t
<1>3. /\ Map(normalize, t) \in Seq(Nat)
      /\ \A x \in Range(Map(normalize, t)) : ~grease(x) => x \in Range(t)
      /\ \A x \in Range(t) : ~grease(x) => x \in Range(Map(normalize, t))
  BY <1>2, RangeNormalized
<1>4. /\ Map(normalize, t) \in Seq(Nat)
      /\ \A x \in Range(Map(normalize, t)) : grease(x) \/ x \in Range(s)
      /\ \A x \in Range(s) : x \in Range(Map(normalize, t))
  BY <1>2, <1>3
<1> QED
  BY <1>4 DEF t

\* A list without reserved values is observed as it is.
LEMMA KnownIsNormal ==
  ASSUME NEW s \in Seq(Nat), \A x \in Range(s) : ~grease(x)
  PROVE  Map(normalize, s) = s
<1>1. DOMAIN s = 1..Len(s) /\ \A i \in 1..Len(s) : s[i] \in Nat /\ s[i] \in Range(s)
  BY LenProperties, ElementOfSeq DEF Range
<1>2. \A i \in 1..Len(s) : normalize(s[i]) = s[i]
  BY <1>1, NormalizeBack
<1>3. s = [i \in 1..Len(s) |-> s[i]]
  BY <1>1
<1> QED
  BY <1>1, <1>2, <1>3 DEF Map

\* The client's lists, in front of the tables, are its settings again.
LEMMA OwnLists ==
  ASSUME NEW build \in BOOLEAN, NEW c \in Settings, Mirrorable(c, build), NEW r \in Draws,
         NEW o, ObservedOf(o, c, r)
  PROVE  /\ Keep(o.groups, Groups(build)) = GroupsSent(c)
         /\ o.signature_algorithms = SignaturesSent(c)
         /\ Range(o.signature_algorithms) \subseteq SIGNATURES(build)
         /\ o.signature_algorithms_cert = c.certificate_signatures
         /\ o.point_formats = FormatsSent(c)
         /\ ~c.at_most_tls12 => /\ Shares(o, build) = SharesSent(c)
                                /\ o.cert_compression = c.compression
         /\ Range(o.cert_compression) \subseteq Compressions
         /\ \A x \in Range(o.groups) : grease(x) \/ x \in Groups(build)
<1> DEFINE G == ReservedOf(c, r)
           g == GroupsSent(c)
           k == SharesSent(c)
<1>1. G \in Seq(Nat) /\ \A x \in Range(G) : grease(x)
  BY IdsTypes, DrawsAreGrease
<1>2. \A x \in Groups(build) \cup SIGNATURES(build) \cup Compressions : x \in Nat /\ ~grease(x)
  BY TablesAreNotReserved
<1>3. /\ g \in Seq(Nat) /\ Range(g) \subseteq Groups(build)
      /\ k \in Seq(Nat) /\ Range(k) \subseteq Groups(build)
      /\ SignaturesSent(c) \in Seq(Nat) /\ Range(SignaturesSent(c)) \subseteq SIGNATURES(build)
  BY SentTypes
<1>4. /\ c.certificate_signatures \in Seq(Nat) /\ c.compression \in Seq(Nat)
      /\ Range(c.certificate_signatures) \subseteq SIGNATURES(build)
      /\ Range(c.compression) \subseteq Compressions
  <2>1. c.certificate_signatures \in Seq(Nat) /\ c.compression \in Seq(Nat)
    BY DEF Settings
  <2>2. Range(c.certificate_signatures) \subseteq (IF build THEN SIGNATURES(TRUE) ELSE {})
        /\ Range(c.compression) \subseteq Compressions
    BY DEF Mirrorable
  <2>3. build => build = TRUE
    OBVIOUS
  <2> QED
    BY <2>1, <2>2, <2>3
<1>5. /\ o.groups = Map(normalize, G \o g) /\ o.point_formats = FormatsSent(c)
      /\ o.signature_algorithms = Map(normalize, SignaturesSent(c))
      /\ o.signature_algorithms_cert = Map(normalize, c.certificate_signatures)
      /\ c.at_most_tls12 => o.cert_compression = <<>>
      /\ ~c.at_most_tls12 => /\ o.key_share_groups = Map(normalize, G \o k)
                             /\ o.cert_compression = Map(normalize, c.compression)
  BY DEF ObservedOf
<1> HIDE DEF G, g, k
<1>6. /\ Map(normalize, SignaturesSent(c)) = SignaturesSent(c)
      /\ Map(normalize, c.certificate_signatures) = c.certificate_signatures
      /\ Map(normalize, c.compression) = c.compression
  <2>1. /\ \A x \in Range(SignaturesSent(c)) : ~grease(x)
        /\ \A x \in Range(c.certificate_signatures) : ~grease(x)
        /\ \A x \in Range(c.compression) : ~grease(x)
    BY <1>2, <1>3, <1>4
  <2> QED
    BY <1>3, <1>4, <2>1, KnownIsNormal
<1>7. /\ Keep(Map(normalize, G \o g), Groups(build)) = g
      /\ Keep(Map(normalize, G \o k), Groups(build)) = k
  <2>1. \A x \in Groups(build) : ~grease(x)
    BY <1>2
  <2>2. /\ G \o g \in Seq(Nat) /\ Keep(G \o g, Groups(build)) = g
        /\ Keep(Map(normalize, G \o g), Groups(build)) = g
    BY <1>1, <1>3, <2>1, KeepBehind
  <2>3. /\ G \o k \in Seq(Nat) /\ Keep(G \o k, Groups(build)) = k
        /\ Keep(Map(normalize, G \o k), Groups(build)) = k
    BY <1>1, <1>3, <2>1, KeepBehind
  <2> QED
    BY <2>2, <2>3
<1>8. \A x \in Range(Map(normalize, G \o g)) : grease(x) \/ x \in Groups(build)
  <2>1. \A x \in Range(g) : ~grease(x)
    BY <1>2, <1>3
  <2>2. \A x \in Range(Map(normalize, G \o g)) : grease(x) \/ x \in Range(g)
    BY <1>1, <1>3, <2>1, RangeBehind
  <2> QED
    BY <1>3, <2>2
<1>9. Range(<<>>) = {}
  BY DEF Range
<1>10. Range(o.cert_compression) \subseteq Compressions
  BY <1>4, <1>5, <1>6, <1>9
<1>11. ~c.at_most_tls12 => Shares(o, build) = k
  BY <1>5, <1>7 DEF Shares
<1> QED
  BY <1>3, <1>5, <1>6, <1>7, <1>8, <1>10, <1>11 DEF g, k

\* The client's versions.
LEMMA OwnVersions ==
  ASSUME NEW build \in BOOLEAN, NEW c \in Settings, Mirrorable(c, build), NEW r \in Draws,
         NEW o, ObservedOf(o, c, r)
  PROVE  /\ AtMostTls12(o) = c.at_most_tls12
         /\ ~c.at_most_tls12 => OnlyTls13(o) = c.only_tls13
<1> DEFINE G == ReservedOf(c, r)
           v == VersionsSent(c)
<1>1. G \in Seq(Nat) /\ \A x \in Range(G) : grease(x)
  BY IdsTypes, DrawsAreGrease
<1>2. v \in Seq(Nat) /\ Range(v) = {772} \cup (IF c.only_tls13 THEN {} ELSE {771})
  BY SentTypes
<1>3. c.at_most_tls12 \in BOOLEAN /\ c.only_tls13 \in BOOLEAN
  BY DEF Settings
<1>4. /\ c.at_most_tls12 => o.supported_versions = <<>>
      /\ ~c.at_most_tls12 => o.supported_versions = Map(normalize, G \o v)
  BY DEF ObservedOf
<1>5. ~grease(771) /\ ~grease(772)
  BY SMT DEF grease
<1> HIDE DEF G, v
<1>6. Range(<<>>) = {}
  BY DEF Range
<1>7. CASE c.at_most_tls12
  <2>1. ~Has(o.supported_versions, 772)
    BY <1>4, <1>6, <1>7 DEF Has
  <2> QED
    BY <1>3, <1>7, <2>1 DEF AtMostTls12
<1>8. CASE ~c.at_most_tls12
  <2> DEFINE R == Range(o.supported_versions)
  <2>1. \A x \in Range(v) : ~grease(x)
    BY <1>2, <1>5
  <2>2. /\ \A x \in R : grease(x) \/ x \in Range(v)
        /\ \A x \in Range(v) : x \in R
    <3>1. /\ Map(normalize, G \o v) \in Seq(Nat)
          /\ \A x \in Range(Map(normalize, G \o v)) : grease(x) \/ x \in Range(v)
          /\ \A x \in Range(v) : x \in Range(Map(normalize, G \o v))
      BY <1>1, <1>2, <2>1, RangeBehind
    <3> QED
      BY <1>4, <1>8, <3>1
  <2> HIDE DEF R
  <2>3. 772 \in R
    BY <1>2, <2>2
  <2>4. (\A x \in R : grease(x) \/ x >= 772) <=> c.only_tls13
    <3>1. CASE c.only_tls13
      BY <1>2, <2>2, <3>1
    <3>2. CASE ~c.only_tls13
      <4>1. 771 \in R
        BY <1>2, <2>2, <3>2
      <4> QED
        BY <1>5, <3>2, <4>1
    <3> QED
      BY <3>1, <3>2
  <2>5. ~AtMostTls12(o)
    BY <2>3 DEF AtMostTls12, Has, R
  <2>6. OnlyTls13(o) <=> c.only_tls13
    BY <2>3, <2>4 DEF OnlyTls13, Has, R
  <2>7. OnlyTls13(o) \in BOOLEAN /\ AtMostTls12(o) \in BOOLEAN
    BY DEF OnlyTls13, AtMostTls12, Has
  <2> QED
    BY <1>3, <1>8, <2>5, <2>6, <2>7
<1> QED
  BY <1>7, <1>8

\* What is observed of the library with settings c.
OwnHello(o, c, build, r) ==
  /\ o \in TlsHellos /\ ObservedOf(o, c, r)
  /\ o.ciphers = Map(normalize, Emission(c, build, r).ciphers)

\* The client's cipher suites.
LEMMA OwnCiphers ==
  ASSUME NEW build \in BOOLEAN, NEW c \in Settings, Mirrorable(c, build), NEW r \in Draws,
         NEW o, OwnHello(o, c, build, r)
  PROVE  /\ CipherOrder(o, build) = IF build THEN o.ciphers ELSE c.ciphers
         /\ Keep(o.ciphers, Ciphers) # <<>>
         /\ \A x \in Range(o.ciphers) : x \in Ciphers \/ (build /\ x = SCSV) \/ (c.grease /\ grease(x))
<1> DEFINE t == Emission(c, build, r).ciphers
           n == o.ciphers
<1>1. /\ t \in Seq(Nat)
      /\ \A x \in Range(t) : x \in Ciphers \/ (build /\ x = SCSV) \/ (c.grease /\ grease(x))
      /\ \E x \in Range(t) : x \in Ciphers
      /\ ~build => t = ReservedOf(c, r) \o c.ciphers /\ Range(c.ciphers) \subseteq Ciphers
  BY EmissionCiphers
<1>2. n = Map(normalize, t) /\ n \in Seq(Nat)
  BY DEF OwnHello, TlsHellos
<1> HIDE DEF t, n
<1>3. /\ \A x \in Range(n) : ~grease(x) => x \in Range(t)
      /\ \A x \in Range(t) : ~grease(x) => x \in Range(n)
      /\ (\E x \in Range(t) : grease(x)) <=> (\E x \in Range(n) : grease(x))
  <2>1. /\ Map(normalize, t) \in Seq(Nat)
        /\ \A x \in Range(Map(normalize, t)) : ~grease(x) => x \in Range(t)
        /\ \A x \in Range(t) : ~grease(x) => x \in Range(Map(normalize, t))
        /\ (\E x \in Range(t) : grease(x)) <=> (\E x \in Range(Map(normalize, t)) : grease(x))
    BY <1>1, RangeNormalized
  <2> QED
    BY <1>2, <2>1
<1>4. (\A x \in Ciphers : ~grease(x)) /\ ~grease(SCSV)
  BY EvidenceAssumption, TablesAreNotReserved
<1>5. \A x \in Range(n) : x \in Ciphers \/ (build /\ x = SCSV) \/ (c.grease /\ grease(x))
  <2>1. SUFFICES ASSUME NEW x \in Range(n)
                 PROVE  x \in Ciphers \/ (build /\ x = SCSV) \/ (c.grease /\ grease(x))
    OBVIOUS
  <2>2. CASE grease(x)
    <3>1. PICK y \in Range(t) : grease(y)
      BY <1>3, <2>2
    <3>2. c.grease
      BY <1>1, <1>4, <3>1
    <3> QED
      BY <2>2, <3>2
  <2>3. CASE ~grease(x)
    BY <1>1, <1>3, <2>3
  <2> QED
    BY <2>2, <2>3
<1>6. Keep(n, Ciphers) # <<>>
  <2>1. PICK x \in Range(n) : x \in Ciphers
    BY <1>1, <1>3, <1>4
  <2>2. Range(Keep(n, Ciphers)) = Range(n) \cap Ciphers
    BY <1>2, KeepProperties
  <2>3. Range(<<>>) = {}
    BY DEF Range
  <2> QED
    BY <2>1, <2>2, <2>3
<1>7. CASE build
  <2> DEFINE S == {x \in Range(n) : grease(x)} \cup Ciphers \cup {SCSV}
  <2>1. Range(n) \subseteq S
    BY <1>5
  <2>2. CipherOrder(o, build) = Keep(n, S)
    BY <1>7 DEF CipherOrder, n
  <2> HIDE DEF S
  <2>3. Keep(n, S) = n
    BY <1>2, <2>1, KeepAllOrNone
  <2> QED
    BY <1>5, <1>6, <1>7, <2>2, <2>3 DEF n
<1>8. CASE ~build
  <2> DEFINE G == ReservedOf(c, r)
             s == c.ciphers
  <2>1. G \in Seq(Nat) /\ \A x \in Range(G) : grease(x)
    BY IdsTypes, DrawsAreGrease
  <2>2. s \in Seq(Nat) /\ Range(s) \subseteq Ciphers /\ t = G \o s
    BY <1>1, <1>8 DEF Settings
  <2> HIDE DEF G, s
  <2>3. /\ G \o s \in Seq(Nat) /\ Keep(G \o s, Ciphers) = s
        /\ Keep(Map(normalize, G \o s), Ciphers) = s
    BY <1>4, <2>1, <2>2, KeepBehind
  <2>4. CipherOrder(o, build) = s
    BY <1>2, <1>8, <2>2, <2>3 DEF CipherOrder, n
  <2> QED
    BY <1>5, <1>6, <1>8, <2>4 DEF n, s
<1> QED
  BY <1>7, <1>8

\* Whether the client draws reserved values.
LEMMA OwnGrease ==
  ASSUME NEW build \in BOOLEAN, NEW c \in Settings, Mirrorable(c, build), NEW r \in Draws,
         NEW o, OwnHello(o, c, build, r)
  PROVE  (\E x \in Range(o.ciphers \o o.extensions) : grease(x)) = c.grease
<1>1. o.ciphers \in Seq(Nat) /\ o.extensions \in Seq(Nat) /\ c.grease \in BOOLEAN
  BY DEF OwnHello, TlsHellos, Settings
<1>2. Range(o.ciphers \o o.extensions) = Range(o.ciphers) \cup Range(o.extensions)
  BY <1>1, RangeOfConcat
<1>3. (\A x \in Ciphers : ~grease(x)) /\ ~grease(SCSV)
  BY EvidenceAssumption, TablesAreNotReserved
<1>4. \A x \in Range(o.ciphers) : grease(x) => c.grease
  <2>1. \A x \in Range(o.ciphers) : x \in Ciphers \/ (build /\ x = SCSV) \/ (c.grease /\ grease(x))
    BY OwnCiphers
  <2> QED
    BY <1>3, <2>1
<1>5. c.grease <=> \E x \in Range(o.extensions) : grease(x)
  <2> DEFINE S == Range(Map(normalize, Ids(c, r)))
  <2>1. o.extensions = Map(normalize, Ids(c, r))
    BY DEF OwnHello, ObservedOf
  <2>2. S = Range(o.extensions)
    BY <2>1
  <2>3. S = Range(Map(normalize, Ids(c, r)))
    OBVIOUS
  <2> HIDE DEF S
  <2>4. c.grease <=> \E x \in S : grease(x)
    BY <2>3, OwnOrder
  <2> QED
    BY <2>2, <2>4
<1> QED
  BY <1>1, <1>2, <1>4, <1>5

\* Which extensions the client has.
LEMMA OwnExtensions ==
  ASSUME NEW build \in BOOLEAN, NEW c \in Settings, Mirrorable(c, build), NEW r \in Draws,
         NEW o, OwnHello(o, c, build, r)
  PROVE  /\ \A x \in Range(o.extensions) : grease(x) \/ x \in Sends(c) \/ (x = 21 /\ 21 \in c.on)
         /\ \A x \in Sends(c) \cup ({21} \cap c.on) : x \in Range(o.extensions)
         /\ Keep(o.extensions, Orderable(build)) = Ordered(c)
<1> DEFINE S == Range(Map(normalize, Ids(c, r)))
<1>1. o.extensions = Map(normalize, Ids(c, r))
  BY DEF OwnHello, ObservedOf
<1>2. S = Range(o.extensions)
  BY <1>1
<1>3. S = Range(Map(normalize, Ids(c, r)))
  OBVIOUS
<1> HIDE DEF S
<1>4. /\ \A x \in S : grease(x) \/ x \in Sends(c) \/ (x = 21 /\ 21 \in c.on)
      /\ \A x \in Sends(c) \cup ({21} \cap c.on) : x \in S
      /\ Keep(Map(normalize, Ids(c, r)), Orderable(build)) = Ordered(c)
  BY <1>3, OwnOrder
<1> QED
  BY <1>1, <1>2, <1>4

\* extension_order() has the client's extensions in front, in its order.
LEMMA OwnFront ==
  ASSUME NEW build \in BOOLEAN, NEW c \in Settings, Mirrorable(c, build), NEW r \in Draws,
         NEW o, OwnHello(o, c, build, r)
  PROVE  Keep(extension_order(o.extensions, build), Sends(c)) = Ordered(c)
<1> DEFINE T == Orderable(build)
           B == BACKEND_EXTENSIONS(build)
           K == Ordered(c)
           x == o.extensions
<1>1. x \in Seq(Nat)
  BY DEF OwnHello, TlsHellos
<1>2. B \in Seq(Nat) /\ Range(B) = T
  BY BackendProperties
<1>3. K \in Seq(Nat) /\ Distinct(K) /\ Range(K) = Sends(c)
  BY IdsTypes, IdsProperties
<1>4. Keep(x, T) = K
  BY OwnExtensions
<1>5. extension_order(x, build) = Once(Keep(x \o B, T))
  BY <1>2 DEF extension_order
<1> HIDE DEF T, B, K, x
<1>6. Keep(x \o B, T) = K \o B
  <2>1. Keep(x \o B, T) = Keep(x, T) \o Keep(B, T)
    <3>1. \A s, t \in Seq(Nat) : \A S : Keep(s \o t, S) = Keep(s, S) \o Keep(t, S)
      BY KeepConcat
    <3> QED
      BY <1>1, <1>2, <3>1
  <2>2. Keep(B, T) = B
    BY <1>2, KeepAllOrNone
  <2> QED
    BY <1>4, <2>1, <2>2
<1>7. PICK u \in Seq(Nat) : Once(K \o B) = K \o u /\ Range(u) \cap Range(K) = {}
  BY <1>2, <1>3, OnceConcat
<1>8. Keep(K \o u, Sends(c)) = K
  <2> DEFINE S == Sends(c)
  <2>1. Range(K) = S /\ Range(u) \cap S = {}
    BY <1>3, <1>7
  <2> HIDE DEF S
  <2>2. \A s, t \in Seq(Nat) : \A S_1 : Keep(s \o t, S_1) = Keep(s, S_1) \o Keep(t, S_1)
    BY KeepConcat
  <2>3. Keep(K \o u, S) = Keep(K, S) \o Keep(u, S)
    BY <1>3, <2>2
  <2>4. Keep(K, S) = K /\ Keep(u, S) = <<>>
    BY <1>3, <2>1, KeepAllOrNone
  <2>5. K \o <<>> = K
    BY <1>3, ConcatEmptySeq
  <2> QED
    BY <2>3, <2>4, <2>5 DEF S
<1> QED
  BY <1>5, <1>6, <1>7, <1>8 DEF K, x

\* What is switched on of a client is what mirror() finds switched on.
LEMMA OwnSwitches ==
  ASSUME NEW build \in BOOLEAN, NEW c \in Settings, Mirrorable(c, build), NEW r \in Draws,
         NEW o, OwnHello(o, c, build, r),
         NEW on, on = Range(o.extensions) \cap Switched(build)
  PROVE  /\ \A x \in {5, 17, 18, 22, 35, 65037, 65281} : x \in on <=> x \in c.on
         /\ ~c.at_most_tls12 => (45 \in on <=> 45 \in c.on)
         /\ 21 \in on <=> 21 \in c.on
<1>1. /\ \A x \in Range(o.extensions) : grease(x) \/ x \in Sends(c) \/ (x = 21 /\ 21 \in c.on)
      /\ \A x \in Sends(c) \cup ({21} \cap c.on) : x \in Range(o.extensions)
  BY OwnExtensions
<1>2. c.on \subseteq Switched(build)
  BY DEF Mirrorable
<1>3. \A x \in {5, 17, 18, 22, 35, 45, 65037, 65281} : ~grease(x)
  BY SMT DEF grease
<1>4. \A x \in {5, 17, 18, 22, 35, 45, 65037, 65281} : x \in on <=> x \in Switched(build) /\ x \in Sends(c)
  BY <1>1, <1>3, SMT
<1>5. /\ \A x \in {5, 17, 18, 22, 35, 65037, 65281} : x \in Sends(c) <=> x \in c.on
      /\ 45 \in Sends(c) <=> ~c.at_most_tls12 /\ 45 \in c.on
  BY SendsCases
<1>6. 21 \in on <=> 21 \in c.on
  <2>1. 21 \notin Sends(c) /\ ~grease(21)
    BY SendsAreKnown, TablesAreNotReserved
  <2> QED
    BY <1>1, <1>2, <2>1
<1> QED
  BY <1>2, <1>4, <1>5, <1>6

\* mirror() makes the client's settings of its hello.
LEMMA OwnMirrored ==
  ASSUME NEW build \in BOOLEAN, NEW c \in Settings, Mirrorable(c, build), NEW r \in Draws,
         NEW o, OwnHello(o, c, build, r)
  PROVE  MirroredOf(mirror(o, build), c, build, Emission(c, build, r).ciphers)
<1> DEFINE m == mirror(o, build)
<1>1. ObservedOf(o, c, r) /\ o \in TlsHellos
  BY DEF OwnHello
<1>2. m \in Settings
  BY <1>1, MirrorTypes
<1>3. /\ m.only_tls13 = OnlyTls13(o) /\ m.at_most_tls12 = AtMostTls12(o)
      /\ m.ciphers = CipherOrder(o, build)
      /\ m.grease = \E x \in Range(o.ciphers \o o.extensions) : grease(x)
      /\ m.groups = Keep(o.groups, Groups(build))
      /\ m.signatures = Keep(o.signature_algorithms, SIGNATURES(build))
      /\ m.certificate_signatures
           = IF build THEN Keep(o.signature_algorithms_cert, SIGNATURES(build)) ELSE <<>>
      /\ m.alpn = o.alpn
      /\ m.compression = Keep(o.cert_compression, Compressions)
      /\ m.point_formats = PointFormats(o, build) /\ m.shares = Shares(o, build)
      /\ m.on = Range(o.extensions) \cap Switched(build)
      /\ m.order = extension_order(o.extensions, build)
  BY DEF mirror
<1>4. /\ Keep(o.groups, Groups(build)) = GroupsSent(c)
      /\ o.signature_algorithms = SignaturesSent(c)
      /\ Range(o.signature_algorithms) \subseteq SIGNATURES(build)
      /\ o.signature_algorithms_cert = c.certificate_signatures
      /\ o.point_formats = FormatsSent(c)
      /\ ~c.at_most_tls12 => /\ Shares(o, build) = SharesSent(c)
                             /\ o.cert_compression = c.compression
      /\ Range(o.cert_compression) \subseteq Compressions
  BY <1>1, OwnLists
<1>5. /\ AtMostTls12(o) = c.at_most_tls12
      /\ ~c.at_most_tls12 => OnlyTls13(o) = c.only_tls13
  BY <1>1, OwnVersions
<1>6. CipherOrder(o, build) = IF build THEN Map(normalize, Emission(c, build, r).ciphers) ELSE c.ciphers
  BY OwnCiphers DEF OwnHello
<1>7. m.grease = c.grease
  BY <1>3, OwnGrease
<1>8. /\ SignaturesSent(c) \in Seq(Nat) /\ FormatsSent(c) \in Seq(Nat)
      /\ Range(FormatsSent(c)) \subseteq 0..2
  BY SentTypes
<1>9. /\ c.certificate_signatures \in Seq(Nat) /\ c.compression \in Seq(Nat)
      /\ Range(c.certificate_signatures) \subseteq (IF build THEN SIGNATURES(TRUE) ELSE {})
  BY DEF Settings, Mirrorable
<1>10. m.alpn = c.alpn
  BY <1>1, <1>3 DEF ObservedOf
<1> HIDE DEF m
<1>11. m.signatures = SignaturesSent(c)
  BY <1>3, <1>4, <1>8, KeepAllOrNone
<1>12. m.certificate_signatures = c.certificate_signatures
  <2>1. CASE build
    <3>1. Range(c.certificate_signatures) \subseteq SIGNATURES(build)
      BY <1>9, <2>1
    <3>2. Keep(c.certificate_signatures, SIGNATURES(build)) = c.certificate_signatures
      BY <1>9, <3>1, KeepAllOrNone
    <3> QED
      BY <1>3, <1>4, <2>1, <3>2
  <2>2. CASE ~build
    <3>1. Range(c.certificate_signatures) = {}
      BY <1>9, <2>2
    <3>2. c.certificate_signatures = <<>>
      BY <1>9, <3>1, Nonempty
    <3> QED
      BY <1>3, <2>2, <3>2
  <2> QED
    BY <2>1, <2>2
<1>13. m.point_formats = IF build THEN FormatsSent(c) ELSE <<>>
  <2>1. Keep(FormatsSent(c), 0..2) = FormatsSent(c)
    BY <1>8, KeepAllOrNone
  <2> QED
    BY <1>3, <1>4, <2>1 DEF PointFormats
<1>14. ~c.at_most_tls12 => m.compression = c.compression
  <2>1. ASSUME ~c.at_most_tls12 PROVE m.compression = c.compression
    <3>1. Range(c.compression) \subseteq Compressions /\ o.cert_compression = c.compression
      BY <1>4, <2>1
    <3>2. Keep(c.compression, Compressions) = c.compression
      BY <1>9, <3>1, KeepAllOrNone
    <3> QED
      BY <1>3, <3>1, <3>2
  <2> QED
    BY <2>1
<1>15. /\ \A x \in {5, 17, 18, 22, 35, 65037, 65281} : x \in m.on <=> x \in c.on
       /\ ~c.at_most_tls12 => (45 \in m.on <=> 45 \in c.on)
       /\ 21 \in m.on <=> 21 \in c.on
  BY <1>3, OwnSwitches
<1>16. AgreeInSwitches(m, c)
  BY <1>3, <1>5, <1>10, <1>12, <1>14, <1>15 DEF AgreeInSwitches
<1>17. Sends(m) = Sends(c)
  BY <1>2, <1>16, SendsDecided
<1>18. Ordered(m) = Ordered(c)
  BY <1>3, <1>17, OwnFront DEF Ordered
<1>19. ~c.at_most_tls12 => m.only_tls13 = c.only_tls13 /\ m.shares = SharesSent(c)
  BY <1>3, <1>4, <1>5
<1>20. m.at_most_tls12 = c.at_most_tls12 /\ m.groups = GroupsSent(c)
       /\ m.ciphers = IF build THEN Map(normalize, Emission(c, build, r).ciphers) ELSE c.ciphers
  BY <1>3, <1>4, <1>5, <1>6
<1>21. MirroredOf(m, c, build, Emission(c, build, r).ciphers)
  BY <1>2, <1>7, <1>10, <1>11, <1>12, <1>13, <1>14, <1>15, <1>17, <1>18, <1>19, <1>20 DEF MirroredOf
<1> QED
  BY <1>21 DEF m

\* It refuses no such hello, and leaves nothing of it out.
LEMMA OwnAccepted ==
  ASSUME NEW build \in BOOLEAN, NEW c \in Settings, Mirrorable(c, build), NEW r \in Draws,
         NEW o, OwnHello(o, c, build, r)
  PROVE  ~Refused(o) /\ limitations(o, build) = {}
<1>1. ObservedOf(o, c, r) /\ o \in TlsHellos
  BY DEF OwnHello
<1>2. /\ Keep(o.ciphers, Ciphers) # <<>>
      /\ \A x \in Range(o.ciphers) : x \in Ciphers \/ (build /\ x = SCSV) \/ (c.grease /\ grease(x))
  BY OwnCiphers
<1>3. /\ o.signature_algorithms = SignaturesSent(c)
      /\ Range(o.signature_algorithms) \subseteq SIGNATURES(build)
      /\ o.signature_algorithms_cert = c.certificate_signatures
      /\ o.point_formats = FormatsSent(c)
      /\ Range(o.cert_compression) \subseteq Compressions
      /\ \A x \in Range(o.groups) : grease(x) \/ x \in Groups(build)
  BY <1>1, OwnLists
<1>4. \A x \in Range(o.extensions) : grease(x) \/ x \in Sends(c) \/ (x = 21 /\ 21 \in c.on)
  BY OwnExtensions
<1>5. o.alpn = c.alpn /\ Range(c.alpn) \subseteq {1, 2}
  BY <1>1 DEF ObservedOf, Mirrorable
<1>6. ~Refused(o)
  BY <1>2, <1>5 DEF Refused
<1>7. LeftOut("cipher", o.ciphers, Ciphers \cup {SCSV}) = {}
  <2>1. {y \in Range(o.ciphers) : ~grease(y)} \ (Ciphers \cup {SCSV}) = {}
    BY <1>2
  <2> QED
    BY <2>1 DEF LeftOut
<1>8. LeftOut("group", o.groups, Groups(build)) = {}
  <2>1. {y \in Range(o.groups) : ~grease(y)} \ Groups(build) = {}
    BY <1>3
  <2> QED
    BY <2>1 DEF LeftOut
<1>9. LeftOut("signature", o.signature_algorithms, SIGNATURES(build)) = {}
  <2>1. {y \in Range(o.signature_algorithms) : ~grease(y)} \ SIGNATURES(build) = {}
    BY <1>3
  <2> QED
    BY <2>1 DEF LeftOut
<1>10. {<<"compression", x>> : x \in Range(o.cert_compression) \ Compressions} = {}
  <2>1. Range(o.cert_compression) \ Compressions = {}
    BY <1>3
  <2> QED
    BY <2>1
<1>11. /\ c.on \subseteq Switched(build)
       /\ Range(c.certificate_signatures) \subseteq (IF build THEN SIGNATURES(TRUE) ELSE {})
       /\ c.certificate_signatures \in Seq(Nat)
  BY DEF Mirrorable, Settings
<1>12. \A x \in Range(o.extensions) : ~grease(x) => x \in KNOWN(build) /\ x \notin {17513, 17613, 41, 42}
  <2>1. SUFFICES ASSUME NEW x \in Range(o.extensions), ~grease(x)
                 PROVE  x \in KNOWN(build) /\ x \notin {17513, 17613, 41, 42}
    OBVIOUS
  <2>2. CASE x \in Sends(c)
    <3>1. /\ x \in {0, 5, 10, 11, 13, 16, 17, 18, 22, 23, 27, 35, 43, 45, 50, 51, 65037, 65281}
          /\ x \in {5, 17, 18, 22, 35, 45, 65037, 65281} => x \in c.on
          /\ x = 50 => c.certificate_signatures # <<>>
      BY <2>2, SendsProperties
    <3>2. x \in {17, 22} => build
      <4>1. x \in {17, 22} => x \in Switched(build)
        BY <1>11, <3>1
      <4> QED
        BY <4>1, SMT DEF Switched
    <3>3. x = 50 => build
      <4>1. ~build => c.certificate_signatures = <<>>
        BY <1>11, Nonempty
      <4> QED
        BY <3>1, <4>1
    <3>4. \/ x \in {0, 5, 10, 11, 13, 16, 18, 23, 27, 35, 43, 45, 51, 65037, 65281}
          \/ x \in {17, 22, 50} /\ build
      BY <3>1, <3>2, <3>3
    <3>5. CASE x \in {0, 5, 10, 11, 13, 16, 18, 23, 27, 35, 43, 45, 51, 65037, 65281}
      BY <3>5, SMT DEF KNOWN
    <3>6. CASE x \in {17, 22, 50} /\ build
      BY <3>6, SMT DEF KNOWN
    <3> QED
      BY <3>4, <3>5, <3>6
  <2>3. CASE x = 21
    BY <2>3, SMT DEF KNOWN
  <2> QED
    BY <1>4, <2>1, <2>2, <2>3
<1>13. LeftOut("extension", o.extensions, KNOWN(build)) = {}
  <2>1. {y \in Range(o.extensions) : ~grease(y)} \ KNOWN(build) = {}
    BY <1>12
  <2> QED
    BY <2>1 DEF LeftOut
<1>14. NotInherited(o) = {}
  <2>1. \A x \in {17513, 17613, 41, 42} : ~grease(x)
    BY SMT DEF grease
  <2> DEFINE S == Range(o.extensions) \cap {17513, 17613, 41, 42}
  <2>2. S = {}
    BY <1>12, <2>1
  <2>3. NotInherited(o) = {<<"not inherited", x>> : x \in S}
    BY DEF NotInherited
  <2> HIDE DEF S
  <2> QED
    BY <2>2, <2>3
<1>15. build => PatchedLimitations(o) = {}
  <2>1. ASSUME build PROVE PatchedLimitations(o) = {}
    <3>1. {y \in Range(o.signature_algorithms_cert) : ~grease(y)} \ SIGNATURES(TRUE) = {}
      BY <1>3, <1>11, <2>1
    <3>2. LeftOut("certificate signature", o.signature_algorithms_cert, SIGNATURES(TRUE)) = {}
      BY <3>1 DEF LeftOut
    <3>3. Range(o.point_formats) \subseteq 0..2
      BY <1>3, SentTypes
    <3>4. {g \in Range(o.point_formats) : g > 2} = {}
      BY <3>3
    <3> QED
      BY <3>2, <3>4 DEF PatchedLimitations
  <2> QED
    BY <2>1
<1>16. ~build => {<<"SCSV", x>> : x \in Range(o.ciphers) \cap {SCSV}} = {}
  <2>1. ~grease(SCSV) /\ SCSV \notin Ciphers
    BY EvidenceAssumption, TablesAreNotReserved
  <2>2. ~build => Range(o.ciphers) \cap {SCSV} = {}
    BY <1>2, <2>1
  <2> QED
    BY <2>2
<1>17. limitations(o, build) = {}
  BY <1>7, <1>8, <1>9, <1>10, <1>13, <1>14, <1>15, <1>16 DEF limitations
<1> QED
  BY <1>6, <1>17

\* mirror() makes settings that can be mirrored, of whatever hello it does not refuse.
THEOREM MirrorIsMirrorable ==
  ASSUME NEW build \in BOOLEAN, NEW h \in TlsHellos, ~Refused(h)
  PROVE  Mirrorable(mirror(h, build), build)
<1> DEFINE m == mirror(h, build)
           S == {x \in Range(h.ciphers) : grease(x)} \cup Ciphers \cup {SCSV}
<1>1. /\ h.ciphers \in Seq(Nat) /\ h.extensions \in Seq(Nat) /\ h.groups \in Seq(Nat)
      /\ h.point_formats \in Seq(Nat) /\ h.signature_algorithms \in Seq(Nat)
      /\ h.signature_algorithms_cert \in Seq(Nat) /\ h.key_share_groups \in Seq(Nat)
      /\ h.cert_compression \in Seq(Nat)
  BY DEF TlsHellos
<1>2. Keep(h.ciphers, Ciphers) # <<>> /\ Range(h.alpn) \subseteq {1, 2}
  BY DEF Refused
<1>3. /\ m.ciphers = CipherOrder(h, build) /\ m.alpn = h.alpn
      /\ m.grease = \E x \in Range(h.ciphers \o h.extensions) : grease(x)
      /\ m.groups = Keep(h.groups, Groups(build))
      /\ m.signatures = Keep(h.signature_algorithms, SIGNATURES(build))
      /\ m.certificate_signatures
           = IF build THEN Keep(h.signature_algorithms_cert, SIGNATURES(build)) ELSE <<>>
      /\ m.compression = Keep(h.cert_compression, Compressions)
      /\ m.point_formats = PointFormats(h, build) /\ m.shares = Shares(h, build)
      /\ m.on = Range(h.extensions) \cap Switched(build)
      /\ m.order = extension_order(h.extensions, build)
  BY DEF mirror
<1>4. Range(<<>>) = {}
  BY DEF Range
<1> HIDE DEF m
<1>5. /\ \E x \in Range(m.ciphers) : x \in Ciphers
      /\ \A x \in Range(m.ciphers) :
           x \in Ciphers \/ (build /\ (x = SCSV \/ (grease(x) /\ m.grease)))
  <2>1. Range(Keep(h.ciphers, Ciphers)) = Range(h.ciphers) \cap Ciphers
    BY <1>1, KeepProperties
  <2>2. Range(Keep(h.ciphers, S)) = Range(h.ciphers) \cap S
    BY <1>1, KeepProperties
  <2>3. Keep(h.ciphers, Ciphers) \in Seq(Nat)
    BY <1>1, KeepProperties
  <2>4. PICK y \in Range(h.ciphers) : y \in Ciphers
    BY <1>2, <2>1, <2>3, Nonempty
  <2>5. Range(h.ciphers \o h.extensions) = Range(h.ciphers) \cup Range(h.extensions)
    BY <1>1, RangeOfConcat
  <2>6. \A x \in Range(h.ciphers) : grease(x) => m.grease
    BY <1>3, <2>5
  <2>7. m.ciphers = IF build THEN Keep(h.ciphers, S) ELSE Keep(h.ciphers, Ciphers)
    BY <1>3 DEF CipherOrder
  <2>8. CASE build
    <3>1. Range(m.ciphers) = Range(h.ciphers) \cap S
      BY <2>2, <2>7, <2>8
    <3> QED
      BY <2>4, <2>6, <2>8, <3>1
  <2>9. CASE ~build
    <3>1. Range(m.ciphers) = Range(h.ciphers) \cap Ciphers
      BY <2>1, <2>7, <2>9
    <3> QED
      BY <2>4, <3>1
  <2> QED
    BY <2>8, <2>9
<1>6. Range(m.groups) \cup Range(m.shares) \subseteq Groups(build)
  <2>1. Range(m.groups) = Range(h.groups) \cap Groups(build)
    <3>1. Range(Keep(h.groups, Groups(build))) = Range(h.groups) \cap Groups(build)
      BY <1>1, KeepProperties
    <3> QED
      BY <1>3, <3>1
  <2>2. Range(m.shares) = Range(h.key_share_groups) \cap Groups(build)
    <3>1. Range(Keep(h.key_share_groups, Groups(build))) = Range(h.key_share_groups) \cap Groups(build)
      BY <1>1, KeepProperties
    <3> QED
      BY <1>3, <3>1 DEF Shares
  <2> QED
    BY <2>1, <2>2
<1>7. /\ Range(m.signatures) \subseteq SIGNATURES(build)
      /\ Range(m.compression) \subseteq Compressions
  <2>1. Range(m.signatures) = Range(h.signature_algorithms) \cap SIGNATURES(build)
    <3>1. Range(Keep(h.signature_algorithms, SIGNATURES(build))) = Range(h.signature_algorithms) \cap SIGNATURES(build)
      BY <1>1, KeepProperties
    <3> QED
      BY <1>3, <3>1
  <2>2. Range(m.compression) = Range(h.cert_compression) \cap Compressions
    <3>1. Range(Keep(h.cert_compression, Compressions)) = Range(h.cert_compression) \cap Compressions
      BY <1>1, KeepProperties
    <3> QED
      BY <1>3, <3>1
  <2> QED
    BY <2>1, <2>2
<1>8. Range(m.certificate_signatures) \subseteq IF build THEN SIGNATURES(TRUE) ELSE {}
  <2>1. CASE build
    <3>1. Range(Keep(h.signature_algorithms_cert, SIGNATURES(build)))
            = Range(h.signature_algorithms_cert) \cap SIGNATURES(build)
      BY <1>1, KeepProperties
    <3>2. build = TRUE
      BY <2>1
    <3> QED
      BY <1>3, <2>1, <3>1, <3>2
  <2>2. CASE ~build
    BY <1>3, <1>4, <2>2
  <2> QED
    BY <2>1, <2>2
<1>9. Range(m.point_formats) \subseteq IF build THEN 0..2 ELSE {}
  <2>1. Range(Keep(h.point_formats, 0..2)) = Range(h.point_formats) \cap (0..2)
    BY <1>1, KeepProperties
  <2> QED
    BY <1>3, <1>4, <2>1 DEF PointFormats
<1>10. m.on \subseteq Switched(build)
  BY <1>3
<1>11. Range(m.order) = Range(BACKEND_EXTENSIONS(build)) /\ Distinct(m.order)
  BY <1>1, <1>3, OrderProperties
<1>12. Mirrorable(m, build)
  BY <1>2, <1>3, <1>5, <1>6, <1>7, <1>8, <1>9, <1>10, <1>11 DEF Mirrorable, Distinct
<1> QED
  BY <1>12 DEF m

-----------------------------------------------------------------------------
(***************************************************************************)
(* The library with the settings that mirror() made of the hello of such a *)
(* library sends the same hello.                                           *)
(***************************************************************************)
\* Extensions of one kind whose items are as alike as is compared.
LEMMA SameFilled ==
  ASSUME NEW id \in Nat, NEW x, NEW y,
         id \in {10, 13, 27, 43, 51} => SameItems(x, y),
         id \notin {10, 13, 27, 43, 51} => x = y
  PROVE  SameExtension(Ext(id, x), Ext(id, y))
<1> DEFINE a == Ext(id, x)
           b == Ext(id, y)
<1>1. a.id = id /\ b.id = id /\ a.items = x /\ b.items = y /\ a.proper = b.proper
  BY DEF Ext
<1> HIDE DEF a, b
<1>2. x = y => NamesServer(a) = NamesServer(b)
  BY <1>1 DEF NamesServer
<1>3. CASE id \in {10, 13, 27, 43, 51}
  <2>1. id # 0 /\ id \notin Exempt
    BY <1>3, SMT DEF Exempt
  <2> QED
    BY <1>1, <1>3, <2>1 DEF SameExtension, a, b
<1>4. CASE id \notin {10, 13, 27, 43, 51}
  BY <1>1, <1>2, <1>4 DEF SameExtension, a, b
<1> QED
  BY <1>3, <1>4

\* Lists that are the same have items that are.
LEMMA SinglesStaySame ==
  ASSUME NEW s \in Seq(Nat), NEW t \in Seq(Nat), SameList(s, t)
  PROVE  SameItems(Singles(s), Singles(t))
<1>1. Singles(s) \in Seq(One) /\ Singles(t) \in Seq(One)
  BY SinglesProperties
<1>2. WordsOf(Singles(s)) = Map(normalize, s) /\ WordsOf(Singles(t)) = Map(normalize, t)
  BY SinglesBack
<1>3. Map(normalize, s) = Map(normalize, t)
  BY CiphersAreSame
<1>4. WordsOf(Singles(s)) = WordsOf(Singles(t))
  BY <1>2, <1>3
<1> QED
  BY <1>1, <1>4, SinglesAreSame

\* So have key shares: a reserved one has one octet.
LEMMA PairsStaySame ==
  ASSUME NEW s \in Seq(Nat), NEW t \in Seq(Nat), SameList(s, t)
  PROVE  SameItems(Paired(s), Paired(t))
<1> DEFINE a == Paired(s)
           b == Paired(t)
<1>1. /\ a \in Seq(Two) /\ Len(a) = Len(s) /\ \A i \in 1..Len(s) : a[i] = <<s[i], ShareLen(s[i])>>
      /\ WordsOf(a) = Map(normalize, s)
  BY PairedBack
<1>2. /\ b \in Seq(Two) /\ Len(b) = Len(t) /\ \A i \in 1..Len(t) : b[i] = <<t[i], ShareLen(t[i])>>
      /\ WordsOf(b) = Map(normalize, t)
  BY PairedBack
<1>3. Map(normalize, s) = Map(normalize, t)
  BY CiphersAreSame
<1>4. Len(s) = Len(t) /\ DOMAIN s = 1..Len(s) /\ \A i \in 1..Len(s) : SameValue(s[i], t[i])
  BY LenProperties DEF SameList
<1> HIDE DEF a, b
<1>5. LengthsOf(a) = LengthsOf(b)
  <2>1. LengthsOf(a) = [i \in 1..Len(s) |-> a[i][2]] /\ LengthsOf(b) = [i \in 1..Len(s) |-> b[i][2]]
    BY <1>1, <1>2, <1>4, LenProperties DEF LengthsOf, Map
  <2>2. ASSUME NEW i \in 1..Len(s) PROVE a[i][2] = b[i][2]
    <3>1. ~grease(29)
      BY SMT DEF grease
    <3>2. ShareLen(s[i]) = ShareLen(t[i])
      BY <1>4, <3>1 DEF SameValue, ShareLen
    <3>3. a[i] = <<s[i], ShareLen(s[i])>> /\ b[i] = <<t[i], ShareLen(t[i])>>
      BY <1>1, <1>2, <1>4
    <3> QED
      BY <3>2, <3>3
  <2> QED
    BY <2>1, <2>2
<1>6. WordsOf(a) = WordsOf(b)
  BY <1>1, <1>2, <1>3
<1> QED
  BY <1>1, <1>2, <1>5, <1>6, SharesAreSame DEF a, b

\* The lists that the library sends are those that the client's library sent.
LEMMA SentAgain ==
  ASSUME NEW build \in BOOLEAN, NEW c \in Settings, Mirrorable(c, build),
         NEW m, NEW t, MirroredOf(m, c, build, t)
  PROVE  /\ GroupsSent(m) = GroupsSent(c) /\ FormatsSent(m) = FormatsSent(c)
         /\ SignaturesSent(m) = SignaturesSent(c)
         /\ ~c.at_most_tls12 => /\ VersionsSent(m) = VersionsSent(c)
                                /\ SharesSent(m) = SharesSent(c)
                                /\ m.compression = c.compression
         /\ m.alpn = c.alpn /\ m.certificate_signatures = c.certificate_signatures
<1>1. GroupsSent(c) # <<>> /\ SignaturesSent(c) # <<>> /\ FormatsSent(c) # <<>> /\ SharesSent(c) # <<>>
  BY SentTypes
<1>2. /\ m.groups = GroupsSent(c) /\ m.signatures = SignaturesSent(c)
      /\ m.point_formats = IF build THEN FormatsSent(c) ELSE <<>>
      /\ m.certificate_signatures = c.certificate_signatures /\ m.alpn = c.alpn
      /\ ~c.at_most_tls12 => /\ m.only_tls13 = c.only_tls13 /\ m.compression = c.compression
                             /\ m.shares = SharesSent(c)
  BY DEF MirroredOf
<1>3. GroupsSent(m) = GroupsSent(c)
  <2>1. GroupsSent(m) = IF m.groups = <<>> THEN <<29, 23>> ELSE m.groups
    BY DEF GroupsSent, Default
  <2> QED
    BY <1>1, <1>2, <2>1
<1>4. SignaturesSent(m) = SignaturesSent(c)
  <2>1. SignaturesSent(m) = IF m.signatures = <<>> THEN <<1027>> ELSE m.signatures
    BY DEF SignaturesSent, Default
  <2> QED
    BY <1>1, <1>2, <2>1
<1>5. ~c.at_most_tls12 => SharesSent(m) = SharesSent(c)
  <2>1. m.shares # <<>> => SharesSent(m) = m.shares
    BY DEF SharesSent, Default
  <2> QED
    BY <1>1, <1>2, <2>1
<1>6. FormatsSent(m) = FormatsSent(c)
  <2>1. /\ FormatsSent(m) = IF m.point_formats = <<>> THEN <<0>> ELSE m.point_formats
        /\ FormatsSent(c) = IF c.point_formats = <<>> THEN <<0>> ELSE c.point_formats
    BY DEF FormatsSent, Default
  <2>2. CASE build
    BY <1>1, <1>2, <2>1, <2>2
  <2>3. CASE ~build
    <3>1. c.point_formats \in Seq(Nat) /\ Range(c.point_formats) \subseteq {}
      BY <2>3 DEF Settings, Mirrorable
    <3>2. c.point_formats = <<>>
      BY <3>1, Nonempty
    <3> QED
      BY <1>2, <2>1, <2>3, <3>2
  <2> QED
    BY <2>2, <2>3
<1>7. ~c.at_most_tls12 => VersionsSent(m) = VersionsSent(c)
  BY <1>2 DEF VersionsSent
<1> QED
  BY <1>2, <1>3, <1>4, <1>5, <1>6, <1>7

\* The reserved values of both are at the same places.
LEMMA ReservedAgain ==
  ASSUME NEW c \in Settings, NEW m \in Settings, m.grease = c.grease, NEW r \in Draws, NEW q \in Draws
  PROVE  /\ SameList(ReservedOf(c, r), ReservedOf(m, q))
         /\ SameList(ReservedOf(c, Second(r)), ReservedOf(m, Second(q)))
<1>1. /\ ReservedOf(c, r) \in Seq(Nat) /\ ReservedOf(c, Second(r)) \in Seq(Nat)
      /\ ReservedOf(m, q) \in Seq(Nat) /\ ReservedOf(m, Second(q)) \in Seq(Nat)
      /\ \A x \in Range(ReservedOf(c, r)) \cup Range(ReservedOf(m, q)) : grease(x)
      /\ \A x \in Range(ReservedOf(c, Second(r))) \cup Range(ReservedOf(m, Second(q))) : grease(x)
  BY IdsTypes, DrawsAreGrease
<1>2. /\ Len(ReservedOf(c, r)) = Len(ReservedOf(m, q))
      /\ Len(ReservedOf(c, Second(r))) = Len(ReservedOf(m, Second(q)))
  BY DEF ReservedOf
<1> QED
  BY <1>1, <1>2, SameReserved

\* An extension that both send.
LEMMA SameBodies ==
  ASSUME NEW build \in BOOLEAN, NEW c \in Settings, Mirrorable(c, build),
         NEW m, NEW t, MirroredOf(m, c, build, t), NEW r \in Draws, NEW q \in Draws,
         NEW id \in Nat
  PROVE  SameExtension(Ext(id, Filled(c, r, id)), Ext(id, Filled(m, q, id)))
<1> DEFINE G == ReservedOf(c, r)
           H == ReservedOf(m, q)
           x == Filled(c, r, id)
           y == Filled(m, q, id)
<1>1. m \in Settings /\ Sends(m) = Sends(c) /\ m.grease = c.grease
  BY DEF MirroredOf
<1>2. G \in Seq(Nat) /\ H \in Seq(Nat) /\ SameList(G, H)
  BY <1>1, IdsTypes, ReservedAgain
<1>3. /\ GroupsSent(c) \in Seq(Nat) /\ SignaturesSent(c) \in Seq(Nat)
      /\ VersionsSent(c) \in Seq(Nat) /\ SharesSent(c) \in Seq(Nat) /\ c.compression \in Seq(Nat)
  BY SentTypes DEF Settings
<1>4. /\ GroupsSent(m) = GroupsSent(c) /\ FormatsSent(m) = FormatsSent(c)
      /\ SignaturesSent(m) = SignaturesSent(c)
      /\ ~c.at_most_tls12 => /\ VersionsSent(m) = VersionsSent(c)
                             /\ SharesSent(m) = SharesSent(c)
                             /\ m.compression = c.compression
      /\ m.alpn = c.alpn /\ m.certificate_signatures = c.certificate_signatures
  BY SentAgain
<1>5. /\ 43 \in Sends(c) <=> ~c.at_most_tls12
      /\ 51 \in Sends(c) <=> ~c.at_most_tls12
      /\ 27 \in Sends(c) <=> ~c.at_most_tls12 /\ c.compression # <<>>
  BY SendsCases
<1>6. /\ id \in Sends(c) => x = Body(c, G, id) /\ y = Body(m, H, id)
      /\ id \notin Sends(c) => x = <<>> /\ y = <<>>
  BY <1>1 DEF Filled
<1>7. \A s \in Seq(Nat) : SameList(s, s) /\ SameList(G \o s, H \o s) /\ G \o s \in Seq(Nat) /\ H \o s \in Seq(Nat)
  <2>1. ASSUME NEW s \in Seq(Nat)
        PROVE  SameList(s, s) /\ SameList(G \o s, H \o s) /\ G \o s \in Seq(Nat) /\ H \o s \in Seq(Nat)
    <3> HIDE DEF G, H
    <3>1. SameList(s, s)
      BY SameReserved
    <3>2. SameList(G \o s, H \o s)
      BY <1>2, <3>1, SameConcat
    <3> QED
      BY <1>2, <3>1, <3>2, ConcatProperties
  <2> QED
    BY <2>1
<1> HIDE DEF G, H, x, y
<1>8. \A s \in Seq(Nat) : /\ SameItems(Singles(s), Singles(s))
                          /\ SameItems(Singles(G \o s), Singles(H \o s))
                          /\ SameItems(Paired(G \o s), Paired(H \o s))
  <2>1. ASSUME NEW s \in Seq(Nat)
        PROVE  /\ SameItems(Singles(s), Singles(s))
               /\ SameItems(Singles(G \o s), Singles(H \o s))
               /\ SameItems(Paired(G \o s), Paired(H \o s))
    BY <1>7, SinglesStaySame, PairsStaySame
  <2> QED
    BY <2>1
<1>9. /\ id = 0 => Body(c, G, id) = Name
      /\ id = 10 => Body(c, G, id) = Singles(G \o GroupsSent(c))
      /\ id = 11 => Body(c, G, id) = Singles(FormatsSent(c))
      /\ id = 13 => Body(c, G, id) = Singles(SignaturesSent(c))
      /\ id = 16 => Body(c, G, id) = Singles(c.alpn)
      /\ id = 27 => Body(c, G, id) = Singles(c.compression)
      /\ id = 43 => Body(c, G, id) = Singles(G \o VersionsSent(c))
      /\ id = 45 => Body(c, G, id) = PskModes
      /\ id = 50 => Body(c, G, id) = Singles(c.certificate_signatures)
      /\ id = 51 => Body(c, G, id) = Paired(G \o SharesSent(c))
      /\ id \notin {0, 10, 11, 13, 16, 27, 43, 45, 50, 51} => Body(c, G, id) = <<>>
  BY <1>2, BodyCases
<1>10. /\ id = 0 => Body(m, H, id) = Name
       /\ id = 10 => Body(m, H, id) = Singles(H \o GroupsSent(m))
       /\ id = 11 => Body(m, H, id) = Singles(FormatsSent(m))
       /\ id = 13 => Body(m, H, id) = Singles(SignaturesSent(m))
       /\ id = 16 => Body(m, H, id) = Singles(m.alpn)
       /\ id = 27 => Body(m, H, id) = Singles(m.compression)
       /\ id = 43 => Body(m, H, id) = Singles(H \o VersionsSent(m))
       /\ id = 45 => Body(m, H, id) = PskModes
       /\ id = 50 => Body(m, H, id) = Singles(m.certificate_signatures)
       /\ id = 51 => Body(m, H, id) = Paired(H \o SharesSent(m))
       /\ id \notin {0, 10, 11, 13, 16, 27, 43, 45, 50, 51} => Body(m, H, id) = <<>>
  BY <1>2, BodyCases
<1>11. id \in Sends(c) /\ id \in {10, 13, 27, 43, 51} => SameItems(x, y)
  <2>1. id = 10 /\ id \in Sends(c) => SameItems(x, y)
    BY <1>3, <1>4, <1>6, <1>8, <1>9, <1>10
  <2>2. id = 13 /\ id \in Sends(c) => SameItems(x, y)
    BY <1>3, <1>4, <1>6, <1>8, <1>9, <1>10
  <2>3. id = 27 /\ id \in Sends(c) => SameItems(x, y)
    BY <1>3, <1>4, <1>5, <1>6, <1>8, <1>9, <1>10
  <2>4. id = 43 /\ id \in Sends(c) => SameItems(x, y)
    BY <1>3, <1>4, <1>5, <1>6, <1>8, <1>9, <1>10
  <2>5. id = 51 /\ id \in Sends(c) => SameItems(x, y)
    BY <1>3, <1>4, <1>5, <1>6, <1>8, <1>9, <1>10
  <2> QED
    BY <2>1, <2>2, <2>3, <2>4, <2>5
<1>12. id \in Sends(c) /\ id \notin {10, 13, 27, 43, 51} => x = y
  <2>1. CASE id \in {0, 11, 16, 45, 50}
    BY <1>4, <1>6, <1>9, <1>10, <2>1
  <2>2. CASE id \notin {0, 10, 11, 13, 16, 27, 43, 45, 50, 51}
    BY <1>6, <1>9, <1>10, <2>2
  <2> QED
    BY <2>1, <2>2
<1>13. id \notin Sends(c) => SameItems(x, y) /\ x = y
  <2>1. SameItems(<<>>, <<>>)
    BY DEF SameItems
  <2> QED
    BY <1>6, <2>1
<1>14. SameExtension(Ext(id, x), Ext(id, y))
  BY <1>11, <1>12, <1>13, SameFilled
<1> QED
  BY <1>14 DEF x, y

\* The extensions of both.
LEMMA SameIds ==
  ASSUME NEW build \in BOOLEAN, NEW c \in Settings, NEW m, NEW t, MirroredOf(m, c, build, t),
         NEW r \in Draws, NEW q \in Draws
  PROVE  SameList(Ids(c, r), Ids(m, q))
<1> DEFINE G == ReservedOf(c, r)
           H == ReservedOf(m, q)
           L == ReservedOf(c, Second(r))
           M == ReservedOf(m, Second(q))
           K == Ordered(c)
           P == Padding(c)
<1>1. m \in Settings /\ m.grease = c.grease /\ Ordered(m) = K /\ Padding(m) = P
  BY DEF MirroredOf, Padding
<1>2. G \in Seq(Nat) /\ H \in Seq(Nat) /\ L \in Seq(Nat) /\ M \in Seq(Nat) /\ K \in Seq(Nat) /\ P \in Seq(Nat)
  BY <1>1, IdsTypes
<1>3. SameList(G, H) /\ SameList(L, M)
  BY <1>1, ReservedAgain
<1>4. Ids(c, r) = G \o K \o L \o P /\ Ids(m, q) = H \o K \o M \o P
  BY <1>1 DEF Ids
<1> HIDE DEF G, H, L, M, K, P
<1>5. SameList(K, K) /\ SameList(P, P)
  BY <1>2, SameReserved
<1> DEFINE a == G \o K
           b == H \o K
<1>6. a \in Seq(Nat) /\ b \in Seq(Nat) /\ SameList(a, b)
  <2>1. SameList(G \o K, H \o K)
    BY <1>2, <1>3, <1>5, SameConcat
  <2> QED
    BY <1>2, <2>1, ConcatProperties
<1> HIDE DEF a, b
<1> DEFINE d == a \o L
           e == b \o M
<1>7. d \in Seq(Nat) /\ e \in Seq(Nat) /\ SameList(d, e)
  <2>1. SameList(a \o L, b \o M)
    BY <1>2, <1>3, <1>6, SameConcat
  <2> QED
    BY <1>2, <1>6, <2>1, ConcatProperties
<1> HIDE DEF d, e
<1>8. SameList(d \o P, e \o P)
  BY <1>2, <1>5, <1>7, SameConcat
<1> QED
  BY <1>4, <1>8 DEF a, b, d, e

\* The cipher suites of both.
LEMMA SameCiphers ==
  ASSUME NEW build \in BOOLEAN, NEW c \in Settings, Mirrorable(c, build), NEW r \in Draws,
         NEW q \in Draws, NEW m, Mirrorable(m, build),
         MirroredOf(m, c, build, Emission(c, build, r).ciphers)
  PROVE  SameList(Emission(c, build, r).ciphers, Emission(m, build, q).ciphers)
<1> DEFINE s == Emission(c, build, r).ciphers
           t == Emission(m, build, q).ciphers
<1>1. /\ m \in Settings /\ m.grease = c.grease
      /\ m.ciphers = IF build THEN Map(normalize, s) ELSE c.ciphers
  BY DEF MirroredOf
<1>2. s \in Seq(Nat) /\ (~build => s = ReservedOf(c, r) \o c.ciphers)
  BY EmissionCiphers
<1>3. /\ t \in Seq(Nat)
      /\ build => Redrawn(t, m.ciphers, q)
      /\ ~build => t = ReservedOf(m, q) \o m.ciphers
  BY <1>1, EmissionCiphers
<1> HIDE DEF s, t
<1>4. CASE build
  <2>1. Len(s) \in Nat /\ DOMAIN s = 1..Len(s) /\ \A i \in 1..Len(s) : s[i] \in Nat
    BY <1>2, LenProperties, ElementOfSeq
  <2>2. m.ciphers = [i \in 1..Len(s) |-> normalize(s[i])]
    BY <1>1, <1>4, <2>1 DEF Map
  <2>3. Len(m.ciphers) = Len(s)
    <3>1. m.ciphers \in [1..Len(s) -> Nat]
      BY <2>1, <2>2, NormalizeIsSame
    <3> QED
      BY <2>1, <3>1, FunctionIsSeq
  <2>4. ASSUME NEW i \in 1..Len(s) PROVE SameValue(s[i], t[i])
    <3>1. t[i] = IF grease(normalize(s[i])) THEN q ELSE normalize(s[i])
      BY <1>3, <1>4, <2>2, <2>3 DEF Redrawn
    <3>2. /\ grease(s[i]) <=> grease(normalize(s[i]))
          /\ ~grease(s[i]) => normalize(s[i]) = s[i]
      BY <2>1, NormalizeIsSame, NormalizeBack
    <3>3. grease(q)
      BY DrawsAreGrease
    <3> QED
      BY <3>1, <3>2, <3>3 DEF SameValue
  <2> QED
    BY <1>3, <1>4, <2>1, <2>3, <2>4 DEF SameList, Redrawn, s, t
<1>5. CASE ~build
  <2> DEFINE G == ReservedOf(c, r)
             H == ReservedOf(m, q)
             u == c.ciphers
  <2>1. G \in Seq(Nat) /\ H \in Seq(Nat) /\ u \in Seq(Nat)
    BY <1>1, IdsTypes DEF Settings
  <2>2. SameList(G, H) /\ SameList(u, u)
    BY <1>1, <2>1, ReservedAgain, SameReserved
  <2>3. s = G \o u /\ t = H \o u
    BY <1>1, <1>2, <1>3, <1>5
  <2> HIDE DEF G, H, u
  <2>4. SameList(G \o u, H \o u)
    BY <2>1, <2>2, SameConcat
  <2> QED
    BY <2>3, <2>4 DEF s, t
<1> QED
  BY <1>4, <1>5

\* The same hello.
LEMMA OwnSame ==
  ASSUME NEW build \in BOOLEAN, NEW c \in Settings, Mirrorable(c, build), NEW r \in Draws,
         NEW q \in Draws, NEW m, Mirrorable(m, build),
         MirroredOf(m, c, build, Emission(c, build, r).ciphers)
  PROVE  SameHello(Emission(c, build, r), Emission(m, build, q))
<1> DEFINE g == Emission(c, build, r)
           h == Emission(m, build, q)
           J == Ids(c, r)
           K == Ids(m, q)
<1>1. m \in Settings
  BY DEF MirroredOf
<1>2. g.version = h.version /\ g.compression = h.compression
  BY DEF Emission
<1>3. SameList(g.ciphers, h.ciphers)
  BY SameCiphers
<1>4. /\ J \in Seq(Nat) /\ Len(g.extensions) = Len(J)
      /\ \A i \in 1..Len(J) : g.extensions[i] = Ext(J[i], Filled(c, r, J[i]))
  BY EmissionIds
<1>5. /\ K \in Seq(Nat) /\ Len(h.extensions) = Len(K)
      /\ \A i \in 1..Len(K) : h.extensions[i] = Ext(K[i], Filled(m, q, K[i]))
  BY <1>1, EmissionIds
<1>6. DOMAIN g.extensions = 1..Len(g.extensions)
  <2>1. g \in Hello
    BY EmissionProperties
  <2> QED
    BY <2>1, HelloTypes
<1> HIDE DEF g, h, J, K
<1>7. Len(J) = Len(K) /\ DOMAIN J = 1..Len(J) /\ \A i \in 1..Len(J) : SameValue(J[i], K[i]) /\ J[i] \in Nat
  <2>1. SameList(J, K)
    BY SameIds DEF J, K
  <2> QED
    BY <1>4, <2>1, LenProperties, ElementOfSeq DEF SameList
<1>8. ASSUME NEW i \in 1..Len(J) PROVE SameExtension(g.extensions[i], h.extensions[i])
  <2> DEFINE x == J[i]
             y == K[i]
  <2>1. g.extensions[i] = Ext(x, Filled(c, r, x)) /\ h.extensions[i] = Ext(y, Filled(m, q, y))
    BY <1>4, <1>5, <1>7
  <2>2. x \in Nat /\ SameValue(x, y)
    BY <1>7
  <2> HIDE DEF x, y
  <2>3. CASE x = y
    <3>1. SameExtension(Ext(x, Filled(c, r, x)), Ext(x, Filled(m, q, x)))
      BY <2>2, SameBodies
    <3> QED
      BY <2>1, <2>3, <3>1
  <2>4. CASE grease(x) /\ grease(y)
    <3>1. g.extensions[i].id = x /\ h.extensions[i].id = y
      BY <2>1 DEF Ext
    <3> QED
      BY <2>4, <3>1 DEF SameExtension
  <2> QED
    BY <2>2, <2>3, <2>4 DEF SameValue
<1>9. SameHello(g, h)
  BY <1>2, <1>3, <1>4, <1>5, <1>6, <1>7, <1>8 DEF SameHello
<1> QED
  BY <1>9 DEF g, h

\* What a gate observes of both: a client that is the library itself is mirrored whole.
LEMMA OwnRoundTrip ==
  ASSUME NEW build \in BOOLEAN, NEW c \in Settings, Mirrorable(c, build), NEW r \in Draws,
         NEW q \in Draws, NEW o, o = TlsHello(Emission(c, build, r))
  PROVE  /\ Parsable(Emission(c, build, r)) /\ o \in TlsHellos
         /\ ~Refused(o) /\ limitations(o, build) = {}
         /\ Parsable(Emission(mirror(o, build), build, q))
         /\ TlsHello(Emission(mirror(o, build), build, q)) = o
<1>1. OwnHello(o, c, build, r)
  BY OwnObserved DEF OwnHello
<1>2. ~Refused(o) /\ limitations(o, build) = {} /\ o \in TlsHellos
  BY <1>1, OwnAccepted DEF OwnHello
<1> DEFINE m == mirror(o, build)
<1>3. m \in Settings /\ Mirrorable(m, build)
  BY <1>2, MirrorTypes, MirrorIsMirrorable
<1>4. MirroredOf(m, c, build, Emission(c, build, r).ciphers)
  BY <1>1, OwnMirrored
<1> HIDE DEF m
<1> DEFINE g == Emission(c, build, r)
           h == Emission(m, build, q)
<1>5. SameHello(g, h)
  BY <1>3, <1>4, OwnSame
<1>6. Parsable(g) /\ Parsable(h)
  BY <1>3, EmissionParsable
<1>7. g \in Hello /\ h \in Hello
  BY <1>3, EmissionProperties
<1> HIDE DEF g, h
<1>8. TlsHello(g) = TlsHello(h)
  BY <1>5, <1>6, <1>7, SameIsObservedEqual
<1> QED
  BY <1>2, <1>6, <1>8 DEF g, h, m

-----------------------------------------------------------------------------
(***************************************************************************)
(* The options of a SYN: where the loop of tcp_syn() begins them.          *)
(***************************************************************************)
OptionSet == [kind : Int, value : Seq(Int)]
Fits(o, p) == o[p] \in {0, 1} \/ LengthOk(o, p)

\* The octets of a string.
LEMMA TypedString ==
  ASSUME NEW o \in Seq(Nat)
  PROVE  Len(o) \in Nat /\ DOMAIN o = 1..Len(o) /\ \A i \in 1..Len(o) : o[i] \in Nat
BY LenProperties, ElementOfSeq

\* An option ends behind its start and within the list.
LEMMA BehindProperties ==
  ASSUME NEW o \in Seq(Nat), NEW p \in 1..Len(o), Fits(o, p)
  PROVE  /\ Behind(o, p) \in Nat /\ p < Behind(o, p) /\ Behind(o, p) <= Len(o) + 1
         /\ o[p] \notin {0, 1} => /\ p + 1 \in 1..Len(o) /\ o[p + 1] \in Nat /\ o[p + 1] >= 2
                                  /\ Behind(o, p) = p + o[p + 1]
         /\ o[p] = 0 => Behind(o, p) = Len(o) + 1
         /\ o[p] = 1 => Behind(o, p) = p + 1
<1>1. Len(o) \in Nat /\ \A i \in 1..Len(o) : o[i] \in Nat
  BY TypedString
<1>2. CASE o[p] \in {0, 1}
  BY <1>1, <1>2 DEF Behind
<1>3. CASE o[p] \notin {0, 1}
  <2>1. p + 1 \in 1..Len(o) /\ o[p + 1] >= 2 /\ p + o[p + 1] - 1 <= Len(o)
    BY <1>1, <1>3 DEF Fits, LengthOk
  <2>2. o[p + 1] \in Nat
    BY <1>1, <2>1
  <2>3. Behind(o, p) = p + o[p + 1] /\ o[p] # 0 /\ o[p] # 1
    BY <1>3 DEF Behind
  <2>4. Behind(o, p) \in Nat /\ p < Behind(o, p) /\ Behind(o, p) <= Len(o) + 1
    <3>1. \A m \in Nat : m >= 2 /\ p + m - 1 <= Len(o)
                         => p + m \in Nat /\ p < p + m /\ p + m <= Len(o) + 1
      BY <1>1
    <3> QED
      BY <2>1, <2>2, <2>3, <3>1
  <2> QED
    BY <2>1, <2>2, <2>3, <2>4, Zenon
<1> QED
  BY <1>2, <1>3

\* What the loop appends for an option.
LEMMA OptionTypes ==
  ASSUME NEW o \in Seq(Nat), NEW p \in 1..Len(o), Fits(o, p)
  PROVE  Option(o, p) \in OptionSet
<1>1. Len(o) \in Nat /\ \A i \in 1..Len(o) : o[i] \in Nat
  BY TypedString
<1>2. \A m, n \in Int : m >= 1 /\ n <= Len(o) => SubSeq(o, m, n) \in Seq(Int)
  <2>1. ASSUME NEW m \in Int, NEW n \in Int, m >= 1, n <= Len(o) PROVE SubSeq(o, m, n) \in Seq(Int)
    <3>1. \A i \in m..n : o[i] \in Int
      BY <1>1, <2>1
    <3> QED
      BY <3>1, SubSeqProperties
  <2> QED
    BY <2>1
<1>3. <<>> \in Seq(Int) /\ Present \in Seq(Int)
  BY DEF Present
<1>4. SubSeq(o, p + 1, Len(o)) \in Seq(Int)
  BY <1>1, <1>2
<1>5. o[p] \notin {0, 1} => SubSeq(o, p + 2, p + o[p + 1] - 1) \in Seq(Int)
  <2>1. ASSUME o[p] \notin {0, 1}
        PROVE  p + 2 \in Int /\ p + o[p + 1] - 1 \in Int /\ p + 2 >= 1 /\ p + o[p + 1] - 1 <= Len(o)
    BY <1>1, <2>1, BehindProperties
  <2> QED
    BY <1>2, <2>1
<1>6. o[p] \in Int
  BY <1>1
<1> QED
  BY <1>3, <1>4, <1>5, <1>6 DEF Option, OptionSet

-----------------------------------------------------------------------------
\* The loop over the options.
LoopStates == [p : Nat \ {0}, options : Seq(OptionSet)]
LoopRecurs(f, o) ==
  /\ f[0] = [p |-> 1, options |-> <<>>]
  /\ \A n \in 1..Len(o) : f[n] = Round(o, f[n - 1])

\* A round of the loop goes from state to state.
LEMMA RoundTypes ==
  ASSUME NEW o \in Seq(Nat), NEW s \in LoopStates
  PROVE  Round(o, s) \in LoopStates
<1>1. s.p \in Nat \ {0} /\ s.options \in Seq(OptionSet) /\ Len(o) \in Nat
  BY TypedString DEF LoopStates
<1>2. CASE s.p > Len(o)
  BY <1>2 DEF Round
<1>3. CASE ~(s.p > Len(o)) /\ Fits(o, s.p)
  <2>1. s.p \in 1..Len(o)
    BY <1>1, <1>3
  <2>2. Behind(o, s.p) \in Nat \ {0} /\ Option(o, s.p) \in OptionSet
    BY <1>3, <2>1, BehindProperties, OptionTypes
  <2>3. Append(s.options, Option(o, s.p)) \in Seq(OptionSet)
    BY <1>1, <2>2, AppendProperties
  <2>4. Round(o, s) = [p |-> Behind(o, s.p), options |-> Append(s.options, Option(o, s.p))]
    BY <1>3 DEF Round, Fits
  <2> QED
    BY <2>2, <2>3, <2>4 DEF LoopStates
<1>4. CASE ~(s.p > Len(o)) /\ ~Fits(o, s.p)
  <2>1. Malformed \in OptionSet
    BY DEF Malformed, OptionSet
  <2>2. Append(s.options, Malformed) \in Seq(OptionSet)
    BY <1>1, <2>1, AppendProperties
  <2>3. Round(o, s) = [p |-> Len(o) + 1, options |-> Append(s.options, Malformed)]
    BY <1>4 DEF Round, Fits
  <2> QED
    BY <1>1, <2>2, <2>3 DEF LoopStates
<1> QED
  BY <1>2, <1>3, <1>4

\* The recursion of Options has a solution.
LEMMA OptionsIsDefined ==
  ASSUME NEW o \in Seq(Nat)
  PROVE  \E f \in [0..Len(o) -> LoopStates] : LoopRecurs(f, o) /\ Options(o) = f[Len(o)].options
<1> DEFINE N == Len(o)
           base == [p |-> 1, options |-> <<>>]
           step == [n \in 1..N |-> [s \in LoopStates |-> Round(o, s)]]
           loop == CHOOSE f : f = [n \in 0..N |-> IF n = 0 THEN [p |-> 1, options |-> <<>>]
                                                  ELSE Round(o, f[n - 1])]
<1>1. N \in Nat /\ base \in LoopStates
  BY TypedString DEF LoopStates
<1>2. step \in [1..N -> [LoopStates -> LoopStates]]
  BY RoundTypes
<1>3. \A n \in 1..N : \A s \in LoopStates : step[n][s] = Round(o, s)
  OBVIOUS
<1>4. Options(o) = loop[N].options
  BY DEF Options
<1> HIDE DEF step, N
<1>5. PICK g \in [0..N -> LoopStates] : Recurs(g, N, base, step)
  BY <1>1, <1>2, RecursionUpTo
<1>6. g[0] = base /\ \A n \in 1..N : g[n] = Round(o, g[n - 1])
  <2>1. ASSUME NEW n \in 1..N PROVE g[n] = Round(o, g[n - 1])
    <3>1. n - 1 \in 0..N
      BY <1>1
    <3> QED
      BY <1>3, <1>5, <3>1 DEF Recurs
  <2> QED
    BY <1>5, <2>1 DEF Recurs
<1>7. g = [n \in 0..N |-> IF n = 0 THEN [p |-> 1, options |-> <<>>] ELSE Round(o, g[n - 1])]
  <2>1. ASSUME NEW n \in 0..N
        PROVE  g[n] = IF n = 0 THEN [p |-> 1, options |-> <<>>] ELSE Round(o, g[n - 1])
    <3>1. n = 0 \/ n \in 1..N
      BY <1>1
    <3> QED
      BY <1>6, <3>1
  <2>2. g = [n \in 0..N |-> g[n]]
    BY <1>5
  <2> QED
    BY <2>1, <2>2, Zenon
<1>8. loop = [n \in 0..N |-> IF n = 0 THEN [p |-> 1, options |-> <<>>] ELSE Round(o, loop[n - 1])]
  BY <1>7, Zenon
<1>9. loop[0] = base /\ \A n \in 1..N : loop[n] = Round(o, loop[n - 1])
  <2>1. ASSUME NEW f, f = [n \in 0..N |-> IF n = 0 THEN [p |-> 1, options |-> <<>>] ELSE Round(o, f[n - 1])]
        PROVE  f[0] = base /\ \A n \in 1..N : f[n] = Round(o, f[n - 1])
    <3>1. 0 \in 0..N /\ \A n \in 1..N : n \in 0..N /\ n # 0
      BY <1>1
    <3> QED
      BY <2>1, <3>1
  <2> HIDE DEF loop
  <2> QED
    BY <1>8, <2>1, Zenon
<1> HIDE DEF loop, base
<1> DEFINE A == {n \in 0..N : loop[n] = g[n]}
<1>10. 0..N \subseteq A
  <2>1. 0 \in A
    BY <1>1, <1>6, <1>9
  <2>2. ASSUME NEW n \in 0..(N - 1), n \in A PROVE n + 1 \in A
    <3>1. n + 1 \in 1..N /\ (n + 1) - 1 = n /\ n + 1 \in 0..N
      BY <1>1
    <3> QED
      BY <1>6, <1>9, <2>2, <3>1
  <2> HIDE DEF A
  <2> QED
    BY <1>1, <2>1, <2>2, InductionUpTo
<1>11. loop[N] = g[N]
  BY <1>1, <1>10
<1> QED
  BY <1>4, <1>5, <1>6, <1>11 DEF LoopRecurs, N, base

-----------------------------------------------------------------------------
\* The places at which the options of o begin, and the end.
Runs(o, K, q) ==
  /\ K \in Nat /\ q \in [0..K -> Nat] /\ q[0] = 1
  /\ \A k \in 0..(K - 1) : /\ q[k] \in 1..Len(o) /\ Fits(o, q[k])
                           /\ q[k + 1] = Behind(o, q[k])
Listed(x, o, K, q) == x \in Seq(OptionSet) /\ Len(x) = K /\ \A k \in 1..K : x[k] = Option(o, q[k - 1])
Trace(o, K, q) == Runs(o, K, q) /\ q[K] = Len(o) + 1

\* A round that reads an option adds one more start.
LEMMA OneMore ==
  ASSUME NEW o \in Seq(Nat), NEW K, NEW q, NEW x, Runs(o, K, q), Listed(x, o, K, q),
         q[K] \in 1..Len(o), Fits(o, q[K])
  PROVE  \E r : /\ Runs(o, K + 1, r) /\ r[K + 1] = Behind(o, q[K])
                /\ Listed(Append(x, Option(o, q[K])), o, K + 1, r)
<1> DEFINE r == [k \in 0..(K + 1) |-> IF k <= K THEN q[k] ELSE Behind(o, q[K])]
           y == Append(x, Option(o, q[K]))
<1>1. K \in Nat /\ q \in [0..K -> Nat] /\ Len(o) \in Nat
  BY TypedString DEF Runs
<1>2. Behind(o, q[K]) \in Nat
  BY BehindProperties
<1>3. /\ r \in [0..(K + 1) -> Nat] /\ r[0] = q[0] /\ r[K + 1] = Behind(o, q[K])
      /\ \A k \in 0..K : r[k] = q[k]
  BY <1>1, <1>2
<1> HIDE DEF r
<1>4. ASSUME NEW k \in 0..((K + 1) - 1)
      PROVE  r[k] \in 1..Len(o) /\ Fits(o, r[k]) /\ r[k + 1] = Behind(o, r[k])
  <2>1. CASE k = K
    BY <1>1, <1>3, <2>1
  <2>2. CASE k # K
    <3>1. k \in 0..(K - 1) /\ k \in 0..K /\ k + 1 \in 0..K
      BY <1>1, <2>2
    <3> QED
      BY <1>3, <3>1 DEF Runs
  <2> QED
    BY <2>1, <2>2
<1>5. Runs(o, K + 1, r)
  BY <1>1, <1>3, <1>4 DEF Runs
<1>6. x \in Seq(OptionSet) /\ Len(x) = K /\ Option(o, q[K]) \in OptionSet
  BY OptionTypes DEF Listed
<1>7. /\ y \in Seq(OptionSet) /\ Len(y) = K + 1
      /\ \A k \in 1..K : y[k] = x[k]
      /\ y[K + 1] = Option(o, q[K])
  BY <1>6, AppendProperties
<1> HIDE DEF y
<1>8. ASSUME NEW k \in 1..(K + 1) PROVE y[k] = Option(o, r[k - 1])
  <2>1. CASE k = K + 1
    <3>1. k - 1 = K /\ K \in 0..K
      BY <1>1, <2>1
    <3> QED
      BY <1>3, <1>7, <2>1, <3>1
  <2>2. CASE k # K + 1
    <3>1. k \in 1..K /\ k - 1 \in 0..K
      BY <1>1, <2>2
    <3> QED
      BY <1>3, <1>7, <3>1 DEF Listed
  <2> QED
    BY <2>1, <2>2
<1>9. Listed(y, o, K + 1, r)
  BY <1>7, <1>8 DEF Listed
<1> QED
  BY <1>3, <1>5, <1>9 DEF y

\* A list that is not malformed is cut into options from end to end.
LEMMA TraceExists ==
  ASSUME NEW o \in Seq(Nat), Malformed \notin Range(Options(o))
  PROVE  \E K, q : Trace(o, K, q) /\ Listed(Options(o), o, K, q)
<1> DEFINE N == Len(o)
<1>1. N \in Nat
  BY TypedString
<1>2. PICK f \in [0..N -> LoopStates] : LoopRecurs(f, o) /\ Options(o) = f[N].options
  BY OptionsIsDefined
<1> DEFINE Cut(n) == \E K, q : /\ Runs(o, K, q) /\ Listed(f[n].options, o, K, q)
                               /\ q[K] = f[n].p /\ K + 1 <= q[K] /\ q[K] <= N + 1
                               /\ (K = n \/ q[K] = N + 1)
           Bad(n) == Malformed \in Range(f[n].options)
           A == {n \in 0..N : Bad(n) \/ Cut(n)}
<1>3. \A n \in 0..N : f[n].p \in Nat \ {0} /\ f[n].options \in Seq(OptionSet)
  BY <1>2 DEF LoopStates
<1>4. Malformed \in OptionSet
  BY DEF Malformed, OptionSet
<1>5. 0 \in A
  <2> DEFINE q == [k \in 0..0 |-> 1]
  <2>1. f[0].p = 1 /\ f[0].options = <<>>
    BY <1>2 DEF LoopRecurs
  <2>2. q \in [0..0 -> Nat] /\ q[0] = 1
    OBVIOUS
  <2> HIDE DEF q
  <2>3. Runs(o, 0, q)
    BY <2>2 DEF Runs
  <2>4. Listed(<<>>, o, 0, q)
    BY DEF Listed
  <2>5. Cut(0)
    BY <1>1, <2>1, <2>2, <2>3, <2>4
  <2> QED
    BY <1>1, <2>5
<1>6. ASSUME NEW n \in 0..(N - 1), n \in A PROVE n + 1 \in A
  <2>1. n + 1 \in 1..N /\ n \in 0..N /\ n + 1 \in 0..N /\ (n + 1) - 1 = n /\ n \in Nat
    BY <1>1
  <2>2. f[n + 1] = Round(o, f[n])
    BY <1>2, <2>1 DEF LoopRecurs
  <2>3. f[n].p \in Nat \ {0} /\ f[n].options \in Seq(OptionSet)
    BY <1>3, <2>1
  <2>4. CASE f[n].p > N
    <3>1. f[n + 1] = f[n]
      BY <2>2, <2>4 DEF Round
    <3>2. CASE Bad(n)
      BY <2>1, <3>1, <3>2
    <3>3. CASE Cut(n)
      <4>1. PICK K, q : /\ Runs(o, K, q) /\ Listed(f[n].options, o, K, q)
                        /\ q[K] = f[n].p /\ K + 1 <= q[K] /\ q[K] <= N + 1
        BY <3>3
      <4>2. q[K] = N + 1
        <5>1. q[K] \in Nat /\ q[K] > N /\ q[K] <= N + 1
          BY <2>3, <2>4, <4>1
        <5> HIDE DEF N
        <5> QED
          BY <1>1, <5>1
      <4>3. Cut(n + 1)
        BY <3>1, <4>1, <4>2
      <4> QED
        BY <2>1, <4>3
    <3> QED
      BY <1>6, <3>2, <3>3
  <2>5. CASE ~(f[n].p > N) /\ Fits(o, f[n].p)
    <3>1. f[n].p \in 1..N
      BY <1>1, <2>3, <2>5
    <3>2. /\ f[n + 1].p = Behind(o, f[n].p)
          /\ f[n + 1].options = Append(f[n].options, Option(o, f[n].p))
      BY <2>2, <2>5 DEF Round, Fits
    <3>3. Option(o, f[n].p) \in OptionSet
      BY <2>5, <3>1, OptionTypes
    <3>4. CASE Bad(n)
      <4>1. Malformed \in Range(Append(f[n].options, Option(o, f[n].p)))
        BY <2>3, <3>3, <3>4, RangeOfAppend
      <4> QED
        BY <2>1, <3>2, <4>1
    <3>5. CASE Cut(n)
      <4>1. PICK K, q : /\ Runs(o, K, q) /\ Listed(f[n].options, o, K, q)
                        /\ q[K] = f[n].p /\ K + 1 <= q[K] /\ q[K] <= N + 1
                        /\ (K = n \/ q[K] = N + 1)
        BY <3>5
      <4>2. K = n
        BY <1>1, <3>1, <4>1
      <4>3. PICK r : /\ Runs(o, K + 1, r) /\ r[K + 1] = Behind(o, q[K])
                     /\ Listed(Append(f[n].options, Option(o, q[K])), o, K + 1, r)
        BY <2>5, <3>1, <4>1, OneMore
      <4>4. Behind(o, f[n].p) \in Nat /\ f[n].p < Behind(o, f[n].p) /\ Behind(o, f[n].p) <= N + 1
        BY <2>5, <3>1, BehindProperties
      <4>5. (n + 1) + 1 <= r[n + 1] /\ r[n + 1] <= N + 1
        BY <2>1, <2>3, <4>1, <4>2, <4>3, <4>4
      <4>6. Runs(o, n + 1, r) /\ Listed(f[n + 1].options, o, n + 1, r) /\ r[n + 1] = f[n + 1].p
        BY <3>2, <4>1, <4>2, <4>3
      <4>7. Cut(n + 1)
        BY <4>5, <4>6
      <4> QED
        BY <2>1, <4>7
    <3> QED
      BY <1>6, <3>4, <3>5
  <2>6. CASE ~(f[n].p > N) /\ ~Fits(o, f[n].p)
    <3>1. f[n + 1].options = Append(f[n].options, Malformed)
      BY <2>2, <2>6 DEF Round, Fits
    <3>2. Malformed \in Range(Append(f[n].options, Malformed))
      BY <1>4, <2>3, RangeOfAppend
    <3> QED
      BY <2>1, <3>1, <3>2
  <2> QED
    BY <2>4, <2>5, <2>6
<1>7. 0..N \subseteq A
  <2> HIDE DEF A, N
  <2> QED
    BY <1>1, <1>5, <1>6, InductionUpTo
<1>8. N \in 0..N
  BY <1>1
<1>9. Cut(N)
  BY <1>2, <1>7, <1>8
<1>10. PICK K, q : /\ Runs(o, K, q) /\ Listed(f[N].options, o, K, q)
                   /\ q[K] = f[N].p /\ K + 1 <= q[K] /\ q[K] <= N + 1
                   /\ (K = N \/ q[K] = N + 1)
  BY <1>9
<1>11. q[K] = N + 1
  <2>1. K \in Nat /\ q[K] \in Nat
    <3>1. K \in Nat /\ q \in [0..K -> Nat]
      BY <1>10 DEF Runs
    <3> QED
      BY <3>1
  <2>2. CASE K = N
    <3>1. N + 1 <= q[K] /\ q[K] <= N + 1
      BY <1>10, <2>2
    <3> HIDE DEF N
    <3> QED
      BY <1>1, <2>1, <3>1
  <2>3. K = N \/ q[K] = N + 1
    BY <1>10, Zenon
  <2> QED
    BY <2>2, <2>3
<1> QED
  BY <1>2, <1>10, <1>11 DEF Trace

-----------------------------------------------------------------------------
(***************************************************************************)
(* One option.                                                             *)
(***************************************************************************)
Starts(K, q) == {q[k] : k \in 0..(K - 1)}

\* An octet between two starts is in the option of the first.
LEMMA SubSeqSame ==
  ASSUME NEW o \in Seq(Nat), NEW w \in Seq(Nat)
  PROVE  \A m, a, b \in Nat :
           1 <= m /\ m <= a + 1 /\ m <= b + 1 /\ a <= Len(o) /\ b <= Len(w)
           => (SubSeq(o, m, a) = SubSeq(w, m, b) <=> a = b /\ \A i \in m..a : o[i] = w[i])
<1> SUFFICES ASSUME NEW m \in Nat, NEW a \in Nat, NEW b \in Nat,
                    1 <= m, m <= a + 1, m <= b + 1, a <= Len(o), b <= Len(w)
             PROVE  SubSeq(o, m, a) = SubSeq(w, m, b) <=> a = b /\ \A i \in m..a : o[i] = w[i]
  OBVIOUS
<1> DEFINE x == SubSeq(o, m, a)
           y == SubSeq(w, m, b)
<1>1. /\ Len(o) \in Nat /\ \A i \in 1..Len(o) : o[i] \in Nat
      /\ Len(w) \in Nat /\ \A i \in 1..Len(w) : w[i] \in Nat
  BY TypedString
<1>2. /\ \A i \in m..a : o[i] \in Nat
      /\ \A i \in m..b : w[i] \in Nat
  BY <1>1
<1>3. x \in Seq(Nat) /\ Len(x) = a - m + 1 /\ \A i \in 1..(a - m + 1) : x[i] = o[m + i - 1]
  <2>1. x \in Seq(Nat) /\ Len(x) = IF m <= a THEN a - m + 1 ELSE 0
    BY <1>2, SubSeqProperties
  <2>2. \A i \in 1..(a - m + 1) : x[i] = o[m + i - 1]
    BY <1>2, SubSeqProperties
  <2> QED
    BY <2>1, <2>2
<1>4. y \in Seq(Nat) /\ Len(y) = b - m + 1 /\ \A i \in 1..(b - m + 1) : y[i] = w[m + i - 1]
  <2>1. y \in Seq(Nat) /\ Len(y) = IF m <= b THEN b - m + 1 ELSE 0
    BY <1>2, SubSeqProperties
  <2>2. \A i \in 1..(b - m + 1) : y[i] = w[m + i - 1]
    BY <1>2, SubSeqProperties
  <2> QED
    BY <2>1, <2>2
<1> HIDE DEF x, y
<1>5. ASSUME x = y PROVE a = b /\ \A i \in m..a : o[i] = w[i]
  <2>1. a = b
    BY <1>3, <1>4, <1>5
  <2>2. ASSUME NEW i \in m..a PROVE o[i] = w[i]
    <3>1. i - m + 1 \in 1..(a - m + 1) /\ m + (i - m + 1) - 1 = i
      OBVIOUS
    <3>2. x[i - m + 1] = o[i]
      BY <1>3, <3>1
    <3>3. y[i - m + 1] = w[i]
      BY <1>4, <2>1, <3>1
    <3> QED
      BY <1>5, <3>2, <3>3
  <2> QED
    BY <2>1, <2>2
<1>6. ASSUME a = b, \A i \in m..a : o[i] = w[i] PROVE x = y
  <2>1. Len(x) = Len(y)
    BY <1>3, <1>4, <1>6
  <2>2. ASSUME NEW i \in 1..Len(x) PROVE x[i] = y[i]
    <3>1. m + i - 1 \in m..a /\ i \in 1..(a - m + 1) /\ i \in 1..(b - m + 1)
      BY <1>3, <1>6
    <3> QED
      BY <1>3, <1>4, <1>6, <3>1
  <2> QED
    BY <1>3, <1>4, <2>1, <2>2, SeqEqual
<1> QED
  BY <1>5, <1>6 DEF x, y

\* Two options are the same if they end at the same place and what is kept of
\* them is the same: all of them but the value of a timestamp.
SameOption(o, w, p) ==
  /\ Behind(o, p) = Behind(w, p)
  /\ \A i \in p..(Behind(o, p) - 1) : o[i] = w[i] \/ (o[p] = 8 /\ i >= p + 2)

\* Two options that begin at the same place are observed to be the same exactly
\* if they are.
LEMMA OptionDecides ==
  ASSUME NEW o \in Seq(Nat), NEW w \in Seq(Nat), NEW p \in 1..Len(o), p \in 1..Len(w),
         Fits(o, p), Fits(w, p), TimestampLen \in Nat
  PROVE  Option(o, p) = Option(w, p) <=> o[p] = w[p] /\ SameOption(o, w, p)
<1>1. /\ Len(o) \in Nat /\ Len(w) \in Nat /\ o[p] \in Nat /\ w[p] \in Nat /\ p \in Nat
  BY TypedString
<1> DEFINE v(s) == IF s[p] = 0 THEN SubSeq(s, p + 1, Len(s))
                   ELSE IF s[p] = 1 THEN <<>>
                   ELSE IF s[p] = 8 THEN Present
                   ELSE SubSeq(s, p + 2, p + s[p + 1] - 1)
<1>2. Option(o, p) = Option(w, p) <=> o[p] = w[p] /\ v(o) = v(w)
  BY DEF Option
<1>7. \A m, a, b \in Nat :
        1 <= m /\ m <= a + 1 /\ m <= b + 1 /\ a <= Len(o) /\ b <= Len(w)
        => (SubSeq(o, m, a) = SubSeq(w, m, b) <=> a = b /\ \A i \in m..a : o[i] = w[i])
  BY SubSeqSame
<1>3. CASE o[p] = w[p] /\ o[p] = 0
  <2>1. Behind(o, p) = Len(o) + 1 /\ Behind(w, p) = Len(w) + 1
    BY <1>3 DEF Behind
  <2>2. v(o) = SubSeq(o, p + 1, Len(o)) /\ v(w) = SubSeq(w, p + 1, Len(w))
    BY <1>3
  <2> HIDE DEF v
  <2>3. v(o) = v(w) <=> Len(o) = Len(w) /\ \A i \in (p + 1)..Len(o) : o[i] = w[i]
    <3>1. p + 1 \in Nat /\ 1 <= p + 1 /\ p + 1 <= Len(o) + 1 /\ p + 1 <= Len(w) + 1
      BY <1>1
    <3>2. Len(o) <= Len(o) /\ Len(w) <= Len(w)
      BY <1>1
    <3> QED
      <4>1. SubSeq(o, p + 1, Len(o)) = SubSeq(w, p + 1, Len(w))
            <=> Len(o) = Len(w) /\ \A i \in (p + 1)..Len(o) : o[i] = w[i]
        <5> HIDE DEF v
        <5> QED
          BY <1>1, <1>7, <3>1, <3>2, Zenon
      <4> QED
        BY <2>2, <4>1, Zenon
  <2>4. SameOption(o, w, p) <=> Len(o) = Len(w) /\ \A i \in (p + 1)..Len(o) : o[i] = w[i]
    <3>1. \A i \in p..((Len(o) + 1) - 1) : i = p \/ i \in (p + 1)..Len(o)
      BY <1>1
    <3>2. \A i \in (p + 1)..Len(o) : i \in p..((Len(o) + 1) - 1)
      BY <1>1
    <3>3. \A a, b \in Nat : a + 1 = b + 1 <=> a = b
      OBVIOUS
    <3>4. Behind(o, p) = Behind(w, p) <=> Len(o) = Len(w)
      BY <1>1, <2>1, <3>3
    <3>5. (\A i \in p..(Behind(o, p) - 1) : o[i] = w[i] \/ (o[p] = 8 /\ i >= p + 2))
          <=> \A i \in (p + 1)..Len(o) : o[i] = w[i]
      <4>1. o[p] # 8
        BY <1>3
      <4>2. ASSUME NEW i \in p..((Len(o) + 1) - 1), \A j \in (p + 1)..Len(o) : o[j] = w[j]
            PROVE  o[i] = w[i]
        BY <1>3, <3>1, <4>2
      <4>3. ASSUME NEW i \in (p + 1)..Len(o),
                   \A j \in p..((Len(o) + 1) - 1) : o[j] = w[j] \/ (o[p] = 8 /\ j >= p + 2)
            PROVE  o[i] = w[i]
        BY <3>2, <4>1, <4>3
      <4> QED
        BY <2>1, <4>2, <4>3, Zenon
    <3> QED
      BY <3>4, <3>5, Zenon DEF SameOption
  <2> QED
    BY <1>2, <1>3, <2>3, <2>4
<1>4. CASE o[p] = w[p] /\ o[p] = 1
  <2>1. Behind(o, p) = p + 1 /\ Behind(w, p) = p + 1 /\ v(o) = v(w)
    BY <1>4 DEF Behind
  <2>2. \A i \in p..((p + 1) - 1) : i = p
    BY <1>1
  <2> QED
    BY <1>2, <1>4, <2>1, <2>2 DEF SameOption
<1>5. CASE o[p] = w[p] /\ o[p] \notin {0, 1}
  <2>1. /\ p + 1 \in 1..Len(o) /\ o[p + 1] \in Nat /\ o[p + 1] >= 2
        /\ Behind(o, p) = p + o[p + 1] /\ Behind(o, p) <= Len(o) + 1
        /\ p + 1 \in 1..Len(w) /\ w[p + 1] \in Nat /\ w[p + 1] >= 2
        /\ Behind(w, p) = p + w[p + 1] /\ Behind(w, p) <= Len(w) + 1
    BY <1>5, BehindProperties
  <2>2. CASE o[p] = 8
    <3>1. o[p + 1] = TimestampLen /\ w[p + 1] = TimestampLen
      BY <1>5, <2>2 DEF Fits, LengthOk
    <3>2. v(o) = v(w)
      BY <1>5, <2>2
    <3>3. \A i \in p..((p + o[p + 1]) - 1) : i = p \/ i = p + 1 \/ i >= p + 2
      BY <1>1, <2>1
    <3>4. SameOption(o, w, p)
      BY <1>5, <2>1, <2>2, <3>1, <3>3 DEF SameOption
    <3> QED
      BY <1>2, <1>5, <3>2, <3>4
  <2>3. CASE o[p] # 8
    <3>1. v(o) = SubSeq(o, p + 2, p + o[p + 1] - 1) /\ v(w) = SubSeq(w, p + 2, p + w[p + 1] - 1)
      BY <1>5, <2>3
    <3> HIDE DEF v
    <3>2. v(o) = v(w) <=> /\ p + o[p + 1] - 1 = p + w[p + 1] - 1
                          /\ \A i \in (p + 2)..(p + o[p + 1] - 1) : o[i] = w[i]
      <4>1. /\ p + 2 \in Nat /\ p + o[p + 1] - 1 \in Nat /\ p + w[p + 1] - 1 \in Nat
            /\ 1 <= p + 2 /\ p + 2 <= (p + o[p + 1] - 1) + 1 /\ p + 2 <= (p + w[p + 1] - 1) + 1
            /\ p + o[p + 1] - 1 <= Len(o) /\ p + w[p + 1] - 1 <= Len(w)
        <5>1. \A m, l \in Nat : m >= 2 /\ p + m <= l + 1
                => /\ p + m - 1 \in Nat /\ p + 2 <= (p + m - 1) + 1 /\ p + m - 1 <= l
          BY <1>1
        <5>2. p + 2 \in Nat /\ 1 <= p + 2
          BY <1>1
        <5>3. p + o[p + 1] <= Len(o) + 1 /\ p + w[p + 1] <= Len(w) + 1
          BY <2>1
        <5> QED
          BY <1>1, <2>1, <5>1, <5>2, <5>3, Zenon
      <4>2. SubSeq(o, p + 2, p + o[p + 1] - 1) = SubSeq(w, p + 2, p + w[p + 1] - 1)
            <=> /\ p + o[p + 1] - 1 = p + w[p + 1] - 1
                /\ \A i \in (p + 2)..(p + o[p + 1] - 1) : o[i] = w[i]
        <5> DEFINE m == p + 2
                   a == p + o[p + 1] - 1
                   b == p + w[p + 1] - 1
        <5>1. /\ m \in Nat /\ a \in Nat /\ b \in Nat /\ 1 <= m /\ m <= a + 1 /\ m <= b + 1
              /\ a <= Len(o) /\ b <= Len(w)
          BY <4>1
        <5> HIDE DEF m, a, b
        <5>2. SubSeq(o, m, a) = SubSeq(w, m, b) <=> a = b /\ \A i \in m..a : o[i] = w[i]
          BY <1>7, <5>1
        <5> QED
          BY <5>2, Zenon DEF m, a, b
      <4> QED
        BY <3>1, <4>2, Zenon
    <3>3. p + o[p + 1] - 1 = p + w[p + 1] - 1 <=> o[p + 1] = w[p + 1]
      <4>1. \A m, l \in Nat : p + m - 1 = p + l - 1 <=> m = l
        BY <1>1
      <4> QED
        BY <2>1, <4>1, Zenon
    <3>4. SameOption(o, w, p) <=> /\ o[p + 1] = w[p + 1]
                                  /\ \A i \in (p + 2)..(p + o[p + 1] - 1) : o[i] = w[i]
      <4>1. p + o[p + 1] = p + w[p + 1] <=> o[p + 1] = w[p + 1]
        <5>1. \A m, l \in Nat : p + m = p + l <=> m = l
          BY <1>1
        <5> QED
          BY <2>1, <5>1, Zenon
      <4>2. /\ p + 1 \in p..((p + o[p + 1]) - 1)
            /\ \A i \in p..((p + o[p + 1]) - 1) :
                 i = p \/ i = p + 1 \/ i \in (p + 2)..(p + o[p + 1] - 1)
            /\ \A i \in (p + 2)..(p + o[p + 1] - 1) : i \in p..((p + o[p + 1]) - 1)
        <5>1. \A m \in Nat : m >= 2 =>
                /\ p + 1 \in p..((p + m) - 1)
                /\ \A i \in p..((p + m) - 1) : i = p \/ i = p + 1 \/ i \in (p + 2)..(p + m - 1)
                /\ \A i \in (p + 2)..(p + m - 1) : i \in p..((p + m) - 1)
          BY <1>1
        <5> QED
          BY <2>1, <5>1, Zenon
      <4> QED
        BY <1>5, <2>1, <2>3, <4>1, <4>2 DEF SameOption
    <3> QED
      BY <1>2, <1>5, <3>2, <3>3, <3>4
  <2> QED
    BY <2>2, <2>3
<1>6. CASE o[p] # w[p]
  BY <1>2, <1>6
<1> QED
  BY <1>3, <1>4, <1>5, <1>6

-----------------------------------------------------------------------------
(***************************************************************************)
(* Where options begin.                                                    *)
(***************************************************************************)
\* Each start is followed by the end of its option.
LEMMA RunsTypes ==
  ASSUME NEW o \in Seq(Nat), NEW K, NEW q, Runs(o, K, q)
  PROVE  /\ K \in Nat /\ Len(o) \in Nat /\ q[0] = 1
         /\ \A k \in 0..K : q[k] \in Nat
         /\ \A k \in 0..(K - 1) : /\ k \in 0..K /\ k + 1 \in 0..K
                                  /\ q[k] \in 1..Len(o) /\ Fits(o, q[k])
                                  /\ q[k + 1] = Behind(o, q[k])
                                  /\ q[k] < q[k + 1] /\ q[k + 1] <= Len(o) + 1
<1>1. K \in Nat /\ q \in [0..K -> Nat] /\ Len(o) \in Nat /\ q[0] = 1
  BY TypedString DEF Runs
<1>2. ASSUME NEW k \in 0..(K - 1)
      PROVE  /\ k \in 0..K /\ k + 1 \in 0..K
             /\ q[k] \in 1..Len(o) /\ Fits(o, q[k])
             /\ q[k + 1] = Behind(o, q[k])
             /\ q[k] < q[k + 1] /\ q[k + 1] <= Len(o) + 1
  <2>1. q[k] \in 1..Len(o) /\ Fits(o, q[k]) /\ q[k + 1] = Behind(o, q[k])
    BY DEF Runs
  <2>2. q[k] < q[k + 1] /\ q[k + 1] <= Len(o) + 1
    BY <2>1, BehindProperties
  <2> QED
    BY <1>1, <2>1, <2>2
<1> QED
  BY <1>1, <1>2

\* The starts increase.
LEMMA Increasing ==
  ASSUME NEW o \in Seq(Nat), NEW K, NEW q, Runs(o, K, q), NEW j \in 0..K, NEW i \in 0..j
  PROVE  q[i] <= q[j]
<1> DEFINE A == {m \in 0..K : \A n \in 0..m : q[n] <= q[m]}
<1>1. K \in Nat /\ \A k \in 0..K : q[k] \in Nat
  BY RunsTypes
<1>2. 0 \in A
  BY <1>1
<1>3. ASSUME NEW m \in 0..(K - 1), m \in A PROVE m + 1 \in A
  <2>1. m + 1 \in 0..K /\ m \in 0..K /\ q[m] < q[m + 1]
    BY RunsTypes
  <2>2. ASSUME NEW n \in 0..(m + 1) PROVE q[n] <= q[m + 1]
    <3>1. n = m + 1 \/ n \in 0..m
      OBVIOUS
    <3>2. n \in 0..m => q[n] <= q[m] /\ n \in 0..K
      BY <1>3, <1>1
    <3> QED
      BY <1>1, <2>1, <3>1, <3>2
  <2> QED
    BY <2>1, <2>2
<1> HIDE DEF A
<1>4. 0..K \subseteq A
  BY <1>1, <1>2, <1>3, InductionUpTo
<1> QED
  BY <1>4 DEF A

\* Each octet is in an option.
LEMMA SegmentOf ==
  ASSUME NEW o \in Seq(Nat), NEW K, NEW q, Trace(o, K, q), NEW i \in 1..Len(o)
  PROVE  \E k \in 0..(K - 1) : q[k] <= i /\ i <= q[k + 1] - 1
<1>1. Runs(o, K, q) /\ q[K] = Len(o) + 1
  BY DEF Trace
<1>2. K \in Nat /\ Len(o) \in Nat /\ q[0] = 1 /\ \A k \in 0..K : q[k] \in Nat
  BY <1>1, RunsTypes
<1> DEFINE A == {m \in 0..K : i < q[m] => \E k \in 0..(m - 1) : q[k] <= i /\ i <= q[k + 1] - 1}
<1>3. 0 \in A
  BY <1>2
<1>4. ASSUME NEW m \in 0..(K - 1), m \in A PROVE m + 1 \in A
  <2>1. m + 1 \in 0..K /\ m \in 0..K /\ q[m] \in Nat /\ q[m + 1] \in Nat
    BY <1>1, <1>2, RunsTypes
  <2>2. ASSUME i < q[m + 1] PROVE \E k \in 0..((m + 1) - 1) : q[k] <= i /\ i <= q[k + 1] - 1
    <3>1. CASE i < q[m]
      <4>1. PICK k \in 0..(m - 1) : q[k] <= i /\ i <= q[k + 1] - 1
        BY <1>4, <3>1
      <4>2. k \in 0..((m + 1) - 1)
        OBVIOUS
      <4> QED
        BY <4>1, <4>2
    <3>2. CASE ~(i < q[m])
      <4>1. q[m] <= i /\ i <= q[m + 1] - 1 /\ m \in 0..((m + 1) - 1)
        BY <2>1, <2>2, <3>2
      <4> QED
        BY <4>1
    <3> QED
      BY <3>1, <3>2
  <2> QED
    BY <2>1, <2>2
<1> HIDE DEF A
<1>5. 0..K \subseteq A
  BY <1>2, <1>3, <1>4, InductionUpTo
<1>6. K \in A
  BY <1>2, <1>5
<1>7. i < q[K]
  BY <1>1, <1>2
<1> QED
  BY <1>6, <1>7 DEF A

\* The starts cut the list.
LEMMA StartsCut ==
  ASSUME NEW o \in Seq(Nat), NEW K, NEW q, Trace(o, K, q)
  PROVE  Starts(K, q) \in SUBSET DOMAIN o /\ Cuts(o, Starts(K, q))
<1> DEFINE B == Starts(K, q)
<1>1. Runs(o, K, q) /\ q[K] = Len(o) + 1
  BY DEF Trace
<1>2. K \in Nat /\ Len(o) \in Nat /\ q[0] = 1 /\ DOMAIN o = 1..Len(o)
  BY <1>1, RunsTypes, TypedString
<1>3. B \in SUBSET DOMAIN o
  BY <1>1, <1>2, RunsTypes DEF Starts
<1>4. ASSUME o # <<>> PROVE 1 \in B
  <2>1. Len(o) # 0
    BY <1>4, EmptySeq
  <2>2. K # 0
    BY <1>1, <1>2, <2>1
  <2>3. 0 \in 0..(K - 1)
    BY <1>2, <2>2
  <2> QED
    BY <1>2, <2>3 DEF Starts
<1>5. ASSUME NEW p \in B
      PROVE  (o[p] \in {0, 1} \/ LengthOk(o, p)) /\ Behind(o, p) \in B \cup {Len(o) + 1}
  <2>1. PICK k \in 0..(K - 1) : p = q[k]
    BY DEF Starts
  <2>2. Fits(o, p) /\ q[k + 1] = Behind(o, p) /\ k + 1 \in 0..K
    BY <1>1, <2>1, RunsTypes
  <2>3. k + 1 = K \/ k + 1 \in 0..(K - 1)
    BY <1>2, <2>2
  <2> QED
    BY <1>1, <2>2, <2>3 DEF Starts, Fits
<1>6. ASSUME NEW p \in B \ {1} PROVE \E a \in B : Behind(o, a) = p
  <2>1. PICK k \in 0..(K - 1) : p = q[k]
    BY DEF Starts
  <2>2. k # 0
    BY <1>2, <1>6, <2>1
  <2>3. k - 1 \in 0..(K - 1) /\ (k - 1) + 1 = k
    BY <1>2, <2>2
  <2>4. q[k] = Behind(o, q[k - 1])
    BY <1>1, <2>3, RunsTypes
  <2> QED
    BY <2>1, <2>3, <2>4 DEF Starts
<1> HIDE DEF B
<1>7. Cuts(o, B)
  BY <1>4, <1>5, <1>6, Zenon DEF Cuts
<1> QED
  BY <1>3, <1>7 DEF B

\* Nothing else does.
LEMMA CutsAreStarts ==
  ASSUME NEW o \in Seq(Nat), NEW K, NEW q, Trace(o, K, q),
         NEW B \in SUBSET DOMAIN o, Cuts(o, B)
  PROVE  B = Starts(K, q)
<1>1. Runs(o, K, q) /\ q[K] = Len(o) + 1
  BY DEF Trace
<1>2. K \in Nat /\ Len(o) \in Nat /\ q[0] = 1 /\ DOMAIN o = 1..Len(o)
  BY <1>1, RunsTypes, TypedString
<1>3. Starts(K, q) \subseteq B
  <2> DEFINE A == {m \in 0..(K - 1) : q[m] \in B}
  <2>1. CASE K = 0
    <3>1. 0..(K - 1) = {}
      BY <2>1
    <3> QED
      BY <3>1 DEF Starts
  <2>2. CASE K # 0
    <3>1. K - 1 \in Nat /\ 0 \in 0..(K - 1)
      BY <1>2, <2>2
    <3>2. 0 \in A
      <4>1. 1 \in 1..Len(o)
        BY <1>1, <1>2, <3>1, RunsTypes
      <4>2. o # <<>>
        BY <1>2, <4>1
      <4> QED
        BY <1>2, <3>1, <4>2 DEF Cuts
    <3>3. ASSUME NEW m \in 0..((K - 1) - 1), m \in A PROVE m + 1 \in A
      <4>1. m \in 0..(K - 1) /\ m + 1 \in 0..(K - 1)
        BY <1>2
      <4>2. q[m + 1] = Behind(o, q[m]) /\ q[m + 1] \in 1..Len(o)
        BY <1>1, <4>1, RunsTypes
      <4>3. q[m + 1] \in B \cup {Len(o) + 1}
        BY <3>3, <4>2 DEF Cuts
      <4>4. q[m + 1] # Len(o) + 1
        BY <1>2, <4>2
      <4> QED
        BY <4>1, <4>3, <4>4
    <3> HIDE DEF A
    <3>4. 0..(K - 1) \subseteq A
      BY <3>1, <3>2, <3>3, InductionUpTo
    <3> QED
      BY <3>4 DEF A, Starts
  <2> QED
    BY <2>1, <2>2
<1>4. B \subseteq Starts(K, q)
  <2> SUFFICES ASSUME B \ Starts(K, q) # {} PROVE FALSE
    OBVIOUS
  <2>1. B \ Starts(K, q) \subseteq Nat
    BY <1>2
  <2>2. PICK p \in B \ Starts(K, q) : \A a \in B \ Starts(K, q) : p <= a
    BY <2>1, LeastElement
  <2>3. p \in 1..Len(o)
    BY <1>2
  <2>4. K # 0
    BY <1>1, <1>2, <2>3
  <2>5. 0 \in 0..(K - 1)
    BY <1>2, <2>4
  <2>6. p # 1
    BY <1>2, <2>2, <2>5 DEF Starts
  <2>7. PICK a \in B : Behind(o, a) = p
    BY <2>2, <2>6 DEF Cuts
  <2>8. a \in 1..Len(o) /\ Fits(o, a)
    BY <1>2 DEF Cuts, Fits
  <2>9. a < p
    BY <2>7, <2>8, BehindProperties
  <2>10. a \in Starts(K, q)
    BY <2>2, <2>3, <2>8, <2>9
  <2>11. PICK k \in 0..(K - 1) : a = q[k]
    BY <2>10 DEF Starts
  <2>12. q[k + 1] = p /\ k + 1 \in 0..K
    BY <1>1, <2>7, <2>11, RunsTypes
  <2>13. k + 1 = K \/ k + 1 \in 0..(K - 1)
    BY <1>2, <2>12
  <2>14. k + 1 # K
    BY <1>1, <1>2, <2>3, <2>12
  <2> QED
    BY <2>2, <2>12, <2>13, <2>14 DEF Starts
<1> QED
  BY <1>3, <1>4

-----------------------------------------------------------------------------
(***************************************************************************)
(* All options.                                                            *)
(***************************************************************************)
\* A timestamp has a length octet.
LEMMA StampEnds ==
  ASSUME NEW o \in Seq(Nat), NEW p \in 1..Len(o), Fits(o, p), o[p] = 8
  PROVE  Behind(o, p) = p + o[p + 1] /\ o[p + 1] \in Nat
<1>1. o[p] \notin {0, 1}
  OBVIOUS
<1> QED
  BY <1>1, BehindProperties, Zenon

\* What is not compared of an option is the value of its timestamp.
LEMMA StampsAreInside ==
  ASSUME NEW o \in Seq(Nat), NEW K, NEW q, Trace(o, K, q),
         NEW k \in 0..(K - 1), NEW i \in q[k]..(q[k + 1] - 1)
  PROVE  i \in Stamps(o, Starts(K, q)) <=> o[q[k]] = 8 /\ i >= q[k] + 2
<1>1. Runs(o, K, q) /\ q[K] = Len(o) + 1
  BY DEF Trace
<1>2. /\ K \in Nat /\ Len(o) \in Nat /\ DOMAIN o = 1..Len(o)
      /\ k \in 0..K /\ k + 1 \in 0..K /\ q[k] \in Nat /\ q[k + 1] \in Nat
      /\ q[k] \in 1..Len(o) /\ Fits(o, q[k]) /\ q[k + 1] = Behind(o, q[k])
      /\ q[k + 1] <= Len(o) + 1
  BY <1>1, RunsTypes, TypedString
<1>3. o[q[k]] = 8 => q[k + 1] = q[k] + o[q[k] + 1] /\ o[q[k] + 1] \in Nat
  BY <1>2, StampEnds, Zenon
<1>4. ASSUME o[q[k]] = 8, i >= q[k] + 2
      PROVE  i \in Stamps(o, Starts(K, q))
  <2>1. i \in DOMAIN o /\ i \in q[k] + 2..q[k] + o[q[k] + 1] - 1
    <3>1. i \in 1..Len(o) /\ i \in q[k] + 2..q[k + 1] - 1
      BY <1>2, <1>4
    <3>2. q[k + 1] = q[k] + o[q[k] + 1]
      BY <1>3, <1>4
    <3>3. i \in DOMAIN o
      BY <1>2, <3>1, Zenon
    <3>4. \A a, b \in Nat : (a + b) - 1 = a + b - 1
      OBVIOUS
    <3>5. q[k] \in Nat /\ o[q[k] + 1] \in Nat
      BY <1>2, <1>3, <1>4
    <3>6. q[k + 1] - 1 = q[k] + o[q[k] + 1] - 1
      BY <3>2, <3>4, <3>5, Zenon
    <3> QED
      BY <3>1, <3>3, <3>6, Zenon
  <2>2. q[k] \in Starts(K, q)
    BY DEF Starts
  <2> QED
    BY <1>4, <2>1, <2>2 DEF Stamps
<1>5. ASSUME i \in Stamps(o, Starts(K, q))
      PROVE  o[q[k]] = 8 /\ i >= q[k] + 2
  <2>1. PICK p \in Starts(K, q) : o[p] = 8 /\ i \in p + 2..p + o[p + 1] - 1
    BY <1>5 DEF Stamps
  <2>2. PICK j \in 0..(K - 1) : p = q[j]
    BY <2>1 DEF Starts
  <2>3. /\ j \in 0..K /\ j + 1 \in 0..K /\ q[j] \in Nat /\ q[j + 1] \in Nat
        /\ q[j] \in 1..Len(o) /\ Fits(o, q[j]) /\ q[j + 1] = Behind(o, q[j])
    BY <1>1, RunsTypes
  <2>4. q[j + 1] = q[j] + o[q[j] + 1] /\ o[q[j] + 1] \in Nat
    BY <2>1, <2>2, <2>3, StampEnds, Zenon
  <2>5. q[j] + 2 <= i /\ i <= q[j + 1] - 1 /\ q[k] <= i /\ i <= q[k + 1] - 1 /\ i \in Int
    <3>1. i \in q[j] + 2..q[j + 1] - 1
      <4>1. i \in q[j] + 2..q[j] + o[q[j] + 1] - 1
        BY <2>1, <2>2
      <4>2. q[j + 1] = q[j] + o[q[j] + 1]
        BY <2>4
      <4>3. \A a, b \in Nat : (a + b) - 1 = a + b - 1
        OBVIOUS
      <4>4. q[j + 1] - 1 = q[j] + o[q[j] + 1] - 1
        BY <2>3, <2>4, <4>2, <4>3, Zenon
      <4> QED
        BY <4>1, <4>4, Zenon
    <3> QED
      BY <1>2, <2>3, <3>1
  <2>6. \A a, b \in Nat : b <= i /\ i <= a - 1 => ~(a <= b)
    BY <2>5
  <2>7. ~(j + 1 <= k) /\ ~(k + 1 <= j)
    <3>1. ~(q[j + 1] <= q[k]) /\ ~(q[k + 1] <= q[j])
      <4>1. q[j] <= i
        BY <2>3, <2>5
      <4> QED
        BY <1>2, <2>3, <2>5, <2>6, <4>1, Zenon
    <3>2. ASSUME j + 1 <= k PROVE q[j + 1] <= q[k]
      <4>1. j + 1 \in 0..k
        BY <1>2, <2>3, <3>2
      <4> QED
        BY <1>1, <1>2, <4>1, Increasing
    <3>3. ASSUME k + 1 <= j PROVE q[k + 1] <= q[j]
      <4>1. k + 1 \in 0..j
        BY <1>2, <2>3, <3>3
      <4> QED
        BY <1>1, <2>3, <4>1, Increasing
    <3> QED
      BY <3>1, <3>2, <3>3, Zenon
  <2>8. j = k
    BY <1>2, <2>3, <2>7
  <2> QED
    BY <2>1, <2>2, <2>5, <2>8
<1> QED
  BY <1>4, <1>5

\* Equal observations are of equal options ...
LEMMA OptionsPass ==
  ASSUME NEW o \in Seq(Nat), NEW w \in Seq(Nat), TimestampLen \in Nat,
         Options(o) = Options(w), Malformed \notin Range(Options(o))
  PROVE  SameOptions(o, w)
<1>1. PICK K, q : Trace(o, K, q) /\ Listed(Options(o), o, K, q)
  BY TraceExists
<1>2. PICK M, r : Trace(w, M, r) /\ Listed(Options(w), w, M, r)
  BY TraceExists
<1>3. /\ M = K /\ Len(Options(o)) = K
      /\ \A k \in 1..K : Option(o, q[k - 1]) = Option(w, r[k - 1])
  BY <1>1, <1>2 DEF Listed
<1>4. Runs(o, K, q) /\ Runs(w, K, r) /\ q[K] = Len(o) + 1 /\ r[K] = Len(w) + 1
  BY <1>1, <1>2, <1>3 DEF Trace
<1>5. K \in Nat /\ Len(o) \in Nat /\ Len(w) \in Nat /\ q[0] = 1 /\ r[0] = 1
  BY <1>4, RunsTypes
<1> DEFINE Equal(k) == q[k] = r[k] /\ (k < K => o[q[k]] = w[q[k]] /\ SameOption(o, w, q[k]))
           A == {k \in 0..K : Equal(k)}
<1>6. ASSUME NEW k \in 0..K, q[k] = r[k]
      PROVE  Equal(k)
  <2>1. ASSUME k < K PROVE o[q[k]] = w[q[k]] /\ SameOption(o, w, q[k])
    <3>1. k \in 0..(K - 1) /\ k + 1 \in 1..K /\ (k + 1) - 1 = k
      BY <1>5, <2>1
    <3>2. q[k] \in 1..Len(o) /\ Fits(o, q[k])
      BY <1>4, <3>1, RunsTypes
    <3>3. q[k] \in 1..Len(w) /\ Fits(w, q[k])
      BY <1>4, <1>6, <3>1, RunsTypes
    <3>4. Option(o, q[k]) = Option(w, q[k])
      BY <1>3, <1>6, <3>1
    <3> QED
      BY <3>2, <3>3, <3>4, OptionDecides
  <2> QED
    BY <1>6, <2>1
<1>7. 0 \in A
  <2>1. 0 \in 0..K
    BY <1>5
  <2> QED
    BY <1>5, <1>6, <2>1
<1>8. ASSUME NEW k \in 0..(K - 1), k \in A PROVE k + 1 \in A
  <2>1. k + 1 \in 0..K /\ k < K
    BY <1>5
  <2>2. q[k + 1] = Behind(o, q[k]) /\ r[k + 1] = Behind(w, r[k])
    BY <1>4, RunsTypes
  <2>3. q[k + 1] = r[k + 1]
    BY <1>8, <2>1, <2>2 DEF SameOption
  <2> QED
    BY <1>6, <2>1, <2>3
<1>9. 0..K \subseteq A
  <2> HIDE DEF A
  <2> QED
    BY <1>5, <1>7, <1>8, InductionUpTo
<1>10. \A k \in 0..K : Equal(k)
  BY <1>9
<1> HIDE DEF A
<1>11. Len(o) = Len(w)
  <2>1. K \in 0..K
    BY <1>5
  <2> QED
    BY <1>4, <1>5, <1>10, <2>1
<1> DEFINE B == Starts(K, q)
<1>12. B = Starts(K, r)
  <2>1. \A k \in 0..(K - 1) : k \in 0..K
    BY <1>5
  <2> QED
    BY <1>10, <2>1 DEF Starts
<1>13. B \in SUBSET DOMAIN o /\ Cuts(o, B) /\ Cuts(w, B)
  BY <1>1, <1>2, <1>3, <1>12, StartsCut
<1>14. ASSUME NEW i \in DOMAIN o \ Stamps(o, B)
       PROVE  o[i] = w[i]
  <2>1. i \in 1..Len(o)
    BY TypedString
  <2>2. PICK k \in 0..(K - 1) : q[k] <= i /\ i <= q[k + 1] - 1
    BY <1>1, <2>1, SegmentOf
  <2>3. k \in 0..K /\ k < K /\ q[k] \in Nat /\ q[k + 1] \in Nat /\ q[k + 1] = Behind(o, q[k])
    BY <1>4, <1>5, RunsTypes
  <2>4. i \in q[k]..(q[k + 1] - 1)
    BY <2>1, <2>2, <2>3
  <2>5. ~(o[q[k]] = 8 /\ i >= q[k] + 2)
    BY <1>1, <1>14, <2>4, StampsAreInside
  <2>6. SameOption(o, w, q[k])
    BY <1>10, <2>3
  <2> QED
    BY <2>3, <2>4, <2>5, <2>6 DEF SameOption
<1> HIDE DEF B
<1> QED
  BY <1>11, <1>13, <1>14 DEF SameOptions

\* ... and options that are the same are observed to be.
LEMMA OptionsFail ==
  ASSUME NEW o \in Seq(Nat), NEW w \in Seq(Nat), TimestampLen \in Nat, SameOptions(o, w),
         Malformed \notin Range(Options(o)), Malformed \notin Range(Options(w))
  PROVE  Options(o) = Options(w)
<1>1. PICK K, q : Trace(o, K, q) /\ Listed(Options(o), o, K, q)
  BY TraceExists
<1>2. PICK M, r : Trace(w, M, r) /\ Listed(Options(w), w, M, r)
  BY TraceExists
<1>3. PICK B \in SUBSET DOMAIN o : /\ Cuts(o, B) /\ Cuts(w, B) /\ Len(o) = Len(w)
                                   /\ \A i \in DOMAIN o \ Stamps(o, B) : o[i] = w[i]
  BY DEF SameOptions
<1>4. DOMAIN o = 1..Len(o) /\ DOMAIN w = DOMAIN o
  BY <1>3, TypedString
<1>5. B = Starts(K, q) /\ B = Starts(M, r)
  BY <1>1, <1>2, <1>3, <1>4, CutsAreStarts
<1>6. Runs(o, K, q) /\ Runs(w, M, r) /\ q[K] = Len(o) + 1 /\ r[M] = Len(w) + 1
  BY <1>1, <1>2 DEF Trace
<1>7. /\ K \in Nat /\ M \in Nat /\ Len(o) \in Nat /\ Len(w) \in Nat /\ q[0] = 1 /\ r[0] = 1
      /\ \A k \in 0..K : q[k] \in Nat
      /\ \A k \in 0..M : r[k] \in Nat
  BY <1>6, RunsTypes
<1>8. ASSUME NEW k \in 0..K, k \in 0..M, k < K, k < M, q[k] = r[k]
      PROVE  q[k + 1] = r[k + 1] /\ Option(o, q[k]) = Option(w, r[k])
  <2> DEFINE p == q[k]
  <2>1. k \in 0..(K - 1) /\ k \in 0..(M - 1)
    BY <1>7, <1>8
  <2>2. p \in 1..Len(o) /\ Fits(o, p) /\ q[k + 1] = Behind(o, p) /\ q[k + 1] \in Nat /\ p \in Nat
        /\ p < q[k + 1]
    BY <1>6, <1>7, <2>1, RunsTypes
  <2>3. p \in 1..Len(w) /\ Fits(w, p) /\ r[k + 1] = Behind(w, p)
    BY <1>6, <1>8, <2>1, RunsTypes
  <2>4. q[k + 1] <= Len(o) + 1
    BY <1>6, <2>1, RunsTypes
  <2>5. ASSUME NEW i \in p..(q[k + 1] - 1)
        PROVE  o[i] = w[i] \/ (o[p] = 8 /\ i >= p + 2)
    <3>1. i \in DOMAIN o
      BY <1>4, <1>7, <2>2, <2>4
    <3>2. i \in Stamps(o, B) <=> o[p] = 8 /\ i >= p + 2
      BY <1>1, <1>5, <2>1, StampsAreInside
    <3> QED
      BY <1>3, <3>1, <3>2
  <2>6. o[p] = w[p]
    <3>1. p \in p..(q[k + 1] - 1) /\ ~(p >= p + 2)
      BY <2>2
    <3> QED
      BY <2>5, <3>1
  <2>7. Behind(o, p) = Behind(w, p)
    <3>1. CASE o[p] = 0
      BY <1>3, <2>6, <3>1 DEF Behind
    <3>2. CASE o[p] = 1
      BY <2>6, <3>2 DEF Behind
    <3>3. CASE o[p] \notin {0, 1}
      <4>1. Behind(o, p) = p + o[p + 1] /\ o[p + 1] \in Nat /\ o[p + 1] >= 2 /\ Behind(w, p) = p + w[p + 1]
        BY <2>2, <2>3, <2>6, <3>3, BehindProperties
      <4>2. p + 1 \in p..(q[k + 1] - 1) /\ ~(p + 1 >= p + 2)
        <5>1. \A m \in Nat : m >= 2 => p + 1 \in p..((p + m) - 1) /\ ~(p + 1 >= p + 2)
          BY <2>2
        <5>2. q[k + 1] = p + o[p + 1]
          BY <2>2, <4>1
        <5>3. p + 1 \in p..((p + o[p + 1]) - 1) /\ ~(p + 1 >= p + 2)
          BY <4>1, <5>1
        <5> HIDE DEF p
        <5> QED
          BY <5>2, <5>3, Zenon
      <4>3. o[p + 1] = w[p + 1]
        BY <2>5, <4>2
      <4> QED
        BY <4>1, <4>3
    <3> QED
      BY <3>1, <3>2, <3>3
  <2>8. SameOption(o, w, p)
    BY <2>2, <2>5, <2>7 DEF SameOption
  <2>9. Option(o, p) = Option(w, p)
    BY <2>2, <2>3, <2>6, <2>8, OptionDecides
  <2> QED
    BY <1>8, <2>2, <2>3, <2>7, <2>9
<1> DEFINE A == {k \in 0..K : /\ k \in 0..M /\ q[k] = r[k]
                              /\ \A j \in 0..(k - 1) : Option(o, q[j]) = Option(w, r[j])}
<1>9. 0 \in A
  BY <1>7
<1>10. ASSUME NEW k \in 0..(K - 1), k \in A PROVE k + 1 \in A
  <2>1. k \in 0..K /\ k < K /\ k + 1 \in 0..K
    BY <1>7
  <2>2. q[k] \in 1..Len(o) /\ k \in 0..M /\ q[k] = r[k]
    BY <1>6, <1>10, RunsTypes
  <2>3. k # M
    BY <1>3, <1>6, <1>7, <2>2
  <2>4. k < M /\ k + 1 \in 0..M
    BY <1>7, <2>2, <2>3
  <2>5. q[k + 1] = r[k + 1] /\ Option(o, q[k]) = Option(w, r[k])
    BY <1>8, <2>1, <2>2, <2>4
  <2>6. ASSUME NEW j \in 0..((k + 1) - 1) PROVE Option(o, q[j]) = Option(w, r[j])
    <3>1. j = k \/ j \in 0..(k - 1)
      BY <2>1
    <3> QED
      BY <1>10, <2>5, <3>1
  <2> QED
    BY <2>1, <2>4, <2>5, <2>6
<1>11. 0..K \subseteq A
  <2> HIDE DEF A
  <2> QED
    BY <1>7, <1>9, <1>10, InductionUpTo
<1>12. K \in 0..M /\ q[K] = r[K] /\ \A j \in 0..(K - 1) : Option(o, q[j]) = Option(w, r[j])
  <2>1. K \in 0..K
    BY <1>7
  <2> QED
    BY <1>11, <2>1
<1> HIDE DEF A
<1>13. K = M
  <2>1. ASSUME K # M PROVE FALSE
    <3>1. K \in 0..(M - 1)
      BY <1>7, <1>12, <2>1
    <3>2. r[K] \in 1..Len(w)
      BY <1>6, <3>1, RunsTypes
    <3> QED
      BY <1>3, <1>6, <1>7, <1>12, <3>2
  <2> QED
    BY <2>1
<1>14. /\ Options(o) \in Seq(OptionSet) /\ Options(w) \in Seq(OptionSet)
       /\ Len(Options(o)) = K /\ Len(Options(w)) = K
       /\ \A k \in 1..K : Options(o)[k] = Option(o, q[k - 1])
       /\ \A k \in 1..K : Options(w)[k] = Option(w, r[k - 1])
  BY <1>1, <1>2, <1>13 DEF Listed
<1>15. ASSUME NEW k \in 1..K PROVE Options(o)[k] = Options(w)[k]
  <2>1. k - 1 \in 0..(K - 1)
    BY <1>7
  <2> QED
    BY <1>12, <1>14, <2>1
<1> QED
  BY <1>14, <1>15, SeqEqual

-----------------------------------------------------------------------------
(***************************************************************************)
(* Captures.                                                               *)
(***************************************************************************)
\* In a capture without errors the SYNs are the frames that the headers say are.
LEMMA FrameCases ==
  ASSUME NEW f \in Frames, Frame(f) # "error"
  PROVE  /\ f.options \in Seq(Nat)
         /\ Frame(f) = "syn" <=> /\ f.link = "ip" /\ f.tcp
                                 /\ f.flags \cap {"SYN", "ACK"} = {"SYN"}
         /\ Frame(f) = "syn" => Malformed \notin Range(Options(f.options))
<1>1. f.options \in Seq(Nat) /\ f.link \in {"short", "other", "ip"} /\ f.tcp \in BOOLEAN
  BY DEF Frames
<1>2. f.flags \cap {"SYN", "ACK"} = {"SYN"} <=> SynOnly(f)
  BY DEF SynOnly
<1>3. CASE f.link # "ip"
  <2>1. Frame(f) = "none"
    BY <1>1, <1>3 DEF Frame
  <2> QED
    BY <1>1, <1>3, <2>1
<1>4. CASE f.link = "ip"
  <2>1. Frame(f) = tcp_syn(f)
    BY <1>4 DEF Frame
  <2>2. CASE f.tcp /\ SynOnly(f)
    <3>1. tcp_syn(f) = "syn" /\ Malformed \notin Range(Options(f.options))
      BY <2>1, <2>2 DEF tcp_syn
    <3> QED
      BY <1>1, <1>2, <1>4, <2>1, <2>2, <3>1
  <2>3. CASE ~(f.tcp /\ SynOnly(f))
    <3>1. tcp_syn(f) \in {"error", "none"}
      BY <2>3, Zenon DEF tcp_syn
    <3>2. Frame(f) # "syn"
      BY <2>1, <3>1
    <3> QED
      BY <1>1, <1>2, <1>4, <2>3, <3>2
  <2> QED
    BY <2>2, <2>3
<1> QED
  BY <1>3, <1>4

\* What pcap_syns() has observed, if anything.
LEMMA SynsOf ==
  ASSUME NEW c \in Seq(Frames), pcap_syns(c) # <<>>
  PROVE  /\ InitialSyns(c) \in Seq(Frames)
         /\ pcap_syns(c) = [i \in DOMAIN InitialSyns(c) |-> Syn(InitialSyns(c)[i])]
         /\ \A i \in DOMAIN InitialSyns(c) :
              /\ InitialSyns(c)[i].options \in Seq(Nat)
              /\ Malformed \notin Range(Options(InitialSyns(c)[i].options))
<1> DEFINE S == {f \in Range(c) : Frame(f) = "syn"}
           I == {f \in Range(c) : /\ f.link = "ip" /\ f.tcp
                                  /\ f.flags \cap {"SYN", "ACK"} = {"SYN"}}
           x == InitialSyns(c)
<1>1. ~ \E i \in DOMAIN c : Frame(c[i]) = "error"
  BY Zenon DEF pcap_syns
<1>2. \A f \in Range(c) : f \in Frames /\ Frame(f) # "error"
  BY <1>1, LenProperties DEF Range
<1>3. S = I
  BY <1>2, FrameCases
<1>4. x = Keep(c, S)
  BY <1>3, Zenon DEF InitialSyns
<1>5. x \in Seq(Frames) /\ Range(x) = Range(c) \cap S
  BY <1>4, KeepProperties
<1>6. pcap_syns(c) = [i \in DOMAIN x |-> Syn(x[i])]
  BY <1>1, <1>4, Zenon DEF pcap_syns
<1>7. ASSUME NEW i \in DOMAIN x
      PROVE  x[i].options \in Seq(Nat) /\ Malformed \notin Range(Options(x[i].options))
  <2>1. x[i] \in Range(x)
    BY DEF Range
  <2>2. x[i] \in Range(c) /\ Frame(x[i]) = "syn"
    BY <1>5, <2>1
  <2> QED
    BY <1>2, <2>2, FrameCases
<1> QED
  BY <1>5, <1>6, <1>7

\* Nothing is observed of nothing.
LEMMA EmptyCapture == pcap_syns(<<>>) = <<>>
<1> SUFFICES ASSUME pcap_syns(<<>>) # <<>> PROVE FALSE
  OBVIOUS
<1> DEFINE S == {f \in Range(<<>>) : Frame(f) = "syn"}
           x == Keep(<<>>, S)
<1>1. <<>> \in Seq(Frames) /\ Range(<<>>) = {}
  BY EmptySeq DEF Range
<1>2. pcap_syns(<<>>) = [i \in DOMAIN x |-> Syn(x[i])]
  BY Zenon DEF pcap_syns
<1> HIDE DEF S
<1>3. x \in Seq(Frames) /\ Range(x) = {}
  <2>1. x \in Seq(Frames) /\ Range(x) = Range(<<>>) \cap S
    BY <1>1, KeepProperties
  <2> QED
    BY <1>1, <2>1
<1> HIDE DEF x
<1>4. DOMAIN x = {}
  BY <1>3 DEF Range
<1>5. [i \in DOMAIN x |-> Syn(x[i])] = <<>>
  BY <1>4
<1> QED
  BY <1>2, <1>5

\* Captures are observed to be the same, if both are observed at all, exactly
\* if their initial SYNs are.
LEMMA CapturesDecide ==
  ASSUME NEW c \in Seq(Frames), NEW d \in Seq(Frames), TimestampLen \in Nat,
         pcap_syns(c) # <<>>, pcap_syns(d) # <<>>
  PROVE  pcap_syns(c) = pcap_syns(d) <=> SameCapture(c, d)
<1> DEFINE x == InitialSyns(c)
           y == InitialSyns(d)
           s == [i \in DOMAIN x |-> Syn(x[i])]
           t == [i \in DOMAIN y |-> Syn(y[i])]
<1>1. /\ x \in Seq(Frames) /\ pcap_syns(c) = s
      /\ \A i \in DOMAIN x : x[i].options \in Seq(Nat) /\ Malformed \notin Range(Options(x[i].options))
  BY SynsOf
<1>2. /\ y \in Seq(Frames) /\ pcap_syns(d) = t
      /\ \A i \in DOMAIN y : y[i].options \in Seq(Nat) /\ Malformed \notin Range(Options(y[i].options))
  BY SynsOf
<1> HIDE DEF x, y
<1>3. Len(x) \in Nat /\ DOMAIN x = 1..Len(x) /\ Len(y) \in Nat /\ DOMAIN y = 1..Len(y)
  BY <1>1, <1>2, LenProperties
<1> DEFINE Alike(i) == /\ x[i].ip = y[i].ip /\ x[i].stack = y[i].stack /\ x[i].flags = y[i].flags
                       /\ SameOptions(x[i].options, y[i].options)
<1>4. ASSUME NEW i \in DOMAIN x, i \in DOMAIN y
      PROVE  Syn(x[i]) = Syn(y[i]) <=> Alike(i)
  <2>1. Options(x[i].options) = Options(y[i].options) <=> SameOptions(x[i].options, y[i].options)
    BY <1>1, <1>2, <1>4, OptionsPass, OptionsFail
  <2> QED
    BY <2>1 DEF Syn
<1>5. ASSUME s = t PROVE Len(x) = Len(y) /\ \A i \in DOMAIN x : Alike(i)
  <2>1. DOMAIN x = DOMAIN y
    <3>1. DOMAIN s = DOMAIN x /\ DOMAIN t = DOMAIN y
      OBVIOUS
    <3> QED
      BY <1>5, <3>1, Zenon
  <2>2. ASSUME NEW i \in DOMAIN x PROVE Alike(i)
    <3>1. s[i] = Syn(x[i]) /\ t[i] = Syn(y[i])
      BY <2>1
    <3> QED
      BY <1>4, <1>5, <2>1, <3>1, Zenon
  <2>3. Len(x) = Len(y)
    BY <1>1, <1>2, <2>1, SameDomain
  <2> QED
    BY <2>2, <2>3, Zenon
<1>6. ASSUME Len(x) = Len(y), \A i \in DOMAIN x : Alike(i) PROVE s = t
  <2>1. DOMAIN x = DOMAIN y
    BY <1>3, <1>6
  <2>2. \A i \in DOMAIN x : Syn(x[i]) = Syn(y[i])
    BY <1>4, <1>6, <2>1, Zenon
  <2> HIDE DEF Alike
  <2> QED
    BY <2>1, <2>2
<1>7. SameCapture(c, d) <=> Len(x) = Len(y) /\ \A i \in DOMAIN x : Alike(i)
  BY Zenon DEF SameCapture, x, y
<1> QED
  BY <1>1, <1>2, <1>5, <1>6, <1>7, Zenon

-----------------------------------------------------------------------------
(***************************************************************************)
(* The inductive invariant.                                                *)
(***************************************************************************)
WiresFit ==
  /\ DOMAIN wire = Sides
  /\ \A s \in Sides : /\ DOMAIN wire[s] = Layers
                      /\ wire[s]["tls"] \in Seq(Hello) /\ wire[s]["tcp"] \in Seq(Frames)

\* A document has nothing, or what the parsers make of the wire.
DocumentsAreOfWires ==
  /\ DOMAIN document = Sides
  /\ \A s \in Sides : /\ DOMAIN document[s] = Layers
                      /\ document[s]["tls"] \in {<<>>, Parsed(s)}
                      /\ document[s]["tcp"] \in {<<>>, pcap_syns(wire[s]["tcp"])}
                      /\ document[s]["http"] \in {<<>>, wire[s]["http"]}

VerdictIsOfDocuments ==
  /\ verdict = "" \/ verdict = compare(document["a"], document["b"], scope)
  /\ stage # "decided" => verdict = ""

\* The library sends a hello of the settings.
Sent == \E r \in Reserved : wire["b"]["tls"] = <<Emission(settings[1], patched, r)>>

\* What is known of the way from the client's hello to the library's.
SettingsAreOfHello ==
  /\ stage \in {"hello", "mirror", "connect"} => document["b"]["tls"] = <<>>
  /\ stage \in {"mirror", "connect", "captured"} => document["a"]["tls"] # <<>>
  /\ stage \in {"hello", "mirror", "files"} => settings = <<>>
  /\ stage \in {"connect", "captured"} => settings # <<>>
  /\ settings = <<>> => reported = {}
  /\ settings # <<>> =>
       /\ document["a"]["tls"] # <<>>
       /\ settings = <<mirror(document["a"]["tls"][1], patched)>>
       /\ reported = limitations(document["a"]["tls"][1], patched)
       /\ stage \in {"captured", "decided"} => Sent
       /\ stage = "decided" => scope = {"tls"}

EvidenceInv ==
  TypeOK /\ WiresFit /\ DocumentsAreOfWires /\ VerdictIsOfDocuments /\ SettingsAreOfHello

-----------------------------------------------------------------------------
\* What an assignment to one layer of one side does.
LEMMA Put ==
  ASSUME NEW w, DOMAIN w = Sides, \A t \in Sides : DOMAIN w[t] = Layers,
         NEW s \in Sides, NEW l \in Layers, NEW v, NEW z, z = [w EXCEPT ![s][l] = v]
  PROVE  /\ DOMAIN z = Sides /\ \A t \in Sides : DOMAIN z[t] = Layers
         /\ z[s][l] = v
         /\ \A m \in Layers : m # l => z[s][m] = w[s][m]
         /\ \A t \in Sides : t # s => z[t] = w[t]
<1>1. DOMAIN z = Sides /\ \A t \in Sides : t # s => z[t] = w[t]
  OBVIOUS
<1>2. z[s] = [w[s] EXCEPT ![l] = v]
  OBVIOUS
<1>3. z[s][l] = v /\ DOMAIN z[s] = Layers /\ \A m \in Layers : m # l => z[s][m] = w[s][m]
  BY <1>2
<1> QED
  BY <1>1, <1>3

Seen(s, l) == IF l = "tls" THEN Parsed(s)
              ELSE IF l = "tcp" THEN pcap_syns(wire[s]["tcp"]) ELSE wire[s]["http"]

\* DocumentsAreOfWires, one layer at a time.
LEMMA DocumentsBySeen ==
  DocumentsAreOfWires <=> /\ DOMAIN document = Sides
                          /\ \A s \in Sides : /\ DOMAIN document[s] = Layers
                                              /\ \A l \in Layers : document[s][l] \in {<<>>, Seen(s, l)}
<1>1. \A s : /\ Seen(s, "tls") = Parsed(s) /\ Seen(s, "tcp") = pcap_syns(wire[s]["tcp"])
             /\ Seen(s, "http") = wire[s]["http"]
  BY DEF Seen
<1>2. Layers = {"tls", "tcp", "http"}
  BY DEF Layers
<1> QED
  BY <1>1, <1>2, Zenon DEF DocumentsAreOfWires

\* A command and the gate observe one layer of one side.
LEMMA ObserveKeeps ==
  ASSUME DocumentsAreOfWires, wire' = wire, NEW s \in Sides, NEW l \in Layers,
         document' = [document EXCEPT ![s][l] = Seen(s, l)]
  PROVE  /\ DocumentsAreOfWires'
         /\ document'[s][l] = Seen(s, l)
         /\ \A m \in Layers : m # l => document'[s][m] = document[s][m]
         /\ \A t \in Sides : t # s => document'[t] = document[t]
<1>1. /\ DOMAIN document = Sides
      /\ \A t \in Sides : DOMAIN document[t] = Layers
      /\ \A t \in Sides : \A m \in Layers : document[t][m] \in {<<>>, Seen(t, m)}
  BY DocumentsBySeen
<1>2. /\ DOMAIN document' = Sides /\ \A t \in Sides : DOMAIN document'[t] = Layers
      /\ document'[s][l] = Seen(s, l)
      /\ \A m \in Layers : m # l => document'[s][m] = document[s][m]
      /\ \A t \in Sides : t # s => document'[t] = document[t]
  BY <1>1, Put
<1>3. \A t \in Sides : \A m \in Layers : Seen(t, m)' = Seen(t, m)
  BY DEF Seen, Parsed
<1>4. ASSUME NEW t \in Sides, NEW m \in Layers
      PROVE  document'[t][m] \in {<<>>, Seen(t, m)'}
  <2>1. CASE t = s /\ m = l
    BY <1>2, <1>3, <2>1
  <2>2. CASE t = s /\ m # l
    BY <1>1, <1>2, <1>3, <2>2
  <2>3. CASE t # s
    BY <1>1, <1>2, <1>3, <2>3
  <2> QED
    BY <2>1, <2>2, <2>3
<1>5. DocumentsAreOfWires'
  <2>1. \A t \in Sides : /\ Seen(t, "tls")' = Parsed(t)' /\ Seen(t, "tcp")' = pcap_syns(wire'[t]["tcp"])
                          /\ Seen(t, "http")' = wire'[t]["http"]
    BY DEF Seen
  <2>2. "tls" \in Layers /\ "tcp" \in Layers /\ "http" \in Layers
    BY DEF Layers
  <2> QED
    BY <1>2, <1>4, <2>1, <2>2, Zenon DEF DocumentsAreOfWires
<1> QED
  BY <1>2, <1>5

\* A hello that is observed was on the wire and could be parsed.
LEMMA ParsedTypes ==
  ASSUME WiresFit, NEW s \in Sides, Parsed(s) # <<>>
  PROVE  /\ wire[s]["tls"] # <<>> /\ wire[s]["tls"][1] \in Hello /\ Parsable(wire[s]["tls"][1])
         /\ Parsed(s) = <<TlsHello(wire[s]["tls"][1])>>
         /\ TlsHello(wire[s]["tls"][1]) \in TlsHellos
<1>1. wire[s]["tls"] # <<>> /\ Parsed(s) = parse_hello(wire[s]["tls"][1])
  BY DEF Parsed
<1>2. wire[s]["tls"] \in Seq(Hello)
  BY DEF WiresFit
<1>3. Parsable(wire[s]["tls"][1]) /\ Parsed(s) = <<TlsHello(wire[s]["tls"][1])>>
  BY <1>1, Zenon DEF parse_hello
<1>4. wire[s]["tls"][1] \in Hello
  <2>1. Len(wire[s]["tls"]) \in Nat /\ Len(wire[s]["tls"]) # 0
    BY <1>1, <1>2, EmptySeq, LenProperties
  <2>2. 1 \in 1..Len(wire[s]["tls"])
    BY <2>1
  <2> QED
    BY <1>2, <2>2, ElementOfSeq
<1> QED
  BY <1>1, <1>3, <1>4, ObservationTypes

\* A sequence of one.
LEMMA Singleton ==
  ASSUME NEW E, NEW x \in E
  PROVE  <<x>> \in Seq(E) /\ <<x>> # <<>> /\ <<x>>[1] = x /\ Len(<<x>>) = 1 /\ DOMAIN <<x>> = {1}
OBVIOUS

\* What compare() looks at.
LEMMA CompareCases ==
  ASSUME NEW a, NEW b, NEW layers
  PROVE  /\ compare(a, b, layers) \in {"pass", "fail", "error"}
         /\ compare(a, b, layers) = "pass"
            => /\ layers # {}
               /\ \A l \in layers : l \in DOMAIN a /\ a[l] # <<>> /\ a[l] = b[l]
                                    /\ l \in DOMAIN b /\ b[l] # <<>>
         /\ compare(a, b, layers) = "fail"
            => \E l \in layers : ~(/\ l \in DOMAIN a /\ a[l] # <<>> /\ a[l] = b[l]
                                   /\ l \in DOMAIN b /\ b[l] # <<>>)
BY DEF compare, valid

\* What there is to observe are hellos, of clients or the library, and captures.
LEMMA InitialWires ==
  ASSUME Init
  PROVE  WiresFit
<1>1. CASE Serving
  <2>1. PICK r \in Reserved :
          \/ /\ profile \in Profiles[patched]
             /\ wire = [a |-> [Nothing EXCEPT !["tls"] = <<Emission(profile[1], patched, r)>>],
                        b |-> Nothing]
          \/ \E h \in Clients : wire = [a |-> [Nothing EXCEPT !["tls"] = <<h>>], b |-> Nothing]
    BY <1>1 DEF Serving
  <2>2. \E h \in Hello : wire = [a |-> [Nothing EXCEPT !["tls"] = <<h>>], b |-> Nothing]
    <3>1. CASE /\ profile \in Profiles[patched]
               /\ wire = [a |-> [Nothing EXCEPT !["tls"] = <<Emission(profile[1], patched, r)>>],
                          b |-> Nothing]
      <4>1. patched \in Builds /\ patched \in BOOLEAN /\ r \in Draws
        BY EvidenceAssumption DEF Init
      <4>2. profile \in [1..1 -> Settings]
        BY <3>1, <4>1, EvidenceAssumption
      <4>3. profile[1] \in Settings
        BY <4>2
      <4>4. Emission(profile[1], patched, r) \in Hello
        BY <4>1, <4>3, EmissionProperties
      <4> QED
        BY <3>1, <4>4, Zenon
    <3>2. CASE \E h \in Clients : wire = [a |-> [Nothing EXCEPT !["tls"] = <<h>>], b |-> Nothing]
      BY <3>2, EvidenceAssumption
    <3> QED
      BY <2>1, <3>1, <3>2
  <2>3. PICK h \in Hello : wire = [a |-> [Nothing EXCEPT !["tls"] = <<h>>], b |-> Nothing]
    BY <2>2
  <2>4. <<h>> \in Seq(Hello) /\ <<>> \in Seq(Hello) /\ <<>> \in Seq(Frames)
    BY EmptySeq, Singleton
  <2>5. /\ DOMAIN Nothing = Layers /\ Nothing["tls"] = <<>> /\ Nothing["tcp"] = <<>>
        /\ "tls" \in Layers /\ "tcp" \in Layers /\ "tcp" # "tls"
    BY DEF Nothing, Layers
  <2> DEFINE z == [Nothing EXCEPT !["tls"] = <<h>>]
  <2>6. DOMAIN z = Layers /\ z["tls"] = <<h>> /\ z["tcp"] = <<>>
    BY <2>5
  <2> HIDE DEF z
  <2>7. DOMAIN wire = Sides /\ wire["a"] = z /\ wire["b"] = Nothing
    BY <2>3 DEF z, Sides
  <2> QED
    BY <2>4, <2>5, <2>6, <2>7 DEF WiresFit, Sides
<1>2. CASE Commanding
  <2>1. wire \in Files
    BY <1>2 DEF Commanding
  <2> QED
    BY <2>1, EvidenceAssumption DEF WiresFit
<1> QED
  BY <1>1, <1>2 DEF Init

\* Nothing is observed at first.
LEMMA InvInit == Init => EvidenceInv
<1> SUFFICES ASSUME Init PROVE EvidenceInv
  OBVIOUS
<1>1. /\ patched \in Builds /\ document = [s \in Sides |-> Nothing] /\ settings = <<>>
      /\ reported = {} /\ verdict = "" /\ scope = {} /\ stage \in {"hello", "files"}
  BY DEF Init, Serving, Commanding
<1>2. /\ DOMAIN document = Sides
      /\ \A s \in Sides : /\ document[s] = Nothing /\ DOMAIN document[s] = Layers
                          /\ \A l \in Layers : document[s][l] = <<>>
  BY <1>1 DEF Nothing
<1>3. "tls" \in Layers /\ "tcp" \in Layers /\ "http" \in Layers /\ "a" \in Sides /\ "b" \in Sides
  BY DEF Layers, Sides
<1>4. TypeOK
  <2>1. Len(<<>>) <= 1 /\ DOMAIN settings = {} /\ scope \subseteq Layers
    <3>1. Len(<<>>) <= 1
      OBVIOUS
    <3>2. DOMAIN <<>> = {}
      OBVIOUS
    <3>3. DOMAIN settings = {}
      BY <1>1, <3>2, Zenon
    <3> QED
      BY <1>1, <3>1, <3>3
  <2> QED
    BY <1>1, <1>2, <1>3, <2>1 DEF TypeOK
<1>5. WiresFit
  BY InitialWires
<1>6. DocumentsAreOfWires
  BY <1>2, <1>3 DEF DocumentsAreOfWires
<1>7. VerdictIsOfDocuments
  BY <1>1 DEF VerdictIsOfDocuments
<1>8. SettingsAreOfHello
  BY <1>1, <1>2, <1>3, Zenon DEF SettingsAreOfHello
<1> QED
  BY <1>4, <1>5, <1>6, <1>7, <1>8 DEF EvidenceInv

\* A build is patched or not.
LEMMA BuildIsBoolean ==
  ASSUME TypeOK
  PROVE  patched \in BOOLEAN
BY EvidenceAssumption DEF TypeOK

DocumentsTyped == \A s \in Sides : DOMAIN document[s] = Layers /\ Len(document[s]["tls"]) <= 1

\* A document has at most one hello.
LEMMA DocumentsFit == WiresFit /\ DocumentsAreOfWires => DocumentsTyped
<1> SUFFICES ASSUME WiresFit, DocumentsAreOfWires PROVE DocumentsTyped
  OBVIOUS
<1>1. ASSUME NEW s \in Sides PROVE Len(document[s]["tls"]) <= 1
  <2>1. document[s]["tls"] \in {<<>>, Parsed(s)}
    BY DEF DocumentsAreOfWires
  <2>2. CASE document[s]["tls"] = <<>>
    BY <2>2
  <2>3. CASE Parsed(s) # <<>> /\ document[s]["tls"] = Parsed(s)
    <3>1. Len(Parsed(s)) = 1
      BY <2>3, ParsedTypes, Singleton
    <3> QED
      BY <2>3, <3>1
  <2> QED
    BY <2>1, <2>2, <2>3
<1> QED
  BY <1>1 DEF DocumentsAreOfWires, DocumentsTyped

\* The client's hello is parsed.
LEMMA InvReadHello ==
  ASSUME EvidenceInv, ReadHello
  PROVE  EvidenceInv'
<1>1. /\ stage = "hello" /\ document' = [document EXCEPT !["a"]["tls"] = Seen("a", "tls")]
      /\ stage' = IF Parsed("a") = <<>> THEN "refused" ELSE "mirror"
      /\ UNCHANGED <<patched, wire, profile, settings, reported, verdict, scope>>
  BY DEF ReadHello, Seen
<1>2. "tls" \in Layers /\ "a" \in Sides /\ "b" \in Sides /\ "a" # "b"
  BY DEF Layers, Sides
<1>3. TypeOK /\ WiresFit /\ DocumentsAreOfWires /\ VerdictIsOfDocuments /\ SettingsAreOfHello
  BY DEF EvidenceInv
<1>4. /\ DocumentsAreOfWires' /\ document'["a"]["tls"] = Seen("a", "tls")
      /\ document'["b"] = document["b"]
  BY <1>1, <1>2, <1>3, ObserveKeeps
<1>5. Seen("a", "tls") = Parsed("a")
  BY DEF Seen
<1>6. WiresFit'
  BY <1>1, <1>3 DEF WiresFit
<1>7. DocumentsTyped'
  BY <1>4, <1>6, DocumentsFit, PTL
<1>8. TypeOK'
  BY <1>1, <1>3, <1>7 DEF TypeOK, DocumentsTyped
<1>9. VerdictIsOfDocuments'
  BY <1>1, <1>3, Zenon DEF VerdictIsOfDocuments
<1>10. SettingsAreOfHello'
  <2>1. /\ settings' = <<>> /\ reported' = {} /\ document["b"]["tls"] = <<>>
        /\ stage' \in {"refused", "mirror"} /\ (stage' = "mirror" => document'["a"]["tls"] # <<>>)
    BY <1>1, <1>3, <1>4, <1>5 DEF SettingsAreOfHello
  <2> QED
    BY <1>4, <2>1 DEF SettingsAreOfHello
<1> QED
  BY <1>4, <1>6, <1>8, <1>9, <1>10 DEF EvidenceInv

\* The hello that mirror() is given.
LEMMA HelloIsObserved ==
  ASSUME WiresFit, DocumentsAreOfWires, document["a"]["tls"] # <<>>
  PROVE  /\ document["a"]["tls"][1] \in TlsHellos
         /\ document["a"]["tls"] = <<document["a"]["tls"][1]>>
<1>1. "a" \in Sides
  BY DEF Sides
<1>2. document["a"]["tls"] = Parsed("a") /\ Parsed("a") # <<>>
  BY <1>1 DEF DocumentsAreOfWires
<1>3. PICK h \in TlsHellos : Parsed("a") = <<h>>
  BY <1>1, <1>2, ParsedTypes
<1> QED
  BY <1>2, <1>3

\* mirror() is given what was parsed of it.
LEMMA InvMirror ==
  ASSUME EvidenceInv, Mirror
  PROVE  EvidenceInv'
<1> DEFINE h == document["a"]["tls"][1]
<1>1. /\ stage = "mirror" /\ UNCHANGED <<patched, wire, document, profile, verdict, scope>>
      /\ \/ stage' = "refused" /\ UNCHANGED <<settings, reported>>
         \/ /\ settings' = <<mirror(h, patched)>>
            /\ reported' = limitations(h, patched)
            /\ stage' = "connect"
  BY DEF Mirror
<1>2. TypeOK /\ WiresFit /\ DocumentsAreOfWires /\ VerdictIsOfDocuments /\ SettingsAreOfHello
  BY DEF EvidenceInv
<1>3. /\ document["a"]["tls"] # <<>> /\ document["b"]["tls"] = <<>> /\ settings = <<>> /\ reported = {}
  BY <1>1, <1>2 DEF SettingsAreOfHello
<1>4. h \in TlsHellos /\ patched \in BOOLEAN
  BY <1>2, <1>3, HelloIsObserved, BuildIsBoolean
<1> HIDE DEF h
<1>5. WiresFit' /\ DocumentsAreOfWires'
  BY <1>1, <1>2 DEF WiresFit, DocumentsAreOfWires, Parsed
<1>6. VerdictIsOfDocuments'
  <2>1. verdict = ""
    BY <1>1, <1>2 DEF VerdictIsOfDocuments
  <2> QED
    BY <1>1, <2>1 DEF VerdictIsOfDocuments
<1>7. TypeOK'
  <2> DEFINE c == mirror(h, patched)
  <2>1. /\ c.on \subseteq Switched(patched)
        /\ Range(c.order) = Range(BACKEND_EXTENSIONS(patched))
        /\ Len(c.order) = Len(BACKEND_EXTENSIONS(patched))
    BY <1>4, MirrorTypes
  <2>2. settings' = <<c>> \/ settings' = settings
    BY <1>1
  <2> HIDE DEF c
  <2>3. \A i \in DOMAIN settings' :
          /\ settings'[i].on \subseteq Switched(patched)
          /\ Range(settings'[i].order) = Range(BACKEND_EXTENSIONS(patched))
          /\ Len(settings'[i].order) = Len(BACKEND_EXTENSIONS(patched))
    <3>1. CASE settings' = <<c>>
      <4>1. DOMAIN settings' = {1} /\ settings'[1] = c
        BY <3>1
      <4> QED
        BY <2>1, <4>1, Zenon
    <3>2. CASE settings' = settings
      BY <1>2, <3>2 DEF TypeOK
    <3> QED
      BY <2>2, <3>1, <3>2
  <2> QED
    BY <1>1, <1>2, <2>3 DEF TypeOK
<1>8. SettingsAreOfHello'
  <2>1. CASE stage' = "refused" /\ UNCHANGED <<settings, reported>>
    BY <1>1, <1>3, <2>1 DEF SettingsAreOfHello
  <2>2. CASE /\ settings' = <<mirror(h, patched)>> /\ reported' = limitations(h, patched)
             /\ stage' = "connect"
    <3>1. settings' # <<>>
      BY <2>2
    <3>2. document' = document /\ patched' = patched
      BY <1>1
    <3> QED
      BY <1>3, <2>2, <3>1, <3>2 DEF SettingsAreOfHello, h
  <2> QED
    BY <1>1, <2>1, <2>2
<1> QED
  BY <1>5, <1>6, <1>7, <1>8 DEF EvidenceInv

\* The library sends a hello of its settings, which no document has yet.
LEMMA InvLibraryConnects ==
  ASSUME EvidenceInv, NEW r \in Reserved, LibraryConnects(r)
  PROVE  EvidenceInv'
<1> DEFINE h == document["a"]["tls"][1]
           e == Emission(settings[1], patched, r)
<1>1. /\ stage = "connect" /\ stage' = "captured"
      /\ wire' = [wire EXCEPT !["b"]["tls"] = <<e>>]
      /\ UNCHANGED <<patched, document, profile, settings, reported, verdict, scope>>
  BY DEF LibraryConnects
<1>2. TypeOK /\ WiresFit /\ DocumentsAreOfWires /\ VerdictIsOfDocuments /\ SettingsAreOfHello
  BY DEF EvidenceInv
<1>3. /\ document["a"]["tls"] # <<>> /\ document["b"]["tls"] = <<>>
      /\ settings = <<mirror(h, patched)>> /\ settings # <<>> /\ reported = limitations(h, patched)
  BY <1>1, <1>2 DEF SettingsAreOfHello
<1>4. h \in TlsHellos /\ patched \in BOOLEAN /\ r \in Draws
  BY <1>2, <1>3, HelloIsObserved, BuildIsBoolean, EvidenceAssumption
<1> HIDE DEF h
<1>5. settings[1] \in Settings
  <2>1. settings[1] = mirror(h, patched)
    BY <1>3
  <2> QED
    BY <1>4, <2>1, MirrorTypes
<1>6. e \in Hello
  BY <1>4, <1>5, EmissionProperties
<1> HIDE DEF e
<1>7. <<e>> \in Seq(Hello)
  BY <1>6, Singleton
<1>8. /\ "tls" \in Layers /\ "tcp" \in Layers /\ "http" \in Layers /\ "tls" # "tcp" /\ "tls" # "http"
      /\ "a" \in Sides /\ "b" \in Sides /\ "a" # "b"
      /\ \A s \in Sides : s = "a" \/ s = "b"
  BY DEF Layers, Sides
<1>9. /\ DOMAIN wire' = Sides /\ \A s \in Sides : DOMAIN wire'[s] = Layers
      /\ wire'["b"]["tls"] = <<e>> /\ wire'["b"]["tcp"] = wire["b"]["tcp"]
      /\ wire'["b"]["http"] = wire["b"]["http"] /\ wire'["a"] = wire["a"]
  <2>1. DOMAIN wire = Sides /\ \A s \in Sides : DOMAIN wire[s] = Layers
    BY <1>2 DEF WiresFit
  <2> QED
    BY <1>1, <1>8, <2>1, Put
<1>10. WiresFit'
  BY <1>2, <1>7, <1>8, <1>9, Zenon DEF WiresFit
<1>11. DocumentsAreOfWires'
  <2>1. Parsed("a")' = Parsed("a")
    BY <1>9 DEF Parsed
  <2>2. \A s \in Sides : /\ wire'[s]["tcp"] = wire[s]["tcp"] /\ wire'[s]["http"] = wire[s]["http"]
                         /\ document[s]["tls"] \in {<<>>, Parsed(s)'}
    <3>1. document["a"]["tls"] \in {<<>>, Parsed("a")'}
      BY <1>2, <1>8, <2>1 DEF DocumentsAreOfWires
    <3>2. document["b"]["tls"] \in {<<>>, Parsed("b")'}
      BY <1>3
    <3> QED
      BY <1>8, <1>9, <3>1, <3>2, Zenon
  <2> QED
    BY <1>1, <1>2, <2>2, Zenon DEF DocumentsAreOfWires
<1>12. VerdictIsOfDocuments'
  <2>1. verdict = ""
    BY <1>1, <1>2 DEF VerdictIsOfDocuments
  <2> QED
    BY <1>1, <2>1 DEF VerdictIsOfDocuments
<1>13. TypeOK'
  BY <1>1, <1>2 DEF TypeOK
<1>14. SettingsAreOfHello'
  <2>1. Sent'
    BY <1>1, <1>9 DEF Sent, e
  <2> QED
    BY <1>1, <1>3, <2>1 DEF SettingsAreOfHello, h
<1> QED
  BY <1>10, <1>11, <1>12, <1>13, <1>14 DEF EvidenceInv

\* The library's hello is parsed, and compared.
LEMMA InvGate ==
  ASSUME EvidenceInv, Gate
  PROVE  EvidenceInv'
<1>1. /\ stage = "captured" /\ document' = [document EXCEPT !["b"]["tls"] = Seen("b", "tls")]
      /\ \/ stage' = "refused" /\ UNCHANGED <<verdict, scope>>
         \/ /\ scope' = {"tls"} /\ stage' = "decided"
            /\ verdict' = compare(document'["a"], document'["b"], scope')
      /\ UNCHANGED <<patched, wire, profile, settings, reported>>
  BY DEF Gate, Seen
<1>2. TypeOK /\ WiresFit /\ DocumentsAreOfWires /\ VerdictIsOfDocuments /\ SettingsAreOfHello
  BY DEF EvidenceInv
<1>3. "tls" \in Layers /\ "a" \in Sides /\ "b" \in Sides /\ "a" # "b"
  BY DEF Layers, Sides
<1>4. DocumentsAreOfWires' /\ document'["a"] = document["a"]
  BY <1>1, <1>2, <1>3, ObserveKeeps
<1>5. WiresFit'
  BY <1>1, <1>2 DEF WiresFit
<1>6. DocumentsTyped'
  BY <1>4, <1>5, DocumentsFit, PTL
<1>7. verdict' \in {"", "pass", "fail", "error"} /\ scope' \subseteq Layers
  <2>1. CASE UNCHANGED <<verdict, scope>>
    BY <1>2, <2>1 DEF TypeOK
  <2>2. CASE scope' = {"tls"} /\ verdict' = compare(document'["a"], document'["b"], scope')
    <3>1. verdict' \in {"pass", "fail", "error"}
      BY <2>2, CompareCases
    <3> QED
      BY <1>3, <2>2, <3>1
  <2> QED
    BY <1>1, <2>1, <2>2
<1>8. TypeOK'
  BY <1>1, <1>2, <1>6, <1>7 DEF TypeOK, DocumentsTyped
<1>9. VerdictIsOfDocuments'
  <2>1. verdict = ""
    BY <1>1, <1>2 DEF VerdictIsOfDocuments
  <2> QED
    BY <1>1, <2>1, Zenon DEF VerdictIsOfDocuments
<1>10. SettingsAreOfHello'
  <2>1. /\ settings # <<>> /\ document["a"]["tls"] # <<>> /\ Sent
        /\ settings = <<mirror(document["a"]["tls"][1], patched)>>
        /\ reported = limitations(document["a"]["tls"][1], patched)
    BY <1>1, <1>2 DEF SettingsAreOfHello
  <2>2. Sent'
    BY <1>1, <2>1 DEF Sent
  <2>3. stage' \in {"refused", "decided"} /\ (stage' = "decided" => scope' = {"tls"})
    BY <1>1
  <2> QED
    BY <1>1, <1>4, <2>1, <2>2, <2>3 DEF SettingsAreOfHello
<1> QED
  BY <1>4, <1>5, <1>8, <1>9, <1>10 DEF EvidenceInv

\* The commands inspect.
LEMMA InvInspect ==
  ASSUME EvidenceInv, NEW u \in Sides, InspectHello(u) \/ InspectPcap(u) \/ LabObserves(u)
  PROVE  EvidenceInv'
<1>1. /\ stage = "files" /\ UNCHANGED <<patched, wire, profile, settings, reported, verdict, scope, stage>>
      /\ \E l \in Layers : document' = [document EXCEPT ![u][l] = Seen(u, l)]
  <2>1. "tls" \in Layers /\ "tcp" \in Layers /\ "http" \in Layers
    BY DEF Layers
  <2>2. CASE InspectHello(u)
    BY <2>1, <2>2 DEF InspectHello, Seen
  <2>3. CASE InspectPcap(u)
    BY <2>1, <2>3 DEF InspectPcap, Seen
  <2>4. CASE LabObserves(u)
    BY <2>1, <2>4 DEF LabObserves, Seen
  <2> QED
    BY <2>2, <2>3, <2>4
<1>2. TypeOK /\ WiresFit /\ DocumentsAreOfWires /\ VerdictIsOfDocuments /\ SettingsAreOfHello
  BY DEF EvidenceInv
<1>3. PICK l \in Layers : document' = [document EXCEPT ![u][l] = Seen(u, l)]
  BY <1>1
<1>4. DocumentsAreOfWires'
  BY <1>1, <1>2, <1>3, ObserveKeeps
<1>5. WiresFit'
  BY <1>1, <1>2 DEF WiresFit
<1>6. DocumentsTyped'
  BY <1>4, <1>5, DocumentsFit, PTL
<1>7. TypeOK'
  BY <1>1, <1>2, <1>6 DEF TypeOK, DocumentsTyped
<1>8. VerdictIsOfDocuments'
  BY <1>1, <1>2 DEF VerdictIsOfDocuments
<1>9. SettingsAreOfHello'
  <2>1. settings = <<>> /\ reported = {}
    BY <1>1, <1>2 DEF SettingsAreOfHello
  <2> QED
    BY <1>1, <2>1 DEF SettingsAreOfHello
<1> QED
  BY <1>4, <1>5, <1>7, <1>8, <1>9 DEF EvidenceInv

\* The command compares what there is.
LEMMA InvCompare ==
  ASSUME EvidenceInv, NEW layers \in Scopes, Compare(layers)
  PROVE  EvidenceInv'
<1>1. /\ stage = "files" /\ stage' = "decided" /\ scope' = layers
      /\ verdict' = compare(document["a"], document["b"], layers)
      /\ UNCHANGED <<patched, wire, document, profile, settings, reported>>
  BY DEF Compare
<1>2. TypeOK /\ WiresFit /\ DocumentsAreOfWires /\ VerdictIsOfDocuments /\ SettingsAreOfHello
  BY DEF EvidenceInv
<1>3. WiresFit' /\ DocumentsAreOfWires'
  BY <1>1, <1>2 DEF WiresFit, DocumentsAreOfWires, Parsed
<1>4. VerdictIsOfDocuments'
  BY <1>1, Zenon DEF VerdictIsOfDocuments
<1>5. TypeOK'
  <2>1. verdict' \in {"pass", "fail", "error"}
    BY <1>1, CompareCases
  <2>2. scope' \subseteq Layers
    BY <1>1, EvidenceAssumption
  <2> QED
    BY <1>1, <1>2, <2>1, <2>2 DEF TypeOK
<1>6. SettingsAreOfHello'
  <2>1. settings = <<>> /\ reported = {}
    BY <1>1, <1>2 DEF SettingsAreOfHello
  <2> QED
    BY <1>1, <2>1 DEF SettingsAreOfHello
<1> QED
  BY <1>3, <1>4, <1>5, <1>6 DEF EvidenceInv

\* Every step keeps the invariant.
LEMMA InvNext == EvidenceInv /\ [Next]_vars => EvidenceInv'
<1> SUFFICES ASSUME EvidenceInv, [Next]_vars PROVE EvidenceInv'
  OBVIOUS
<1>1. CASE ReadHello
  BY <1>1, InvReadHello
<1>2. CASE Mirror
  BY <1>2, InvMirror
<1>3. CASE Gate
  BY <1>3, InvGate
<1>4. CASE \E r \in Reserved : LibraryConnects(r)
  BY <1>4, InvLibraryConnects
<1>5. CASE \E s \in Sides : InspectHello(s) \/ InspectPcap(s) \/ LabObserves(s)
  BY <1>5, InvInspect
<1>6. CASE \E layers \in Scopes : Compare(layers)
  BY <1>6, InvCompare
<1>7. CASE UNCHANGED vars
  <2>1. UNCHANGED <<patched, wire, document, profile, settings, reported, verdict, scope, stage>>
    BY <1>7 DEF vars
  <2>2. TypeOK /\ WiresFit /\ DocumentsAreOfWires /\ VerdictIsOfDocuments /\ SettingsAreOfHello
    BY DEF EvidenceInv
  <2>3. TypeOK'
    BY <2>1, <2>2 DEF TypeOK
  <2>4. WiresFit' /\ DocumentsAreOfWires'
    BY <2>1, <2>2 DEF WiresFit, DocumentsAreOfWires, Parsed
  <2>5. VerdictIsOfDocuments'
    BY <2>1, <2>2 DEF VerdictIsOfDocuments
  <2>6. SettingsAreOfHello'
    BY <2>1, <2>2 DEF SettingsAreOfHello, Sent
  <2> QED
    BY <2>3, <2>4, <2>5, <2>6 DEF EvidenceInv
<1> QED
  BY <1>1, <1>2, <1>3, <1>4, <1>5, <1>6, <1>7 DEF Next

\* EvidenceInv holds in every state.
THEOREM Invariance == Spec => []EvidenceInv
<1> QED
  BY InvInit, InvNext, PTL DEF Spec

-----------------------------------------------------------------------------
\* Two observations of a layer are equal exactly if the wires were the same.
LEMMA LayersDecide ==
  ASSUME EvidenceInv, NEW l \in Layers, Observed(l)
  PROVE  document["a"][l] = document["b"][l] <=> Same(l)
<1>1. WiresFit /\ DocumentsAreOfWires /\ "a" \in Sides /\ "b" \in Sides
  BY DEF EvidenceInv, Sides
<1>2. document["a"][l] # <<>> /\ document["b"][l] # <<>>
  BY <1>1 DEF Observed
<1>3. CASE l = "tls"
  <2>1. /\ document["a"][l] = Parsed("a") /\ document["b"][l] = Parsed("b")
        /\ Parsed("a") # <<>> /\ Parsed("b") # <<>>
    BY <1>1, <1>2, <1>3 DEF DocumentsAreOfWires
  <2> DEFINE g == wire["a"]["tls"][1]
             h == wire["b"]["tls"][1]
  <2>2. /\ wire["a"]["tls"] # <<>> /\ g \in Hello /\ Parsable(g) /\ Parsed("a") = <<TlsHello(g)>>
        /\ wire["b"]["tls"] # <<>> /\ h \in Hello /\ Parsable(h) /\ Parsed("b") = <<TlsHello(h)>>
    BY <1>1, <2>1, ParsedTypes
  <2>3. Same(l) <=> SameHello(g, h)
    BY <1>3, <2>2, Zenon DEF Same
  <2> HIDE DEF g, h
  <2>4. TlsHello(g) = TlsHello(h) <=> SameHello(g, h)
    BY <2>2, ObservedEqualIsSame, SameIsObservedEqual
  <2>5. <<TlsHello(g)>> = <<TlsHello(h)>> <=> TlsHello(g) = TlsHello(h)
    OBVIOUS
  <2> QED
    BY <2>1, <2>2, <2>3, <2>4, <2>5, Zenon
<1>4. CASE l = "tcp"
  <2> DEFINE c == wire["a"]["tcp"]
             d == wire["b"]["tcp"]
  <2>1. /\ document["a"][l] = pcap_syns(c) /\ document["b"][l] = pcap_syns(d)
        /\ pcap_syns(c) # <<>> /\ pcap_syns(d) # <<>>
    BY <1>1, <1>2, <1>4 DEF DocumentsAreOfWires
  <2>2. c \in Seq(Frames) /\ d \in Seq(Frames) /\ TimestampLen \in Nat
    BY <1>1, EvidenceAssumption DEF WiresFit
  <2>3. Same(l) <=> c # <<>> /\ d # <<>> /\ SameCapture(c, d)
    <3>1. l # "tls"
      BY <1>4
    <3> QED
      BY <1>4, <3>1 DEF Same
  <2> HIDE DEF c, d
  <2>4. c # <<>> /\ d # <<>>
    BY <2>1, EmptyCapture
  <2> QED
    BY <2>1, <2>2, <2>3, <2>4, CapturesDecide
<1>5. CASE l = "http"
  <2>1. document["a"][l] = wire["a"]["http"] /\ document["b"][l] = wire["b"]["http"]
    BY <1>1, <1>2, <1>5 DEF DocumentsAreOfWires
  <2>2. Same(l) <=> wire["a"]["http"] # <<>> /\ wire["b"]["http"] # <<>> /\ wire["a"]["http"] = wire["b"]["http"]
    <3>1. l # "tls" /\ l # "tcp"
      BY <1>5
    <3> QED
      BY <1>5, <3>1 DEF Same
  <2> QED
    BY <1>2, <2>1, <2>2
<1> QED
  BY <1>3, <1>4, <1>5 DEF Layers

\* What TypeOK says of Evidence holds in every state: in particular the library
\* is given each of its extensions exactly once.
THEOREM TypeCorrect == Spec => []TypeOK
<1>1. EvidenceInv => TypeOK
  BY DEF EvidenceInv
<1> QED
  BY <1>1, Invariance, PTL

\* The verdict of compare() is about the wires: for whatever hellos and
\* captures there may be, it passes only what is the same in all that Same
\* names, which is not the session id, and fails only what was not observed or
\* is not the same.
THEOREM VerdictIsAboutTheWire == Spec => []PassIsEquivalence
<1>1. EvidenceInv => PassIsEquivalence
  <2> SUFFICES ASSUME EvidenceInv PROVE PassIsEquivalence
    OBVIOUS
  <2>1. /\ verdict = "" \/ verdict = compare(document["a"], document["b"], scope)
        /\ scope \subseteq Layers /\ "" # "pass" /\ "" # "fail"
        /\ \A s \in Sides : DOMAIN document[s] = Layers
        /\ "a" \in Sides /\ "b" \in Sides
        /\ \A s \in Sides : s = "a" \/ s = "b"
    BY DEF EvidenceInv, TypeOK, VerdictIsOfDocuments, Sides
  <2>2. ASSUME verdict = "pass" PROVE scope # {} /\ \A l \in scope : Same(l)
    <3>1. /\ scope # {}
          /\ \A l \in scope : /\ document["a"][l] # <<>> /\ document["b"][l] # <<>>
                              /\ document["a"][l] = document["b"][l]
      BY <2>1, <2>2, CompareCases
    <3>2. ASSUME NEW l \in scope PROVE Same(l)
      <4>1. l \in Layers
        BY <2>1
      <4>2. Observed(l)
        BY <2>1, <3>1 DEF Observed
      <4> QED
        BY <3>1, <4>1, <4>2, LayersDecide
    <3> QED
      BY <3>1, <3>2
  <2>3. ASSUME verdict = "fail" PROVE \E l \in scope : ~Observed(l) \/ ~Same(l)
    <3>1. PICK l \in scope : ~(/\ l \in DOMAIN document["a"] /\ document["a"][l] # <<>>
                               /\ document["a"][l] = document["b"][l]
                               /\ l \in DOMAIN document["b"] /\ document["b"][l] # <<>>)
      BY <2>1, <2>3, CompareCases
    <3>2. l \in Layers
      BY <2>1
    <3>3. Observed(l) => document["a"][l] # <<>> /\ document["b"][l] # <<>>
      BY <2>1 DEF Observed
    <3> QED
      BY <2>1, <3>1, <3>2, <3>3, LayersDecide
  <2> QED
    BY <2>2, <2>3 DEF PassIsEquivalence
<1> QED
  BY <1>1, Invariance, PTL

\* What mirror() leaves out is always a difference of the hello that the
\* library sends, so the gate never lets it through: whatever the library knows,
\* whatever it draws, for every hello.
THEOREM LimitationsAreDifferences == Spec => []LimitationsAreVisible
<1>1. EvidenceInv => LimitationsAreVisible
  <2> SUFFICES ASSUME EvidenceInv, verdict = "pass", reported # {} PROVE FALSE
    BY DEF LimitationsAreVisible
  <2> DEFINE h == document["a"]["tls"][1]
  <2>1. TypeOK /\ WiresFit /\ DocumentsAreOfWires /\ VerdictIsOfDocuments /\ SettingsAreOfHello
    BY DEF EvidenceInv
  <2>2. /\ stage = "decided" /\ verdict = compare(document["a"], document["b"], scope)
    BY <2>1 DEF VerdictIsOfDocuments
  <2>3. /\ settings # <<>> /\ document["a"]["tls"] # <<>> /\ Sent /\ scope = {"tls"}
        /\ settings = <<mirror(h, patched)>> /\ reported = limitations(h, patched)
    BY <2>1, <2>2 DEF SettingsAreOfHello
  <2>4. /\ h \in TlsHellos /\ patched \in BOOLEAN /\ document["a"]["tls"] = <<h>>
    BY <2>1, <2>3, HelloIsObserved, BuildIsBoolean
  <2>5. PICK r \in Reserved : wire["b"]["tls"] = <<Emission(settings[1], patched, r)>>
    BY <2>3 DEF Sent
  <2>6. r \in Draws /\ SCSV \notin Ciphers
    BY EvidenceAssumption
  <2>7. document["b"]["tls"] # <<>> /\ document["b"]["tls"] = <<h>>
    <3>1. compare(document["a"], document["b"], scope) = "pass" /\ "tls" \in scope
      BY <2>2, <2>3
    <3>2. document["a"]["tls"] = document["b"]["tls"]
      BY <3>1, CompareCases
    <3> QED
      BY <2>3, <2>4, <3>2
  <2>8. "b" \in Sides
    BY DEF Sides
  <2>9. Parsed("b") # <<>> /\ document["b"]["tls"] = Parsed("b")
    BY <2>1, <2>7, <2>8 DEF DocumentsAreOfWires
  <2>10. Parsed("b") = <<TlsHello(wire["b"]["tls"][1])>>
    BY <2>1, <2>8, <2>9, ParsedTypes
  <2>11. wire["b"]["tls"][1] = Emission(mirror(h, patched), patched, r)
    <3>1. settings[1] = mirror(h, patched)
      BY <2>3
    <3>2. wire["b"]["tls"][1] = Emission(settings[1], patched, r)
      BY <2>5
    <3> QED
      BY <3>1, <3>2, Zenon
  <2> HIDE DEF h
  <2>12. TlsHello(Emission(mirror(h, patched), patched, r)) = h
    <3>1. <<TlsHello(wire["b"]["tls"][1])>> = <<h>>
      BY <2>7, <2>9, <2>10, Zenon
    <3>2. TlsHello(wire["b"]["tls"][1]) = h
      BY <3>1
    <3> QED
      BY <2>11, <3>2, Zenon
  <2>13. limitations(h, patched) = {}
    BY <2>4, <2>6, <2>12, LimitationsDiffer
  <2> QED
    BY <2>3, <2>13
<1> QED
  BY <1>1, Invariance, PTL

-----------------------------------------------------------------------------
(***************************************************************************)
(* A client that is the bridge's own library is nowhere refused.           *)
(***************************************************************************)
OwnInv ==
  profile # <<>> =>
    /\ profile \in Profiles[patched]
    /\ \E r \in Reserved : wire["a"]["tls"] = <<Emission(profile[1], patched, r)>>
    /\ stage \in {"hello", "mirror", "connect", "captured", "decided"}
    /\ stage = "decided" => verdict = "pass" /\ reported = {}

\* What is observed of such a client, and of the library that is set to it.
OwnClient(o) ==
  /\ Parsed("a") = <<o>> /\ ~Refused(o) /\ limitations(o, patched) = {}
  /\ \A q \in Reserved : /\ Emission(mirror(o, patched), patched, q) \in Hello
                         /\ parse_hello(Emission(mirror(o, patched), patched, q)) = <<o>>

\* The bridge observes it, and would observe the same of its own library.
LEMMA OwnClientIsObserved ==
  ASSUME EvidenceInv, OwnInv, profile # <<>>
  PROVE  \E o \in TlsHellos : OwnClient(o)
<1>1. patched \in Builds /\ patched \in BOOLEAN
  BY EvidenceAssumption DEF EvidenceInv, TypeOK
<1>2. PICK r \in Reserved : wire["a"]["tls"] = <<Emission(profile[1], patched, r)>>
  BY DEF OwnInv
<1>3. profile \in Profiles[patched] /\ Reserved \subseteq Draws
  BY EvidenceAssumption DEF OwnInv
<1>4. profile[1] \in Settings /\ Mirrorable(profile[1], patched)
  <2>1. profile \in [1..1 -> Settings] /\ Mirrorable(profile[1], patched)
    BY <1>1, <1>3, EvidenceAssumption
  <2> QED
    BY <2>1
<1> DEFINE c == profile[1]
           e == Emission(c, patched, r)
           o == TlsHello(e)
<1>5. /\ Parsable(Emission(c, patched, r)) /\ o \in TlsHellos
      /\ ~Refused(o) /\ limitations(o, patched) = {}
  BY <1>1, <1>3, <1>4, OwnRoundTrip
<1>6. Parsed("a") = <<o>>
  <2>1. wire["a"]["tls"] # <<>> /\ wire["a"]["tls"][1] = e
    BY <1>2
  <2>2. parse_hello(e) = <<o>>
    BY <1>5 DEF parse_hello
  <2> HIDE DEF e, o
  <2> QED
    BY <2>1, <2>2 DEF Parsed
<1>7. ASSUME NEW q \in Reserved
      PROVE  /\ Emission(mirror(o, patched), patched, q) \in Hello
             /\ parse_hello(Emission(mirror(o, patched), patched, q)) = <<o>>
  <2>1. q \in Draws
    BY <1>3
  <2>2. /\ Parsable(Emission(mirror(o, patched), patched, q))
        /\ TlsHello(Emission(mirror(o, patched), patched, q)) = o
    BY <1>1, <1>3, <1>4, <2>1, OwnRoundTrip
  <2>3. mirror(o, patched) \in Settings
    BY <1>1, <1>5, MirrorTypes
  <2> HIDE DEF o
  <2>4. Emission(mirror(o, patched), patched, q) \in Hello
    BY <1>1, <2>1, <2>3, EmissionProperties
  <2> QED
    BY <2>2, <2>4 DEF parse_hello
<1> HIDE DEF o
<1> QED
  BY <1>5, <1>6, <1>7 DEF OwnClient

\* At first its hello is on the wire.
LEMMA OwnInit == Init => OwnInv
<1> SUFFICES ASSUME Init, profile # <<>>
             PROVE  /\ profile \in Profiles[patched]
                    /\ \E r \in Reserved : wire["a"]["tls"] = <<Emission(profile[1], patched, r)>>
                    /\ stage = "hello"
  BY DEF OwnInv
<1>1. Serving
  BY DEF Init, Commanding
<1>2. PICK r \in Reserved :
        /\ profile \in Profiles[patched]
        /\ wire = [a |-> [Nothing EXCEPT !["tls"] = <<Emission(profile[1], patched, r)>>], b |-> Nothing]
  BY <1>1 DEF Serving
<1> DEFINE e == Emission(profile[1], patched, r)
           z == [Nothing EXCEPT !["tls"] = <<e>>]
<1>3. wire["a"] = z
  BY <1>2
<1>4. "tls" \in DOMAIN Nothing
  BY DEF Nothing, Layers
<1> HIDE DEF e
<1>5. wire["a"]["tls"] = <<e>>
  BY <1>3, <1>4
<1> QED
  BY <1>1, <1>2, <1>5 DEF Serving, e

\* The steps of a connection.
LEMMA OwnStep ==
  ASSUME EvidenceInv, OwnInv, EvidenceInv', profile # <<>>,
         ReadHello \/ Mirror \/ Gate \/ \E r \in Reserved : LibraryConnects(r)
  PROVE  /\ UNCHANGED <<profile, patched>> /\ wire'["a"] = wire["a"]
         /\ stage' \in {"mirror", "connect", "captured", "decided"}
         /\ stage' = "decided" => verdict' = "pass" /\ reported' = {}
<1>1. PICK o \in TlsHellos : OwnClient(o)
  BY OwnClientIsObserved
<1>2. WiresFit /\ DocumentsAreOfWires /\ SettingsAreOfHello
  BY DEF EvidenceInv
<1>3. "a" \in Sides /\ "b" \in Sides /\ "a" # "b" /\ "tls" \in Layers
  BY DEF Sides, Layers
<1>4. document["a"]["tls"] # <<>> => document["a"]["tls"] = <<o>> /\ document["a"]["tls"][1] = o
  BY <1>1, <1>2, <1>3 DEF DocumentsAreOfWires, OwnClient
<1>5. CASE ReadHello
  <2>1. Parsed("a") # <<>>
    BY <1>1 DEF OwnClient
  <2> QED
    BY <1>5, <2>1 DEF ReadHello
<1>6. CASE Mirror
  <2>1. document["a"]["tls"] # <<>>
    BY <1>2, <1>6 DEF SettingsAreOfHello, Mirror
  <2>2. ~Refused(document["a"]["tls"][1])
    BY <1>1, <1>4, <2>1 DEF OwnClient
  <2> QED
    BY <1>6, <2>2 DEF Mirror
<1>7. CASE \E r \in Reserved : LibraryConnects(r)
  <2>1. PICK r \in Reserved : LibraryConnects(r)
    BY <1>7
  <2>2. wire'["a"] = wire["a"]
    BY <1>2, <1>3, <2>1 DEF LibraryConnects, WiresFit
  <2> QED
    BY <2>1, <2>2 DEF LibraryConnects
<1>8. CASE Gate
  <2>1. /\ stage = "captured" /\ document' = [document EXCEPT !["b"]["tls"] = Seen("b", "tls")]
        /\ UNCHANGED <<patched, wire, profile, settings, reported>>
        /\ Parsed("b") # <<>> => /\ scope' = {"tls"} /\ stage' = "decided"
                                 /\ verdict' = compare(document'["a"], document'["b"], scope')
    BY <1>8 DEF Gate, Seen
  <2>2. /\ document["a"]["tls"] # <<>> /\ Sent
        /\ settings = <<mirror(document["a"]["tls"][1], patched)>>
        /\ reported = limitations(document["a"]["tls"][1], patched)
    BY <1>2, <2>1 DEF SettingsAreOfHello
  <2>3. settings[1] = mirror(o, patched) /\ reported = limitations(o, patched)
    BY <1>4, <2>2
  <2>4. PICK q \in Reserved : wire["b"]["tls"] = <<Emission(settings[1], patched, q)>>
    BY <2>2 DEF Sent
  <2>5. Parsed("b") = <<o>>
    <3>1. wire["b"]["tls"] # <<>> /\ wire["b"]["tls"][1] = Emission(mirror(o, patched), patched, q)
      BY <2>3, <2>4
    <3> QED
      BY <1>1, <3>1 DEF Parsed, OwnClient
  <2>6. /\ document'["a"] = document["a"] /\ document'["b"]["tls"] = <<o>>
        /\ DOMAIN document'["a"] = Layers /\ DOMAIN document'["b"] = Layers
    <3>1. /\ DocumentsAreOfWires' /\ document'["b"]["tls"] = Seen("b", "tls")
          /\ document'["a"] = document["a"]
      BY <1>2, <1>3, <2>1, ObserveKeeps
    <3> QED
      BY <1>3, <2>5, <3>1 DEF Seen, DocumentsAreOfWires
  <2>7. verdict' = "pass"
    <3>1. verdict' = compare(document'["a"], document'["b"], {"tls"})
      <4>1. scope' = {"tls"} /\ verdict' = compare(document'["a"], document'["b"], scope')
        BY <2>1, <2>5
      <4> QED
        BY <4>1, Zenon
    <3>2. document'["a"]["tls"] = <<o>> /\ document'["b"]["tls"] = <<o>>
      BY <1>4, <2>2, <2>6
    <3>3. valid(document'["a"], "tls") /\ valid(document'["b"], "tls")
      BY <1>3, <2>6, <3>2 DEF valid
    <3> QED
      BY <3>1, <3>2, <3>3 DEF compare
  <2>8. reported' = {}
    BY <1>1, <2>1, <2>3 DEF OwnClient
  <2> QED
    BY <2>1, <2>5, <2>7, <2>8
<1> QED
  BY <1>5, <1>6, <1>7, <1>8

\* Every step keeps OwnInv.
LEMMA OwnNext == EvidenceInv /\ EvidenceInv' /\ OwnInv /\ [Next]_vars => OwnInv'
<1> SUFFICES ASSUME EvidenceInv, EvidenceInv', OwnInv, [Next]_vars PROVE OwnInv'
  OBVIOUS
<1>1. profile' = profile
  BY DEF Next, vars, ReadHello, Mirror, Gate, LibraryConnects, InspectHello, InspectPcap,
         LabObserves, Compare
<1>2. CASE profile = <<>>
  BY <1>1, <1>2 DEF OwnInv
<1>3. CASE profile # <<>> /\ (ReadHello \/ Mirror \/ Gate \/ \E r \in Reserved : LibraryConnects(r))
  <2>1. /\ UNCHANGED <<profile, patched>> /\ wire'["a"] = wire["a"]
        /\ stage' \in {"mirror", "connect", "captured", "decided"}
        /\ stage' = "decided" => verdict' = "pass" /\ reported' = {}
    BY <1>3, OwnStep
  <2> QED
    BY <1>3, <2>1 DEF OwnInv
<1>4. CASE profile # <<>> /\ UNCHANGED vars
  BY <1>4 DEF OwnInv, vars
<1>5. CASE profile # <<>> /\ \/ \E s \in Sides : InspectHello(s) \/ InspectPcap(s) \/ LabObserves(s)
                             \/ \E layers \in Scopes : Compare(layers)
  <2>1. stage # "files"
    BY <1>5 DEF OwnInv
  <2> QED
    BY <1>5, <2>1 DEF InspectHello, InspectPcap, LabObserves, Compare
<1> QED
  BY <1>2, <1>3, <1>4, <1>5 DEF Next

\* A client that is the bridge's own library, set as mirror() can set it, is
\* mirrored whole, whatever the settings and whatever both draw: handle_connection()
\* never refuses it, the gate passes, and there are no limitations.
THEOREM OwnClientsAreMirrored == Spec => []OwnClientsPass
<1>1. OwnInv => OwnClientsPass
  BY DEF OwnInv, OwnClientsPass
<1>2. EvidenceInv /\ EvidenceInv' /\ OwnInv /\ [Next]_vars => OwnInv'
  BY OwnNext
<1> QED
  BY <1>1, <1>2, OwnInit, Invariance, PTL DEF Spec
=============================================================================
