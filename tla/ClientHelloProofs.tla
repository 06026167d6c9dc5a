-------------------------- MODULE ClientHelloProofs -------------------------
(***************************************************************************)
(* What is proved of ClientHello, for all streams, limits and buffers: the *)
(* client's octets reach the accepting library once and in their order,    *)
(* and the capture is the beginning of what the origin's socket took.      *)
(***************************************************************************)
EXTENDS ClientHello, Induction, SequenceTheorems, TLAPS

\* The stretches of a stream are sequences of octets.
LEMMA OctetsAreSeq ==
  ASSUME NEW a \in Nat, NEW b \in Nat, a <= b
  PROVE  /\ Octets(a, b) \in Seq(Nat) /\ Len(Octets(a, b)) = b - a
         /\ \A i \in 1..(b - a) : Octets(a, b)[i] = a + i
<1>1. b - a \in Nat /\ \A i \in 1..(b - a) : a + i \in Nat
  OBVIOUS
<1>2. Octets(a, b) \in [1..(b - a) -> Nat]
  BY <1>1 DEF Octets
<1>3. Octets(a, b) \in Seq(Nat)
  BY <1>1, <1>2, SeqDef
<1>4. Len(Octets(a, b)) = b - a
  BY <1>1, <1>2, <1>3, LenProperties
<1> QED
  BY <1>3, <1>4 DEF Octets

LEMMA Concats ==
  ASSUME NEW s \in Seq(Nat), NEW t \in Seq(Nat)
  PROVE  /\ s \o t \in Seq(Nat) /\ Len(s \o t) = Len(s) + Len(t)
         /\ \A i \in 1..Len(s) + Len(t) :
              (s \o t)[i] = IF i <= Len(s) THEN s[i] ELSE t[i - Len(s)]
  BY ConcatProperties

\* Two stretches that meet are one.
LEMMA OctetsMeet ==
  ASSUME NEW a \in Nat, NEW b \in Nat, NEW c \in Nat, a <= b, b <= c
  PROVE  Octets(a, b) \o Octets(b, c) = Octets(a, c)
<1>1. /\ Octets(a, b) \in Seq(Nat) /\ Len(Octets(a, b)) = b - a
      /\ \A i \in 1..(b - a) : Octets(a, b)[i] = a + i
  BY OctetsAreSeq
<1>2. /\ Octets(b, c) \in Seq(Nat) /\ Len(Octets(b, c)) = c - b
      /\ \A i \in 1..(c - b) : Octets(b, c)[i] = b + i
  BY OctetsAreSeq
<1>3. a <= c
  OBVIOUS
<1>4. /\ Octets(a, c) \in Seq(Nat) /\ Len(Octets(a, c)) = c - a
      /\ \A i \in 1..(c - a) : Octets(a, c)[i] = a + i
  BY <1>3, OctetsAreSeq
<1> DEFINE both == Octets(a, b) \o Octets(b, c)
<1>5. /\ both \in Seq(Nat) /\ Len(both) = c - a
      /\ \A i \in 1..(c - a) : both[i] = IF i <= b - a THEN Octets(a, b)[i]
                                        ELSE Octets(b, c)[i - (b - a)]
  <2>1. /\ both \in Seq(Nat) /\ Len(both) = Len(Octets(a, b)) + Len(Octets(b, c))
        /\ \A i \in 1..Len(Octets(a, b)) + Len(Octets(b, c)) :
             both[i] = IF i <= Len(Octets(a, b)) THEN Octets(a, b)[i]
                       ELSE Octets(b, c)[i - Len(Octets(a, b))]
    BY <1>1, <1>2, Concats
  <2>2. Len(Octets(a, b)) + Len(Octets(b, c)) = c - a
    BY <1>1, <1>2
  <2> HIDE DEF both
  <2> QED
    BY <2>1, <2>2, <1>1
<1>6. ASSUME NEW i \in 1..Len(both)
      PROVE  both[i] = Octets(a, c)[i]
  <2>1. i \in 1..(c - a) /\ Octets(a, c)[i] = a + i
    BY <1>4, <1>5
  <2>2. CASE i <= b - a
    BY <1>1, <1>5, <2>1, <2>2
  <2>3. CASE ~(i <= b - a)
    <3>1. i - (b - a) \in 1..(c - b) /\ b + (i - (b - a)) = a + i
      BY <2>1, <2>3
    <3>2. Octets(b, c)[i - (b - a)] = a + i
      BY <1>2, <3>1
    <3> QED
      BY <1>5, <2>1, <2>3, <3>2
  <2> QED
    BY <2>2, <2>3
<1> HIDE DEF both
<1>7. both = Octets(a, c)
  BY <1>4, <1>5, <1>6, SeqEqual
<1> QED
  BY <1>7 DEF both

\* What is behind a position.
LEMMA RestIsSeq ==
  ASSUME NEW s \in Seq(Nat), NEW p \in 0..Len(s)
  PROVE  /\ SubSeq(s, p + 1, Len(s)) \in Seq(Nat)
         /\ Len(SubSeq(s, p + 1, Len(s))) = Len(s) - p
         /\ \A i \in 1..(Len(s) - p) : SubSeq(s, p + 1, Len(s))[i] = s[p + i]
<1>1. Len(s) \in Nat
  BY LenProperties
<1>2. \A i \in p + 1..Len(s) : s[i] \in Nat
  BY <1>1, ElementOfSeq
<1>3. /\ SubSeq(s, p + 1, Len(s)) \in Seq(Nat)
      /\ Len(SubSeq(s, p + 1, Len(s))) = IF p + 1 <= Len(s) THEN Len(s) - (p + 1) + 1 ELSE 0
      /\ \A i \in 1..(Len(s) - (p + 1) + 1) : SubSeq(s, p + 1, Len(s))[i] = s[p + 1 + i - 1]
  BY <1>1, <1>2, SubSeqProperties
<1> QED
  BY <1>1, <1>3

\* What is behind a position moves with the sequence.
LEMMA RestOfConcat ==
  ASSUME NEW s \in Seq(Nat), NEW t \in Seq(Nat), NEW p \in 0..Len(s)
  PROVE  SubSeq(s \o t, p + 1, Len(s \o t)) = SubSeq(s, p + 1, Len(s)) \o t
<1> DEFINE all == s \o t
           rest == SubSeq(s, p + 1, Len(s))
           left == SubSeq(all, p + 1, Len(all))
           right == rest \o t
<1>1. Len(s) \in Nat /\ Len(t) \in Nat
  BY LenProperties
<1>2. /\ all \in Seq(Nat) /\ Len(all) = Len(s) + Len(t)
      /\ \A i \in 1..Len(s) + Len(t) : all[i] = IF i <= Len(s) THEN s[i] ELSE t[i - Len(s)]
  BY ConcatProperties
<1>3. /\ rest \in Seq(Nat) /\ Len(rest) = Len(s) - p
      /\ \A i \in 1..(Len(s) - p) : rest[i] = s[p + i]
  BY RestIsSeq
<1> HIDE DEF all, rest
<1>4. p \in 0..Len(all)
  BY <1>1, <1>2
<1>5. /\ left \in Seq(Nat) /\ Len(left) = Len(all) - p
      /\ \A i \in 1..(Len(all) - p) : left[i] = all[p + i]
  BY <1>2, <1>4, RestIsSeq
<1>6. /\ right \in Seq(Nat) /\ Len(right) = Len(rest) + Len(t)
      /\ \A i \in 1..Len(rest) + Len(t) : right[i] = IF i <= Len(rest) THEN rest[i]
                                                    ELSE t[i - Len(rest)]
  BY <1>3, ConcatProperties
<1> HIDE DEF left, right
<1>7. ASSUME NEW i \in 1..Len(left)
      PROVE  left[i] = right[i]
  <2>1. i \in 1..(Len(all) - p) /\ i \in 1..Len(rest) + Len(t) /\ p + i \in 1..Len(s) + Len(t)
    BY <1>1, <1>2, <1>3, <1>5
  <2>2. CASE i <= Len(s) - p
    <3>1. left[i] = s[p + i]
      <4>1. left[i] = all[p + i]
        BY <1>5, <2>1
      <4>2. p + i <= Len(s)
        BY <1>1, <2>1, <2>2
      <4>3. \A j \in 1..Len(s) + Len(t) : j <= Len(s) => all[j] = s[j]
        BY <1>2
      <4>4. all[p + i] = s[p + i]
        BY <2>1, <4>2, <4>3
      <4> QED
        BY <4>1, <4>4
    <3>2. i \in 1..(Len(s) - p)
      BY <1>1, <2>1, <2>2
    <3> QED
      BY <1>3, <1>6, <2>1, <2>2, <3>1, <3>2
  <2>3. CASE ~(i <= Len(s) - p)
    <3>1. left[i] = t[p + i - Len(s)]
      <4>1. left[i] = all[p + i]
        BY <1>5, <2>1
      <4>2. ~(p + i <= Len(s))
        BY <1>1, <2>1, <2>3
      <4>3. \A j \in 1..Len(s) + Len(t) : ~(j <= Len(s)) => all[j] = t[j - Len(s)]
        BY <1>2
      <4>4. all[p + i] = t[(p + i) - Len(s)]
        BY <2>1, <4>2, <4>3
      <4> QED
        BY <4>1, <4>4
    <3>2. right[i] = t[i - (Len(s) - p)]
      BY <1>1, <1>3, <1>6, <2>1, <2>3
    <3>3. p + i - Len(s) = i - (Len(s) - p)
      BY <1>1
    <3> QED
      BY <3>1, <3>2, <3>3
  <2> QED
    BY <2>2, <2>3
<1>8. Len(left) = Len(right)
  BY <1>1, <1>2, <1>3, <1>5, <1>6
<1>9. left = right
  BY <1>5, <1>6, <1>7, <1>8, SeqEqual
<1> QED
  BY <1>9 DEF left, right, all, rest

LEMMA RestIsCut ==
  ASSUME NEW s \in Seq(Nat), NEW p \in 0..Len(s), NEW q \in p..Len(s)
  PROVE  SubSeq(s, p + 1, q) \o SubSeq(s, q + 1, Len(s)) = SubSeq(s, p + 1, Len(s))
<1>1. Len(s) \in Nat
  BY LenProperties
<1>2. p + 1 \in 1..Len(s) + 1 /\ q \in (p + 1) - 1..Len(s) /\ Len(s) \in q..Len(s)
  BY <1>1
<1> QED
  BY <1>1, <1>2, ConcatAdjacentSubSeq

LEMMA Associate ==
  ASSUME NEW s \in Seq(Nat), NEW t \in Seq(Nat), NEW u \in Seq(Nat)
  PROVE  (s \o t) \o u = s \o (t \o u)
<1> DEFINE Associative(S) == \A a \in Seq(S) : \A b \in Seq(S) : \A c \in Seq(S) :
                               (a \o b) \o c = a \o (b \o c)
<1>1. \A S : Associative(S)
  BY ConcatAssociative, Zenon
<1>2. Associative(Nat)
  <2> HIDE DEF Associative
  <2> QED
    BY <1>1, Zenon
<1>3. \A b \in Seq(Nat) : \A c \in Seq(Nat) : (s \o b) \o c = s \o (b \o c)
  BY <1>2, Zenon
<1>4. \A c \in Seq(Nat) : (s \o t) \o c = s \o (t \o c)
  BY <1>3, Zenon
<1> QED
  BY <1>4, Zenon

LEMMA LeastIsOne ==
  ASSUME NEW a \in Nat, NEW b \in Nat
  PROVE  Least(a, b) \in Nat /\ Least(a, b) <= a /\ Least(a, b) <= b
         /\ (Least(a, b) = a \/ Least(a, b) = b)
  BY DEF Least

-----------------------------------------------------------------------------
(***************************************************************************)
(* Where records end, and what client_hello() decides: the first record    *)
(* that rejects or finds decides, so its verdict on the first octets is    *)
(* whether the message that they complete, if any, is acceptable.          *)
(***************************************************************************)
AStream(s) == s \in Streams /\ s.need >= PREFIX

LEMMA EndRecurs ==
  ASSUME NEW s, AStream(s)
  PROVE  /\ Len(s.records) \in Nat /\ \A i \in 0..Len(s.records) : End(s, i) \in Nat
         /\ End(s, 0) = 0
         /\ \A i \in 1..Len(s.records) : /\ s.records[i].len \in Nat
                                         /\ End(s, i) = End(s, i - 1) + HEADER + s.records[i].len
<1> DEFINE N == Len(s.records)
           len(i) == s.records[i].len
           step == [i \in 1..N |-> [x \in Nat |-> x + HEADER + len(i)]]
           end == CHOOSE g : g = [k \in 0..N |-> IF k = 0 THEN 0 ELSE g[k - 1] + HEADER + len(k)]
<1>1. N \in Nat /\ HEADER \in Nat /\ \A i \in 1..N : len(i) \in Nat
  <2>1. s.records \in Seq([handshake : BOOLEAN, len : Nat])
    BY DEF AStream, Streams
  <2>2. ASSUME NEW i \in 1..N PROVE s.records[i] \in [handshake : BOOLEAN, len : Nat]
    BY <2>1, ElementOfSeq
  <2> QED
    BY <2>1, <2>2, LenProperties, HelloAssumption
<1>2. \A i : End(s, i) = end[i]
  BY DEF End
<1> HIDE DEF N, len
<1>3. step \in [1..N -> [Nat -> Nat]]
  BY <1>1
<1> HIDE DEF step
<1>4. PICK g \in [0..N -> Nat] : Recurs(g, N, 0, step)
  <2>1. 0 \in Nat
    OBVIOUS
  <2> QED
    BY <1>1, <1>3, <2>1, RecursionUpTo
<1>5. g[0] = 0 /\ \A k \in 1..N : g[k] = g[k - 1] + HEADER + len(k)
  <2>1. ASSUME NEW k \in 1..N PROVE g[k] = g[k - 1] + HEADER + len(k)
    <3>1. k - 1 \in 0..N
      BY <1>1
    <3> QED
      BY <1>4, <3>1 DEF step, Recurs
  <2> QED
    BY <1>4, <2>1 DEF Recurs
<1>6. g = [k \in 0..N |-> IF k = 0 THEN 0 ELSE g[k - 1] + HEADER + len(k)]
  <2>1. ASSUME NEW k \in 0..N
        PROVE  g[k] = IF k = 0 THEN 0 ELSE g[k - 1] + HEADER + len(k)
    <3>1. k = 0 \/ k \in 1..N
      BY <1>1
    <3> QED
      BY <1>5, <3>1
  <2>2. g = [k \in 0..N |-> g[k]]
    BY <1>4
  <2> QED
    BY <2>1, <2>2, Zenon
<1>7. end = [k \in 0..N |-> IF k = 0 THEN 0 ELSE end[k - 1] + HEADER + len(k)]
  BY <1>6
<1> HIDE DEF end
<1>8. end[0] = 0 /\ \A k \in 1..N : end[k] = end[k - 1] + HEADER + len(k)
  BY <1>1, <1>7
<1> DEFINE S == {k \in Nat : end[k] \in Nat}
<1>9. 0 \in S
  BY <1>8
<1>10. ASSUME NEW k \in 0..(N - 1), k \in S PROVE k + 1 \in S
  <2>1. k + 1 \in 1..N /\ (k + 1) - 1 = k /\ k + 1 \in Nat
    BY <1>1
  <2>2. end[k + 1] = end[k] + HEADER + len(k + 1) /\ len(k + 1) \in Nat
    BY <1>1, <1>8, <2>1
  <2> QED
    BY <1>1, <1>10, <2>1, <2>2
<1> HIDE DEF S
<1>11. 0..N \subseteq S
  BY <1>1, <1>9, <1>10, InductionUpTo
<1>12. \A k \in 0..N : end[k] \in Nat
  BY <1>11 DEF S
<1> QED
  BY <1>1, <1>2, <1>8, <1>12 DEF N, len

\* Ends and payloads grow from record to record.
LEMMA EndsGrow ==
  ASSUME NEW s, AStream(s), NEW i \in 0..Len(s.records), NEW j \in 0..Len(s.records), i <= j
  PROVE  /\ End(s, i) <= End(s, j) /\ Payload(s, i) <= Payload(s, j)
         /\ i < j => End(s, i) + HEADER <= End(s, j)
<1> DEFINE N == Len(s.records)
           S == {k \in Nat : i <= k => /\ End(s, i) <= End(s, k)
                                       /\ Payload(s, i) <= Payload(s, k)
                                       /\ i < k => End(s, i) + HEADER <= End(s, k)}
<1>1. /\ N \in Nat /\ HEADER \in Nat /\ i \in 0..N /\ j \in 0..N
      /\ \A k \in 0..N : End(s, k) \in Nat
      /\ \A k \in 1..N : /\ s.records[k].len \in Nat
                         /\ End(s, k) = End(s, k - 1) + HEADER + s.records[k].len
  BY EndRecurs, HelloAssumption
<1> HIDE DEF N
<1>2. ASSUME NEW k \in 0..N PROVE Payload(s, k) \in Int
  BY <1>1 DEF Payload
<1>3. 0 \in S
  <2>1. i <= 0 => i = 0
    BY <1>1
  <2> QED
    BY <1>1, <1>2, <2>1
<1>4. ASSUME NEW k \in 0..(N - 1), k \in S PROVE k + 1 \in S
  <2>1. k + 1 \in 1..N /\ (k + 1) - 1 = k /\ k + 1 \in Nat /\ k \in 0..N /\ k + 1 \in 0..N
    BY <1>1
  <2>2. PICK l \in Nat : l = s.records[k + 1].len /\ End(s, k + 1) = End(s, k) + HEADER + l
    BY <1>1, <2>1
  <2>3. Payload(s, k + 1) = Payload(s, k) + l
    <3>1. (k + 1) * HEADER = k * HEADER + HEADER
      BY <1>1, <2>1
    <3>2. k * HEADER \in Nat
      BY <1>1, <2>1
    <3> DEFINE a == k * HEADER
               b == (k + 1) * HEADER
               e == End(s, k)
               f == End(s, k + 1)
    <3>3. Payload(s, k) = e - a /\ Payload(s, k + 1) = f - b
      BY DEF Payload
    <3>4. a \in Nat /\ b = a + HEADER /\ e \in Nat /\ f = (e + HEADER) + l
      BY <1>1, <2>1, <2>2, <3>1, <3>2
    <3> HIDE DEF a, b, e, f
    <3>5. f - b = (e - a) + l
      BY <1>1, <3>4
    <3> QED
      BY <3>3, <3>5
  <2>4. CASE i <= k
    <3>1. End(s, i) <= End(s, k) /\ Payload(s, i) <= Payload(s, k)
      BY <1>4, <2>4
    <3>2. End(s, i) \in Nat /\ End(s, k) \in Nat /\ Payload(s, i) \in Int /\ Payload(s, k) \in Int
      BY <1>1, <1>2, <2>1
    <3>3. End(s, i) <= End(s, k + 1) /\ End(s, i) + HEADER <= End(s, k + 1)
      <4> DEFINE a == End(s, i)
                 e == End(s, k)
                 f == End(s, k + 1)
      <4>1. HEADER \in Nat /\ a \in Nat /\ e \in Nat /\ f = (e + HEADER) + l /\ a <= e
        BY <1>1, <2>2, <3>1, <3>2
      <4> HIDE DEF a, e, f
      <4>2. a <= f /\ a + HEADER <= f
        BY <4>1
      <4> QED
        BY <4>2 DEF a, f
    <3>4. Payload(s, i) <= Payload(s, k + 1)
      BY <2>2, <2>3, <3>1, <3>2
    <3> QED
      BY <2>1, <3>3, <3>4
  <2>5. CASE ~(i <= k)
    <3>1. i <= k + 1 => i = k + 1
      BY <1>1, <2>1, <2>5
    <3> QED
      BY <1>1, <1>2, <2>1, <3>1
  <2> QED
    BY <2>4, <2>5
<1> HIDE DEF S
<1>5. 0..N \subseteq S
  BY <1>1, <1>3, <1>4, InductionUpTo
<1>6. j \in S
  BY <1>1, <1>5
<1> QED
  BY <1>6 DEF S

LEMMA Payloads ==
  ASSUME NEW s, AStream(s), NEW i \in 0..Len(s.records)
  PROVE  Payload(s, i) \in Int /\ Payload(s, i) <= End(s, i) /\ Payload(s, 0) = 0
<1>1. End(s, i) \in Nat /\ End(s, 0) = 0 /\ HEADER \in Nat /\ i \in Nat
  BY EndRecurs, HelloAssumption
<1>2. i * HEADER \in Nat /\ 0 * HEADER = 0
  BY <1>1
<1> QED
  BY <1>1, <1>2 DEF Payload

\* The records that decide of the first k octets, and the first of them.
Deciding(s, k) == {i \in DOMAIN s.records : /\ End(s, i - 1) + HEADER <= k
                                            /\ (Rejects(s, k, i) \/ Finds(s, k, i))}

LEMMA VerdictCases ==
  ASSUME NEW s, NEW k, k <= MAX_HELLO
  PROVE  \/ Deciding(s, k) = {} /\ client_hello(s, k) = "none"
         \/ /\ Deciding(s, k) # {}
            /\ client_hello(s, k) = IF Finds(s, k, Min(Deciding(s, k))) THEN "hello" ELSE "error"
<1> DEFINE D == Deciding(s, k)
<1>1. client_hello(s, k) = IF k <= MAX_HELLO /\ D = {} THEN "none"
                           ELSE IF k <= MAX_HELLO /\ Finds(s, k, Min(D)) THEN "hello"
                           ELSE "error"
  BY Zenon DEF client_hello, Deciding
<1> HIDE DEF D
<1>2. CASE D = {}
  BY <1>1, <1>2 DEF D
<1>3. CASE D # {}
  BY <1>1, <1>3 DEF D
<1> QED
  BY <1>2, <1>3

LEMMA FirstDecides ==
  ASSUME NEW s, AStream(s), NEW k, Deciding(s, k) # {}
  PROVE  /\ Min(Deciding(s, k)) \in Deciding(s, k)
         /\ \A j \in Deciding(s, k) : Min(Deciding(s, k)) <= j
<1>1. Deciding(s, k) \subseteq Nat
  BY EndRecurs DEF Deciding, AStream, Streams
<1>2. \E i \in Deciding(s, k) : \A j \in Deciding(s, k) : i <= j
  BY <1>1, LeastElement
<1> QED
  BY <1>2 DEF Min

LEMMA Records ==
  ASSUME NEW s, AStream(s), NEW i \in DOMAIN s.records
  PROVE  i \in 1..Len(s.records) /\ i - 1 \in 0..Len(s.records) /\ i \in 0..Len(s.records)
<1>1. s.records \in Seq([handshake : BOOLEAN, len : Nat])
  BY DEF AStream, Streams
<1>2. Len(s.records) \in Nat /\ i \in 1..Len(s.records)
  BY <1>1, LenProperties
<1> QED
  BY <1>2

\* The message that record c completes, within the limits.
AcceptableAt(s, c) ==
  /\ s.hello /\ s.valid /\ c \in DOMAIN s.records
  /\ Completes(s, c) /\ End(s, c) <= MAX_HELLO
  /\ \A i \in 1..c : HeaderOk(s, i)

LEMMA AcceptableIs == ASSUME NEW s PROVE Acceptable(s) <=> \E c : AcceptableAt(s, c)
  BY DEF Acceptable, AcceptableAt, HeaderOk

\* A message that is acceptable, and is there, is found at its record.
LEMMA WholeIsFound ==
  ASSUME NEW s, AStream(s), NEW k \in Nat, NEW c, AcceptableAt(s, c), End(s, c) <= k
  PROVE  /\ PrefixOk(s) /\ s.valid
         /\ c \in Deciding(s, k)
<1>1. c \in 1..Len(s.records) /\ c \in 0..Len(s.records) /\ c - 1 \in 0..Len(s.records)
  BY Records DEF AcceptableAt
<1>2. /\ End(s, c - 1) + HEADER <= End(s, c) /\ Payload(s, c) <= End(s, c)
      /\ Payload(s, c) \in Int /\ End(s, c) \in Nat /\ End(s, c - 1) \in Nat
  <2>1. Len(s.records) \in Nat
    BY EndRecurs
  <2>2. c - 1 <= c /\ c - 1 < c
    BY <1>1, <2>1
  <2> QED
    BY <1>1, <2>2, EndsGrow, EndRecurs, Payloads
<1>3. s.hello /\ s.valid /\ Payload(s, c) >= s.need /\ s.need >= PREFIX /\ End(s, c) <= MAX_HELLO
  BY DEF AcceptableAt, Completes, AStream
<1>4. s.need \in Nat /\ PREFIX \in Nat /\ MAX_HELLO \in Nat /\ HEADER \in Nat
  BY HelloAssumption DEF AStream, Streams
<1>5. PrefixOk(s)
  BY <1>2, <1>3, <1>4 DEF PrefixOk
<1>6. HeaderOk(s, c)
  BY <1>1 DEF AcceptableAt
<1>7. Payload(s, c) >= PREFIX
  BY <1>2, <1>3, <1>4
<1>8. Finds(s, k, c)
  BY <1>3, <1>5, <1>6, <1>7 DEF Finds, Readable, Complete
<1>9. End(s, c - 1) + HEADER <= k
  BY <1>2, <1>4
<1> QED
  BY <1>3, <1>5, <1>8, <1>9 DEF Deciding, AcceptableAt

\* No record up to the one that completes an acceptable message rejects it.
LEMMA AcceptablePasses ==
  ASSUME NEW s, AStream(s), NEW k \in Nat, k <= MAX_HELLO, NEW c, AcceptableAt(s, c),
         Deciding(s, k) # {}
  PROVE  client_hello(s, k) = "hello"
<1> DEFINE i == Min(Deciding(s, k))
<1>1. i \in Deciding(s, k) /\ \A j \in Deciding(s, k) : i <= j
  BY FirstDecides
<1>2. client_hello(s, k) = IF Finds(s, k, i) THEN "hello" ELSE "error"
  BY VerdictCases
<1> HIDE DEF i
<1>3. /\ i \in DOMAIN s.records /\ End(s, i - 1) + HEADER <= k
      /\ (Rejects(s, k, i) \/ Finds(s, k, i))
  BY <1>1 DEF Deciding
<1>4. /\ i \in 1..Len(s.records) /\ i - 1 \in 0..Len(s.records)
      /\ c \in 1..Len(s.records) /\ c \in 0..Len(s.records) /\ Len(s.records) \in Nat
  BY <1>3, Records, EndRecurs DEF AcceptableAt
<1>5. i <= c
  <2> SUFFICES ASSUME ~(i <= c) PROVE FALSE
    OBVIOUS
  <2>1. c <= i - 1
    BY <1>4
  <2>2. End(s, c) <= End(s, i - 1) /\ End(s, c) \in Nat /\ End(s, i - 1) \in Nat
    BY <1>4, <2>1, EndsGrow, EndRecurs
  <2>3. HEADER \in Nat
    BY HelloAssumption
  <2>4. End(s, c) <= k
    <3> DEFINE a == End(s, c)
               b == End(s, i - 1)
    <3>1. a \in Nat /\ b \in Nat /\ a <= b /\ b + HEADER <= k
      BY <1>3, <2>2
    <3> HIDE DEF a, b
    <3>2. a <= k
      BY <2>3, <3>1
    <3> QED
      BY <3>2 DEF a
  <2>5. c \in Deciding(s, k)
    BY <2>4, WholeIsFound
  <2> QED
    BY <1>1, <2>5
<1>6. HeaderOk(s, i)
  BY <1>4, <1>5 DEF AcceptableAt
<1>7. PrefixOk(s) /\ s.valid
  <2>1. End(s, c) \in Nat /\ End(s, c) <= End(s, c)
    BY <1>4, EndRecurs
  <2> QED
    BY <2>1, WholeIsFound
<1>8. ~Rejects(s, k, i)
  BY <1>6, <1>7 DEF Rejects
<1> QED
  BY <1>2, <1>3, <1>8

\* Of an acceptable message the verdict is that it is one, or that more is
\* needed; and it is one as soon as it is there.
LEMMA AcceptableVerdict ==
  ASSUME NEW s, AStream(s), NEW k \in Nat, k <= MAX_HELLO, NEW c, AcceptableAt(s, c)
  PROVE  /\ client_hello(s, k) \in {"none", "hello"}
         /\ End(s, c) <= k => client_hello(s, k) = "hello"
<1>1. CASE Deciding(s, k) = {}
  <2>1. client_hello(s, k) = "none"
    BY <1>1, VerdictCases
  <2>2. ~(End(s, c) <= k)
    BY <1>1, WholeIsFound
  <2> QED
    BY <2>1, <2>2
<1>2. CASE Deciding(s, k) # {}
  BY <1>2, AcceptablePasses
<1> QED
  BY <1>1, <1>2

\* What is found is acceptable, and is there.
LEMMA FoundIsAcceptable ==
  ASSUME NEW s, AStream(s), NEW k \in Nat, k <= MAX_HELLO, client_hello(s, k) = "hello"
  PROVE  \E c : AcceptableAt(s, c) /\ End(s, c) <= k
<1> DEFINE i == Min(Deciding(s, k))
<1>1. Deciding(s, k) # {} /\ Finds(s, k, i)
  BY VerdictCases
<1>2. i \in Deciding(s, k) /\ \A j \in Deciding(s, k) : i <= j
  BY <1>1, FirstDecides
<1> HIDE DEF i
<1>3. i \in DOMAIN s.records /\ End(s, i - 1) + HEADER <= k
  BY <1>2 DEF Deciding
<1>4. /\ i \in 1..Len(s.records) /\ i - 1 \in 0..Len(s.records) /\ i \in 0..Len(s.records)
      /\ Len(s.records) \in Nat /\ i \in Nat
  BY <1>3, Records, EndRecurs
<1>5. /\ HeaderOk(s, i) /\ End(s, i) <= k /\ s.hello /\ s.valid /\ s.need <= MAX_HELLO
      /\ Payload(s, i) >= s.need /\ PrefixOk(s)
  BY <1>1 DEF Finds, Readable, PrefixOk, Complete
<1>6. /\ End(s, i) \in Nat /\ s.need \in Nat /\ PREFIX \in Nat \ {0} /\ s.need >= PREFIX
      /\ HEADER \in Nat /\ MAX_HELLO \in Nat
  BY <1>4, EndRecurs, HelloAssumption DEF AStream, Streams
<1>7. ASSUME NEW j \in 1..(i - 1)
      PROVE  /\ HeaderOk(s, j) /\ End(s, j) \in Nat /\ End(s, j) <= k
             /\ j \in DOMAIN s.records /\ ~Finds(s, k, j)
  <2>1. /\ j \in 1..Len(s.records) /\ j - 1 \in 0..Len(s.records) /\ j \in 0..Len(s.records)
        /\ j - 1 < j /\ j - 1 <= j /\ j <= i - 1 /\ ~(i <= j)
    BY <1>4
  <2>2. j \in DOMAIN s.records
    <3>1. s.records \in Seq([handshake : BOOLEAN, len : Nat])
      BY DEF AStream, Streams
    <3> QED
      BY <2>1, <3>1, LenProperties
  <2> DEFINE a == End(s, j - 1)
             b == End(s, j)
             e == End(s, i - 1)
  <2>3. a \in Nat /\ b \in Nat /\ e \in Nat /\ a + HEADER <= b /\ b <= e /\ e + HEADER <= k
    <3>1. a + HEADER <= b
      BY <2>1, EndsGrow
    <3>2. b <= e
      BY <1>4, <2>1, EndsGrow
    <3> QED
      BY <1>3, <1>4, <2>1, <3>1, <3>2, EndRecurs
  <2> HIDE DEF a, b, e
  <2>4. a + HEADER <= k /\ b <= k
    BY <1>6, <2>3
  <2>5. ~Rejects(s, k, j) /\ ~Finds(s, k, j)
    BY <1>2, <2>1, <2>2, <2>4 DEF Deciding, a
  <2> QED
    BY <2>2, <2>3, <2>4, <2>5 DEF Rejects, b
<1>8. Payload(s, i - 1) < s.need
  <2>1. Payload(s, i - 1) \in Int
    BY <1>4, Payloads
  <2>2. CASE i = 1
    <3>1. Payload(s, 0) = 0 /\ i - 1 = 0
      BY <1>4, <2>2, Payloads
    <3> QED
      BY <1>6, <3>1
  <2>3. CASE i # 1
    <3>1. i - 1 \in 1..(i - 1)
      BY <1>4, <2>3
    <3>2. HeaderOk(s, i - 1) /\ End(s, i - 1) <= k /\ ~Finds(s, k, i - 1)
      BY <1>7, <3>1
    <3>3. Payload(s, i - 1) >= s.need => Payload(s, i - 1) >= PREFIX
      BY <1>6, <2>1
    <3>4. ~(Payload(s, i - 1) >= s.need)
      BY <1>5, <3>2, <3>3 DEF Finds, Readable, Complete
    <3> QED
      BY <1>6, <2>1, <3>4
  <2> QED
    BY <2>2, <2>3
<1>9. End(s, i) <= MAX_HELLO
  BY <1>5, <1>6
<1>10. \A j \in 1..i : HeaderOk(s, j)
  <2>1. ASSUME NEW j \in 1..i PROVE HeaderOk(s, j)
    <3>1. j = i \/ j \in 1..(i - 1)
      BY <1>4
    <3> QED
      BY <1>5, <1>7, <3>1
  <2> QED
    BY <2>1
<1>11. AcceptableAt(s, i)
  BY <1>3, <1>5, <1>8, <1>9, <1>10 DEF AcceptableAt, Completes
<1> QED
  BY <1>5, <1>11

-----------------------------------------------------------------------------
\* Between the steps: the body that the header announced fits, and once
\* read_hello() has returned, no octet waits in its buffer.
Staged ==
  /\ stage = "header" => want = HEADER
  /\ stage = "body" => Len(bytes) + want <= MAX_HELLO
  /\ stage \in {"upstream", "uncaptured", "accept"} => part = <<>>

\* The capture, as long as it goes on, has all that was written; it ends at
\* the limit or with a hello.
Captured ==
  /\ capture = Octets(0, Len(capture)) /\ Len(capture) <= wrote
  /\ ~done => Len(capture) = wrote
  /\ done => Len(capture) = MAX_HELLO \/ client_hello(out, Len(capture)) = "hello"

Inv == TypeOK /\ Staged /\ NothingLost /\ Captured

LEMMA InitInv == Init => Inv
<1> SUFFICES ASSUME Init PROVE Inv
  OBVIOUS
<1>0. <<>> \in Seq(Nat) /\ Len(<<>>) = 0 /\ \A s \in Seq(Nat) : Len(s) = 0 => s = <<>>
  BY EmptySeq
<1>1. Octets(0, 0) = <<>>
  BY <1>0, OctetsAreSeq
<1>2. TypeOK
  <2>1. HEADER \in Nat /\ MAX_HELLO \in Nat
    BY HelloAssumption
  <2>2. 0 \in 0..sent /\ 0 \in 0..0 /\ 0 <= MAX_HELLO
    BY <2>1 DEF Init
  <2> QED
    BY <1>0, <2>1, <2>2 DEF Init, TypeOK
<1>3. NothingLost
  <2>1. SubSeq(<<>>, 0 + 1, 0) = <<>>
    BY SubSeqEmpty
  <2> QED
    BY <1>0, <1>1, <2>1, ConcatEmptySeq DEF Init, NothingLost
<1>4. Captured
  BY <1>0, <1>1 DEF Init, Captured
<1> QED
  BY <1>2, <1>3, <1>4 DEF Init, Inv, Staged

-----------------------------------------------------------------------------
LEMMA ConstantsAreNat ==
  /\ MAX_HELLO \in Nat /\ HEADER \in Nat /\ \A n \in Buffers : n \in Nat
  /\ \A i \in DOMAIN client.records : client \in Clients => client.records[i].len \in Nat
<1>1. ASSUME NEW i \in DOMAIN client.records, client \in Clients
      PROVE  client.records[i].len \in Nat
  <2>1. client \in Streams
    BY <1>1, HelloAssumption
  <2>2. client.records \in Seq([handshake : BOOLEAN, len : Nat])
    BY <2>1 DEF Streams
  <2>3. client.records[i] \in [handshake : BOOLEAN, len : Nat]
    BY <1>1, <2>2, ElementOfSeq, LenProperties
  <2> QED
    BY <2>3
<1> QED
  BY <1>1, HelloAssumption

\* The octets that wait, and those that move to them, keep their places.
LEMMA PartJoinsBytes ==
  ASSUME Inv, bytes' = bytes \o part, part' = <<>>,
         UNCHANGED <<taken, position, read>>
  PROVE  NothingLost'
<1> DEFINE rest == SubSeq(bytes, position + 1, Len(bytes))
<1>1. /\ bytes \in Seq(Nat) /\ part \in Seq(Nat) /\ read \in Seq(Nat)
      /\ position \in 0..Len(bytes)
  BY DEF Inv, TypeOK
<1>2. SubSeq(bytes', position + 1, Len(bytes')) = rest \o part
  BY <1>1, RestOfConcat
<1>3. rest \in Seq(Nat)
  BY <1>1, RestIsSeq
<1>4. (read \o rest) \o part = Octets(0, taken)
  BY DEF Inv, NothingLost
<1> HIDE DEF rest
<1>5. read \o (rest \o part) = Octets(0, taken)
  BY <1>1, <1>3, <1>4, Associate, Zenon
<1>6. read \o (rest \o part) \in Seq(Nat)
  BY <1>1, <1>3, ConcatProperties
<1>7. (read \o (rest \o part)) \o <<>> = Octets(0, taken)
  BY <1>5, <1>6, ConcatEmptySeq
<1>8. read' = read /\ position' = position /\ taken' = taken
  OBVIOUS
<1> QED
  BY <1>2, <1>7, <1>8 DEF NothingLost

LEMMA InboundStays ==
  ASSUME NothingLost, UNCHANGED <<taken, part, bytes, position, read>>
  PROVE  NothingLost'
  BY DEF NothingLost

LEMMA OutboundStays ==
  ASSUME Captured, UNCHANGED outbound
  PROVE  Captured'
  BY DEF Captured, outbound, Octets

LEMMA ReadSomeKeeps ==
  ASSUME Inv, ReadSome
  PROVE  Inv'
<1>1. /\ part \in Seq(Nat) /\ want \in Nat /\ taken \in Nat /\ sent \in Nat /\ taken < sent
      /\ Len(part) \in Nat /\ Len(part) < want
  BY LenProperties DEF Inv, TypeOK, ReadSome
<1>2. PICK n \in Nat : /\ n <= sent - taken
                       /\ part' = part \o Octets(taken, taken + n) /\ taken' = taken + n
  <2>1. want - Len(part) \in Nat /\ sent - taken \in Nat
    BY <1>1
  <2>2. LET n == Least(want - Len(part), sent - taken)
        IN  n \in Nat /\ n <= sent - taken
    BY <2>1, LeastIsOne
  <2> QED
    BY <2>2 DEF ReadSome
<1> DEFINE new == Octets(taken, taken + n)
           rest == SubSeq(bytes, position + 1, Len(bytes))
<1>3. new \in Seq(Nat) /\ taken + n \in Nat /\ taken <= taken + n
  BY <1>1, <1>2, OctetsAreSeq
<1>4. TypeOK'
  <2>1. part' \in Seq(Nat)
    BY <1>1, <1>2, <1>3, ConcatProperties
  <2>2. taken' \in 0..sent'
    BY <1>1, <1>2 DEF ReadSome
  <2> QED
    BY <2>1, <2>2 DEF Inv, TypeOK, ReadSome, outbound
<1>5. Staged'
  BY DEF Inv, Staged, ReadSome
<1>6. NothingLost'
  <2>1. read \in Seq(Nat) /\ rest \in Seq(Nat)
    BY RestIsSeq DEF Inv, TypeOK
  <2>2. (read \o rest) \o part = Octets(0, taken)
    BY DEF Inv, NothingLost
  <2>3. SubSeq(bytes', position' + 1, Len(bytes')) = rest /\ read' = read
    BY DEF ReadSome
  <2> HIDE DEF rest, new
  <2>4. read \o rest \in Seq(Nat)
    BY <2>1, ConcatProperties
  <2>5. (read \o rest) \o (part \o new) = ((read \o rest) \o part) \o new
    BY <1>1, <1>3, <2>4, Associate, Zenon
  <2>6. Octets(0, taken) \o new = Octets(0, taken + n)
    <3>1. 0 \in Nat /\ 0 <= taken
      BY <1>1
    <3> QED
      BY <1>1, <1>3, <3>1, OctetsMeet, Zenon DEF new
  <2> QED
    BY <1>2, <2>2, <2>3, <2>5, <2>6 DEF NothingLost, new
<1>7. Captured'
  BY OutboundStays DEF Inv, ReadSome
<1> QED
  BY <1>4, <1>5, <1>6, <1>7 DEF Inv

LEMMA HeaderReadKeeps ==
  ASSUME Inv, HeaderRead
  PROVE  Inv'
<1>0. /\ bytes \in Seq(Nat) /\ part \in Seq(Nat) /\ Len(bytes) \in Nat
      /\ Len(part) = HEADER /\ HEADER \in Nat /\ MAX_HELLO \in Nat
      /\ position \in 0..Len(bytes) /\ <<>> \in Seq(Nat)
  BY LenProperties, ConstantsAreNat, EmptySeq DEF Inv, TypeOK, Staged, HeaderRead
<1>1. PICK i \in DOMAIN client.records :
        LET r == client.records[i]
        IN  IF r.handshake /\ r.len <= MAX_RECORD /\ Len(bytes) + r.len + HEADER <= MAX_HELLO
            THEN stage' = "body" /\ want' = r.len /\ bytes' = bytes \o part /\ part' = <<>>
            ELSE stage' = "refused" /\ UNCHANGED <<want, bytes, part>>
  BY DEF HeaderRead
<1>a. UNCHANGED <<client, sent, closed, taken, position, read, outbound>>
  BY DEF HeaderRead
<1>2. client.records[i].len \in Nat
  BY ConstantsAreNat DEF Inv, TypeOK
<1>3. Captured'
  BY <1>a, OutboundStays DEF Inv
<1>4. CASE /\ Len(bytes) + client.records[i].len + HEADER <= MAX_HELLO
           /\ stage' = "body" /\ want' = client.records[i].len
           /\ bytes' = bytes \o part /\ part' = <<>>
  <2>1. bytes' \in Seq(Nat) /\ Len(bytes') = Len(bytes) + HEADER
    BY <1>0, <1>4, ConcatProperties
  <2>2. TypeOK'
    <3>1. Len(bytes') <= MAX_HELLO /\ position \in 0..Len(bytes')
      BY <1>0, <1>2, <1>4, <2>1, SMTT(30)
    <3> QED
      BY <1>0, <1>2, <1>4, <1>a, <2>1, <3>1 DEF Inv, TypeOK, outbound
  <2>3. Staged'
    BY <1>0, <1>2, <1>4, <2>1 DEF Staged
  <2>4. NothingLost'
    BY <1>4, <1>a, PartJoinsBytes
  <2> QED
    BY <1>3, <2>2, <2>3, <2>4 DEF Inv
<1>5. CASE stage' = "refused" /\ UNCHANGED <<want, bytes, part>>
  <2>1. TypeOK'
    BY <1>5, <1>a DEF Inv, TypeOK, outbound
  <2>2. Staged'
    BY <1>5 DEF Staged
  <2>3. NothingLost'
    BY <1>5, <1>a, InboundStays DEF Inv
  <2> QED
    BY <1>3, <2>1, <2>2, <2>3 DEF Inv
<1> QED
  BY <1>1, <1>4, <1>5

LEMMA BodyReadKeeps ==
  ASSUME Inv, BodyRead
  PROVE  Inv'
<1> USE DEF BodyRead
<1>0. /\ bytes \in Seq(Nat) /\ part \in Seq(Nat) /\ Len(bytes) \in Nat /\ want \in Nat
      /\ Len(part) = want /\ Len(bytes) + want <= MAX_HELLO /\ HEADER \in Nat
      /\ position \in 0..Len(bytes) /\ <<>> \in Seq(Nat)
  BY LenProperties, ConstantsAreNat, EmptySeq DEF Inv, TypeOK, Staged
<1>1. bytes' \in Seq(Nat) /\ Len(bytes') = Len(bytes) + want
  BY <1>0, ConcatProperties
<1>2. stage' \in {"upstream", "header", "refused"}
  OBVIOUS
<1>3. position \in 0..Len(bytes')
  BY <1>0, <1>1
<1>4. TypeOK'
  BY <1>0, <1>1, <1>2, <1>3 DEF Inv, TypeOK, outbound
<1>5. Staged'
  BY <1>2 DEF Staged
<1>6. NothingLost'
  BY PartJoinsBytes
<1>7. Captured'
  BY OutboundStays DEF Inv
<1> QED
  BY <1>4, <1>5, <1>6, <1>7 DEF Inv

\* While nothing is done, the capture is all that was written; what the socket
\* takes next is appended as far as the limit allows.
LEMMA TapWritesKeeps ==
  ASSUME Inv, NEW m \in Buffers, NEW n \in Buffers, TapWrites(m, n)
  PROVE  Inv'
<1> USE DEF TapWrites
<1>0. /\ n \in Nat /\ MAX_HELLO \in Nat /\ wrote \in Nat /\ capture \in Seq(Nat)
      /\ Len(capture) \in Nat /\ Len(capture) <= MAX_HELLO /\ Len(capture) <= wrote
  BY LenProperties, ConstantsAreNat DEF Inv, TypeOK, Captured
<1>1. Staged' /\ NothingLost'
  BY InboundStays DEF Inv, Staged, inbound
<1>2. CASE done
  <2>1. TypeOK'
    BY <1>0, <1>2 DEF Inv, TypeOK, inbound
  <2>2. Captured'
    <3>1. Len(capture') <= wrote' /\ capture' = capture /\ done' = done /\ out' = out
      BY <1>0, <1>2
    <3> QED
      BY <1>2, <3>1 DEF Inv, Captured, Octets
  <2> QED
    BY <1>1, <2>1, <2>2 DEF Inv
<1>3. CASE ~done
  <2> DEFINE take == Least(n, MAX_HELLO - Len(capture))
  <2>1. /\ take \in Nat /\ take <= n /\ take <= MAX_HELLO - Len(capture)
        /\ (take = n \/ take = MAX_HELLO - Len(capture))
    <3>1. MAX_HELLO - Len(capture) \in Nat
      BY <1>0
    <3> QED
      BY <1>0, <3>1, LeastIsOne
  <2>2. /\ capture' = capture \o Octets(wrote, wrote + take) /\ wrote' = wrote + n
        /\ done' = \/ client_hello(out, Len(capture')) = "hello"
                   \/ Len(capture') = MAX_HELLO
    BY <1>3
  <2>3. Len(capture) = wrote /\ capture = Octets(0, wrote)
    <3>1. Len(capture) = wrote /\ capture = Octets(0, Len(capture))
      BY <1>3 DEF Inv, Captured
    <3> QED
      BY <3>1
  <2> HIDE DEF take
  <2>4. capture' = Octets(0, wrote + take)
    <3>1. 0 \in Nat /\ 0 <= wrote /\ wrote + take \in Nat /\ wrote <= wrote + take
      BY <1>0, <2>1
    <3>2. Octets(0, wrote) \o Octets(wrote, wrote + take) = Octets(0, wrote + take)
      BY <1>0, <3>1, OctetsMeet, Zenon
    <3> QED
      BY <2>2, <2>3, <3>2
  <2>5. capture' \in Seq(Nat) /\ Len(capture') = wrote + take
    <3>1. 0 \in Nat /\ wrote + take \in Nat /\ 0 <= wrote + take
          /\ (wrote + take) - 0 = wrote + take
      BY <1>0, <2>1
    <3> QED
      BY <2>4, <3>1, OctetsAreSeq
  <2>6. TypeOK'
    <3>1. Len(capture') <= MAX_HELLO /\ wrote' \in Nat
      BY <1>0, <2>1, <2>2, <2>3, <2>5
    <3>2. done' \in BOOLEAN
      BY <2>2
    <3> QED
      BY <2>5, <3>1, <3>2 DEF Inv, TypeOK, inbound
  <2>7. Captured'
    <3>0. wrote' = wrote + n /\ (~done' => Len(capture') # MAX_HELLO)
      BY <2>2
    <3>1. Len(capture') <= wrote' /\ capture' = Octets(0, Len(capture'))
      <4>1. Len(capture') <= wrote'
        BY <1>0, <2>1, <2>5, <3>0
      <4> QED
        BY <2>4, <2>5, <4>1
    <3>2. ~done' => Len(capture') = wrote'
      BY <1>0, <2>1, <2>3, <2>5, <3>0
    <3>3. out' = out
      OBVIOUS
    <3> QED
      BY <2>2, <3>1, <3>2, <3>3 DEF Captured, Octets
  <2> QED
    BY <1>1, <2>6, <2>7 DEF Inv
<1> QED
  BY <1>2, <1>3

LEMMA ReplayReadsKeeps ==
  ASSUME Inv, NEW m \in Buffers, ReplayReads(m)
  PROVE  Inv'
<1> DEFINE rest == SubSeq(bytes, position + 1, Len(bytes))
<1>0. /\ m \in Nat /\ bytes \in Seq(Nat) /\ read \in Seq(Nat) /\ Len(bytes) \in Nat
      /\ position \in 0..Len(bytes) /\ taken \in Nat /\ sent \in Nat /\ taken <= sent
      /\ part = <<>> /\ stage = "accept"
  BY LenProperties, ConstantsAreNat DEF Inv, TypeOK, Staged, ReplayReads
<1>1. rest \in Seq(Nat) /\ (read \o rest) \o <<>> = Octets(0, taken)
  BY <1>0, RestIsSeq DEF Inv, NothingLost
<1>2. read \o rest = Octets(0, taken)
  <2> HIDE DEF rest
  <2>1. read \o rest \in Seq(Nat)
    BY <1>0, <1>1, ConcatProperties
  <2> QED
    BY <1>1, <2>1, ConcatEmptySeq
<1>3. Captured' /\ Staged' /\ stage' = stage /\ part' = part /\ bytes' = bytes
  BY OutboundStays DEF Inv, Staged, ReplayReads
<1>4. CASE position < Len(bytes)
  <2>1. PICK n \in Nat : /\ n <= Len(bytes) - position
                         /\ read' = read \o SubSeq(bytes, position + 1, position + n)
                         /\ position' = position + n /\ taken' = taken
    <3>1. Len(bytes) - position \in Nat /\ position # Len(bytes)
      BY <1>0, <1>4
    <3>2. LET n == Least(m, Len(bytes) - position)
          IN  n \in Nat /\ n <= Len(bytes) - position
      BY <1>0, <3>1, LeastIsOne
    <3> QED
      BY <3>1, <3>2 DEF ReplayReads
  <2> DEFINE q == position + n
             cut == SubSeq(bytes, position + 1, q)
             behind == SubSeq(bytes, q + 1, Len(bytes))
  <2>2. q \in position..Len(bytes) /\ q \in 0..Len(bytes)
    BY <1>0, <2>1
  <2>3. cut \o behind = rest
    BY <1>0, <2>2, RestIsCut
  <2>4. cut \in Seq(Nat) /\ behind \in Seq(Nat)
    <3>1. \A i \in position + 1..q : bytes[i] \in Nat
      BY <1>0, <2>2, ElementOfSeq, SMTT(30)
    <3>2. cut \in Seq(Nat)
      BY <1>0, <2>2, <3>1, SubSeqProperties
    <3>3. behind \in Seq(Nat)
      BY <1>0, <2>2, RestIsSeq
    <3> QED
      BY <3>2, <3>3
  <2>5. read' = read \o cut /\ position' = q /\ taken' = taken
    BY <2>1
  <2>6. SubSeq(bytes', position' + 1, Len(bytes')) = behind
    BY <1>3, <2>5
  <2> HIDE DEF q, cut, behind, rest
  <2>7. (read \o cut) \in Seq(Nat) /\ (read \o cut) \o behind = Octets(0, taken)
    <3>1. (read \o cut) \o behind = read \o (cut \o behind)
      BY <1>0, <2>4, Associate, Zenon
    <3>2. read \o cut \in Seq(Nat)
      BY <1>0, <2>4, ConcatProperties
    <3> QED
      BY <1>2, <2>3, <3>1, <3>2
  <2>8. NothingLost'
    <3>1. (read \o cut) \o behind \in Seq(Nat)
      BY <2>4, <2>7, ConcatProperties
    <3>2. ((read \o cut) \o behind) \o <<>> = Octets(0, taken)
      BY <2>7, <3>1, ConcatEmptySeq
    <3> QED
      BY <1>0, <1>3, <2>5, <2>6, <3>2 DEF NothingLost
  <2>9. TypeOK'
    BY <1>0, <1>3, <2>2, <2>5, <2>7 DEF Inv, TypeOK, ReplayReads, outbound
  <2> QED
    BY <1>3, <2>8, <2>9 DEF Inv
<1>5. CASE position = Len(bytes)
  <2>1. PICK n \in Nat : /\ n <= sent - taken
                         /\ read' = read \o Octets(taken, taken + n)
                         /\ position' = position /\ taken' = taken + n
    <3>1. sent - taken \in Nat /\ ~(position < Len(bytes))
      BY <1>0, <1>5
    <3>2. LET n == Least(m, sent - taken) IN n \in Nat /\ n <= sent - taken
      BY <1>0, <3>1, LeastIsOne
    <3> QED
      BY <3>1, <3>2 DEF ReplayReads
  <2>2. rest = <<>>
    <3>1. Len(rest) = 0
      BY <1>0, <1>5, RestIsSeq
    <3> QED
      BY <1>1, <3>1, EmptySeq
  <2> DEFINE new == Octets(taken, taken + n)
  <2>3. new \in Seq(Nat) /\ taken + n \in Nat /\ taken <= taken + n
    BY <1>0, <2>1, OctetsAreSeq
  <2>4. read = Octets(0, taken)
    BY <1>0, <1>2, <2>2, ConcatEmptySeq
  <2>5. Octets(0, taken) \o new = Octets(0, taken + n)
    <3>1. 0 \in Nat /\ 0 <= taken
      BY <1>0
    <3> QED
      BY <1>0, <2>3, <3>1, OctetsMeet, Zenon
  <2>6. SubSeq(bytes', position' + 1, Len(bytes')) = <<>>
    BY <1>3, <2>1, <2>2
  <2> HIDE DEF new, rest
  <2>7. read' \in Seq(Nat) /\ read' = Octets(0, taken')
    <3>1. read' = read \o new
      BY <2>1 DEF new
    <3>2. read \o new \in Seq(Nat)
      BY <1>0, <2>3, ConcatProperties
    <3> QED
      BY <2>1, <2>4, <2>5, <3>1, <3>2
  <2>8. NothingLost'
    <3>1. (read' \o <<>>) \o <<>> = read'
      BY <2>7, ConcatEmptySeq
    <3> QED
      BY <1>0, <1>3, <2>6, <2>7, <3>1 DEF NothingLost
  <2>9. TypeOK'
    <3>1. taken' \in 0..sent' /\ sent' = sent
      BY <1>0, <2>1 DEF ReplayReads
    <3> QED
      BY <1>0, <1>3, <2>1, <2>7, <3>1 DEF Inv, TypeOK, ReplayReads, outbound
  <2> QED
    BY <1>3, <2>8, <2>9 DEF Inv
<1> QED
  BY <1>0, <1>4, <1>5

LEMMA Step == Inv /\ [Next]_vars => Inv'
<1> SUFFICES ASSUME Inv, [Next]_vars PROVE Inv'
  OBVIOUS
<1>1. ASSUME NEW n \in Buffers, ClientSends(n) PROVE Inv'
  <2>1. sent' \in Nat /\ taken \in 0..sent'
    <3>1. n \in Nat /\ sent \in Nat /\ taken \in 0..sent
      BY ConstantsAreNat DEF Inv, TypeOK
    <3>2. sent' = sent + n
      BY <1>1 DEF ClientSends
    <3> QED
      BY <3>1, <3>2
  <2>2. TypeOK'
    BY <1>1, <2>1 DEF Inv, TypeOK, ClientSends, outbound
  <2> QED
    BY <1>1, <2>2, InboundStays, OutboundStays DEF Inv, Staged, ClientSends
<1>2. ASSUME NEW n \in Buffers, ReplayReads(n) PROVE Inv'
  BY <1>2, ReplayReadsKeeps
<1>3. CASE ClientCloses
  BY <1>3, InboundStays, OutboundStays DEF Inv, TypeOK, Staged, ClientCloses, outbound
<1>4. CASE ReadSome
  BY <1>4, ReadSomeKeeps
<1>5. CASE ReadFails
  BY <1>5, InboundStays, OutboundStays DEF Inv, TypeOK, Staged, ReadFails, inbound, outbound
<1>6. CASE HeaderRead
  BY <1>6, HeaderReadKeeps
<1>7. CASE BodyRead
  BY <1>7, BodyReadKeeps
<1>8. ASSUME NEW m \in Buffers, NEW n \in Buffers, TapWrites(m, n) PROVE Inv'
  BY <1>8, TapWritesKeeps
<1>9. CASE Connected
  <2>1. stage = "upstream" /\ stage' \in {"accept", "uncaptured"}
    BY <1>9 DEF Connected
  <2> QED
    BY <1>9, <2>1, InboundStays, OutboundStays
    DEF Inv, TypeOK, Staged, Connected, inbound, outbound
<1>10. CASE UNCHANGED vars
  BY <1>10, InboundStays, OutboundStays DEF Inv, TypeOK, Staged, vars, inbound, outbound
<1> QED
  BY <1>1, <1>2, <1>3, <1>4, <1>5, <1>6, <1>7, <1>8, <1>9, <1>10 DEF Next

LEMMA Invariance == Spec => []Inv
  BY InitInv, Step, PTL DEF Spec

\* What read_hello() buffers and Tap captures stays within MAX_HELLO, for any
\* records and any sizes of reads and writes.
THEOREM HelloTypeCorrect == Spec => []TypeOK
<1>1. Inv => TypeOK
  BY DEF Inv
<1> QED
  BY <1>1, Invariance, PTL

\* However the client's octets are cut into segments, records and reads, the
\* accepting library gets each of them once and in its place: Replay.
THEOREM ReplayIsWhole == Spec => []NothingLost
<1>1. Inv => NothingLost
  BY DEF Inv
<1> QED
  BY <1>1, Invariance, PTL

\* Whatever the origin's socket takes of a write, the capture is what it took,
\* without a gap, up to the limit or a whole hello: Tap.
THEOREM CaptureIsPrefix == Spec => []Captured
<1>1. Inv => Captured
  BY DEF Inv
<1> QED
  BY <1>1, Invariance, PTL

-----------------------------------------------------------------------------
\* Before a header is read, bytes ends with a record, and before a body is,
\* with its header; up to the record before, no whole message was found.
NoneFound(k) == client_hello(client, k) # "hello"
Between(j) == Len(bytes) = End(client, j) /\ NoneFound(End(client, j))
Within(j) == /\ Len(bytes) = End(client, j - 1) + HEADER /\ want = client.records[j].len
             /\ NoneFound(End(client, j - 1))
Reading ==
  /\ stage = "header" => \E j \in 0..Len(client.records) : Between(j)
  /\ stage = "body" => \E j \in DOMAIN client.records : Within(j)

\* The verdicts that have been given.
Judged ==
  /\ stage = "refused" => ~Acceptable(client)
  /\ stage \in {"upstream", "uncaptured", "accept"} =>
       \E c : AcceptableAt(client, c) /\ Len(bytes) = End(client, c)
CaptureJudged ==
  /\ stage = "uncaptured" => ~Acceptable(out)
  /\ stage = "accept" => Acceptable(out)

HelloInv == Inv /\ Reading /\ Judged /\ CaptureJudged

LEMMA StreamsAre == ASSUME TypeOK PROVE AStream(client) /\ AStream(out)
  BY HelloAssumption DEF TypeOK, AStream

\* No octets hold no message.
LEMMA NothingFound == ASSUME NEW s, AStream(s) PROVE client_hello(s, 0) # "hello"
<1> SUFFICES ASSUME client_hello(s, 0) = "hello" PROVE FALSE
  OBVIOUS
<1>1. 0 \in Nat /\ 0 <= MAX_HELLO /\ HEADER \in Nat \ {0}
  BY HelloAssumption
<1>2. PICK c : AcceptableAt(s, c) /\ End(s, c) <= 0
  BY <1>1, FoundIsAcceptable
<1>3. c \in 1..Len(s.records) /\ c \in 0..Len(s.records) /\ c - 1 \in 0..Len(s.records)
  BY <1>2, Records DEF AcceptableAt
<1>4. Len(s.records) \in Nat
  BY EndRecurs
<1>5. End(s, c - 1) \in Nat /\ End(s, c - 1) + HEADER <= End(s, c) /\ End(s, c) \in Nat
  BY <1>3, <1>4, EndsGrow, EndRecurs
<1> QED
  BY <1>1, <1>2, <1>5

LEMMA HelloInit == Init => HelloInv
<1> SUFFICES ASSUME Init PROVE HelloInv
  OBVIOUS
<1>1. Inv
  BY InitInv
<1>2. AStream(client)
  BY <1>1, StreamsAre DEF Inv
<1>3. Reading
  <2>1. Len(bytes) = 0 /\ stage = "header"
    BY EmptySeq DEF Init
  <2>2. 0 \in 0..Len(client.records) /\ End(client, 0) = 0
    BY <1>2, EndRecurs
  <2>3. NoneFound(0)
    BY <1>2, NothingFound DEF NoneFound
  <2> QED
    BY <2>1, <2>2, <2>3 DEF Reading, Between
<1>4. Judged /\ CaptureJudged
  BY DEF Init, Judged, CaptureJudged
<1> QED
  BY <1>1, <1>3, <1>4 DEF HelloInv

\* What does not touch the records read and the stage.
LEMMA ReadingStays ==
  ASSUME HelloInv, UNCHANGED <<client, bytes, want, out, stage>>
  PROVE  Reading' /\ Judged' /\ CaptureJudged'
<1>1. Reading'
  BY DEF HelloInv, Reading, Between, Within, NoneFound
<1>2. Judged' /\ CaptureJudged'
  BY DEF HelloInv, Judged, CaptureJudged
<1> QED
  BY <1>1, <1>2

\* The records in order: of an acceptable message that is not found yet, the
\* next record is one.
LEMMA NextRecord ==
  ASSUME NEW s, AStream(s), NEW i \in DOMAIN s.records, End(s, i - 1) <= MAX_HELLO,
         client_hello(s, End(s, i - 1)) # "hello", NEW c, AcceptableAt(s, c)
  PROVE  i \in 1..c /\ End(s, i) <= End(s, c)
<1>1. /\ i \in 1..Len(s.records) /\ i - 1 \in 0..Len(s.records) /\ i \in 0..Len(s.records)
      /\ Len(s.records) \in Nat
      /\ c \in 1..Len(s.records) /\ c \in 0..Len(s.records) /\ End(s, i - 1) \in Nat
  BY Records, EndRecurs DEF AcceptableAt
<1>2. ~(End(s, c) <= End(s, i - 1))
  BY <1>1, AcceptableVerdict
<1>3. ~(c <= i - 1)
  BY <1>1, <1>2, EndsGrow
<1>4. i <= c
  BY <1>1, <1>3
<1> QED
  BY <1>1, <1>4, EndsGrow

LEMMA HeaderReadJudges ==
  ASSUME HelloInv, HeaderRead
  PROVE  HelloInv'
<1>0. /\ Inv' /\ Inv /\ AStream(client) /\ stage = "header" /\ Len(part) = HEADER
      /\ UNCHANGED <<client, out>>
  BY HeaderReadKeeps, StreamsAre DEF HelloInv, Inv, Staged, HeaderRead, outbound
<1>1. PICK i \in DOMAIN client.records :
        LET r == client.records[i]
        IN  /\ End(client, i - 1) = Len(bytes)
            /\ IF r.handshake /\ r.len <= MAX_RECORD /\ Len(bytes) + r.len + HEADER <= MAX_HELLO
               THEN stage' = "body" /\ want' = r.len /\ bytes' = bytes \o part /\ part' = <<>>
               ELSE stage' = "refused" /\ UNCHANGED <<want, bytes, part>>
  BY DEF HeaderRead
<1>2. NoneFound(End(client, i - 1)) /\ Len(bytes) <= MAX_HELLO
  BY <1>0, <1>1 DEF HelloInv, Reading, Between, Inv, TypeOK
<1>3. CASE stage' = "body" /\ want' = client.records[i].len /\ bytes' = bytes \o part
  <2>1. Len(bytes') = End(client, i - 1) + HEADER
    <3>1. bytes \in Seq(Nat) /\ part \in Seq(Nat)
      BY <1>0 DEF Inv, TypeOK
    <3>2. Len(bytes') = Len(bytes) + Len(part)
      BY <1>3, <3>1, Concats
    <3> QED
      BY <1>0, <1>1, <3>2
  <2>2. Within(i)'
    BY <1>0, <1>2, <1>3, <2>1 DEF Within, NoneFound
  <2>3. Reading'
    BY <1>0, <1>3, <2>2 DEF Reading
  <2>4. Judged' /\ CaptureJudged'
    BY <1>3 DEF Judged, CaptureJudged
  <2> QED
    BY <1>0, <2>3, <2>4 DEF HelloInv
<1>4. CASE /\ stage' = "refused"
           /\ ~ LET r == client.records[i]
                IN  r.handshake /\ r.len <= MAX_RECORD /\ Len(bytes) + r.len + HEADER <= MAX_HELLO
  <2>1. ASSUME NEW c, AcceptableAt(client, c) PROVE FALSE
    <3>1. i \in 1..c /\ End(client, i) <= End(client, c)
      BY <1>0, <1>1, <1>2, <2>1, NextRecord DEF NoneFound
    <3>2. HeaderOk(client, i) /\ End(client, c) <= MAX_HELLO
      BY <2>1, <3>1 DEF AcceptableAt
    <3> DEFINE e == Len(bytes)
               l == client.records[i].len
               f == End(client, i)
               g == End(client, c)
    <3>3. /\ e \in Nat /\ l \in Nat /\ f = (e + HEADER) + l /\ HEADER \in Nat
          /\ g \in Nat /\ MAX_HELLO \in Nat
      <4>1. i \in 1..Len(client.records) /\ i - 1 \in 0..Len(client.records)
        BY <1>0, Records
      <4>2. c \in 0..Len(client.records)
        BY <1>0, <2>1, Records DEF AcceptableAt
      <4>3. /\ e = End(client, i - 1) /\ End(client, i - 1) \in Nat /\ l \in Nat /\ g \in Nat
            /\ f = End(client, i - 1) + HEADER + l
        BY <1>0, <1>1, <4>1, <4>2, EndRecurs
      <4> HIDE DEF e, l, f, g
      <4> QED
        BY <4>3, HelloAssumption
    <3>4. f <= g /\ g <= MAX_HELLO
      BY <3>1, <3>2
    <3> HIDE DEF e, l, f, g
    <3>5. e + l + HEADER <= MAX_HELLO
      BY <3>3, <3>4
    <3> QED
      BY <1>4, <3>2, <3>5 DEF HeaderOk, e, l
  <2>2. ~Acceptable(client')
    BY <1>0, <2>1, AcceptableIs
  <2>3. Judged' /\ CaptureJudged' /\ Reading'
    BY <1>4, <2>2 DEF Judged, CaptureJudged, Reading
  <2> QED
    BY <1>0, <2>3 DEF HelloInv
<1> QED
  BY <1>1, <1>3, <1>4

LEMMA BodyReadJudges ==
  ASSUME HelloInv, BodyRead
  PROVE  HelloInv'
<1>0. /\ Inv' /\ Inv /\ AStream(client) /\ stage = "body" /\ Len(part) = want
      /\ UNCHANGED <<client, out>>
  BY BodyReadKeeps, StreamsAre DEF HelloInv, Inv, BodyRead, outbound
<1>1. PICK j \in DOMAIN client.records : Within(j)
  BY <1>0 DEF HelloInv, Reading
<1> DEFINE k == Len(bytes')
<1>2. /\ j \in 1..Len(client.records) /\ j - 1 \in 0..Len(client.records)
      /\ j \in 0..Len(client.records) /\ Len(client.records) \in Nat
      /\ End(client, j - 1) \in Nat /\ End(client, j) \in Nat
      /\ End(client, j - 1) <= End(client, j)
  BY <1>0, Records, EndRecurs, EndsGrow
<1>3. k = End(client, j) /\ k \in Nat /\ k <= MAX_HELLO
  <2>1. bytes \in Seq(Nat) /\ part \in Seq(Nat)
    BY <1>0 DEF Inv, TypeOK
  <2>2. k = Len(bytes) + want
    BY <1>0, <2>1, Concats DEF BodyRead
  <2>3. Len(bytes) = End(client, j - 1) + HEADER /\ want = client.records[j].len
    BY <1>1 DEF Within
  <2>4. End(client, j) = End(client, j - 1) + HEADER + client.records[j].len
    BY <1>0, <1>2, EndRecurs
  <2>5. k <= MAX_HELLO
    BY <1>0 DEF Inv, TypeOK
  <2> HIDE DEF k
  <2> QED
    BY <1>2, <2>2, <2>3, <2>4, <2>5
<1>4. NoneFound(End(client, j - 1)) /\ End(client, j - 1) <= MAX_HELLO
  <2>1. MAX_HELLO \in Nat
    BY HelloAssumption
  <2> HIDE DEF k
  <2> QED
    BY <1>1, <1>2, <1>3, <2>1 DEF Within
<1>5. /\ client_hello(client, k) = "hello" => stage' = "upstream"
      /\ client_hello(client, k) = "none" => stage' = "header"
      /\ client_hello(client, k) \notin {"hello", "none"} => stage' = "refused"
  BY DEF BodyRead
<1> HIDE DEF k
<1>6. CASE client_hello(client, k) = "hello"
  <2>1. PICK c : AcceptableAt(client, c) /\ End(client, c) <= k
    BY <1>0, <1>3, <1>6, FoundIsAcceptable
  <2>2. End(client, j) <= End(client, c)
    BY <1>0, <1>4, <2>1, NextRecord DEF NoneFound
  <2>3. End(client, c) \in Nat
    BY <1>0, <2>1, Records, EndRecurs DEF AcceptableAt
  <2>4. k = End(client, c)
    BY <1>2, <1>3, <2>1, <2>2, <2>3
  <2>5. Judged'
    BY <1>0, <1>5, <1>6, <2>1, <2>4 DEF Judged, k
  <2>6. Reading' /\ CaptureJudged'
    BY <1>5, <1>6 DEF Reading, CaptureJudged
  <2> QED
    BY <1>0, <2>5, <2>6 DEF HelloInv
<1>7. CASE client_hello(client, k) = "none"
  <2>1. Between(j)'
    BY <1>0, <1>3, <1>7 DEF Between, NoneFound, k
  <2>2. Reading'
    BY <1>0, <1>2, <1>5, <1>7, <2>1 DEF Reading
  <2>3. Judged' /\ CaptureJudged'
    BY <1>5, <1>7 DEF Judged, CaptureJudged
  <2> QED
    BY <1>0, <2>2, <2>3 DEF HelloInv
<1>8. CASE client_hello(client, k) \notin {"hello", "none"}
  <2>1. ~Acceptable(client')
    BY <1>0, <1>3, <1>8, AcceptableVerdict, AcceptableIs
  <2>2. Judged' /\ CaptureJudged' /\ Reading'
    BY <1>5, <1>8, <2>1 DEF Judged, CaptureJudged, Reading
  <2> QED
    BY <1>0, <2>2 DEF HelloInv
<1> QED
  BY <1>6, <1>7, <1>8

\* The capture has all that was written, up to the limit, or a whole hello.
LEMMA CaptureHasAll ==
  ASSUME Inv
  PROVE  Len(capture) = Least(wrote, MAX_HELLO) \/ client_hello(out, Len(capture)) = "hello"
<1>1. /\ Len(capture) <= wrote /\ Len(capture) <= MAX_HELLO /\ wrote \in Nat
      /\ Len(capture) \in Nat /\ MAX_HELLO \in Nat
  BY HelloAssumption, LenProperties DEF Inv, TypeOK, Captured
<1>2. CASE Len(capture) = wrote \/ Len(capture) = MAX_HELLO
  BY <1>1, <1>2 DEF Least
<1>3. CASE client_hello(out, Len(capture)) = "hello"
  BY <1>3
<1> QED
  BY <1>2, <1>3 DEF Inv, Captured

\* The origin answers a whole message, so an acceptable one was all captured.
LEMMA ConnectedJudges ==
  ASSUME HelloInv, Connected, Inv'
  PROVE  HelloInv'
<1>0. /\ Inv /\ AStream(out) /\ stage = "upstream" /\ UNCHANGED <<client, bytes, out, capture>>
      /\ stage' = IF client_hello(out, Len(capture)) = "hello" THEN "accept" ELSE "uncaptured"
  BY StreamsAre DEF HelloInv, Inv, Connected, inbound, outbound
<1> DEFINE k == Len(capture)
<1>1. k \in Nat /\ k <= MAX_HELLO /\ wrote \in Nat /\ MAX_HELLO \in Nat
  BY <1>0, LenProperties, HelloAssumption DEF Inv, TypeOK
<1>2. CASE client_hello(out, k) = "hello"
  <2>1. Acceptable(out')
    BY <1>0, <1>1, <1>2, FoundIsAcceptable, AcceptableIs
  <2> QED
    BY <1>0, <1>2, <2>1 DEF HelloInv, Reading, Judged, CaptureJudged
<1>3. CASE client_hello(out, k) # "hello"
  <2>1. k = Least(wrote, MAX_HELLO)
    BY <1>0, <1>3, CaptureHasAll
  <2> HIDE DEF k
  <2>2. ASSUME NEW c, AcceptableAt(out, c) PROVE FALSE
    <3>1. PICK i \in DOMAIN out.records : Payload(out, i) >= out.need /\ End(out, i) <= wrote
      BY DEF Connected
    <3>2. /\ Len(out.records) \in Nat
          /\ c \in 1..Len(out.records) /\ c \in 0..Len(out.records) /\ c - 1 \in 0..Len(out.records)
          /\ i \in 1..Len(out.records) /\ i \in 0..Len(out.records)
          /\ End(out, c) \in Nat /\ End(out, i) \in Nat
      BY <1>0, <2>2, Records, EndRecurs DEF AcceptableAt
    <3>3. Payload(out, c - 1) < out.need /\ End(out, c) <= MAX_HELLO
      BY <2>2 DEF AcceptableAt, Completes
    <3>4. ~(i <= c - 1)
      <4> SUFFICES ASSUME i <= c - 1 PROVE FALSE
        OBVIOUS
      <4>1. Payload(out, i) <= Payload(out, c - 1)
        BY <1>0, <3>2, EndsGrow
      <4>2. Payload(out, i) \in Int /\ Payload(out, c - 1) \in Int /\ out.need \in Nat
        BY <1>0, <3>2, Payloads DEF AStream, Streams
      <4> QED
        BY <3>1, <3>3, <4>1, <4>2
    <3>5. End(out, c) <= End(out, i)
      <4>1. c <= i
        BY <3>2, <3>4
      <4> QED
        BY <1>0, <3>2, <4>1, EndsGrow
    <3>6. End(out, c) <= k
      BY <1>1, <2>1, <3>1, <3>2, <3>3, <3>5 DEF Least
    <3> QED
      BY <1>0, <1>1, <1>3, <2>2, <3>6, AcceptableVerdict
  <2>3. ~Acceptable(out')
    BY <1>0, <2>2, AcceptableIs
  <2> QED
    BY <1>0, <1>3, <2>3 DEF HelloInv, Reading, Judged, CaptureJudged, k
<1> QED
  BY <1>2, <1>3

LEMMA HelloStep == HelloInv /\ [Next]_vars => HelloInv'
<1> SUFFICES ASSUME HelloInv, [Next]_vars PROVE HelloInv'
  OBVIOUS
<1>1. Inv'
  BY Step DEF HelloInv
<1>2. CASE UNCHANGED <<client, bytes, want, out, stage>>
  BY <1>1, <1>2, ReadingStays DEF HelloInv
<1>3. CASE ReadFails
  <2>1. stage' = "closed"
    BY <1>3 DEF ReadFails
  <2> QED
    BY <1>1, <2>1 DEF HelloInv, Reading, Judged, CaptureJudged
<1>4. CASE HeaderRead
  BY <1>4, HeaderReadJudges
<1>5. CASE BodyRead
  BY <1>5, BodyReadJudges
<1>6. CASE Connected
  BY <1>1, <1>6, ConnectedJudges
<1>7. \/ UNCHANGED <<client, bytes, want, out, stage>>
      \/ ReadFails \/ HeaderRead \/ BodyRead \/ Connected
  BY DEF Next, ClientSends, ClientCloses, ReadSome, TapWrites, ReplayReads, inbound, outbound, vars
<1> QED
  BY <1>2, <1>3, <1>4, <1>5, <1>6, <1>7

LEMMA HelloInvariance == Spec => []HelloInv
  BY HelloInit, HelloStep, PTL DEF Spec

\* However the client cuts its message into records, read_hello() refuses none
\* that is acceptable, and takes one up to the record that completes it and not
\* an octet more: what follows is left on the socket for the TLS library.
THEOREM VerdictIsRight == Spec => []VerdictIsOfMessage
<1>1. HelloInv => VerdictIsOfMessage
  <2> SUFFICES ASSUME HelloInv PROVE VerdictIsOfMessage
    OBVIOUS
  <2>1. stage \in {"upstream", "uncaptured", "accept"} =>
          /\ Acceptable(client)
          /\ \E c \in DOMAIN client.records : Completes(client, c) /\ Len(bytes) = End(client, c)
    BY AcceptableIs DEF HelloInv, Judged, AcceptableAt
  <2> QED
    BY <2>1 DEF HelloInv, Judged, VerdictIsOfMessage
<1> QED
  BY <1>1, HelloInvariance, PTL

\* Whatever the origin's socket takes of each write, Tap's capture is what it
\* took, up to the limit or a whole hello, so that the connection goes on
\* exactly with an acceptable one.
THEOREM CaptureIsTheWire == Spec => []CaptureIsWire
<1>1. HelloInv => CaptureIsWire
  BY CaptureHasAll DEF HelloInv, CaptureJudged, CaptureIsWire, Inv, Captured
<1> QED
  BY <1>1, HelloInvariance, PTL
=============================================================================
