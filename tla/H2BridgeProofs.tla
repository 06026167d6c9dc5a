--------------------------- MODULE H2BridgeProofs ---------------------------
(***************************************************************************)
(* H2Bridge is safe, and in order, for every set of frames, limit, budget  *)
(* and wire.  The argument, section by section:                            *)
(*                                                                         *)
(*  - every step does one of nine things to the frames (Effects); the      *)
(*    sections after it know the steps by what they do;                    *)
(*  - a direction's step fits what it holds (Shape);                       *)
(*  - announcements are conserved on their way around the bridge           *)
(*    (Conserved), and what the bridge stores is the last it has read      *)
(*    (Stored), so that acknowledged, observed and read ones come in this  *)
(*    order;                                                               *)
(*  - a block behind the n-th acknowledgement obeys limits from the n-th   *)
(*    announcement on (Honoured), one on its way from a peer those that    *)
(*    the peer observed (Observing);                                       *)
(*  - what is written is made of whole blocks (AllIntact);                 *)
(*  - what a direction holds, block by block, is a queue (FrameChannel).   *)
(***************************************************************************)
EXTENDS H2Bridge, Induction, FiniteSetTheorems, SequenceTheorems, TLAPS

-----------------------------------------------------------------------------
\* Blocks: what Length() and reframe() make of them.

\* A frame's fields.
LEMMA FrameTypes ==
  ASSUME NEW f \in Frames
  PROVE  /\ f.kind \in Kinds /\ f.stream \in Streams \cup {0} /\ f.over \in 0..MaxOver
         /\ f.len \in Nat /\ f.end \in BOOLEAN /\ f.table \in Nat /\ f.frame \in Nat
         /\ f.size \in Nat /\ f.over \in Nat /\ Payload(f) \in Nat
  BY FramesAssumption DEF Frames, Payload

\* Frames as they are written.
LEMMA FrameIsFrame ==
  ASSUME NEW kind \in Kinds, NEW stream \in Streams \cup {0}
  PROVE  Frame(kind, stream) \in Frames
<1>1. 0 \in 0..MaxOver /\ 0 \in Nat
  BY FramesAssumption
<1> QED
  BY <1>1 DEF Frame, Frames

LEMMA ContinuationIsFrame ==
  ASSUME NEW stream \in Streams \cup {0}, NEW len \in Nat, NEW end \in BOOLEAN
  PROVE  Continuation(stream, len, end) \in Frames
<1>1. "continuation" \in Kinds
  BY DEF Kinds
<1>2. Frame("continuation", stream) \in Frames
  BY <1>1, FrameIsFrame
<1> QED
  BY <1>2 DEF Frames, Continuation

LEMMA HeadersIsFrame ==
  ASSUME NEW stream \in Streams \cup {0}, NEW over \in 0..MaxOver, NEW len \in Nat,
         NEW end \in BOOLEAN, NEW table \in Nat
  PROVE  Headers(stream, over, len, end, table) \in Frames
<1>1. "headers" \in Kinds
  BY DEF Kinds
<1>2. Frame("headers", stream) \in Frames
  BY <1>1, FrameIsFrame
<1> QED
  BY <1>2 DEF Frames, Headers

LEMMA SettingsIsFrame ==
  ASSUME NEW table \in Nat, NEW frame \in Nat
  PROVE  Settings(table, frame) \in Frames
<1>1. "settings" \in Kinds
  BY DEF Kinds
<1>2. Frame("settings", 0) \in Frames
  BY <1>1, FrameIsFrame
<1> QED
  BY <1>2 DEF Frames, Settings

LEMMA OtherIsFrame ==
  ASSUME NEW stream \in Streams \cup {0}, NEW len \in Nat
  PROVE  Other(stream, len) \in Frames
<1>1. "other" \in Kinds
  BY DEF Kinds
<1>2. Frame("other", stream) \in Frames
  BY <1>1, FrameIsFrame
<1> QED
  BY <1>2 DEF Frames, Other

\* Two frames that differ in length, END_HEADERS and size at most.
SameBut(f, g) ==
  /\ f.kind = g.kind /\ f.stream = g.stream /\ f.over = g.over
  /\ f.table = g.table /\ f.frame = g.frame

\* Length() is the last of the partial sums.
LEMMA LengthOf ==
  ASSUME NEW s \in Seq(Frames), NEW h, h[0] = 0,
         \A i \in 1..Len(s) : h[i] = h[i - 1] + s[i].len
  PROVE  Length(s) = h[Len(s)]
<1> DEFINE N == Len(s)
           step == [i \in 1..N |-> [x \in Nat |-> x + s[i].len]]
           sum == CHOOSE g : g = [i \in 0..N |-> IF i = 0 THEN 0 ELSE g[i - 1] + s[i].len]
           S == {i \in Nat : sum[i] = h[i]}
<1>1. N \in Nat /\ \A i \in 1..N : s[i] \in Frames /\ s[i].len \in Nat
  BY LenProperties, ElementOfSeq, FrameTypes
<1> HIDE DEF N
<1>2. step \in [1..N -> [Nat -> Nat]]
  BY <1>1
<1> HIDE DEF step
<1>3. PICK g \in [0..N -> Nat] : Recurs(g, N, 0, step)
  <2>1. 0 \in Nat
    OBVIOUS
  <2> QED  BY <1>1, <1>2, <2>1, RecursionUpTo
<1>4. g = [i \in 0..N |-> IF i = 0 THEN 0 ELSE g[i - 1] + s[i].len]
  <2>1. ASSUME NEW i \in 1..N PROVE g[i] = g[i - 1] + s[i].len
    <3>1. i - 1 \in 0..N
      BY <1>1
    <3> QED  BY <1>3, <3>1 DEF step, Recurs
  <2> QED  BY <1>1, <1>3, <2>1 DEF Recurs
<1>5. sum = [i \in 0..N |-> IF i = 0 THEN 0 ELSE sum[i - 1] + s[i].len]
  BY <1>4
<1>6. Length(s) = sum[N]
  BY DEF Length, N
<1> HIDE DEF sum
<1>7. 0 \in S
  BY <1>1, <1>5
<1>8. ASSUME NEW i \in 0..(N - 1), i \in S PROVE i + 1 \in S
  <2>1. i + 1 \in 1..N /\ i + 1 \in 0..N /\ i + 1 # 0 /\ (i + 1) - 1 = i
    BY <1>1
  <2>2. sum[i + 1] = sum[i] + s[i + 1].len
    BY <1>5, <2>1
  <2>3. h[i + 1] = h[i] + s[i + 1].len
    BY <2>1 DEF N
  <2> QED  BY <1>8, <2>2, <2>3
<1> HIDE DEF S
<1>9. 0..N \subseteq S
  BY <1>1, <1>7, <1>8, InductionUpTo
<1>10. sum[N] = h[N]
  BY <1>1, <1>9 DEF S
<1> QED  BY <1>6, <1>10 DEF N

\* How far each fragment gets: Written().
LEMMA WrittenIs ==
  ASSUME NEW block \in Seq(Frames), NEW n \in Nat, NEW max \in Nat, Fits(block, max)
  PROVE  LET pos == Written(block, n, max)
         IN  /\ \A i \in 0..Len(block) : pos[i] \in 0..n
             /\ pos[0] = 0
             /\ \A i \in 1..Len(block) :
                  /\ pos[i] - pos[i - 1] \in Nat
                  /\ block[i].over + (pos[i] - pos[i - 1]) <= max
<1> DEFINE N == Len(block)
           room(i) == IF i = N THEN max - block[i].over ELSE block[i].len
           step == [i \in 1..N |-> [x \in 0..n |-> Lesser(n, x + room(i))]]
           pos == CHOOSE g : g = [i \in 0..N |-> IF i = 0 THEN 0
                                                 ELSE Lesser(n, g[i - 1] + room(i))]
<1>1. N \in Nat /\ DOMAIN block = 1..N
  BY LenProperties
<1>2. \A i \in 1..N : block[i] \in Frames
  BY ElementOfSeq
<1>0. Written(block, n, max) = pos
  BY DEF Written
<1>3. ASSUME NEW i \in 1..N
      PROVE  room(i) \in Nat /\ block[i].over \in Nat /\ block[i].over + room(i) <= max
  <2>1. block[i].over \in Nat /\ block[i].len \in Nat
    BY <1>2, FrameTypes
  <2>2. block[i].over + block[i].len <= max
    BY <1>1 DEF Fits, Payload
  <2> HIDE DEF N
  <2> QED  BY <2>1, <2>2, SMTT(30)
<1> HIDE DEF N, room
<1>4. step \in [1..N -> [0..n -> 0..n]]
  BY <1>3 DEF Lesser
<1> HIDE DEF step
<1>5. PICK g \in [0..N -> 0..n] : Recurs(g, N, 0, step)
  <2>1. 0 \in 0..n
    OBVIOUS
  <2> QED  BY <1>1, <1>4, <2>1, RecursionUpTo
<1>6. g = [i \in 0..N |-> IF i = 0 THEN 0 ELSE Lesser(n, g[i - 1] + room(i))]
  <2>1. ASSUME NEW i \in 1..N PROVE g[i] = Lesser(n, g[i - 1] + room(i))
    <3>1. i - 1 \in 0..N
      BY <1>1
    <3>2. g[i - 1] \in 0..n
      BY <3>1, <1>5
    <3> QED  BY <1>5, <3>2 DEF step, Recurs
  <2> QED  BY <1>1, <1>5, <2>1 DEF Recurs
<1>7. pos = [i \in 0..N |-> IF i = 0 THEN 0 ELSE Lesser(n, pos[i - 1] + room(i))]
  BY <1>6
<1> HIDE DEF pos
<1> DEFINE S == {i \in Nat : i \in 0..N => pos[i] \in 0..n}
<1>8. pos[0] = 0
  BY <1>1, <1>7
<1>9. \A i \in 1..N : pos[i] = Lesser(n, pos[i - 1] + room(i))
  BY <1>1, <1>7
<1>10. 0..N \subseteq S
  <2>1. 0 \in S
    BY <1>8
  <2>2. ASSUME NEW i \in 0..(N - 1), i \in S PROVE i + 1 \in S
    <3>1. i + 1 \in 1..N /\ (i + 1) - 1 = i /\ i \in 0..N
      BY <1>1
    <3>2. pos[i + 1] = Lesser(n, pos[i] + room(i + 1)) /\ pos[i] \in 0..n
      BY <1>9, <2>2, <3>1
    <3> QED  BY <1>3, <3>1, <3>2 DEF Lesser
  <2> HIDE DEF S
  <2> QED  BY <1>1, <2>1, <2>2, InductionUpTo
<1>11. \A i \in 0..N : pos[i] \in 0..n
  BY <1>10
<1>12. ASSUME NEW i \in 1..N
       PROVE  pos[i] - pos[i - 1] \in Nat /\ block[i].over + (pos[i] - pos[i - 1]) <= max
  <2>1. i - 1 \in 0..N
    BY <1>1
  <2>2. pos[i - 1] \in 0..n /\ pos[i] = Lesser(n, pos[i - 1] + room(i))
    BY <1>9, <1>11, <2>1
  <2>3. room(i) \in Nat /\ block[i].over \in Nat /\ block[i].over + room(i) <= max
    BY <1>3
  <2> DEFINE p == pos[i - 1]
             q == pos[i]
             m == room(i)
             over == block[i].over
  <2>4. /\ p \in 0..n /\ q = Lesser(n, p + m)
        /\ m \in Nat /\ over \in Nat /\ over + m <= max
    BY <2>2, <2>3
  <2> HIDE DEF p, q, m, over
  <2>5. q - p \in Nat /\ over + (q - p) <= max
    BY <2>4 DEF Lesser
  <2> QED  BY <2>5 DEF p, q, m, over
<1> QED
  BY <1>0, <1>8, <1>11, <1>12 DEF N

\* The frames that reframe() adds carry what is left, in full frames but the last.
LEMMA AddedIs ==
  ASSUME NEW stream \in Streams \cup {0}, NEW rest \in Nat, NEW max \in Nat \ {0}
  PROVE  LET more == Added(stream, rest, max)
         IN  /\ more \in Seq(Frames)
             /\ \A i \in 1..Len(more) :
                  /\ more[i] = Continuation(stream, more[i].len, FALSE)
                  /\ more[i].len \in 0..max
                  /\ Lesser(rest, i * max) = Lesser(rest, (i - 1) * max) + more[i].len
             /\ Lesser(rest, Len(more) * max) = rest
<1> DEFINE q == (rest + max - 1) \div max
           more == Added(stream, rest, max)
<1>1. q \in Nat /\ q * max >= rest /\ \A i \in 1..q : (i - 1) * max < rest
  <2>1. q \in Nat /\ q * max <= rest + max - 1 /\ rest + max - 1 < (q + 1) * max
    OBVIOUS
  <2> HIDE DEF q
  <2>2. (q + 1) * max = q * max + max
    BY <2>1
  <2>3. ASSUME NEW i \in 1..q PROVE (i - 1) * max < rest
    <3>1. PICK k \in Nat : q = i + k
      <4>1. q - i \in Nat /\ q = i + (q - i)
        BY <2>1
      <4> QED  BY <4>1
    <3>2. q * max = (i - 1) * max + max + k * max
      BY <3>1
    <3>3. k * max \in Nat /\ (i - 1) * max \in Nat
      BY <3>1
    <3> QED  BY <2>1, <3>2, <3>3
  <2> QED  BY <2>1, <2>2, <2>3
<1>2. more = [i \in 1..q |-> Continuation(stream, Lesser(max, rest - (i - 1) * max), FALSE)]
  BY DEF Added
<1> HIDE DEF q, more
<1>3. ASSUME NEW i \in 1..q
      PROVE  /\ Lesser(max, rest - (i - 1) * max) \in 0..max
             /\ Lesser(rest, i * max) = Lesser(rest, (i - 1) * max) + Lesser(max, rest - (i - 1) * max)
  <2>1. (i - 1) * max < rest /\ (i - 1) * max \in Nat
    BY <1>1
  <2>2. i * max = (i - 1) * max + max
    OBVIOUS
  <2> DEFINE x == (i - 1) * max
  <2> HIDE DEF x
  <2>3. x < rest /\ x \in Nat /\ i * max = x + max
    BY <2>1, <2>2 DEF x
  <2>4. Lesser(max, rest - x) \in 0..max
    BY <2>3 DEF Lesser
  <2>5. Lesser(rest, x + max) = Lesser(rest, x) + Lesser(max, rest - x)
    BY <2>3 DEF Lesser
  <2> QED  BY <2>3, <2>4, <2>5 DEF x
<1>4. ASSUME NEW i \in 1..q
      PROVE  /\ more[i] \in Frames /\ more[i].len = Lesser(max, rest - (i - 1) * max)
             /\ more[i] = Continuation(stream, more[i].len, FALSE)
  <2>1. more[i] = Continuation(stream, Lesser(max, rest - (i - 1) * max), FALSE)
    BY <1>2
  <2>2. Lesser(max, rest - (i - 1) * max) \in Nat
    BY <1>3
  <2> DEFINE n == Lesser(max, rest - (i - 1) * max)
  <2> HIDE DEF n
  <2>3. Continuation(stream, n, FALSE).len = n
    BY DEF Continuation, Frame
  <2>4. n \in Nat => Continuation(stream, n, FALSE) \in Frames
    BY ContinuationIsFrame
  <2> QED  BY <2>1, <2>2, <2>3, <2>4 DEF n
<1>5. more \in Seq(Frames) /\ Len(more) = q
  <2>1. more \in [1..q -> Frames]
    BY <1>2, <1>4
  <2> QED  BY <1>1, <2>1, SeqDef, LenProperties
<1>6. Lesser(rest, q * max) = rest
  BY <1>1 DEF Lesser
<1> QED
  BY <1>3, <1>4, <1>5, <1>6 DEF more

\* reframe(): fragments that fit, the header's first, and then what was left, all
\* of the block's stream and octets, ended once.
LEMMA ReframeIs ==
  ASSUME NEW block \in Seq(Frames), block # <<>>, NEW n \in Nat, NEW max \in Nat \ {0},
         Fits(block, max)
  PROVE  LET r == Reframe(block, n, max)
         IN  /\ r \in Seq(Frames) /\ Len(block) \in 1..Len(r)
             /\ r[1].size = n /\ Length(r) = n
             /\ \A i \in 1..Len(r) : Payload(r[i]) <= max /\ (r[i].end <=> i = Len(r))
             /\ \A i \in 1..Len(block) : SameBut(r[i], block[i])
             /\ \A i \in Len(block) + 1..Len(r) :
                  r[i].kind = "continuation" /\ r[i].stream = block[1].stream /\ r[i].table = 0
<1> DEFINE N == Len(block)
           pos == Written(block, n, max)
           rest == n - pos[N]
           kept == Kept(block, pos)
           more == Added(block[1].stream, rest, max)
           all == kept \o more
           M == Len(more)
           r == Reframe(block, n, max)
           part(i) == IF i <= N THEN kept[i] ELSE more[i - N]
<1>1. N \in Nat \ {0} /\ DOMAIN block = 1..N
  BY EmptySeq, LenProperties
<1>2. \A i \in 1..N : block[i] \in Frames
  BY ElementOfSeq
<1>3. /\ \A i \in 0..N : pos[i] \in 0..n
      /\ pos[0] = 0
      /\ \A i \in 1..N : /\ pos[i] - pos[i - 1] \in Nat
                         /\ block[i].over + (pos[i] - pos[i - 1]) <= max
  BY WrittenIs
<1>4. rest \in Nat
  <2>1. pos[N] \in 0..n
    BY <1>1, <1>3
  <2> QED  BY <2>1
<1>5. block[1].stream \in Streams \cup {0}
  BY <1>1, <1>2, FrameTypes
<1> HIDE DEF N, pos
<1>6. kept = [i \in 1..N |-> [block[i] EXCEPT !.len = pos[i] - pos[i - 1], !.end = FALSE]]
  BY <1>1 DEF Kept
<1> HIDE DEF kept
<1>7. \A i \in 1..N :
        /\ kept[i] \in Frames /\ kept[i].len = pos[i] - pos[i - 1] /\ kept[i].end = FALSE
        /\ SameBut(kept[i], block[i])
  BY <1>2, <1>3, <1>6 DEF Frames, SameBut
<1>8. kept \in Seq(Frames) /\ Len(kept) = N
  <2>1. kept \in [1..N -> Frames]
    BY <1>6, <1>7
  <2> QED  BY <1>1, <2>1, SeqDef, LenProperties
<1> HIDE DEF rest
<1>9. /\ more \in Seq(Frames)
      /\ \A i \in 1..M :
           /\ more[i] = Continuation(block[1].stream, more[i].len, FALSE)
           /\ more[i].len \in 0..max
           /\ Lesser(rest, i * max) = Lesser(rest, (i - 1) * max) + more[i].len
      /\ Lesser(rest, M * max) = rest
  BY <1>4, <1>5, AddedIs
<1> HIDE DEF more
<1>10. M \in Nat /\ \A i \in 1..M : more[i] \in Frames
  BY <1>9, LenProperties, ElementOfSeq
<1>11. \A i \in 1..M : /\ more[i].kind = "continuation" /\ more[i].stream = block[1].stream
                       /\ more[i].over = 0 /\ more[i].table = 0 /\ more[i].end = FALSE
  <2> SUFFICES ASSUME NEW i \in 1..M
               PROVE  /\ more[i].kind = "continuation" /\ more[i].stream = block[1].stream
                      /\ more[i].over = 0 /\ more[i].table = 0 /\ more[i].end = FALSE
    OBVIOUS
  <2>1. more[i] = Continuation(block[1].stream, more[i].len, FALSE)
    BY <1>9
  <2> DEFINE len == more[i].len
  <2> HIDE DEF len
  <2>2. more[i] = Continuation(block[1].stream, len, FALSE)
    BY <2>1 DEF len
  <2> QED  BY <2>2 DEF Continuation, Frame
<1>12. /\ all \in Seq(Frames) /\ Len(all) = N + M
       /\ \A i \in 1..N + M : all[i] = part(i)
  <2>1. /\ all \in Seq(Frames) /\ Len(all) = Len(kept) + Len(more)
        /\ \A i \in 1..Len(kept) + Len(more) :
             all[i] = IF i <= Len(kept) THEN kept[i] ELSE more[i - Len(kept)]
    BY <1>8, <1>9, ConcatProperties
  <2> HIDE DEF all
  <2> QED  BY <2>1, <1>8
<1> HIDE DEF M, all
<1>13. r = [all EXCEPT ![1].size = n, ![N + M].end = TRUE]
  BY <1>12 DEF Reframe, N, all, kept, more, rest, pos
<1> HIDE DEF r
<1>14. DOMAIN all = 1..N + M /\ 1 \in 1..N + M /\ N + M \in 1..N + M
  BY <1>1, <1>10, <1>12, LenProperties
<1>15. ASSUME NEW i \in 1..N + M
       PROVE  /\ r[i] \in Frames /\ SameBut(r[i], all[i])
              /\ r[i].len = all[i].len
              /\ r[i].end = (IF i = N + M THEN TRUE ELSE all[i].end)
              /\ i = 1 => r[i].size = n
  <2> DEFINE f == all[i]
             g == IF i = 1 THEN [f EXCEPT !.size = n] ELSE f
             h == IF i = N + M THEN [g EXCEPT !.end = TRUE] ELSE g
  <2>1. f \in Frames
    BY <1>12, ElementOfSeq
  <2>2. r[i] = h
    BY <1>13, <1>14
  <2> HIDE DEF f
  <2>3. g \in Frames /\ SameBut(g, f) /\ g.len = f.len /\ g.end = f.end /\ (i = 1 => g.size = n)
    BY <2>1 DEF Frames, SameBut
  <2> HIDE DEF g
  <2>4. h \in Frames /\ SameBut(h, g) /\ h.len = g.len /\ h.size = g.size
        /\ h.end = (IF i = N + M THEN TRUE ELSE g.end)
    BY <2>3 DEF Frames, SameBut
  <2> HIDE DEF h
  <2> QED  BY <2>2, <2>3, <2>4 DEF SameBut, f
<1>16. r \in Seq(Frames) /\ Len(r) = N + M
  <2>0. DOMAIN r = 1..N + M /\ r = [i \in DOMAIN r |-> r[i]]
    BY <1>13, <1>14
  <2>1. r \in [1..N + M -> Frames]
    BY <1>15, <2>0
  <2>2. N + M \in Nat
    BY <1>1, <1>10
  <2> QED  BY <2>1, <2>2, SeqDef, LenProperties
<1>17. ASSUME NEW i \in 1..N + M
       PROVE  Payload(r[i]) <= max /\ (r[i].end <=> i = N + M)
  <2>0. r[i].over = all[i].over /\ r[i].len = all[i].len
        /\ r[i].end = (IF i = N + M THEN TRUE ELSE all[i].end)
    BY <1>15 DEF SameBut
  <2>1. CASE i <= N
    <3>1. i \in 1..N /\ all[i] = kept[i]
      BY <1>1, <1>12, <2>1
    <3>2. kept[i].len = pos[i] - pos[i - 1] /\ kept[i].end = FALSE /\ kept[i].over = block[i].over
      BY <1>7, <3>1 DEF SameBut
    <3>3. block[i].over + (pos[i] - pos[i - 1]) <= max
      BY <1>3, <3>1
    <3> QED  BY <2>0, <3>1, <3>2, <3>3 DEF Payload
  <2>2. CASE ~(i <= N)
    <3>1. i - N \in 1..M /\ all[i] = more[i - N]
      BY <1>1, <1>10, <1>12, <2>2
    <3>2. more[i - N].len \in 0..max
      BY <1>9, <3>1
    <3>3. more[i - N].over = 0 /\ more[i - N].end = FALSE
      BY <1>11, <3>1
    <3> QED  BY <2>0, <3>1, <3>2, <3>3 DEF Payload
  <2> QED  BY <2>1, <2>2
<1>18. ASSUME NEW i \in 1..N
       PROVE  SameBut(r[i], block[i])
  <2>1. i \in 1..N + M /\ all[i] = kept[i]
    BY <1>1, <1>10, <1>12
  <2>2. SameBut(r[i], all[i]) /\ SameBut(kept[i], block[i])
    BY <1>7, <1>15, <2>1
  <2> QED  BY <2>1, <2>2 DEF SameBut
<1>19. ASSUME NEW i \in N + 1..N + M
       PROVE  r[i].kind = "continuation" /\ r[i].stream = block[1].stream /\ r[i].table = 0
  <2>1. i \in 1..N + M /\ i - N \in 1..M /\ all[i] = more[i - N]
    BY <1>1, <1>10, <1>12
  <2>2. SameBut(r[i], all[i])
    BY <1>15, <2>1
  <2>3. more[i - N].kind = "continuation" /\ more[i - N].stream = block[1].stream
        /\ more[i - N].table = 0
    BY <1>11, <2>1
  <2> QED  BY <2>1, <2>2, <2>3 DEF SameBut
<1>20. Length(r) = n
  <2> DEFINE h == [i \in 0..N + M |-> IF i <= N THEN pos[i] ELSE pos[N] + Lesser(rest, (i - N) * max)]
  <2>1. h[0] = 0
    BY <1>1, <1>3, <1>10
  <2>2. ASSUME NEW i \in 1..Len(r) PROVE h[i] = h[i - 1] + r[i].len
    <3>0. i \in 1..N + M /\ i - 1 \in 0..N + M /\ i \in 0..N + M
      BY <1>1, <1>10, <1>16
    <3>1. CASE i <= N
      <4>1. i \in 1..N /\ all[i] = kept[i] /\ h[i] = pos[i] /\ h[i - 1] = pos[i - 1]
        BY <1>1, <1>12, <3>0, <3>1
      <4>2. pos[i] \in 0..n /\ pos[i - 1] \in 0..n
        BY <1>1, <1>3, <4>1
      <4>3. r[i].len = pos[i] - pos[i - 1]
        <5>1. r[i].len = all[i].len
          BY <1>15, <3>0
        <5>2. kept[i].len = pos[i] - pos[i - 1]
          BY <1>7, <4>1
        <5> QED  BY <4>1, <5>1, <5>2
      <4> HIDE DEF h
      <4>4. \A a, b \in 0..n : a = b + (a - b)
        OBVIOUS
      <4>5. h[i] = pos[i - 1] + (pos[i] - pos[i - 1])
        BY <4>1, <4>2, <4>4
      <4> QED  BY <4>1, <4>3, <4>5
    <3>2. CASE ~(i <= N)
      <4>1. i - N \in 1..M /\ all[i] = more[i - N]
        BY <1>1, <1>10, <1>12, <3>0, <3>2
      <4>2. h[i] = pos[N] + Lesser(rest, (i - N) * max)
        BY <3>0, <3>2
      <4>3. h[i - 1] = pos[N] + Lesser(rest, ((i - N) - 1) * max)
        <5>1. CASE i - 1 <= N
          <6>1. i - 1 = N /\ (i - N) - 1 = 0
            BY <1>1, <3>0, <3>2, <5>1
          <6>2. Lesser(rest, 0 * max) = 0
            BY <1>4 DEF Lesser
          <6>3. pos[N] \in 0..n
            BY <1>1, <1>3
          <6> QED  BY <3>0, <5>1, <6>1, <6>2, <6>3
        <5>2. CASE ~(i - 1 <= N)
          <6>1. (i - 1) - N = (i - N) - 1
            BY <1>1, <3>0
          <6> QED  BY <3>0, <5>2, <6>1
        <5> QED  BY <5>1, <5>2
      <4>4. r[i].len = more[i - N].len /\ r[i].len \in Nat
        <5>1. r[i].len = all[i].len
          BY <1>15, <3>0
        <5>2. more[i - N].len \in 0..max
          BY <1>9, <4>1
        <5> QED  BY <4>1, <5>1, <5>2
      <4>5. Lesser(rest, (i - N) * max) = Lesser(rest, ((i - N) - 1) * max) + more[i - N].len
        BY <1>9, <4>1
      <4> DEFINE x == Lesser(rest, ((i - N) - 1) * max)
                 y == Lesser(rest, (i - N) * max)
      <4>6. x \in Nat
        <5>1. ((i - N) - 1) * max \in Nat
          BY <4>1
        <5> QED  BY <1>4, <5>1 DEF Lesser
      <4>7. pos[N] \in Nat
        BY <1>1, <1>3
      <4> HIDE DEF x, y, h
      <4>8. h[i] = pos[N] + y /\ h[i - 1] = pos[N] + x /\ y = x + r[i].len
        BY <4>2, <4>3, <4>4, <4>5 DEF x, y
      <4>9. \A a, b, c \in Nat : a + (b + c) = (a + b) + c
        OBVIOUS
      <4>10. r[i].len \in Nat
        BY <4>4
      <4>11. h[i] = pos[N] + (x + r[i].len)
        BY <4>8
      <4>12. pos[N] + (x + r[i].len) = (pos[N] + x) + r[i].len
        BY <4>6, <4>7, <4>9, <4>10
      <4>13. h[i - 1] = pos[N] + x
        BY <4>8
      <4> QED  BY <4>11, <4>12, <4>13
    <3> QED  BY <3>1, <3>2
  <2>3. Length(r) = h[Len(r)]
    <3> HIDE DEF h
    <3> QED  BY <1>16, <2>1, <2>2, LengthOf
  <2>4. h[N + M] = n
    <3>1. pos[N] \in 0..n /\ rest = n - pos[N]
      BY <1>1, <1>3 DEF rest
    <3>2. CASE M = 0
      <4>1. rest = 0
        <5>1. Lesser(rest, 0 * max) = rest
          BY <1>9, <3>2
        <5> QED  BY <1>4, <5>1 DEF Lesser
      <4> QED  BY <1>1, <3>1, <3>2, <4>1
    <3>3. CASE M # 0
      <4>1. ~(N + M <= N) /\ (N + M) - N = M
        BY <1>1, <1>10, <3>3
      <4>2. h[N + M] = pos[N] + Lesser(rest, M * max)
        BY <1>14, <4>1
      <4> QED  BY <1>9, <3>1, <4>2
    <3> QED  BY <3>2, <3>3
  <2> QED  BY <1>16, <2>3, <2>4
<1>21. N \in 1..N + M /\ r[1].size = n
  <2>1. N \in 1..N + M
    BY <1>1, <1>10
  <2>2. 1 \in 1..N + M
    BY <1>14
  <2> QED  BY <1>15, <2>1, <2>2
<1> QED
  BY <1>16, <1>17, <1>18, <1>19, <1>20, <1>21 DEF N, r

-----------------------------------------------------------------------------
\* Announcements in transit: the SETTINGS that the bridge passes on, and their
\* acknowledgements.

Announcements == {"settings", "ack"}
Is(k, f) == f.kind = k /\ (k = "settings" => SettingsOk(f))
One(k, f) == IF Is(k, f) THEN 1 ELSE 0

\* Those among the first i frames, and among all.
Ahead(s, k, i) == Cardinality({j \in 1..i : Is(k, s[j])})
Count(s, k) == Ahead(s, k, Len(s))

LEMMA AheadStep ==
  ASSUME NEW s, NEW k, NEW i \in Nat
  PROVE  /\ Ahead(s, k, i) \in Nat /\ Ahead(s, k, 0) = 0
         /\ Ahead(s, k, i + 1) = Ahead(s, k, i) + One(k, s[i + 1])
<1> DEFINE A(n) == {j \in 1..n : Is(k, s[j])}
<1>1. IsFiniteSet(A(i)) /\ Cardinality(A(i)) \in Nat
  <2>1. IsFiniteSet(1..i)
    BY FS_Interval
  <2>2. A(i) \in SUBSET (1..i)
    OBVIOUS
  <2> QED  BY <2>1, <2>2, FS_Subset, FS_CardinalityType
<1>2. A(0) = {}
  OBVIOUS
<1>3. A(i + 1) = IF Is(k, s[i + 1]) THEN A(i) \cup {i + 1} ELSE A(i)
  OBVIOUS
<1>4. i + 1 \notin A(i)
  OBVIOUS
<1> HIDE DEF A
<1>5. Cardinality(A(i) \cup {i + 1}) = Cardinality(A(i)) + 1
  BY <1>1, <1>4, FS_AddElement
<1>6. Cardinality(A(0)) = 0
  BY <1>2, FS_EmptySet
<1>7. Ahead(s, k, i) = Cardinality(A(i)) /\ Ahead(s, k, 0) = Cardinality(A(0))
      /\ Ahead(s, k, i + 1) = Cardinality(A(i + 1))
  BY DEF Ahead, A
<1> QED
  BY <1>1, <1>3, <1>5, <1>6, <1>7 DEF One

LEMMA CountType ==
  ASSUME NEW s \in Seq(Frames), NEW k
  PROVE  Count(s, k) \in Nat /\ \A i \in 0..Len(s) : Ahead(s, k, i) \in Nat
<1>1. Len(s) \in Nat
  BY LenProperties
<1> QED
  BY <1>1, AheadStep DEF Count

LEMMA AheadUpTo ==
  ASSUME NEW s \in Seq(Frames), NEW k, NEW i \in 0..Len(s)
  PROVE  Ahead(s, k, i) \in 0..Count(s, k)
<1>1. Len(s) \in Nat /\ IsFiniteSet(1..Len(s))
  BY LenProperties, FS_Interval
<1> DEFINE A == {j \in 1..i : Is(k, s[j])}
           B == {j \in 1..Len(s) : Is(k, s[j])}
<1>2. A \in SUBSET B /\ B \in SUBSET (1..Len(s))
  BY <1>1
<1>3. IsFiniteSet(B)
  BY <1>1, <1>2, FS_Subset
<1>4. Cardinality(A) <= Cardinality(B) /\ Cardinality(A) \in Nat /\ Cardinality(B) \in Nat
  BY <1>2, <1>3, FS_Subset, FS_CardinalityType
<1> QED
  BY <1>4 DEF Ahead, Count

LEMMA CountEmpty == ASSUME NEW k PROVE Count(<<>>, k) = 0
<1>1. Len(<<>>) = 0 /\ 0 \in Nat
  OBVIOUS
<1> QED
  BY <1>1, AheadStep DEF Count

LEMMA AheadAppend ==
  ASSUME NEW s \in Seq(Frames), NEW f \in Frames, NEW k
  PROVE  /\ \A i \in 0..Len(s) : Ahead(Append(s, f), k, i) = Ahead(s, k, i)
         /\ Count(Append(s, f), k) = Count(s, k) + One(k, f)
         /\ Ahead(Append(s, f), k, Len(s) + 1) = Count(s, k) + One(k, f)
<1> DEFINE t == Append(s, f)
<1>1. Len(s) \in Nat /\ Len(t) = Len(s) + 1 /\ t[Len(s) + 1] = f
      /\ \A j \in 1..Len(s) : t[j] = s[j]
  BY LenProperties, AppendProperties
<1> HIDE DEF t
<1>2. ASSUME NEW i \in 0..Len(s)
      PROVE  Ahead(t, k, i) = Ahead(s, k, i)
  <2>1. {j \in 1..i : Is(k, t[j])} = {j \in 1..i : Is(k, s[j])}
    BY <1>1
  <2> QED  BY <2>1 DEF Ahead
<1>3. Ahead(t, k, Len(s) + 1) = Ahead(t, k, Len(s)) + One(k, f)
  BY <1>1, AheadStep
<1>4. Len(s) \in 0..Len(s)
  BY <1>1
<1>5. Ahead(t, k, Len(s)) = Count(s, k)
  BY <1>2, <1>4 DEF Count
<1> QED
  BY <1>1, <1>2, <1>3, <1>5 DEF Count, t

LEMMA AheadTail ==
  ASSUME NEW s \in Seq(Frames), s # <<>>, NEW k
  PROVE  /\ \A i \in 0..Len(s) - 1 : Ahead(Tail(s), k, i) = Ahead(s, k, i + 1) - One(k, Head(s))
         /\ Count(Tail(s), k) = Count(s, k) - One(k, Head(s))
<1> DEFINE t == Tail(s)
           N == Len(s) - 1
           S == {i \in Nat : Ahead(t, k, i) = Ahead(s, k, i + 1) - One(k, Head(s))}
<1>1. N \in Nat /\ Len(t) = N /\ \A j \in 1..N : t[j] = s[j + 1]
  BY EmptySeq, HeadTailProperties
<1>2. Head(s) = s[1]
  BY HeadTailProperties
<1>3. One(k, Head(s)) \in {0, 1}
  BY DEF One
<1> HIDE DEF t, N
<1>4. 0 \in S
  <2>1. Ahead(t, k, 0) = 0 /\ Ahead(s, k, 0) = 0 /\ Ahead(s, k, 0 + 1) = Ahead(s, k, 0) + One(k, s[0 + 1])
    BY AheadStep
  <2> QED  BY <1>2, <1>3, <2>1
<1>5. ASSUME NEW i \in 0..(N - 1), i \in S
      PROVE  i + 1 \in S
  <2>1. i \in Nat /\ i + 1 \in Nat /\ i + 1 \in 1..N
    BY <1>1
  <2>2. Ahead(t, k, i + 1) = Ahead(t, k, i) + One(k, t[i + 1])
    BY <2>1, AheadStep
  <2>3. Ahead(s, k, (i + 1) + 1) = Ahead(s, k, i + 1) + One(k, s[(i + 1) + 1]) /\ Ahead(s, k, i + 1) \in Nat
    BY <2>1, AheadStep
  <2>4. t[i + 1] = s[(i + 1) + 1]
    BY <1>1, <2>1
  <2>5. One(k, t[i + 1]) \in {0, 1}
    BY DEF One
  <2> QED  BY <1>3, <1>5, <2>1, <2>2, <2>3, <2>4, <2>5
<1> HIDE DEF S
<1>6. 0..N \subseteq S
  BY <1>1, <1>4, <1>5, InductionUpTo
<1>7. \A i \in 0..N : Ahead(t, k, i) = Ahead(s, k, i + 1) - One(k, Head(s))
  BY <1>6 DEF S
<1>8. Count(t, k) = Count(s, k) - One(k, Head(s))
  <2>1. N \in 0..N /\ N + 1 = Len(s)
    <3>1. Len(s) \in Nat
      BY LenProperties
    <3> QED  BY <1>1, <3>1 DEF N
  <2> QED  BY <1>1, <1>7, <2>1 DEF Count
<1> QED
  BY <1>7, <1>8 DEF t, N

LEMMA CountNone ==
  ASSUME NEW s \in Seq(Frames), NEW k, \A i \in 1..Len(s) : ~Is(k, s[i])
  PROVE  Count(s, k) = 0
<1>1. {j \in 1..Len(s) : Is(k, s[j])} = {}
  OBVIOUS
<1> QED
  BY <1>1, FS_EmptySet DEF Count, Ahead

LEMMA CountOne ==
  ASSUME NEW f \in Frames, NEW k
  PROVE  Count(<<f>>, k) = One(k, f)
<1>1. Append(<<>>, f) = <<f>> /\ <<>> \in Seq(Frames)
  OBVIOUS
<1>2. Count(Append(<<>>, f), k) = Count(<<>>, k) + One(k, f)
  BY <1>1, AheadAppend
<1>3. One(k, f) \in Nat
  BY DEF One
<1> QED
  BY <1>1, <1>2, <1>3, CountEmpty

-----------------------------------------------------------------------------
\* Where frames are: a direction gathers a block, or writes what it read.
PeerStates == [left : Nat, block : Streams \cup {0}, eof : {"open", "clean", "torn"},
               applied : Nat, owed : Nat]

Sent == {f \in Frames : f.kind = "continuation" => f.table = 0}
Passed == {f \in Frames : f.kind = "settings" => SettingsOk(f)}
Follows(s, i) == s[i].kind = "continuation" /\ s[i].table = 0 /\ s[i].stream = s[1].stream
Gathered(s) == s[1].kind = "headers" /\ \A i \in 2..Len(s) : Follows(s, i)

ShapeOf(d) ==
  /\ pc[d] = "write" <=> out[d] # <<>>
  /\ pc[d] = "block" <=> got[d] # <<>>
  /\ pc[d] = "preface" => up[d] # <<>> /\ Head(up[d]) \in {Preface, Other(0, 0)}
  /\ got[d] # <<>> => Gathered(got[d])
  /\ \A i \in 1..Len(out[d]) : IsBlock(out[d][i]) \/ Len(out[d]) = 1
  /\ up[d] \in Seq(Sent) /\ out[d] \in Seq(Passed) /\ down[d] \in Seq(Passed)
Shape == \A d \in Peers : ShapeOf(d)

\* What a step does to the frames, the limits and the counts, in nine cases.
Asked(f) == [table |-> f.table, frame |-> f.frame]
Obeys(f, l) == Payload(f) <= l.frame /\ (f.kind = "headers" => f.table <= l.table)

SameCounts ==
  /\ peer' \in [Peers -> PeerStates]
  /\ \A e \in Peers : peer'[e].applied = peer[e].applied /\ peer'[e].owed = peer[e].owed

Sends(e) ==
  \E f \in Frames :
    /\ f.kind # "ack" /\ (f.kind = "continuation" => f.table = 0)
    /\ f \in Faults \/ ~IsBlock(f) \/ Obeys(f, Observed(e))
    /\ f.kind # "continuation" => Item(f) \in Items
    /\ up' = [up EXCEPT ![e] = Append(@, f)]
    /\ sent' = IF Is("settings", f) THEN [sent EXCEPT ![e] = Append(@, Asked(f))] ELSE sent
    /\ SameCounts /\ UNCHANGED <<bridgeVars, down, acked>>

Acks(e) ==
  /\ peer[e].owed > 0
  /\ up' = [up EXCEPT ![e] = Append(@, Ack)]
  /\ peer' = [peer EXCEPT ![e].applied = @ + 1, ![e].owed = @ - 1]
  /\ UNCHANGED <<bridgeVars, down, sent, acked>>

Passes(d) ==
  LET f == Head(up[d])
  IN  /\ up[d] # <<>> /\ out[d] = <<>> /\ got[d] = <<>>
      /\ f.kind \in {"preface", "settings", "ack", "other"}
      /\ f.kind = "settings" => SettingsOk(f)
      /\ limits' = IF f.kind = "settings" THEN [limits EXCEPT ![Peer(d)] = Asked(f)] ELSE limits
      /\ Forward(d, <<f>>) /\ UNCHANGED got

\* The frame that a direction reads belongs to the block that it gathers.
Block(d) == Append(got[d], Head(up[d]))
Belongs(d) ==
  /\ up[d] # <<>> /\ out[d] = <<>>
  /\ IF got[d] = <<>> THEN Head(up[d]).kind = "headers"
     ELSE Head(up[d]).kind = "continuation" /\ Head(up[d]).stream = got[d][1].stream
InLimits(d) == Block(d)[1].table <= limits[d].table /\ Fits(Block(d), limits[d].frame)

Gathers(d) == Belongs(d) /\ More(d, Block(d))

PassesBlock(d) ==
  /\ Belongs(d) /\ InLimits(d)
  /\ \E n \in Nat : Forward(d, Reframe(Block(d), n, limits[d].frame))
  /\ got' = [got EXCEPT ![d] = <<>>] /\ UNCHANGED limits

Refuses(d) == Belongs(d) /\ ~InLimits(d) /\ Fail("limit")

Idles ==
  /\ res' \in {"run", "ok", "error", "limit"} /\ (res' = "limit" => res = "limit")
  /\ \A d \in Peers : pc'[d] = pc[d] \/ (pc[d] = "read" /\ pc'[d] = "done")
  /\ pc' = [d \in Peers |-> pc'[d]]
  /\ SameCounts /\ UNCHANGED <<limits, got, out, wireVars, sent, acked>>

Effect ==
  \/ \E d \in Peers : \/ Sends(d) \/ Acks(d) \/ Receive(d) \/ Passes(d) \/ Gathers(d)
                      \/ PassesBlock(d) \/ Write(d) \/ Refuses(d)
  \/ Idles

LEMMA TwoPeers ==
  ASSUME NEW e \in Peers
  PROVE  /\ Peer(e) \in Peers /\ Peer(Peer(e)) = e /\ Peer(e) # e
         /\ \A x \in Peers : x = e \/ x = Peer(e)
  BY DEF Peers, Peer

\* The frame a direction reads, if there is one.
LEMMA HeadOf ==
  ASSUME TypeOK, NEW d \in Peers, up[d] # <<>>
  PROVE  Head(up[d]) \in Frames /\ Head(up[d]) = up[d][1] /\ 1 \in 1..Len(up[d])
<1>1. up[d] \in Seq(Frames)
  BY DEF TypeOK
<1> QED
  BY <1>1, HeadTailProperties, EmptySeq

\* The items that peers send.
LEMMA ItemsSent ==
  /\ \A f \in {Preface, Ack, Other(0, 0)} \cup Faults : Item(f) \in Items
  /\ \A table \in Tables, frame \in FrameSizes : Item(Settings(table, frame)) \in Items
  /\ \A stream \in Streams : Item(Other(stream, 0)) \in Items
  /\ \A stream \in Streams, over \in Overs, table \in Tables \cup {0} :
       Item(Headers(stream, over, 0, TRUE, table)) \in Items
<1>1. \A f \in {Preface, Ack, Other(0, 0)} \cup Faults : Item(f) \in Items
  BY Zenon DEF Items
<1>2. \A table \in Tables, frame \in FrameSizes : Item(Settings(table, frame)) \in Items
  BY SMT DEF Items, Item, Settings, Frame
<1>3. \A stream \in Streams : Item(Other(stream, 0)) \in Items
  BY SMT DEF Items, Item, Other, Frame
<1>4. \A stream \in Streams, over \in Overs, table \in Tables \cup {0} :
        Item(Headers(stream, over, 0, TRUE, table)) \in Items
  BY SMT DEF Items, Item, Headers, Frame
<1> QED  BY <1>1, <1>2, <1>3, <1>4

LEMMA PeerSends ==
  ASSUME TypeOK, NEW e \in Peers, PeerStep(e)
  PROVE  Sends(e) \/ Acks(e) \/ Idles
<1>0. peer \in [Peers -> PeerStates] /\ peer[e] \in PeerStates /\ pc \in [Peers -> {"preface", "read", "block", "write", "done"}]
  BY DEF TypeOK, PeerStates
<1>1. ASSUME NEW left \in Nat, NEW block \in Streams \cup {0},
             peer' = [peer EXCEPT ![e].left = left, ![e].block = block]
      PROVE  SameCounts
  BY <1>0, <1>1 DEF SameCounts, PeerStates
<1>2. peer[e].left > 0 => Fewer(e) \in Nat
  BY <1>0 DEF PeerStates, Fewer
<1>3. ASSUME NEW table \in Tables, NEW frame \in FrameSizes, SendSettings(e, table, frame)
      PROVE  Sends(e)
  <2> DEFINE f == Settings(table, frame)
  <2>1. f \in Frames
    BY SettingsIsFrame, BridgeAssumption, FramesAssumption
  <2>2. f.kind = "settings" /\ f.table = table /\ f.frame = frame
    BY DEF Settings, Frame
  <2>3. Is("settings", f)
    BY <2>2, BridgeAssumption DEF Is, SettingsOk
  <2>4. Asked(f) = [table |-> table, frame |-> frame]
    BY <2>2 DEF Asked
  <2>5. Item(f) \in Items
    BY ItemsSent
  <2>6. 0 \in Streams \cup {0}
    OBVIOUS
  <2>7. /\ up' = [up EXCEPT ![e] = Append(@, f)]
        /\ peer' = [peer EXCEPT ![e].left = Fewer(e), ![e].block = 0] /\ peer[e].left > 0
        /\ sent' = [sent EXCEPT ![e] = Append(@, [table |-> table, frame |-> frame])]
        /\ UNCHANGED <<bridgeVars, down, acked>>
    BY <1>3 DEF SendSettings, Send
  <2>8. SameCounts
    BY <1>1, <1>2, <2>6, <2>7
  <2> HIDE DEF f
  <2> QED  BY <2>1, <2>2, <2>3, <2>4, <2>5, <2>7, <2>8 DEF Sends, IsBlock
<1>4. ASSUME NEW stream \in Streams, NEW len \in Lens, SendOther(e, stream, len)
      PROVE  Sends(e)
  <2> DEFINE f == Other(stream, len)
  <2>1. f \in Frames
    BY OtherIsFrame, BridgeAssumption
  <2>2. f.kind = "other"
    BY DEF Other, Frame
  <2>3. Item(f) \in Items
    <3>1. Item(f) = Item(Other(stream, 0))
      BY DEF Item, Other, Frame
    <3> QED  BY <3>1, ItemsSent
  <2>4. /\ up' = [up EXCEPT ![e] = Append(@, f)]
        /\ peer' = [peer EXCEPT ![e].left = Fewer(e), ![e].block = 0] /\ peer[e].left > 0
        /\ UNCHANGED <<bridgeVars, down, acked, sent>>
    BY <1>4 DEF SendOther, Send
  <2>5. 0 \in Streams \cup {0}
    OBVIOUS
  <2>6. SameCounts
    BY <1>1, <1>2, <2>4, <2>5
  <2> HIDE DEF f
  <2> QED  BY <2>1, <2>2, <2>3, <2>4, <2>6 DEF Sends, IsBlock, Is
<1>5. ASSUME NEW stream \in Streams, NEW over \in Overs, NEW len \in Lens, NEW end \in BOOLEAN,
             NEW table \in Tables \cup {0}, SendHeaders(e, stream, over, len, end, table)
      PROVE  Sends(e)
  <2> DEFINE f == Headers(stream, over, len, end, table)
  <2>1. f \in Frames
    BY HeadersIsFrame, BridgeAssumption
  <2>2. f.kind = "headers" /\ f.over = over /\ f.len = len /\ f.table = table
    BY DEF Headers, Frame
  <2>3. Item(f) \in Items
    <3>1. Item(f) = Item(Headers(stream, over, 0, TRUE, table))
      BY DEF Item, Headers, Frame
    <3> QED  BY <3>1, ItemsSent
  <2> DEFINE block == IF end THEN 0 ELSE stream
  <2>4. /\ up' = [up EXCEPT ![e] = Append(@, f)]
        /\ peer' = [peer EXCEPT ![e].left = Fewer(e), ![e].block = block] /\ peer[e].left > 0
        /\ UNCHANGED <<bridgeVars, down, acked, sent>>
    BY <1>5 DEF SendHeaders, Send
  <2>5. block \in Streams \cup {0}
    OBVIOUS
  <2> HIDE DEF block
  <2>6. SameCounts
    BY <1>1, <1>2, <2>4, <2>5
  <2>7. Obeys(f, Observed(e))
    BY <1>5, <2>2 DEF SendHeaders, Obeys, Payload
  <2> HIDE DEF f
  <2> QED  BY <2>1, <2>2, <2>3, <2>4, <2>6, <2>7 DEF Sends, Is
<1>6. ASSUME NEW len \in Lens, NEW end \in BOOLEAN, SendContinuation(e, len, end)
      PROVE  Sends(e)
  <2> DEFINE f == Continuation(peer[e].block, len, end)
  <2>0. peer[e].block \in Streams \cup {0}
    BY <1>0 DEF PeerStates
  <2>1. f \in Frames
    BY <2>0, ContinuationIsFrame, BridgeAssumption
  <2>2. f.kind = "continuation" /\ f.over = 0 /\ f.len = len /\ f.table = 0
    BY DEF Continuation, Frame
  <2> DEFINE block == IF end THEN 0 ELSE peer[e].block
  <2>4. /\ up' = [up EXCEPT ![e] = Append(@, f)]
        /\ peer' = [peer EXCEPT ![e].left = Fewer(e), ![e].block = block] /\ peer[e].left > 0
        /\ UNCHANGED <<bridgeVars, down, acked, sent>>
    BY <1>6 DEF SendContinuation, Send
  <2>5. block \in Streams \cup {0}
    BY <2>0
  <2> HIDE DEF block
  <2>6. SameCounts
    BY <1>1, <1>2, <2>4, <2>5
  <2>7. Obeys(f, Observed(e))
    <3>1. len \in Nat /\ len <= Observed(e).frame
      BY <1>6, BridgeAssumption DEF SendContinuation
    <3> QED  BY <2>2, <3>1 DEF Obeys, Payload
  <2> HIDE DEF f
  <2> QED  BY <2>1, <2>2, <2>4, <2>6, <2>7 DEF Sends, Is
<1>7. ASSUME NEW f \in Faults, SendFault(e, f)
      PROVE  Sends(e)
  <2>1. f \in Frames
    BY BridgeAssumption
  <2>2. f.kind # "ack" /\ (f.kind = "settings" => ~SettingsOk(f)) /\ (f.kind = "continuation" => f.table = 0)
    BY FaultsAssumption
  <2>3. Item(f) \in Items
    BY ItemsSent
  <2>4. /\ up' = [up EXCEPT ![e] = Append(@, f)]
        /\ peer' = [peer EXCEPT ![e].left = 0, ![e].block = peer[e].block]
        /\ UNCHANGED <<bridgeVars, down, acked, sent>>
    BY <1>7 DEF SendFault, Send
  <2>5. peer[e].block \in Streams \cup {0} /\ 0 \in Nat
    BY <1>0 DEF PeerStates
  <2>6. SameCounts
    BY <1>1, <2>4, <2>5
  <2> QED  BY <2>1, <2>2, <2>3, <2>4, <2>6 DEF Sends, Is
<1>8. CASE SendAck(e)
  BY <1>8 DEF SendAck, Acks
<1>9. CASE Close(e)
  <2>1. PICK eof \in {"clean", "torn"} : peer' = [peer EXCEPT ![e].eof = eof]
    BY <1>9 DEF Close
  <2>2. SameCounts
    BY <1>0, <2>1 DEF SameCounts, PeerStates
  <2>3. UNCHANGED <<bridgeVars, wireVars, sent, acked>>
    BY <1>9 DEF Close
  <2>4. res \in {"run", "ok", "error", "limit"}
    BY DEF TypeOK
  <2> QED  BY <1>0, <2>2, <2>3, <2>4 DEF Idles, bridgeVars
<1> QED
  BY <1>3, <1>4, <1>5, <1>6, <1>7, <1>8, <1>9 DEF PeerStep

LEMMA Failing == ASSUME TypeOK, Fail("error") PROVE Idles
<1>1. res' = "error" /\ UNCHANGED <<limits, pc, got, out, wireVars, peerVars>>
  BY DEF Fail
<1>2. SameCounts
  BY <1>1 DEF TypeOK, SameCounts, PeerStates, peerVars
<1> QED
  BY <1>1, <1>2 DEF Idles, TypeOK, peerVars

\* A block that is complete goes on or is refused.
LEMMA BlockActs ==
  ASSUME TypeOK, NEW d \in Peers, Belongs(d), BlockRead(d, Block(d))
  PROVE  PassesBlock(d) \/ Refuses(d) \/ Idles
<1>1. CASE Block(d)[1].table > limits[d].table /\ Fail("limit")
  <2>1. Block(d)[1].table \in Nat /\ limits[d].table \in Nat
    <3>1. limits[d] \in Limits
      BY DEF TypeOK
    <3>2. got[d] \in Seq(Frames) /\ Head(up[d]) \in Frames
      BY HeadOf DEF TypeOK, Belongs
    <3>3. Block(d) \in Seq(Frames) /\ 1 \in 1..Len(Block(d))
      BY <3>2, AppendProperties, LenProperties DEF Block
    <3>4. Block(d)[1] \in Frames
      BY <3>3, ElementOfSeq
    <3> QED  BY <3>1, <3>4, FrameTypes DEF Limits
  <2> QED  BY <1>1, <2>1 DEF Refuses, InLimits
<1>2. CASE ~Fits(Block(d), limits[d].frame) /\ Fail("limit")
  BY <1>2 DEF Refuses, InLimits
<1>3. CASE Fail("error")
  BY <1>3, Failing
<1>4. ASSUME NEW n \in Encoded(Block(d)),
             Block(d)[1].table <= limits[d].table /\ Fits(Block(d), limits[d].frame)
             /\ Forward(d, Reframe(Block(d), n, limits[d].frame))
             /\ got' = [got EXCEPT ![d] = <<>>] /\ UNCHANGED limits
      PROVE  PassesBlock(d)
  <2>1. n \in Nat
    BY DEF Encoded
  <2> QED  BY <1>4, <2>1 DEF PassesBlock, InLimits
<1> QED
  BY <1>1, <1>2, <1>3, <1>4 DEF BlockRead

LEMMA DirectionActs ==
  ASSUME TypeOK, Shape, NEW d \in Peers, Direction(d)
  PROVE  Passes(d) \/ Gathers(d) \/ PassesBlock(d) \/ Write(d) \/ Refuses(d) \/ Idles
<1>0. /\ pc[d] # "write" => out[d] = <<>>
      /\ pc[d] # "block" => got[d] = <<>>
      /\ pc[d] = "block" => got[d] # <<>>
  BY DEF Shape, ShapeOf
<1>1. CASE ReadPreface(d)
  <2>1. up[d] # <<>> /\ pc[d] = "preface"
    BY <1>1 DEF ReadPreface, Read
  <2>2. CASE Head(up[d]).kind = "preface"
    <3>1. Other(0, 0).kind # "preface"
      BY DEF Other, Frame
    <3>2. Head(up[d]) = Preface
      BY <2>1, <2>2, <3>1 DEF Shape, ShapeOf
    <3> QED  BY <1>0, <1>1, <2>1, <2>2, <3>2 DEF ReadPreface, Passes
  <2>3. CASE Head(up[d]).kind # "preface"
    BY <1>1, <2>3, Failing DEF ReadPreface
  <2> QED  BY <2>2, <2>3
<1>2. CASE ReadControl(d)
  <2> DEFINE f == Head(up[d])
  <2>1. up[d] # <<>> /\ pc[d] = "read" /\ f.kind \in {"settings", "ack", "other"}
    BY <1>2 DEF ReadControl, Read
  <2>2. CASE f.len > MAX_BLOCK \/ (f.kind = "settings" /\ ~SettingsOk(f))
    BY <1>2, <2>2, Failing DEF ReadControl
  <2>3. CASE ~(f.len > MAX_BLOCK \/ (f.kind = "settings" /\ ~SettingsOk(f)))
    BY <1>0, <1>2, <2>1, <2>3 DEF ReadControl, Passes, Asked
  <2> QED  BY <2>2, <2>3
<1>3. CASE ReadUnsupported(d)
  BY <1>3, Failing DEF ReadUnsupported
<1>4. CASE ReadHeaders(d)
  <2>1. up[d] # <<>> /\ pc[d] = "read" /\ Head(up[d]).kind = "headers"
    BY <1>4 DEF ReadHeaders, Read
  <2>2. Belongs(d) /\ Block(d) = <<Head(up[d])>>
    <3>1. got[d] = <<>> /\ out[d] = <<>>
      BY <1>0, <2>1
    <3>2. \A x : Append(<<>>, x) = <<x>>
      OBVIOUS
    <3>3. Block(d) = <<Head(up[d])>>
      BY <3>1, <3>2 DEF Block
    <3> QED  BY <2>1, <3>1, <3>3 DEF Belongs
  <2>3. Fail("error") \/ BlockRead(d, Block(d)) \/ More(d, Block(d))
    BY <1>4, <2>2 DEF ReadHeaders
  <2> QED  BY <2>2, <2>3, Failing, BlockActs DEF Gathers
<1>5. CASE ReadContinuation(d)
  <2>1. up[d] # <<>> /\ pc[d] = "block"
    BY <1>5 DEF ReadContinuation, Read
  <2>2. Fail("error") \/ (/\ Head(up[d]).kind = "continuation"
                          /\ Head(up[d]).stream = got[d][1].stream
                          /\ BlockRead(d, Block(d)) \/ More(d, Block(d)))
    BY <1>5 DEF ReadContinuation, Block
  <2>3. Head(up[d]).kind = "continuation" /\ Head(up[d]).stream = got[d][1].stream => Belongs(d)
    BY <1>0, <2>1 DEF Belongs
  <2> QED  BY <2>2, <2>3, Failing, BlockActs DEF Gathers
<1>6. CASE WriteFails(d) \/ Torn(d)
  BY <1>6, Failing DEF WriteFails, Torn
<1>7. CASE EndOfStream(d)
  <2>1. CASE Fail("error")
    BY <2>1, Failing
  <2>2. CASE ~Fail("error")
    <3>1. /\ pc[d] = "read" /\ pc' = [pc EXCEPT ![d] = "done"]
          /\ res' = IF d = "upstream" THEN "ok" ELSE "run"
          /\ UNCHANGED <<limits, got, out, wireVars, peerVars>>
      BY <1>7, <2>2 DEF EndOfStream
    <3>2. SameCounts
      BY <3>1 DEF TypeOK, SameCounts, PeerStates, peerVars
    <3>3. pc \in [Peers -> {"preface", "read", "block", "write", "done"}]
      BY DEF TypeOK
    <3> QED  BY <3>1, <3>2, <3>3 DEF Idles, peerVars
  <2> QED  BY <2>1, <2>2
<1> QED
  BY <1>1, <1>2, <1>3, <1>4, <1>5, <1>6, <1>7 DEF Direction

\* Every step does one of the nine.
LEMMA Effects ==
  ASSUME TypeOK, Shape, [Next]_vars
  PROVE  Effect
<1>1. CASE UNCHANGED vars
  <2>1. SameCounts
    BY <1>1 DEF TypeOK, SameCounts, PeerStates, vars, peerVars
  <2> QED
    BY <1>1, <2>1 DEF Effect, Idles, TypeOK, vars, bridgeVars, peerVars
<1>2. ASSUME NEW d \in Peers, Direction(d) \/ PeerStep(d) \/ Receive(d)
      PROVE  Effect
  BY <1>2, DirectionActs, PeerSends DEF Effect
<1> QED
  BY <1>1, <1>2 DEF Next, Ended

-----------------------------------------------------------------------------
\* What a direction reads is typed and shaped, and so is what it writes.

\* The block with the frame that is read.
LEMMA BlockIs ==
  ASSUME TypeOK, Shape, NEW d \in Peers, Belongs(d)
  PROVE  /\ Block(d) \in Seq(Frames) /\ Block(d) # <<>> /\ Gathered(Block(d))
         /\ Len(Block(d)) = Len(got[d]) + 1 /\ Len(got[d]) \in Nat
         /\ \A i \in 1..Len(got[d]) : Block(d)[i] = got[d][i]
         /\ Block(d)[Len(got[d]) + 1] = Head(up[d])
<1> DEFINE b == Block(d)
           f == Head(up[d])
<1>1. got[d] \in Seq(Frames) /\ up[d] \in Seq(Sent) /\ up[d] # <<>>
  BY DEF TypeOK, Shape, ShapeOf, Belongs
<1>2. f \in Sent /\ f \in Frames
  BY <1>1, HeadTailProperties DEF Sent
<1>3. /\ b \in Seq(Frames) /\ Len(b) = Len(got[d]) + 1 /\ Len(got[d]) \in Nat
      /\ \A i \in 1..Len(got[d]) : b[i] = got[d][i]
      /\ b[Len(got[d]) + 1] = f
  BY <1>1, <1>2, AppendProperties, LenProperties DEF Block
<1>4. b # <<>>
  BY <1>1, <1>2, AppendProperties DEF Block
<1> HIDE DEF b, f
<1>5. CASE got[d] = <<>>
  <2>1. Len(got[d]) = 0 /\ f.kind = "headers"
    BY <1>5 DEF Belongs, f
  <2> QED  BY <1>3, <1>4, <2>1 DEF Gathered, b, f
<1>6. CASE got[d] # <<>>
  <2>1. f.kind = "continuation" /\ f.stream = got[d][1].stream /\ f.table = 0
    BY <1>2, <1>6 DEF Belongs, f, Sent
  <2>2. Gathered(got[d]) /\ Len(got[d]) >= 1
    BY <1>1, <1>6, EmptySeq, LenProperties DEF Shape, ShapeOf
  <2>3. b[1] = got[d][1]
    BY <1>3, <2>2
  <2>4. ASSUME NEW i \in 2..Len(b) PROVE Follows(b, i)
    <3>1. CASE i = Len(got[d]) + 1
      BY <1>3, <2>1, <2>3, <3>1 DEF Follows
    <3>2. CASE i # Len(got[d]) + 1
      BY <1>3, <2>2, <2>3, <3>2, SMTT(30) DEF Follows, Gathered
    <3> QED  BY <3>1, <3>2
  <2>5. b[1].kind = "headers"
    BY <2>2, <2>3 DEF Gathered
  <2> QED  BY <1>3, <1>4, <2>4, <2>5 DEF Gathered, b, f
<1> QED
  BY <1>5, <1>6

\* The block as it is written.
LEMMA PassedIs ==
  ASSUME TypeOK, Shape, NEW d \in Peers, Belongs(d), InLimits(d), NEW n \in Nat
  PROVE  LET r == Reframe(Block(d), n, limits[d].frame)
         IN  /\ r \in Seq(Passed) /\ r \in Seq(Frames) /\ r # <<>> /\ Gathered(r)
             /\ \A i \in 1..Len(r) : IsBlock(r[i])
             /\ Length(r) = r[1].size
             /\ SameBut(r[1], Block(d)[1])
             /\ \A i \in 1..Len(r) : /\ Payload(r[i]) <= limits[d].frame
                                     /\ r[i].table <= limits[d].table
                                     /\ r[i].end <=> i = Len(r)
<1> DEFINE b == Block(d)
           max == limits[d].frame
           r == Reframe(b, n, max)
<1>1. b \in Seq(Frames) /\ b # <<>> /\ Gathered(b)
  BY BlockIs
<1>2. limits[d] \in Limits
  BY DEF TypeOK
<1>3. max \in Nat \ {0} /\ limits[d].table \in Nat
  BY <1>2, FramesAssumption DEF Limits
<1>4. Fits(b, max) /\ b[1].table <= limits[d].table
  BY DEF InLimits
<1> HIDE DEF b, max
<1>5a. /\ r \in Seq(Frames) /\ Len(b) \in 1..Len(r)
       /\ r[1].size = n /\ Length(r) = n
  <2>1. r \in Seq(Frames)
    BY <1>1, <1>3, <1>4, ReframeIs
  <2>2. Len(b) \in 1..Len(r)
    BY <1>1, <1>3, <1>4, ReframeIs
  <2>3. r[1].size = n
    BY <1>1, <1>3, <1>4, ReframeIs
  <2>4. Length(r) = n
    BY <1>1, <1>3, <1>4, ReframeIs
  <2> QED  BY <2>1, <2>2, <2>3, <2>4
<1>5c. \A i \in 1..Len(r) : Payload(r[i]) <= max /\ (r[i].end <=> i = Len(r))
  BY <1>1, <1>3, <1>4, ReframeIs
<1>5b. \A i \in 1..Len(b) : SameBut(r[i], b[i])
  BY <1>1, <1>3, <1>4, ReframeIs
<1>5d. \A i \in Len(b) + 1..Len(r) :
         r[i].kind = "continuation" /\ r[i].stream = b[1].stream /\ r[i].table = 0
  BY <1>1, <1>3, <1>4, ReframeIs
<1> HIDE DEF r
<1>6. Len(r) \in Nat /\ Len(b) \in Nat
  BY <1>1, <1>5a, LenProperties
<1>7. SameBut(r[1], b[1]) /\ r[1].kind = "headers"
  BY <1>1, <1>5a, <1>5b, <1>6 DEF SameBut, Gathered
<1>8. ASSUME NEW i \in 2..Len(r) PROVE Follows(r, i)
  <2>1. CASE i <= Len(b)
    BY <1>1, <1>5b, <1>6, <1>7, <2>1 DEF SameBut, Gathered, Follows
  <2>2. CASE ~(i <= Len(b))
    BY <1>5d, <1>6, <1>7, <2>2 DEF SameBut, Follows
  <2> QED  BY <2>1, <2>2
<1>9. Gathered(r)
  BY <1>7, <1>8 DEF Gathered
<1>10. ASSUME NEW i \in 1..Len(r)
       PROVE  IsBlock(r[i]) /\ r[i].table <= limits[d].table /\ r[i] \in Frames
  <2>1. r[i] \in Frames
    BY <1>5a, ElementOfSeq
  <2>2. i = 1 \/ i \in 2..Len(r)
    BY <1>6
  <2> QED  BY <1>3, <1>4, <1>7, <1>8, <2>1, <2>2 DEF IsBlock, Follows, SameBut
<1>11. r # <<>> /\ r \in Seq(Passed)
  <2>1. \A i \in 1..Len(r) : r[i] \in Passed
    BY <1>10 DEF Passed, IsBlock
  <2>2. r = [i \in 1..Len(r) |-> r[i]]
    BY <1>5a, LenProperties
  <2>3. r \in Seq(Passed)
    BY <1>6, <2>1, <2>2, SeqDef
  <2>4. Len(r) # 0
    BY <1>5a
  <2> QED  BY <2>3, <2>4, EmptySeq
<1> QED
  BY <1>5a, <1>5c, <1>7, <1>9, <1>10, <1>11 DEF b, max, r

\* Appending to a wire, and reading from it.
LEMMA AppendKeeps ==
  ASSUME NEW S, NEW s \in Seq(S), NEW f \in S
  PROVE  /\ Append(s, f) \in Seq(S) /\ Append(s, f) # <<>>
         /\ s # <<>> => Head(Append(s, f)) = Head(s)
<1>1. Append(s, f) \in Seq(S) /\ Append(s, f) # <<>>
  BY AppendProperties
<1>2. ASSUME s # <<>> PROVE Head(Append(s, f)) = Head(s)
  <2>1. 1 \in 1..Len(s) /\ Head(s) = s[1]
    BY <1>2, EmptySeq, HeadTailProperties, LenProperties
  <2>2. Append(s, f)[1] = s[1]
    BY <2>1, AppendProperties
  <2>3. Head(Append(s, f)) = Append(s, f)[1]
    BY <1>1, HeadTailProperties
  <2> QED  BY <2>1, <2>2, <2>3
<1> QED  BY <1>1, <1>2

LEMMA TailKeeps ==
  ASSUME NEW S, NEW s \in Seq(S), s # <<>>
  PROVE  /\ Tail(s) \in Seq(S) /\ Head(s) \in S /\ Head(s) = s[1]
         /\ Len(Tail(s)) = Len(s) - 1 /\ Len(s) \in Nat \ {0}
         /\ \A i \in 1..Len(Tail(s)) : Tail(s)[i] = s[i + 1]
BY EmptySeq, HeadTailProperties, LenProperties

LEMMA OneKeeps ==
  ASSUME NEW S, NEW f \in S
  PROVE  <<f>> \in Seq(S) /\ Len(<<f>>) = 1 /\ <<f>> # <<>> /\ <<f>>[1] = f /\ <<>> \in Seq(S)
OBVIOUS

LEMMA InitTyped == Init => TypeOK /\ Shape
<1> SUFFICES ASSUME Init PROVE TypeOK /\ Shape
  OBVIOUS
<1>1. Preface \in Frames /\ Other(0, 0) \in Frames /\ Preface.kind = "preface" /\ Other(0, 0).kind = "other"
  <2>1. Preface \in Frames
    BY FrameIsFrame DEF Preface, Kinds
  <2>2. Other(0, 0) \in Frames
    BY OtherIsFrame
  <2> QED  BY <2>1, <2>2 DEF Preface, Other, Frame
<1>2. PICK first \in {Preface, Other(0, 0)} :
        up = [d \in Peers |-> IF d = "client" THEN <<first>> ELSE <<>>]
  BY DEF Init
<1>3. first \in Sent /\ first \in Frames
  BY <1>1 DEF Sent
<1>4. \A S : <<>> \in Seq(S)
  OBVIOUS
<1>5. <<first>> \in Seq(Sent) /\ <<first>> \in Seq(Frames) /\ <<first>> # <<>> /\ Head(<<first>>) = first
  BY <1>3, OneKeeps
<1>6. Defaults \in Limits /\ <<Defaults>> \in Seq(Limits)
  <2>1. Defaults \in Limits
    BY BridgeAssumption, FramesAssumption DEF Defaults, Limits
  <2> QED  BY <2>1, OneKeeps
<1>7. TypeOK
  <2>1. up \in [Peers -> Seq(Frames)] /\ down \in [Peers -> Seq(Frames)]
        /\ got \in [Peers -> Seq(Frames)] /\ out \in [Peers -> Seq(Frames)]
    BY <1>2, <1>4, <1>5 DEF Init
  <2>2. limits \in [Peers -> Limits] /\ sent \in [Peers -> Seq(Limits)] /\ acked \in [Peers -> Nat]
    BY <1>6 DEF Init
  <2>3. pc \in [Peers -> {"preface", "read", "block", "write", "done"}] /\ res = "run"
    BY DEF Init
  <2>4. \A e \in Peers : Start(e) \in PeerStates
    BY BridgeAssumption DEF Start, PeerStates
  <2>5. peer \in [Peers -> PeerStates]
    BY <2>4 DEF Init
  <2> QED  BY <2>1, <2>2, <2>3, <2>5 DEF TypeOK, PeerStates
<1>8. ASSUME NEW d \in Peers PROVE ShapeOf(d)
  <2>1. /\ pc[d] = (IF d = "client" THEN "preface" ELSE "read") /\ out[d] = <<>> /\ got[d] = <<>>
        /\ down[d] = <<>> /\ up[d] = IF d = "client" THEN <<first>> ELSE <<>>
    BY <1>2 DEF Init
  <2>2. up[d] \in Seq(Sent)
    BY <1>4, <1>5, <2>1
  <2>3. out[d] \in Seq(Passed) /\ down[d] \in Seq(Passed)
    BY <1>4, <2>1
  <2>4. Len(out[d]) = 0
    BY <2>1
  <2> QED  BY <1>5, <2>1, <2>2, <2>3, <2>4 DEF ShapeOf
<1> QED
  BY <1>7, <1>8 DEF Shape

\* One lemma per effect.
Pcs == {"preface", "read", "block", "write", "done"}
Wires == [Peers -> Seq(Frames)]

LEMMA TypedSends ==
  ASSUME TypeOK, Shape, NEW e \in Peers, Sends(e)
  PROVE  TypeOK' /\ Shape'
<1>1. PICK f \in Frames :
        /\ f \in Sent
        /\ up' = [up EXCEPT ![e] = Append(@, f)]
        /\ sent' = IF Is("settings", f) THEN [sent EXCEPT ![e] = Append(@, Asked(f))] ELSE sent
  BY DEF Sends, Sent
<1>2. SameCounts /\ UNCHANGED <<limits, pc, got, out, res, down, acked>>
  BY DEF Sends, bridgeVars
<1>3. up \in Wires /\ \A x \in Peers : up[x] \in Seq(Sent)
  BY DEF TypeOK, Shape, ShapeOf, Wires
<1>4. Append(up[e], f) \in Seq(Frames)
  BY <1>3, AppendKeeps DEF Wires
<1>5. /\ Append(up[e], f) \in Seq(Sent) /\ Append(up[e], f) # <<>>
      /\ up[e] # <<>> => Head(Append(up[e], f)) = Head(up[e])
  BY <1>1, <1>3, AppendKeeps
<1>6. sent' \in [Peers -> Seq(Limits)]
  <2>0. sent \in [Peers -> Seq(Limits)]
    BY DEF TypeOK
  <2>1. CASE Is("settings", f)
    <3>1. Asked(f) \in Limits
      BY <2>1, FrameTypes DEF Is, SettingsOk, Asked, Limits
    <3>2. Append(sent[e], Asked(f)) \in Seq(Limits)
      BY <2>0, <3>1, AppendKeeps
    <3> QED  BY <1>1, <2>0, <2>1, <3>2
  <2>2. CASE ~Is("settings", f)
    BY <1>1, <2>0, <2>2
  <2> QED  BY <2>1, <2>2
<1>7. TypeOK'
  <2>1. up' \in Wires
    BY <1>1, <1>3, <1>4 DEF Wires
  <2> QED  BY <1>2, <1>6, <2>1 DEF TypeOK, SameCounts, PeerStates, Wires
<1>8. ASSUME NEW x \in Peers PROVE ShapeOf(x)'
  <2>1. up'[x] = IF x = e THEN Append(up[e], f) ELSE up[x]
    BY <1>1, <1>3 DEF Wires
  <2>2. ShapeOf(x)
    BY DEF Shape
  <2>3. up'[x] \in Seq(Sent)
    <3>1. CASE x = e
      BY <1>5, <2>1, <3>1
    <3>2. CASE x # e
      BY <1>3, <2>1, <3>2
    <3> QED  BY <3>1, <3>2
  <2> QED  BY <1>2, <1>5, <2>1, <2>2, <2>3 DEF ShapeOf
<1> QED
  BY <1>7, <1>8 DEF Shape

LEMMA TypedAcks ==
  ASSUME TypeOK, Shape, NEW e \in Peers, Acks(e)
  PROVE  TypeOK' /\ Shape'
<1>1. /\ peer[e].owed > 0 /\ up' = [up EXCEPT ![e] = Append(@, Ack)]
      /\ peer' = [peer EXCEPT ![e].applied = @ + 1, ![e].owed = @ - 1]
      /\ UNCHANGED <<limits, pc, got, out, res, down, sent, acked>>
  BY DEF Acks, bridgeVars
<1>2. Ack \in Frames /\ Ack \in Sent
  <2>1. Ack \in Frames
    BY FrameIsFrame DEF Ack, Kinds
  <2> QED  BY <2>1 DEF Sent, Ack, Frame
<1>3. up \in Wires /\ \A x \in Peers : up[x] \in Seq(Sent)
  BY DEF TypeOK, Shape, ShapeOf, Wires
<1>4. Append(up[e], Ack) \in Seq(Frames)
  BY <1>2, <1>3, AppendKeeps DEF Wires
<1>5. /\ Append(up[e], Ack) \in Seq(Sent) /\ Append(up[e], Ack) # <<>>
      /\ up[e] # <<>> => Head(Append(up[e], Ack)) = Head(up[e])
  BY <1>2, <1>3, AppendKeeps
<1>6. TypeOK'
  <2>1. up' \in Wires
    BY <1>1, <1>3, <1>4 DEF Wires
  <2>2. peer' \in [Peers -> PeerStates]
    <3>1. peer \in [Peers -> PeerStates] /\ peer[e] \in PeerStates
      BY DEF TypeOK, PeerStates
    <3>2. [peer[e] EXCEPT !.applied = @ + 1, !.owed = @ - 1] \in PeerStates
      BY <1>1, <3>1 DEF PeerStates
    <3>3. peer' = [peer EXCEPT ![e] = [peer[e] EXCEPT !.applied = @ + 1, !.owed = @ - 1]]
      BY <1>1, <3>1 DEF PeerStates
    <3> QED  BY <3>1, <3>2, <3>3
  <2> QED  BY <1>1, <2>1, <2>2 DEF TypeOK, PeerStates, Wires
<1>7. ASSUME NEW x \in Peers PROVE ShapeOf(x)'
  <2>1. up'[x] = IF x = e THEN Append(up[e], Ack) ELSE up[x]
    BY <1>1, <1>3 DEF Wires
  <2>2. ShapeOf(x)
    BY DEF Shape
  <2>3. up'[x] \in Seq(Sent)
    <3>1. CASE x = e
      BY <1>5, <2>1, <3>1
    <3>2. CASE x # e
      BY <1>3, <2>1, <3>2
    <3> QED  BY <3>1, <3>2
  <2> QED  BY <1>1, <1>5, <2>1, <2>2, <2>3 DEF ShapeOf
<1> QED
  BY <1>6, <1>7 DEF Shape

LEMMA TypedReceive ==
  ASSUME TypeOK, Shape, NEW e \in Peers, Receive(e)
  PROVE  TypeOK' /\ Shape'
<1> DEFINE d == Peer(e)
<1>0. d \in Peers
  BY TwoPeers
<1>1. /\ down[d] # <<>> /\ down' = [down EXCEPT ![d] = Tail(@)]
      /\ peer' = [peer EXCEPT ![e].owed = IF Head(down[d]).kind = "settings" THEN @ + 1 ELSE @]
      /\ acked' = [acked EXCEPT ![e] = IF Head(down[d]).kind = "ack" THEN @ + 1 ELSE @]
      /\ UNCHANGED <<limits, pc, got, out, res, up, sent>>
  BY DEF Receive, bridgeVars
<1> HIDE DEF d
<1>3. down \in Wires /\ \A x \in Peers : down[x] \in Seq(Passed)
  BY DEF TypeOK, Shape, ShapeOf, Wires
<1>4. Tail(down[d]) \in Seq(Frames)
  BY <1>0, <1>1, <1>3, TailKeeps DEF Wires
<1>5. Tail(down[d]) \in Seq(Passed)
  BY <1>0, <1>1, <1>3, TailKeeps
<1>6. TypeOK'
  <2>1. down' \in Wires
    BY <1>0, <1>1, <1>3, <1>4 DEF Wires
  <2>2. peer' \in [Peers -> PeerStates]
    <3> DEFINE owed == IF Head(down[d]).kind = "settings" THEN peer[e].owed + 1 ELSE peer[e].owed
    <3>1. peer \in [Peers -> PeerStates] /\ peer[e] \in PeerStates
      BY DEF TypeOK, PeerStates
    <3>2. owed \in Nat
      BY <3>1 DEF PeerStates
    <3>3. peer' = [peer EXCEPT ![e] = [peer[e] EXCEPT !.owed = owed]]
      BY <1>1, <3>1 DEF PeerStates
    <3> HIDE DEF owed
    <3>4. [peer[e] EXCEPT !.owed = owed] \in PeerStates
      BY <3>1, <3>2 DEF PeerStates
    <3> QED  BY <3>1, <3>3, <3>4
  <2>3. acked' \in [Peers -> Nat]
    BY <1>1 DEF TypeOK
  <2> QED  BY <1>1, <2>1, <2>2, <2>3 DEF TypeOK, PeerStates, Wires
<1>7. ASSUME NEW x \in Peers PROVE ShapeOf(x)'
  <2>1. down'[x] = IF x = d THEN Tail(down[d]) ELSE down[x]
    BY <1>0, <1>1, <1>3 DEF Wires
  <2>2. ShapeOf(x)
    BY DEF Shape
  <2>3. down'[x] \in Seq(Passed)
    BY <1>3, <1>5, <2>1
  <2> QED  BY <1>1, <2>2, <2>3 DEF ShapeOf
<1> QED
  BY <1>6, <1>7 DEF Shape

LEMMA TypedIdles ==
  ASSUME TypeOK, Shape, Idles
  PROVE  TypeOK' /\ Shape'
<1>1. /\ res' \in {"run", "ok", "error", "limit"}
      /\ \A d \in Peers : pc'[d] = pc[d] \/ (pc[d] = "read" /\ pc'[d] = "done")
      /\ pc' = [d \in Peers |-> pc'[d]]
      /\ SameCounts /\ UNCHANGED <<limits, got, out, up, down, sent, acked>>
  BY DEF Idles, wireVars
<1>2. pc' \in [Peers -> Pcs]
  BY <1>1 DEF TypeOK, Pcs
<1>3. TypeOK'
  BY <1>1, <1>2 DEF TypeOK, SameCounts, PeerStates, Pcs
<1>4. ASSUME NEW x \in Peers PROVE ShapeOf(x)'
  BY <1>1 DEF Shape, ShapeOf
<1> QED
  BY <1>3, <1>4 DEF Shape

\* Frames that a direction takes from its wire.
LEMMA TypedReads ==
  ASSUME TypeOK, Shape, NEW d \in Peers, up[d] # <<>>, out[d] = <<>>, up' = [up EXCEPT ![d] = Tail(@)],
         NEW o \in Seq(Passed), o \in Seq(Frames), NEW g \in Seq(Frames), NEW at \in {"block", "write"},
         out' = [out EXCEPT ![d] = o], got' = [got EXCEPT ![d] = g], pc' = [pc EXCEPT ![d] = at],
         at = "write" <=> o # <<>>, at = "block" <=> g # <<>>, g # <<>> => Gathered(g),
         \A i \in 1..Len(o) : IsBlock(o[i]) \/ Len(o) = 1,
         limits' \in [Peers -> Limits], UNCHANGED <<res, down, peerVars>>
  PROVE  TypeOK' /\ Shape'
<1>1. up \in Wires /\ out \in Wires /\ got \in Wires /\ pc \in [Peers -> Pcs]
  BY DEF TypeOK, Wires, Pcs
<1>2. Tail(up[d]) \in Seq(Frames)
  BY <1>1, TailKeeps DEF Wires
<1>3. Tail(up[d]) \in Seq(Sent)
  BY TailKeeps DEF Shape, ShapeOf
<1>4. TypeOK'
  <2>1. up' \in Wires /\ out' \in Wires /\ got' \in Wires
    BY <1>1, <1>2 DEF Wires
  <2>2. pc' \in [Peers -> Pcs]
    BY <1>1 DEF Pcs
  <2> QED  BY <2>1, <2>2 DEF TypeOK, Wires, Pcs, peerVars
<1>5. ASSUME NEW x \in Peers PROVE ShapeOf(x)'
  <2>1. /\ up'[x] = IF x = d THEN Tail(up[d]) ELSE up[x]
        /\ out'[x] = IF x = d THEN o ELSE out[x]
        /\ got'[x] = IF x = d THEN g ELSE got[x]
        /\ pc'[x] = IF x = d THEN at ELSE pc[x]
    BY <1>1 DEF Wires
  <2>2. ShapeOf(x) /\ down' = down
    BY DEF Shape
  <2>3. CASE x = d
    BY <1>3, <2>1, <2>2, <2>3 DEF ShapeOf
  <2>4. CASE x # d
    BY <2>1, <2>2, <2>4 DEF ShapeOf
  <2> QED  BY <2>3, <2>4
<1> QED
  BY <1>4, <1>5 DEF Shape

LEMMA TypedPasses ==
  ASSUME TypeOK, Shape, NEW d \in Peers, Passes(d)
  PROVE  TypeOK' /\ Shape'
<1> DEFINE f == Head(up[d])
<1>1. /\ up[d] # <<>> /\ out[d] = <<>> /\ got[d] = <<>>
      /\ f.kind = "settings" => SettingsOk(f)
      /\ limits' = IF f.kind = "settings" THEN [limits EXCEPT ![Peer(d)] = Asked(f)] ELSE limits
      /\ up' = [up EXCEPT ![d] = Tail(@)] /\ out' = [out EXCEPT ![d] = <<f>>]
      /\ pc' = [pc EXCEPT ![d] = "write"]
      /\ UNCHANGED <<res, down, peerVars, got>>
  BY DEF Passes, Forward
<1>2. f \in Frames
  BY <1>1, HeadOf
<1> HIDE DEF f
<1>3. f \in Passed
  BY <1>1, <1>2 DEF Passed
<1>4. <<f>> \in Seq(Passed) /\ <<f>> \in Seq(Frames) /\ <<f>> # <<>> /\ Len(<<f>>) = 1 /\ <<>> \in Seq(Frames)
  BY <1>2, <1>3, OneKeeps
<1>5. limits' \in [Peers -> Limits]
  <2>1. limits \in [Peers -> Limits] /\ Peer(d) \in Peers
    BY TwoPeers DEF TypeOK
  <2>2. f.kind = "settings" => Asked(f) \in Limits
    BY <1>1, <1>2, FrameTypes DEF SettingsOk, Asked, Limits
  <2> QED  BY <1>1, <2>1, <2>2
<1>6. got' = [got EXCEPT ![d] = <<>>]
  BY <1>1 DEF TypeOK
<1> QED
  BY <1>1, <1>4, <1>5, <1>6, TypedReads, Zenon

LEMMA TypedGathers ==
  ASSUME TypeOK, Shape, NEW d \in Peers, Gathers(d)
  PROVE  TypeOK' /\ Shape'
<1>1. /\ up[d] # <<>> /\ out[d] = <<>>
      /\ up' = [up EXCEPT ![d] = Tail(@)] /\ got' = [got EXCEPT ![d] = Block(d)]
      /\ pc' = [pc EXCEPT ![d] = "block"]
      /\ UNCHANGED <<limits, out, res, down, peerVars>>
  BY DEF Gathers, Belongs, More
<1>2. Block(d) \in Seq(Frames) /\ Block(d) # <<>> /\ Gathered(Block(d))
  BY BlockIs DEF Gathers
<1>3. out' = [out EXCEPT ![d] = <<>>] /\ limits' \in [Peers -> Limits]
  BY <1>1 DEF TypeOK
<1>4. <<>> \in Seq(Passed) /\ <<>> \in Seq(Frames) /\ Len(<<>>) = 0
  OBVIOUS
<1>5. \A i \in 1..Len(<<>>) : IsBlock(<<>>[i]) \/ Len(<<>>) = 1
  BY <1>4
<1> QED
  BY <1>1, <1>2, <1>3, <1>4, <1>5, TypedReads, Zenon

LEMMA TypedPassesBlock ==
  ASSUME TypeOK, Shape, NEW d \in Peers, PassesBlock(d)
  PROVE  TypeOK' /\ Shape'
<1>1. PICK n \in Nat : Forward(d, Reframe(Block(d), n, limits[d].frame))
  BY DEF PassesBlock
<1> DEFINE r == Reframe(Block(d), n, limits[d].frame)
<1>2. /\ up[d] # <<>> /\ out[d] = <<>>
      /\ up' = [up EXCEPT ![d] = Tail(@)] /\ out' = [out EXCEPT ![d] = r]
      /\ got' = [got EXCEPT ![d] = <<>>] /\ pc' = [pc EXCEPT ![d] = "write"]
      /\ UNCHANGED <<limits, res, down, peerVars>>
  BY <1>1 DEF PassesBlock, Belongs, Forward
<1>3. /\ r \in Seq(Passed) /\ r \in Seq(Frames) /\ r # <<>>
      /\ \A i \in 1..Len(r) : IsBlock(r[i])
  BY PassedIs DEF PassesBlock
<1> HIDE DEF r
<1>4. limits' \in [Peers -> Limits] /\ <<>> \in Seq(Frames)
  BY <1>2, OneKeeps DEF TypeOK
<1> QED
  BY <1>2, <1>3, <1>4, TypedReads, Zenon

LEMMA TypedWrite ==
  ASSUME TypeOK, Shape, NEW d \in Peers, Write(d)
  PROVE  TypeOK' /\ Shape'
<1>1. /\ pc[d] = "write"
      /\ down' = [down EXCEPT ![d] = Append(@, Head(out[d]))]
      /\ out' = [out EXCEPT ![d] = Tail(@)]
      /\ pc' = [pc EXCEPT ![d] = IF Len(out[d]) = 1 THEN "read" ELSE @]
      /\ UNCHANGED <<limits, got, res, up, peerVars>>
  BY DEF Write
<1>2. down \in Wires /\ out \in Wires /\ pc \in [Peers -> Pcs]
  BY DEF TypeOK, Wires, Pcs
<1>3. out[d] \in Seq(Passed) /\ down[d] \in Seq(Passed) /\ out[d] # <<>> /\ got[d] = <<>>
  BY <1>1 DEF Shape, ShapeOf
<1>4. Tail(out[d]) \in Seq(Frames) /\ Head(out[d]) \in Frames
  BY <1>2, <1>3, TailKeeps DEF Wires
<1>5. /\ Tail(out[d]) \in Seq(Passed) /\ Head(out[d]) \in Passed
      /\ Len(Tail(out[d])) = Len(out[d]) - 1 /\ Len(out[d]) \in Nat \ {0}
      /\ \A i \in 1..Len(Tail(out[d])) : Tail(out[d])[i] = out[d][i + 1]
  BY <1>3, TailKeeps
<1>6. Append(down[d], Head(out[d])) \in Seq(Frames)
  BY <1>2, <1>4, AppendKeeps DEF Wires
<1>7. Append(down[d], Head(out[d])) \in Seq(Passed)
  BY <1>3, <1>5, AppendKeeps
<1>8. TypeOK'
  <2>1. down' \in Wires /\ out' \in Wires
    BY <1>1, <1>2, <1>4, <1>6 DEF Wires
  <2>2. pc' \in [Peers -> Pcs]
    BY <1>1, <1>2 DEF Pcs
  <2> QED  BY <1>1, <2>1, <2>2 DEF TypeOK, Wires, Pcs, peerVars
<1>9. ASSUME NEW x \in Peers PROVE ShapeOf(x)'
  <2>1. /\ out'[x] = IF x = d THEN Tail(out[d]) ELSE out[x]
        /\ down'[x] = IF x = d THEN Append(down[d], Head(out[d])) ELSE down[x]
        /\ pc'[x] = IF x = d /\ Len(out[d]) = 1 THEN "read" ELSE pc[x]
        /\ got' = got /\ up' = up
    BY <1>1, <1>2 DEF Wires
  <2>2. ShapeOf(x)
    BY DEF Shape
  <2>3. CASE x = d
    <3>1. Tail(out[d]) = <<>> <=> Len(out[d]) = 1
      <4>1. Tail(out[d]) = <<>> <=> Len(Tail(out[d])) = 0
        BY <1>5, EmptySeq
      <4> QED  BY <1>5, <4>1
    <3>2. \A i \in 1..Len(out[d]) - 1 : IsBlock(out[d][i + 1]) \/ Len(out[d]) = 1
      BY <1>5, <2>2, <2>3 DEF ShapeOf
    <3>3. \A i \in 1..Len(out'[d]) : IsBlock(out'[d][i]) \/ Len(out'[d]) = 1
      <4>1. out'[d] = Tail(out[d])
        BY <2>1, <2>3
      <4>2. \A i \in 1..Len(Tail(out[d])) : IsBlock(Tail(out[d])[i])
        BY <1>5, <3>2
      <4> QED  BY <4>1, <4>2
    <3>4. out'[d] # <<>> <=> Len(out[d]) # 1
      BY <2>1, <2>3, <3>1
    <3>5. /\ out'[d] \in Seq(Passed) /\ down'[d] \in Seq(Passed) /\ up'[d] \in Seq(Sent)
          /\ got'[d] = <<>> /\ pc'[d] = IF Len(out[d]) = 1 THEN "read" ELSE "write"
      BY <1>1, <1>3, <1>5, <1>7, <2>1, <2>2, <2>3 DEF ShapeOf
    <3> QED  BY <2>3, <3>3, <3>4, <3>5 DEF ShapeOf
  <2>4. CASE x # d
    BY <2>1, <2>2, <2>4 DEF ShapeOf
  <2> QED  BY <2>3, <2>4
<1> QED
  BY <1>8, <1>9 DEF Shape

LEMMA TypedRefuses ==
  ASSUME TypeOK, Shape, NEW d \in Peers, Refuses(d)
  PROVE  TypeOK' /\ Shape'
<1>1. res' = "limit" /\ UNCHANGED <<limits, pc, got, out, up, down, sent, acked, peer>>
  BY DEF Refuses, Fail, wireVars, peerVars
<1> QED
  BY <1>1 DEF TypeOK, Shape, ShapeOf

\* The variables have their types, and a direction's step fits what it holds.
THEOREM Typed == Spec => [](TypeOK /\ Shape)
<1>1. ASSUME TypeOK /\ Shape, [Next]_vars PROVE TypeOK' /\ Shape'
  BY <1>1, Effects, TypedSends, TypedAcks, TypedReceive, TypedPasses, TypedGathers,
     TypedPassesBlock, TypedWrite, TypedRefuses, TypedIdles DEF Effect
<1>2. Init => TypeOK /\ Shape
  BY InitTyped
<1> QED
  BY <1>1, <1>2, PTL DEF Spec

-----------------------------------------------------------------------------
\* Announcements are conserved: a peer's SETTINGS are in transit, owed an
\* acknowledgement, or acknowledged by a frame in transit or received.
Total(s, t, u, k) == Count(s, k) + Count(t, k) + Count(u, k)
InTransit(d, k) == Total(down[d], out[d], up[d], k)

Conserved ==
  \A e \in Peers :
    /\ acked[e] >= 1
    /\ peer[Peer(e)].applied = acked[e] + InTransit(Peer(e), "ack")
    /\ Len(sent[e]) = peer[Peer(e)].applied + peer[Peer(e)].owed + InTransit(e, "settings")

\* What is stored, l, of the announcements s: the last that was read, those in
\* the wire u being announced after it.
Holds(l, s, u) ==
  LET read == Len(s) - Count(u, "settings")
  IN  /\ l = s[read]
      /\ \A i \in 1..Len(u) : Is("settings", u[i]) =>
           Asked(u[i]) = s[read + Ahead(u, "settings", i)]
Stored == \A e \in Peers : Holds(limits[Peer(e)], sent[e], up[e])

LEMMA CountsAre ==
  ASSUME TypeOK, NEW x \in Peers, NEW k
  PROVE  /\ Count(down[x], k) \in Nat /\ Count(out[x], k) \in Nat /\ Count(up[x], k) \in Nat
         /\ InTransit(x, k) \in Nat
<1>1. down[x] \in Seq(Frames) /\ out[x] \in Seq(Frames) /\ up[x] \in Seq(Frames)
  BY DEF TypeOK
<1> QED
  BY <1>1, CountType DEF InTransit, Total

LEMMA Kinds2 ==
  ASSUME NEW f
  PROVE  /\ \A k : One(k, f) \in {0, 1}
         /\ One("ack", f) = IF f.kind = "ack" THEN 1 ELSE 0
         /\ IsBlock(f) => \A k \in Announcements : ~Is(k, f) /\ One(k, f) = 0
         /\ One("ack", Ack) = 1 /\ One("settings", Ack) = 0 /\ ~IsBlock(Ack)
         /\ ~Is("settings", Ack)
<1>1. Ack.kind = "ack"
  BY DEF Ack, Frame
<1> QED
  BY <1>1 DEF One, Is, IsBlock, Announcements

LEMMA TransitSends ==
  ASSUME TypeOK, NEW e \in Peers, NEW f \in Frames, NEW x \in Peers, NEW k,
         up'[x] = (IF x = e THEN Append(up[e], f) ELSE up[x]),
         down'[x] = down[x], out'[x] = out[x]
  PROVE  /\ InTransit(x, k)' = (IF x = e THEN InTransit(x, k) + One(k, f) ELSE InTransit(x, k))
         /\ Count(up[x], k)' = (IF x = e THEN Count(up[x], k) + One(k, f) ELSE Count(up[x], k))
<1>1. up[e] \in Seq(Frames)
  BY DEF TypeOK
<1>2. Count(Append(up[e], f), k) = Count(up[e], k) + One(k, f)
  BY <1>1, AheadAppend
<1>3. Count(down[x], k) \in Nat /\ Count(out[x], k) \in Nat /\ Count(up[x], k) \in Nat
  BY CountsAre
<1>4. One(k, f) \in {0, 1}
  BY Kinds2
<1>5. CASE x = e
  BY <1>1, <1>2, <1>3, <1>4, <1>5 DEF InTransit, Total
<1>6. CASE x # e
  BY <1>1, <1>3, <1>6 DEF InTransit, Total
<1> QED
  BY <1>5, <1>6

LEMMA TransitReceives ==
  ASSUME TypeOK, NEW d \in Peers, down[d] # <<>>, NEW x \in Peers, NEW k,
         down'[x] = (IF x = d THEN Tail(down[d]) ELSE down[x]),
         up'[x] = up[x], out'[x] = out[x]
  PROVE  /\ InTransit(x, k)' = (IF x = d THEN InTransit(x, k) - One(k, Head(down[d])) ELSE InTransit(x, k))
         /\ Count(down[x], k)' = (IF x = d THEN Count(down[x], k) - One(k, Head(down[d])) ELSE Count(down[x], k))
<1>1. down[d] \in Seq(Frames)
  BY DEF TypeOK
<1>2. Count(Tail(down[d]), k) = Count(down[d], k) - One(k, Head(down[d]))
  BY <1>1, AheadTail
<1>3. Count(down[x], k) \in Nat /\ Count(out[x], k) \in Nat /\ Count(up[x], k) \in Nat
  BY CountsAre
<1>4. One(k, Head(down[d])) \in {0, 1}
  BY Kinds2
<1>5. CASE x = d
  BY <1>1, <1>2, <1>3, <1>4, <1>5 DEF InTransit, Total
<1>6. CASE x # d
  BY <1>1, <1>3, <1>6 DEF InTransit, Total
<1> QED
  BY <1>5, <1>6

LEMMA TransitReads ==
  ASSUME TypeOK, NEW d \in Peers, up[d] # <<>>, NEW o, NEW k, NEW x \in Peers,
         Count(out[d], k) = 0, Count(o, k) = One(k, Head(up[d])),
         up'[x] = (IF x = d THEN Tail(up[d]) ELSE up[x]),
         out'[x] = (IF x = d THEN o ELSE out[x]), down'[x] = down[x]
  PROVE  /\ InTransit(x, k)' = InTransit(x, k)
         /\ Count(up[x], k)' = (IF x = d THEN Count(up[x], k) - One(k, Head(up[d])) ELSE Count(up[x], k))
         /\ Count(out[x], k)' = (IF x = d THEN Count(out[x], k) + One(k, Head(up[d])) ELSE Count(out[x], k))
<1>1. up[d] \in Seq(Frames)
  BY DEF TypeOK
<1>3. Count(Tail(up[d]), k) = Count(up[d], k) - One(k, Head(up[d]))
  BY <1>1, AheadTail
<1>4. Count(down[x], k) \in Nat /\ Count(out[x], k) \in Nat /\ Count(up[x], k) \in Nat
  BY CountsAre
<1>5. One(k, Head(up[d])) \in {0, 1}
  BY Kinds2
<1>6. CASE x = d
  BY <1>1, <1>3, <1>4, <1>5, <1>6 DEF InTransit, Total
<1>7. CASE x # d
  BY <1>1, <1>4, <1>7 DEF InTransit, Total
<1> QED
  BY <1>6, <1>7

LEMMA TransitWrites ==
  ASSUME TypeOK, NEW d \in Peers, out[d] # <<>>, NEW x \in Peers, NEW k,
         down'[x] = (IF x = d THEN Append(down[d], Head(out[d])) ELSE down[x]),
         out'[x] = (IF x = d THEN Tail(out[d]) ELSE out[x]), up'[x] = up[x]
  PROVE  /\ InTransit(x, k)' = InTransit(x, k)
         /\ Count(down[x], k)' = (IF x = d THEN Count(down[x], k) + One(k, Head(out[d])) ELSE Count(down[x], k))
         /\ Count(out[x], k)' = (IF x = d THEN Count(out[x], k) - One(k, Head(out[d])) ELSE Count(out[x], k))
<1>1. out[d] \in Seq(Frames)
  BY DEF TypeOK
<1>2. down[d] \in Seq(Frames)
  BY DEF TypeOK
<1>3. Head(out[d]) \in Frames /\ Count(Tail(out[d]), k) = Count(out[d], k) - One(k, Head(out[d]))
  BY <1>1, AheadTail, HeadTailProperties
<1>4. Count(Append(down[d], Head(out[d])), k) = Count(down[d], k) + One(k, Head(out[d]))
  BY <1>2, <1>3, AheadAppend
<1>5. Count(down[x], k) \in Nat /\ Count(out[x], k) \in Nat /\ Count(up[x], k) \in Nat
  BY CountsAre
<1>6. One(k, Head(out[d])) \in {0, 1}
  BY Kinds2
<1>7. CASE x = d
  BY <1>1, <1>2, <1>3, <1>4, <1>5, <1>6, <1>7 DEF InTransit, Total
<1>8. CASE x # d
  BY <1>1, <1>2, <1>5, <1>8 DEF InTransit, Total
<1> QED
  BY <1>7, <1>8

\* Reading changes where announcements are, not their number.
LEMMA Reads ==
  ASSUME TypeOK, Shape, NEW d \in Peers, Passes(d) \/ Gathers(d) \/ PassesBlock(d)
  PROVE  /\ up[d] # <<>> /\ out[d] = <<>> /\ up' = [up EXCEPT ![d] = Tail(@)]
         /\ UNCHANGED <<down, sent, acked, peer, res>>
         /\ \A x \in Peers, k \in Announcements :
              /\ InTransit(x, k)' = InTransit(x, k)
              /\ Count(up[x], k)' = (IF x = d THEN Count(up[x], k) - One(k, Head(up[d])) ELSE Count(up[x], k))
              /\ Count(out[x], k)' = (IF x = d THEN Count(out[x], k) + One(k, Head(up[d])) ELSE Count(out[x], k))
<1>1. /\ up[d] # <<>> /\ out[d] = <<>> /\ up' = [up EXCEPT ![d] = Tail(@)]
      /\ UNCHANGED <<down, sent, acked, peer, res>>
  BY DEF Passes, Gathers, PassesBlock, Belongs, Forward, More, peerVars
<1>2. \A k : Count(out[d], k) = 0
  BY <1>1, CountEmpty
<1>3. Head(up[d]) \in Frames
  BY <1>1, HeadOf
<1>4. \E o : out' = [out EXCEPT ![d] = o] /\ \A k \in Announcements : Count(o, k) = One(k, Head(up[d]))
  <2>1. CASE Passes(d)
    <3>1. out' = [out EXCEPT ![d] = <<Head(up[d])>>]
      BY <2>1 DEF Passes, Forward
    <3>2. \A k : Count(<<Head(up[d])>>, k) = One(k, Head(up[d]))
      BY <1>3, CountOne
    <3> QED  BY <3>1, <3>2
  <2>2. ASSUME Belongs(d)
        PROVE  \A k \in Announcements : One(k, Head(up[d])) = 0
    BY <2>2, Kinds2 DEF Belongs, IsBlock
  <2>3. CASE Gathers(d)
    <3>1. out' = [out EXCEPT ![d] = <<>>]
      BY <1>1, <2>3 DEF Gathers, More, TypeOK
    <3> QED  BY <2>2, <2>3, <3>1, CountEmpty DEF Gathers
  <2>4. CASE PassesBlock(d)
    <3>1. PICK n \in Nat : Forward(d, Reframe(Block(d), n, limits[d].frame))
      BY <2>4 DEF PassesBlock
    <3> DEFINE r == Reframe(Block(d), n, limits[d].frame)
    <3>2. out' = [out EXCEPT ![d] = r]
      BY <3>1 DEF Forward
    <3>3. r \in Seq(Frames) /\ \A i \in 1..Len(r) : IsBlock(r[i])
      BY <2>4, PassedIs DEF PassesBlock
    <3> HIDE DEF r
    <3>4. \A k \in Announcements : Count(r, k) = 0
      BY <3>3, CountNone, Kinds2
    <3> QED  BY <2>2, <2>4, <3>2, <3>4 DEF PassesBlock
  <2> QED  BY <2>1, <2>3, <2>4
<1>5. PICK o : out' = [out EXCEPT ![d] = o] /\ \A k \in Announcements : Count(o, k) = One(k, Head(up[d]))
  BY <1>4
<1>6. ASSUME NEW x \in Peers, NEW k \in Announcements
      PROVE  /\ InTransit(x, k)' = InTransit(x, k)
             /\ Count(up[x], k)' = (IF x = d THEN Count(up[x], k) - One(k, Head(up[d])) ELSE Count(up[x], k))
             /\ Count(out[x], k)' = (IF x = d THEN Count(out[x], k) + One(k, Head(up[d])) ELSE Count(out[x], k))
  <2>1. /\ Count(out[d], k) = 0 /\ Count(o, k) = One(k, Head(up[d])) /\ up[d] # <<>>
        /\ up'[x] = (IF x = d THEN Tail(up[d]) ELSE up[x])
        /\ out'[x] = (IF x = d THEN o ELSE out[x]) /\ down'[x] = down[x]
    BY <1>1, <1>2, <1>5 DEF TypeOK
  <2> QED  BY <2>1, TransitReads DEF InTransit
<1> QED
  BY <1>1, <1>6

LEMMA ConservedInit == Init => Conserved
<1> SUFFICES ASSUME Init, NEW e \in Peers
             PROVE  /\ acked[e] >= 1
                    /\ peer[Peer(e)].applied = acked[e] + InTransit(Peer(e), "ack")
                    /\ Len(sent[e]) = peer[Peer(e)].applied + peer[Peer(e)].owed + InTransit(e, "settings")
  BY DEF Conserved
<1>1. PICK first \in {Preface, Other(0, 0)} :
        up = [d \in Peers |-> IF d = "client" THEN <<first>> ELSE <<>>]
  BY DEF Init
<1>2. first \in Frames /\ \A k \in Announcements : One(k, first) = 0
  <2>1. Preface \in Frames /\ Preface.kind = "preface"
    BY FrameIsFrame DEF Preface, Frame, Kinds
  <2>2. Other(0, 0) \in Frames /\ Other(0, 0).kind = "other"
    BY OtherIsFrame DEF Other, Frame
  <2> QED  BY <2>1, <2>2 DEF One, Is, Announcements
<1>3. ASSUME NEW x \in Peers, NEW k \in Announcements PROVE InTransit(x, k) = 0
  <2>1. Count(<<>>, k) = 0 /\ Count(<<first>>, k) = 0
    BY <1>2, CountEmpty, CountOne
  <2>2. down[x] = <<>> /\ out[x] = <<>> /\ up[x] \in {<<>>, <<first>>}
    BY <1>1 DEF Init
  <2> QED  BY <2>1, <2>2 DEF InTransit, Total
<1>4. /\ acked[e] = 1 /\ sent[e] = <<Defaults>> /\ Len(<<Defaults>>) = 1
      /\ peer[Peer(e)].applied = 1 /\ peer[Peer(e)].owed = 0
  BY TwoPeers DEF Init, Start
<1> QED
  BY <1>3, <1>4, TwoPeers DEF Announcements

LEMMA ConservedStep ==
  ASSUME TypeOK, Shape, Conserved, Effect
  PROVE  Conserved'
<1> SUFFICES ASSUME NEW z \in Peers
             PROVE  /\ acked'[z] >= 1
                    /\ peer'[Peer(z)].applied = acked'[z] + InTransit(Peer(z), "ack")'
                    /\ Len(sent'[z]) = peer'[Peer(z)].applied + peer'[Peer(z)].owed + InTransit(z, "settings")'
  BY DEF Conserved
<1>0. PICK y \in Peers : y = Peer(z)
  BY TwoPeers
<1>1. y \in Peers /\ y # z /\ Peer(y) = z /\ \A x \in Peers : x = z \/ x = y
  BY <1>0, TwoPeers
<1>2. /\ acked[z] >= 1
      /\ peer[y].applied = acked[z] + InTransit(y, "ack")
      /\ Len(sent[z]) = peer[y].applied + peer[y].owed + InTransit(z, "settings")
  BY <1>0 DEF Conserved
<1>3. /\ acked[z] \in Nat /\ peer[y].applied \in Nat /\ peer[y].owed \in Nat
      /\ InTransit(y, "ack") \in Nat /\ InTransit(z, "settings") \in Nat
      /\ Len(sent[z]) \in Nat
  BY <1>1, CountsAre, LenProperties DEF TypeOK
<1>12. sent[z] \in Seq(Limits)
  BY DEF TypeOK
<1>4. ASSUME UNCHANGED <<acked, sent>>,
             peer'[y].applied = peer[y].applied /\ peer'[y].owed = peer[y].owed,
             InTransit(y, "ack")' = InTransit(y, "ack"),
             InTransit(z, "settings")' = InTransit(z, "settings")
      PROVE  /\ acked'[z] >= 1
             /\ peer'[y].applied = acked'[z] + InTransit(y, "ack")'
             /\ Len(sent'[z]) = peer'[y].applied + peer'[y].owed + InTransit(z, "settings")'
  BY <1>2, <1>4 DEF InTransit
<1>5. ASSUME NEW e \in Peers, Sends(e)
      PROVE  /\ acked'[z] >= 1
             /\ peer'[y].applied = acked'[z] + InTransit(y, "ack")'
             /\ Len(sent'[z]) = peer'[y].applied + peer'[y].owed + InTransit(z, "settings")'
  <2>1. PICK f \in Frames :
          /\ f.kind # "ack" /\ up' = [up EXCEPT ![e] = Append(@, f)]
          /\ sent' = IF Is("settings", f) THEN [sent EXCEPT ![e] = Append(@, Asked(f))] ELSE sent
    BY <1>5 DEF Sends
  <2>2. /\ UNCHANGED <<down, out, acked>>
        /\ peer'[y].applied = peer[y].applied /\ peer'[y].owed = peer[y].owed
    BY <1>1, <1>5 DEF Sends, SameCounts, bridgeVars
  <2>3. /\ InTransit(y, "ack")' = (IF y = e THEN InTransit(y, "ack") + One("ack", f) ELSE InTransit(y, "ack"))
        /\ InTransit(z, "settings")' = (IF z = e THEN InTransit(z, "settings") + One("settings", f) ELSE InTransit(z, "settings"))
    <3>1. \A x \in Peers : /\ up'[x] = (IF x = e THEN Append(up[e], f) ELSE up[x])
                           /\ down'[x] = down[x] /\ out'[x] = out[x]
      BY <2>1, <2>2 DEF TypeOK
    <3>2. ASSUME NEW x \in Peers, NEW k
          PROVE  InTransit(x, k)' = (IF x = e THEN InTransit(x, k) + One(k, f) ELSE InTransit(x, k))
      BY <2>2, <3>1, TransitSends DEF InTransit
    <3> QED  BY <1>1, <3>2 DEF InTransit
  <2>4. One("ack", f) = 0
    BY <2>1, Kinds2
  <2>5. Len(sent'[z]) = (IF z = e THEN Len(sent[z]) + One("settings", f) ELSE Len(sent[z]))
    <3>1. CASE Is("settings", f) /\ z = e
      <4>1. Asked(f) \in Limits
        BY <3>1, FrameTypes DEF Is, SettingsOk, Asked, Limits
      <4>2. sent'[z] = Append(sent[z], Asked(f))
        BY <2>1, <3>1 DEF TypeOK
      <4>3. Len(Append(sent[z], Asked(f))) = Len(sent[z]) + 1
        BY <1>12, <4>1, AppendProperties
      <4> QED  BY <3>1, <4>2, <4>3 DEF One
    <3>2. CASE ~(Is("settings", f) /\ z = e)
      <4>1. sent'[z] = sent[z]
        BY <2>1, <3>2 DEF TypeOK
      <4>2. z = e => One("settings", f) = 0
        BY <3>2 DEF One
      <4> QED  BY <1>3, <4>1, <4>2
    <3> QED  BY <3>1, <3>2 DEF Is
  <2>6. One("settings", f) \in {0, 1}
    BY Kinds2
  <2>7. CASE z = e
    <3>1. InTransit(y, "ack")' = InTransit(y, "ack")
      BY <1>1, <2>3, <2>7
    <3>2. /\ InTransit(z, "settings")' = InTransit(z, "settings") + One("settings", f)
          /\ Len(sent'[z]) = Len(sent[z]) + One("settings", f) /\ acked'[z] = acked[z]
          /\ peer'[y].applied = peer[y].applied /\ peer'[y].owed = peer[y].owed
      BY <2>2, <2>3, <2>5, <2>7
    <3> QED  BY <1>2, <1>3, <2>6, <3>1, <3>2, SMTT(30)
  <2>8. CASE z # e
    <3>1. InTransit(y, "ack")' = InTransit(y, "ack")
      BY <1>1, <1>3, <2>3, <2>4, <2>8
    <3>2. /\ InTransit(z, "settings")' = InTransit(z, "settings")
          /\ Len(sent'[z]) = Len(sent[z]) /\ acked'[z] = acked[z]
      BY <2>2, <2>3, <2>5, <2>8
    <3> QED  BY <1>2, <1>3, <2>2, <3>1, <3>2
  <2> QED  BY <2>7, <2>8
<1>6. ASSUME NEW e \in Peers, Acks(e)
      PROVE  /\ acked'[z] >= 1
             /\ peer'[y].applied = acked'[z] + InTransit(y, "ack")'
             /\ Len(sent'[z]) = peer'[y].applied + peer'[y].owed + InTransit(z, "settings")'
  <2>1. /\ up' = [up EXCEPT ![e] = Append(@, Ack)] /\ UNCHANGED <<down, out, acked, sent>>
        /\ peer' = [peer EXCEPT ![e].applied = @ + 1, ![e].owed = @ - 1]
    BY <1>6 DEF Acks, bridgeVars
  <2>2. Ack \in Frames
    BY FrameIsFrame DEF Ack, Kinds
  <2>3. /\ InTransit(y, "ack")' = (IF y = e THEN InTransit(y, "ack") + One("ack", Ack) ELSE InTransit(y, "ack"))
        /\ InTransit(z, "settings")' = (IF z = e THEN InTransit(z, "settings") + One("settings", Ack) ELSE InTransit(z, "settings"))
    <3>1. \A x \in Peers : /\ up'[x] = (IF x = e THEN Append(up[e], Ack) ELSE up[x])
                           /\ down'[x] = down[x] /\ out'[x] = out[x]
      BY <2>1, <2>2 DEF TypeOK
    <3>2. ASSUME NEW x \in Peers, NEW k
          PROVE  InTransit(x, k)' = (IF x = e THEN InTransit(x, k) + One(k, Ack) ELSE InTransit(x, k))
      BY <2>2, <3>1, TransitSends DEF InTransit
    <3> QED  BY <1>1, <3>2 DEF InTransit
  <2>4. One("ack", Ack) = 1 /\ One("settings", Ack) = 0
    BY Kinds2
  <2>5. /\ peer'[y].applied = IF y = e THEN peer[y].applied + 1 ELSE peer[y].applied
        /\ peer'[y].owed = IF y = e THEN peer[y].owed - 1 ELSE peer[y].owed
    BY <2>1 DEF TypeOK
  <2>6. CASE y = e
    <3>1. /\ InTransit(y, "ack")' = InTransit(y, "ack") + 1
          /\ InTransit(z, "settings")' = InTransit(z, "settings")
      BY <1>1, <2>3, <2>4, <2>6
    <3>2. /\ peer'[y].applied = peer[y].applied + 1 /\ peer'[y].owed = peer[y].owed - 1
          /\ acked'[z] = acked[z] /\ Len(sent'[z]) = Len(sent[z])
      BY <2>1, <2>5, <2>6
    <3>3. peer'[y].applied + peer'[y].owed = peer[y].applied + peer[y].owed
      <4>1. PICK a \in Nat : a = peer[y].applied
        BY <1>3
      <4>2. PICK b \in Nat : b = peer[y].owed
        BY <1>3
      <4>3. peer'[y].applied = a + 1 /\ peer'[y].owed = b - 1
        BY <3>2, <4>1, <4>2
      <4>4. (a + 1) + (b - 1) = a + b
        OBVIOUS
      <4> QED  BY <4>1, <4>2, <4>3, <4>4
    <3>4. acked'[z] >= 1 /\ peer'[y].applied = acked'[z] + InTransit(y, "ack")'
      <4>1. PICK a \in Nat : a = acked[z]
        BY <1>3
      <4>2. PICK b \in Nat : b = InTransit(y, "ack")
        BY <1>3
      <4>3. InTransit(y, "ack")' = b + 1 /\ acked'[z] = a /\ a >= 1
        BY <1>2, <3>1, <3>2, <4>1, <4>2
      <4>4. peer'[y].applied = (a + b) + 1
        BY <1>2, <3>2, <4>1, <4>2
      <4>5. (a + b) + 1 = a + (b + 1)
        OBVIOUS
      <4> QED  BY <4>3, <4>4, <4>5
    <3>5. Len(sent'[z]) = peer'[y].applied + peer'[y].owed + InTransit(z, "settings")'
      BY <1>2, <3>1, <3>2, <3>3
    <3> QED  BY <3>4, <3>5
  <2>7. CASE y # e
    <3>1. /\ InTransit(y, "ack")' = InTransit(y, "ack")
          /\ InTransit(z, "settings")' = InTransit(z, "settings")
      BY <1>1, <1>3, <2>3, <2>4, <2>7
    <3>2. /\ peer'[y].applied = peer[y].applied /\ peer'[y].owed = peer[y].owed
          /\ acked'[z] = acked[z] /\ Len(sent'[z]) = Len(sent[z])
      BY <2>1, <2>5, <2>7
    <3> QED  BY <1>2, <1>3, <3>1, <3>2
  <2> QED  BY <2>6, <2>7
<1>7. ASSUME NEW e \in Peers, Receive(e)
      PROVE  /\ acked'[z] >= 1
             /\ peer'[y].applied = acked'[z] + InTransit(y, "ack")'
             /\ Len(sent'[z]) = peer'[y].applied + peer'[y].owed + InTransit(z, "settings")'
  <2>0. PICK d \in Peers : d = Peer(e)
    BY TwoPeers
  <2> DEFINE f == Head(down[d])
  <2>1. d \in Peers /\ (d = y <=> z = e) /\ (d = z <=> y = e)
    BY <1>1, <2>0, TwoPeers
  <2>2. /\ down[d] # <<>> /\ down' = [down EXCEPT ![d] = Tail(@)] /\ UNCHANGED <<out, up, sent>>
        /\ peer' = [peer EXCEPT ![e].owed = IF f.kind = "settings" THEN @ + 1 ELSE @]
        /\ acked' = [acked EXCEPT ![e] = IF f.kind = "ack" THEN @ + 1 ELSE @]
    BY <1>7, <2>0 DEF Receive, bridgeVars
  <2>3. f \in Passed
    <3>1. down[d] \in Seq(Passed)
      BY <2>1 DEF Shape, ShapeOf
    <3> QED  BY <2>2, <3>1, TailKeeps
  <2>4. /\ InTransit(y, "ack")' = (IF y = d THEN InTransit(y, "ack") - One("ack", f) ELSE InTransit(y, "ack"))
        /\ InTransit(z, "settings")' = (IF z = d THEN InTransit(z, "settings") - One("settings", f) ELSE InTransit(z, "settings"))
    <3>1. \A x \in Peers : /\ down'[x] = (IF x = d THEN Tail(down[d]) ELSE down[x])
                           /\ up'[x] = up[x] /\ out'[x] = out[x]
      BY <2>2 DEF TypeOK
    <3>2. ASSUME NEW x \in Peers, NEW k
          PROVE  InTransit(x, k)' = (IF x = d THEN InTransit(x, k) - One(k, f) ELSE InTransit(x, k))
      <4>1. down[d] # <<>>
        BY <2>2
      <4> QED  BY <3>1, <4>1, TransitReceives DEF InTransit
    <3> QED  BY <1>1, <3>2 DEF InTransit
  <2>5. One("ack", f) = (IF f.kind = "ack" THEN 1 ELSE 0)
        /\ One("settings", f) = (IF f.kind = "settings" THEN 1 ELSE 0)
    BY <2>3 DEF One, Is, Passed
  <2>6. acked'[z] = IF z = e /\ f.kind = "ack" THEN acked[z] + 1 ELSE acked[z]
    BY <2>2 DEF TypeOK
  <2>7. /\ peer'[y].applied = peer[y].applied
        /\ peer'[y].owed = IF y = e /\ f.kind = "settings" THEN peer[y].owed + 1 ELSE peer[y].owed
    BY <2>2 DEF TypeOK
  <2> HIDE DEF f
  <2>8. CASE z = e
    <3> DEFINE n == IF f.kind = "ack" THEN 1 ELSE 0
    <3>1. /\ InTransit(y, "ack")' = InTransit(y, "ack") - n
          /\ InTransit(z, "settings")' = InTransit(z, "settings")
      BY <1>1, <2>1, <2>4, <2>5, <2>8
    <3>2. /\ peer'[y].applied = peer[y].applied /\ peer'[y].owed = peer[y].owed
          /\ Len(sent'[z]) = Len(sent[z])
      BY <1>1, <2>2, <2>7, <2>8
    <3>3. acked'[z] = acked[z] + n /\ n \in Nat
      BY <1>3, <2>6, <2>8
    <3> HIDE DEF n
    <3> QED  BY <1>2, <1>3, <3>1, <3>2, <3>3, SMTT(30)
  <2>9. CASE y = e
    <3> DEFINE n == IF f.kind = "settings" THEN 1 ELSE 0
    <3>1. /\ InTransit(y, "ack")' = InTransit(y, "ack")
          /\ InTransit(z, "settings")' = InTransit(z, "settings") - n
      BY <1>1, <2>1, <2>4, <2>5, <2>9
    <3>2. /\ peer'[y].applied = peer[y].applied /\ acked'[z] = acked[z]
          /\ Len(sent'[z]) = Len(sent[z])
      BY <1>1, <2>2, <2>6, <2>7, <2>9
    <3>3. peer'[y].owed = peer[y].owed + n /\ n \in Nat
      BY <1>3, <2>7, <2>9
    <3> HIDE DEF n
    <3> QED  BY <1>2, <1>3, <3>1, <3>2, <3>3, SMTT(30)
  <2> QED  BY <1>1, <2>8, <2>9
<1>8. ASSUME NEW d \in Peers, Passes(d) \/ Gathers(d) \/ PassesBlock(d)
      PROVE  /\ acked'[z] >= 1
             /\ peer'[y].applied = acked'[z] + InTransit(y, "ack")'
             /\ Len(sent'[z]) = peer'[y].applied + peer'[y].owed + InTransit(z, "settings")'
  BY <1>1, <1>4, <1>8, Reads DEF Announcements
<1>9. ASSUME NEW d \in Peers, Write(d)
      PROVE  /\ acked'[z] >= 1
             /\ peer'[y].applied = acked'[z] + InTransit(y, "ack")'
             /\ Len(sent'[z]) = peer'[y].applied + peer'[y].owed + InTransit(z, "settings")'
  <2>1. /\ out[d] # <<>> /\ down' = [down EXCEPT ![d] = Append(@, Head(out[d]))]
        /\ out' = [out EXCEPT ![d] = Tail(@)] /\ UNCHANGED <<up, sent, acked, peer>>
    BY <1>9 DEF Write, Shape, ShapeOf, peerVars
  <2>2. InTransit(y, "ack")' = InTransit(y, "ack") /\ InTransit(z, "settings")' = InTransit(z, "settings")
    <3>1. \A x \in Peers : /\ down'[x] = (IF x = d THEN Append(down[d], Head(out[d])) ELSE down[x])
                           /\ out'[x] = (IF x = d THEN Tail(out[d]) ELSE out[x]) /\ up'[x] = up[x]
      BY <2>1 DEF TypeOK
    <3>2. ASSUME NEW x \in Peers, NEW k
          PROVE  InTransit(x, k)' = InTransit(x, k)
      <4>1. out[d] # <<>>
        BY <2>1
      <4> QED  BY <3>1, <4>1, TransitWrites DEF InTransit
    <3> QED  BY <1>1, <3>2 DEF InTransit
  <2> QED  BY <1>4, <2>1, <2>2
<1>10. ASSUME Idles \/ \E d \in Peers : Refuses(d)
       PROVE  /\ acked'[z] >= 1
              /\ peer'[y].applied = acked'[z] + InTransit(y, "ack")'
              /\ Len(sent'[z]) = peer'[y].applied + peer'[y].owed + InTransit(z, "settings")'
  <2>1. /\ UNCHANGED <<up, down, out, sent, acked>>
        /\ peer'[y].applied = peer[y].applied /\ peer'[y].owed = peer[y].owed
    BY <1>1, <1>10 DEF Idles, SameCounts, Refuses, Fail, wireVars, peerVars
  <2>2. InTransit(y, "ack")' = InTransit(y, "ack") /\ InTransit(z, "settings")' = InTransit(z, "settings")
    BY <2>1 DEF InTransit
  <2> QED  BY <1>4, <2>1, <2>2
<1>11. /\ acked'[z] >= 1
       /\ peer'[y].applied = acked'[z] + InTransit(y, "ack")'
       /\ Len(sent'[z]) = peer'[y].applied + peer'[y].owed + InTransit(z, "settings")'
  BY <1>5, <1>6, <1>7, <1>8, <1>9, <1>10, Zenon DEF Effect
<1> QED
  BY <1>0, <1>11 DEF InTransit

\* Which announcements are acknowledged, observed and read: in this order.
LEMMA InOrder ==
  ASSUME TypeOK, Conserved, NEW d \in Peers, NEW e \in Peers, e = Peer(d)
  PROVE  /\ acked[e] \in Nat \ {0} /\ Len(sent[e]) \in Nat /\ sent[e] \in Seq(Limits)
         /\ peer[d].applied \in Nat
         /\ peer[d].applied = acked[e] + Count(down[d], "ack") + Count(out[d], "ack") + Count(up[d], "ack")
         /\ peer[d].applied <= Len(sent[e]) - Count(up[e], "settings")
<1>1. d = Peer(e)
  BY TwoPeers
<1>2. /\ acked[e] >= 1 /\ peer[d].applied = acked[e] + InTransit(d, "ack")
      /\ Len(sent[e]) = peer[d].applied + peer[d].owed + InTransit(e, "settings")
  BY <1>1 DEF Conserved
<1>3. /\ acked[e] \in Nat /\ sent[e] \in Seq(Limits) /\ peer[d].applied \in Nat /\ peer[d].owed \in Nat
      /\ Count(down[d], "ack") \in Nat /\ Count(out[d], "ack") \in Nat /\ Count(up[d], "ack") \in Nat
      /\ Count(down[e], "settings") \in Nat /\ Count(out[e], "settings") \in Nat
      /\ Count(up[e], "settings") \in Nat
  BY CountsAre DEF TypeOK
<1>4. Len(sent[e]) \in Nat
  BY <1>3, LenProperties
<1>5. peer[d].applied = acked[e] + Count(down[d], "ack") + Count(out[d], "ack") + Count(up[d], "ack")
  BY <1>2, <1>3, SMTT(30) DEF InTransit, Total
<1>6. Len(sent[e]) = peer[d].applied + peer[d].owed
        + (Count(down[e], "settings") + Count(out[e], "settings") + Count(up[e], "settings"))
  BY <1>2 DEF InTransit, Total
<1>7. \A p, o, x, y, u, n \in Nat : n = p + o + (x + y + u) => p <= n - u
  OBVIOUS
<1>8. peer[d].applied <= Len(sent[e]) - Count(up[e], "settings")
  BY <1>3, <1>4, <1>6, <1>7
<1> QED
  BY <1>2, <1>3, <1>4, <1>5, <1>8

LEMMA HoldsSends ==
  ASSUME NEW l, NEW s \in Seq(Limits), NEW u \in Seq(Frames), Count(u, "settings") < Len(s),
         Holds(l, s, u), NEW f \in Frames
  PROVE  Holds(l, IF Is("settings", f) THEN Append(s, Asked(f)) ELSE s, Append(u, f))
<1> DEFINE n == Count(u, "settings")
           v == Append(u, f)
           t == IF Is("settings", f) THEN Append(s, Asked(f)) ELSE s
           read == Len(s) - n
<1>1. n \in Nat /\ Len(s) \in Nat /\ Len(u) \in Nat /\ \A i \in 0..Len(u) : Ahead(u, "settings", i) \in Nat
  BY CountType, LenProperties
<1>2. Len(v) = Len(u) + 1 /\ v[Len(u) + 1] = f /\ \A i \in 1..Len(u) : v[i] = u[i]
  BY AppendProperties
<1>3. /\ \A i \in 0..Len(u) : Ahead(v, "settings", i) = Ahead(u, "settings", i)
      /\ Count(v, "settings") = n + One("settings", f)
      /\ Ahead(v, "settings", Len(u) + 1) = n + One("settings", f)
  BY AheadAppend
<1>4. /\ Len(t) = Len(s) + One("settings", f)
      /\ \A k \in 1..Len(s) : t[k] = s[k]
      /\ Is("settings", f) => t[Len(s) + 1] = Asked(f)
  <2>1. CASE Is("settings", f)
    <3>1. Asked(f) \in Limits
      BY <2>1, FrameTypes DEF Is, SettingsOk, Asked, Limits
    <3> QED  BY <1>1, <2>1, <3>1, AppendProperties DEF One
  <2>2. CASE ~Is("settings", f)
    BY <1>1, <2>2 DEF One
  <2> QED  BY <2>1, <2>2 DEF Is
<1>5. One("settings", f) \in {0, 1} /\ (One("settings", f) = 1 <=> Is("settings", f))
  BY DEF One
<1>6. read \in 1..Len(s) /\ l = s[read]
      /\ \A i \in 1..Len(u) : Is("settings", u[i]) => Asked(u[i]) = s[read + Ahead(u, "settings", i)]
  BY <1>1 DEF Holds
<1> HIDE DEF n, v, t
<1>7. Len(t) - Count(v, "settings") = read
  BY <1>1, <1>3, <1>4, <1>5, SMTT(30)
<1>8. ASSUME NEW i \in 1..Len(v), Is("settings", v[i])
      PROVE  Asked(v[i]) = t[read + Ahead(v, "settings", i)]
  <2>1. CASE i = Len(u) + 1
    <3>1. v[i] = f /\ One("settings", f) = 1
      BY <1>2, <1>5, <1>8, <2>1
    <3>2. read + Ahead(v, "settings", i) = Len(s) + 1
      BY <1>1, <1>3, <2>1, <3>1
    <3> QED  BY <1>4, <1>5, <3>1, <3>2
  <2>2. CASE i # Len(u) + 1
    <3>1. i \in 1..Len(u) /\ i \in 0..Len(u) /\ v[i] = u[i]
      BY <1>1, <1>2, <2>2
    <3>2. Ahead(v, "settings", i) = Ahead(u, "settings", i) /\ Ahead(u, "settings", i) \in Nat
      BY <1>1, <1>3, <3>1
    <3>3. Ahead(u, "settings", i) <= n
      BY <3>1, AheadUpTo DEF n
    <3>4. read + Ahead(u, "settings", i) \in 1..Len(s)
      BY <1>1, <1>6, <3>2, <3>3
    <3> QED  BY <1>4, <1>6, <1>8, <3>1, <3>2, <3>4
  <2> QED  BY <2>1, <2>2
<1> HIDE DEF read
<1>9. l = t[read]
  BY <1>4, <1>6
<1> QED
  BY <1>7, <1>8, <1>9 DEF Holds, t, v

LEMMA HoldsReads ==
  ASSUME NEW l, NEW s \in Seq(Limits), NEW u \in Seq(Frames), u # <<>>, Holds(l, s, u)
  PROVE  Holds(IF Is("settings", Head(u)) THEN Asked(Head(u)) ELSE l, s, Tail(u))
<1> DEFINE n == Count(u, "settings")
           v == Tail(u)
           one == One("settings", Head(u))
           read == Len(s) - n
           m == IF Is("settings", Head(u)) THEN Asked(Head(u)) ELSE l
<1>1. n \in Nat /\ Len(s) \in Nat /\ Len(u) \in Nat \ {0} /\ Head(u) = u[1]
      /\ Len(v) = Len(u) - 1 /\ \A i \in 1..Len(v) : v[i] = u[i + 1]
  BY CountType, LenProperties, TailKeeps
<1>2. /\ \A i \in 0..Len(u) - 1 : Ahead(v, "settings", i) = Ahead(u, "settings", i + 1) - one
      /\ Count(v, "settings") = n - one
  BY AheadTail
<1>3. one \in {0, 1} /\ (one = 1 <=> Is("settings", Head(u)))
  BY DEF One
<1>4. l = s[read] /\ \A i \in 1..Len(u) : Is("settings", u[i]) => Asked(u[i]) = s[read + Ahead(u, "settings", i)]
  BY DEF Holds
<1>5. Ahead(u, "settings", 1) = one
  <2>1. Ahead(u, "settings", 0 + 1) = Ahead(u, "settings", 0) + One("settings", u[0 + 1]) /\ Ahead(u, "settings", 0) = 0
    BY AheadStep
  <2> QED  BY <1>1, <1>3, <2>1
<1> HIDE DEF one
<1>6. Len(s) - Count(v, "settings") = read + one
  BY <1>1, <1>2, <1>3
<1>7. m = s[read + one]
  BY <1>1, <1>3, <1>4, <1>5
<1>8. ASSUME NEW i \in 1..Len(v), Is("settings", v[i])
      PROVE  Asked(v[i]) = s[(read + one) + Ahead(v, "settings", i)]
  <2>1. i + 1 \in 1..Len(u) /\ i \in 0..Len(u) - 1 /\ v[i] = u[i + 1]
    BY <1>1
  <2>2. Ahead(u, "settings", i + 1) \in Nat /\ Ahead(v, "settings", i) = Ahead(u, "settings", i + 1) - one
    BY <1>2, <2>1, AheadStep
  <2>3. (read + one) + Ahead(v, "settings", i) = read + Ahead(u, "settings", i + 1)
    BY <1>1, <1>3, <2>2
  <2> QED  BY <1>4, <1>8, <2>1, <2>3
<1> HIDE DEF read, v, m
<1>9. Holds(m, s, v)
  BY <1>6, <1>7, <1>8 DEF Holds
<1> QED
  BY <1>9 DEF m, v

LEMMA StoredInit == Init => Stored
<1> SUFFICES ASSUME Init, NEW e \in Peers PROVE Holds(limits[Peer(e)], sent[e], up[e])
  BY DEF Stored
<1>1. PICK first \in {Preface, Other(0, 0)} :
        up = [d \in Peers |-> IF d = "client" THEN <<first>> ELSE <<>>]
  BY DEF Init
<1>2. first \in Frames /\ ~Is("settings", first)
  <2>1. Preface \in Frames /\ Preface.kind = "preface"
    BY FrameIsFrame DEF Preface, Frame, Kinds
  <2>2. Other(0, 0) \in Frames /\ Other(0, 0).kind = "other"
    BY OtherIsFrame DEF Other, Frame
  <2> QED  BY <2>1, <2>2 DEF Is
<1>3. limits[Peer(e)] = Defaults /\ sent[e] = <<Defaults>> /\ up[e] \in {<<>>, <<first>>}
  BY <1>1, TwoPeers DEF Init
<1>4. Len(<<Defaults>>) = 1 /\ <<Defaults>>[1] = Defaults
  OBVIOUS
<1>5. Count(up[e], "settings") = 0
  BY <1>2, <1>3, CountEmpty, CountOne DEF One
<1>6. \A i \in 1..Len(up[e]) : up[e][i] = first
  <2>1. Len(<<>>) = 0 /\ Len(<<first>>) = 1 /\ <<first>>[1] = first
    OBVIOUS
  <2> QED  BY <1>3, <2>1
<1> QED
  BY <1>2, <1>3, <1>4, <1>5, <1>6 DEF Holds

\* A step that reads f from d's wire, or that sends f, and one that does neither.
LEMMA StoredStep ==
  ASSUME TypeOK, Shape, Conserved, Stored, Effect
  PROVE  Stored'
<1> SUFFICES ASSUME NEW e \in Peers PROVE Holds(limits'[Peer(e)], sent'[e], up'[e])
  BY DEF Stored
<1>1. Holds(limits[Peer(e)], sent[e], up[e]) /\ Peer(e) \in Peers
  BY TwoPeers DEF Stored
<1>2. /\ sent[e] \in Seq(Limits) /\ up[e] \in Seq(Frames)
      /\ Count(up[e], "settings") < Len(sent[e])
  <2>1. PICK d \in Peers : d = Peer(e) /\ e = Peer(d)
    BY TwoPeers
  <2>2. /\ acked[e] \in Nat \ {0} /\ Len(sent[e]) \in Nat /\ sent[e] \in Seq(Limits)
        /\ peer[d].applied = acked[e] + Count(down[d], "ack") + Count(out[d], "ack") + Count(up[d], "ack")
        /\ peer[d].applied <= Len(sent[e]) - Count(up[e], "settings")
    BY <2>1, InOrder
  <2>3. /\ Count(down[d], "ack") \in Nat /\ Count(out[d], "ack") \in Nat /\ Count(up[d], "ack") \in Nat
        /\ Count(up[e], "settings") \in Nat /\ up[e] \in Seq(Frames)
    BY CountsAre DEF TypeOK
  <2>4. \A a \in Nat \ {0} : \A x, y, z, u, n \in Nat : a + x + y + z <= n - u => u < n
    OBVIOUS
  <2>5. acked[e] + Count(down[d], "ack") + Count(out[d], "ack") + Count(up[d], "ack")
          <= Len(sent[e]) - Count(up[e], "settings")
    BY <2>2
  <2> QED  BY <2>2, <2>3, <2>4, <2>5
<1>3. ASSUME NEW f \in Frames,
             up'[e] = Append(up[e], f), limits' = limits,
             sent'[e] = IF Is("settings", f) THEN Append(sent[e], Asked(f)) ELSE sent[e]
      PROVE  Holds(limits'[Peer(e)], sent'[e], up'[e])
  BY <1>1, <1>2, <1>3, HoldsSends
<1>4. ASSUME limits'[Peer(e)] = limits[Peer(e)], sent'[e] = sent[e], up'[e] = up[e]
      PROVE  Holds(limits'[Peer(e)], sent'[e], up'[e])
  BY <1>1, <1>4
<1>5. ASSUME NEW x \in Peers, Sends(x)
      PROVE  Holds(limits'[Peer(e)], sent'[e], up'[e])
  <2>1. PICK f \in Frames :
          /\ up' = [up EXCEPT ![x] = Append(@, f)]
          /\ sent' = IF Is("settings", f) THEN [sent EXCEPT ![x] = Append(@, Asked(f))] ELSE sent
    BY <1>5 DEF Sends
  <2>2. limits' = limits
    BY <1>5 DEF Sends, bridgeVars
  <2>3. CASE x = e
    <3>1. /\ up'[e] = Append(up[e], f)
          /\ sent'[e] = IF Is("settings", f) THEN Append(sent[e], Asked(f)) ELSE sent[e]
      BY <2>1, <2>3 DEF TypeOK
    <3> QED  BY <1>3, <2>2, <3>1
  <2>4. CASE x # e
    <3>1. up'[e] = up[e] /\ sent'[e] = sent[e]
      BY <2>1, <2>4 DEF TypeOK
    <3> QED  BY <1>4, <2>2, <3>1
  <2> QED  BY <2>3, <2>4
<1>6. ASSUME NEW x \in Peers, Acks(x)
      PROVE  Holds(limits'[Peer(e)], sent'[e], up'[e])
  <2>1. up' = [up EXCEPT ![x] = Append(@, Ack)] /\ limits' = limits /\ sent' = sent
    BY <1>6 DEF Acks, bridgeVars
  <2>2. Ack \in Frames /\ ~Is("settings", Ack)
    BY FrameIsFrame, Kinds2 DEF Ack, Kinds
  <2>3. CASE x = e
    <3>1. up'[e] = Append(up[e], Ack)
      BY <2>1, <2>3 DEF TypeOK
    <3> QED  BY <1>3, <2>1, <2>2, <3>1
  <2>4. CASE x # e
    <3>1. up'[e] = up[e]
      BY <2>1, <2>4 DEF TypeOK
    <3> QED  BY <1>4, <2>1, <3>1
  <2> QED  BY <2>3, <2>4
<1>7. ASSUME NEW d \in Peers, Passes(d) \/ Gathers(d) \/ PassesBlock(d)
      PROVE  Holds(limits'[Peer(e)], sent'[e], up'[e])
  <2>1. up[d] # <<>> /\ up' = [up EXCEPT ![d] = Tail(@)] /\ sent' = sent
    BY <1>7, Reads
  <2> DEFINE f == Head(up[d])
  <2>2. limits' = IF Is("settings", f) THEN [limits EXCEPT ![Peer(d)] = Asked(f)] ELSE limits
    <3>1. CASE Passes(d)
      BY <3>1 DEF Passes, Is
    <3>2. CASE Gathers(d) \/ PassesBlock(d)
      <4>1. IsBlock(f) /\ limits' = limits
        BY <3>2 DEF Gathers, PassesBlock, Belongs, More, IsBlock
      <4> QED  BY <4>1, Kinds2 DEF Announcements
    <3> QED  BY <1>7, <3>1, <3>2
  <2> HIDE DEF f
  <2>3. CASE d = e
    <3>1. /\ up'[e] = Tail(up[e]) /\ up[e] # <<>> /\ f = Head(up[e])
          /\ limits'[Peer(e)] = IF Is("settings", f) THEN Asked(f) ELSE limits[Peer(e)]
      BY <1>1, <2>1, <2>2, <2>3 DEF TypeOK, f
    <3> QED  BY <1>1, <1>2, <2>1, <3>1, HoldsReads
  <2>4. CASE d # e
    <3>1. up'[e] = up[e] /\ limits'[Peer(e)] = limits[Peer(e)]
      <4>1. Peer(d) # Peer(e)
        BY <2>4, TwoPeers
      <4> QED  BY <1>1, <2>1, <2>2, <2>4, <4>1 DEF TypeOK
    <3> QED  BY <1>4, <2>1, <3>1
  <2> QED  BY <2>3, <2>4
<1>8. ASSUME Idles \/ \E d \in Peers : Receive(d) \/ Write(d) \/ Refuses(d)
      PROVE  Holds(limits'[Peer(e)], sent'[e], up'[e])
  <2>1. UNCHANGED <<limits, sent, up>>
    BY <1>8 DEF Idles, Receive, Write, Refuses, Fail, wireVars, peerVars, bridgeVars
  <2> QED  BY <1>4, <2>1
<1> QED
  BY <1>5, <1>6, <1>7, <1>8 DEF Effect

-----------------------------------------------------------------------------
\* A block f on its way obeys some limits of s, those of the peer that it goes
\* to, from the one on that the peer has acknowledged when it reads f.
Within(f, s, from) ==
  \E k \in from..Len(s) : Payload(f) <= s[k].frame /\ f.table <= s[k].table

\* The wire w and what is to be written, o, for a peer that acknowledged a of s.
HonouredBy(s, w, o, a) ==
  /\ \A i \in 1..Len(w) : IsBlock(w[i]) => Within(w[i], s, a + Ahead(w, "ack", i))
  /\ \A i \in 1..Len(o) : IsBlock(o[i]) => Within(o[i], s, a + Count(w, "ack"))
Honoured ==
  \A d \in Peers : HonouredBy(sent[Peer(d)], down[d], out[d], acked[Peer(d)])

LEMMA HonouredSends ==
  ASSUME NEW s \in Seq(Limits), NEW l \in Limits, NEW w \in Seq(Frames), NEW o \in Seq(Frames),
         NEW a \in Nat \ {0}, HonouredBy(s, w, o, a)
  PROVE  HonouredBy(Append(s, l), w, o, a)
<1>1. Len(s) \in Nat /\ Len(Append(s, l)) = Len(s) + 1 /\ \A k \in 1..Len(s) : Append(s, l)[k] = s[k]
  BY LenProperties, AppendProperties
<1>2. ASSUME NEW f, NEW from \in Nat \ {0}, Within(f, s, from)
      PROVE  Within(f, Append(s, l), from)
  <2>1. PICK k \in from..Len(s) : Payload(f) <= s[k].frame /\ f.table <= s[k].table
    BY <1>2 DEF Within
  <2>2. k \in from..Len(Append(s, l)) /\ Append(s, l)[k] = s[k]
    BY <1>1
  <2> QED  BY <2>1, <2>2 DEF Within
<1>3. ASSUME NEW i \in 1..Len(w) PROVE a + Ahead(w, "ack", i) \in Nat \ {0}
  <2>1. i \in 0..Len(w)
    BY LenProperties
  <2>2. Ahead(w, "ack", i) \in Nat
    BY <2>1, CountType
  <2> QED  BY <2>2
<1>4. a + Count(w, "ack") \in Nat \ {0}
  BY CountType
<1> QED
  BY <1>2, <1>3, <1>4 DEF HonouredBy

LEMMA HonouredReceives ==
  ASSUME NEW s, NEW w \in Seq(Frames), w # <<>>, NEW o, NEW a \in Nat, HonouredBy(s, w, o, a)
  PROVE  HonouredBy(s, Tail(w), o, a + One("ack", Head(w)))
<1> DEFINE one == One("ack", Head(w))
           v == Tail(w)
<1>1. /\ \A i \in 0..Len(w) - 1 : Ahead(v, "ack", i) = Ahead(w, "ack", i + 1) - one
      /\ Count(v, "ack") = Count(w, "ack") - one
  BY AheadTail
<1>2. Len(v) = Len(w) - 1 /\ Len(w) \in Nat \ {0} /\ \A i \in 1..Len(v) : v[i] = w[i + 1]
  BY TailKeeps
<1>3. one \in {0, 1} /\ Count(w, "ack") \in Nat
  BY Kinds2, CountType
<1> HIDE DEF one, v
<1>4. (a + one) + Count(v, "ack") = a + Count(w, "ack")
  BY <1>1, <1>3
<1>5. ASSUME NEW i \in 1..Len(v), IsBlock(v[i])
      PROVE  Within(v[i], s, (a + one) + Ahead(v, "ack", i))
  <2>1. i + 1 \in 1..Len(w) /\ i \in 0..Len(w) - 1 /\ v[i] = w[i + 1] /\ i \in Nat
    BY <1>2
  <2>2. Ahead(w, "ack", i + 1) \in Nat
    BY <2>1, AheadStep
  <2>3. (a + one) + Ahead(v, "ack", i) = a + Ahead(w, "ack", i + 1)
    BY <1>1, <1>3, <2>1, <2>2
  <2> QED  BY <1>5, <2>1, <2>3 DEF HonouredBy
<1> QED
  BY <1>4, <1>5 DEF HonouredBy, one, v

LEMMA HonouredWrites ==
  ASSUME NEW s, NEW w \in Seq(Frames), NEW o \in Seq(Frames), o # <<>>, NEW a \in Nat,
         \A i \in 1..Len(o) : IsBlock(o[i]) \/ Len(o) = 1, HonouredBy(s, w, o, a)
  PROVE  HonouredBy(s, Append(w, Head(o)), Tail(o), a)
<1> DEFINE f == Head(o)
           v == Append(w, f)
           t == Tail(o)
<1>1. f \in Frames /\ f = o[1] /\ Len(t) = Len(o) - 1 /\ Len(o) \in Nat \ {0}
      /\ \A i \in 1..Len(t) : t[i] = o[i + 1]
  BY TailKeeps
<1> HIDE DEF f, t
<1>2. /\ \A i \in 0..Len(w) : Ahead(v, "ack", i) = Ahead(w, "ack", i)
      /\ Count(v, "ack") = Count(w, "ack") + One("ack", f)
      /\ Ahead(v, "ack", Len(w) + 1) = Count(w, "ack") + One("ack", f)
  BY <1>1, AheadAppend
<1>3. Len(w) \in Nat /\ Len(v) = Len(w) + 1 /\ v[Len(w) + 1] = f /\ \A i \in 1..Len(w) : v[i] = w[i]
  BY <1>1, LenProperties, AppendProperties
<1>4. Count(w, "ack") \in Nat
  BY CountType
<1>5. IsBlock(f) => One("ack", f) = 0
  BY Kinds2 DEF Announcements
<1> HIDE DEF v
<1>6. ASSUME NEW i \in 1..Len(v), IsBlock(v[i])
      PROVE  Within(v[i], s, a + Ahead(v, "ack", i))
  <2>1. CASE i = Len(w) + 1
    <3>1. Ahead(v, "ack", i) = Count(w, "ack") /\ v[i] = o[1] /\ 1 \in 1..Len(o)
      BY <1>1, <1>2, <1>3, <1>4, <1>5, <1>6, <2>1
    <3> QED  BY <1>6, <3>1 DEF HonouredBy
  <2>2. CASE i # Len(w) + 1
    <3>1. i \in 1..Len(w) /\ i \in 0..Len(w) /\ v[i] = w[i]
      BY <1>3, <2>2
    <3> QED  BY <1>2, <1>6, <3>1 DEF HonouredBy
  <2> QED  BY <2>1, <2>2
<1>7. ASSUME NEW i \in 1..Len(t), IsBlock(t[i])
      PROVE  Within(t[i], s, a + Count(v, "ack"))
  <2>1. i + 1 \in 1..Len(o) /\ 1 \in 1..Len(o) /\ Len(o) # 1 /\ t[i] = o[i + 1]
    BY <1>1
  <2>2. IsBlock(f)
    BY <1>1, <2>1
  <2>3. Count(v, "ack") = Count(w, "ack")
    BY <1>2, <1>4, <1>5, <2>2
  <2> QED  BY <1>7, <2>1, <2>3 DEF HonouredBy
<1> QED
  BY <1>6, <1>7 DEF HonouredBy, f, v, t

\* The limits that bind a direction are announced no earlier than those that the
\* receiver knows to bind it.
LEMMA LimitsAre ==
  ASSUME TypeOK, Conserved, Stored, NEW d \in Peers, NEW e \in Peers, e = Peer(d)
  PROVE  \E read \in peer[d].applied..Len(sent[e]) : limits[d] = sent[e][read]
<1>1. /\ Len(sent[e]) \in Nat /\ peer[d].applied \in Nat
      /\ peer[d].applied <= Len(sent[e]) - Count(up[e], "settings")
  BY InOrder
<1>2. Count(up[e], "settings") \in Nat
  BY CountsAre
<1>3. limits[d] = sent[e][Len(sent[e]) - Count(up[e], "settings")]
  BY TwoPeers DEF Stored, Holds
<1>4. Len(sent[e]) - Count(up[e], "settings") \in peer[d].applied..Len(sent[e])
  BY <1>1, <1>2
<1> QED
  BY <1>3, <1>4

LEMMA HonouredInit == Init => Honoured
<1> SUFFICES ASSUME Init, NEW d \in Peers
             PROVE  HonouredBy(sent[Peer(d)], <<>>, <<>>, acked[Peer(d)])
  BY DEF Init, Honoured
<1>1. Len(<<>>) = 0
  OBVIOUS
<1> QED
  BY <1>1 DEF HonouredBy

LEMMA HonouredStep ==
  ASSUME TypeOK, Shape, Conserved, Stored, Honoured, Effect
  PROVE  Honoured'
<1> SUFFICES ASSUME NEW d \in Peers
             PROVE  HonouredBy(sent'[Peer(d)], down'[d], out'[d], acked'[Peer(d)])
  BY DEF Honoured
<1>0. PICK e \in Peers : e = Peer(d)
  BY TwoPeers
<1>1. d = Peer(e) /\ HonouredBy(sent[e], down[d], out[d], acked[e])
  BY <1>0, TwoPeers DEF Honoured
<1>2. /\ sent[e] \in Seq(Limits) /\ down[d] \in Seq(Frames) /\ out[d] \in Seq(Frames)
      /\ acked[e] \in Nat \ {0}
  BY <1>0, InOrder DEF TypeOK
<1>3. ASSUME NEW x \in Peers, Sends(x)
      PROVE  HonouredBy(sent'[e], down'[d], out'[d], acked'[e])
  <2>1. PICK f \in Frames :
          sent' = IF Is("settings", f) THEN [sent EXCEPT ![x] = Append(@, Asked(f))] ELSE sent
    BY <1>3 DEF Sends
  <2>2. UNCHANGED <<down, out, acked>>
    BY <1>3 DEF Sends, bridgeVars
  <2>3. CASE Is("settings", f) /\ x = e
    <3>1. Asked(f) \in Limits
      BY <2>3, FrameTypes DEF Is, SettingsOk, Asked, Limits
    <3>2. sent'[e] = Append(sent[e], Asked(f))
      BY <2>1, <2>3 DEF TypeOK
    <3> QED  BY <1>1, <1>2, <2>2, <3>1, <3>2, HonouredSends
  <2>4. CASE ~(Is("settings", f) /\ x = e)
    <3>1. sent'[e] = sent[e]
      BY <2>1, <2>4 DEF TypeOK
    <3> QED  BY <1>1, <2>2, <3>1
  <2> QED  BY <2>3, <2>4
<1>4. ASSUME NEW x \in Peers, Receive(x)
      PROVE  HonouredBy(sent'[e], down'[d], out'[d], acked'[e])
  <2>1. PICK z \in Peers : z = Peer(x)
    BY TwoPeers
  <2>2. /\ down[z] # <<>> /\ down' = [down EXCEPT ![z] = Tail(@)] /\ UNCHANGED <<out, sent>>
        /\ acked' = [acked EXCEPT ![x] = IF Head(down[z]).kind = "ack" THEN @ + 1 ELSE @]
    BY <1>4, <2>1 DEF Receive, bridgeVars
  <2>3. z = d <=> x = e
    BY <1>0, <2>1, TwoPeers
  <2>4. CASE x = e
    <3>1. /\ down'[d] = Tail(down[d]) /\ down[d] # <<>>
          /\ acked'[e] = IF Head(down[d]).kind = "ack" THEN acked[e] + 1 ELSE acked[e]
      BY <2>2, <2>3, <2>4 DEF TypeOK
    <3>2. acked'[e] = acked[e] + One("ack", Head(down[d]))
      BY <1>2, <3>1, Kinds2
    <3> QED  BY <1>1, <1>2, <2>2, <3>1, <3>2, HonouredReceives
  <2>5. CASE x # e
    <3>1. down'[d] = down[d] /\ acked'[e] = acked[e]
      BY <2>2, <2>3, <2>5 DEF TypeOK
    <3> QED  BY <1>1, <2>2, <3>1
  <2> QED  BY <2>4, <2>5
<1>5. ASSUME NEW x \in Peers, Write(x)
      PROVE  HonouredBy(sent'[e], down'[d], out'[d], acked'[e])
  <2>1. /\ out[x] # <<>> /\ down' = [down EXCEPT ![x] = Append(@, Head(out[x]))]
        /\ out' = [out EXCEPT ![x] = Tail(@)] /\ UNCHANGED <<sent, acked>>
    BY <1>5 DEF Write, Shape, ShapeOf, peerVars
  <2>2. CASE x = d
    <3>1. down'[d] = Append(down[d], Head(out[d])) /\ out'[d] = Tail(out[d]) /\ out[d] # <<>>
      BY <2>1, <2>2 DEF TypeOK
    <3>2. \A i \in 1..Len(out[d]) : IsBlock(out[d][i]) \/ Len(out[d]) = 1
      BY DEF Shape, ShapeOf
    <3>3. acked[e] \in Nat
      BY <1>2
    <3>4. HonouredBy(sent[e], Append(down[d], Head(out[d])), Tail(out[d]), acked[e])
      BY <1>1, <1>2, <3>1, <3>2, <3>3, HonouredWrites
    <3> QED  BY <2>1, <3>1, <3>4
  <2>3. CASE x # d
    <3>1. down'[d] = down[d] /\ out'[d] = out[d]
      BY <2>1, <2>3 DEF TypeOK
    <3> QED  BY <1>1, <2>1, <3>1
  <2> QED  BY <2>2, <2>3
<1>6. ASSUME NEW x \in Peers, Passes(x)
      PROVE  HonouredBy(sent'[e], down'[d], out'[d], acked'[e])
  <2> DEFINE f == Head(up[x])
  <2>1. /\ out' = [out EXCEPT ![x] = <<f>>] /\ UNCHANGED <<down, sent, acked>> /\ ~IsBlock(f)
    BY <1>6 DEF Passes, Forward, peerVars, IsBlock
  <2> HIDE DEF f
  <2>2. out'[d] = (IF x = d THEN <<f>> ELSE out[d])
    BY <2>1 DEF TypeOK
  <2>3. \A i \in 1..Len(<<f>>) : <<f>>[i] = f
    OBVIOUS
  <2>4. CASE x = d
    <3>1. \A i \in 1..Len(out'[d]) : ~IsBlock(out'[d][i])
      BY <2>1, <2>2, <2>3, <2>4
    <3> QED  BY <1>1, <2>1, <3>1 DEF HonouredBy
  <2>5. CASE x # d
    BY <1>1, <2>1, <2>2, <2>5
  <2> QED  BY <2>4, <2>5
<1>7. ASSUME NEW x \in Peers, PassesBlock(x)
      PROVE  HonouredBy(sent'[e], down'[d], out'[d], acked'[e])
  <2>1. PICK n \in Nat : Forward(x, Reframe(Block(x), n, limits[x].frame))
    BY <1>7 DEF PassesBlock
  <2> DEFINE r == Reframe(Block(x), n, limits[x].frame)
  <2>2. out' = [out EXCEPT ![x] = r] /\ UNCHANGED <<down, sent, acked>>
    BY <2>1 DEF Forward, peerVars
  <2>3. \A i \in 1..Len(r) : Payload(r[i]) <= limits[x].frame /\ r[i].table <= limits[x].table
    BY <1>7, PassedIs DEF PassesBlock
  <2> HIDE DEF r
  <2>4. CASE x = d
    <3>1. PICK read \in peer[d].applied..Len(sent[e]) : limits[d] = sent[e][read]
      BY <1>0, LimitsAre
    <3>2. read \in acked[e] + Count(down[d], "ack")..Len(sent[e])
      <4>1. /\ acked[e] \in Nat /\ Len(sent[e]) \in Nat /\ peer[d].applied \in Nat
            /\ peer[d].applied = acked[e] + Count(down[d], "ack") + Count(out[d], "ack") + Count(up[d], "ack")
        BY <1>0, InOrder
      <4>2. Count(down[d], "ack") \in Nat /\ Count(out[d], "ack") \in Nat /\ Count(up[d], "ack") \in Nat
        BY CountsAre
      <4>3. \A a, x1, y, z, p, m, k \in Nat : p = a + x1 + y + z /\ k \in p..m => k \in (a + x1)..m
        OBVIOUS
      <4>4. read \in Nat
        BY <3>1, <4>1
      <4> QED  BY <3>1, <4>1, <4>2, <4>3, <4>4
    <3>3. out'[d] = r
      BY <2>2, <2>4 DEF TypeOK
    <3>4. \A i \in 1..Len(r) : Within(r[i], sent[e], acked[e] + Count(down[d], "ack"))
      BY <2>3, <2>4, <3>1, <3>2 DEF Within
    <3> QED  BY <1>1, <2>2, <3>3, <3>4 DEF HonouredBy
  <2>5. CASE x # d
    <3>1. out'[d] = out[d]
      BY <2>2, <2>5 DEF TypeOK
    <3> QED  BY <1>1, <2>2, <3>1
  <2> QED  BY <2>4, <2>5
<1>8. ASSUME Idles \/ \E x \in Peers : Acks(x) \/ Gathers(x) \/ Refuses(x)
      PROVE  HonouredBy(sent'[e], down'[d], out'[d], acked'[e])
  <2>1. UNCHANGED <<down, out, sent, acked>>
    BY <1>8 DEF Idles, Acks, Gathers, More, Refuses, Fail, wireVars, peerVars, bridgeVars
  <2> QED  BY <1>1, <2>1
<1>9. HonouredBy(sent'[e], down'[d], out'[d], acked'[e])
  BY <1>3, <1>4, <1>5, <1>6, <1>7, <1>8 DEF Effect
<1> QED
  BY <1>0, <1>9

LEMMA HonouredSuffices ==
  ASSUME TypeOK, Conserved, Honoured
  PROVE  LimitsKept
<1> SUFFICES ASSUME NEW d \in Peers, down[d] # <<>>, IsBlock(Head(down[d]))
             PROVE  /\ \E l \in Tolerated(Peer(d)) : Payload(Head(down[d])) <= l.frame
                    /\ \E l \in Tolerated(Peer(d)) : Head(down[d]).table <= l.table
  BY DEF LimitsKept
<1>0. PICK e \in Peers : e = Peer(d)
  BY TwoPeers
<1>1. /\ sent[e] \in Seq(Limits) /\ down[d] \in Seq(Frames) /\ acked[e] \in Nat
  BY DEF TypeOK
<1>2. 1 \in 1..Len(down[d]) /\ Head(down[d]) = down[d][1]
  BY <1>1, TailKeeps
<1>3. Within(Head(down[d]), sent[e], acked[e] + Ahead(down[d], "ack", 1))
  BY <1>0, <1>2 DEF Honoured, HonouredBy
<1>4. Ahead(down[d], "ack", 1) \in Nat
  BY AheadStep
<1>5. PICK k \in acked[e] + Ahead(down[d], "ack", 1)..Len(sent[e]) :
        Payload(Head(down[d])) <= sent[e][k].frame /\ Head(down[d]).table <= sent[e][k].table
  BY <1>3 DEF Within
<1>6. k \in acked[e]..Len(sent[e])
  <2>1. Len(sent[e]) \in Nat
    BY <1>1, LenProperties
  <2> QED  BY <1>1, <1>4, <1>5, <2>1
<1>7. sent[e][k] \in Tolerated(e)
  BY <1>6 DEF Tolerated
<1> QED
  BY <1>0, <1>5, <1>7

-----------------------------------------------------------------------------
\* A block on its way from a peer obeys the limits that the peer observed when
\* it sent it: those that the acknowledgements before it in its wire u accept.
\* g is the block that is being gathered, n the last acknowledged before u.
ObservedBy(s, u, g, n) ==
  /\ \A i \in 1..Len(u) : IsBlock(u[i]) => Obeys(u[i], s[n + Ahead(u, "ack", i)])
  /\ \A i \in 1..Len(g) : Obeys(g[i], s[n])
Before(d) == acked[Peer(d)] + Count(down[d], "ack") + Count(out[d], "ack")
Observing == \A d \in Peers : ObservedBy(sent[Peer(d)], up[d], got[d], Before(d))

\* Limits that are lowered, of those that are not known to be acknowledged.
Lowers(s, from) ==
  \E i, j \in from..Len(s) : i < j /\ (s[j].frame < s[i].frame \/ s[j].table < s[i].table)
Lowered ==
  res = "limit" =>
    \E d \in Peers : Lowers(sent[Peer(d)], acked[Peer(d)] + Count(down[d], "ack"))

\* Faults that are blocks stay below every limit.
SmallFaults == \A f \in Faults : IsBlock(f) => Payload(f) <= MinFrame /\ f.table = 0

LEMMA ObservedSends ==
  ASSUME NEW s \in Seq(Limits), NEW u \in Seq(Frames), NEW g, NEW n \in Nat,
         n + Count(u, "ack") \in 1..Len(s), NEW f \in Frames,
         IsBlock(f) => Obeys(f, s[n + Count(u, "ack")]), ObservedBy(s, u, g, n)
  PROVE  ObservedBy(s, Append(u, f), g, n)
<1> DEFINE v == Append(u, f)
<1>1. Len(u) \in Nat /\ Len(v) = Len(u) + 1 /\ v[Len(u) + 1] = f /\ \A i \in 1..Len(u) : v[i] = u[i]
  BY LenProperties, AppendProperties
<1>2. /\ \A i \in 0..Len(u) : Ahead(v, "ack", i) = Ahead(u, "ack", i)
      /\ Ahead(v, "ack", Len(u) + 1) = Count(u, "ack") + One("ack", f)
  BY AheadAppend
<1>3. Count(u, "ack") \in Nat /\ (IsBlock(f) => One("ack", f) = 0)
  BY CountType, Kinds2 DEF Announcements
<1> HIDE DEF v
<1>4. ASSUME NEW i \in 1..Len(v), IsBlock(v[i])
      PROVE  Obeys(v[i], s[n + Ahead(v, "ack", i)])
  <2>1. CASE i = Len(u) + 1
    <3>1. v[i] = f /\ IsBlock(f)
      BY <1>1, <1>4, <2>1
    <3>2. Ahead(v, "ack", i) = Count(u, "ack")
      BY <1>2, <1>3, <2>1, <3>1
    <3> QED  BY <3>1, <3>2
  <2>2. CASE i # Len(u) + 1
    <3>1. i \in 1..Len(u) /\ i \in 0..Len(u) /\ v[i] = u[i]
      BY <1>1, <2>2
    <3> QED  BY <1>2, <1>4, <3>1 DEF ObservedBy
  <2> QED  BY <2>1, <2>2
<1> QED
  BY <1>4 DEF ObservedBy, v

LEMMA ObservedGrows ==
  ASSUME NEW s \in Seq(Limits), NEW l \in Limits, NEW u \in Seq(Frames), NEW g, NEW n \in Nat \ {0},
         n + Count(u, "ack") <= Len(s), ObservedBy(s, u, g, n)
  PROVE  ObservedBy(Append(s, l), u, g, n)
<1>1. Len(s) \in Nat /\ \A k \in 1..Len(s) : Append(s, l)[k] = s[k]
  BY LenProperties, AppendProperties
<1>2. Count(u, "ack") \in Nat /\ Len(u) \in Nat
  BY CountType, LenProperties
<1>3. n \in 1..Len(s)
  BY <1>1, <1>2
<1>4. ASSUME NEW i \in 1..Len(u)
      PROVE  n + Ahead(u, "ack", i) \in 1..Len(s)
  <2>1. i \in 0..Len(u)
    BY <1>2
  <2>2. Ahead(u, "ack", i) \in 0..Count(u, "ack")
    BY <2>1, AheadUpTo
  <2> QED  BY <1>1, <1>2, <2>2
<1> QED
  BY <1>1, <1>3, <1>4 DEF ObservedBy

\* A frame of the block h is read from u.
LEMMA ObservedGathers ==
  ASSUME NEW s, NEW u \in Seq(Frames), u # <<>>, IsBlock(Head(u)), NEW g, NEW n \in Nat,
         ObservedBy(s, u, g, n), NEW h,
         \A i \in 1..Len(h) : h[i] = Head(u) \/ \E j \in 1..Len(g) : h[i] = g[j]
  PROVE  ObservedBy(s, Tail(u), h, n) /\ Obeys(Head(u), s[n])
<1> DEFINE v == Tail(u)
           f == Head(u)
<1>1. Len(v) = Len(u) - 1 /\ Len(u) \in Nat \ {0} /\ f = u[1] /\ \A i \in 1..Len(v) : v[i] = u[i + 1]
  BY TailKeeps
<1>2. \A i \in 0..Len(u) - 1 : Ahead(v, "ack", i) = Ahead(u, "ack", i + 1) - One("ack", f)
  BY AheadTail
<1>3. One("ack", f) = 0 /\ IsBlock(f)
  BY Kinds2 DEF Announcements
<1>4. Ahead(u, "ack", 1) = 0
  <2>1. Ahead(u, "ack", 0 + 1) = Ahead(u, "ack", 0) + One("ack", u[0 + 1]) /\ Ahead(u, "ack", 0) = 0
    BY AheadStep
  <2> QED  BY <1>1, <1>3, <2>1
<1> HIDE DEF v, f
<1>5. Obeys(f, s[n])
  <2>1. 1 \in 1..Len(u) /\ n + Ahead(u, "ack", 1) = n
    BY <1>1, <1>4
  <2> QED  BY <1>1, <1>3, <2>1 DEF ObservedBy
<1>6. ASSUME NEW i \in 1..Len(v), IsBlock(v[i])
      PROVE  Obeys(v[i], s[n + Ahead(v, "ack", i)])
  <2>1. i + 1 \in 1..Len(u) /\ i \in 0..Len(u) - 1 /\ v[i] = u[i + 1] /\ i \in Nat
    BY <1>1
  <2>2. Ahead(u, "ack", i + 1) \in Nat
    BY <2>1, AheadStep
  <2>3. Ahead(v, "ack", i) = Ahead(u, "ack", i + 1)
    BY <1>2, <1>3, <2>1, <2>2
  <2> QED  BY <1>6, <2>1, <2>3 DEF ObservedBy
<1>7. \A i \in 1..Len(h) : Obeys(h[i], s[n])
  BY <1>5 DEF ObservedBy, f
<1> QED
  BY <1>5, <1>6, <1>7 DEF ObservedBy, v, f

\* A frame between blocks is read from u.
LEMMA ObservedReads ==
  ASSUME NEW s, NEW u \in Seq(Frames), u # <<>>, NEW n \in Nat, ObservedBy(s, u, <<>>, n)
  PROVE  ObservedBy(s, Tail(u), <<>>, n + One("ack", Head(u)))
<1> DEFINE v == Tail(u)
           one == One("ack", Head(u))
<1>1. Len(v) = Len(u) - 1 /\ Len(u) \in Nat \ {0} /\ \A i \in 1..Len(v) : v[i] = u[i + 1]
  BY TailKeeps
<1>2. \A i \in 0..Len(u) - 1 : Ahead(v, "ack", i) = Ahead(u, "ack", i + 1) - one
  BY AheadTail
<1>3. one \in {0, 1}
  BY Kinds2
<1> HIDE DEF v, one
<1>4. ASSUME NEW i \in 1..Len(v), IsBlock(v[i])
      PROVE  Obeys(v[i], s[(n + one) + Ahead(v, "ack", i)])
  <2>1. i + 1 \in 1..Len(u) /\ i \in 0..Len(u) - 1 /\ v[i] = u[i + 1] /\ i \in Nat
    BY <1>1
  <2>2. Ahead(u, "ack", i + 1) \in Nat
    BY <2>1, AheadStep
  <2>3. (n + one) + Ahead(v, "ack", i) = n + Ahead(u, "ack", i + 1)
    BY <1>2, <1>3, <2>1, <2>2
  <2> QED  BY <1>4, <2>1, <2>3 DEF ObservedBy
<1>5. \A i \in 1..Len(<<>>) : Obeys(<<>>[i], s[n + one])
  OBVIOUS
<1> QED
  BY <1>4, <1>5 DEF ObservedBy, v, one

\* What the counts are of.
LEMMA BeforeIs ==
  ASSUME TypeOK, Conserved, NEW d \in Peers, NEW e \in Peers, e = Peer(d)
  PROVE  /\ Before(d) \in Nat \ {0} /\ Count(up[d], "ack") \in Nat
         /\ acked[e] + Count(down[d], "ack") \in Nat \ {0}
         /\ acked[e] + Count(down[d], "ack") <= Before(d)
         /\ Before(d) + Count(up[d], "ack") = peer[d].applied
         /\ peer[d].applied \in 1..Len(sent[e]) /\ Before(d) \in 1..peer[d].applied
<1>1. /\ acked[e] \in Nat \ {0} /\ Len(sent[e]) \in Nat /\ peer[d].applied \in Nat
      /\ peer[d].applied = acked[e] + Count(down[d], "ack") + Count(out[d], "ack") + Count(up[d], "ack")
      /\ peer[d].applied <= Len(sent[e]) - Count(up[e], "settings")
  BY InOrder
<1>2. /\ Count(down[d], "ack") \in Nat /\ Count(out[d], "ack") \in Nat /\ Count(up[d], "ack") \in Nat
      /\ Count(up[e], "settings") \in Nat
  BY CountsAre
<1>3. Before(d) = acked[e] + Count(down[d], "ack") + Count(out[d], "ack")
  BY DEF Before
<1>4. /\ Before(d) \in Nat \ {0} /\ acked[e] + Count(down[d], "ack") \in Nat \ {0}
      /\ acked[e] + Count(down[d], "ack") <= Before(d)
  <2> DEFINE a == acked[e]
             m == Count(down[d], "ack")
             n == Count(out[d], "ack")
  <2>1. a \in Nat \ {0} /\ m \in Nat /\ n \in Nat /\ Before(d) = a + m + n
    BY <1>1, <1>2, <1>3
  <2> HIDE DEF a, m, n
  <2>2. Before(d) \in Nat \ {0} /\ a + m \in Nat \ {0} /\ a + m <= Before(d)
    BY <2>1
  <2> QED  BY <2>2 DEF a, m
<1>5. Before(d) + Count(up[d], "ack") = peer[d].applied
  BY <1>1, <1>3
<1>6. peer[d].applied \in 1..Len(sent[e]) /\ Before(d) \in 1..peer[d].applied
  BY <1>1, <1>2, <1>4, <1>5, SMTT(30)
<1> QED
  BY <1>2, <1>4, <1>5, <1>6

LEMMA ObservingInit == Init => Observing
<1> SUFFICES ASSUME Init, NEW d \in Peers
             PROVE  ObservedBy(sent[Peer(d)], up[d], <<>>, Before(d))
  BY DEF Init, Observing
<1>1. PICK first \in {Preface, Other(0, 0)} :
        up = [x \in Peers |-> IF x = "client" THEN <<first>> ELSE <<>>]
  BY DEF Init
<1>2. ~IsBlock(Preface) /\ ~IsBlock(Other(0, 0))
  BY DEF IsBlock, Preface, Other, Frame
<1>3. ~IsBlock(first)
  BY <1>2
<1>4. up[d] \in {<<>>, <<first>>}
  BY <1>1
<1>5. Len(<<>>) = 0 /\ Len(<<first>>) = 1 /\ <<first>>[1] = first
  OBVIOUS
<1>6. \A i \in 1..Len(up[d]) : up[d][i] = first
  BY <1>4, <1>5
<1> QED
  BY <1>3, <1>5, <1>6 DEF ObservedBy

\* A block that is sent obeys the limits that its sender observes.
LEMMA ObeysObserved ==
  ASSUME SmallFaults, TypeOK, Conserved, NEW d \in Peers, NEW f \in Frames, IsBlock(f),
         f \in Faults \/ ~IsBlock(f) \/ Obeys(f, Observed(d))
  PROVE  Obeys(f, sent[Peer(d)][peer[d].applied])
<1>0. PICK e \in Peers : e = Peer(d)
  BY TwoPeers
<1>1. peer[d].applied \in 1..Len(sent[e]) /\ sent[e] \in Seq(Limits)
  BY <1>0, BeforeIs DEF TypeOK
<1>2. sent[e][peer[d].applied] \in Limits
  BY <1>1, ElementOfSeq
<1>3. CASE f \in Faults
  <2> DEFINE l == sent[e][peer[d].applied]
  <2>1. Payload(f) <= MinFrame /\ f.table = 0 /\ Payload(f) \in Nat
    BY <1>3, FrameTypes DEF SmallFaults
  <2>2. l.frame \in Nat /\ MinFrame <= l.frame /\ l.table \in Nat
    BY <1>2, FramesAssumption DEF Limits
  <2>3. Payload(f) <= l.frame /\ f.table <= l.table
    BY <2>1, <2>2, FramesAssumption
  <2> HIDE DEF l
  <2> QED  BY <1>0, <2>3 DEF Obeys, l
<1>4. CASE Obeys(f, Observed(d))
  BY <1>4 DEF Observed
<1> QED  BY <1>3, <1>4

LEMMA ObservingStep ==
  ASSUME SmallFaults, TypeOK, Shape, Conserved, Observing, Effect
  PROVE  Observing'
<1> SUFFICES ASSUME NEW d \in Peers
             PROVE  ObservedBy(sent'[Peer(d)], up'[d], got'[d], Before(d)')
  BY DEF Observing
<1>0. PICK e \in Peers : e = Peer(d)
  BY TwoPeers
<1>1. d = Peer(e) /\ ObservedBy(sent[e], up[d], got[d], Before(d))
  BY <1>0, TwoPeers DEF Observing
<1>2. /\ sent[e] \in Seq(Limits) /\ up[d] \in Seq(Frames) /\ acked[e] \in Nat
      /\ Before(d) \in Nat \ {0} /\ Before(d) \in Nat
      /\ Before(d) + Count(up[d], "ack") \in 1..Len(sent[e])
      /\ Before(d) + Count(up[d], "ack") = peer[d].applied
  BY <1>0, BeforeIs DEF TypeOK
<1>3. /\ Count(down[d], "ack") \in Nat /\ Count(out[d], "ack") \in Nat
      /\ Before(d) = acked[e] + Count(down[d], "ack") + Count(out[d], "ack")
      /\ Before(d)' = acked'[e] + Count(down'[d], "ack") + Count(out'[d], "ack")
  BY <1>0, CountsAre DEF Before
<1>s. ASSUME acked'[e] = acked[e],
             Count(down'[d], "ack") + Count(out'[d], "ack") = Count(down[d], "ack") + Count(out[d], "ack"),
             Count(down'[d], "ack") \in Int, Count(out'[d], "ack") \in Int
      PROVE  Before(d)' = Before(d)
  <2> DEFINE a == acked[e]
             m == Count(down[d], "ack")
             n == Count(out[d], "ack")
             p == Count(down'[d], "ack")
             q == Count(out'[d], "ack")
  <2>1. a \in Int /\ m \in Int /\ n \in Int /\ p \in Int /\ q \in Int /\ p + q = m + n
    BY <1>2, <1>3, <1>s
  <2>2. Before(d) = a + m + n /\ Before(d)' = a + p + q
    BY <1>3, <1>s
  <2> HIDE DEF a, m, n, p, q
  <2>3. a + p + q = a + m + n
    BY <2>1
  <2> QED  BY <2>2, <2>3, Zenon
<1>4. ASSUME NEW x \in Peers, Sends(x)
      PROVE  ObservedBy(sent'[e], up'[d], got'[d], Before(d)')
  <2>1. PICK f \in Frames :
          /\ f \in Faults \/ ~IsBlock(f) \/ Obeys(f, Observed(x))
          /\ up' = [up EXCEPT ![x] = Append(@, f)]
          /\ sent' = IF Is("settings", f) THEN [sent EXCEPT ![x] = Append(@, Asked(f))] ELSE sent
    BY <1>4 DEF Sends
  <2>2. UNCHANGED <<down, out, acked, got>>
    BY <1>4 DEF Sends, bridgeVars
  <2>3. Before(d)' = Before(d)
    BY <1>3, <2>2
  <2>4. CASE x = d
    <3>1. up'[d] = Append(up[d], f) /\ sent'[e] = sent[e]
      <4>1. e # d
        BY <1>0, TwoPeers
      <4> QED  BY <2>1, <2>4, <4>1 DEF TypeOK
    <3>2. IsBlock(f) => Obeys(f, sent[e][Before(d) + Count(up[d], "ack")])
      BY <1>0, <1>2, <2>1, <2>4, ObeysObserved
    <3>3. ObservedBy(sent[e], Append(up[d], f), got[d], Before(d))
      BY <1>1, <1>2, <3>2, ObservedSends
    <3> QED  BY <2>2, <2>3, <3>1, <3>3
  <2>5. CASE x # d
    <3>1. up'[d] = up[d] /\ sent'[e] \in {sent[e], Append(sent[e], Asked(f))}
          /\ (sent'[e] = sent[e] \/ Is("settings", f))
      BY <2>1, <2>5 DEF TypeOK
    <3>2. CASE sent'[e] = sent[e]
      BY <1>1, <2>2, <2>3, <3>1, <3>2
    <3>3. CASE sent'[e] = Append(sent[e], Asked(f)) /\ Is("settings", f)
      <4>1. Asked(f) \in Limits
        BY <3>3, FrameTypes DEF Is, SettingsOk, Asked, Limits
      <4>2. Before(d) + Count(up[d], "ack") <= Len(sent[e])
        BY <1>2
      <4> QED  BY <1>1, <1>2, <2>2, <2>3, <3>1, <3>3, <4>1, <4>2, ObservedGrows
    <3> QED  BY <3>1, <3>2, <3>3
  <2> QED  BY <2>4, <2>5
<1>5. ASSUME NEW x \in Peers, Acks(x)
      PROVE  ObservedBy(sent'[e], up'[d], got'[d], Before(d)')
  <2>1. up' = [up EXCEPT ![x] = Append(@, Ack)] /\ UNCHANGED <<down, out, acked, got, sent>>
    BY <1>5 DEF Acks, bridgeVars
  <2>2. Before(d)' = Before(d)
    BY <1>3, <2>1
  <2>3. Ack \in Frames /\ ~IsBlock(Ack)
    BY FrameIsFrame, Kinds2 DEF Ack, Kinds
  <2>4. CASE x = d
    <3>1. up'[d] = Append(up[d], Ack)
      BY <2>1, <2>4 DEF TypeOK
    <3>2. ObservedBy(sent[e], Append(up[d], Ack), got[d], Before(d))
      BY <1>1, <1>2, <2>3, ObservedSends
    <3> QED  BY <2>1, <2>2, <3>1, <3>2
  <2>5. CASE x # d
    <3>1. up'[d] = up[d]
      BY <2>1, <2>5 DEF TypeOK
    <3> QED  BY <1>1, <2>1, <2>2, <3>1
  <2> QED  BY <2>4, <2>5
<1>6. ASSUME NEW x \in Peers, Passes(x) \/ Gathers(x) \/ PassesBlock(x)
      PROVE  ObservedBy(sent'[e], up'[d], got'[d], Before(d)')
  <2>1. /\ up[x] # <<>> /\ up' = [up EXCEPT ![x] = Tail(@)] /\ UNCHANGED <<down, sent, acked>>
        /\ Count(out[d], "ack")' = (IF d = x THEN Count(out[d], "ack") + One("ack", Head(up[d])) ELSE Count(out[d], "ack"))
    BY <1>6, Reads DEF Announcements
  <2>2. got \in [Peers -> Seq(Frames)]
    BY DEF TypeOK
  <2>3. CASE x # d
    <3>1. up'[d] = up[d]
      BY <2>1, <2>3 DEF TypeOK
    <3>2. got'[d] = got[d]
      BY <1>6, <2>2, <2>3 DEF Passes, Gathers, PassesBlock, More
    <3>3. Before(d)' = Before(d)
      BY <1>3, <2>1, <2>3
    <3> QED  BY <1>1, <2>1, <3>1, <3>2, <3>3
  <2>4. CASE x = d
    <3> DEFINE f == Head(up[d])
    <3>1. up'[d] = Tail(up[d]) /\ up[d] # <<>>
      BY <2>1, <2>4 DEF TypeOK
    <3>2. Before(d)' = Before(d) + One("ack", f)
      <4>1. One("ack", f) \in {0, 1} /\ acked' = acked /\ down' = down
            /\ Count(out'[d], "ack") = Count(out[d], "ack") + One("ack", f)
        BY <2>1, <2>4, Kinds2
      <4> QED  BY <1>2, <1>3, <4>1, SMTT(30)
    <3>3. CASE Passes(d)
      <4>1. got[d] = <<>> /\ got'[d] = <<>>
        BY <3>3 DEF Passes
      <4>2. ObservedBy(sent[e], Tail(up[d]), <<>>, Before(d) + One("ack", f))
        <5>1. ObservedBy(sent[e], up[d], <<>>, Before(d))
          BY <1>1, <4>1
        <5> QED  BY <1>2, <3>1, <5>1, ObservedReads
      <4> QED  BY <2>1, <3>1, <3>2, <4>1, <4>2
    <3>4. ASSUME Belongs(d), NEW h, got'[d] = h,
                 \A i \in 1..Len(h) : h[i] = f \/ \E j \in 1..Len(got[d]) : h[i] = got[d][j]
          PROVE  ObservedBy(sent'[e], up'[d], got'[d], Before(d)')
      <4>1. IsBlock(f)
        BY <3>4 DEF Belongs, IsBlock
      <4>2. One("ack", f) = 0
        BY <4>1, Kinds2 DEF Announcements
      <4>3. Before(d)' = Before(d)
        BY <1>2, <3>2, <4>2
      <4>4. ObservedBy(sent[e], Tail(up[d]), h, Before(d))
        <5>1. \A i \in 1..Len(h) : h[i] = Head(up[d]) \/ \E j \in 1..Len(got[d]) : h[i] = got[d][j]
          BY <3>4
        <5>2. ObservedBy(sent[e], up[d], got[d], Before(d)) /\ IsBlock(Head(up[d]))
          BY <1>1, <4>1
        <5> QED  BY <1>2, <3>1, <5>1, <5>2, ObservedGathers
      <4> QED  BY <2>1, <3>1, <3>4, <4>3, <4>4
    <3>5. CASE Gathers(d)
      <4>1. Belongs(d) /\ got'[d] = Block(d)
        BY <2>2, <3>5 DEF Gathers, More
      <4>2. \A i \in 1..Len(Block(d)) : Block(d)[i] = f \/ \E j \in 1..Len(got[d]) : Block(d)[i] = got[d][j]
        <5>1. /\ Len(Block(d)) = Len(got[d]) + 1 /\ Len(got[d]) \in Nat
              /\ \A i \in 1..Len(got[d]) : Block(d)[i] = got[d][i]
              /\ Block(d)[Len(got[d]) + 1] = f
          BY <4>1, BlockIs
        <5>2. ASSUME NEW i \in 1..Len(Block(d))
              PROVE  i = Len(got[d]) + 1 \/ i \in 1..Len(got[d])
          BY <5>1
        <5> QED  BY <5>1, <5>2
      <4> QED  BY <3>4, <4>1, <4>2
    <3>6. CASE PassesBlock(d)
      <4>1. Belongs(d) /\ got'[d] = <<>>
        BY <2>2, <3>6 DEF PassesBlock
      <4>2. \A i \in 1..Len(<<>>) : <<>>[i] = f \/ \E j \in 1..Len(got[d]) : <<>>[i] = got[d][j]
        OBVIOUS
      <4> QED  BY <3>4, <4>1, <4>2
    <3> QED  BY <1>6, <2>4, <3>3, <3>5, <3>6
  <2> QED  BY <2>3, <2>4
<1>7. ASSUME NEW x \in Peers, Receive(x)
      PROVE  ObservedBy(sent'[e], up'[d], got'[d], Before(d)')
  <2>1. PICK z \in Peers : z = Peer(x)
    BY TwoPeers
  <2>2. /\ down[z] # <<>> /\ down' = [down EXCEPT ![z] = Tail(@)] /\ UNCHANGED <<out, sent, up, got>>
        /\ acked' = [acked EXCEPT ![x] = IF Head(down[z]).kind = "ack" THEN @ + 1 ELSE @]
    BY <1>7, <2>1 DEF Receive, bridgeVars
  <2>3. z = d <=> x = e
    BY <1>0, <2>1, TwoPeers
  <2>4. Before(d)' = Before(d)
    <3>1. CASE x = e
      <4>1. /\ down'[d] = Tail(down[d]) /\ down[d] # <<>> /\ down[d] \in Seq(Frames)
            /\ acked'[e] = IF Head(down[d]).kind = "ack" THEN acked[e] + 1 ELSE acked[e]
        BY <2>2, <2>3, <3>1 DEF TypeOK
      <4>2. Count(down'[d], "ack") = Count(down[d], "ack") - One("ack", Head(down[d]))
        BY <4>1, AheadTail
      <4>3. acked'[e] = acked[e] + One("ack", Head(down[d])) /\ One("ack", Head(down[d])) \in {0, 1}
        BY <1>2, <4>1, Kinds2
      <4>4. out' = out
        BY <2>2
      <4> QED  BY <1>2, <1>3, <4>2, <4>3, <4>4
    <3>2. CASE x # e
      <4>1. down'[d] = down[d] /\ acked'[e] = acked[e] /\ out' = out
        BY <2>2, <2>3, <3>2 DEF TypeOK
      <4> QED  BY <1>3, <4>1
    <3> QED  BY <3>1, <3>2
  <2> QED  BY <1>1, <2>2, <2>4
<1>8. ASSUME NEW x \in Peers, Write(x)
      PROVE  ObservedBy(sent'[e], up'[d], got'[d], Before(d)')
  <2>1. /\ out[x] # <<>> /\ down' = [down EXCEPT ![x] = Append(@, Head(out[x]))]
        /\ out' = [out EXCEPT ![x] = Tail(@)] /\ UNCHANGED <<up, sent, acked, got>>
    BY <1>8 DEF Write, Shape, ShapeOf, peerVars
  <2>2. /\ down'[d] = (IF d = x THEN Append(down[x], Head(out[x])) ELSE down[d])
        /\ out'[d] = (IF d = x THEN Tail(out[x]) ELSE out[d]) /\ up'[d] = up[d]
    BY <2>1 DEF TypeOK
  <2>3. /\ Count(down[d], "ack")' = (IF d = x THEN Count(down[d], "ack") + One("ack", Head(out[x])) ELSE Count(down[d], "ack"))
        /\ Count(out[d], "ack")' = (IF d = x THEN Count(out[d], "ack") - One("ack", Head(out[x])) ELSE Count(out[d], "ack"))
    <3>1. out[x] # <<>> /\ up'[d] = up[d]
      BY <2>1, <2>2
    <3> QED  BY <2>2, <3>1, TransitWrites DEF InTransit
  <2>4. One("ack", Head(out[x])) \in {0, 1}
    BY Kinds2
  <2>5. Before(d)' = Before(d)
    <3>1. acked' = acked
      BY <2>1
    <3>2. CASE d = x
      <4>1. Count(down'[d], "ack") + Count(out'[d], "ack") = Count(down[d], "ack") + Count(out[d], "ack")
        BY <1>3, <2>3, <2>4, <3>2
      <4>2. Count(down'[d], "ack") \in Int /\ Count(out'[d], "ack") \in Int
        BY <1>3, <2>3, <2>4, <3>2
      <4> QED  BY <1>s, <3>1, <4>1, <4>2
    <3>3. CASE d # x
      <4>1. Count(down'[d], "ack") = Count(down[d], "ack") /\ Count(out'[d], "ack") = Count(out[d], "ack")
        BY <2>3, <3>3
      <4> QED  BY <1>3, <3>1, <4>1
    <3> QED  BY <3>2, <3>3
  <2> QED  BY <1>1, <2>1, <2>5
<1>9. ASSUME Idles \/ \E x \in Peers : Refuses(x)
      PROVE  ObservedBy(sent'[e], up'[d], got'[d], Before(d)')
  <2>1. UNCHANGED <<down, out, sent, acked, up, got>>
    BY <1>9 DEF Idles, Refuses, Fail, wireVars, peerVars
  <2> QED  BY <1>1, <1>3, <2>1
<1>10. ObservedBy(sent'[e], up'[d], got'[d], Before(d)')
  BY <1>4, <1>5, <1>6, <1>7, <1>8, <1>9 DEF Effect
<1> QED
  BY <1>0, <1>10

\* What is refused obeys limits that the receiver announced before those stored.
LEMMA RefusesLower ==
  ASSUME TypeOK, Shape, Conserved, Stored, Observing, NEW d \in Peers, Belongs(d), ~InLimits(d)
  PROVE  Lowers(sent[Peer(d)], acked[Peer(d)] + Count(down[d], "ack"))
<1>0. PICK e \in Peers : e = Peer(d)
  BY TwoPeers
<1> DEFINE s == sent[e]
           n == Before(d)
           from == acked[e] + Count(down[d], "ack")
<1>1. PICK read \in peer[d].applied..Len(s) : limits[d] = s[read]
  BY <1>0, LimitsAre
<1>2. /\ n \in Nat /\ from \in Nat /\ from <= n /\ s \in Seq(Limits) /\ Len(s) \in Nat
      /\ peer[d].applied \in 1..Len(s) /\ n \in 1..peer[d].applied
  BY <1>0, BeforeIs, LenProperties DEF TypeOK
<1>3. s[n] \in Limits /\ s[read] \in Limits
  <2>1. n \in 1..Len(s) /\ read \in 1..Len(s)
    BY <1>1, <1>2
  <2> QED  BY <1>2, <2>1, ElementOfSeq
<1>4. /\ Block(d) \in Seq(Frames) /\ Block(d) # <<>> /\ Gathered(Block(d))
      /\ \A i \in 1..Len(Block(d)) : Obeys(Block(d)[i], s[n])
  <2>1. /\ Block(d) \in Seq(Frames) /\ Block(d) # <<>> /\ Gathered(Block(d))
        /\ Len(Block(d)) = Len(got[d]) + 1 /\ Len(got[d]) \in Nat
        /\ \A i \in 1..Len(got[d]) : Block(d)[i] = got[d][i]
        /\ Block(d)[Len(got[d]) + 1] = Head(up[d])
    BY BlockIs
  <2>2. ObservedBy(s, up[d], got[d], n) /\ up[d] \in Seq(Frames)
    BY <1>0 DEF Observing, TypeOK
  <2>3. up[d] # <<>> /\ IsBlock(Head(up[d]))
    BY DEF Belongs, IsBlock
  <2>4. \A i \in 1..Len(got[d]) : got[d][i] = Head(up[d]) \/ \E j \in 1..Len(got[d]) : got[d][i] = got[d][j]
    OBVIOUS
  <2>5. Obeys(Head(up[d]), s[n])
    <3> HIDE DEF s, n
    <3> QED  BY <1>2, <2>2, <2>3, <2>4, ObservedGathers
  <2>6. ASSUME NEW i \in 1..Len(Block(d)) PROVE Obeys(Block(d)[i], s[n])
    <3>1. i = Len(got[d]) + 1 \/ i \in 1..Len(got[d])
      BY <2>1
    <3> QED  BY <2>1, <2>2, <2>5, <3>1 DEF ObservedBy
  <2> QED  BY <2>1, <2>6
<1>5. \E x \in {n} : s[read].frame < s[x].frame \/ s[read].table < s[x].table
  <2>0. /\ s[n].frame \in Nat /\ s[read].frame \in Nat /\ s[n].table \in Nat /\ s[read].table \in Nat
    BY <1>3, FramesAssumption, SMTT(30) DEF Limits
  <2>1. CASE ~(Block(d)[1].table <= limits[d].table)
    <3>1. 1 \in 1..Len(Block(d))
      BY <1>4, EmptySeq, LenProperties
    <3>2. Block(d)[1] \in Frames
      BY <1>4, <3>1, ElementOfSeq
    <3>3. Block(d)[1].table <= s[n].table /\ Block(d)[1].table \in Nat
      BY <1>4, <3>1, <3>2, FrameTypes DEF Gathered, Obeys
    <3>4. ~(Block(d)[1].table <= s[read].table)
      BY <1>1, <2>1
    <3> QED  BY <2>0, <3>3, <3>4
  <2>2. CASE ~Fits(Block(d), limits[d].frame)
    <3>1. PICK i \in DOMAIN Block(d) : ~(Payload(Block(d)[i]) <= limits[d].frame)
      BY <2>2 DEF Fits
    <3>2. i \in 1..Len(Block(d))
      BY <1>4, LenProperties
    <3>3. Block(d)[i] \in Frames
      BY <1>4, <3>2, ElementOfSeq
    <3>4. Payload(Block(d)[i]) <= s[n].frame /\ Payload(Block(d)[i]) \in Nat
      BY <1>4, <3>2, <3>3, FrameTypes DEF Obeys
    <3>5. ~(Payload(Block(d)[i]) <= s[read].frame)
      BY <1>1, <3>1
    <3> QED  BY <2>0, <3>4, <3>5
  <2> QED  BY <2>1, <2>2 DEF InLimits
<1>6. n # read
  <2>1. s[n].frame \in Nat /\ s[n].table \in Nat
    BY <1>3, FramesAssumption DEF Limits
  <2>2. s[read].frame < s[n].frame \/ s[read].table < s[n].table
    BY <1>5
  <2> HIDE DEF s, n
  <2> QED  BY <2>1, <2>2
<1>7. n < read /\ n \in from..Len(s) /\ read \in from..Len(s)
  BY <1>1, <1>2, <1>6
<1> HIDE DEF s, n, from
<1>8. Lowers(s, from)
  BY <1>5, <1>7 DEF Lowers
<1> QED
  BY <1>0, <1>8 DEF s, from

LEMMA LoweredStep ==
  ASSUME TypeOK, Shape, Conserved, Stored, Observing, Lowered, Effect
  PROVE  Lowered'
<1> SUFFICES ASSUME res' = "limit"
             PROVE  \E d \in Peers : Lowers(sent'[Peer(d)], acked'[Peer(d)] + Count(down'[d], "ack"))
  BY DEF Lowered
<1>1. ASSUME NEW d \in Peers, Refuses(d)
      PROVE  \E x \in Peers : Lowers(sent'[Peer(x)], acked'[Peer(x)] + Count(down'[x], "ack"))
  <2>1. Lowers(sent[Peer(d)], acked[Peer(d)] + Count(down[d], "ack"))
    BY <1>1, RefusesLower DEF Refuses
  <2>2. UNCHANGED <<sent, acked, down>>
    BY <1>1 DEF Refuses, Fail, wireVars, peerVars
  <2> QED  BY <2>1, <2>2
<1>2. ASSUME res = "limit",
             \A e, d \in Peers : d = Peer(e) =>
               /\ acked'[e] + Count(down'[d], "ack") = acked[e] + Count(down[d], "ack")
               /\ sent'[e] = sent[e] \/ \E l \in Limits : sent'[e] = Append(sent[e], l)
      PROVE  \E x \in Peers : Lowers(sent'[Peer(x)], acked'[Peer(x)] + Count(down'[x], "ack"))
  <2>1. PICK d \in Peers : Lowers(sent[Peer(d)], acked[Peer(d)] + Count(down[d], "ack"))
    BY <1>2 DEF Lowered
  <2>2. PICK e \in Peers : e = Peer(d) /\ d = Peer(e)
    BY TwoPeers
  <2>3. PICK from : from = acked[e] + Count(down[d], "ack")
    OBVIOUS
  <2>4. from \in Nat \ {0} /\ sent[e] \in Seq(Limits)
    BY <2>2, <2>3, BeforeIs DEF TypeOK
  <2>5. PICK i, j \in from..Len(sent[e]) :
          i < j /\ (sent[e][j].frame < sent[e][i].frame \/ sent[e][j].table < sent[e][i].table)
    BY <2>1, <2>2, <2>3 DEF Lowers
  <2>6. sent'[e] = sent[e] \/ \E l \in Limits : sent'[e] = Append(sent[e], l)
    BY <1>2, <2>2
  <2>7. i \in from..Len(sent'[e]) /\ j \in from..Len(sent'[e])
        /\ sent'[e][i] = sent[e][i] /\ sent'[e][j] = sent[e][j]
    <3>1. CASE sent'[e] = sent[e]
      BY <3>1
    <3>2. ASSUME NEW l \in Limits, sent'[e] = Append(sent[e], l)
          PROVE  i \in from..Len(sent'[e]) /\ j \in from..Len(sent'[e])
                 /\ sent'[e][i] = sent[e][i] /\ sent'[e][j] = sent[e][j]
      <4>1. Len(sent[e]) \in Nat /\ Len(sent'[e]) = Len(sent[e]) + 1
            /\ \A k \in 1..Len(sent[e]) : sent'[e][k] = sent[e][k]
        BY <2>4, <3>2, LenProperties, AppendProperties
      <4>2. i \in 1..Len(sent[e]) /\ j \in 1..Len(sent[e])
        BY <2>4, <4>1
      <4> QED  BY <2>4, <4>1, <4>2
    <3> QED  BY <2>6, <3>1, <3>2
  <2>8. acked'[e] + Count(down'[d], "ack") = from
    BY <1>2, <2>2, <2>3
  <2>9. Lowers(sent'[e], from)
    BY <2>5, <2>7 DEF Lowers
  <2> QED  BY <2>2, <2>8, <2>9
<1>3. ASSUME NEW x \in Peers, Sends(x)
      PROVE  \E d \in Peers : Lowers(sent'[Peer(d)], acked'[Peer(d)] + Count(down'[d], "ack"))
  <2>1. PICK f \in Frames :
          sent' = IF Is("settings", f) THEN [sent EXCEPT ![x] = Append(@, Asked(f))] ELSE sent
    BY <1>3 DEF Sends
  <2>2. UNCHANGED <<res, acked, down>>
    BY <1>3 DEF Sends, bridgeVars
  <2>3. Is("settings", f) => Asked(f) \in Limits
    BY FrameTypes DEF Is, SettingsOk, Asked, Limits
  <2>4. \A e \in Peers : sent'[e] = sent[e] \/ \E l \in Limits : sent'[e] = Append(sent[e], l)
    BY <2>1, <2>3 DEF TypeOK
  <2> QED  BY <1>2, <2>2, <2>4
<1>4. ASSUME NEW x \in Peers, Receive(x)
      PROVE  \E d \in Peers : Lowers(sent'[Peer(d)], acked'[Peer(d)] + Count(down'[d], "ack"))
  <2>1. PICK z \in Peers : z = Peer(x)
    BY TwoPeers
  <2>2. /\ down[z] # <<>> /\ down' = [down EXCEPT ![z] = Tail(@)] /\ UNCHANGED <<res, sent>>
        /\ acked' = [acked EXCEPT ![x] = IF Head(down[z]).kind = "ack" THEN @ + 1 ELSE @]
    BY <1>4, <2>1 DEF Receive, bridgeVars
  <2>3. ASSUME NEW e \in Peers, NEW d \in Peers, d = Peer(e)
        PROVE  acked'[e] + Count(down'[d], "ack") = acked[e] + Count(down[d], "ack")
    <3>0. (z = d <=> x = e) /\ acked[e] \in Nat /\ down[d] \in Seq(Frames)
      BY <2>1, <2>3, TwoPeers DEF TypeOK
    <3>1. CASE x = e
      <4>1. /\ down'[d] = Tail(down[d]) /\ down[d] # <<>>
            /\ acked'[e] = IF Head(down[d]).kind = "ack" THEN acked[e] + 1 ELSE acked[e]
        BY <2>2, <3>0, <3>1 DEF TypeOK
      <4>2. Count(down'[d], "ack") = Count(down[d], "ack") - One("ack", Head(down[d]))
        BY <3>0, <4>1, AheadTail
      <4>3. acked'[e] = acked[e] + One("ack", Head(down[d])) /\ One("ack", Head(down[d])) \in {0, 1}
        BY <3>0, <4>1, Kinds2
      <4>4. Count(down[d], "ack") \in Nat
        BY CountsAre
      <4> QED  BY <3>0, <4>2, <4>3, <4>4
    <3>2. CASE x # e
      <4>1. down'[d] = down[d] /\ acked'[e] = acked[e]
        BY <2>2, <3>0, <3>2 DEF TypeOK
      <4> QED  BY <4>1
    <3> QED  BY <3>1, <3>2
  <2> QED  BY <1>2, <2>2, <2>3
<1>5. ASSUME NEW x \in Peers, Acks(x) \/ Passes(x) \/ Gathers(x) \/ PassesBlock(x)
      PROVE  \E d \in Peers : Lowers(sent'[Peer(d)], acked'[Peer(d)] + Count(down'[d], "ack"))
  <2>1. UNCHANGED <<res, sent, acked, down>>
    BY <1>5 DEF Acks, Passes, Gathers, PassesBlock, Forward, More, peerVars, bridgeVars
  <2> QED  BY <1>2, <2>1
<1>6. CASE Idles
  <2>1. res = "limit" /\ UNCHANGED <<sent, acked, down>>
    BY <1>6 DEF Idles, wireVars
  <2> QED  BY <1>2, <2>1
<1>7. ASSUME NEW x \in Peers, Write(x) PROVE FALSE
  BY <1>7 DEF Write
<1> QED
  BY <1>1, <1>3, <1>4, <1>5, <1>6, <1>7 DEF Effect

LEMMA LoweredSuffices ==
  ASSUME TypeOK, Conserved, Lowered
  PROVE  OnlyLoweringRejects
<1> SUFFICES ASSUME res = "limit"
             PROVE  \E e \in Peers : \E i, j \in acked[e]..Len(sent[e]) :
                      i < j /\ (sent[e][j].frame < sent[e][i].frame \/ sent[e][j].table < sent[e][i].table)
  BY DEF OnlyLoweringRejects
<1>1. PICK d \in Peers : Lowers(sent[Peer(d)], acked[Peer(d)] + Count(down[d], "ack"))
  BY DEF Lowered
<1>2. PICK e \in Peers : e = Peer(d)
  BY TwoPeers
<1>3. PICK i, j \in acked[e] + Count(down[d], "ack")..Len(sent[e]) :
        i < j /\ (sent[e][j].frame < sent[e][i].frame \/ sent[e][j].table < sent[e][i].table)
  BY <1>1, <1>2 DEF Lowers
<1>4. acked[e] \in Nat /\ Count(down[d], "ack") \in Nat /\ Len(sent[e]) \in Nat
  BY CountsAre, LenProperties DEF TypeOK
<1>5. i \in acked[e]..Len(sent[e]) /\ j \in acked[e]..Len(sent[e])
  BY <1>3, <1>4
<1> QED
  BY <1>3, <1>5

-----------------------------------------------------------------------------
\* TypeOK: the variables have their types throughout.
THEOREM TypeCorrect == Spec => []TypeOK
  BY Typed, PTL

\* The peers' counts of SETTINGS and acknowledgements, and the limits stored.
Counted == TypeOK /\ Shape /\ Conserved /\ Stored

LEMMA CountedInit == Init => Counted
  BY InitTyped, ConservedInit, StoredInit DEF Counted

LEMMA CountedStep == ASSUME Counted, [Next]_vars PROVE Counted'
<1>1. TypeOK /\ Shape /\ Conserved /\ Stored
  BY DEF Counted
<1>2. TypeOK' /\ Shape'
  BY <1>1, Effects, TypedSends, TypedAcks, TypedReceive, TypedPasses, TypedGathers,
     TypedPassesBlock, TypedWrite, TypedRefuses, TypedIdles DEF Effect
<1>3. Conserved' /\ Stored'
  BY <1>1, Effects, ConservedStep, StoredStep
<1> QED
  BY <1>2, <1>3 DEF Counted

\* LimitsKept: whatever the peers send and however their SETTINGS race with
\* header blocks, no block reaches a peer above a limit that it must tolerate.
THEOREM LimitsAreKept == Spec => []LimitsKept
<1>1. Init => Counted /\ Honoured
  BY CountedInit, HonouredInit
<1>2. ASSUME Counted /\ Honoured, [Next]_vars PROVE Counted' /\ Honoured'
  <2>1. Counted'
    BY <1>2, CountedStep
  <2>2. Honoured'
    BY <1>2, Effects, HonouredStep DEF Counted
  <2> QED  BY <2>1, <2>2
<1>3. Counted /\ Honoured => LimitsKept
  BY HonouredSuffices DEF Counted
<1> QED
  BY <1>1, <1>2, <1>3, PTL DEF Spec

\* OnlyLoweringRejects: a block that obeys the limits its sender observed is
\* rejected for a limit only if one of the peers lowered one and has not read the
\* acknowledgement.
THEOREM OnlyLoweringCauses == ASSUME SmallFaults PROVE Spec => []OnlyLoweringRejects
<1> DEFINE Inv == Counted /\ Observing /\ Lowered
<1>1. Init => Inv
  <2>1. Init => Lowered
    BY DEF Init, Lowered
  <2> QED  BY <2>1, CountedInit, ObservingInit
<1>2. ASSUME Inv, [Next]_vars PROVE Inv'
  <2>1. Counted'
    BY <1>2, CountedStep
  <2>2. Effect
    BY <1>2, Effects DEF Counted
  <2>3. Observing'
    BY <1>2, <2>2, ObservingStep DEF Counted
  <2>4. Lowered'
    BY <1>2, <2>2, LoweredStep DEF Counted
  <2> QED  BY <2>1, <2>3, <2>4
<1>3. Inv => OnlyLoweringRejects
  BY LoweredSuffices DEF Counted
<1> QED
  BY <1>1, <1>2, <1>3, PTL DEF Spec

-----------------------------------------------------------------------------
\* Blocks are intact: what is on its way from the bridge, s, is made of whole
\* blocks and other frames, but that the first block may have been read in part.
Whole(s, i, j) ==
  /\ Length(SubSeq(s, i, j)) = s[i].size /\ s[j].end /\ \A k \in i..(j - 1) : ~s[k].end
  /\ \A k \in (i + 1)..j : s[k].kind = "continuation" /\ s[k].stream = s[i].stream
Intact(s) ==
  /\ \A i \in 1..Len(s) : s[i].kind = "headers" => \E j \in i..Len(s) : Whole(s, i, j)
  /\ \A i \in 2..Len(s) : s[i].kind = "continuation" => IsBlock(s[i - 1]) /\ ~s[i - 1].end
AllIntact == \A d \in Peers : Intact(down[d] \o out[d])

LEMMA IntactTail ==
  ASSUME NEW s \in Seq(Frames), s # <<>>, Intact(s)
  PROVE  Intact(Tail(s))
<1> DEFINE t == Tail(s)
<1>1. Len(t) = Len(s) - 1 /\ Len(s) \in Nat \ {0} /\ \A i \in 1..Len(t) : t[i] = s[i + 1]
  BY TailKeeps
<1>2. ASSUME NEW i \in 1..Len(t), NEW j \in i..Len(t)
      PROVE  SubSeq(t, i, j) = SubSeq(s, i + 1, j + 1)
  <2>1. t = SubSeq(s, 2, Len(s))
    BY TailIsSubSeq
  <2>2. /\ 2 \in 1..Len(s) /\ Len(s) \in 1..Len(s)
        /\ i \in 1..Len(s) - 2 + 1 /\ j \in 1..Len(s) - 2 + 1
        /\ 2 + i - 1 = i + 1 /\ 2 + j - 1 = j + 1
    BY <1>1
  <2>3. SubSeq(SubSeq(s, 2, Len(s)), i, j) = SubSeq(s, 2 + i - 1, 2 + j - 1)
    BY <2>2, SubSeqOfSubSeq
  <2> QED  BY <2>1, <2>2, <2>3
<1> HIDE DEF t
<1>3. ASSUME NEW i \in 1..Len(t), t[i].kind = "headers"
      PROVE  \E j \in i..Len(t) : Whole(t, i, j)
  <2>1. i + 1 \in 1..Len(s) /\ t[i] = s[i + 1]
    BY <1>1
  <2>2. PICK j \in (i + 1)..Len(s) : Whole(s, i + 1, j)
    BY <1>3, <2>1 DEF Intact
  <2>3. j - 1 \in i..Len(t) /\ (j - 1) + 1 = j /\ j - 1 \in 1..Len(t)
    BY <1>1, <2>2
  <2>4. SubSeq(t, i, j - 1) = SubSeq(s, i + 1, j)
    BY <1>2, <2>3
  <2>5. t[j - 1] = s[j]
    BY <1>1, <2>3
  <2>6. ASSUME NEW k \in i..((j - 1) - 1) PROVE ~t[k].end
    <3>1. k + 1 \in (i + 1)..(j - 1) /\ k \in 1..Len(t)
      BY <1>1, <2>3
    <3> QED  BY <1>1, <2>2, <3>1 DEF Whole
  <2>7. ASSUME NEW k \in (i + 1)..(j - 1) PROVE t[k].kind = "continuation" /\ t[k].stream = t[i].stream
    <3>1. k + 1 \in ((i + 1) + 1)..j /\ k \in 1..Len(t)
      BY <1>1, <2>3
    <3> QED  BY <1>1, <2>1, <2>2, <3>1 DEF Whole
  <2>8. Whole(t, i, j - 1)
    BY <2>1, <2>2, <2>4, <2>5, <2>6, <2>7 DEF Whole
  <2> QED  BY <2>3, <2>8
<1>4. ASSUME NEW i \in 2..Len(t), t[i].kind = "continuation"
      PROVE  IsBlock(t[i - 1]) /\ ~t[i - 1].end
  <2>1. i + 1 \in 2..Len(s) /\ t[i] = s[i + 1] /\ t[i - 1] = s[(i + 1) - 1]
    BY <1>1
  <2> QED  BY <1>4, <2>1 DEF Intact
<1> QED
  BY <1>3, <1>4 DEF Intact, t

LEMMA IntactConcat ==
  ASSUME NEW s \in Seq(Frames), NEW r \in Seq(Frames), Intact(s), Intact(r),
         r[1].kind # "continuation"
  PROVE  Intact(s \o r)
<1> DEFINE t == s \o r
           N == Len(s)
           M == Len(r)
<1>1. /\ N \in Nat /\ M \in Nat /\ Len(t) = N + M
      /\ \A i \in 1..N : t[i] = s[i] /\ \A i2 \in 1..M : t[N + i2] = r[i2]
      /\ \A i \in N + 1..N + M : t[i] = r[i - N] /\ i - N \in 1..M
  <2>1. N \in Nat /\ M \in Nat /\ Len(t) = N + M
        /\ \A i \in 1..N + M : t[i] = IF i <= N THEN s[i] ELSE r[i - N]
    BY LenProperties, ConcatProperties
  <2> HIDE DEF t, N, M
  <2> QED  BY <2>1
<1>2. ASSUME NEW i \in 1..N, NEW j \in i..N PROVE SubSeq(t, i, j) = SubSeq(s, i, j)
  <2>1. i \in 1..N /\ j \in 1..N
    BY <1>1
  <2> QED  BY <2>1, SubSeqOfConcat1
<1>3. ASSUME NEW i \in 1..M, NEW j \in i..M PROVE SubSeq(t, N + i, N + j) = SubSeq(r, i, j)
  <2>1. N + i \in N + 1..N + M /\ N + j \in N + 1..N + M /\ (N + i) - N = i /\ (N + j) - N = j
    BY <1>1
  <2>2. SubSeq(t, N + i, N + j) = SubSeq(r, (N + i) - N, (N + j) - N)
    BY <2>1, SubSeqOfConcat2
  <2> QED  BY <2>1, <2>2
<1>l. Len(s) = N /\ Len(r) = M
  OBVIOUS
<1>s. \A i \in 1..N : s[i].kind = "headers" => \E j \in i..N : Whole(s, i, j)
  BY DEF Intact
<1>r. \A i \in 1..M : r[i].kind = "headers" => \E j \in i..M : Whole(r, i, j)
  BY DEF Intact
<1>c. /\ \A i \in 2..N : s[i].kind = "continuation" => IsBlock(s[i - 1]) /\ ~s[i - 1].end
      /\ \A i \in 2..M : r[i].kind = "continuation" => IsBlock(r[i - 1]) /\ ~r[i - 1].end
  BY DEF Intact
<1> HIDE DEF t, N, M
<1>4. ASSUME NEW i \in 1..Len(t), t[i].kind = "headers"
      PROVE  \E j \in i..Len(t) : Whole(t, i, j)
  <2>1. CASE i <= N
    <3>0. i \in 1..N
      BY <2>1
    <3>1. PICK j \in i..N : Whole(s, i, j)
      BY <1>1, <1>4, <1>s, <3>0
    <3>2. \A k \in i..j : k \in 1..N /\ t[k] = s[k]
      BY <1>1, <3>0, <3>1
    <3>3. t[i] = s[i] /\ t[j] = s[j] /\ SubSeq(t, i, j) = SubSeq(s, i, j)
      BY <1>1, <1>2, <3>0, <3>1, <3>2
    <3>4. \A k \in i..(j - 1) : ~t[k].end
      BY <1>1, <3>0, <3>1, <3>2 DEF Whole
    <3>5. \A k \in (i + 1)..j : t[k].kind = "continuation" /\ t[k].stream = t[i].stream
      BY <1>1, <3>0, <3>1, <3>2, <3>3 DEF Whole
    <3>6. Whole(t, i, j)
      BY <3>1, <3>3, <3>4, <3>5 DEF Whole
    <3>7. j \in i..Len(t)
      BY <1>1, <3>0, <3>1
    <3> QED  BY <3>6, <3>7
  <2>2. CASE ~(i <= N)
    <3>0. PICK a \in 1..M : i = N + a
      <4>0. N \in Nat /\ M \in Nat /\ i \in 1..N + M
        BY <1>1
      <4>1. i - N \in 1..M /\ i = N + (i - N)
        BY <2>2, <4>0
      <4> QED  BY <4>1
    <3>h. t[N + a] = r[a]
      BY <1>1, SMTT(30)
    <3>1. PICK b \in a..M : Whole(r, a, b)
      BY <1>4, <1>r, <3>0, <3>h
    <3>2. \A k \in N + a..N + b : k - N \in a..b /\ k - N \in 1..M /\ t[k] = r[k - N]
      BY <1>1, <3>0, <3>1
    <3>3. t[N + a] = r[a] /\ t[N + b] = r[b] /\ SubSeq(t, N + a, N + b) = SubSeq(r, a, b)
      <4>1. a \in 1..M /\ b \in 1..M
        BY <1>1, <3>1
      <4> QED  BY <1>1, <1>3, <3>1, <4>1
    <3>4. ASSUME NEW k \in N + a..((N + b) - 1) PROVE ~t[k].end
      <4>1. k - N \in a..(b - 1) /\ k \in N + a..N + b
        BY <1>1, <3>0, <3>1
      <4> QED  BY <3>1, <3>2, <4>1 DEF Whole
    <3>5. ASSUME NEW k \in (N + a + 1)..(N + b)
          PROVE  t[k].kind = "continuation" /\ t[k].stream = t[N + a].stream
      <4>1. k - N \in (a + 1)..b /\ k \in N + a..N + b
        BY <1>1, <3>0, <3>1
      <4> QED  BY <3>1, <3>2, <3>3, <4>1 DEF Whole
    <3>6. Whole(t, N + a, N + b)
      <4>1. Length(SubSeq(t, N + a, N + b)) = t[N + a].size /\ t[N + b].end
        BY <3>1, <3>3 DEF Whole
      <4>2. \A k \in N + a..((N + b) - 1) : ~t[k].end
        BY <3>4
      <4>3. \A k \in (N + a + 1)..(N + b) : t[k].kind = "continuation" /\ t[k].stream = t[N + a].stream
        BY <3>5
      <4> QED  BY <4>1, <4>2, <4>3 DEF Whole
    <3>7. N + b \in i..Len(t)
      BY <1>1, <3>0, <3>1
    <3> QED  BY <3>0, <3>6, <3>7
  <2> QED  BY <2>1, <2>2
<1>5. ASSUME NEW i \in 2..Len(t), t[i].kind = "continuation"
      PROVE  IsBlock(t[i - 1]) /\ ~t[i - 1].end
  <2>1. CASE i <= N
    <3>1. i \in 2..N /\ t[i] = s[i] /\ t[i - 1] = s[i - 1]
      BY <1>1, <2>1
    <3> QED  BY <1>5, <1>c, <3>1
  <2>2. CASE i = N + 1
    <3>1. t[i] = r[1]
      BY <1>1, <2>2
    <3> QED  BY <1>5, <3>1
  <2>3. CASE ~(i <= N) /\ i # N + 1
    <3>1. i \in N + 1..N + M /\ i - 1 \in N + 1..N + M
      BY <1>1, <2>3
    <3>2. t[i] = r[i - N] /\ t[i - 1] = r[(i - 1) - N]
      BY <1>1, <3>1
    <3>3. i - N \in 2..M /\ (i - 1) - N = (i - N) - 1
      BY <1>1, <2>3
    <3>4. r[i - N].kind = "continuation" /\ t[i - 1] = r[(i - N) - 1]
      BY <1>5, <3>2, <3>3
    <3> QED  BY <1>c, <3>3, <3>4
  <2> QED  BY <2>1, <2>2, <2>3
<1> QED
  BY <1>4, <1>5 DEF Intact, t

LEMMA IntactOne ==
  ASSUME NEW f \in Frames, ~IsBlock(f)
  PROVE  Intact(<<f>>)
<1>1. Len(<<f>>) = 1 /\ <<f>>[1] = f
  OBVIOUS
<1>2. f.kind # "headers"
  BY DEF IsBlock
<1> QED
  BY <1>1, <1>2 DEF Intact

LEMMA IntactBlock ==
  ASSUME NEW r \in Seq(Frames), r # <<>>, Gathered(r), Length(r) = r[1].size,
         \A i \in 1..Len(r) : IsBlock(r[i]) /\ (r[i].end <=> i = Len(r))
  PROVE  Intact(r)
<1>1. Len(r) \in Nat \ {0}
  BY EmptySeq, LenProperties
<1>2. SubSeq(r, 1, Len(r)) = r
  BY SubSeqFull, SMTT(30)
<1>3. Whole(r, 1, Len(r))
  <2>1. r[Len(r)].end /\ \A k \in 1..(Len(r) - 1) : ~r[k].end
    BY <1>1
  <2>2. \A k \in (1 + 1)..Len(r) : r[k].kind = "continuation" /\ r[k].stream = r[1].stream
    BY <1>1 DEF Gathered, Follows
  <2> QED  BY <1>2, <2>1, <2>2 DEF Whole
<1>4. ASSUME NEW i \in 1..Len(r), r[i].kind = "headers"
      PROVE  \E j \in i..Len(r) : Whole(r, i, j)
  <2>1. i = 1
    <3>1. i # 1 => i \in 2..Len(r)
      BY <1>1
    <3> QED  BY <1>4, <3>1 DEF Gathered, Follows
  <2>2. Len(r) \in 1..Len(r)
    BY <1>1
  <2> QED  BY <1>3, <2>1, <2>2
<1>5. \A i \in 2..Len(r) : IsBlock(r[i - 1]) /\ ~r[i - 1].end
  <2>1. ASSUME NEW i \in 2..Len(r) PROVE i - 1 \in 1..Len(r) /\ i - 1 # Len(r)
    BY <1>1
  <2> QED  BY <2>1
<1> QED
  BY <1>4, <1>5 DEF Intact

\* What is on its way from the bridge, after each effect.
LEMMA WayWrites ==
  ASSUME NEW w \in Seq(Frames), NEW o \in Seq(Frames), o # <<>>
  PROVE  Append(w, Head(o)) \o Tail(o) = w \o o
<1> DEFINE v == Append(w, Head(o))
           t == Tail(o)
<1>1. Head(o) \in Frames /\ Head(o) = o[1] /\ t \in Seq(Frames) /\ Len(t) = Len(o) - 1
      /\ Len(o) \in Nat \ {0} /\ \A i \in 1..Len(t) : t[i] = o[i + 1]
  BY TailKeeps
<1>2. v \in Seq(Frames) /\ Len(v) = Len(w) + 1 /\ Len(w) \in Nat
      /\ v[Len(w) + 1] = o[1] /\ \A i \in 1..Len(w) : v[i] = w[i]
  BY <1>1, AppendProperties, LenProperties
<1>3. /\ v \o t \in Seq(Frames) /\ Len(v \o t) = Len(v) + Len(t)
      /\ \A i \in 1..Len(v) + Len(t) : (v \o t)[i] = IF i <= Len(v) THEN v[i] ELSE t[i - Len(v)]
  BY <1>1, <1>2, ConcatProperties
<1>4. /\ w \o o \in Seq(Frames) /\ Len(w \o o) = Len(w) + Len(o)
      /\ \A i \in 1..Len(w) + Len(o) : (w \o o)[i] = IF i <= Len(w) THEN w[i] ELSE o[i - Len(w)]
  BY ConcatProperties
<1> HIDE DEF v, t
<1>5. Len(v) + Len(t) = Len(w) + Len(o)
  BY <1>1, <1>2
<1>6. ASSUME NEW i \in 1..Len(w) + Len(o)
      PROVE  (v \o t)[i] = (w \o o)[i]
  <2>1. CASE i <= Len(w)
    BY <1>2, <1>3, <1>4, <1>5, <2>1
  <2>2. CASE i = Len(w) + 1
    BY <1>1, <1>2, <1>3, <1>4, <1>5, <2>2
  <2>3. CASE ~(i <= Len(w)) /\ i # Len(w) + 1
    <3>1. /\ ~(i <= Len(v)) /\ i - Len(v) \in 1..Len(t) /\ (i - Len(v)) + 1 = i - Len(w)
      BY <1>1, <1>2, <2>3
    <3>2. (v \o t)[i] = o[i - Len(w)]
      BY <1>1, <1>3, <1>5, <3>1
    <3> QED  BY <1>4, <2>3, <3>2
  <2> QED  BY <2>1, <2>2, <2>3
<1>7. v \o t = w \o o
  <2>1. Len(v \o t) = Len(w \o o) /\ \A i \in 1..Len(v \o t) : (v \o t)[i] = (w \o o)[i]
    BY <1>3, <1>4, <1>5, <1>6
  <2> QED  BY <1>3, <1>4, <2>1, SeqEqual
<1> QED
  BY <1>7 DEF v, t

LEMMA WayReceives ==
  ASSUME NEW w \in Seq(Frames), NEW o \in Seq(Frames), w # <<>>
  PROVE  Tail(w) \o o = Tail(w \o o) /\ w \o o # <<>> /\ Head(w \o o) = Head(w)
<1> DEFINE v == Tail(w)
           s == w \o o
<1>1. v \in Seq(Frames) /\ Len(v) = Len(w) - 1 /\ Len(w) \in Nat \ {0} /\ Head(w) = w[1]
      /\ \A i \in 1..Len(v) : v[i] = w[i + 1]
  BY TailKeeps
<1>2. /\ s \in Seq(Frames) /\ Len(s) = Len(w) + Len(o) /\ Len(o) \in Nat
      /\ \A i \in 1..Len(w) + Len(o) : s[i] = IF i <= Len(w) THEN w[i] ELSE o[i - Len(w)]
  BY ConcatProperties, LenProperties
<1>3. /\ v \o o \in Seq(Frames) /\ Len(v \o o) = Len(v) + Len(o)
      /\ \A i \in 1..Len(v) + Len(o) : (v \o o)[i] = IF i <= Len(v) THEN v[i] ELSE o[i - Len(v)]
  BY <1>1, ConcatProperties
<1> HIDE DEF v, s
<1>4. s # <<>>
  BY <1>1, <1>2, EmptySeq
<1>5. Tail(s) \in Seq(Frames) /\ Len(Tail(s)) = Len(s) - 1 /\ Head(s) = s[1]
      /\ \A i \in 1..Len(Tail(s)) : Tail(s)[i] = s[i + 1]
  BY <1>2, <1>4, TailKeeps
<1>6. Len(v \o o) = Len(Tail(s)) /\ Head(s) = Head(w)
  BY <1>1, <1>2, <1>3, <1>5
<1>7. ASSUME NEW i \in 1..Len(v \o o) PROVE (v \o o)[i] = Tail(s)[i]
  <2>1. CASE i <= Len(v)
    BY <1>1, <1>2, <1>3, <1>5, <1>6, <2>1
  <2>2. CASE ~(i <= Len(v))
    <3>1. i - Len(v) = (i + 1) - Len(w) /\ ~(i + 1 <= Len(w)) /\ i + 1 \in 1..Len(w) + Len(o)
      BY <1>1, <1>2, <1>3, <2>2
    <3> QED  BY <1>2, <1>3, <1>5, <1>6, <2>2, <3>1, SMTT(30)
  <2> QED  BY <2>1, <2>2
<1>8. v \o o = Tail(s)
  BY <1>3, <1>5, <1>6, <1>7, SeqEqual
<1> QED
  BY <1>4, <1>6, <1>8 DEF v, s

LEMMA IntactInit == Init => AllIntact
<1> SUFFICES ASSUME Init, NEW d \in Peers PROVE Intact(<<>> \o <<>>)
  BY DEF Init, AllIntact
<1>1. <<>> \o <<>> = <<>> /\ Len(<<>>) = 0
  OBVIOUS
<1> QED
  BY <1>1 DEF Intact

LEMMA IntactStep ==
  ASSUME TypeOK, Shape, AllIntact, Effect
  PROVE  AllIntact'
<1> SUFFICES ASSUME NEW d \in Peers PROVE Intact(down'[d] \o out'[d])
  BY DEF AllIntact
<1>1. Intact(down[d] \o out[d]) /\ down[d] \in Seq(Frames) /\ out[d] \in Seq(Frames)
  BY DEF AllIntact, TypeOK
<1>2. ASSUME NEW x \in Peers, Receive(x)
      PROVE  Intact(down'[d] \o out'[d])
  <2>1. PICK z \in Peers : z = Peer(x)
    BY TwoPeers
  <2>2. down[z] # <<>> /\ down' = [down EXCEPT ![z] = Tail(@)] /\ out' = out
    BY <1>2, <2>1 DEF Receive, bridgeVars
  <2>3. CASE z = d
    <3>1. down'[d] = Tail(down[d]) /\ down[d] # <<>>
      BY <2>2, <2>3 DEF TypeOK
    <3>2. Tail(down[d]) \o out[d] = Tail(down[d] \o out[d]) /\ down[d] \o out[d] # <<>>
      BY <1>1, <3>1, WayReceives
    <3>3. down[d] \o out[d] \in Seq(Frames)
      BY <1>1, ConcatProperties
    <3>4. Intact(Tail(down[d] \o out[d]))
      BY <1>1, <3>2, <3>3, IntactTail
    <3> QED  BY <2>2, <3>1, <3>2, <3>4
  <2>4. CASE z # d
    <3>1. down'[d] = down[d]
      BY <2>2, <2>4 DEF TypeOK
    <3> QED  BY <1>1, <2>2, <3>1
  <2> QED  BY <2>3, <2>4
<1>3. ASSUME NEW x \in Peers, Write(x)
      PROVE  Intact(down'[d] \o out'[d])
  <2>1. /\ out[x] # <<>> /\ down' = [down EXCEPT ![x] = Append(@, Head(out[x]))]
        /\ out' = [out EXCEPT ![x] = Tail(@)]
    BY <1>3 DEF Write, Shape, ShapeOf
  <2>2. CASE x = d
    <3>1. down'[d] = Append(down[d], Head(out[d])) /\ out'[d] = Tail(out[d]) /\ out[d] # <<>>
      BY <2>1, <2>2 DEF TypeOK
    <3> QED  BY <1>1, <3>1, WayWrites
  <2>3. CASE x # d
    <3>1. down'[d] = down[d] /\ out'[d] = out[d]
      BY <2>1, <2>3 DEF TypeOK
    <3> QED  BY <1>1, <3>1
  <2> QED  BY <2>2, <2>3
<1>4. ASSUME NEW x \in Peers, NEW r \in Seq(Frames), Intact(r), r[1].kind # "continuation",
             out[x] = <<>>, out' = [out EXCEPT ![x] = r], down' = down
      PROVE  Intact(down'[d] \o out'[d])
  <2>1. CASE x = d
    <3>1. down[d] \o <<>> = down[d]
      BY <1>1, ConcatEmptySeq
    <3>2. Intact(down[d] \o r)
      BY <1>1, <1>4, <2>1, <3>1, IntactConcat
    <3>3. out'[d] = r
      BY <1>4, <2>1 DEF TypeOK
    <3> QED  BY <1>4, <3>2, <3>3
  <2>2. CASE x # d
    <3>1. out'[d] = out[d]
      BY <1>4, <2>2 DEF TypeOK
    <3> QED  BY <1>1, <1>4, <3>1
  <2> QED  BY <2>1, <2>2
<1>5. ASSUME NEW x \in Peers, Passes(x)
      PROVE  Intact(down'[d] \o out'[d])
  <2> DEFINE f == Head(up[x])
  <2>1. /\ out[x] = <<>> /\ out' = [out EXCEPT ![x] = <<f>>] /\ down' = down
        /\ ~IsBlock(f) /\ f.kind # "continuation"
    BY <1>5 DEF Passes, Forward, IsBlock
  <2>2. f \in Frames
    BY <1>5, HeadOf DEF Passes
  <2> HIDE DEF f
  <2>3. Intact(<<f>>)
    BY <2>1, <2>2, IntactOne
  <2>4. <<f>> \in Seq(Frames) /\ <<f>>[1] = f
    BY <2>2, OneKeeps
  <2> QED  BY <1>4, <2>1, <2>3, <2>4
<1>6. ASSUME NEW x \in Peers, PassesBlock(x)
      PROVE  Intact(down'[d] \o out'[d])
  <2>1. PICK n \in Nat : Forward(x, Reframe(Block(x), n, limits[x].frame))
    BY <1>6 DEF PassesBlock
  <2> DEFINE r == Reframe(Block(x), n, limits[x].frame)
  <2>2. out[x] = <<>> /\ out' = [out EXCEPT ![x] = r] /\ down' = down
    BY <1>6, <2>1 DEF PassesBlock, Belongs, Forward
  <2>3. /\ r \in Seq(Frames) /\ r # <<>> /\ Gathered(r) /\ Length(r) = r[1].size
        /\ \A i \in 1..Len(r) : IsBlock(r[i]) /\ (r[i].end <=> i = Len(r))
    BY <1>6, PassedIs DEF PassesBlock
  <2> HIDE DEF r
  <2>4. Intact(r)
    BY <2>3, IntactBlock
  <2>5. r[1].kind # "continuation"
    BY <2>3 DEF Gathered
  <2> QED  BY <1>4, <2>2, <2>3, <2>4, <2>5
<1>7. ASSUME Idles \/ \E x \in Peers : Sends(x) \/ Acks(x) \/ Gathers(x) \/ Refuses(x)
      PROVE  Intact(down'[d] \o out'[d])
  <2>1. UNCHANGED <<down, out>>
    BY <1>7 DEF Idles, Sends, Acks, Gathers, More, Refuses, Fail, wireVars, bridgeVars
  <2> QED  BY <1>1, <2>1
<1> QED
  BY <1>2, <1>3, <1>5, <1>6, <1>7 DEF Effect

LEMMA IntactSuffices == ASSUME TypeOK, AllIntact PROVE BlocksIntact
<1> SUFFICES ASSUME NEW d \in Peers, NEW s, s = down[d] \o out[d]
             PROVE  /\ \A i \in DOMAIN s : s[i].kind = "headers" =>
                         \E j \in i..Len(s) :
                           /\ Length(SubSeq(s, i, j)) = s[i].size
                           /\ s[j].end /\ \A k \in i..(j - 1) : ~s[k].end
                           /\ \A k \in (i + 1)..j : s[k].kind = "continuation" /\ s[k].stream = s[i].stream
                    /\ \A i \in DOMAIN s \ {1} : s[i].kind = "continuation" => IsBlock(s[i - 1]) /\ ~s[i - 1].end
  BY DEF BlocksIntact
<1>1. Intact(s)
  BY DEF AllIntact
<1>2. DOMAIN s = 1..Len(s) /\ Len(s) \in Nat
  <2>1. down[d] \in Seq(Frames) /\ out[d] \in Seq(Frames)
    BY DEF TypeOK
  <2>2. s \in Seq(Frames)
    BY <2>1, ConcatProperties
  <2> QED  BY <2>2, LenProperties
<1>3. ASSUME NEW i \in DOMAIN s \ {1} PROVE i \in 2..Len(s)
  <2>1. PICK n \in Nat : n = Len(s)
    BY <1>2
  <2>2. i \in 1..n /\ i # 1
    BY <1>2, <2>1, Zenon
  <2>3. i \in 2..n
    BY <2>2
  <2> QED  BY <2>1, <2>3, Zenon
<1>4. \A i \in 2..Len(s) : s[i].kind = "continuation" => IsBlock(s[i - 1]) /\ ~s[i - 1].end
  BY <1>1 DEF Intact
<1>5. ASSUME NEW i \in DOMAIN s, s[i].kind = "headers"
      PROVE  \E j \in i..Len(s) :
               /\ Length(SubSeq(s, i, j)) = s[i].size
               /\ s[j].end /\ \A k \in i..(j - 1) : ~s[k].end
               /\ \A k \in (i + 1)..j : s[k].kind = "continuation" /\ s[k].stream = s[i].stream
  <2>1. PICK j \in i..Len(s) : Whole(s, i, j)
    BY <1>1, <1>2, <1>5, Zenon DEF Intact
  <2> QED  BY <2>1 DEF Whole
<1> QED
  BY <1>3, <1>4, <1>5

\* BlocksIntact: every header block reaches its receiver as one HEADERS frame and
\* its CONTINUATION frames, ended once, with every octet of the encoded block.
THEOREM BlocksStayIntact == Spec => []BlocksIntact
<1> DEFINE Inv == TypeOK /\ Shape /\ AllIntact
<1>1. Init => Inv
  BY InitTyped, IntactInit
<1>2. ASSUME Inv, [Next]_vars PROVE Inv'
  <2>1. Effect
    BY <1>2, Effects
  <2>2. TypeOK' /\ Shape'
    BY <1>2, <2>1, TypedSends, TypedAcks, TypedReceive, TypedPasses, TypedGathers,
       TypedPassesBlock, TypedWrite, TypedRefuses, TypedIdles DEF Effect
  <2>3. AllIntact'
    BY <1>2, <2>1, IntactStep
  <2> QED  BY <2>2, <2>3
<1>3. Inv => BlocksIntact
  BY IntactSuffices
<1> QED
  BY <1>1, <1>2, <1>3, PTL DEF Spec

-----------------------------------------------------------------------------
\* Frames keep their order: what a direction holds, block by block, changes as a
\* FIFO channel does.
AnItem == {Item(f) : f \in Frames}
ItemsOf(f) == IF f.kind = "continuation" THEN <<>> ELSE <<Item(f)>>
Collects(h, s) == h[0] = <<>> /\ \A i \in 1..Len(s) : h[i] = h[i - 1] \o ItemsOf(s[i])

LEMMA ItemsOfType == ASSUME NEW f \in Frames PROVE ItemsOf(f) \in Seq(AnItem) /\ Item(f) \in AnItem
<1>1. Item(f) \in AnItem
  BY DEF AnItem
<1>2. <<Item(f)>> \in Seq(AnItem) /\ <<>> \in Seq(AnItem)
  BY <1>1, OneKeeps
<1> QED  BY <1>1, <1>2 DEF ItemsOf

LEMMA ItemsAssociate == \A a, b, c \in Seq(AnItem) : (a \o b) \o c = a \o (b \o c)
  BY ConcatAssociative

\* InFlight() is the last of the partial lists.
LEMMA InFlightHas ==
  ASSUME NEW s \in Seq(Frames)
  PROVE  \E h \in [0..Len(s) -> Seq(AnItem)] : Collects(h, s) /\ InFlight(s) = h[Len(s)]
<1> DEFINE N == Len(s)
           T == Seq(AnItem)
           step == [i \in 1..N |-> [x \in T |-> IF s[i].kind = "continuation" THEN x
                                                ELSE Append(x, Item(s[i]))]]
           items == CHOOSE g : g = [i \in 0..N |-> IF i = 0 THEN <<>>
                                                   ELSE IF s[i].kind = "continuation" THEN g[i - 1]
                                                   ELSE Append(g[i - 1], Item(s[i]))]
<1>1. N \in Nat /\ \A i \in 1..N : s[i] \in Frames
  BY LenProperties, ElementOfSeq
<1>2. InFlight(s) = items[N]
  BY DEF InFlight
<1> HIDE DEF N
<1>3. step \in [1..N -> [T -> T]]
  <2>1. ASSUME NEW i \in 1..N, NEW x \in T
        PROVE  (IF s[i].kind = "continuation" THEN x ELSE Append(x, Item(s[i]))) \in T
    <3>1. Item(s[i]) \in AnItem
      BY <1>1, ItemsOfType
    <3>2. Append(x, Item(s[i])) \in T
      BY <3>1, AppendProperties
    <3> QED  BY <3>2
  <2> QED  BY <2>1
<1> HIDE DEF step
<1>4. PICK g \in [0..N -> T] : Recurs(g, N, <<>>, step)
  <2>1. <<>> \in T
    OBVIOUS
  <2> HIDE DEF T
  <2> QED  BY <1>1, <1>3, <2>1, RecursionUpTo
<1>5. ASSUME NEW i \in 1..N
      PROVE  /\ g[i] = (IF s[i].kind = "continuation" THEN g[i - 1] ELSE Append(g[i - 1], Item(s[i])))
             /\ g[i] = g[i - 1] \o ItemsOf(s[i])
  <2>1. i - 1 \in 0..N /\ g[i - 1] \in T
    BY <1>1, <1>4
  <2>2. step[i][g[i - 1]] = (IF s[i].kind = "continuation" THEN g[i - 1] ELSE Append(g[i - 1], Item(s[i])))
    <3> HIDE DEF T
    <3> QED  BY <2>1 DEF step
  <2>3. g[i] = step[i][g[i - 1]]
    BY <1>4 DEF Recurs
  <2>4. g[i - 1] \o <<>> = g[i - 1]
    BY <2>1, ConcatEmptySeq
  <2>5. Append(g[i - 1], Item(s[i])) = g[i - 1] \o <<Item(s[i])>>
    <3>1. Item(s[i]) \in AnItem
      BY <1>1, ItemsOfType
    <3> QED  BY <2>1, <3>1, AppendIsConcat
  <2> QED  BY <2>2, <2>3, <2>4, <2>5 DEF ItemsOf
<1>6. g[0] = <<>>
  BY <1>4 DEF Recurs
<1> HIDE DEF T
<1>7. g = [i \in 0..N |-> IF i = 0 THEN <<>>
                          ELSE IF s[i].kind = "continuation" THEN g[i - 1]
                          ELSE Append(g[i - 1], Item(s[i]))]
  <2>1. ASSUME NEW i \in 0..N
        PROVE  g[i] = IF i = 0 THEN <<>>
                      ELSE IF s[i].kind = "continuation" THEN g[i - 1]
                      ELSE Append(g[i - 1], Item(s[i]))
    <3>1. i = 0 \/ i \in 1..N
      BY <1>1
    <3> QED  BY <1>1, <1>5, <1>6, <3>1
  <2>2. g = [i \in 0..N |-> g[i]]
    BY <1>4
  <2> QED  BY <2>1, <2>2, Zenon
<1>8. items = [i \in 0..N |-> IF i = 0 THEN <<>>
                              ELSE IF s[i].kind = "continuation" THEN items[i - 1]
                              ELSE Append(items[i - 1], Item(s[i]))]
  BY <1>7
<1> HIDE DEF items
<1> DEFINE S == {i \in Nat : i \in 0..N => items[i] = g[i]}
<1>9. 0..N \subseteq S
  <2>1. 0 \in S
    BY <1>1, <1>6, <1>8
  <2>2. ASSUME NEW i \in 0..(N - 1), i \in S PROVE i + 1 \in S
    <3>1. i + 1 \in 1..N /\ (i + 1) - 1 = i /\ i \in 0..N /\ i + 1 \in 0..N /\ i + 1 # 0
      BY <1>1
    <3>2. items[i + 1] = (IF s[i + 1].kind = "continuation" THEN items[i] ELSE Append(items[i], Item(s[i + 1])))
      BY <1>8, <3>1
    <3>3. g[i + 1] = (IF s[i + 1].kind = "continuation" THEN g[i] ELSE Append(g[i], Item(s[i + 1])))
      BY <1>5, <3>1
    <3>4. items[i] = g[i]
      BY <2>2, <3>1
    <3> QED  BY <3>1, <3>2, <3>3, <3>4
  <2> HIDE DEF S
  <2> QED  BY <1>1, <2>1, <2>2, InductionUpTo
<1>10. items[N] = g[N]
  <2>1. N \in 0..N
    BY <1>1
  <2> QED  BY <1>9, <2>1
<1>11. Collects(g, s)
  BY <1>5, <1>6 DEF Collects, N
<1> QED
  BY <1>2, <1>4, <1>10, <1>11 DEF N, T

LEMMA InFlightIs ==
  ASSUME NEW s \in Seq(Frames), NEW h, Collects(h, s)
  PROVE  InFlight(s) = h[Len(s)] /\ InFlight(s) \in Seq(AnItem)
<1>1. Len(s) \in Nat
  BY LenProperties
<1>2. PICK g \in [0..Len(s) -> Seq(AnItem)] : Collects(g, s) /\ InFlight(s) = g[Len(s)]
  BY InFlightHas
<1> DEFINE S == {i \in Nat : h[i] = g[i]}
<1>3. 0 \in S
  BY <1>2 DEF Collects
<1>4. ASSUME NEW i \in 0..(Len(s) - 1), i \in S PROVE i + 1 \in S
  <2>1. i + 1 \in 1..Len(s) /\ (i + 1) - 1 = i
    BY <1>1
  <2>2. h[i + 1] = h[i] \o ItemsOf(s[i + 1]) /\ g[i + 1] = g[i] \o ItemsOf(s[i + 1])
    BY <1>2, <2>1 DEF Collects
  <2>3. h[i] = g[i] /\ i \in Nat
    BY <1>4
  <2>4. h[i + 1] = g[i + 1]
    BY <2>2, <2>3, Zenon
  <2> QED  BY <2>3, <2>4
<1> HIDE DEF S
<1>5. 0..Len(s) \subseteq S
  BY <1>1, <1>3, <1>4, InductionUpTo
<1>6. Len(s) \in 0..Len(s)
  BY <1>1
<1> QED
  BY <1>2, <1>5, <1>6 DEF S

LEMMA InFlightType == ASSUME NEW s \in Seq(Frames) PROVE InFlight(s) \in Seq(AnItem)
  BY InFlightHas, InFlightIs

LEMMA InFlightEmpty == InFlight(<<>>) = <<>>
<1> DEFINE h == [i \in 0..0 |-> <<>>]
<1>1. <<>> \in Seq(Frames) /\ Len(<<>>) = 0 /\ h[0] = <<>>
  OBVIOUS
<1> HIDE DEF h
<1>2. Collects(h, <<>>)
  BY <1>1 DEF Collects
<1>3. InFlight(<<>>) = h[Len(<<>>)]
  BY <1>1, <1>2, InFlightIs
<1> QED  BY <1>1, <1>3

LEMMA InFlightConcat ==
  ASSUME NEW s \in Seq(Frames), NEW t \in Seq(Frames)
  PROVE  InFlight(s \o t) = InFlight(s) \o InFlight(t) /\ s \o t \in Seq(Frames)
<1>1. PICK h \in [0..Len(s) -> Seq(AnItem)] : Collects(h, s) /\ InFlight(s) = h[Len(s)]
  BY InFlightHas
<1>2. PICK g \in [0..Len(t) -> Seq(AnItem)] : Collects(g, t) /\ InFlight(t) = g[Len(t)]
  BY InFlightHas
<1>3. PICK N \in Nat : N = Len(s)
  BY LenProperties
<1>4. PICK M \in Nat : M = Len(t)
  BY LenProperties
<1> DEFINE c == s \o t
           k == [i \in 0..N + M |-> IF i <= N THEN h[i] ELSE h[N] \o g[i - N]]
<1>5. c \in Seq(Frames) /\ Len(c) = N + M
      /\ \A i \in 1..N + M : c[i] = IF i <= N THEN s[i] ELSE t[i - N]
  BY <1>3, <1>4, ConcatProperties
<1>6. h[N] \in Seq(AnItem) /\ h[N] \o <<>> = h[N] /\ g[0] = <<>>
  <2>1. h[N] \in Seq(AnItem)
    BY <1>1, <1>3, SMTT(30)
  <2> QED  BY <1>2, <2>1, ConcatEmptySeq DEF Collects
<1> HIDE DEF c
<1>7. ASSUME NEW i \in 1..N + M PROVE k[i] = k[i - 1] \o ItemsOf(c[i])
  <2>1. CASE i <= N
    <3>1. i \in 1..N /\ c[i] = s[i] /\ k[i] = h[i] /\ k[i - 1] = h[i - 1]
      BY <1>5, <2>1
    <3> HIDE DEF k
    <3> QED  BY <1>1, <1>3, <3>1 DEF Collects
  <2>2. CASE ~(i <= N)
    <3>0. PICK j \in 1..M : i = N + j /\ i - N = j /\ (i - 1) - N = j - 1 /\ j - 1 \in 0..M /\ j \in 0..M
      <4>1. i - N \in 1..M /\ i = N + (i - N) /\ (i - 1) - N = (i - N) - 1
        BY <2>2
      <4> QED  BY <4>1
    <3>1. c[i] = t[j] /\ k[i] = h[N] \o g[j]
      <4>1. c[i] = t[i - N]
        BY <1>5, <2>2
      <4>2. i \in 0..N + M
        OBVIOUS
      <4>3. k[i] = h[N] \o g[i - N]
        BY <2>2, <4>2, Zenon
      <4> QED  BY <3>0, <4>1, <4>3, Zenon
    <3>2. k[i - 1] = h[N] \o g[j - 1]
      <4>1. CASE j = 1
        <5>1. i - 1 = N /\ N \in 0..N + M /\ k[N] = h[N]
          BY <3>0, <4>1
        <5> HIDE DEF k
        <5>2. g[j - 1] = <<>>
          BY <1>6, <4>1
        <5> QED  BY <1>6, <5>1, <5>2
      <4>2. CASE j # 1
        <5>1. ~(i - 1 <= N) /\ i - 1 \in 0..N + M
          BY <3>0, <4>2
        <5> QED  BY <3>0, <5>1
      <4> QED  BY <4>1, <4>2
    <3>3. g[j] = g[j - 1] \o ItemsOf(t[j])
      BY <1>2, <1>4, <3>0 DEF Collects
    <3>4. g[j - 1] \in Seq(AnItem) /\ ItemsOf(t[j]) \in Seq(AnItem)
      <4>1. t[j] \in Frames
        BY <1>4, <3>0, ElementOfSeq
      <4> QED  BY <1>2, <1>4, <3>0, <4>1, ItemsOfType
    <3>5. (h[N] \o g[j - 1]) \o ItemsOf(t[j]) = h[N] \o (g[j - 1] \o ItemsOf(t[j]))
      BY <1>6, <3>4, ItemsAssociate, Zenon
    <3> HIDE DEF k
    <3> QED  BY <3>1, <3>2, <3>3, <3>5
  <2> QED  BY <2>1, <2>2
<1>8. k[0] = <<>>
  <2>1. 0 \in 0..N + M /\ 0 <= N
    OBVIOUS
  <2> QED  BY <1>1, <2>1 DEF Collects
<1>9. k[N + M] = h[N] \o g[M]
  <2>1. CASE M = 0
    <3>1. N + M = N /\ N \in 0..N + M /\ N <= N
      BY <2>1
    <3>2. k[N] = h[N]
      BY <3>1, Zenon
    <3> QED  BY <1>6, <2>1, <3>1, <3>2, Zenon
  <2>2. CASE M # 0
    <3>1. ~(N + M <= N) /\ (N + M) - N = M /\ N + M \in 0..N + M
      BY <2>2
    <3>2. k[N + M] = h[N] \o g[(N + M) - N]
      BY <3>1, Zenon
    <3> QED  BY <3>1, <3>2, Zenon
  <2> QED  BY <2>1, <2>2
<1> HIDE DEF k
<1>10. Collects(k, c)
  BY <1>5, <1>7, <1>8 DEF Collects
<1>11. InFlight(c) = k[Len(c)]
  BY <1>5, <1>10, InFlightIs
<1> QED
  BY <1>1, <1>2, <1>3, <1>4, <1>5, <1>9, <1>11 DEF c

LEMMA InFlightOne ==
  ASSUME NEW f \in Frames
  PROVE  InFlight(<<f>>) = ItemsOf(f)
<1> DEFINE h == [i \in 0..1 |-> IF i = 0 THEN <<>> ELSE ItemsOf(f)]
<1>1. <<f>> \in Seq(Frames) /\ Len(<<f>>) = 1 /\ <<f>>[1] = f
  BY OneKeeps
<1>2. h[0] = <<>> /\ h[1] = ItemsOf(f)
  OBVIOUS
<1> HIDE DEF h
<1>3. <<>> \o ItemsOf(f) = ItemsOf(f)
  BY ItemsOfType, ConcatEmptySeq
<1>4. Collects(h, <<f>>)
  <2>1. ASSUME NEW i \in 1..1 PROVE h[i] = h[i - 1] \o ItemsOf(<<f>>[i])
    <3>1. i = 1 /\ i - 1 = 0
      OBVIOUS
    <3> QED  BY <1>1, <1>2, <1>3, <3>1, Zenon
  <2> QED  BY <1>1, <1>2, <2>1, Zenon DEF Collects
<1>5. InFlight(<<f>>) = h[Len(<<f>>)]
  BY <1>1, <1>4, InFlightIs
<1> QED  BY <1>1, <1>2, <1>5

LEMMA InFlightAppend ==
  ASSUME NEW s \in Seq(Frames), NEW f \in Frames
  PROVE  InFlight(Append(s, f)) = InFlight(s) \o ItemsOf(f)
<1>1. Append(s, f) = s \o <<f>> /\ <<f>> \in Seq(Frames)
  BY AppendIsConcat, OneKeeps
<1>2. InFlight(s \o <<f>>) = InFlight(s) \o InFlight(<<f>>)
  BY <1>1, InFlightConcat
<1>3. InFlight(<<f>>) = ItemsOf(f)
  BY InFlightOne
<1> QED  BY <1>1, <1>2, <1>3, Zenon

\* A block is one item.
LEMMA InFlightBlock ==
  ASSUME NEW r \in Seq(Frames), r # <<>>, Gathered(r)
  PROVE  InFlight(r) = <<Item(r[1])>>
<1>1. Len(r) \in Nat \ {0} /\ r[1] \in Frames
  BY EmptySeq, LenProperties, ElementOfSeq
<1> DEFINE x == Item(r[1])
           h == [i \in 0..Len(r) |-> IF i = 0 THEN <<>> ELSE <<x>>]
<1>2. <<x>> \in Seq(AnItem) /\ <<>> \in Seq(AnItem)
  <2>1. x \in AnItem
    BY <1>1, ItemsOfType
  <2> HIDE DEF x
  <2> QED  BY <2>1, OneKeeps
<1>3. <<>> \o <<x>> = <<x>> /\ <<x>> \o <<>> = <<x>>
  BY <1>2, ConcatEmptySeq
<1>4. ASSUME NEW i \in 1..Len(r) PROVE h[i] = h[i - 1] \o ItemsOf(r[i])
  <2>1. CASE i = 1
    <3>1. ItemsOf(r[i]) = <<x>>
      BY <2>1 DEF Gathered, ItemsOf
    <3>2. h[i] = <<x>> /\ h[i - 1] = <<>>
      BY <1>1, <2>1
    <3> HIDE DEF h, x
    <3> QED  BY <1>3, <3>1, <3>2
  <2>2. CASE i # 1
    <3>1. i \in 2..Len(r)
      BY <1>1, <2>2
    <3>2. ItemsOf(r[i]) = <<>>
      BY <3>1 DEF Gathered, Follows, ItemsOf
    <3>3. h[i] = <<x>> /\ h[i - 1] = <<x>>
      BY <1>1, <3>1
    <3> HIDE DEF h, x
    <3> QED  BY <1>3, <3>2, <3>3
  <2> QED  BY <2>1, <2>2
<1>5. h[0] = <<>> /\ h[Len(r)] = <<x>>
  BY <1>1
<1> HIDE DEF h
<1>6. Collects(h, r)
  BY <1>4, <1>5 DEF Collects
<1>7. InFlight(r) = h[Len(r)]
  BY <1>6, InFlightIs
<1> QED  BY <1>5, <1>7

\* What is in flight on all parts of a way.
AllOf(w, o, g, u) == ((InFlight(w) \o InFlight(o)) \o InFlight(g)) \o InFlight(u)

LEMMA FlowIs ==
  ASSUME NEW w \in Seq(Frames), NEW o \in Seq(Frames), NEW g \in Seq(Frames), NEW u \in Seq(Frames)
  PROVE  InFlight(w \o o \o g \o u) = AllOf(w, o, g, u) /\ AllOf(w, o, g, u) \in Seq(AnItem)
<1>1. w \o o \in Seq(Frames) /\ InFlight(w \o o) = InFlight(w) \o InFlight(o)
  BY InFlightConcat
<1>2. (w \o o) \o g \in Seq(Frames) /\ InFlight((w \o o) \o g) = InFlight(w \o o) \o InFlight(g)
  BY <1>1, InFlightConcat
<1>3. ((w \o o) \o g) \o u \in Seq(Frames)
      /\ InFlight(((w \o o) \o g) \o u) = InFlight((w \o o) \o g) \o InFlight(u)
  BY <1>2, InFlightConcat
<1>4. InFlight(((w \o o) \o g) \o u) \in Seq(AnItem)
  BY <1>3, InFlightType
<1> QED
  BY <1>1, <1>2, <1>3, <1>4 DEF AllOf

\* A sequence is its head, then its tail.
LEMMA HeadThenTail ==
  ASSUME NEW S, NEW s \in Seq(S), s # <<>>
  PROVE  s = <<Head(s)>> \o Tail(s) /\ <<Head(s)>> \in Seq(S) /\ Tail(s) \in Seq(S) /\ Head(s) \in S
<1>1. /\ Head(s) \in S /\ Head(s) = s[1] /\ Tail(s) \in Seq(S) /\ Len(Tail(s)) = Len(s) - 1
      /\ Len(s) \in Nat \ {0} /\ \A i \in 1..Len(Tail(s)) : Tail(s)[i] = s[i + 1]
  BY TailKeeps
<1> DEFINE h == <<Head(s)>>
           t == Tail(s)
<1>2. h \in Seq(S) /\ Len(h) = 1 /\ h[1] = s[1]
  BY <1>1, OneKeeps
<1>3. /\ t \in Seq(S) /\ Len(t) = Len(s) - 1 /\ Len(s) \in Nat \ {0}
      /\ \A i \in 1..Len(t) : t[i] = s[i + 1]
  BY <1>1
<1> HIDE DEF h, t
<1>4. /\ h \o t \in Seq(S) /\ Len(h \o t) = Len(h) + Len(t)
      /\ \A i \in 1..Len(h) + Len(t) : (h \o t)[i] = IF i <= Len(h) THEN h[i] ELSE t[i - Len(h)]
  BY <1>2, <1>3, ConcatProperties
<1>5. Len(h \o t) = Len(s)
  BY <1>2, <1>3, <1>4
<1>6. ASSUME NEW i \in 1..Len(s) PROVE s[i] = (h \o t)[i]
  <2>1. CASE i = 1
    BY <1>2, <1>3, <1>4, <1>5, <2>1
  <2>2. CASE i # 1
    BY <1>2, <1>3, <1>4, <1>5, <2>2
  <2> QED  BY <2>1, <2>2
<1>7. s = h \o t
  BY <1>4, <1>5, <1>6, SeqEqual
<1> QED
  BY <1>1, <1>2, <1>7 DEF h, t

LEMMA InFlightHead ==
  ASSUME NEW w \in Seq(Frames), w # <<>>
  PROVE  InFlight(w) = ItemsOf(Head(w)) \o InFlight(Tail(w))
<1>1. w = <<Head(w)>> \o Tail(w) /\ <<Head(w)>> \in Seq(Frames) /\ Tail(w) \in Seq(Frames) /\ Head(w) \in Frames
  BY HeadThenTail
<1>2. InFlight(<<Head(w)>> \o Tail(w)) = InFlight(<<Head(w)>>) \o InFlight(Tail(w))
  BY <1>1, InFlightConcat
<1>3. InFlight(<<Head(w)>>) = ItemsOf(Head(w))
  BY <1>1, InFlightOne
<1> QED  BY <1>1, <1>2, <1>3, Zenon

LEMMA TailOfFirst ==
  ASSUME NEW S, NEW x \in S, NEW s \in Seq(S)
  PROVE  <<x>> \o s # <<>> /\ Tail(<<x>> \o s) = s
<1>1. <<x>> \in Seq(S) /\ <<x>> # <<>>
  BY OneKeeps
<1>2. <<x>> \o s \in Seq(S) /\ <<x>> \o s # <<>>
  <2>1. <<x>> \o s \in Seq(S)
    BY <1>1, ConcatProperties
  <2>2. <<x>> \o s = <<>> <=> <<x>> = <<>> /\ s = <<>>
    BY <1>1, ConcatEqualIffEmpty
  <2> QED  BY <1>1, <2>1, <2>2
<1> DEFINE h == <<x>>
           c == h \o s
<1>3. Len(h) = 1
  OBVIOUS
<1>4. /\ c \in Seq(S) /\ Len(c) = Len(h) + Len(s) /\ Len(s) \in Nat
      /\ \A i \in 1..Len(h) + Len(s) : c[i] = IF i <= Len(h) THEN h[i] ELSE s[i - Len(h)]
  <2> HIDE DEF h
  <2> QED  BY <1>1, ConcatProperties, LenProperties DEF h
<1>5. Tail(c) \in Seq(S) /\ Len(Tail(c)) = Len(c) - 1 /\ \A i \in 1..Len(Tail(c)) : Tail(c)[i] = c[i + 1]
  BY <1>2, TailKeeps
<1> HIDE DEF h, c
<1>6. Len(Tail(c)) = Len(s) /\ \A i \in 1..Len(s) : Tail(c)[i] = s[i]
  BY <1>3, <1>4, <1>5
<1>7. Tail(c) = s
  <2>1. Len(s) = Len(Tail(c)) /\ \A i \in 1..Len(Tail(c)) : Tail(c)[i] = s[i]
    BY <1>6
  <2> QED  BY <1>5, <2>1, SeqEqual
<1> QED
  BY <1>2, <1>7 DEF h, c

\* The items a, and that of f if it begins one.
With(a, f) == IF f.kind = "continuation" THEN a ELSE Append(a, Item(f))

\* A frame is sent.
LEMMA FlowSends ==
  ASSUME NEW w \in Seq(Frames), NEW o \in Seq(Frames), NEW g \in Seq(Frames), NEW u \in Seq(Frames),
         NEW f \in Frames
  PROVE  AllOf(w, o, g, Append(u, f)) = With(AllOf(w, o, g, u), f)
<1> DEFINE A == (InFlight(w) \o InFlight(o)) \o InFlight(g)
           D == InFlight(u)
<1>1. A \in Seq(AnItem) /\ D \in Seq(AnItem) /\ A \o D \in Seq(AnItem)
  <2>1. InFlight(w) \in Seq(AnItem) /\ InFlight(o) \in Seq(AnItem) /\ InFlight(g) \in Seq(AnItem)
        /\ D \in Seq(AnItem)
    BY InFlightType
  <2>2. InFlight(w) \o InFlight(o) \in Seq(AnItem)
    BY <2>1, ConcatProperties
  <2>3. A \in Seq(AnItem)
    BY <2>1, <2>2, ConcatProperties
  <2> QED  BY <2>1, <2>3, ConcatProperties
<1>2. InFlight(Append(u, f)) = D \o ItemsOf(f)
  BY InFlightAppend
<1>3. ItemsOf(f) \in Seq(AnItem) /\ Item(f) \in AnItem
  BY ItemsOfType
<1>4. AllOf(w, o, g, u) = A \o D /\ AllOf(w, o, g, Append(u, f)) = A \o (D \o ItemsOf(f))
  BY <1>2 DEF AllOf
<1> HIDE DEF A, D
<1>5. A \o (D \o ItemsOf(f)) = (A \o D) \o ItemsOf(f)
  BY <1>1, <1>3, ItemsAssociate, Zenon
<1>6. (A \o D) \o <<>> = A \o D /\ Append(A \o D, Item(f)) = (A \o D) \o <<Item(f)>>
  BY <1>1, <1>3, ConcatEmptySeq, AppendIsConcat
<1> QED
  BY <1>4, <1>5, <1>6 DEF ItemsOf, With

\* The items a lose the first, or none.
Drops(a, b) == b = a \/ (a # <<>> /\ b = Tail(a))

\* A frame is received.
LEMMA FlowReceives ==
  ASSUME NEW w \in Seq(Frames), NEW o \in Seq(Frames), NEW g \in Seq(Frames), NEW u \in Seq(Frames),
         w # <<>>
  PROVE  Drops(AllOf(w, o, g, u), AllOf(Tail(w), o, g, u))
<1> DEFINE A == InFlight(Tail(w))
           B == InFlight(o)
           C == InFlight(g)
           D == InFlight(u)
           F == ItemsOf(Head(w))
<1>1. w = <<Head(w)>> \o Tail(w) /\ <<Head(w)>> \in Seq(Frames) /\ Tail(w) \in Seq(Frames) /\ Head(w) \in Frames
  BY HeadThenTail
<1>2. InFlight(w) = F \o A
  BY InFlightHead
<1>3. A \in Seq(AnItem) /\ B \in Seq(AnItem) /\ C \in Seq(AnItem) /\ D \in Seq(AnItem)
      /\ F \in Seq(AnItem) /\ Item(Head(w)) \in AnItem
  BY <1>1, InFlightType, ItemsOfType
<1>4. AllOf(Tail(w), o, g, u) = ((A \o B) \o C) \o D /\ AllOf(w, o, g, u) = (((F \o A) \o B) \o C) \o D
  BY <1>2 DEF AllOf
<1>5. F = <<>> \/ F = <<Item(Head(w))>>
  BY DEF ItemsOf
<1> HIDE DEF A, B, C, D, F
<1>6. A \o B \in Seq(AnItem) /\ (A \o B) \o C \in Seq(AnItem) /\ ((A \o B) \o C) \o D \in Seq(AnItem)
  <2>1. A \o B \in Seq(AnItem)
    BY <1>3, ConcatProperties
  <2>2. (A \o B) \o C \in Seq(AnItem)
    BY <1>3, <2>1, ConcatProperties
  <2> QED  BY <1>3, <2>1, <2>2, ConcatProperties
<1>7. (((F \o A) \o B) \o C) \o D = F \o (((A \o B) \o C) \o D)
  <2>1. (F \o A) \o B = F \o (A \o B)
    <3>1. F \in Seq(AnItem) /\ A \in Seq(AnItem) /\ B \in Seq(AnItem)
      BY <1>3
    <3> QED  BY <3>1, ItemsAssociate, Zenon
  <2>2. (F \o (A \o B)) \o C = F \o ((A \o B) \o C)
    <3>1. F \in Seq(AnItem) /\ A \o B \in Seq(AnItem) /\ C \in Seq(AnItem)
      BY <1>3, <1>6
    <3> QED  BY <3>1, ItemsAssociate, Zenon
  <2>3. (F \o ((A \o B) \o C)) \o D = F \o (((A \o B) \o C) \o D)
    <3>1. F \in Seq(AnItem) /\ (A \o B) \o C \in Seq(AnItem) /\ D \in Seq(AnItem)
      BY <1>3, <1>6
    <3> QED  BY <3>1, ItemsAssociate, Zenon
  <2> QED  BY <2>1, <2>2, <2>3
<1>8. CASE F = <<>>
  <2>1. <<>> \o (((A \o B) \o C) \o D) = ((A \o B) \o C) \o D
    BY <1>6, ConcatEmptySeq
  <2> QED  BY <1>4, <1>7, <1>8, <2>1, Zenon DEF Drops
<1>9. CASE F = <<Item(Head(w))>>
  <2> DEFINE x == Item(Head(w))
             r == ((A \o B) \o C) \o D
  <2>1. x \in AnItem /\ r \in Seq(AnItem)
    BY <1>3, <1>6
  <2>2. <<x>> \o r # <<>> /\ Tail(<<x>> \o r) = r
    <3> HIDE DEF x, r
    <3> QED  BY <2>1, TailOfFirst
  <2> QED  BY <1>4, <1>7, <1>9, <2>2, Zenon DEF Drops
<1> QED
  BY <1>5, <1>8, <1>9 DEF Drops

\* A frame is written.
LEMMA FlowWrites ==
  ASSUME NEW w \in Seq(Frames), NEW o \in Seq(Frames), NEW g, NEW u, o # <<>>
  PROVE  AllOf(Append(w, Head(o)), Tail(o), g, u) = AllOf(w, o, g, u)
<1>1. Append(w, Head(o)) \in Seq(Frames) /\ Tail(o) \in Seq(Frames)
  BY HeadThenTail, AppendProperties
<1>2. InFlight(Append(w, Head(o))) \o InFlight(Tail(o)) = InFlight(w) \o InFlight(o)
  <2>1. Append(w, Head(o)) \o Tail(o) = w \o o
    BY WayWrites
  <2>2. InFlight(Append(w, Head(o)) \o Tail(o)) = InFlight(Append(w, Head(o))) \o InFlight(Tail(o))
    BY <1>1, InFlightConcat
  <2>3. InFlight(w \o o) = InFlight(w) \o InFlight(o)
    BY InFlightConcat
  <2> QED  BY <2>1, <2>2, <2>3, Zenon
<1> QED
  BY <1>2 DEF AllOf

\* The frame f, read after g, is gathered in h or to be written in p.
Becomes(g, f, p, h) == InFlight(p) \o InFlight(h) = InFlight(g) \o ItemsOf(f)

\* A frame is read, and what is to be written and gathered changes with it.
LEMMA FlowReads ==
  ASSUME NEW w \in Seq(Frames), NEW g \in Seq(Frames), NEW u \in Seq(Frames), u # <<>>,
         NEW p \in Seq(Frames), NEW h \in Seq(Frames),
         Becomes(g, Head(u), p, h)
  PROVE  AllOf(w, p, h, Tail(u)) = AllOf(w, <<>>, g, u)
<1> DEFINE A == InFlight(w)
           C == InFlight(g)
           D == InFlight(Tail(u))
           P == InFlight(p)
           H == InFlight(h)
           F == ItemsOf(Head(u))
<1>1. u = <<Head(u)>> \o Tail(u) /\ <<Head(u)>> \in Seq(Frames) /\ Tail(u) \in Seq(Frames) /\ Head(u) \in Frames
  BY HeadThenTail
<1>2. InFlight(u) = F \o D
  BY InFlightHead
<1>3. A \in Seq(AnItem) /\ C \in Seq(AnItem) /\ D \in Seq(AnItem) /\ P \in Seq(AnItem) /\ H \in Seq(AnItem)
      /\ F \in Seq(AnItem)
  BY <1>1, InFlightType, ItemsOfType
<1>4. A \o <<>> = A
  BY <1>3, ConcatEmptySeq
<1>5. AllOf(w, p, h, Tail(u)) = ((A \o P) \o H) \o D /\ AllOf(w, <<>>, g, u) = (A \o C) \o (F \o D)
  BY <1>2, <1>4, InFlightEmpty DEF AllOf
<1>6. P \o H = C \o F
  BY DEF Becomes
<1> HIDE DEF A, C, D, P, H, F
<1>7. A \o C \in Seq(AnItem)
  BY <1>3, ConcatProperties
<1>8. (A \o P) \o H = A \o (P \o H) /\ (A \o C) \o F = A \o (C \o F)
  <2>1. (A \o P) \o H = A \o (P \o H)
    <3>1. A \in Seq(AnItem) /\ P \in Seq(AnItem) /\ H \in Seq(AnItem)
      BY <1>3
    <3> QED  BY <3>1, ItemsAssociate, Zenon
  <2>2. (A \o C) \o F = A \o (C \o F)
    <3>1. A \in Seq(AnItem) /\ C \in Seq(AnItem) /\ F \in Seq(AnItem)
      BY <1>3
    <3> QED  BY <3>1, ItemsAssociate, Zenon
  <2> QED  BY <2>1, <2>2
<1>9. ((A \o C) \o F) \o D = (A \o C) \o (F \o D)
  <2>1. A \o C \in Seq(AnItem) /\ F \in Seq(AnItem) /\ D \in Seq(AnItem)
    BY <1>3, <1>7
  <2> QED  BY <2>1, ItemsAssociate, Zenon
<1> QED
  BY <1>5, <1>6, <1>8, <1>9

FlowOf(d) == AllOf(down[d], out[d], got[d], up[d])

LEMMA FlowTypes ==
  ASSUME TypeOK
  PROVE  /\ flow = [d \in Peers |-> FlowOf(d)]
         /\ \A d \in Peers : /\ down[d] \in Seq(Frames) /\ out[d] \in Seq(Frames)
                             /\ got[d] \in Seq(Frames) /\ up[d] \in Seq(Frames)
<1>1. \A d \in Peers : /\ down[d] \in Seq(Frames) /\ out[d] \in Seq(Frames)
                       /\ got[d] \in Seq(Frames) /\ up[d] \in Seq(Frames)
  BY DEF TypeOK
<1>2. \A d \in Peers : InFlight(down[d] \o out[d] \o got[d] \o up[d]) = FlowOf(d)
  BY <1>1, FlowIs DEF FlowOf
<1> QED
  BY <1>1, <1>2 DEF flow

LEMMA FlowStep ==
  ASSUME TypeOK, Shape, TypeOK', Effect
  PROVE  flow' = flow \/ Channel!Next
<1> DEFINE Now == [d \in Peers |-> FlowOf(d)]
           Then == [d \in Peers |-> AllOf(down'[d], out'[d], got'[d], up'[d])]
<1>1. flow = Now /\ flow' = Then
  <2>1. flow = Now
    BY FlowTypes
  <2>2. \A d \in Peers : /\ down'[d] \in Seq(Frames) /\ out'[d] \in Seq(Frames)
                         /\ got'[d] \in Seq(Frames) /\ up'[d] \in Seq(Frames)
    BY DEF TypeOK
  <2>3. \A d \in Peers : InFlight(down'[d] \o out'[d] \o got'[d] \o up'[d])
                           = AllOf(down'[d], out'[d], got'[d], up'[d])
    BY <2>2, FlowIs
  <2>4. flow' = Then
    BY <2>3 DEF flow
  <2> QED  BY <2>1, <2>4
<1>2. \A d \in Peers : /\ down[d] \in Seq(Frames) /\ out[d] \in Seq(Frames)
                       /\ got[d] \in Seq(Frames) /\ up[d] \in Seq(Frames)
                       /\ FlowOf(d) = AllOf(down[d], out[d], got[d], up[d])
  BY FlowTypes DEF FlowOf
<1>3. ASSUME \A d \in Peers : Then[d] = FlowOf(d)
      PROVE  flow' = flow
  BY <1>1, <1>3
<1>4. ASSUME NEW x \in Peers, NEW v, Then[x] = v,
             \A d \in Peers : d # x => Then[d] = FlowOf(d)
      PROVE  flow' = [flow EXCEPT ![x] = v]
  <2> HIDE DEF AllOf
  <2>1. Then = [Now EXCEPT ![x] = v]
    BY <1>4
  <2> QED  BY <1>1, <2>1
<1>5. ASSUME NEW x \in Peers, NEW f \in Frames, f.kind # "continuation" => Item(f) \in Items,
             up' = [up EXCEPT ![x] = Append(@, f)], UNCHANGED <<down, out, got>>
      PROVE  flow' = flow \/ Channel!Next
  <2>1. \A d \in Peers : up'[d] = (IF d = x THEN Append(up[d], f) ELSE up[d])
    BY <1>5 DEF TypeOK
  <2>2. \A d \in Peers : d # x => Then[d] = FlowOf(d)
    BY <1>2, <1>5, <2>1
  <2>3. Then[x] = IF f.kind = "continuation" THEN FlowOf(x) ELSE Append(FlowOf(x), Item(f))
    <3>1. Then[x] = AllOf(down[x], out[x], got[x], Append(up[x], f))
      BY <1>5, <2>1
    <3> HIDE DEF Then
    <3>2. /\ down[x] \in Seq(Frames) /\ out[x] \in Seq(Frames) /\ got[x] \in Seq(Frames)
          /\ up[x] \in Seq(Frames) /\ FlowOf(x) = AllOf(down[x], out[x], got[x], up[x])
      BY <1>2
    <3>3. AllOf(down[x], out[x], got[x], Append(up[x], f)) = With(AllOf(down[x], out[x], got[x], up[x]), f)
      BY <3>2, FlowSends, SMT
    <3> QED  BY <3>1, <3>2, <3>3, Zenon DEF With
  <2> HIDE DEF Then
  <2>4. CASE f.kind = "continuation"
    <3>1. \A d \in Peers : Then[d] = FlowOf(d)
      BY <2>2, <2>3, <2>4
    <3> QED  BY <1>3, <3>1
  <2>5. CASE f.kind # "continuation"
    <3>1. Then[x] = Append(FlowOf(x), Item(f))
      BY <2>3, <2>5
    <3>2. flow' = [flow EXCEPT ![x] = Append(FlowOf(x), Item(f))]
      BY <1>4, <2>2, <3>1
    <3>3. flow[x] = FlowOf(x)
      BY <1>1
    <3>4. Channel!Send(x, Item(f))
      BY <3>2, <3>3 DEF Channel!Send
    <3> QED  BY <1>5, <2>5, <3>4 DEF Channel!Next
  <2> QED  BY <2>4, <2>5
<1>6. ASSUME NEW x \in Peers, Sends(x) PROVE flow' = flow \/ Channel!Next
  <2>1. PICK f \in Frames :
          /\ f.kind # "continuation" => Item(f) \in Items
          /\ up' = [up EXCEPT ![x] = Append(@, f)]
    BY <1>6 DEF Sends
  <2>2. UNCHANGED <<down, out, got>>
    BY <1>6 DEF Sends, bridgeVars
  <2> QED  BY <1>5, <2>1, <2>2
<1>7. ASSUME NEW x \in Peers, Acks(x) PROVE flow' = flow \/ Channel!Next
  <2>1. Ack \in Frames /\ Item(Ack) \in Items
    BY FrameIsFrame, ItemsSent DEF Ack, Kinds
  <2>2. up' = [up EXCEPT ![x] = Append(@, Ack)] /\ UNCHANGED <<down, out, got>>
    BY <1>7 DEF Acks, bridgeVars
  <2> QED  BY <1>5, <2>1, <2>2
<1>8. ASSUME NEW e \in Peers, Receive(e) PROVE flow' = flow \/ Channel!Next
  <2>1. PICK x \in Peers : x = Peer(e)
    BY TwoPeers
  <2>2. down[x] # <<>> /\ down' = [down EXCEPT ![x] = Tail(@)] /\ UNCHANGED <<out, got, up>>
    BY <1>8, <2>1 DEF Receive, bridgeVars
  <2>3. \A d \in Peers : down'[d] = (IF d = x THEN Tail(down[d]) ELSE down[d])
    BY <2>2 DEF TypeOK
  <2>4. \A d \in Peers : d # x => Then[d] = FlowOf(d)
    BY <1>2, <2>2, <2>3
  <2>5. Then[x] = FlowOf(x) \/ (FlowOf(x) # <<>> /\ Then[x] = Tail(FlowOf(x)))
    <3>1. Then[x] = AllOf(Tail(down[x]), out[x], got[x], up[x])
      BY <2>2, <2>3
    <3> HIDE DEF Then
    <3>2. Drops(AllOf(down[x], out[x], got[x], up[x]), AllOf(Tail(down[x]), out[x], got[x], up[x]))
      BY <1>2, <2>2, FlowReceives
    <3> QED  BY <1>2, <3>1, <3>2, Zenon DEF Drops
  <2> HIDE DEF Then
  <2>6. CASE Then[x] = FlowOf(x)
    <3>1. \A d \in Peers : Then[d] = FlowOf(d)
      BY <2>4, <2>6
    <3> QED  BY <1>3, <3>1
  <2>7. CASE FlowOf(x) # <<>> /\ Then[x] = Tail(FlowOf(x))
    <3>1. flow' = [flow EXCEPT ![x] = Tail(FlowOf(x))]
      BY <1>4, <2>4, <2>7
    <3>2. flow[x] = FlowOf(x)
      BY <1>1
    <3>3. Channel!Deliver(x)
      BY <2>7, <3>1, <3>2 DEF Channel!Deliver
    <3> QED  BY <3>3 DEF Channel!Next
  <2> QED  BY <2>5, <2>6, <2>7
<1>9. ASSUME NEW x \in Peers, Write(x) PROVE flow' = flow
  <2>1. /\ out[x] # <<>> /\ down' = [down EXCEPT ![x] = Append(@, Head(out[x]))]
        /\ out' = [out EXCEPT ![x] = Tail(@)] /\ UNCHANGED <<up, got>>
    BY <1>9 DEF Write, Shape, ShapeOf
  <2>2. \A d \in Peers : /\ down'[d] = (IF d = x THEN Append(down[d], Head(out[d])) ELSE down[d])
                         /\ out'[d] = (IF d = x THEN Tail(out[d]) ELSE out[d])
    BY <2>1 DEF TypeOK
  <2>3. AllOf(Append(down[x], Head(out[x])), Tail(out[x]), got[x], up[x]) = FlowOf(x)
    BY <1>2, <2>1, FlowWrites
  <2>4. \A d \in Peers : Then[d] = FlowOf(d)
    BY <1>2, <2>1, <2>2, <2>3
  <2> QED  BY <1>3, <2>4
<1>10. ASSUME NEW x \in Peers, up[x] # <<>>, out[x] = <<>>, up' = [up EXCEPT ![x] = Tail(@)],
              down' = down,
              NEW p \in Seq(Frames), out' = [out EXCEPT ![x] = p],
              NEW h \in Seq(Frames), got' = [got EXCEPT ![x] = h],
              InFlight(p) \o InFlight(h) = InFlight(got[x]) \o ItemsOf(Head(up[x]))
       PROVE  flow' = flow
  <2>1. \A d \in Peers : /\ up'[d] = (IF d = x THEN Tail(up[d]) ELSE up[d])
                         /\ out'[d] = (IF d = x THEN p ELSE out[d])
                         /\ got'[d] = (IF d = x THEN h ELSE got[d])
    BY <1>10 DEF TypeOK
  <2>2. AllOf(down[x], p, h, Tail(up[x])) = FlowOf(x)
    <3>1. AllOf(down[x], p, h, Tail(up[x])) = AllOf(down[x], <<>>, got[x], up[x])
      <4>1. down[x] \in Seq(Frames) /\ got[x] \in Seq(Frames) /\ up[x] \in Seq(Frames)
        BY <1>2
      <4>2. Becomes(got[x], Head(up[x]), p, h) /\ up[x] # <<>>
        BY <1>10 DEF Becomes
      <4> QED  BY <4>1, <4>2, FlowReads, SMT
    <3> QED  BY <1>2, <1>10, <3>1
  <2>3. \A d \in Peers : Then[d] = FlowOf(d)
    BY <1>2, <1>10, <2>1, <2>2
  <2> QED  BY <1>3, <2>3
<1>11. ASSUME NEW x \in Peers, Passes(x) PROVE flow' = flow
  <2> DEFINE f == Head(up[x])
  <2>1. /\ up[x] # <<>> /\ out[x] = <<>> /\ got[x] = <<>> /\ up' = [up EXCEPT ![x] = Tail(@)]
        /\ out' = [out EXCEPT ![x] = <<f>>] /\ got' = got /\ down' = down
    BY <1>11 DEF Passes, Forward
  <2>2. f \in Frames /\ <<f>> \in Seq(Frames) /\ <<>> \in Seq(Frames)
    BY <2>1, HeadOf, OneKeeps
  <2>3. got' = [got EXCEPT ![x] = <<>>]
    BY <2>1 DEF TypeOK
  <2>4. InFlight(<<f>>) \o InFlight(<<>>) = InFlight(got[x]) \o ItemsOf(f)
    <3>1. InFlight(<<f>>) = ItemsOf(f) /\ InFlight(<<>>) = <<>> /\ ItemsOf(f) \in Seq(AnItem)
      BY <2>2, InFlightOne, InFlightEmpty, ItemsOfType
    <3>2. ItemsOf(f) \o <<>> = ItemsOf(f) /\ <<>> \o ItemsOf(f) = ItemsOf(f)
      BY <3>1, ConcatEmptySeq
    <3> QED  BY <2>1, <3>1, <3>2
  <2> HIDE DEF f
  <2>5. InFlight(<<f>>) \o InFlight(<<>>) = InFlight(got[x]) \o ItemsOf(Head(up[x]))
    BY <2>4 DEF f
  <2> QED  BY <1>10, <2>1, <2>2, <2>3, <2>5
<1>12. ASSUME NEW x \in Peers, Belongs(x)
       PROVE  /\ up[x] # <<>> /\ out[x] = <<>> /\ Block(x) \in Seq(Frames)
              /\ InFlight(Block(x)) = InFlight(got[x]) \o ItemsOf(Head(up[x]))
              /\ InFlight(Block(x)) = <<Item(Block(x)[1])>>
              /\ InFlight(Block(x)) \in Seq(AnItem)
  <2>1. up[x] # <<>> /\ out[x] = <<>>
    BY <1>12 DEF Belongs
  <2>2. Block(x) \in Seq(Frames) /\ Block(x) # <<>> /\ Gathered(Block(x))
    BY <1>12, BlockIs
  <2>3. Head(up[x]) \in Frames
    BY <2>1, HeadOf
  <2>4. Block(x) = got[x] \o <<Head(up[x])>> /\ <<Head(up[x])>> \in Seq(Frames)
    BY <1>2, <2>3, AppendIsConcat, OneKeeps DEF Block
  <2>5. InFlight(Block(x)) = InFlight(got[x]) \o ItemsOf(Head(up[x]))
    BY <1>2, <2>3, InFlightAppend DEF Block
  <2> QED  BY <2>1, <2>2, <2>5, InFlightBlock, InFlightType
<1>13. ASSUME NEW x \in Peers, Gathers(x) PROVE flow' = flow
  <2>1. /\ up' = [up EXCEPT ![x] = Tail(@)] /\ got' = [got EXCEPT ![x] = Block(x)]
        /\ out' = out /\ down' = down /\ Belongs(x)
    BY <1>13 DEF Gathers, More
  <2>2. /\ up[x] # <<>> /\ out[x] = <<>> /\ Block(x) \in Seq(Frames) /\ <<>> \in Seq(Frames)
        /\ InFlight(Block(x)) = InFlight(got[x]) \o ItemsOf(Head(up[x]))
        /\ InFlight(Block(x)) \in Seq(AnItem)
    BY <1>12, <2>1, OneKeeps
  <2>3. out' = [out EXCEPT ![x] = <<>>]
    BY <2>1, <2>2 DEF TypeOK
  <2>4. InFlight(<<>>) \o InFlight(Block(x)) = InFlight(got[x]) \o ItemsOf(Head(up[x]))
    BY <2>2, InFlightEmpty, ConcatEmptySeq
  <2> QED  BY <1>10, <2>1, <2>2, <2>3, <2>4
<1>14. ASSUME NEW x \in Peers, PassesBlock(x) PROVE flow' = flow
  <2>1. PICK n \in Nat : Forward(x, Reframe(Block(x), n, limits[x].frame))
    BY <1>14 DEF PassesBlock
  <2> DEFINE r == Reframe(Block(x), n, limits[x].frame)
  <2>2. /\ up' = [up EXCEPT ![x] = Tail(@)] /\ out' = [out EXCEPT ![x] = r]
        /\ got' = [got EXCEPT ![x] = <<>>] /\ down' = down /\ Belongs(x) /\ InLimits(x)
    BY <1>14, <2>1 DEF PassesBlock, Forward
  <2>3. r \in Seq(Frames) /\ r # <<>> /\ Gathered(r) /\ SameBut(r[1], Block(x)[1])
    BY <2>2, PassedIs
  <2> HIDE DEF r
  <2>4. InFlight(r) = InFlight(Block(x))
    <3>1. InFlight(r) = <<Item(r[1])>>
      BY <2>3, InFlightBlock
    <3>2. Item(r[1]) = Item(Block(x)[1])
      BY <2>3 DEF SameBut, Item
    <3>3. InFlight(Block(x)) = <<Item(Block(x)[1])>>
      BY <1>12, <2>2
    <3> QED  BY <3>1, <3>2, <3>3
  <2>5. InFlight(r) \o InFlight(<<>>) = InFlight(got[x]) \o ItemsOf(Head(up[x]))
    <3>1. /\ InFlight(Block(x)) = InFlight(got[x]) \o ItemsOf(Head(up[x]))
          /\ InFlight(Block(x)) \in Seq(AnItem)
      BY <1>12, <2>2
    <3>2. InFlight(Block(x)) \o <<>> = InFlight(Block(x))
      BY <3>1, ConcatEmptySeq
    <3> QED  BY <2>4, <3>1, <3>2, InFlightEmpty
  <2>6. up[x] # <<>> /\ out[x] = <<>> /\ <<>> \in Seq(Frames)
    BY <1>12, <2>2, OneKeeps
  <2> QED  BY <1>10, <2>2, <2>3, <2>5, <2>6
<1>15. ASSUME Idles \/ \E x \in Peers : Refuses(x) PROVE flow' = flow
  <2>1. UNCHANGED <<down, out, got, up>>
    BY <1>15 DEF Idles, Refuses, Fail, wireVars
  <2> QED  BY <2>1 DEF flow
<1> HIDE DEF Now, Then
<1> QED
  BY <1>6, <1>7, <1>8, <1>9, <1>11, <1>13, <1>14, <1>15, Zenon DEF Effect

LEMMA FlowInit == Init => Channel!Init
<1> SUFFICES ASSUME Init PROVE Channel!Init
  OBVIOUS
<1>1. PICK first \in {Preface, Other(0, 0)} :
        up = [d \in Peers |-> IF d = "client" THEN <<first>> ELSE <<>>]
  BY DEF Init
<1>2. first \in Frames /\ Item(first) \in Items /\ ItemsOf(first) = <<Item(first)>>
  <2>1. Preface \in Frames /\ Preface.kind # "continuation"
    BY FrameIsFrame DEF Preface, Kinds, Frame
  <2>2. Other(0, 0) \in Frames /\ Other(0, 0).kind # "continuation"
    BY OtherIsFrame DEF Other, Frame
  <2>3. first \in Frames /\ first.kind # "continuation"
    BY <2>1, <2>2
  <2> QED  BY <2>3, ItemsSent DEF ItemsOf
<1>3. ASSUME NEW d \in Peers
      PROVE  InFlight(down[d] \o out[d] \o got[d] \o up[d]) \in {<<>>} \cup {<<x>> : x \in Items}
  <2>1. down[d] = <<>> /\ out[d] = <<>> /\ got[d] = <<>> /\ up[d] \in {<<>>, <<first>>}
    BY <1>1 DEF Init
  <2>2. <<first>> \in Seq(Frames) /\ <<>> \in Seq(Frames)
    BY <1>2, OneKeeps
  <2>3. up[d] \in Seq(Frames)
    BY <2>1, <2>2
  <2>4. ((<<>> \o <<>>) \o <<>>) \o up[d] = up[d]
    BY <2>2, <2>3, ConcatEmptySeq
  <2>5. InFlight(up[d]) \in {<<>>, <<Item(first)>>}
    BY <1>2, <2>1, InFlightEmpty, InFlightOne
  <2> QED  BY <1>2, <2>1, <2>4, <2>5
<1> QED
  BY <1>3 DEF Channel!Init, flow

\* KeepsOrder: the bridge implements two FIFO channels of frames, whatever is
\* split, gathered, rewritten or refused: none is lost, repeated or overtaken.
THEOREM OrderIsKept == Spec => KeepsOrder
<1>1. Init => TypeOK /\ Shape
  BY InitTyped
<1>2. ASSUME TypeOK /\ Shape, [Next]_vars
      PROVE  (TypeOK /\ Shape)' /\ [Channel!Next]_flow
  <2>1. Effect
    BY <1>2, Effects
  <2>2. TypeOK' /\ Shape'
    BY <1>2, <2>1, TypedSends, TypedAcks, TypedReceive, TypedPasses, TypedGathers,
       TypedPassesBlock, TypedWrite, TypedRefuses, TypedIdles DEF Effect
  <2>3. flow' = flow \/ Channel!Next
    BY <1>2, <2>1, <2>2, FlowStep
  <2> QED  BY <2>2, <2>3
<1> QED
  BY <1>1, <1>2, FlowInit, PTL DEF Spec, KeepsOrder, Channel!Spec
=============================================================================
