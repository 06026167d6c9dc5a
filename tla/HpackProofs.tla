---------------------------- MODULE HpackProofs ----------------------------
(***************************************************************************)
(* For any headers, mapping, sizes and limits: the rewriter knows the      *)
(* receiver's dynamic table, so the receiver reads every header as mapped, *)
(* in the representation the sender chose.  What a table counts as its     *)
(* size is that of its entries, and within its limit.                      *)
(*                                                                         *)
(* And for any strings and codes, and any browser: what rewrite() puts in  *)
(* a string is read as it was meant; a redirect that value() maps comes    *)
(* back to its origin, and a cookie of the origin is one of the bridge, as *)
(* lines or as HPACK octets; and whatever else is sent arrives as it is.   *)
(***************************************************************************)
EXTENDS Hpack, HeaderField, Induction, SequenceTheorems, TLAPS

\* A table, as far as find() looks at it.
Table(t) == {"entries", "size", "limit"} \subseteq DOMAIN t /\ t.entries \in Seq(Headers)

Inv == Table(outbound) /\ TablesAgree /\ HeadersMapped /\ RepresentationKept

LEMMA KeptRange ==
  ASSUME NEW t, NEW limit, t.entries \in Seq(Headers)
  PROVE  Kept(t, limit) \in 0..Len(t.entries)
  <1>1. 0 \in 0..Len(t.entries)
    BY LenProperties
  <1>2. Fits(t, limit) \subseteq 0..Len(t.entries)
    BY DEF Fits
  <1> QED  BY <1>1, <1>2 DEF Kept

\* What find() returns stands for a header that was asked for.
LEMMA FindFinds ==
  ASSUME NEW t, NEW p, NEW S, Find(t, p, S) # 0
  PROVE  Find(t, p, S) \in DOMAIN All(t) /\ All(t)[Find(t, p, S)] \in S
  <1>1. CASE p \in DOMAIN All(t) /\ All(t)[p] \in S
    BY <1>1 DEF Find
  <1>2. CASE ~(p \in DOMAIN All(t) /\ All(t)[p] \in S)
    <2>1. First(t, S) # {} /\ Find(t, p, S) = CHOOSE i \in First(t, S) : TRUE
      BY <1>2 DEF Find
    <2>2. Find(t, p, S) \in First(t, S)
      BY <2>1
    <2> QED  BY <2>2 DEF First
  <1> QED  BY <1>1, <1>2

LEMMA EvictTable == ASSUME NEW t, Table(t) PROVE Table(Evict(t))
  <1>1. Kept(t, t.limit) \in 0..Len(t.entries) /\ Len(t.entries) \in Nat
    BY KeptRange, LenProperties DEF Table
  <1>2. \A i \in 1..Kept(t, t.limit) : t.entries[i] \in Headers
    BY <1>1, ElementOfSeq DEF Table
  <1>3. SubSeq(t.entries, 1, Kept(t, t.limit)) \in Seq(Headers)
    BY <1>1, <1>2, SubSeqProperties
  <1> QED  BY <1>3 DEF Table, Evict

LEMMA InsertTable ==
  ASSUME NEW t, Table(t), NEW h \in Headers
  PROVE  Table(Insert(t, h))
  <1>1. <<h>> \o t.entries \in Seq(Headers)
    BY ConcatProperties DEF Table
  <1>2. Table([t EXCEPT !.entries = <<h>> \o t.entries, !.size = t.size + SizeOf[h]])
    BY <1>1 DEF Table
  <1> QED  BY <1>2, EvictTable DEF Insert

LEMMA ResizeTable == ASSUME NEW t, Table(t), NEW n PROVE Table(Resize(t, n))
  <1>1. Table([t EXCEPT !.limit = n])
    BY DEF Table
  <1> QED  BY <1>1, EvictTable DEF Resize

LEMMA InitInv == Init => Inv
  <1> SUFFICES ASSUME Init PROVE Inv
    OBVIOUS
  <1>1. Table(outbound)
    BY EmptySeq DEF Init, NewTable, Table
  <1>2. TablesAgree /\ HeadersMapped /\ RepresentationKept
    BY DEF Init, TablesAgree, HeadersMapped, RepresentationKept, NoField, Indexed
  <1> QED  BY <1>1, <1>2 DEF Inv

LEMMA UpdateInv == ASSUME Inv, NEW n \in Limits, Update(n) PROVE Inv'
  <1>1. Table(outbound)' /\ TablesAgree'
    BY ResizeTable DEF Inv, Update, TablesAgree
  <1>2. HeadersMapped' /\ RepresentationKept'
    BY DEF Inv, Update, HeadersMapped, RepresentationKept
  <1> QED  BY <1>1, <1>2 DEF Inv

LEMMA InstructionFields ==
  /\ \A i : /\ Indexed(i).kind = "indexed" /\ Indexed(i).index = i
            /\ Indexed(i).mode = "plain"
  /\ \A i, n, v, mode : Literal(i, n, v, mode).kind = "literal"
  BY DEF Indexed, Literal

\* The instruction that rewrite() writes for x stands, at the receiver, for m.
LEMMA RewritingStands ==
  ASSUME Inv, NEW x \in Instructions, NEW h \in Headers, NEW m \in Headers,
         m.name = h.name
  PROVE  /\ Stands(outbound, Rewriting(x, h, m))
         /\ Reading(outbound, Rewriting(x, h, m)) = m
         /\ Rewriting(x, h, m).mode = x.mode
         /\ x.kind = "literal" => Rewriting(x, h, m).kind = "literal"
  <1> DEFINE y == Rewriting(x, h, m)
  <1>1. All(outbound) \in Seq(Headers)
    BY HpackAssumption, ConcatProperties DEF All, Inv, Table
  <1>2. 0 \notin DOMAIN All(outbound)
    BY <1>1, LenProperties
  <1>3. m = [name |-> m.name, value |-> m.value]
    BY HpackAssumption
  <1>4. \/ x.kind = "indexed" /\ x.mode = "plain"
        \/ x.kind = "literal"
    <2>1. CASE \E i \in Indices : x = Indexed(i)
      BY <2>1, InstructionFields
    <2>2. CASE \E i \in Indices, g \in Offered, mode \in Modes :
                 x = Literal(i, g.name, g.value, mode)
      BY <2>2, InstructionFields
    <2> QED  BY <2>1, <2>2 DEF Instructions
  <1>5. ASSUME NEW i, NEW n, NEW mode, i = 0 \/ i \in DOMAIN All(outbound),
               i = 0 => n = m.name, i # 0 => All(outbound)[i] \in Named(m.name)
        PROVE  /\ Stands(outbound, Literal(i, n, m.value, mode))
               /\ Reading(outbound, Literal(i, n, m.value, mode)) = m
               /\ Literal(i, n, m.value, mode).mode = mode
               /\ Literal(i, n, m.value, mode).kind = "literal"
    BY <1>2, <1>3, <1>5 DEF Literal, Stands, Reading, Named
  <1>6. CASE x.kind = "indexed"
    <2>1. CASE Find(outbound, x.index, {m}) # 0
      <3> DEFINE i == Find(outbound, x.index, {m})
      <3>1. y = Indexed(i)
        BY <1>6, <2>1 DEF Rewriting
      <3>2. i \in DOMAIN All(outbound) /\ All(outbound)[i] = m
        BY <2>1, FindFinds
      <3> HIDE DEF i
      <3>3. y.kind = "indexed" /\ y.index = i /\ y.mode = "plain"
        BY <3>1, InstructionFields
      <3> HIDE DEF y
      <3>4. Stands(outbound, y) /\ Reading(outbound, y) = m
        BY <3>2, <3>3 DEF Stands, Reading
      <3>5. x.mode = "plain" /\ x.kind # "literal"
        BY <1>4, <1>6
      <3> QED  BY <3>3, <3>4, <3>5 DEF y
    <2>2. CASE Find(outbound, x.index, {m}) = 0
      <3> DEFINE i == Find(outbound, 0, Named(h.name))
      <3>1. y = Literal(i, h.name, m.value, "plain")
        BY <1>6, <2>2 DEF Rewriting
      <3>2. i = 0 \/ (i \in DOMAIN All(outbound) /\ All(outbound)[i] \in Named(h.name))
        BY FindFinds
      <3> HIDE DEF i
      <3> QED  BY <1>4, <1>5, <1>6, <3>1, <3>2
    <2> QED  BY <2>1, <2>2
  <1>7. CASE x.kind = "literal"
    <2> DEFINE i == IF x.index = 0 THEN 0 ELSE Find(outbound, x.index, Named(h.name))
    <2>1. y = Literal(i, h.name, m.value, x.mode)
      BY <1>7 DEF Rewriting
    <2>2. i = 0 \/ (i \in DOMAIN All(outbound) /\ All(outbound)[i] \in Named(h.name))
      BY FindFinds
    <2> HIDE DEF i
    <2> QED  BY <1>5, <1>7, <2>1, <2>2
  <1> QED  BY <1>4, <1>6, <1>7

LEMMA FieldInv == ASSUME Inv, NEW x \in Instructions, Field(x) PROVE Inv'
  <1> DEFINE h == Reading(inbound, x)
             m == MapOf[h]
             y == Rewriting(x, h, m)
  <1>1. /\ FieldOk(h, m)
        /\ outbound' = IF x.mode = "incremental" THEN Insert(outbound, m) ELSE outbound
        /\ read' = [instr |-> x, header |-> h]
        /\ receiver' = TableAfter(receiver, y)
        /\ written' = [instr |-> y, header |-> Reading(receiver, y)]
    BY DEF Field
  <1>2. h \in Headers /\ m \in Headers /\ m.name = h.name
    BY <1>1, HpackAssumption DEF FieldOk
  <1>3. receiver = outbound /\ Table(outbound)
    BY DEF Inv, TablesAgree
  <1> HIDE DEF h, m
  <1>4. /\ Stands(outbound, y) /\ Reading(outbound, y) = m /\ y.mode = x.mode
        /\ x.kind = "literal" => y.kind = "literal"
    BY <1>2, RewritingStands
  <1> HIDE DEF y
  <1>5. Table(outbound')
    BY <1>1, <1>2, <1>3, InsertTable
  <1>6. TablesAgree'
    BY <1>1, <1>3, <1>4 DEF TablesAgree, TableAfter
  <1>7. HeadersMapped'
    BY <1>1, <1>3, <1>4 DEF HeadersMapped, m
  <1>8. RepresentationKept'
    BY <1>1, <1>4 DEF RepresentationKept
  <1> QED  BY <1>5, <1>6, <1>7, <1>8 DEF Inv

\* Rejections and block ends leave tables and fields alone.
LEMMA IdleInv ==
  ASSUME Inv, UNCHANGED <<outbound, receiver, read, written>>
  PROVE  Inv'
  BY DEF Inv, Table, TablesAgree, HeadersMapped, RepresentationKept

LEMMA StepInv == Inv /\ [Next]_vars => Inv'
  <1> SUFFICES ASSUME Inv, [Next]_vars PROVE Inv'
    OBVIOUS
  <1>1. CASE \E n \in Limits : Update(n)
    BY <1>1, UpdateInv
  <1>2. CASE \E x \in Instructions : Field(x)
    BY <1>2, FieldInv
  <1>3. CASE \/ \E n \in Limits : UpdateRejected(n)
             \/ \E x \in Instructions : FieldRejected(x)
             \/ EndBlock \/ BlockRejected \/ Rejected \/ UNCHANGED vars
    BY <1>3, IdleInv DEF UpdateRejected, FieldRejected, BlockRejected, Reject,
       EndBlock, Rejected, vars
  <1> QED  BY <1>1, <1>2, <1>3 DEF Next

LEMMA Invariance == Spec => []Inv
  BY InitInv, StepInv, PTL DEF Spec

-----------------------------------------------------------------------------
(***************************************************************************)
(* Sizes: evict() subtracts from a counter what the entries it pops had    *)
(* added to it, one by one.                                                *)
(***************************************************************************)

\* f counts the sizes of the first entries of s.
Counts(s, f) ==
  /\ f \in [0..Len(s) -> Nat] /\ f[0] = 0
  /\ \A k \in 1..Len(s) : f[k] = f[k - 1] + SizeOf[s[k]]

LEMMA SizesCount == ASSUME NEW s \in Seq(Headers) PROVE Counts(s, Sizes(s))
  <1> DEFINE N == Len(s)
             step == [i \in 1..N |-> [x \in Nat |-> x + SizeOf[s[i]]]]
             sum == CHOOSE g : g = [k \in 0..N |-> IF k = 0 THEN 0 ELSE g[k - 1] + SizeOf[s[k]]]
  <1>1. N \in Nat /\ \A i \in 1..N : SizeOf[s[i]] \in Nat
    <2>1. N \in Nat /\ \A i \in 1..N : s[i] \in Headers
      BY LenProperties, ElementOfSeq
    <2> QED  BY <2>1, HpackAssumption
  <1>2. Sizes(s) = sum
    BY DEF Sizes
  <1> HIDE DEF N
  <1>3. step \in [1..N -> [Nat -> Nat]]
    BY <1>1
  <1> HIDE DEF step
  <1>4. PICK g \in [0..N -> Nat] : Recurs(g, N, 0, step)
    <2>1. 0 \in Nat
      OBVIOUS
    <2> QED  BY <1>1, <1>3, <2>1, RecursionUpTo
  <1>5. g[0] = 0 /\ \A k \in 1..N : g[k] = g[k - 1] + SizeOf[s[k]]
    <2>1. ASSUME NEW k \in 1..N PROVE g[k] = g[k - 1] + SizeOf[s[k]]
      <3>1. k - 1 \in 0..N
        BY <1>1
      <3> QED  BY <1>4, <3>1 DEF step, Recurs
    <2> QED  BY <1>4, <2>1 DEF Recurs
  <1>6. g = [k \in 0..N |-> IF k = 0 THEN 0 ELSE g[k - 1] + SizeOf[s[k]]]
    <2>1. ASSUME NEW k \in 0..N
          PROVE  g[k] = IF k = 0 THEN 0 ELSE g[k - 1] + SizeOf[s[k]]
      <3>1. k = 0 \/ k \in 1..N
        BY <1>1
      <3> QED  BY <1>5, <3>1
    <2>2. g = [k \in 0..N |-> g[k]]
      BY <1>4
    <2> QED  BY <2>1, <2>2, Zenon
  <1>7. sum = [k \in 0..N |-> IF k = 0 THEN 0 ELSE sum[k - 1] + SizeOf[s[k]]]
    BY <1>6
  <1> HIDE DEF sum
  <1> DEFINE S == {k \in Nat : sum[k] = g[k]}
  <1>8. 0 \in S
    <2>1. 0 \in 0..N
      BY <1>1
    <2> QED  BY <1>5, <1>7, <2>1
  <1>9. ASSUME NEW k \in 0..(N - 1), k \in S PROVE k + 1 \in S
    <2>1. k + 1 \in 1..N /\ k + 1 \in 0..N /\ k + 1 # 0 /\ (k + 1) - 1 = k /\ k + 1 \in Nat
      BY <1>1
    <2>2. sum[k + 1] = sum[k] + SizeOf[s[k + 1]]
      BY <1>7, <2>1
    <2>3. g[k + 1] = g[k] + SizeOf[s[k + 1]]
      BY <1>5, <2>1
    <2> QED  BY <1>9, <2>1, <2>2, <2>3
  <1> HIDE DEF S
  <1>10. 0..N \subseteq S
    BY <1>1, <1>8, <1>9, InductionUpTo
  <1>11. sum = g
    <2>1. \A k \in 0..N : sum[k] = g[k]
      BY <1>10 DEF S
    <2>2. sum = [k \in 0..N |-> sum[k]] /\ g = [k \in 0..N |-> g[k]]
      BY <1>4, <1>7
    <2> QED  BY <2>1, <2>2, Zenon
  <1> QED  BY <1>2, <1>4, <1>5, <1>11 DEF Counts, N

\* The first entries of two tables count the same if they are the same.
LEMMA CountsAgree ==
  ASSUME NEW s \in Seq(Headers), NEW r \in Seq(Headers), NEW f, NEW g, Counts(s, f), Counts(r, g),
         NEW n \in Nat, n <= Len(s), n <= Len(r), \A k \in 1..n : s[k] = r[k]
  PROVE  f[n] = g[n]
  <1> DEFINE S == {k \in Nat : f[k] = g[k]}
  <1>1. Len(s) \in Nat /\ Len(r) \in Nat
    BY LenProperties
  <1>2. 0 \in S
    BY DEF Counts
  <1>3. ASSUME NEW k \in 0..(n - 1), k \in S PROVE k + 1 \in S
    <2>1. /\ k + 1 \in 1..n /\ k + 1 \in 1..Len(s) /\ k + 1 \in 1..Len(r) /\ (k + 1) - 1 = k
          /\ k + 1 \in Nat
      BY <1>1
    <2>2. f[k + 1] = f[k] + SizeOf[s[k + 1]] /\ g[k + 1] = g[k] + SizeOf[r[k + 1]]
      BY <2>1 DEF Counts
    <2>3. f[k] = g[k] /\ s[k + 1] = r[k + 1]
      BY <1>3, <2>1
    <2> QED  BY <2>1, <2>2, <2>3
  <1> HIDE DEF S
  <1>4. 0..n \subseteq S
    BY <1>2, <1>3, InductionUpTo
  <1> QED  BY <1>4 DEF S

\* A new entry adds its size to all counts.
LEMMA CountsAfter ==
  ASSUME NEW s \in Seq(Headers), NEW h \in Headers, NEW f, NEW g,
         Counts(s, f), Counts(<<h>> \o s, g)
  PROVE  /\ <<h>> \o s \in Seq(Headers) /\ Len(<<h>> \o s) = Len(s) + 1
         /\ g[Len(s) + 1] = f[Len(s)] + SizeOf[h]
  <1> DEFINE r == <<h>> \o s
             N == Len(s)
             S == {k \in Nat : g[k + 1] = f[k] + SizeOf[h]}
  <1>1. N \in Nat /\ SizeOf[h] \in Nat
    BY LenProperties, HpackAssumption
  <1>2. r \in Seq(Headers) /\ Len(r) = N + 1 /\ r[1] = h /\ \A k \in 1..N : r[k + 1] = s[k]
    <2>1. <<h>> \in Seq(Headers) /\ Len(<<h>>) = 1 /\ <<h>>[1] = h
      OBVIOUS
    <2> DEFINE o == <<h>>
    <2> HIDE DEF o
    <2>2. /\ o \o s \in Seq(Headers) /\ Len(o \o s) = Len(o) + Len(s)
          /\ \A i \in 1..Len(o) + Len(s) : (o \o s)[i] = IF i <= Len(o) THEN o[i] ELSE s[i - Len(o)]
      BY <2>1, ConcatProperties DEF o
    <2>3. r = o \o s /\ Len(o) = 1 /\ o[1] = h
      BY <2>1 DEF o
    <2> HIDE DEF r
    <2>4. r \in Seq(Headers) /\ Len(r) = N + 1
          /\ \A i \in 1..N + 1 : r[i] = IF i <= 1 THEN h ELSE s[i - 1]
      BY <1>1, <2>2, <2>3
    <2>5. ASSUME NEW k \in 1..N PROVE r[k + 1] = s[k]
      <3>1. k + 1 \in 1..N + 1 /\ ~(k + 1 <= 1) /\ (k + 1) - 1 = k
        BY <1>1
      <3> QED  BY <2>4, <3>1
    <2>6. r[1] = h
      BY <1>1, <2>4
    <2> QED  BY <2>4, <2>5, <2>6
  <1> HIDE DEF r, N
  <1>3. /\ f \in [0..N -> Nat] /\ f[0] = 0 /\ \A k \in 1..N : f[k] = f[k - 1] + SizeOf[s[k]]
        /\ g[0] = 0 /\ \A k \in 1..N + 1 : g[k] = g[k - 1] + SizeOf[r[k]]
    BY <1>2 DEF Counts, N, r
  <1>4. 0 \in S
    <2>1. 1 \in 1..N + 1
      BY <1>1
    <2>2. g[1] = g[1 - 1] + SizeOf[r[1]]
      BY <1>3, <2>1
    <2> QED  BY <1>1, <1>2, <1>3, <2>2
  <1>5. ASSUME NEW k \in 0..(N - 1), k \in S PROVE k + 1 \in S
    <2>1. /\ k + 1 \in 1..N /\ (k + 1) - 1 = k /\ k + 1 \in Nat /\ k \in 0..N
          /\ (k + 1) + 1 \in 1..N + 1 /\ ((k + 1) + 1) - 1 = k + 1
      BY <1>1
    <2>2. g[(k + 1) + 1] = g[k + 1] + SizeOf[s[k + 1]]
      BY <1>2, <1>3, <2>1
    <2>3. f[k + 1] = f[k] + SizeOf[s[k + 1]]
      BY <1>3, <2>1
    <2>4. SizeOf[s[k + 1]] \in Nat
      BY <2>1, ElementOfSeq, HpackAssumption DEF N
    <2>5. f[k] \in Nat /\ g[k + 1] = f[k] + SizeOf[h]
      BY <1>3, <1>5, <2>1
    <2> QED  BY <1>1, <2>1, <2>2, <2>3, <2>4, <2>5
  <1> HIDE DEF S
  <1>6. 0..N \subseteq S
    BY <1>1, <1>4, <1>5, InductionUpTo
  <1>7. N \in S
    BY <1>1, <1>6
  <1> QED  BY <1>2, <1>7 DEF S, N, r

\* A table whose size is that of its entries; and one within its limit.
Counted(t) == t \in Tables /\ t.size = Sizes(t.entries)[Len(t.entries)]
Sound(t) == Counted(t) /\ t.size <= t.limit

LEMMA EvictSound == ASSUME NEW t, Counted(t) PROVE Sound(Evict(t))
  <1> DEFINE e == t.entries
             K == Kept(t, t.limit)
             f == Sizes(e)
             r == SubSeq(e, 1, K)
             c == Evict(t)
  <1>1. e \in Seq(Headers) /\ t.size \in Nat /\ t.limit \in Nat /\ t.size = f[Len(e)]
    BY DEF Counted, Tables
  <1>2. Len(e) \in Nat /\ K \in 0..Len(e)
    BY <1>1, LenProperties, KeptRange
  <1>3. Counts(e, f)
    BY <1>1, SizesCount
  <1>4. ASSUME NEW k \in 0..Len(e) PROVE Left(t, k) = f[k] /\ f[k] \in Nat
    <2>1. f[k] \in Nat /\ f[Len(e)] \in Nat
      <3> HIDE DEF e, f
      <3>1. Len(e) \in 0..Len(e)
        BY <1>2
      <3> QED  BY <1>3, <3>1 DEF Counts
    <2> HIDE DEF f
    <2>2. t.size - (t.size - f[k]) = f[k]
      BY <1>1, <2>1
    <2>3. Left(t, k) = t.size - (t.size - f[k])
      BY <1>1 DEF Left, f
    <2> QED  BY <2>1, <2>2, <2>3
  <1>5. r \in Seq(Headers) /\ Len(r) = K /\ \A k \in 1..K : r[k] = e[k]
    <2>1. \A i \in 1..K : e[i] \in Headers
      BY <1>1, <1>2, ElementOfSeq
    <2> HIDE DEF e, K
    <2> QED  BY <1>2, <2>1, SubSeqProperties
  <1>6. f[K] <= t.limit
    <2>1. CASE Fits(t, t.limit) # {}
      <3>1. K \in Fits(t, t.limit)
        BY <2>1 DEF Kept
      <3>2. Left(t, K) <= t.limit
        BY <3>1 DEF Fits
      <3> QED  BY <1>2, <1>4, <3>2
    <2>2. CASE Fits(t, t.limit) = {}
      <3>1. K = 0
        BY <2>2 DEF Kept
      <3>2. f[0] = 0
        BY <1>3 DEF Counts
      <3> QED  BY <1>1, <3>1, <3>2
    <2> QED  BY <2>1, <2>2
  <1>7. Left(t, K) = f[K] /\ f[K] \in Nat
    BY <1>2, <1>4
  <1>8. c \in Tables /\ c.entries = r /\ c.size = Left(t, K) /\ c.limit = t.limit
    <2>1. t \in Tables /\ c = [t EXCEPT !.entries = r, !.size = Left(t, K)]
      BY DEF Counted, Evict
    <2> HIDE DEF c, r, K, f
    <2> QED  BY <1>5, <1>7, <2>1 DEF Tables
  <1>9. Sizes(r)[K] = f[K]
    <2>1. Counts(r, Sizes(r))
      BY <1>5, SizesCount
    <2>2. K \in Nat /\ K <= Len(e) /\ K <= Len(r)
      BY <1>2, <1>5
    <2> HIDE DEF e, K, f, r
    <2> QED  BY <1>1, <1>3, <1>5, <2>1, <2>2, CountsAgree
  <1> HIDE DEF c, r, K, f
  <1>10. c.size = Sizes(c.entries)[Len(c.entries)] /\ c.size <= c.limit
    BY <1>5, <1>6, <1>7, <1>8, <1>9
  <1> QED  BY <1>8, <1>10 DEF Sound, Counted, c

LEMMA InsertSound == ASSUME NEW t, Sound(t), NEW h \in Headers PROVE Sound(Insert(t, h))
  <1> DEFINE e == t.entries
             r == <<h>> \o e
             c == [t EXCEPT !.entries = <<h>> \o t.entries, !.size = t.size + SizeOf[h]]
  <1>1. t \in Tables /\ e \in Seq(Headers) /\ t.size \in Nat /\ t.limit \in Nat
        /\ t.size = Sizes(e)[Len(e)] /\ SizeOf[h] \in Nat
    BY HpackAssumption DEF Sound, Counted, Tables
  <1>2. r \in Seq(Headers)
    <2>1. <<h>> \in Seq(Headers)
      OBVIOUS
    <2> QED  BY <1>1, <2>1, ConcatProperties
  <1>3. Counts(e, Sizes(e)) /\ Counts(r, Sizes(r))
    BY <1>1, <1>2, SizesCount
  <1>4. Len(r) = Len(e) + 1 /\ Sizes(r)[Len(e) + 1] = Sizes(e)[Len(e)] + SizeOf[h]
    <2> HIDE DEF e
    <2> QED  BY <1>1, <1>3, CountsAfter
  <1>5. c = [t EXCEPT !.entries = r, !.size = t.size + SizeOf[h]] /\ t.size + SizeOf[h] \in Nat
    BY <1>1
  <1> HIDE DEF r, c
  <1>6. c \in Tables /\ c.entries = r /\ c.size = t.size + SizeOf[h]
    BY <1>1, <1>2, <1>5 DEF Tables
  <1>7. Counted(c)
    BY <1>1, <1>4, <1>6 DEF Counted
  <1>8. Insert(t, h) = Evict(c)
    BY DEF Insert, c
  <1> QED  BY <1>7, <1>8, EvictSound

LEMMA ResizeSound == ASSUME NEW t, Sound(t), NEW n \in Nat PROVE Sound(Resize(t, n))
  <1> DEFINE c == [t EXCEPT !.limit = n]
  <1>1. c \in Tables /\ c.entries = t.entries /\ c.size = t.size
    BY DEF Sound, Counted, Tables
  <1>2. Counted(c)
    BY <1>1 DEF Sound, Counted
  <1> QED  BY <1>2, EvictSound DEF Resize

\* The rewriter's table is the receiver's, after any insertions, size updates
\* and evictions (Table and evict(), hpack_wire.rs).
THEOREM TablesStayEqual == Spec => []TablesAgree
  <1>1. Inv => TablesAgree
    BY DEF Inv
  <1> QED  BY <1>1, Invariance, PTL

\* The receiver decodes exactly the mapped headers.
THEOREM ReceiverReadsMapped == Spec => []HeadersMapped
  <1>1. Inv => HeadersMapped
    BY DEF Inv
  <1> QED  BY <1>1, Invariance, PTL

\* Literals keep their indexing mode, and nothing unasked is inserted.
THEOREM RepresentationSurvives == Spec => []RepresentationKept
  <1>1. Inv => RepresentationKept
    BY DEF Inv
  <1> QED  BY <1>1, Invariance, PTL

-----------------------------------------------------------------------------
\* Types and sizes: the tables are sound, and what else is kept has its type.
Instrs == [kind : {"indexed", "literal"}, index : Nat,
           name : Names \cup {""}, value : Values \cup {""}, mode : Modes]
Blocks == [fields : BOOLEAN, regular : BOOLEAN, method : BOOLEAN,
           authority : Nat, total : 0..MaxBlock]

TablesSound == Sound(inbound) /\ Sound(outbound)
FieldsTyped == read \in Fields /\ written \in Fields
SizeInv == Inv /\ TablesSound /\ FieldsTyped /\ block \in Blocks /\ ok \in BOOLEAN

LEMMA SizeInvSuffices == SizeInv => TypeOK /\ SizesAreTrue
  BY DEF SizeInv, TablesSound, FieldsTyped, Blocks, Inv, TablesAgree, Sound, Counted,
     TypeOK, SizesAreTrue

LEMMA IndexedTyped == ASSUME NEW i \in Nat PROVE Indexed(i) \in Instrs
  BY DEF Indexed, Instrs, Modes

LEMMA LiteralTyped ==
  ASSUME NEW i \in Nat, NEW n \in Names, NEW v \in Values, NEW mode \in Modes
  PROVE  Literal(i, n, v, mode) \in Instrs
  BY DEF Literal, Instrs

LEMMA HeaderParts == ASSUME NEW h \in Headers PROVE h.name \in Names /\ h.value \in Values
  BY DEF Names, Values

LEMMA InstructionTyped ==
  ASSUME Inv, TablesSound, NEW x \in Instructions
  PROVE  x \in Instrs
  <1>1. Indices \subseteq Nat
    BY DEF Indices
  <1>2. CASE \E i \in Indices : x = Indexed(i)
    BY <1>1, <1>2, IndexedTyped
  <1>3. CASE \E i \in Indices, g \in Offered, mode \in Modes :
               x = Literal(i, g.name, g.value, mode)
    <2>1. PICK i \in Indices, g \in Offered, mode \in Modes : x = Literal(i, g.name, g.value, mode)
      BY <1>3
    <2>2. g \in Headers
      BY HpackAssumption
    <2> QED  BY <1>1, <2>1, <2>2, HeaderParts, LiteralTyped
  <1> QED  BY <1>2, <1>3 DEF Instructions

LEMMA FindIndex ==
  ASSUME NEW t, t.entries \in Seq(Headers), NEW p, NEW S
  PROVE  Find(t, p, S) \in Nat
  <1>1. All(t) \in Seq(Headers)
    BY HpackAssumption, ConcatProperties DEF All
  <1>2. DOMAIN All(t) \subseteq Nat
    BY <1>1, LenProperties
  <1> QED  BY <1>2, FindFinds

LEMMA RewritingTyped ==
  ASSUME Inv, NEW x \in Instrs, NEW h \in Headers, NEW m \in Headers
  PROVE  Rewriting(x, h, m) \in Instrs
  <1> DEFINE y == Rewriting(x, h, m)
             i1 == Find(outbound, x.index, {m})
             i2 == Find(outbound, 0, Named(h.name))
             i3 == IF x.index = 0 THEN 0 ELSE Find(outbound, x.index, Named(h.name))
  <1>1. i1 \in Nat /\ i2 \in Nat /\ i3 \in Nat
    BY FindIndex DEF Inv, Table
  <1>2. h.name \in Names /\ m.value \in Values /\ x.mode \in Modes /\ "plain" \in Modes
    BY HeaderParts DEF Instrs, Modes
  <1>3. \/ y = Indexed(i1)
        \/ y = Literal(i2, h.name, m.value, "plain")
        \/ y = Literal(i3, h.name, m.value, x.mode)
    BY DEF Rewriting
  <1> HIDE DEF i1, i2, i3, y
  <1>4. Indexed(i1) \in Instrs
    BY <1>1, IndexedTyped
  <1>5. Literal(i2, h.name, m.value, "plain") \in Instrs
    BY <1>1, <1>2, LiteralTyped
  <1>6. Literal(i3, h.name, m.value, x.mode) \in Instrs
    BY <1>1, <1>2, LiteralTyped
  <1> QED  BY <1>3, <1>4, <1>5, <1>6, Zenon DEF y

LEMMA NewTableSound == Sound(NewTable)
  <1>1. <<>> \in Seq(Headers) /\ Len(<<>>) = 0
    BY EmptySeq
  <1>2. Sizes(<<>>)[0] = 0
    BY <1>1, SizesCount DEF Counts
  <1>3. NewTable \in Tables
    BY <1>1, HpackAssumption DEF NewTable, Tables
  <1> QED  BY <1>1, <1>2, <1>3, HpackAssumption DEF Sound, Counted, NewTable

LEMMA SizeInvInit == Init => SizeInv
  <1> SUFFICES ASSUME Init PROVE SizeInv
    OBVIOUS
  <1>1. TablesSound
    BY NewTableSound DEF Init, TablesSound
  <1>2. Indexed(0) \in Instrs
    BY IndexedTyped
  <1>3. FieldsTyped
    BY <1>2 DEF Init, FieldsTyped, NoField, Fields, Instrs
  <1>4. block \in Blocks /\ ok \in BOOLEAN
    BY HpackAssumption DEF Init, NewBlock, Blocks
  <1> QED  BY <1>1, <1>3, <1>4, InitInv DEF SizeInv

\* A block counts a field at no more than the limit, which FieldOk checks.
LEMMA NotedTyped ==
  ASSUME block \in Blocks, NEW h \in Headers, NEW m \in Headers, FieldOk(h, m)
  PROVE  Noted(h, m) \in Blocks
  <1>1. SizeOf[h] \in Nat /\ SizeOf[m] \in Nat /\ MaxBlock \in Nat
    BY HpackAssumption
  <1>2. block.total \in Nat /\ block.authority \in Nat
    BY DEF Blocks
  <1>3. block.total + Larger(SizeOf[h], SizeOf[m]) \in Nat
    BY <1>1, <1>2 DEF Larger
  <1>4. Noted(h, m).total \in 0..MaxBlock
    BY <1>1, <1>3 DEF FieldOk, Noted
  <1> QED  BY <1>2, <1>4 DEF Noted, Blocks

LEMMA UpdateSize ==
  ASSUME SizeInv, NEW n \in Limits, Update(n)
  PROVE  SizeInv'
  <1>1. n \in Nat
    BY HpackAssumption
  <1>2. TablesSound'
    BY <1>1, ResizeSound DEF SizeInv, TablesSound, Update
  <1>3. Inv'
    BY UpdateInv DEF SizeInv
  <1> QED  BY <1>2, <1>3 DEF SizeInv, FieldsTyped, Update

LEMMA FieldSize ==
  ASSUME SizeInv, NEW x \in Instructions, Field(x)
  PROVE  SizeInv'
  <1> DEFINE h == Reading(inbound, x)
             m == MapOf[h]
             y == Rewriting(x, h, m)
  <1>1. /\ FieldOk(h, m) /\ block' = Noted(h, m) /\ ok' = ok
        /\ inbound' = TableAfter(inbound, x)
        /\ outbound' = IF x.mode = "incremental" THEN Insert(outbound, m) ELSE outbound
        /\ read' = [instr |-> x, header |-> h]
        /\ written' = [instr |-> y, header |-> Reading(receiver, y)]
    BY DEF Field
  <1>2. h \in Headers /\ m \in Headers /\ m.name = h.name
    BY <1>1, HpackAssumption DEF FieldOk
  <1>3. TableAfter(inbound, x) = inbound \/ TableAfter(inbound, x) = Insert(inbound, h)
    BY DEF TableAfter
  <1>4. Inv /\ TablesSound /\ FieldsTyped /\ block \in Blocks /\ ok \in BOOLEAN
    BY DEF SizeInv
  <1> HIDE DEF h, m
  <1>5. Reading(receiver, y) = m
    BY <1>2, <1>4, RewritingStands DEF Inv, TablesAgree
  <1>6. x \in Instrs /\ y \in Instrs
    BY <1>2, <1>4, InstructionTyped, RewritingTyped
  <1> HIDE DEF y
  <1>7. TablesSound'
    BY <1>1, <1>2, <1>3, <1>4, InsertSound DEF TablesSound
  <1>8. FieldsTyped'
    BY <1>1, <1>2, <1>5, <1>6 DEF FieldsTyped, Fields, Instrs
  <1>9. block' \in Blocks
    BY <1>1, <1>2, <1>4, NotedTyped
  <1>10. Inv'
    BY <1>4, FieldInv
  <1> QED  BY <1>1, <1>4, <1>7, <1>8, <1>9, <1>10 DEF SizeInv

LEMMA IdleSize ==
  ASSUME SizeInv, UNCHANGED <<inbound, outbound, receiver, read, written>>,
         block' \in Blocks, ok' \in BOOLEAN
  PROVE  SizeInv'
  <1>1. Inv'
    BY IdleInv DEF SizeInv
  <1> QED  BY <1>1 DEF SizeInv, TablesSound, FieldsTyped

LEMMA SizeStep == SizeInv /\ [Next]_vars => SizeInv'
  <1> SUFFICES ASSUME SizeInv, [Next]_vars PROVE SizeInv'
    OBVIOUS
  <1>1. CASE \E n \in Limits : Update(n)
    BY <1>1, UpdateSize
  <1>2. CASE \E x \in Instructions : Field(x)
    BY <1>2, FieldSize
  <1>3. CASE EndBlock
    <2>1. NewBlock \in Blocks
      BY HpackAssumption DEF NewBlock, Blocks
    <2> QED  BY <1>3, <2>1, IdleSize DEF EndBlock, SizeInv
  <1>4. CASE \/ \E n \in Limits : UpdateRejected(n)
             \/ \E x \in Instructions : FieldRejected(x)
             \/ BlockRejected \/ Rejected \/ UNCHANGED vars
    BY <1>4, IdleSize DEF UpdateRejected, FieldRejected, BlockRejected, Reject,
       Rejected, vars, SizeInv
  <1> QED  BY <1>1, <1>2, <1>3, <1>4 DEF Next

LEMMA SizeInvariance == Spec => []SizeInv
  BY SizeInvInit, SizeStep, PTL DEF Spec

\* Whatever is offered, the rewriter's state keeps its types: every instruction
\* it writes is one, of a name and value it was given, and no block counts more
\* than MaxBlock (rewrite(), hpack_wire.rs).
THEOREM TypeCorrect == Spec => []TypeOK
  <1>1. SizeInv => TypeOK
    BY SizeInvSuffices
  <1> QED  BY <1>1, SizeInvariance, PTL

\* What a table counts as its size stays the sum of its entries, and within its
\* limit, after any insertions, size updates and evictions: evict() never pops
\* an empty table (Table, hpack_wire.rs).
THEOREM SizesStayTrue == Spec => []SizesAreTrue
  <1>1. SizeInv => SizesAreTrue
    BY SizeInvSuffices
  <1> QED  BY <1>1, SizeInvariance, PTL

\* A recursive function that stays in T has its values there.
LEMMA RecursionStays ==
  ASSUME NEW N \in Nat, NEW T, NEW f, f[0] \in T,
         \A i \in 1..N : f[i - 1] \in T => f[i] \in T
  PROVE  \A i \in 0..N : f[i] \in T
<1> DEFINE S == {i \in 0..N : f[i] \in T}
<1>1. 0 \in S
  OBVIOUS
<1>2. ASSUME NEW n \in 0..(N - 1), n \in S PROVE n + 1 \in S
  <2>1. n + 1 \in 1..N /\ (n + 1) - 1 = n /\ n + 1 \in 0..N
    OBVIOUS
  <2> QED
    BY <1>2, <2>1
<1> HIDE DEF S
<1>3. 0..N \subseteq S
  BY <1>1, <1>2, InductionUpTo
<1> QED
  BY <1>3 DEF S

-----------------------------------------------------------------------------
(***************************************************************************)
(* Numbers.                                                                *)
(***************************************************************************)
\* Quotient and remainder.
LEMMA Division ==
  ASSUME NEW p \in Nat \ {0}, NEW x \in Nat
  PROVE  x \div p \in Nat /\ x % p \in 0..(p - 1) /\ x = p * (x \div p) + (x % p)
  OBVIOUS

\* Quotient and remainder are the only ones.
LEMMA DivisionIsUnique ==
  ASSUME NEW p \in Nat \ {0}, NEW h \in Nat, NEW s \in 0..(p - 1), NEW x, x = p * h + s
  PROVE  x \div p = h /\ x % p = s
  OBVIOUS

\* A power of two.
LEMMA PowerIsDefined ==
  ASSUME NEW n \in Nat
  PROVE  \E f \in [0..n -> Nat] : /\ f[0] = 1 /\ \A i \in 1..n : f[i] = 2 * f[i - 1]
                                  /\ Power(n) = f[n]
<1> DEFINE step == [i \in 1..n |-> [x \in Nat |-> 2 * x]]
           power == CHOOSE f : f = [i \in 0..n |-> IF i = 0 THEN 1 ELSE 2 * f[i - 1]]
<1>1. Power(n) = power[n]
  BY DEF Power
<1>2. step \in [1..n -> [Nat -> Nat]] /\ 1 \in Nat
  OBVIOUS
<1>3. \A i \in 1..n : \A x \in Nat : step[i][x] = 2 * x
  OBVIOUS
<1> HIDE DEF step
<1>4. PICK g \in [0..n -> Nat] : Recurs(g, n, 1, step)
  BY <1>2, RecursionUpTo
<1>5. g[0] = 1 /\ \A i \in 1..n : g[i - 1] \in Nat /\ g[i] = 2 * g[i - 1]
  <2>1. \A i \in 1..n : i - 1 \in 0..n
    OBVIOUS
  <2> QED
    BY <1>3, <1>4, <2>1 DEF Recurs
<1>6. g = [i \in 0..n |-> IF i = 0 THEN 1 ELSE 2 * g[i - 1]]
  <2>1. \A i \in 0..n : i = 0 \/ i \in 1..n
    OBVIOUS
  <2> QED
    BY <1>4, <1>5, <2>1
<1>7. power = [i \in 0..n |-> IF i = 0 THEN 1 ELSE 2 * power[i - 1]]
  BY <1>6, Zenon
<1> HIDE DEF power
<1>8. power[0] = 1 /\ \A i \in 1..n : power[i] = 2 * power[i - 1]
  <2>1. 0 \in 0..n /\ \A i \in 1..n : i \in 0..n /\ i # 0
    OBVIOUS
  <2> QED
    BY <1>7, <2>1
<1>9. \A i \in 0..n : power[i] \in Nat
  <2>1. power[0] \in Nat /\ \A i \in 1..n : power[i - 1] \in Nat => power[i] \in Nat
    BY <1>8
  <2> QED
    BY <2>1, RecursionStays, Zenon
<1>10. power \in [0..n -> Nat]
  BY <1>7, <1>9
<1> QED
  BY <1>1, <1>8, <1>10

\* A power of two is positive, and even but for the first.
LEMMA PowerIsPositive ==
  ASSUME NEW n \in Nat
  PROVE  Power(n) \in Nat \ {0} /\ (n > 0 => Power(n) >= 2)
<1>1. PICK f \in [0..n -> Nat] : /\ f[0] = 1 /\ \A i \in 1..n : f[i] = 2 * f[i - 1]
                                 /\ Power(n) = f[n]
  BY PowerIsDefined
<1>2. \A i \in 0..n : f[i] \in Nat \ {0}
  <2>1. f[0] \in Nat \ {0} /\ \A i \in 1..n : f[i - 1] \in Nat \ {0} => f[i] \in Nat \ {0}
    BY <1>1
  <2> QED
    BY <2>1, RecursionStays, Zenon
<1>3. n > 0 => n \in 1..n /\ n - 1 \in 0..n
  OBVIOUS
<1> QED
  BY <1>1, <1>2, <1>3

\* An octet carries at least one bit of an integer.
LEMMA FlagIsNumber ==
  Group \in Nat \ {0} /\ Flag \in Nat /\ Flag >= 2 /\ Mask(Group) = Flag - 1
<1>1. Group \in Nat \ {0}
  BY StringsAssumption DEF Group
<1> QED
  BY <1>1, PowerIsPositive DEF Flag, Mask

-----------------------------------------------------------------------------
\* Half by half, a number of so many bits.
LEMMA HalvesAreDefined ==
  ASSUME NEW n \in Nat, NEW w \in Nat
  PROVE  \E f \in [0..w -> Nat] : /\ f[0] = n /\ \A i \in 1..w : f[i] = f[i - 1] \div 2
                                  /\ Bits(n, w) = [i \in 1..w |-> f[w - i] % 2]
<1> DEFINE step == [i \in 1..w |-> [x \in Nat |-> x \div 2]]
           half == CHOOSE f : f = [i \in 0..w |-> IF i = 0 THEN n ELSE f[i - 1] \div 2]
<1>1. Bits(n, w) = [i \in 1..w |-> half[w - i] % 2]
  BY DEF Bits
<1>2. step \in [1..w -> [Nat -> Nat]]
  OBVIOUS
<1>3. \A i \in 1..w : \A x \in Nat : step[i][x] = x \div 2
  OBVIOUS
<1> HIDE DEF step
<1>4. PICK g \in [0..w -> Nat] : Recurs(g, w, n, step)
  BY <1>2, RecursionUpTo
<1>5. g[0] = n /\ \A i \in 1..w : g[i - 1] \in Nat /\ g[i] = g[i - 1] \div 2
  <2>1. \A i \in 1..w : i - 1 \in 0..w
    OBVIOUS
  <2> QED
    BY <1>3, <1>4, <2>1 DEF Recurs
<1>6. g = [i \in 0..w |-> IF i = 0 THEN n ELSE g[i - 1] \div 2]
  <2>1. \A i \in 0..w : i = 0 \/ i \in 1..w
    OBVIOUS
  <2> QED
    BY <1>4, <1>5, <2>1
<1>7. half = [i \in 0..w |-> IF i = 0 THEN n ELSE half[i - 1] \div 2]
  BY <1>6, Zenon
<1> HIDE DEF half
<1>8. half[0] = n /\ \A i \in 1..w : half[i] = half[i - 1] \div 2
  <2>1. 0 \in 0..w /\ \A i \in 1..w : i \in 0..w /\ i # 0
    OBVIOUS
  <2> QED
    BY <1>7, <2>1
<1>9. \A i \in 0..w : half[i] \in Nat
  <2>1. half[0] \in Nat /\ \A i \in 1..w : half[i - 1] \in Nat => half[i] \in Nat
    BY <1>8
  <2> QED
    BY <2>1, RecursionStays, Zenon
<1>10. half \in [0..w -> Nat]
  BY <1>7, <1>9
<1> QED
  BY <1>1, <1>8, <1>10

Bit == {0, 1}

\* The number of some bits is the last value of its sum.
LEMMA NumberIsDefined ==
  ASSUME NEW b \in Seq(Bit)
  PROVE  \E f \in [0..Len(b) -> Nat] :
           /\ f[0] = 0 /\ \A i \in 1..Len(b) : f[i] = 2 * f[i - 1] + b[i]
           /\ Number(b) = f[Len(b)]
<1> DEFINE N == Len(b)
           step == [i \in 1..N |-> [x \in Nat |-> 2 * x + b[i]]]
           n == CHOOSE f : f = [i \in 0..N |-> IF i = 0 THEN 0 ELSE 2 * f[i - 1] + b[i]]
<1>1. Number(b) = n[N]
  BY DEF Number
<1>2. N \in Nat /\ \A i \in 1..N : b[i] \in Nat
  BY LenProperties, ElementOfSeq DEF Bit
<1>3. step \in [1..N -> [Nat -> Nat]]
  BY <1>2
<1>4. \A i \in 1..N : \A x \in Nat : step[i][x] = 2 * x + b[i]
  OBVIOUS
<1> HIDE DEF step, N
<1>5. PICK g \in [0..N -> Nat] : Recurs(g, N, 0, step)
  BY <1>2, <1>3, RecursionUpTo
<1>6. g[0] = 0 /\ \A i \in 1..N : g[i - 1] \in Nat /\ g[i] = 2 * g[i - 1] + b[i]
  <2>1. \A i \in 1..N : i - 1 \in 0..N
    BY <1>2
  <2> QED
    BY <1>4, <1>5, <2>1 DEF Recurs
<1>7. g = [i \in 0..N |-> IF i = 0 THEN 0 ELSE 2 * g[i - 1] + b[i]]
  <2>1. \A i \in 0..N : i = 0 \/ i \in 1..N
    BY <1>2
  <2> QED
    BY <1>5, <1>6, <2>1
<1>8. n = [i \in 0..N |-> IF i = 0 THEN 0 ELSE 2 * n[i - 1] + b[i]]
  BY <1>7, Zenon
<1> HIDE DEF n
<1>9. n[0] = 0 /\ \A i \in 1..N : n[i] = 2 * n[i - 1] + b[i]
  <2>1. 0 \in 0..N /\ \A i \in 1..N : i \in 0..N /\ i # 0
    BY <1>2
  <2> QED
    BY <1>8, <2>1
<1>10. \A i \in 0..N : n[i] \in Nat
  <2>1. n[0] \in Nat
    BY <1>9
  <2>2. ASSUME NEW i \in 1..N, n[i - 1] \in Nat PROVE n[i] \in Nat
    <3>1. n[i] = 2 * n[i - 1] + b[i] /\ b[i] \in Nat
      BY <1>2, <1>9
    <3> QED
      BY <2>2, <3>1
  <2> QED
    BY <1>2, <2>1, <2>2, RecursionStays, Zenon
<1>11. n \in [0..N -> Nat]
  BY <1>8, <1>10
<1> QED
  BY <1>1, <1>9, <1>11 DEF N

\* Bits are those of their number.
LEMMA NumberBack ==
  ASSUME NEW b \in Seq(Bit)
  PROVE  Number(b) \in Nat /\ Bits(Number(b), Len(b)) = b
<1> DEFINE N == Len(b)
<1>1. PICK f \in [0..N -> Nat] : /\ f[0] = 0 /\ \A i \in 1..N : f[i] = 2 * f[i - 1] + b[i]
                                 /\ Number(b) = f[N]
  BY NumberIsDefined
<1>2. N \in Nat /\ b = [i \in 1..N |-> b[i]] /\ \A i \in 1..N : b[i] \in Bit
  BY LenProperties, ElementOfSeq
<1> HIDE DEF N
<1>3. Number(b) \in Nat
  BY <1>1, <1>2
<1>4. PICK g \in [0..N -> Nat] : /\ g[0] = Number(b) /\ \A i \in 1..N : g[i] = g[i - 1] \div 2
                                 /\ Bits(Number(b), N) = [i \in 1..N |-> g[N - i] % 2]
  BY <1>2, <1>3, HalvesAreDefined
<1>5. \A i \in 1..N : f[i] \div 2 = f[i - 1] /\ f[i] % 2 = b[i]
  <2> TAKE i \in 1..N
  <2>1. i - 1 \in 0..N /\ f[i - 1] \in Nat /\ b[i] \in 0..1
    BY <1>2 DEF Bit
  <2>2. f[i] = 2 * f[i - 1] + b[i]
    BY <1>1
  <2>3. ASSUME NEW x \in Nat, NEW y \in 0..1, NEW z, z = 2 * x + y
        PROVE  z \div 2 = x /\ z % 2 = y
    BY <2>3
  <2> QED
    BY <2>1, <2>2, <2>3, Zenon
<1> DEFINE S == {i \in 0..N : g[i] = f[N - i]}
<1>6. 0..N \subseteq S
  <2>1. 0 \in S
    BY <1>1, <1>2, <1>4
  <2>2. ASSUME NEW i \in 0..(N - 1), i \in S PROVE i + 1 \in S
    <3>1. i + 1 \in 1..N /\ (i + 1) - 1 = i /\ N - i \in 1..N /\ (N - i) - 1 = N - (i + 1)
      BY <1>2
    <3> QED
      BY <1>2, <1>4, <1>5, <2>2, <3>1
  <2> HIDE DEF S
  <2> QED
    BY <1>2, <2>1, <2>2, InductionUpTo
<1>7. \A i \in 1..N : g[N - i] % 2 = b[i]
  <2> TAKE i \in 1..N
  <2>1. N - i \in 0..N /\ N - (N - i) = i
    BY <1>2
  <2> QED
    BY <1>5, <1>6, <2>1
<1> QED
  BY <1>2, <1>3, <1>4, <1>7 DEF N

\* The bits of a number.
LEMMA BitsAreBits ==
  ASSUME NEW n \in Nat, NEW w \in Nat
  PROVE  Bits(n, w) \in Seq(Bit) /\ Len(Bits(n, w)) = w
<1>1. PICK f \in [0..w -> Nat] : Bits(n, w) = [i \in 1..w |-> f[w - i] % 2]
  BY HalvesAreDefined, ZenonT(40)
<1>2. \A i \in 1..w : f[w - i] % 2 \in Bit
  BY DEF Bit
<1>3. Bits(n, w) \in [1..w -> Bit]
  BY <1>1, <1>2
<1> QED
  BY <1>3

-----------------------------------------------------------------------------
(***************************************************************************)
(* Integers of HPACK.                                                      *)
(***************************************************************************)
\* Shifting takes something off.
LEMMA QuotientIsLess ==
  ASSUME NEW p \in Nat, p >= 2, NEW x \in Nat \ {0}
  PROVE  x \div p < x
<1>1. x \div p \in Nat /\ x % p \in Nat /\ x = p * (x \div p) + (x % p)
  BY Division
<1>2. ASSUME NEW q \in Nat PROVE p * q >= 2 * q
  <2>1. p - 2 \in Nat /\ p = 2 + (p - 2)
    OBVIOUS
  <2>2. ASSUME NEW r \in Nat PROVE (2 + r) * q = 2 * q + r * q /\ r * q \in Nat
    OBVIOUS
  <2>3. p * q = 2 * q + (p - 2) * q /\ (p - 2) * q \in Nat
    BY <2>1, <2>2
  <2> QED
    BY <2>3
<1>3. p * (x \div p) >= 2 * (x \div p)
  BY <1>1, <1>2
<1> HIDE DEF Bit
<1> QED
  BY <1>1, <1>3

\* What an octet carries of x, and what is left.
LEMMA FlagDivides ==
  /\ \A x \in Nat : /\ x \div Flag \in Nat /\ x % Flag \in 0..(Flag - 1)
                    /\ x = Flag * (x \div Flag) + (x % Flag)
  /\ \A s \in 0..(Flag - 1) : s % Flag = s /\ (Flag + s) % Flag = s
<1>1. Flag \in Nat \ {0} /\ Flag \in Nat
  BY FlagIsNumber
<1>2. ASSUME NEW p \in Nat \ {0}, NEW s \in 0..(p - 1)
      PROVE  s % p = s /\ (p + s) % p = s
  <2>1. ASSUME NEW x, x = p * 1 + s PROVE x % p = s
    BY <2>1, DivisionIsUnique
  <2>2. p + s = p * 1 + s
    OBVIOUS
  <2>3. s % p = s
    OBVIOUS
  <2> QED
    BY <2>1, <2>2, <2>3, Zenon
<1> QED
  BY <1>1, <1>2, Division, Zenon

\* What is left of n after each group, until one is the last, and the groups.
Loop(n, f, k) == /\ f \in [0..n -> Nat] /\ k \in 0..n
                 /\ f[0] = n /\ \A i \in 1..n : f[i] = f[i - 1] \div Flag
                 /\ f[k] < Flag /\ \A j \in 0..(k - 1) : f[j] >= Flag
Grouped(f, k) == [i \in 1..(k + 1) |-> IF i <= k THEN Flag + (f[i - 1] % Flag) ELSE f[k]]

\* The loop of put_int() ends, and f is what it has left.
LEMMA GroupsAreDefined ==
  ASSUME NEW n \in Nat
  PROVE  \E f, k : Loop(n, f, k) /\ Groups(n) = Grouped(f, k)
<1> DEFINE step == [i \in 1..n |-> [x \in Nat |-> x \div Flag]]
           left == CHOOSE f : f = [i \in 0..n |-> IF i = 0 THEN n ELSE f[i - 1] \div Flag]
           Ends(i) == left[i] < Flag /\ \A j \in 0..i - 1 : left[j] >= Flag
           k == CHOOSE i \in 0..n : left[i] < Flag /\ \A j \in 0..i - 1 : left[j] >= Flag
<1>1. Groups(n) = [i \in 1..k + 1 |-> IF i <= k THEN Flag + (left[i - 1] % Flag) ELSE left[k]]
  BY DEF Groups
<1>2. Flag \in Nat /\ Flag >= 2
  BY FlagIsNumber
<1>3. step \in [1..n -> [Nat -> Nat]]
  BY FlagDivides
<1>4. \A i \in 1..n : \A x \in Nat : step[i][x] = x \div Flag
  OBVIOUS
<1> HIDE DEF step
<1>5. PICK g \in [0..n -> Nat] : Recurs(g, n, n, step)
  BY <1>3, RecursionUpTo
<1>6. g[0] = n /\ \A i \in 1..n : g[i - 1] \in Nat /\ g[i] = g[i - 1] \div Flag
  <2>1. \A i \in 1..n : i - 1 \in 0..n
    OBVIOUS
  <2> QED
    BY <1>4, <1>5, <2>1 DEF Recurs
<1>7. g = [i \in 0..n |-> IF i = 0 THEN n ELSE g[i - 1] \div Flag]
  <2>1. \A i \in 0..n : i = 0 \/ i \in 1..n
    OBVIOUS
  <2> QED
    BY <1>5, <1>6, <2>1
<1>8. left = [i \in 0..n |-> IF i = 0 THEN n ELSE left[i - 1] \div Flag]
  BY <1>7, Zenon
<1> HIDE DEF left
<1>9. left[0] = n /\ \A i \in 1..n : left[i] = left[i - 1] \div Flag
  <2>1. 0 \in 0..n /\ \A i \in 1..n : i \in 0..n /\ i # 0
    OBVIOUS
  <2> QED
    BY <1>8, <2>1
<1>10. \A i \in 0..n : left[i] \in Nat
  <2>1. left[0] \in Nat
    BY <1>9
  <2>2. \A i \in 1..n : left[i - 1] \in Nat => left[i] \in Nat
    BY <1>9, FlagDivides
  <2> QED
    BY <2>1, <2>2, RecursionStays, Zenon
<1>11. left \in [0..n -> Nat]
  BY <1>8, <1>10
<1>12. \A i \in 0..n : left[i] <= n - i
  <2> DEFINE S == {i \in 0..n : left[i] <= n - i}
  <2>1. 0 \in S
    BY <1>9
  <2>2. ASSUME NEW i \in 0..(n - 1), i \in S PROVE i + 1 \in S
    <3>1. i + 1 \in 1..n /\ (i + 1) - 1 = i /\ i \in 0..n /\ i + 1 \in 0..n
      OBVIOUS
    <3>2. left[i + 1] = left[i] \div Flag /\ left[i] \in Nat /\ left[i + 1] \in Nat
      BY <1>9, <1>10, <3>1
    <3>3. CASE left[i] = 0
      <4>1. 0 \div Flag = 0
        BY <1>2
      <4> QED
        BY <3>1, <3>2, <3>3, <4>1
    <3>4. CASE left[i] # 0
      <4>1. left[i] \div Flag < left[i]
        BY <1>2, <3>2, <3>4, QuotientIsLess
      <4> QED
        BY <2>2, <3>1, <3>2, <4>1
    <3> QED
      BY <3>3, <3>4
  <2> HIDE DEF S
  <2>3. 0..n \subseteq S
    BY <2>1, <2>2, InductionUpTo
  <2> QED
    BY <2>3 DEF S
<1>13. \E i \in 0..n : Ends(i)
  <2> DEFINE E == {i \in 0..n : left[i] < Flag}
  <2>1. n \in E
    <3>1. n \in 0..n /\ left[n] <= n - n /\ left[n] \in Nat
      BY <1>10, <1>12
    <3> QED
      BY <1>2, <3>1
  <2>2. E \subseteq Nat /\ E # {}
    BY <2>1
  <2> HIDE DEF E
  <2>3. PICK i \in E : \A j \in E : i <= j
    BY <2>2, LeastElement
  <2> USE DEF E
  <2>4. \A j \in 0..i - 1 : left[j] >= Flag
    <3> TAKE j \in 0..i - 1
    <3>1. j \in 0..n /\ j \notin E
      BY <2>3
    <3> QED
      BY <1>2, <1>10, <3>1
  <2> QED
    BY <2>3, <2>4
<1>14. k \in 0..n /\ Ends(k)
  BY <1>13, Zenon
<1> HIDE DEF k
<1> QED
  BY <1>1, <1>9, <1>11, <1>14, ZenonT(40) DEF Loop, Grouped

\* A group is what its octet carries, and the last ends them.
AreGroups(g, f, k) ==
  /\ g \in Seq(Nat) /\ Len(g) = k + 1
  /\ \A i \in 1..k : g[i] >= Flag /\ f[i - 1] = Flag * f[i] + (g[i] % Flag)
  /\ g[k + 1] < Flag /\ g[k + 1] % Flag = f[k]

\* What put_int() writes behind a full prefix: every group is an octet, and only
\* the last lacks the flag that another follows.
LEMMA GroupsProperties ==
  ASSUME NEW n \in Nat, NEW f, NEW k, Loop(n, f, k)
  PROVE  AreGroups(Grouped(f, k), f, k)
<1> DEFINE g == Grouped(f, k)
<1>1. Flag \in Nat /\ Flag >= 2 /\ f \in [0..n -> Nat] /\ k \in 0..n /\ f[k] < Flag
  BY FlagIsNumber DEF Loop
<1>2. ASSUME NEW d \in 0..(Flag - 1), NEW y, y = Flag + d PROVE y \in Nat /\ y >= Flag
  BY <1>2, <1>1
<1>3. \A i \in 1..k : f[i - 1] \in Nat /\ f[i] = f[i - 1] \div Flag
  BY <1>1 DEF Loop
<1>4. \A x \in Nat : x % Flag \in 0..(Flag - 1) /\ x = Flag * (x \div Flag) + (x % Flag)
  BY FlagDivides
<1>5. g[k + 1] = f[k] /\ \A i \in 1..k : g[i] = Flag + (f[i - 1] % Flag)
  BY <1>1 DEF Grouped
<1>6. g \in Seq(Nat) /\ Len(g) = k + 1
  <2>1. ASSUME NEW i \in 1..(k + 1) PROVE g[i] \in Nat
    <3>1. i \in 1..k \/ i = k + 1
      BY <1>1
    <3>2. CASE i \in 1..k
      <4>1. f[i - 1] % Flag \in 0..(Flag - 1) /\ g[i] = Flag + (f[i - 1] % Flag)
        BY <1>3, <1>4, <1>5, <3>2
      <4> QED
        BY <1>2, <4>1, Zenon
    <3> QED
      BY <1>1, <1>5, <3>1, <3>2
  <2>2. g \in [1..(k + 1) -> Nat]
    BY <2>1 DEF Grouped
  <2> QED
    BY <1>1, <2>2
<1>7. ASSUME NEW i \in 1..k
      PROVE  /\ g[i] >= Flag /\ g[i] % Flag = f[i - 1] % Flag
             /\ f[i - 1] = Flag * f[i] + (g[i] % Flag)
  <2>1. f[i - 1] % Flag \in 0..(Flag - 1)
    BY <1>3, <1>4
  <2>2. (Flag + (f[i - 1] % Flag)) % Flag = f[i - 1] % Flag
    BY <2>1, FlagDivides
  <2>3. g[i] >= Flag /\ g[i] % Flag = f[i - 1] % Flag
    BY <1>2, <1>5, <2>1, <2>2, Zenon
  <2>4. f[i - 1] = Flag * (f[i - 1] \div Flag) + (f[i - 1] % Flag)
    BY <1>3, <1>4
  <2> QED
    BY <1>3, <2>3, <2>4, Zenon
<1>8. f[k] % Flag = f[k]
  <2>1. f[k] \in 0..(Flag - 1)
    BY <1>1
  <2> QED
    BY <2>1, FlagDivides, Zenon
<1> QED
  BY <1>1, <1>5, <1>6, <1>7, <1>8, Zenon DEF AreGroups

\* The octets of an integer that its prefix does not hold.
Long(o, m, f, k) ==
  /\ m \in Nat /\ k \in Nat /\ k <= m /\ f \in [0..m -> Nat] /\ f[0] = m
  /\ o \in Seq(Nat) /\ Len(o) = k + 2 /\ o[1] % Flag = Mask(Group)
  /\ \A i \in 1..k : /\ o[i + 1] >= Flag /\ f[i - 1] = Flag * f[i] + (o[i + 1] % Flag)
  /\ o[k + 2] < Flag /\ o[k + 2] % Flag = f[k]

\* What the prefix of an integer is.
LEMMA PrefixProperties ==
  ASSUME NEW prefix \in {0, Flag}, NEW x \in 0..(Flag - 1)
  PROVE  /\ prefix + x \in Nat /\ (prefix + x) % Flag = x
         /\ (prefix + x < Flag) = (prefix = 0)
<1>1. Flag \in Nat /\ Flag >= 2
  BY FlagIsNumber
<1>2. CASE prefix = 0
  <2>1. prefix + x = x
    BY <1>1, <1>2
  <2>2. x % Flag = x
    BY FlagDivides
  <2> QED
    BY <1>1, <1>2, <2>1, <2>2
<1>3. CASE prefix = Flag
  <2>1. (Flag + x) % Flag = x
    BY FlagDivides
  <2>2. Flag + x \in Nat /\ ~(Flag + x < Flag)
    BY <1>1
  <2> QED
    BY <1>1, <1>3, <2>1, <2>2
<1> QED
  BY <1>2, <1>3

\* An integer below the mask is an octet of its own.
LEMMA SentShort ==
  ASSUME NEW n \in Nat, NEW prefix \in {0, Flag}, n < Mask(Group)
  PROVE  /\ Sent(n, prefix) = <<prefix + n>> /\ Sent(n, prefix) \in Seq(Nat)
         /\ (prefix + n) % Flag = n
         /\ (prefix + n < Flag) = (prefix = 0)
<1>1. n \in 0..(Flag - 1)
  BY FlagIsNumber
<1>2. Sent(n, prefix) = <<prefix + n>>
  BY DEF Sent
<1>3. prefix + n \in Nat
  BY <1>1, PrefixProperties
<1> QED
  BY <1>1, <1>2, <1>3, PrefixProperties

\* A larger one fills the prefix and goes on in groups.
LEMMA SentLong ==
  ASSUME NEW n \in Nat, NEW prefix \in {0, Flag}, ~(n < Mask(Group))
  PROVE  \E f, k : /\ Long(Sent(n, prefix), n - Mask(Group), f, k)
                   /\ (Sent(n, prefix)[1] < Flag) = (prefix = 0)
                   /\ Readable(n) => Group * k <= MaxShift
<1> DEFINE m == n - Mask(Group)
           o == Sent(n, prefix)
<1>1. Flag \in Nat /\ Flag >= 2 /\ Mask(Group) = Flag - 1 /\ Group \in Nat
  BY FlagIsNumber
<1>2. m \in Nat
  BY <1>1
<1> HIDE DEF m
<1>3. PICK f, k : Loop(m, f, k) /\ Groups(m) = Grouped(f, k)
  BY <1>2, GroupsAreDefined
<1> DEFINE g == Groups(m)
           h == prefix + Mask(Group)
<1>4. AreGroups(g, f, k)
  BY <1>2, <1>3, GroupsProperties, Zenon
<1>5. f \in [0..m -> Nat] /\ k \in 0..m /\ f[0] = m
  BY <1>3 DEF Loop
<1>6. /\ g \in Seq(Nat) /\ Len(g) = k + 1
      /\ \A i \in 1..k : g[i] >= Flag /\ f[i - 1] = Flag * f[i] + (g[i] % Flag)
      /\ g[k + 1] < Flag /\ g[k + 1] % Flag = f[k]
  BY <1>4 DEF AreGroups
<1>7. o = <<h>> \o g
  BY DEF Sent, m
<1>8. h \in Nat /\ h % Flag = Mask(Group) /\ (h < Flag) = (prefix = 0)
  <2>1. Mask(Group) \in 0..(Flag - 1)
    BY <1>1
  <2> QED
    BY <2>1, PrefixProperties
<1>9. Readable(n) => Group * k <= MaxShift
  <2>1. Readable(n) => Group * (Len(g) - 1) <= MaxShift
    BY DEF Readable, m
  <2>2. Len(g) - 1 = k
    BY <1>6, <1>5
  <2> QED
    BY <2>1, <2>2
<1> HIDE DEF g, h, o
<1>10. /\ o \in Seq(Nat) /\ Len(o) = k + 2 /\ o[1] = h
       /\ \A i \in 1..(k + 1) : o[i + 1] = g[i]
  <2>1. <<h>> \in Seq(Nat) /\ Len(<<h>>) = 1 /\ <<h>>[1] = h
    BY <1>8
  <2>2. /\ o \in Seq(Nat) /\ Len(o) = 1 + (k + 1)
        /\ \A i \in 1..(1 + (k + 1)) : o[i] = IF i <= 1 THEN <<h>>[i] ELSE g[i - 1]
    BY <1>6, <1>7, <2>1, ConcatProperties
  <2>3. ASSUME NEW i \in 1..(k + 1) PROVE o[i + 1] = g[i]
    <3>1. i + 1 \in 1..(1 + (k + 1)) /\ ~(i + 1 <= 1) /\ (i + 1) - 1 = i
      BY <1>5
    <3> QED
      BY <2>2, <3>1
  <2> QED
    BY <1>2, <1>5, <2>1, <2>2, <2>3
<1>11. Long(o, m, f, k)
  <2>1. o[1] % Flag = Mask(Group)
    BY <1>8, <1>10
  <2>2. k + 1 \in 1..(k + 1) /\ (k + 1) + 1 = k + 2 /\ \A i \in 1..k : i \in 1..(k + 1)
    BY <1>5
  <2>3. o[k + 2] = g[k + 1] /\ \A i \in 1..k : o[i + 1] = g[i]
    BY <1>10, <2>2
  <2>4. o[k + 2] < Flag /\ o[k + 2] % Flag = f[k]
    <3>1. g[k + 1] < Flag /\ g[k + 1] % Flag = f[k]
      BY <1>6, Zenon
    <3>2. o[k + 2] = g[k + 1]
      BY <2>3
    <3> QED
      BY <3>1, <3>2
  <2>5. \A i \in 1..k : /\ o[i + 1] >= Flag /\ f[i - 1] = Flag * f[i] + (o[i + 1] % Flag)
    BY <1>6, <2>3, Zenon
  <2>6. k \in Nat /\ k <= m /\ f[0] = m
    BY <1>2, <1>5
  <2> QED
    BY <1>2, <1>5, <1>10, <2>1, <2>4, <2>5, <2>6 DEF Long
<1> QED
  BY <1>8, <1>9, <1>10, <1>11 DEF o, m

-----------------------------------------------------------------------------
\* What the octets of an integer stand for, from the last to the first.
LEMMA MeaningIsDefined ==
  ASSUME NEW o \in Seq(Nat), Len(o) > 1
  PROVE  \E f \in [0..(Len(o) - 1) -> Nat] :
           /\ f[0] = 0
           /\ \A i \in 1..(Len(o) - 1) : f[i] = f[i - 1] * Flag + (o[Len(o) - i + 1] % Flag)
           /\ Meaning(o) = Mask(Group) + f[Len(o) - 1]
<1> DEFINE N == Len(o) - 1
           next(i, x) == x * Flag + (o[Len(o) - i + 1] % Flag)
           step == [i \in 1..N |-> [x \in Nat |-> next(i, x)]]
           sums == CHOOSE f : f = [i \in 0..N |-> IF i = 0 THEN 0 ELSE next(i, f[i - 1])]
<1>1. Meaning(o) = Mask(Group) + sums[N]
  <2>1. Len(o) \in Nat /\ Len(o) # 1
    BY LenProperties
  <2> QED
    BY <2>1, Zenon DEF Meaning
<1>2. N \in Nat /\ Len(o) \in Nat /\ Flag \in Nat
  BY LenProperties, FlagIsNumber
<1>3. \A i \in 1..N : \A x \in Nat : next(i, x) \in Nat
  <2> TAKE i \in 1..N, x \in Nat
  <2>1. Len(o) - i + 1 \in 1..Len(o)
    BY <1>2
  <2>2. o[Len(o) - i + 1] \in Nat
    BY <2>1, ElementOfSeq
  <2>3. o[Len(o) - i + 1] % Flag \in 0..(Flag - 1)
    BY <2>2, FlagDivides
  <2>4. ASSUME NEW d \in 0..(Flag - 1) PROVE x * Flag + d \in Nat
    BY <1>2
  <2> QED
    BY <2>3, <2>4
<1>4. step \in [1..N -> [Nat -> Nat]]
  BY <1>3
<1>5. \A i \in 1..N : \A x \in Nat : step[i][x] = next(i, x)
  OBVIOUS
<1> HIDE DEF step, N, next
<1>6. PICK g \in [0..N -> Nat] : Recurs(g, N, 0, step)
  BY <1>2, <1>4, RecursionUpTo
<1>7. g[0] = 0 /\ \A i \in 1..N : g[i - 1] \in Nat /\ g[i] = next(i, g[i - 1])
  <2>1. \A i \in 1..N : i - 1 \in 0..N
    BY <1>2
  <2> QED
    BY <1>5, <1>6, <2>1 DEF Recurs
<1>8. g = [i \in 0..N |-> IF i = 0 THEN 0 ELSE next(i, g[i - 1])]
  <2>1. \A i \in 0..N : i = 0 \/ i \in 1..N
    BY <1>2
  <2> QED
    BY <1>6, <1>7, <2>1
<1>9. sums = [i \in 0..N |-> IF i = 0 THEN 0 ELSE next(i, sums[i - 1])]
  BY <1>8, Zenon
<1> HIDE DEF sums
<1>10. sums[0] = 0 /\ \A i \in 1..N : sums[i] = next(i, sums[i - 1])
  <2>1. 0 \in 0..N /\ \A i \in 1..N : i \in 0..N /\ i # 0
    BY <1>2
  <2> QED
    BY <1>9, <2>1
<1>11. \A i \in 0..N : sums[i] \in Nat
  <2>1. sums[0] \in Nat
    BY <1>10
  <2>2. \A i \in 1..N : sums[i - 1] \in Nat => sums[i] \in Nat
    BY <1>3, <1>10, Zenon
  <2> QED
    BY <1>2, <2>1, <2>2, RecursionStays, Zenon
<1>12. sums \in [0..N -> Nat]
  BY <1>9, <1>11
<1> QED
  BY <1>1, <1>10, <1>12 DEF N, next

\* A long integer means what was written.
LEMMA LongMeans ==
  ASSUME NEW o, NEW m, NEW f, NEW k, Long(o, m, f, k)
  PROVE  Meaning(o) = Mask(Group) + m
<1>1. /\ m \in Nat /\ k \in Nat /\ k <= m /\ f \in [0..m -> Nat] /\ f[0] = m
      /\ o \in Seq(Nat) /\ Len(o) = k + 2
  BY DEF Long
<1>2. PICK v \in [0..(Len(o) - 1) -> Nat] :
           /\ v[0] = 0
           /\ \A i \in 1..(Len(o) - 1) : v[i] = v[i - 1] * Flag + (o[Len(o) - i + 1] % Flag)
           /\ Meaning(o) = Mask(Group) + v[Len(o) - 1]
  BY <1>1, MeaningIsDefined
<1>3. Flag \in Nat
  BY FlagIsNumber
<1> DEFINE S == {i \in 0..k : v[i + 1] = f[k - i]}
<1>4. 0 \in S
  <2>1. 1 \in 1..(Len(o) - 1) /\ Len(o) - 1 + 1 = k + 2 /\ 1 - 1 = 0
    BY <1>1
  <2>2. v[1] = v[0] * Flag + (o[k + 2] % Flag)
    BY <1>2, <2>1
  <2>3. o[k + 2] % Flag = f[k] /\ f[k] \in Nat
    BY <1>1 DEF Long
  <2>4. v[1] = f[k]
    BY <1>2, <1>3, <2>2, <2>3
  <2> QED
    BY <1>1, <2>4
<1>5. ASSUME NEW i \in 0..(k - 1), i \in S PROVE i + 1 \in S
  <2>1. /\ i + 2 \in 1..(Len(o) - 1) /\ Len(o) - (i + 2) + 1 = (k - i) + 1 /\ (i + 2) - 1 = i + 1
        /\ k - i \in 1..k /\ (k - i) - 1 = k - (i + 1) /\ i + 1 \in 0..k /\ (i + 1) + 1 = i + 2
        /\ k - i \in 0..m
    BY <1>1
  <2>2. v[i + 2] = v[i + 1] * Flag + (o[(k - i) + 1] % Flag)
    BY <1>2, <2>1
  <2>3. f[k - (i + 1)] = Flag * f[k - i] + (o[(k - i) + 1] % Flag)
    BY <2>1 DEF Long
  <2>4. f[k - i] \in Nat /\ v[i + 1] = f[k - i]
    BY <1>1, <1>5, <2>1
  <2>5. v[i + 1] * Flag = Flag * f[k - i]
    BY <1>3, <2>4
  <2> QED
    BY <2>1, <2>2, <2>3, <2>5
<1>6. k \in S
  <2> HIDE DEF S
  <2>1. 0..k \subseteq S
    BY <1>1, <1>4, <1>5, InductionUpTo
  <2> QED
    BY <1>1, <2>1
<1>7. v[k + 1] = m
  BY <1>1, <1>6
<1>8. Len(o) - 1 = k + 1
  BY <1>1
<1> QED
  BY <1>2, <1>7, <1>8

\* The beginnings of b that are integers.
Heads(b) == {n \in 1..Len(b) : Whole(SubSeq(b, 1, n))}

\* Of a string only the integer in front of it is one.
LEMMA ShortIsFirst ==
  ASSUME NEW b \in Seq(Nat), Len(b) >= 1, b[1] % Flag < Mask(Group)
  PROVE  Heads(b) = {1}
<1>1. Len(b) \in Nat
  BY LenProperties
<1>2. ASSUME NEW i \in 1..Len(b) PROVE Whole(SubSeq(b, 1, i)) <=> i = 1
  <2>1. \A j \in 1..i : b[j] \in Nat
    BY <1>1, ElementOfSeq
  <2>2. Len(SubSeq(b, 1, i)) = i /\ SubSeq(b, 1, i)[1] = b[1]
    BY <1>1, <2>1, SubSeqProperties
  <2> QED
    BY <2>2 DEF Whole
<1> QED
  BY <1>1, <1>2 DEF Heads

Begins(b, o) == Len(b) >= Len(o) /\ \A i \in 1..Len(o) : b[i] = o[i]

\* A peer finds one length at the front of what begins with a long one.
LEMMA LongIsFirst ==
  ASSUME NEW o, NEW m, NEW f, NEW k, Long(o, m, f, k), NEW b \in Seq(Nat), Begins(b, o)
  PROVE  Heads(b) = {Len(o)}
<1>1. Len(b) >= k + 2 /\ (\A i \in 1..(k + 2) : b[i] = o[i]) /\ Len(o) = k + 2
  BY DEF Begins, Long
<1>2. Len(b) \in Nat /\ k \in Nat
  BY LenProperties DEF Long
<1>3. /\ b[1] % Flag = Mask(Group) /\ ~(b[1] % Flag < Mask(Group))
      /\ \A j \in 2..(k + 1) : b[j] >= Flag
      /\ ~(b[k + 2] >= Flag)
  <2>1. b[1] = o[1] /\ b[k + 2] = o[k + 2]
    BY <1>1, <1>2
  <2>2. ASSUME NEW j \in 2..(k + 1) PROVE b[j] >= Flag
    <3>1. j - 1 \in 1..k /\ (j - 1) + 1 = j /\ j \in 1..(k + 2)
      BY <1>2
    <3>2. o[j] >= Flag
      BY <3>1 DEF Long
    <3> QED
      BY <1>1, <3>1, <3>2
  <2>3. b[k + 2] \in Nat
    BY <1>1, <1>2, ElementOfSeq
  <2> QED
    BY <2>1, <2>2, <2>3, FlagIsNumber, SMTT(30) DEF Long
<1>4. ASSUME NEW i \in 1..Len(b) PROVE Whole(SubSeq(b, 1, i)) <=> i = k + 2
  <2> DEFINE s == SubSeq(b, 1, i)
  <2>1. \A j \in 1..i : b[j] \in Nat
    BY <1>2, ElementOfSeq
  <2>2. Len(s) = i /\ \A j \in 1..i : s[j] = b[j]
    BY <1>2, <2>1, SubSeqProperties
  <2> HIDE DEF s
  <2>3. 1 \in 1..i /\ s[1] = b[1]
    BY <1>2, <2>2
  <2>4. Whole(s) <=> i > 1 /\ \A j \in 2..i : (b[j] >= Flag) = (j < i)
    BY <1>3, <2>2, <2>3 DEF Whole
  <2>5. i = k + 2 => Whole(s)
    <3> HAVE i = k + 2
    <3>1. i > 1
      BY <1>2
    <3>2. ASSUME NEW j \in 2..i PROVE (b[j] >= Flag) = (j < i)
      <4>1. j \in 2..(k + 1) \/ j = k + 2
        BY <1>2
      <4> QED
        BY <1>2, <1>3, <4>1
    <3> QED
      BY <2>4, <3>1, <3>2
  <2>6. i < k + 2 /\ i > 1 => ~Whole(s)
    <3> HAVE i < k + 2 /\ i > 1
    <3>1. i \in 2..(k + 1) /\ i \in 2..i /\ ~(i < i)
      BY <1>2
    <3> QED
      BY <1>2, <1>3, <2>4, <3>1
  <2>7. i > k + 2 => ~Whole(s)
    <3> HAVE i > k + 2
    <3>1. k + 2 \in 2..i /\ k + 2 < i
      BY <1>2
    <3> QED
      BY <1>2, <1>3, <2>4, <3>1
  <2>8. Whole(s) => i > 1
    BY <2>4
  <2>9. Whole(s) <=> i = k + 2
    BY <1>2, <2>5, <2>6, <2>7, <2>8
  <2> QED
    BY <2>9 DEF s
<1>5. k + 2 \in 1..Len(b)
  BY <1>1, <1>2
<1> QED
  BY <1>1, <1>4, <1>5 DEF Heads

\* b is a string: o, which stands for n, and its body.
IsString(n, prefix, body, o, b) ==
         /\ o \in Seq(Nat) /\ Len(o) \in Nat \ {0} /\ b \in Seq(Nat) /\ Len(b) = Len(o) + Len(body)
         /\ \A i \in 1..Len(o) : b[i] = o[i]
         /\ \A i \in 1..Len(body) : b[Len(o) + i] = body[i]
         /\ (b[1] < Flag) = (prefix = 0) /\ Heads(b) = {Len(o)} /\ Meaning(o) = n
         /\ SubSeq(b, 1, Len(o)) = o /\ SubSeq(b, Len(o) + 1, Len(b)) = body

\* A length in front of a string is found there, whatever octets follow.
LEMMA HeadFound ==
  ASSUME NEW n \in Nat, NEW prefix \in {0, Flag}, NEW body \in Seq(Nat)
  PROVE  IsString(n, prefix, body, Sent(n, prefix), Sent(n, prefix) \o body)
<1> DEFINE o == Sent(n, prefix)
           b == o \o body
<1>1. /\ o \in Seq(Nat) /\ Len(o) \in Nat \ {0} /\ Meaning(o) = n /\ (o[1] < Flag) = (prefix = 0)
      /\ \/ Len(o) = 1 /\ o[1] % Flag < Mask(Group)
         \/ \E f, k : Long(o, n - Mask(Group), f, k) /\ Len(o) = k + 2
  <2>1. CASE n < Mask(Group)
    <3>1. /\ o = <<prefix + n>> /\ o \in Seq(Nat) /\ (prefix + n) % Flag = n
          /\ (prefix + n < Flag) = (prefix = 0)
      BY <2>1, SentShort
    <3>2. Len(o) = 1 /\ o[1] = prefix + n
      BY <3>1
    <3>3. Meaning(o) = n
      BY <3>1, <3>2 DEF Meaning
    <3> QED
      BY <2>1, <3>1, <3>2, <3>3
  <2>2. CASE ~(n < Mask(Group))
    <3>1. PICK f, k : Long(o, n - Mask(Group), f, k) /\ (o[1] < Flag) = (prefix = 0)
      BY <2>2, SentLong
    <3>2. o \in Seq(Nat) /\ Len(o) = k + 2 /\ k \in Nat
      BY <3>1 DEF Long
    <3>3. Meaning(o) = Mask(Group) + (n - Mask(Group))
      BY <3>1, LongMeans
    <3>4. Mask(Group) \in Nat /\ Mask(Group) + (n - Mask(Group)) = n
      BY FlagIsNumber
    <3> QED
      BY <3>1, <3>2, <3>3, <3>4
  <2> QED
    BY <2>1, <2>2
<1> HIDE DEF o
<1>2. Len(body) \in Nat
  BY LenProperties
<1>3. /\ b \in Seq(Nat) /\ Len(b) = Len(o) + Len(body)
      /\ \A i \in 1..(Len(o) + Len(body)) : b[i] = IF i <= Len(o) THEN o[i] ELSE body[i - Len(o)]
  BY <1>1, ConcatProperties
<1> HIDE DEF b
<1>4. \A i \in 1..Len(o) : b[i] = o[i]
  <2>1. Len(o) \in Nat
    BY <1>1, LenProperties
  <2>2. \A i \in 1..Len(o) : i <= Len(o) /\ i \in 1..(Len(o) + Len(body))
    BY <1>2, <2>1
  <2> QED
    BY <1>3, <2>2
<1>5. \A i \in 1..Len(body) : b[Len(o) + i] = body[i]
  <2> TAKE i \in 1..Len(body)
  <2>1. Len(o) + i \in 1..(Len(o) + Len(body)) /\ ~(Len(o) + i <= Len(o)) /\ (Len(o) + i) - Len(o) = i
    BY <1>1, <1>2
  <2> QED
    BY <1>3, <2>1
<1>6. b[1] = o[1]
  BY <1>1, <1>4
<1>7. Heads(b) = {Len(o)}
  <2>1. CASE Len(o) = 1 /\ o[1] % Flag < Mask(Group)
    <3>1. Len(b) >= 1 /\ b[1] % Flag < Mask(Group)
      BY <1>2, <1>3, <1>6, <2>1
    <3> QED
      BY <1>3, <2>1, <3>1, ShortIsFirst, Zenon
  <2>2. CASE \E f, k : Long(o, n - Mask(Group), f, k) /\ Len(o) = k + 2
    <3>1. Begins(b, o)
      BY <1>1, <1>2, <1>3, <1>4 DEF Begins
    <3> QED
      BY <1>3, <2>2, <3>1, LongIsFirst, Zenon
  <2> QED
    BY <1>1, <2>1, <2>2
<1>8. SubSeq(b, 1, Len(o)) = o
  <2>1. \A i \in 1..Len(o) : b[i] \in Nat
    BY <1>1, <1>4, ElementOfSeq
  <2>2. /\ SubSeq(b, 1, Len(o)) \in Seq(Nat) /\ Len(SubSeq(b, 1, Len(o))) = Len(o)
        /\ \A i \in 1..Len(o) : SubSeq(b, 1, Len(o))[i] = b[i]
    BY <1>1, <2>1, SubSeqProperties
  <2> QED
    BY <1>1, <1>4, <2>2, SeqEqual
<1>9. SubSeq(b, Len(o) + 1, Len(b)) = body
  <2> DEFINE t == SubSeq(b, Len(o) + 1, Len(b))
  <2>1. \A i \in (Len(o) + 1)..Len(b) : b[i] \in Nat
    <3>1. \A i \in (Len(o) + 1)..Len(b) : i \in 1..Len(b)
      BY <1>1, <1>2, <1>3
    <3> QED
      BY <1>3, <3>1, ElementOfSeq
  <2>2. /\ t \in Seq(Nat) /\ Len(t) = Len(body)
        /\ \A i \in 1..Len(body) : t[i] = b[(Len(o) + 1) + i - 1]
    BY <1>1, <1>2, <1>3, <2>1, SubSeqProperties
  <2>3. \A i \in 1..Len(body) : t[i] = body[i]
    <3>1. \A i \in 1..Len(body) : (Len(o) + 1) + i - 1 = Len(o) + i
      BY <1>1, <1>2
    <3> QED
      BY <1>5, <2>2, <3>1
  <2> HIDE DEF t
  <2> QED
    BY <2>2, <2>3, SeqEqual DEF t
<1> QED
  BY <1>1, <1>3, <1>4, <1>5, <1>6, <1>7, <1>8, <1>9 DEF IsString, o, b

-----------------------------------------------------------------------------

\* What a group carries is a number.
LEMMA RemainderIsNat == \A x \in Nat : x % Flag \in Nat
<1>1. Flag \in Nat
  BY FlagIsNumber
<1>2. \A d \in 0..(Flag - 1) : d \in Nat
  BY <1>1
<1> QED
  BY <1>2, FlagDivides, Zenon

\* The loop of integer().
Sums == [n : Nat, unit : Nat]
Summed(b, p, s, q) ==
  [n |-> s.n + ((b[p + q] % Flag) * s.unit), unit |-> s.unit * Flag]

\* Where an integer at octet p may end, and its sums when it ends there.
LoopEnds(b, p) == {q \in p + 1..Len(b) : b[q] < Flag /\ \A r \in p + 1..q - 1 : b[r] >= Flag}
SumsOf(b, p, end, f) ==
  /\ f \in [0..(Len(b) - p) -> Sums] /\ f[0] = [n |-> b[p] % Power(Group), unit |-> 1]
  /\ \A q \in 1..(Len(b) - p) : f[q] = Summed(b, p, f[q - 1], q)
  /\ integer(b, p, Group) =
       IF Group * (end - p - 1) > MaxShift THEN [n |-> 0, next |-> 0]
       ELSE [n |-> f[end - p].n, next |-> end + 1]

\* The loop of integer() has a sum for every group.
LEMMA SumIsDefined ==
  ASSUME NEW b \in Seq(Nat), NEW p \in 1..Len(b), ~(b[p] % Power(Group) < Mask(Group)),
         NEW end, LoopEnds(b, p) = {end}
  PROVE  \E f : SumsOf(b, p, end, f)
<1> DEFINE last == LoopEnds(b, p)
           n == b[p] % Power(Group)
           N == Len(b) - p
           base == [n |-> n, unit |-> 1]
           step == [q \in 1..N |-> [s \in Sums |-> Summed(b, p, s, q)]]
           sum == CHOOSE f : f = [q \in 0..N |-> IF q = 0 THEN [n |-> n, unit |-> 1]
                                  ELSE [n |-> f[q - 1].n + ((b[p + q] % Flag) * f[q - 1].unit),
                                        unit |-> f[q - 1].unit * Flag]]
<1>1. integer(b, p, Group) =
        IF last = {} \/ Group * ((CHOOSE q \in last : TRUE) - p - 1) > MaxShift THEN [n |-> 0, next |-> 0]
        ELSE [n |-> sum[(CHOOSE q \in last : TRUE) - p].n, next |-> (CHOOSE q \in last : TRUE) + 1]
  BY Zenon DEF integer, LoopEnds
<1>2. n \in Nat
  <2>1. b[p] \in Nat
    BY ElementOfSeq
  <2> QED
    BY <2>1, RemainderIsNat DEF Flag
<1> HIDE DEF n
<1>3. N \in Nat /\ Len(b) \in Nat /\ Flag \in Nat /\ base \in Sums
  BY <1>2, LenProperties, FlagIsNumber DEF Sums
<1>4. ASSUME NEW q \in 1..N, NEW s \in Sums PROVE Summed(b, p, s, q) \in Sums
  <2>1. p + q \in 1..Len(b)
    BY <1>3
  <2>2. b[p + q] \in Nat
    BY <2>1, ElementOfSeq
  <2>3. b[p + q] % Flag \in 0..(Flag - 1)
    BY <2>2, FlagDivides
  <2>4. ASSUME NEW x \in Nat, NEW y \in Nat, NEW d \in 0..(Flag - 1)
        PROVE  x + (d * y) \in Nat /\ y * Flag \in Nat
    <3>1. d \in Nat
      BY <1>3
    <3>2. \A a, c \in Nat : a * c \in Nat /\ a + c \in Nat
      OBVIOUS
    <3> QED
      BY <1>3, <3>1, <3>2, Zenon
  <2>5. s.n \in Nat /\ s.unit \in Nat
    BY DEF Sums
  <2>6. s.n + ((b[p + q] % Flag) * s.unit) \in Nat /\ s.unit * Flag \in Nat
    BY <2>3, <2>4, <2>5, Zenon
  <2> QED
    BY <2>6 DEF Summed, Sums
<1>5. step \in [1..N -> [Sums -> Sums]]
  BY <1>4
<1>6. \A q \in 1..N : \A s \in Sums : step[q][s] = Summed(b, p, s, q)
  OBVIOUS
<1> HIDE DEF step, N, base
<1>7. PICK g \in [0..N -> Sums] : Recurs(g, N, base, step)
  BY <1>3, <1>5, RecursionUpTo
<1>8. g[0] = base /\ \A q \in 1..N : g[q - 1] \in Sums /\ g[q] = Summed(b, p, g[q - 1], q)
  <2>1. \A q \in 1..N : q - 1 \in 0..N
    BY <1>3
  <2> QED
    BY <1>6, <1>7, <2>1, Zenon DEF Recurs
<1>9. g = [q \in 0..N |-> IF q = 0 THEN base ELSE Summed(b, p, g[q - 1], q)]
  <2>1. \A q \in 0..N : q = 0 \/ q \in 1..N
    BY <1>3
  <2> QED
    BY <1>7, <1>8, <2>1
<1>10. sum = [q \in 0..N |-> IF q = 0 THEN base ELSE Summed(b, p, sum[q - 1], q)]
  BY <1>9, Zenon DEF Summed, base, n
<1> HIDE DEF sum
<1>11. sum[0] = base /\ \A q \in 1..N : sum[q] = Summed(b, p, sum[q - 1], q)
  <2>1. 0 \in 0..N /\ \A q \in 1..N : q \in 0..N /\ q # 0
    BY <1>3
  <2> QED
    BY <1>10, <2>1
<1>12. \A q \in 0..N : sum[q] \in Sums
  <2>1. sum[0] \in Sums
    BY <1>3, <1>11
  <2>2. \A q \in 1..N : sum[q - 1] \in Sums => sum[q] \in Sums
    BY <1>4, <1>11, Zenon
  <2> QED
    BY <1>3, <2>1, <2>2, RecursionStays, Zenon
<1>13. sum \in [0..N -> Sums]
  BY <1>10, <1>12
<1>14. (CHOOSE q \in last : TRUE) = end /\ last # {}
  BY Zenon
<1>15. integer(b, p, Group) =
        IF Group * (end - p - 1) > MaxShift THEN [n |-> 0, next |-> 0]
        ELSE [n |-> sum[end - p].n, next |-> end + 1]
  BY <1>1, <1>14, Zenon DEF n
<1> QED
  BY <1>11, <1>13, <1>15, Zenon DEF N, base, SumsOf, n

Summing(s, k, m) == s[k + 1].n = Mask(Group) + m

\* The loop has n when it has read the last group.
LEMMA LongIsSummed ==
  ASSUME NEW o, NEW m, NEW f, NEW k, Long(o, m, f, k), NEW b \in Seq(Nat), Begins(b, o),
         b[1] % Power(Group) = Mask(Group), NEW s, NEW e, SumsOf(b, 1, e, s)
  PROVE  Summing(s, k, m)
<1> DEFINE M == Mask(Group)
<1>1. /\ m \in Nat /\ k \in Nat /\ k <= m /\ f \in [0..m -> Nat] /\ f[0] = m
      /\ o \in Seq(Nat) /\ Len(o) = k + 2 /\ o[k + 2] % Flag = f[k]
      /\ \A i \in 1..k : f[i - 1] = Flag * f[i] + (o[i + 1] % Flag)
  BY DEF Long
<1>2. Len(b) \in Nat /\ Len(b) >= k + 2 /\ \A i \in 1..(k + 2) : b[i] = o[i]
  BY <1>1, LenProperties DEF Begins
<1>3. /\ s \in [0..(Len(b) - 1) -> Sums] /\ s[0] = [n |-> Mask(Group), unit |-> 1]
      /\ \A q \in 1..(Len(b) - 1) : s[q] = Summed(b, 1, s[q - 1], q)
  BY DEF SumsOf
<1>4. Flag \in Nat /\ M \in Nat
  BY FlagIsNumber
<1> HIDE DEF M
<1>5. \A q \in 1..(k + 1) : /\ s[q].n = s[q - 1].n + ((o[q + 1] % Flag) * s[q - 1].unit)
                            /\ s[q].unit = s[q - 1].unit * Flag
                            /\ s[q - 1].n \in Nat /\ s[q - 1].unit \in Nat
                            /\ o[q + 1] % Flag \in Nat
  <2> TAKE q \in 1..(k + 1)
  <2>1. q \in 1..(Len(b) - 1) /\ q - 1 \in 0..(Len(b) - 1) /\ 1 + q \in 1..(k + 2) /\ 1 + q = q + 1
    BY <1>1, <1>2
  <2>2. s[q] = Summed(b, 1, s[q - 1], q) /\ b[1 + q] = o[q + 1]
    BY <1>3, <1>2, <2>1
  <2>3. s[q - 1] \in Sums
    BY <1>3, <2>1
  <2>4. s[q - 1].n \in Nat /\ s[q - 1].unit \in Nat
    BY <2>3 DEF Sums
  <2>5. o[q + 1] \in Nat
    BY <1>1, <2>1, ElementOfSeq
  <2>6. o[q + 1] % Flag \in Nat
    BY <2>5, RemainderIsNat
  <2> QED
    BY <2>2, <2>4, <2>6 DEF Summed
<1> DEFINE S == {q \in 0..k : s[q].n + (s[q].unit * f[q]) = M + m}
<1>6. 0 \in S
  <2>1. s[0].n = M /\ s[0].unit = 1
    BY <1>3 DEF M
  <2> QED
    BY <1>1, <2>1
<1>7. ASSUME NEW i \in 0..(k - 1), i \in S PROVE i + 1 \in S
  <2> DEFINE q == i + 1
             d == o[q + 1] % Flag
  <2>1. /\ q \in 1..k /\ q - 1 = i /\ q \in 1..(k + 1) /\ q \in 0..m /\ i \in 0..m
        /\ i \in 0..k /\ q \in 0..k
    BY <1>1
  <2>2. /\ s[q].n = s[i].n + (d * s[i].unit) /\ s[q].unit = s[i].unit * Flag
        /\ s[i].n \in Nat /\ s[i].unit \in Nat /\ d \in Nat
    BY <1>5, <2>1
  <2>3. f[i] = Flag * f[q] + d /\ f[q] \in Nat /\ f[i] \in Nat
    BY <1>1, <2>1
  <2>4. s[i].n + (s[i].unit * f[i]) = M + m
    BY <1>7
  <2> HIDE DEF q, d
  <2>5. s[q].n + (s[q].unit * f[q]) = (s[i].n + (d * s[i].unit)) + ((s[i].unit * Flag) * f[q])
    BY <2>2
  <2>6. s[q].n + (s[q].unit * f[q]) = s[i].n + (s[i].unit * f[i])
    <3> DEFINE z == s[q].n + (s[q].unit * f[q])
    <3>1. PICK x \in Nat, u \in Nat, y \in Nat, t \in Nat :
            x = s[i].n /\ u = s[i].unit /\ y = f[q] /\ t = f[i]
      BY <2>2, <2>3
    <3>2. z = (x + (d * u)) + ((u * Flag) * y)
      BY <2>5, <3>1
    <3>3. t = Flag * y + d /\ d \in Nat
      BY <2>2, <2>3, <3>1
    <3> HIDE DEF z
    <3>4. z = x + (u * t)
      BY <1>4, <3>2, <3>3
    <3> QED
      BY <3>1, <3>4 DEF z
  <2>7. s[q].n + (s[q].unit * f[q]) = M + m
    BY <2>3, <2>4, <2>6, Zenon
  <2> QED
    BY <2>1, <2>7 DEF q
<1>8. k \in S
  <2> HIDE DEF S
  <2>1. 0..k \subseteq S
    BY <1>1, <1>6, <1>7, InductionUpTo
  <2> QED
    BY <1>1, <2>1
<1>9. s[k].n + (s[k].unit * f[k]) = M + m /\ f[k] \in Nat
  BY <1>1, <1>8
<1>10. /\ s[k + 1].n = s[k].n + (f[k] * s[k].unit)
       /\ s[k].n \in Nat /\ s[k].unit \in Nat
  <2>1. k + 1 \in 1..(k + 1) /\ (k + 1) - 1 = k /\ (k + 1) + 1 = k + 2
    BY <1>1
  <2> QED
    BY <1>1, <1>5, <2>1
<1>11. f[k] * s[k].unit = s[k].unit * f[k]
  BY <1>9, <1>10
<1> QED
  BY <1>9, <1>10, <1>11 DEF M, Summing

ReadsBack(b, n, o) == integer(b, 1, Group) = [n |-> n, next |-> Len(o) + 1]

\* integer() reads what a peer writes, if it is not too long for it.
LEMMA IntegerBack ==
  ASSUME NEW n \in Nat, NEW prefix \in {0, Flag}, NEW body \in Seq(Nat), Readable(n),
         NEW o, NEW b, IsString(n, prefix, body, o, b), o = Sent(n, prefix)
  PROVE  ReadsBack(b, n, o)
<1>1. /\ o \in Seq(Nat) /\ Len(o) \in Nat \ {0} /\ b \in Seq(Nat) /\ Len(b) = Len(o) + Len(body)
      /\ \A i \in 1..Len(o) : b[i] = o[i]
  BY Zenon DEF IsString
<1>2. Len(body) \in Nat /\ Len(b) \in Nat /\ 1 \in 1..Len(b) /\ b[1] = o[1]
  BY <1>1, LenProperties
<1>3. CASE n < Mask(Group)
  <2>1. o = <<prefix + n>> /\ (prefix + n) % Flag = n
    BY <1>3, SentShort
  <2>2. Len(o) = 1 /\ b[1] = prefix + n
    BY <1>2, <2>1
  <2>3. b[1] % Power(Group) = n
    BY <2>1, <2>2 DEF Flag
  <2>4. integer(b, 1, Group) = [n |-> b[1] % Power(Group), next |-> 1 + 1]
    BY <1>3, <2>3 DEF integer
  <2> QED
    BY <2>2, <2>3, <2>4 DEF ReadsBack
<1>4. CASE ~(n < Mask(Group))
  <2> DEFINE M == Mask(Group)
             last == LoopEnds(b, 1)
  <2>1. PICK m, f, k : /\ Long(o, m, f, k) /\ Mask(Group) + m = n
                       /\ Group * k <= MaxShift
    <3>1. PICK f, k : Long(o, n - Mask(Group), f, k) /\ Group * k <= MaxShift
      BY <1>4, SentLong
    <3>2. Mask(Group) + (n - Mask(Group)) = n
      BY FlagIsNumber
    <3> QED
      BY <3>1, <3>2
  <2>2. /\ k \in Nat /\ Len(o) = k + 2 /\ o[1] % Flag = M /\ o[k + 2] < Flag
        /\ \A i \in 1..k : o[i + 1] >= Flag
    BY <2>1 DEF Long
  <2>3. Begins(b, o)
    BY <1>1, <1>2 DEF Begins
  <2>4. M = b[1] % Power(Group) /\ M \in Nat /\ ~(M < M)
    BY <1>2, <2>2, FlagIsNumber DEF Flag
  <2>5. last = {k + 2}
    <3>1. k + 2 \in last
      <4>1. k + 2 \in 1 + 1..Len(b) /\ b[k + 2] < Flag
        BY <1>1, <1>2, <2>2
      <4>2. ASSUME NEW r \in 1 + 1..(k + 2) - 1 PROVE b[r] >= Flag
        <5>1. r - 1 \in 1..k /\ (r - 1) + 1 = r /\ r \in 1..Len(o)
          BY <2>2
        <5>2. o[r] >= Flag
          BY <2>2, <5>1
        <5> QED
          BY <1>1, <5>1, <5>2
      <4> QED
        BY <4>1, <4>2 DEF LoopEnds
    <3>2. ASSUME NEW q \in last PROVE q = k + 2
      <4>1. q \in 2..Len(b) /\ b[q] < Flag /\ \A r \in 2..(q - 1) : b[r] >= Flag
        BY DEF LoopEnds
      <4>2. ~(q < k + 2)
        <5> SUFFICES ASSUME q < k + 2 PROVE FALSE
          OBVIOUS
        <5>1. q - 1 \in 1..k /\ (q - 1) + 1 = q /\ q \in 1..Len(o)
          BY <2>2, <4>1
        <5>2. b[q] >= Flag
          BY <1>1, <2>2, <5>1
        <5>3. b[q] \in Nat
          BY <1>2, <4>1, <1>1, ElementOfSeq, SMTT(30)
        <5> QED
          BY <4>1, <5>2, <5>3, FlagIsNumber
      <4>3. ~(q > k + 2)
        <5> SUFFICES ASSUME q > k + 2 PROVE FALSE
          OBVIOUS
        <5>1. k + 2 \in 2..(q - 1) /\ k + 2 \in 1..Len(o) /\ k + 2 \in 1..Len(b)
          BY <1>1, <1>2, <2>2, <4>1
        <5>2. b[k + 2] >= Flag /\ b[k + 2] < Flag
          BY <1>1, <2>2, <4>1, <5>1
        <5>3. b[k + 2] \in Nat
          BY <1>1, <5>1, ElementOfSeq
        <5> QED
          BY <5>2, <5>3, FlagIsNumber
      <4> QED
        BY <2>2, <4>1, <4>2, <4>3
    <3> HIDE DEF last
    <3> QED
      BY <3>1, <3>2
  <2> HIDE DEF M, last
  <2>6. PICK s : SumsOf(b, 1, k + 2, s)
    <3>1. ~(b[1] % Power(Group) < Mask(Group)) /\ 1 \in 1..Len(b)
      BY <1>2, <2>4 DEF M
    <3> QED
      BY <1>1, <2>5, <3>1, SumIsDefined DEF last
  <2>7. (k + 2) - 1 - 1 = k /\ (k + 2) - 1 = k + 1
    BY <2>2
  <2>8. s[k + 1].n = Mask(Group) + m
    <3>1. SumsOf(b, 1, k + 2, s) /\ b[1] % Power(Group) = Mask(Group)
      BY <2>4, <2>6 DEF M
    <3>2. Summing(s, k, m)
      BY <1>1, <2>1, <2>3, <3>1, LongIsSummed, Zenon
    <3> QED
      BY <3>2 DEF Summing
  <2>9. ~(Group * k > MaxShift)
    BY <2>1, <2>2, FlagIsNumber, StringsAssumption
  <2> QED
    BY <2>1, <2>2, <2>6, <2>7, <2>8, <2>9 DEF SumsOf, ReadsBack
<1> QED
  BY <1>3, <1>4

Skipped(s, x) == skip_string(Append(s, x), 1) = Len(s) + 1

Associated(x, y, z) == (x \o y) \o z = x \o (y \o z)

\* Three sequences are the same, however they are grouped.
LEMMA SequencesAssociate ==
  \A S : \A x, y, z \in Seq(S) : Associated(x, y, z)
<1> DEFINE Associative(S) == \A x \in Seq(S) : \A y \in Seq(S) : \A z \in Seq(S) :
                               (x \o y) \o z = x \o (y \o z)
<1>1. \A S : Associative(S)
  BY ConcatAssociative, Zenon
<1> QED
  BY <1>1, Zenon DEF Associated

\* skip_string() finds the end of a string.
LEMMA StringSkipped ==
  ASSUME NEW body \in Seq(Nat), NEW prefix \in {0, Flag}, Readable(Len(body)), NEW x \in Nat,
         NEW s, NEW o, IsString(Len(body), prefix, body, o, s), o = Sent(Len(body), prefix), s = o \o body
  PROVE  Skipped(s, x)
<1> DEFINE n == Len(body)
           b == Append(s, x)
           rest == Append(body, x)
<1>1. n \in Nat
  BY LenProperties
<1>2. /\ o \in Seq(Nat) /\ Len(o) \in Nat \ {0} /\ s \in Seq(Nat) /\ Len(s) = Len(o) + n
  BY <1>1 DEF IsString
<1>3. rest \in Seq(Nat) /\ b = o \o rest /\ Len(b) = Len(o) + n + 1
  <2>1. rest = body \o <<x>> /\ b = s \o <<x>> /\ <<x>> \in Seq(Nat)
    BY <1>2, AppendIsConcat, SMTT(30)
  <2>2. (o \o body) \o <<x>> = o \o (body \o <<x>>)
    <3>1. o \in Seq(Nat) /\ <<x>> \in Seq(Nat)
      BY <1>2
    <3> HIDE DEF b, rest, n
    <3>2. Associated(o, body, <<x>>)
      BY <3>1, SequencesAssociate, Zenon
    <3> QED
      BY <3>2, Zenon DEF Associated
  <2>3. rest \in Seq(Nat) /\ Len(b) = Len(s) + 1
    BY <1>2, AppendProperties
  <2> QED
    BY <1>2, <2>1, <2>2, <2>3
<1> HIDE DEF b, rest, n
<1>4. integer(b, 1, Group) = [n |-> n, next |-> Len(o) + 1]
  <2>1. IsString(n, prefix, rest, o, b)
    BY <1>1, <1>3, HeadFound DEF n
  <2>2. rest \in Seq(Nat) /\ Readable(n) /\ o = Sent(n, prefix)
    BY <1>3 DEF n
  <2>3. ReadsBack(b, n, o)
    BY <1>1, <2>1, <2>2, IntegerBack, Zenon
  <2> QED
    BY <2>3 DEF ReadsBack
<1>5. Len(o) + 1 # 0 /\ ~(n > Len(b) - (Len(o) + 1) + 1) /\ (Len(o) + 1) + n = Len(s) + 1
  BY <1>1, <1>2, <1>3
<1> QED
  BY <1>4, <1>5 DEF skip_string, b, Skipped

-----------------------------------------------------------------------------
(***************************************************************************)
(* Octets and their bits.                                                  *)
(***************************************************************************)
LEMMA Multiples ==
  /\ Octet \in Nat /\ Octet >= 2
  /\ \A a \in Nat : Octet * a \in Nat /\ Octet * (a + 1) = Octet * a + Octet
  /\ \A a, b \in Nat : a <= b => Octet * a <= Octet * b
<1>1. Octet \in Nat /\ Octet >= 2
  BY StringsAssumption
<1>2. ASSUME NEW o \in Nat, NEW a \in Nat PROVE o * a \in Nat /\ o * (a + 1) = o * a + o
  OBVIOUS
<1>3. ASSUME NEW o \in Nat, NEW a \in Nat, NEW b \in Nat, a <= b PROVE o * a <= o * b
  <2>1. PICK d \in Nat : b = a + d
    <3>1. b - a \in Nat /\ b = a + (b - a)
      BY <1>3
    <3> QED
      BY <3>1
  <2>2. o * (a + d) = o * a + o * d
    OBVIOUS
  <2>3. o * d \in Nat /\ o * a \in Nat
    OBVIOUS
  <2> QED
    BY <2>1, <2>2, <2>3
<1> QED
  BY <1>1, <1>2, <1>3

\* A number of bits as octets and the bits behind them.
LEMMA OctetDivision ==
  ASSUME NEW n \in Nat
  PROVE  /\ n \div Octet \in Nat /\ n % Octet \in 0..(Octet - 1)
         /\ n = Octet * (n \div Octet) + (n % Octet)
<1>1. Octet \in Nat \ {0}
  BY Multiples
<1> QED
  BY <1>1, Division

\* The same for octets, whose size is a constant.
LEMMA OctetDivisionIsUnique ==
  ASSUME NEW q \in Nat, NEW r \in 0..(Octet - 1), NEW n, n = Octet * q + r
  PROVE  n \div Octet = q /\ n % Octet = r
<1>1. Octet \in Nat \ {0}
  BY Multiples
<1> QED
  BY <1>1, DivisionIsUnique

\* Octet j of some bits.
Slice(bits, j) == SubSeq(bits, Octet * (j - 1) + 1, Octet * j)

\* The bits of an octet of a bit string.
LEMMA SliceProperties ==
  ASSUME NEW bits \in Seq(Bit), NEW j \in Nat \ {0}, Octet * j <= Len(bits)
  PROVE  /\ Slice(bits, j) \in Seq(Bit) /\ Len(Slice(bits, j)) = Octet
         /\ \A i \in 1..Octet : Slice(bits, j)[i] = bits[Octet * (j - 1) + i]
<1> DEFINE m == Octet * (j - 1)
           s == Slice(bits, j)
<1>1. m \in Nat /\ Octet * j = m + Octet /\ Octet \in Nat /\ Octet >= 2
  <2>1. j - 1 \in Nat /\ (j - 1) + 1 = j
    OBVIOUS
  <2> QED
    BY <2>1, Multiples
<1>2. Len(bits) \in Nat
  BY LenProperties
<1>3. s = SubSeq(bits, m + 1, m + Octet)
  BY <1>1 DEF Slice
<1> HIDE DEF m, s
<1>4. \A i \in (m + 1)..(m + Octet) : bits[i] \in Bit
  <2>1. \A i \in (m + 1)..(m + Octet) : i \in 1..Len(bits)
    BY <1>1, <1>2
  <2> QED
    BY <2>1, ElementOfSeq
<1>5. m + 1 \in Int /\ m + Octet \in Int /\ m + 1 <= m + Octet
  BY <1>1
<1>6. /\ s \in Seq(Bit)
      /\ Len(s) = IF m + 1 <= m + Octet THEN (m + Octet) - (m + 1) + 1 ELSE 0
      /\ \A i \in 1..((m + Octet) - (m + 1) + 1) : s[i] = bits[(m + 1) + i - 1]
  BY <1>3, <1>4, <1>5, SubSeqProperties
<1>7. (m + Octet) - (m + 1) + 1 = Octet /\ \A i \in 1..Octet : (m + 1) + i - 1 = m + i
  BY <1>1
<1>8. Len(s) = Octet /\ \A i \in 1..Octet : s[i] = bits[m + i]
  BY <1>5, <1>6, <1>7
<1> QED
  BY <1>6, <1>8 DEF m, s

\* An octet has the bits of its slice.
LEMMA OctetsProperties ==
  ASSUME NEW bits \in Seq(Bit)
  PROVE  /\ Octets(bits) \in Seq(Nat) /\ Len(Octets(bits)) = Len(bits) \div Octet
         /\ \A j \in 1..Len(Octets(bits)) : /\ Octet * j <= Len(bits)
                                            /\ Octets(bits)[j] = Number(Slice(bits, j))
<1> DEFINE q == Len(bits) \div Octet
<1>1. Len(bits) \in Nat
  BY LenProperties
<1>2. q \in Nat /\ Octet * q <= Len(bits)
  <2>1. q \in Nat /\ Len(bits) % Octet \in Nat /\ Len(bits) = Octet * q + (Len(bits) % Octet)
    <3>1. Len(bits) % Octet \in 0..(Octet - 1) /\ \A x \in 0..(Octet - 1) : x \in Nat
      BY <1>1, OctetDivision, Multiples
    <3> QED
      BY <1>1, <3>1, OctetDivision
  <2>2. ASSUME NEW a \in Nat, NEW r \in Nat, NEW n, n = a + r PROVE a <= n
    BY <2>2
  <2>3. Octet * q \in Nat
    BY <2>1, Multiples
  <2> QED
    BY <2>1, <2>2, <2>3
<1>3. Octets(bits) = [j \in 1..q |-> Number(Slice(bits, j))]
  BY DEF Octets, Slice
<1> HIDE DEF q
<1>4. ASSUME NEW j \in 1..q
      PROVE  Octet * j <= Len(bits) /\ Number(Slice(bits, j)) \in Nat
  <2>1. j \in Nat \ {0} /\ j <= q
    BY <1>2
  <2>2. Octet * j <= Octet * q /\ Octet * j \in Nat /\ Octet * q \in Nat
    BY <1>2, <2>1, Multiples
  <2>3. Octet * j <= Len(bits)
    BY <1>1, <1>2, <2>2
  <2>4. Slice(bits, j) \in Seq(Bit)
    BY <2>1, <2>3, SliceProperties
  <2> QED
    BY <2>3, <2>4, NumberBack
<1>5. Octets(bits) \in Seq(Nat) /\ Len(Octets(bits)) = q
  BY <1>2, <1>3, <1>4
<1>6. \A j \in 1..q : Octets(bits)[j] = Number(Slice(bits, j))
  BY <1>3
<1> QED
  BY <1>4, <1>5, <1>6 DEF q

\* Whole octets have the bits that they were made of.
LEMMA OctetBitsBack ==
  ASSUME NEW bits \in Seq(Bit), Len(bits) % Octet = 0
  PROVE  OctetBits(Octets(bits)) = bits
<1> DEFINE o == Octets(bits)
           q == Len(bits) \div Octet
<1>1. Len(bits) \in Nat /\ bits = [i \in 1..Len(bits) |-> bits[i]]
  BY LenProperties
<1>2. q \in Nat /\ Len(bits) = Octet * q
  <2>1. q \in Nat /\ Len(bits) = Octet * q + 0
    BY <1>1, OctetDivision
  <2>2. Octet * q \in Nat
    BY <2>1, Multiples
  <2> QED
    BY <2>1, <2>2
<1>3. Len(o) = q /\ \A j \in 1..q : Octet * j <= Len(bits) /\ o[j] = Number(Slice(bits, j))
  BY OctetsProperties
<1> HIDE DEF o, q
<1>4. ASSUME NEW i \in 1..Len(bits)
      PROVE  Bits(o[((i - 1) \div Octet) + 1], Octet)[((i - 1) % Octet) + 1] = bits[i]
  <2> DEFINE h == (i - 1) \div Octet
             r == (i - 1) % Octet
             j == h + 1
  <2>1. i - 1 \in Nat /\ Octet \in Nat
    BY <1>1, Multiples
  <2>2. h \in Nat /\ r \in 0..(Octet - 1) /\ i - 1 = Octet * h + r
    BY <2>1, OctetDivision
  <2> HIDE DEF h, r
  <2>3. Octet * h \in Nat /\ j \in Nat \ {0} /\ j - 1 = h /\ r + 1 \in 1..Octet
        /\ i = Octet * h + (r + 1)
    <3>1. Octet * h \in Nat
      BY <2>2, Multiples
    <3>2. ASSUME NEW a \in Nat, i - 1 = a + r PROVE i = a + (r + 1)
      BY <2>1, <2>2, <3>2
    <3> QED
      BY <2>1, <2>2, <3>1, <3>2
  <2>4. j \in 1..q
    <3>1. CASE q < j
      <4>1. q <= h
        BY <1>2, <2>2, <3>1
      <4>2. Octet * q <= Octet * h /\ Octet * q \in Nat
        BY <1>2, <2>2, <4>1, Multiples
      <4>3. i <= Octet * q
        BY <1>2
      <4>4. ASSUME NEW a \in Nat, NEW b \in Nat, b <= a, i = a + (r + 1), i <= b PROVE FALSE
        BY <2>1, <2>2, <4>4
      <4> QED
        BY <2>3, <4>2, <4>3, <4>4
    <3> QED
      BY <1>2, <2>3, <3>1
  <2>5. Octet * j <= Len(bits) /\ o[j] = Number(Slice(bits, j))
    BY <1>3, <2>4
  <2>6. /\ Slice(bits, j) \in Seq(Bit) /\ Len(Slice(bits, j)) = Octet
        /\ Slice(bits, j)[r + 1] = bits[Octet * (j - 1) + (r + 1)]
    BY <2>3, <2>5, SliceProperties
  <2>7. Bits(o[j], Octet) = Slice(bits, j)
    BY <2>5, <2>6, NumberBack
  <2> QED
    BY <2>3, <2>6, <2>7 DEF h, r
<1>5. OctetBits(o) = [i \in 1..Len(bits) |->
                        Bits(o[((i - 1) \div Octet) + 1], Octet)[((i - 1) % Octet) + 1]]
  BY <1>2, <1>3 DEF OctetBits
<1>6. OctetBits(o) = [i \in 1..Len(bits) |-> bits[i]]
  BY <1>4, <1>5
<1> QED
  BY <1>1, <1>6 DEF o

\* Bits of octets behind one another.
LEMMA MultipleOfSum ==
  \A a, b \in Nat : Octet * (a + b) = Octet * a + Octet * b
<1>1. ASSUME NEW o \in Nat, NEW a \in Nat, NEW b \in Nat PROVE o * (a + b) = o * a + o * b
  OBVIOUS
<1> QED
  BY <1>1, Multiples

\* The bits behind the whole octets.
LEMMA RestProperties ==
  ASSUME NEW bits \in Seq(Bit)
  PROVE  /\ Rest(bits) \in Seq(Bit) /\ Len(Rest(bits)) = Len(bits) % Octet
         /\ \A i \in 1..Len(Rest(bits)) : Rest(bits)[i] = bits[Octet * (Len(bits) \div Octet) + i]
<1> DEFINE n == Len(bits)
           m == Octet * (n \div Octet)
           r == n % Octet
           s == Rest(bits)
<1>1. n \in Nat
  BY LenProperties
<1>2. m \in Nat /\ r \in Nat /\ n = m + r
  <2>1. n \div Octet \in Nat /\ r \in 0..(Octet - 1) /\ n = m + r
    BY <1>1, OctetDivision
  <2>2. m \in Nat
    BY <2>1, Multiples
  <2>3. \A x \in 0..(Octet - 1) : x \in Nat
    BY Multiples
  <2> QED
    BY <2>1, <2>2, <2>3
<1>3. s = SubSeq(bits, m + 1, n)
  BY DEF Rest
<1>4. \A i \in 1..n : bits[i] \in Bit
  BY ElementOfSeq
<1> HIDE DEF m, s, r, n
<1>5. \A i \in (m + 1)..n : bits[i] \in Bit
  BY <1>1, <1>2, <1>4
<1>6. m + 1 \in Int /\ n \in Int
  BY <1>1, <1>2
<1>7. /\ s \in Seq(Bit) /\ Len(s) = IF m + 1 <= n THEN n - (m + 1) + 1 ELSE 0
      /\ \A i \in 1..(n - (m + 1) + 1) : s[i] = bits[(m + 1) + i - 1]
  BY <1>3, <1>5, <1>6, SubSeqProperties
<1>8. n - (m + 1) + 1 = r /\ \A i \in 1..r : (m + 1) + i - 1 = m + i
  BY <1>1, <1>2
<1>9. Len(s) = r
  BY <1>1, <1>2, <1>7
<1> QED
  BY <1>7, <1>8, <1>9 DEF m, s, r, n

\* Whole octets in front of other bits stay as they are.
LEMMA OctetsOfConcat ==
  ASSUME NEW x \in Seq(Bit), NEW y \in Seq(Bit), Len(x) % Octet = 0
  PROVE  /\ Octets(x \o y) = Octets(x) \o Octets(y)
         /\ Rest(x \o y) = Rest(y)
<1> DEFINE z == x \o y
           q == Len(x) \div Octet
           p == Len(y) \div Octet
           r == Len(y) % Octet
<1>1. /\ z \in Seq(Bit) /\ Len(z) = Len(x) + Len(y)
      /\ \A i \in 1..(Len(x) + Len(y)) : z[i] = IF i <= Len(x) THEN x[i] ELSE y[i - Len(x)]
  BY ConcatProperties
<1> HIDE DEF z
<1>2. Len(x) \in Nat /\ Len(y) \in Nat
  BY LenProperties
<1>3. /\ q \in Nat /\ p \in Nat /\ r \in 0..(Octet - 1)
      /\ Len(x) = Octet * q + 0 /\ Len(y) = Octet * p + r
  BY <1>2, OctetDivision
<1> HIDE DEF q, p, r
<1>4. /\ Octet * q \in Nat /\ Octet * p \in Nat /\ Octet \in Nat /\ Octet >= 2
      /\ Octet * (q + p) = Octet * q + Octet * p /\ q + p \in Nat
  BY <1>3, Multiples, MultipleOfSum
<1>5. Len(x) = Octet * q /\ Len(z) = Octet * (q + p) + r
  BY <1>1, <1>3, <1>4
<1>6. Len(z) \div Octet = q + p /\ Len(z) % Octet = r
  BY <1>3, <1>4, <1>5, OctetDivisionIsUnique
<1>7. ASSUME NEW j \in 1..q PROVE Slice(z, j) = Slice(x, j)
  <2>1. j \in Nat \ {0} /\ j <= q /\ j - 1 \in Nat /\ (j - 1) + 1 = j
    BY <1>3
  <2>2. /\ Octet * j <= Octet * q /\ Octet * j \in Nat /\ Octet * (j - 1) \in Nat
        /\ Octet * j = Octet * (j - 1) + Octet
    BY <1>3, <2>1, Multiples
  <2>3. Octet * j <= Len(x) /\ Octet * j <= Len(z)
    BY <1>1, <1>2, <1>4, <1>5, <2>2
  <2>4. /\ Slice(x, j) \in Seq(Bit) /\ Len(Slice(x, j)) = Octet
        /\ \A i \in 1..Octet : Slice(x, j)[i] = x[Octet * (j - 1) + i]
    BY <2>1, <2>3, SliceProperties
  <2>5. /\ Slice(z, j) \in Seq(Bit) /\ Len(Slice(z, j)) = Octet
        /\ \A i \in 1..Octet : Slice(z, j)[i] = z[Octet * (j - 1) + i]
    BY <1>1, <2>1, <2>3, SliceProperties
  <2>6. ASSUME NEW i \in 1..Octet PROVE z[Octet * (j - 1) + i] = x[Octet * (j - 1) + i]
    <3>1. Octet * (j - 1) + i \in 1..(Len(x) + Len(y)) /\ Octet * (j - 1) + i <= Len(x)
      <4>1. ASSUME NEW m \in Nat, m + Octet <= Len(x)
            PROVE  m + i \in 1..(Len(x) + Len(y)) /\ m + i <= Len(x)
        BY <1>2, <1>4, <4>1
      <4> QED
        BY <2>2, <2>3, <4>1
    <3> QED
      BY <1>1, <3>1
  <2>7. \A i \in 1..Octet : Slice(z, j)[i] = Slice(x, j)[i]
    BY <2>4, <2>5, <2>6
  <2> QED
    BY <2>4, <2>5, <2>7, SeqEqual
<1>8. ASSUME NEW j \in 1..p PROVE Slice(z, q + j) = Slice(y, j)
  <2>1. /\ j \in Nat \ {0} /\ j <= p /\ j - 1 \in Nat /\ (j - 1) + 1 = j
        /\ q + j \in Nat \ {0} /\ q + j <= q + p /\ (q + j) - 1 = q + (j - 1)
    BY <1>3
  <2>2. /\ Octet * j <= Octet * p /\ Octet * j \in Nat /\ Octet * (j - 1) \in Nat
        /\ Octet * j = Octet * (j - 1) + Octet
        /\ Octet * (q + (j - 1)) = Octet * q + Octet * (j - 1)
        /\ Octet * (q + j) = Octet * q + Octet * j
    BY <1>3, <2>1, Multiples, MultipleOfSum
  <2>3. Octet * j <= Len(y) /\ Octet * (q + j) <= Len(z)
    <3>1. ASSUME NEW a \in Nat, NEW b \in Nat, a <= b, NEW c, c = b + r PROVE a <= c
      BY <1>3, <1>4, <3>1
    <3>2. Octet * j <= Len(y)
      BY <1>3, <1>4, <2>2, <3>1
    <3> QED
      BY <1>1, <1>2, <1>4, <1>5, <2>2, <3>2
  <2>4. /\ Slice(y, j) \in Seq(Bit) /\ Len(Slice(y, j)) = Octet
        /\ \A i \in 1..Octet : Slice(y, j)[i] = y[Octet * (j - 1) + i]
    BY <2>1, <2>3, SliceProperties
  <2>5. /\ Slice(z, q + j) \in Seq(Bit) /\ Len(Slice(z, q + j)) = Octet
        /\ \A i \in 1..Octet : Slice(z, q + j)[i] = z[Octet * ((q + j) - 1) + i]
    BY <1>1, <2>1, <2>3, SliceProperties
  <2>6. ASSUME NEW i \in 1..Octet PROVE z[Octet * ((q + j) - 1) + i] = y[Octet * (j - 1) + i]
    <3> DEFINE m == Octet * (j - 1)
    <3>1. Octet * ((q + j) - 1) = Len(x) + m
      BY <1>5, <2>1, <2>2
    <3>2. m \in Nat /\ m + Octet <= Len(y)
      BY <2>2, <2>3
    <3> HIDE DEF m
    <3>3. /\ (Len(x) + m) + i \in 1..(Len(x) + Len(y)) /\ ~((Len(x) + m) + i <= Len(x))
          /\ ((Len(x) + m) + i) - Len(x) = m + i
      BY <1>2, <1>4, <3>2
    <3> QED
      BY <1>1, <3>1, <3>3 DEF m
  <2>7. \A i \in 1..Octet : Slice(z, q + j)[i] = Slice(y, j)[i]
    BY <2>4, <2>5, <2>6
  <2> QED
    BY <2>4, <2>5, <2>7, SeqEqual
<1>9. Octets(z) = Octets(x) \o Octets(y)
  <2> DEFINE a == Octets(x)
             b == Octets(y)
             c == Octets(z)
  <2>1. /\ a \in Seq(Nat) /\ Len(a) = q /\ \A j \in 1..q : a[j] = Number(Slice(x, j))
        /\ b \in Seq(Nat) /\ Len(b) = p /\ \A j \in 1..p : b[j] = Number(Slice(y, j))
        /\ c \in Seq(Nat) /\ Len(c) = q + p /\ \A j \in 1..(q + p) : c[j] = Number(Slice(z, j))
    BY <1>1, <1>6, OctetsProperties DEF q, p
  <2> HIDE DEF a, b, c
  <2>2. /\ a \o b \in Seq(Nat) /\ Len(a \o b) = q + p
        /\ \A j \in 1..(q + p) : (a \o b)[j] = IF j <= q THEN a[j] ELSE b[j - q]
    BY <2>1, ConcatProperties, ZenonT(40)
  <2>3. ASSUME NEW j \in 1..(q + p) PROVE c[j] = (a \o b)[j]
    <3>1. CASE j <= q
      <4>1. j \in 1..q
        BY <1>3, <3>1
      <4> QED
        BY <1>7, <2>1, <2>2, <3>1, <4>1
    <3>2. CASE ~(j <= q)
      <4>1. j - q \in 1..p /\ q + (j - q) = j
        BY <1>3, <3>2
      <4>2. Slice(z, j) = Slice(y, j - q)
        BY <1>8, <4>1
      <4> QED
        BY <2>1, <2>2, <3>2, <4>1, <4>2
    <3> QED
      BY <3>1, <3>2
  <2>4. c = a \o b
    BY <2>1, <2>2, <2>3, SeqEqual
  <2> QED
    BY <2>4 DEF a, b, c
<1>10. Rest(z) = Rest(y)
  <2>1. /\ Rest(z) \in Seq(Bit) /\ Len(Rest(z)) = r
        /\ \A i \in 1..r : Rest(z)[i] = z[Octet * (q + p) + i]
    <3>1. /\ Rest(z) \in Seq(Bit) /\ Len(Rest(z)) = Len(z) % Octet
          /\ \A i \in 1..Len(Rest(z)) : Rest(z)[i] = z[Octet * (Len(z) \div Octet) + i]
      BY <1>1, RestProperties
    <3> QED
      BY <1>6, <3>1, Zenon
  <2>2. /\ Rest(y) \in Seq(Bit) /\ Len(Rest(y)) = r
        /\ \A i \in 1..r : Rest(y)[i] = y[Octet * p + i]
    BY RestProperties DEF p, r
  <2>3. ASSUME NEW i \in 1..r PROVE z[Octet * (q + p) + i] = y[Octet * p + i]
    <3> DEFINE m == Octet * p
    <3>1. Octet * (q + p) = Len(x) + m /\ m \in Nat /\ Len(y) = m + r
      BY <1>3, <1>4, <1>5
    <3> HIDE DEF m
    <3>2. /\ (Len(x) + m) + i \in 1..(Len(x) + Len(y)) /\ ~((Len(x) + m) + i <= Len(x))
          /\ ((Len(x) + m) + i) - Len(x) = m + i
      BY <1>2, <1>3, <3>1
    <3> QED
      BY <1>1, <3>1, <3>2 DEF m
  <2>4. \A i \in 1..r : Rest(z)[i] = Rest(y)[i]
    BY <2>1, <2>2, <2>3, Zenon
  <2> DEFINE a == Rest(z)
             b == Rest(y)
  <2>5. a \in Seq(Bit) /\ b \in Seq(Bit) /\ Len(a) = r /\ Len(b) = r /\ \A i \in 1..r : a[i] = b[i]
    BY <2>1, <2>2, <2>4, Zenon
  <2> HIDE DEF a, b
  <2>6. a = b
    BY <2>5, SeqEqual
  <2> QED
    BY <2>6 DEF a, b
<1> QED
  BY <1>9, <1>10 DEF z

\* Bits that do not fill an octet are all left over.
LEMMA BitsBelowOctet ==
  ASSUME NEW y \in Seq(Bit), Len(y) < Octet
  PROVE  Octets(y) = <<>> /\ Rest(y) = y
<1>1. Len(y) \in Nat /\ Octet \in Nat /\ Octet >= 2
  BY LenProperties, Multiples
<1>2. Len(y) \div Octet = 0 /\ Len(y) % Octet = Len(y)
  <2>1. Len(y) = Octet * 0 + Len(y) /\ Len(y) \in 0..(Octet - 1) /\ 0 \in Nat
    BY <1>1
  <2> QED
    BY <2>1, OctetDivisionIsUnique
<1>3. Octets(y) = <<>>
  <2>1. Octets(y) \in Seq(Nat) /\ Len(Octets(y)) = 0
    BY <1>2, OctetsProperties
  <2> QED
    BY <2>1, EmptySeq
<1>4. Rest(y) = y
  <2>1. /\ Rest(y) \in Seq(Bit) /\ Len(Rest(y)) = Len(y)
        /\ \A i \in 1..Len(y) : Rest(y)[i] = y[Octet * (Len(y) \div Octet) + i]
    BY <1>2, RestProperties
  <2>2. \A i \in 1..Len(y) : Octet * (Len(y) \div Octet) + i = i
    BY <1>1, <1>2
  <2>3. \A i \in 1..Len(y) : Rest(y)[i] = y[i]
    BY <2>1, <2>2
  <2> QED
    BY <2>1, <2>3, SeqEqual
<1> QED
  BY <1>3, <1>4

\* The whole octets of some bits, and what is behind them.
LEMMA FrontAndRest ==
  ASSUME NEW t \in Seq(Bit)
  PROVE  \E x \in Seq(Bit) : Len(x) % Octet = 0 /\ t = x \o Rest(t) /\ Octets(x) = Octets(t)
<1> DEFINE n == Len(t)
           m == Octet * (n \div Octet)
           x == SubSeq(t, 1, m)
<1>1. n \in Nat
  BY LenProperties
<1>2. n \div Octet \in Nat /\ m \in Nat /\ n % Octet \in 0..(Octet - 1) /\ n = m + (n % Octet)
  BY <1>1, OctetDivision, Multiples
<1>3. Octet \in Nat /\ Octet >= 2
  BY Multiples
<1>4. m <= n
  <2>1. ASSUME NEW d \in 0..(Octet - 1), n = m + d PROVE m <= n
    BY <1>2, <1>3, <2>1
  <2> QED
    BY <1>2, <2>1
<1>5. x \in Seq(Bit) /\ Len(x) = m
  <2>1. \A i \in 1..m : t[i] \in Bit
    <3>1. \A i \in 1..m : i \in 1..n
      BY <1>1, <1>2, <1>4
    <3> QED
      BY <3>1, ElementOfSeq
  <2>2. 1 \in Int /\ m \in Int
    BY <1>2
  <2>3. x \in Seq(Bit) /\ Len(x) = IF 1 <= m THEN m - 1 + 1 ELSE 0
    BY <2>1, <2>2, SubSeqProperties
  <2> QED
    BY <1>2, <2>3
<1>6. t = x \o Rest(t)
  <2>1. 1 \in 1..(n + 1) /\ m \in (1 - 1)..n /\ n \in m..n
    BY <1>1, <1>2, <1>4
  <2>2. SubSeq(t, 1, m) \o SubSeq(t, m + 1, n) = SubSeq(t, 1, n)
    BY <2>1, ConcatAdjacentSubSeq
  <2>3. SubSeq(t, 1, n) = t
    BY SubSeqFull
  <2> QED
    BY <2>2, <2>3 DEF Rest
<1> HIDE DEF x
<1>7. Len(x) % Octet = 0
  <2>1. m = Octet * (n \div Octet) + 0 /\ 0 \in 0..(Octet - 1)
    BY <1>2, <1>3
  <2>2. m % Octet = 0
    BY <1>2, <2>1, OctetDivisionIsUnique
  <2> QED
    BY <1>5, <2>2
<1>8. Octets(x) = Octets(t)
  <2>1. Rest(t) \in Seq(Bit) /\ Len(Rest(t)) = n % Octet
    BY RestProperties
  <2>2. Len(Rest(t)) < Octet
    <3>1. ASSUME NEW d \in 0..(Octet - 1) PROVE d < Octet
      BY <1>3
    <3> QED
      BY <1>2, <2>1, <3>1
  <2>3. Octets(t) = Octets(x) \o Octets(Rest(t))
    BY <1>5, <1>6, <1>7, <2>1, OctetsOfConcat, ZenonT(40)
  <2>4. Octets(Rest(t)) = <<>>
    BY <2>1, <2>2, BitsBelowOctet
  <2>5. Octets(x) \in Seq(Nat)
    BY <1>5, OctetsProperties
  <2> QED
    BY <2>3, <2>4, <2>5, ConcatEmptySeq
<1> QED
  BY <1>5, <1>6, <1>7, <1>8

\* More bits: the octets come with those that wait.
LEMMA MoreBits ==
  ASSUME NEW t \in Seq(Bit), NEW y \in Seq(Bit)
  PROVE  /\ Octets(t \o y) = Octets(t) \o Octets(Rest(t) \o y)
         /\ Rest(t \o y) = Rest(Rest(t) \o y)
<1>1. PICK x \in Seq(Bit) : Len(x) % Octet = 0 /\ t = x \o Rest(t) /\ Octets(x) = Octets(t)
  BY FrontAndRest
<1>2. Rest(t) \in Seq(Bit)
  BY RestProperties
<1> DEFINE r == Rest(t)
<1> HIDE DEF r
<1>3. r \o y \in Seq(Bit) /\ r \in Seq(Bit) /\ t = x \o r
  BY <1>1, <1>2, ConcatProperties DEF r
<1>4. t \o y = x \o (r \o y)
  <2>1. Associated(x, r, y)
    BY <1>3, SequencesAssociate, Zenon
  <2> QED
    BY <1>3, <2>1, Zenon DEF Associated
<1>5. Octets(x \o (r \o y)) = Octets(x) \o Octets(r \o y) /\ Rest(x \o (r \o y)) = Rest(r \o y)
  BY <1>1, <1>3, OctetsOfConcat
<1> QED
  BY <1>1, <1>4, <1>5 DEF r

-----------------------------------------------------------------------------

\* Padding is bits, all of them ones.
LEMMA OnesProperties ==
  ASSUME NEW n \in Nat
  PROVE  Ones(n) \in Seq(Bit) /\ Len(Ones(n)) = n /\ \A i \in 1..n : Ones(n)[i] = 1
<1>1. \A i \in 1..n : 1 \in Bit
  BY DEF Bit
<1> QED
  BY <1>1 DEF Ones

\* A text is padded up to the next octet, with less than one.
LEMMA PadProperties ==
  ASSUME NEW t \in Seq(Bit)
  PROVE  /\ Pad(t) \in Seq(Bit) /\ Len(Pad(t)) \in 0..(Octet - 1) /\ Pad(t) = Ones(Len(Pad(t)))
         /\ Len(t \o Pad(t)) % Octet = 0
         /\ Len(Rest(t)) = 0 => Len(Pad(t)) = 0
         /\ Len(Rest(t)) # 0 => Len(Pad(t)) = Octet - Len(Rest(t))
<1> DEFINE r == Len(t) % Octet
           q == Len(t) \div Octet
           k == (Octet - r) % Octet
<1>1. Octet \in Nat /\ Octet >= 2 /\ Len(t) \in Nat
  BY Multiples, LenProperties
<1>2. q \in Nat /\ r \in 0..(Octet - 1) /\ Len(t) = Octet * q + r /\ Octet * q \in Nat
  BY <1>1, OctetDivision, Multiples
<1>3. Len(Rest(t)) = r
  BY RestProperties
<1>4. Pad(t) = Ones(k)
  BY DEF Pad
<1> HIDE DEF r, q
<1>5. IF r = 0 THEN k = 0 ELSE k = Octet - r
  <2>1. CASE r = 0
    <3>1. Octet - r = Octet * 1 + 0 /\ 0 \in 0..(Octet - 1)
      BY <1>1, <2>1
    <3>2. (Octet - r) % Octet = 0
      BY <3>1, OctetDivisionIsUnique
    <3> QED
      BY <2>1, <3>2
  <2>2. CASE r # 0
    <3>1. Octet - r = Octet * 0 + (Octet - r) /\ Octet - r \in 0..(Octet - 1)
      BY <1>1, <1>2, <2>2
    <3>2. (Octet - r) % Octet = Octet - r
      BY <3>1, OctetDivisionIsUnique
    <3> QED
      BY <2>2, <3>2
  <2> QED
    BY <2>1, <2>2
<1> HIDE DEF k
<1>6. k \in 0..(Octet - 1) /\ k \in Nat
  BY <1>1, <1>2, <1>5
<1>7. Pad(t) \in Seq(Bit) /\ Len(Pad(t)) = k
  BY <1>4, <1>6, OnesProperties
<1>8. Len(t \o Pad(t)) = Len(t) + k
  BY <1>7, ConcatProperties
<1>9. (Len(t) + k) % Octet = 0
  <2>1. PICK p \in Nat : Len(t) + k = Octet * p + 0
    <3>1. CASE r = 0
      <4>1. Len(t) + k = Octet * q + 0
        BY <1>1, <1>2, <1>5, <3>1
      <4> QED
        BY <1>2, <4>1
    <3>2. CASE r # 0
      <4>1. Octet * (q + 1) = Octet * q + Octet /\ q + 1 \in Nat
        BY <1>2, Multiples
      <4>2. Len(t) + k = Octet * q + Octet
        BY <1>1, <1>2, <1>5, <3>2
      <4>3. Octet * (q + 1) \in Nat
        BY <4>1, Multiples
      <4>4. Len(t) + k = Octet * (q + 1) + 0
        BY <4>1, <4>2, <4>3
      <4> QED
        BY <4>1, <4>4
    <3> QED
      BY <3>1, <3>2
  <2>2. 0 \in 0..(Octet - 1)
    BY <1>1
  <2> QED
    BY <2>1, <2>2, OctetDivisionIsUnique
<1> QED
  BY <1>3, <1>4, <1>5, <1>6, <1>7, <1>8, <1>9

\* The encoded text, and its padding.
LEMMA PaddedText ==
  ASSUME NEW t \in Seq(Bit)
  PROVE  Padded([bits |-> Rest(t), encoded |-> Octets(t)]) = Octets(t \o Pad(t))
<1> DEFINE r == Rest(t)
           e == Octets(t)
           p == Pad(t)
           s == [bits |-> r, encoded |-> e]
<1>1. r \in Seq(Bit) /\ e \in Seq(Nat)
  BY RestProperties, OctetsProperties
<1>2. /\ p \in Seq(Bit) /\ Len(p) \in 0..(Octet - 1) /\ p = Ones(Len(p))
      /\ Len(r) = 0 => Len(p) = 0
      /\ Len(r) # 0 => Len(p) = Octet - Len(r)
  BY PadProperties
<1>3. Octets(t \o p) = e \o Octets(r \o p)
  BY <1>2, MoreBits
<1>4. s.bits = r /\ s.encoded = e
  OBVIOUS
<1>5. Octet \in Nat /\ Octet >= 2 /\ Len(r) \in Nat
  BY <1>1, Multiples, LenProperties
<1> HIDE DEF r, e, p, s
<1>6. CASE r = <<>>
  <2>1. Len(r) = 0
    BY <1>6
  <2>2. p = <<>>
    BY <1>2, <2>1, EmptySeq
  <2>3. r \o p = <<>> /\ <<>> \in Seq(Bit) /\ Len(<<>>) = 0
    BY <1>6, <2>2
  <2>4. Octets(<<>>) = <<>>
    <3>1. <<>> \in Seq(Bit) /\ Len(<<>>) < Octet
      BY <1>5
    <3> QED
      BY <3>1, BitsBelowOctet
  <2>5. e \o <<>> = e
    BY <1>1, ConcatEmptySeq
  <2>6. Padded(s) = e
    BY <1>4, <1>6 DEF Padded
  <2> QED
    BY <1>3, <2>3, <2>4, <2>5, <2>6 DEF s, r, e, p
<1>7. CASE r # <<>>
  <2> DEFINE b == r \o p
  <2>1. Len(r) # 0
    BY <1>1, <1>7, EmptySeq
  <2>2. p = Ones(Octet - Len(r))
    BY <1>2, <2>1
  <2>3. b \in Seq(Bit) /\ Len(b) = Octet
    <3>1. b \in Seq(Bit) /\ Len(b) = Len(r) + Len(p)
      BY <1>1, <1>2, ConcatProperties
    <3> QED
      BY <1>2, <1>5, <2>1, <3>1
  <2>4. Padded(s) = Append(e, Number(b))
    BY <1>4, <1>7, <2>2 DEF Padded
  <2> HIDE DEF b
  <2>5. Number(b) \in Nat
    BY <2>3, NumberBack
  <2>6. Octets(b) = <<Number(b)>>
    <3>1. Len(b) \div Octet = 1
      <4>1. Octet = Octet * 1 + 0 /\ 0 \in 0..(Octet - 1) /\ 1 \in Nat
        BY <1>5
      <4>2. Octet \div Octet = 1
        BY <4>1, OctetDivisionIsUnique
      <4> QED
        BY <2>3, <4>2
    <3>2. /\ Octets(b) \in Seq(Nat) /\ Len(Octets(b)) = 1
          /\ Octets(b)[1] = Number(Slice(b, 1))
      <4>1. /\ Octets(b) \in Seq(Nat) /\ Len(Octets(b)) = Len(b) \div Octet
            /\ \A j \in 1..Len(Octets(b)) : Octets(b)[j] = Number(Slice(b, j))
        BY <2>3, OctetsProperties
      <4>2. Len(Octets(b)) = 1
        BY <3>1, <4>1, Zenon
      <4> QED
        BY <4>1, <4>2
    <3>3. Slice(b, 1) = b
      <4>1. Octet * (1 - 1) + 1 = 1 /\ Octet * 1 = Len(b)
        BY <1>5, <2>3
      <4>2. SubSeq(b, 1, Len(b)) = b
        BY <2>3, SubSeqFull
      <4> QED
        BY <4>1, <4>2 DEF Slice
    <3>4. <<Number(b)>> \in Seq(Nat) /\ Len(<<Number(b)>>) = 1 /\ <<Number(b)>>[1] = Number(b)
      BY <2>5
    <3>5. \A i \in 1..Len(Octets(b)) : Octets(b)[i] = <<Number(b)>>[i]
      BY <3>2, <3>3, <3>4
    <3> QED
      BY <3>2, <3>4, <3>5, SeqEqual
  <2>7. Append(e, Number(b)) = e \o <<Number(b)>>
    BY <1>1, <2>5, AppendIsConcat
  <2> QED
    BY <1>3, <2>4, <2>6, <2>7 DEF b, s, r, e, p
<1> QED
  BY <1>6, <1>7

-----------------------------------------------------------------------------
(***************************************************************************)
(* Strings.                                                                *)
(***************************************************************************)
LEMMA CharBitsProperties ==
  ASSUME NEW c \in Characters
  PROVE  /\ CharBits(c) \in Seq(Bit) /\ Len(CharBits(c)) = Code[c].width
         /\ Code[c].width \in Nat \ {0} /\ Octet - 1 + Code[c].width <= Buffer
<1>1. Code[c] \in [code : Nat, width : Nat \ {0}] /\ Octet - 1 + Code[c].width <= Buffer
  BY StringsAssumption
<1>2. Code[c].code \in Nat /\ Code[c].width \in Nat /\ Code[c].width # 0
  BY <1>1
<1> QED
  BY <1>1, <1>2, BitsAreBits DEF CharBits

\* The buffer loses nothing.
LEMMA BufferedText ==
  ASSUME NEW t \in Seq(Bit), NEW c \in Characters
  PROVE  Buffered([bits |-> Rest(t), encoded |-> Octets(t)], c)
           = [bits |-> Rest(t \o CharBits(c)), encoded |-> Octets(t \o CharBits(c))]
<1> DEFINE s == [bits |-> Rest(t), encoded |-> Octets(t)]
           y == CharBits(c)
           b == Rest(t) \o y
<1>1. y \in Seq(Bit) /\ Octet - 1 + Len(y) <= Buffer /\ Len(y) \in Nat
  BY CharBitsProperties
<1>2. Rest(t) \in Seq(Bit) /\ Len(Rest(t)) \in 0..(Octet - 1)
  <2>1. Len(t) % Octet \in 0..(Octet - 1)
    BY LenProperties, OctetDivision
  <2> QED
    BY <2>1, RestProperties
<1>3. b \in Seq(Bit) /\ Len(b) = Len(Rest(t)) + Len(y) /\ b = [i \in 1..Len(b) |-> b[i]]
  BY <1>1, <1>2, ConcatProperties, LenProperties
<1>4. s.bits = Rest(t) /\ s.encoded = Octets(t)
  OBVIOUS
<1>5. Octet \in Nat /\ Buffer \in Nat
  BY StringsAssumption
<1> HIDE DEF s, y, b
<1>6. \A i \in 1..Len(b) : ~(i <= Len(b) - Buffer)
  BY <1>1, <1>2, <1>3, <1>5
<1>7. Held(b, Buffer) = b
  <2>1. Held(b, Buffer) = [i \in 1..Len(b) |-> b[i]]
    BY <1>6 DEF Held
  <2> QED
    BY <1>3, <2>1
<1>8. Buffered(s, c) = [bits |-> Rest(b), encoded |-> Octets(t) \o Octets(b)]
  BY <1>4, <1>7 DEF Buffered, b, y
<1>9. Octets(t \o y) = Octets(t) \o Octets(b) /\ Rest(t \o y) = Rest(b)
  BY <1>1, MoreBits DEF b
<1> QED
  BY <1>8, <1>9 DEF s, y

\* The bits of the first characters of v.
Texts(v, t) == /\ t \in [0..Len(v) -> Seq(Bit)] /\ t[0] = <<>>
               /\ \A i \in 1..Len(v) : t[i] = t[i - 1] \o CharBits(v[i])

\* The bits of a string are those of its characters, one behind the other.
LEMMA TextIsDefined ==
  ASSUME NEW v \in Seq(Characters)
  PROVE  \E t : Texts(v, t) /\ Text(v) = t[Len(v)]
<1> DEFINE N == Len(v)
           T == Seq(Bit)
           step == [i \in 1..N |-> [x \in T |-> x \o CharBits(v[i])]]
           text == CHOOSE f : f = [i \in 0..N |-> IF i = 0 THEN <<>> ELSE f[i - 1] \o CharBits(v[i])]
<1>1. Text(v) = text[N]
  BY DEF Text
<1>2. N \in Nat /\ <<>> \in T
  BY LenProperties
<1>3. \A i \in 1..N : CharBits(v[i]) \in Seq(Bit)
  BY ElementOfSeq, CharBitsProperties
<1>4. \A i \in 1..N : \A x \in T : x \o CharBits(v[i]) \in T
  BY <1>3, ConcatProperties
<1> HIDE DEF T
<1>5. step \in [1..N -> [T -> T]]
  BY <1>4
<1>6. \A i \in 1..N : \A x \in T : step[i][x] = x \o CharBits(v[i])
  OBVIOUS
<1> HIDE DEF step, N
<1>7. PICK g \in [0..N -> T] : Recurs(g, N, <<>>, step)
  BY <1>2, <1>5, RecursionUpTo
<1>8. g[0] = <<>> /\ \A i \in 1..N : g[i - 1] \in T /\ g[i] = g[i - 1] \o CharBits(v[i])
  <2>1. \A i \in 1..N : i - 1 \in 0..N
    BY <1>2
  <2> QED
    BY <1>6, <1>7, <2>1 DEF Recurs
<1>9. g = [i \in 0..N |-> IF i = 0 THEN <<>> ELSE g[i - 1] \o CharBits(v[i])]
  <2>1. \A i \in 0..N : i = 0 \/ i \in 1..N
    BY <1>2
  <2> QED
    BY <1>7, <1>8, <2>1
<1>10. text = [i \in 0..N |-> IF i = 0 THEN <<>> ELSE text[i - 1] \o CharBits(v[i])]
  BY <1>9, Zenon
<1> HIDE DEF text
<1>11. text[0] = <<>> /\ \A i \in 1..N : text[i] = text[i - 1] \o CharBits(v[i])
  <2>1. 0 \in 0..N /\ \A i \in 1..N : i \in 0..N /\ i # 0
    BY <1>2
  <2> QED
    BY <1>10, <2>1
<1>12. \A i \in 0..N : text[i] \in T
  <2>1. text[0] \in T
    BY <1>2, <1>11
  <2>2. \A i \in 1..N : text[i - 1] \in T => text[i] \in T
    BY <1>4, <1>11, Zenon
  <2> QED
    BY <1>2, <2>1, <2>2, RecursionStays, Zenon
<1>13. text \in [0..N -> T]
  BY <1>10, <1>12
<1> QED
  BY <1>1, <1>11, <1>13 DEF N, T, Texts

\* What put_string() writes is what a peer writes.
LEMMA PutStringIsSent ==
  ASSUME NEW v \in Seq(Characters), NEW huffman \in BOOLEAN
  PROVE  put_string(v, huffman) = PeerWrites(v, huffman)
<1>1. \A n : put_int(n, Flag, Group) = Sent(n, Flag) /\ put_int(n, 0, Group) = Sent(n, 0)
  BY DEF put_int, Sent
<1>2. CASE ~huffman
  BY <1>1, <1>2 DEF put_string, PeerWrites
<1>3. CASE huffman
  <2> DEFINE N == Len(v)
             state == CHOOSE f : f = [i \in 0..N |-> IF i = 0 THEN [bits |-> <<>>, encoded |-> <<>>]
                                                     ELSE Buffered(f[i - 1], v[i])]
             encoded == Padded(state[N])
  <2>1. put_string(v, huffman) = put_int(Len(encoded), Flag, Group) \o encoded
    BY <1>3 DEF put_string
  <2>2. PICK t : Texts(v, t) /\ Text(v) = t[N]
    BY TextIsDefined
  <2>3. N \in Nat /\ \A i \in 1..N : v[i] \in Characters /\ i - 1 \in 0..N
    BY LenProperties, ElementOfSeq
  <2>4. /\ t \in [0..N -> Seq(Bit)] /\ t[0] = <<>>
        /\ \A i \in 1..N : t[i] = t[i - 1] \o CharBits(v[i])
    BY <2>2 DEF Texts
  <2> DEFINE g == [i \in 0..N |-> [bits |-> Rest(t[i]), encoded |-> Octets(t[i])]]
  <2> HIDE DEF N
  <2>5. g[0] = [bits |-> <<>>, encoded |-> <<>>]
    <3>1. <<>> \in Seq(Bit) /\ Len(<<>>) < Octet
      BY Multiples
    <3>2. Octets(<<>>) = <<>> /\ Rest(<<>>) = <<>>
      BY <3>1, BitsBelowOctet
    <3>3. 0 \in 0..N
      BY <2>3
    <3> QED
      BY <2>4, <3>2, <3>3
  <2>6. \A i \in 1..N : g[i] = Buffered(g[i - 1], v[i])
    <3> TAKE i \in 1..N
    <3>1. i \in 0..N /\ i - 1 \in 0..N
      BY <2>3
    <3>2. t[i - 1] \in Seq(Bit) /\ v[i] \in Characters /\ t[i] = t[i - 1] \o CharBits(v[i])
      BY <2>3, <2>4, <3>1
    <3>3. Buffered([bits |-> Rest(t[i - 1]), encoded |-> Octets(t[i - 1])], v[i])
            = [bits |-> Rest(t[i]), encoded |-> Octets(t[i])]
      BY <3>2, BufferedText
    <3> QED
      BY <3>1, <3>3
  <2>7. g = [i \in 0..N |-> IF i = 0 THEN [bits |-> <<>>, encoded |-> <<>>] ELSE Buffered(g[i - 1], v[i])]
    <3>1. g = [i \in 0..N |-> g[i]]
      OBVIOUS
    <3> HIDE DEF g
    <3>2. \A i \in 0..N : i = 0 \/ i \in 1..N
      BY <2>3
    <3>3. \A i \in 0..N : g[i] = IF i = 0 THEN [bits |-> <<>>, encoded |-> <<>>] ELSE Buffered(g[i - 1], v[i])
      BY <2>5, <2>6, <3>2
    <3> QED
      BY <3>1, <3>3
  <2>8. g[N] = [bits |-> Rest(t[N]), encoded |-> Octets(t[N])]
    BY <2>3
  <2> HIDE DEF g
  <2>9. state = [i \in 0..N |-> IF i = 0 THEN [bits |-> <<>>, encoded |-> <<>>]
                                ELSE Buffered(state[i - 1], v[i])]
    BY <2>7, Zenon
  <2> HIDE DEF state
  <2>10. state[N] = g[N]
    <3> DEFINE S == {i \in 0..N : state[i] = g[i]}
    <3>1. 0 \in S
      BY <2>3, <2>5, <2>9
    <3>2. ASSUME NEW i \in 0..(N - 1), i \in S PROVE i + 1 \in S
      <4>1. i + 1 \in 1..N /\ (i + 1) - 1 = i /\ i + 1 \in 0..N /\ i + 1 # 0
        BY <2>3
      <4>2. state[i + 1] = Buffered(state[(i + 1) - 1], v[i + 1])
        BY <2>9, <4>1
      <4>3. g[i + 1] = Buffered(g[(i + 1) - 1], v[i + 1])
        BY <2>6, <4>1
      <4> QED
        BY <3>2, <4>1, <4>2, <4>3
    <3> HIDE DEF S
    <3>3. 0..N \subseteq S
      BY <2>3, <3>1, <3>2, InductionUpTo
    <3> QED
      BY <2>3, <3>3 DEF S
  <2>11. t[N] \in Seq(Bit)
    BY <2>3, <2>4
  <2>12. encoded = Octets(t[N] \o Pad(t[N]))
    BY <2>8, <2>10, <2>11, PaddedText
  <2> HIDE DEF encoded
  <2>13. put_string(v, huffman) = Sent(Len(encoded), Flag) \o encoded
    BY <1>1, <2>1, Zenon
  <2> QED
    BY <1>3, <2>2, <2>12, <2>13 DEF PeerWrites
<1> QED
  BY <1>2, <1>3

\* A part of some bits.
LEMMA PartOfBits ==
  ASSUME NEW b \in Seq(Bit), NEW p \in Nat \ {0}, NEW w \in Nat, p + w - 1 <= Len(b)
  PROVE  /\ SubSeq(b, p, p + w - 1) \in Seq(Bit) /\ Len(SubSeq(b, p, p + w - 1)) = w
         /\ \A i \in 1..w : SubSeq(b, p, p + w - 1)[i] = b[p + i - 1]
<1> DEFINE e == p + w - 1
           s == SubSeq(b, p, e)
<1>1. Len(b) \in Nat
  BY LenProperties
<1>2. e \in Int /\ p \in Int /\ e <= Len(b) /\ e - p + 1 = w
  OBVIOUS
<1>3. \A i \in p..e : b[i] \in Bit
  <2>1. \A i \in p..e : i \in 1..Len(b)
    BY <1>1, <1>2
  <2> QED
    BY <2>1, ElementOfSeq
<1> HIDE DEF e
<1>4. /\ s \in Seq(Bit) /\ Len(s) = IF p <= e THEN e - p + 1 ELSE 0
      /\ \A i \in 1..(e - p + 1) : s[i] = b[p + i - 1]
  BY <1>2, <1>3, SubSeqProperties
<1>5. Len(s) = w
  BY <1>2, <1>4
<1> QED
  BY <1>2, <1>4, <1>5 DEF e

\* At most one code is at a place.
LEMMA ShorterCode ==
  ASSUME NEW b \in Seq(Bit), NEW p \in Nat \ {0},
         NEW c \in CodesAt(b, p), NEW d \in CodesAt(b, p), Code[c].width <= Code[d].width
  PROVE  c = d
<1> DEFINE w == Code[c].width
           x == Code[d].width
<1>1. c \in Characters /\ d \in Characters
  BY StringsAssumption DEF CodesAt
<1>2. w \in Nat \ {0} /\ x \in Nat \ {0} /\ w <= x
  BY <1>1, CharBitsProperties
<1>3. /\ p + w - 1 <= Len(b) /\ SubSeq(b, p, p + w - 1) = CharBits(c)
      /\ p + x - 1 <= Len(b) /\ SubSeq(b, p, p + x - 1) = CharBits(d)
  BY DEF CodesAt
<1> HIDE DEF w, x
<1>4. /\ CharBits(c) \in Seq(Bit) /\ Len(CharBits(c)) = w
      /\ \A i \in 1..w : CharBits(c)[i] = b[p + i - 1]
  <2>1. w \in Nat /\ p + w - 1 <= Len(b)
    BY <1>2, <1>3
  <2>2. /\ SubSeq(b, p, p + w - 1) \in Seq(Bit) /\ Len(SubSeq(b, p, p + w - 1)) = w
        /\ \A i \in 1..w : SubSeq(b, p, p + w - 1)[i] = b[p + i - 1]
    BY <2>1, PartOfBits
  <2> QED
    BY <1>3, <2>2
<1>5. /\ CharBits(d) \in Seq(Bit) /\ Len(CharBits(d)) = x
      /\ \A i \in 1..x : CharBits(d)[i] = b[p + i - 1]
  <2>1. x \in Nat /\ p + x - 1 <= Len(b)
    BY <1>2, <1>3
  <2>2. /\ SubSeq(b, p, p + x - 1) \in Seq(Bit) /\ Len(SubSeq(b, p, p + x - 1)) = x
        /\ \A i \in 1..x : SubSeq(b, p, p + x - 1)[i] = b[p + i - 1]
    BY <2>1, PartOfBits
  <2> QED
    BY <1>3, <2>2
<1> DEFINE y == CharBits(d)
<1> HIDE DEF y
<1>6. /\ SubSeq(y, 1, w) \in Seq(Bit) /\ Len(SubSeq(y, 1, w)) = w
      /\ \A i \in 1..w : SubSeq(y, 1, w)[i] = y[i]
  <2>1. 1 \in Nat \ {0} /\ w \in Nat /\ 1 + w - 1 <= Len(y) /\ y \in Seq(Bit) /\ 1 + w - 1 = w
    BY <1>2, <1>5 DEF y
  <2>2. /\ SubSeq(y, 1, 1 + w - 1) \in Seq(Bit) /\ Len(SubSeq(y, 1, 1 + w - 1)) = w
        /\ \A i \in 1..w : SubSeq(y, 1, 1 + w - 1)[i] = y[1 + i - 1]
    BY <2>1, PartOfBits
  <2>3. \A i \in 1..w : 1 + i - 1 = i
    BY <1>2
  <2> QED
    BY <2>1, <2>2, <2>3
<1>7. \A i \in 1..w : SubSeq(y, 1, w)[i] = CharBits(c)[i]
  <2> TAKE i \in 1..w
  <2>1. i \in 1..x
    BY <1>2
  <2> QED
    BY <1>4, <1>5, <1>6, <2>1 DEF y
<1>8. SubSeq(y, 1, w) = CharBits(c)
  BY <1>4, <1>6, <1>7, SeqEqual
<1> QED
  BY <1>1, <1>2, <1>8, StringsAssumption DEF y, w, x

\* No two characters begin at the same bit: the code is a prefix code.
LEMMA OneCode ==
  ASSUME NEW b \in Seq(Bit), NEW p \in Nat \ {0}, NEW c \in CodesAt(b, p)
  PROVE  CodesAt(b, p) = {c}
<1>1. ASSUME NEW d \in CodesAt(b, p) PROVE d = c
  <2>1. c \in Characters /\ d \in Characters
    BY StringsAssumption DEF CodesAt
  <2>2. Code[c].width \in Nat /\ Code[d].width \in Nat
    BY <2>1, CharBitsProperties
  <2>3. Code[c].width <= Code[d].width \/ Code[d].width <= Code[c].width
    BY <2>2
  <2> QED
    BY <2>3, ShorterCode
<1> QED
  BY <1>1

-----------------------------------------------------------------------------
\* The text of v in front of its padding.
Padding(v, t, b) ==
  /\ v \in Seq(Characters) /\ Texts(v, t)
  /\ b = t[Len(v)] \o Pad(t[Len(v)])

\* A padded text: its parts and their lengths.
LEMMA PaddingProperties ==
  ASSUME NEW v, NEW t, NEW b, Padding(v, t, b)
  PROVE  /\ Len(v) \in Nat /\ t \in [0..Len(v) -> Seq(Bit)] /\ t[0] = <<>>
         /\ b \in Seq(Bit) /\ Len(b) \in Nat /\ Len(b) = Len(t[Len(v)]) + Len(Pad(t[Len(v)]))
         /\ Len(Pad(t[Len(v)])) \in 0..(Octet - 1) /\ Octet \in Nat
         /\ Begins(b, t[Len(v)])
         /\ \A i \in 1..Len(Pad(t[Len(v)])) : b[Len(t[Len(v)]) + i] = 1
         /\ \A n \in 0..Len(v) : Len(t[n]) \in Nat
<1> DEFINE N == Len(v)
           T == t[N]
           P == Pad(T)
           k == Len(P)
<1>1. N \in Nat /\ t \in [0..N -> Seq(Bit)] /\ t[0] = <<>>
  BY LenProperties DEF Padding, Texts
<1>2. T \in Seq(Bit)
  BY <1>1
<1> HIDE DEF T
<1>3. P \in Seq(Bit) /\ k \in 0..(Octet - 1) /\ P = Ones(k)
  BY <1>2, PadProperties
<1>4. b = T \o P
  BY DEF Padding, T
<1> HIDE DEF P, k
<1>5. Octet \in Nat /\ Len(T) \in Nat /\ k \in Nat /\ Len(P) = k
  BY <1>2, <1>3, Multiples, LenProperties DEF k
<1>6. /\ b \in Seq(Bit) /\ Len(b) = Len(T) + k
      /\ \A i \in 1..(Len(T) + k) : b[i] = IF i <= Len(T) THEN T[i] ELSE P[i - Len(T)]
  BY <1>2, <1>3, <1>4, <1>5, ConcatProperties, ZenonT(40)
<1>7. Begins(b, T)
  <2>1. \A i \in 1..Len(T) : b[i] = T[i]
    BY <1>5, <1>6
  <2>2. Len(b) >= Len(T)
    BY <1>5, <1>6
  <2> QED
    BY <2>1, <2>2 DEF Begins
<1>8. \A i \in 1..k : b[Len(T) + i] = 1
  <2> TAKE i \in 1..k
  <2>1. Len(T) + i \in 1..(Len(T) + k) /\ ~(Len(T) + i <= Len(T)) /\ (Len(T) + i) - Len(T) = i
    BY <1>5
  <2>2. Ones(k)[i] = 1
    BY <1>5, OnesProperties
  <2> QED
    BY <1>3, <1>6, <2>1, <2>2
<1>9. \A n \in 0..N : Len(t[n]) \in Nat
  <2>1. \A n \in 0..N : t[n] \in Seq(Bit)
    BY <1>1
  <2> QED
    BY <2>1, LenProperties
<1> QED
  BY <1>1, <1>3, <1>5, <1>6, <1>7, <1>8, <1>9 DEF T, P, k

OneMore(v, t, n) ==
  /\ v[n + 1] \in Characters
  /\ Len(t[n + 1]) = Len(t[n]) + Code[v[n + 1]].width
  /\ \A i \in 1..Len(t[n]) : t[n + 1][i] = t[n][i]
  /\ \A i \in 1..Code[v[n + 1]].width : t[n + 1][Len(t[n]) + i] = CharBits(v[n + 1])[i]

\* One character more.
LEMMA NextChar ==
  ASSUME NEW v, NEW t, NEW b, Padding(v, t, b), NEW n \in 0..(Len(v) - 1)
  PROVE  OneMore(v, t, n)
<1> DEFINE c == v[n + 1]
           w == Code[c].width
           x == t[n]
           y == CharBits(c)
           z == t[n + 1]
<1>1. Len(v) \in Nat /\ t \in [0..Len(v) -> Seq(Bit)] /\ v \in Seq(Characters)
  BY PaddingProperties DEF Padding
<1>2. n + 1 \in 1..Len(v) /\ (n + 1) - 1 = n /\ n \in 0..Len(v) /\ n + 1 \in 0..Len(v)
  BY <1>1
<1>3. c \in Characters
  BY <1>1, <1>2, ElementOfSeq
<1>4. z = x \o y
  <2>1. Texts(v, t)
    BY DEF Padding
  <2> QED
    BY <1>2, <2>1 DEF Texts
<1>5. x \in Seq(Bit) /\ Len(x) \in Nat
  BY <1>1, <1>2, LenProperties
<1> HIDE DEF c, x, z
<1>6. y \in Seq(Bit) /\ Len(y) = w /\ w \in Nat
  BY <1>3, CharBitsProperties
<1> HIDE DEF y, w
<1>7. /\ Len(z) = Len(x) + w
      /\ \A i \in 1..(Len(x) + w) : z[i] = IF i <= Len(x) THEN x[i] ELSE y[i - Len(x)]
  BY <1>4, <1>5, <1>6, ConcatProperties
<1>8. \A i \in 1..Len(x) : z[i] = x[i]
  BY <1>5, <1>6, <1>7
<1>9. \A i \in 1..w : z[Len(x) + i] = y[i]
  <2> TAKE i \in 1..w
  <2>1. Len(x) + i \in 1..(Len(x) + w) /\ ~(Len(x) + i <= Len(x)) /\ (Len(x) + i) - Len(x) = i
    BY <1>5, <1>6
  <2> QED
    BY <1>7, <2>1
<1> QED
  BY <1>3, <1>7, <1>8, <1>9 DEF OneMore, c, w, x, y, z

\* What is read of the first characters stays.
LEMMA TextsBegin ==
  ASSUME NEW v, NEW t, NEW b, Padding(v, t, b)
  PROVE  \A n \in 0..Len(v) : Begins(b, t[n]) /\ Len(t[n]) >= n
<1> DEFINE N == Len(v)
<1>1. N \in Nat /\ Len(b) \in Nat /\ \A n \in 0..N : Len(t[n]) \in Nat
  BY PaddingProperties
<1>2. \A n \in 0..N : Begins(b, t[n])
  <2> DEFINE S == {k \in 0..N : Begins(b, t[N - k])}
  <2>1. 0 \in S
    <3>1. Begins(b, t[N])
      BY PaddingProperties, Zenon
    <3>2. N - 0 = N
      BY <1>1
    <3> QED
      BY <1>1, <3>1, <3>2
  <2>2. ASSUME NEW k \in 0..(N - 1), k \in S PROVE k + 1 \in S
    <3> DEFINE n == N - (k + 1)
    <3>1. n \in 0..(N - 1) /\ n + 1 = N - k /\ k + 1 \in 0..N /\ n \in 0..N /\ n + 1 \in 0..N
      BY <1>1
    <3> HIDE DEF n
    <3>2. Begins(b, t[n + 1])
      BY <2>2, <3>1
    <3>3. /\ Len(t[n + 1]) = Len(t[n]) + Code[v[n + 1]].width /\ v[n + 1] \in Characters
          /\ \A i \in 1..Len(t[n]) : t[n + 1][i] = t[n][i]
      <4>1. OneMore(v, t, n)
        BY <3>1, NextChar, Zenon
      <4> QED
        BY <4>1 DEF OneMore
    <3>4. Code[v[n + 1]].width \in Nat
      BY <3>3, CharBitsProperties
    <3>5. Len(t[n]) \in Nat /\ Len(t[n + 1]) \in Nat /\ Len(t[n]) <= Len(t[n + 1])
      BY <1>1, <3>1, <3>3, <3>4
    <3>6. \A i \in 1..Len(t[n]) : i \in 1..Len(t[n + 1])
      BY <3>5
    <3>7. Begins(b, t[n])
      BY <1>1, <3>2, <3>3, <3>5, <3>6 DEF Begins
    <3> QED
      BY <3>1, <3>7 DEF n
  <2> HIDE DEF S
  <2>3. 0..N \subseteq S
    BY <1>1, <2>1, <2>2, InductionUpTo
  <2>4. ASSUME NEW n \in 0..N PROVE Begins(b, t[n])
    <3>1. N - n \in 0..N /\ N - (N - n) = n
      BY <1>1
    <3>2. N - n \in S
      BY <2>3, <3>1
    <3> QED
      BY <3>1, <3>2 DEF S
  <2> QED
    BY <2>4
<1>3. \A n \in 0..N : Len(t[n]) >= n
  <2> DEFINE S == {n \in 0..N : Len(t[n]) >= n}
  <2>1. 0 \in S
    BY <1>1
  <2>2. ASSUME NEW n \in 0..(N - 1), n \in S PROVE n + 1 \in S
    <3>1. Len(t[n + 1]) = Len(t[n]) + Code[v[n + 1]].width /\ v[n + 1] \in Characters
      <4>1. OneMore(v, t, n)
        BY NextChar, Zenon
      <4> QED
        BY <4>1 DEF OneMore
    <3>2. Code[v[n + 1]].width \in Nat \ {0}
      BY <3>1, CharBitsProperties
    <3>3. n \in 0..N /\ n + 1 \in 0..N /\ Len(t[n]) \in Nat
      BY <1>1
    <3> QED
      BY <2>2, <3>1, <3>2, <3>3
  <2> HIDE DEF S
  <2>3. 0..N \subseteq S
    BY <1>1, <2>1, <2>2, InductionUpTo
  <2> QED
    BY <2>3 DEF S
<1> QED
  BY <1>2, <1>3

\* The code of the next character is at its place.
LEMMA CodeFollows ==
  ASSUME NEW v, NEW t, NEW b, Padding(v, t, b), NEW n \in 0..(Len(v) - 1)
  PROVE  CodesAt(b, Len(t[n]) + 1) = {v[n + 1]}
<1> DEFINE c == v[n + 1]
           w == Code[c].width
           x == t[n]
           y == CharBits(c)
           z == t[n + 1]
           p == Len(x) + 1
<1>1. Len(v) \in Nat /\ b \in Seq(Bit) /\ Len(b) \in Nat /\ \A m \in 0..Len(v) : Len(t[m]) \in Nat
  BY PaddingProperties
<1>2. n \in 0..Len(v) /\ n + 1 \in 0..Len(v)
  <2>1. Len(v) \in Nat
    BY <1>1, Zenon
  <2> QED
    BY <2>1
<1>3. /\ c \in Characters /\ Len(z) = Len(x) + w
      /\ \A i \in 1..w : z[Len(x) + i] = y[i]
  <2>1. OneMore(v, t, n)
    BY NextChar, Zenon
  <2> QED
    BY <2>1 DEF OneMore
<1>4. Begins(b, z)
  BY <1>2, TextsBegin
<1>5. Len(x) \in Nat /\ Len(z) \in Nat
  BY <1>1, <1>2
<1> HIDE DEF c, x, z
<1>6. y \in Seq(Bit) /\ Len(y) = w /\ w \in Nat \ {0}
  BY <1>3, CharBitsProperties
<1> HIDE DEF w, y
<1>7. Len(b) >= Len(z) /\ \A i \in 1..Len(z) : b[i] = z[i]
  BY <1>4 DEF Begins
<1>8. p \in Nat \ {0} /\ p + w - 1 <= Len(b) /\ w \in Nat
  BY <1>1, <1>3, <1>5, <1>6, <1>7
<1>9. /\ SubSeq(b, p, p + w - 1) \in Seq(Bit) /\ Len(SubSeq(b, p, p + w - 1)) = w
      /\ \A i \in 1..w : SubSeq(b, p, p + w - 1)[i] = b[p + i - 1]
  BY <1>1, <1>8, PartOfBits
<1>10. \A i \in 1..w : SubSeq(b, p, p + w - 1)[i] = y[i]
  <2> TAKE i \in 1..w
  <2>1. p + i - 1 = Len(x) + i /\ Len(x) + i \in 1..Len(z)
    BY <1>3, <1>5, <1>6
  <2> QED
    BY <1>3, <1>7, <1>9, <2>1
<1>11. SubSeq(b, p, p + w - 1) = y
  BY <1>6, <1>9, <1>10, SeqEqual
<1>12. c \in CodesAt(b, p)
  <2>1. c \in DOMAIN Code
    BY <1>3, StringsAssumption
  <2> QED
    BY <1>8, <1>11, <2>1 DEF CodesAt, w, y
<1>13. CodesAt(b, p) = {c}
  BY <1>1, <1>8, <1>12, OneCode
<1> QED
  BY <1>13 DEF c, x

\* None is in the padding.
LEMMA PaddingFollows ==
  ASSUME NEW v, NEW t, NEW b, Padding(v, t, b)
  PROVE  CodesAt(b, Len(t[Len(v)]) + 1) = {}
<1> DEFINE m == Len(t[Len(v)])
           k == Len(Pad(t[Len(v)]))
           p == m + 1
<1>1. /\ b \in Seq(Bit) /\ Len(b) \in Nat /\ m \in Nat
      /\ k \in 0..(Octet - 1) /\ Octet \in Nat /\ Len(b) = m + k
  <2>1. \A n \in 0..Len(v) : Len(t[n]) \in Nat
    BY PaddingProperties
  <2>2. Len(v) \in 0..Len(v)
    BY PaddingProperties
  <2>3. m \in Nat
    BY <2>1, <2>2
  <2>4. b \in Seq(Bit) /\ Len(b) \in Nat /\ k \in 0..(Octet - 1) /\ Octet \in Nat
    BY PaddingProperties, Zenon
  <2>5. Len(b) = m + k
    BY PaddingProperties, Zenon
  <2> QED
    BY <2>3, <2>4, <2>5
<1>2. \A i \in 1..k : b[m + i] = 1
  BY PaddingProperties, Zenon
<1> HIDE DEF m, k
<1>3. SUFFICES ASSUME NEW c \in CodesAt(b, p) PROVE FALSE
  BY DEF p, m
<1> DEFINE w == Code[c].width
<1>4. c \in Characters /\ p + w - 1 <= Len(b) /\ SubSeq(b, p, p + w - 1) = CharBits(c)
  BY <1>3, StringsAssumption DEF CodesAt
<1>5. w \in Nat \ {0}
  BY <1>4, CharBitsProperties
<1>6. w < Octet => CharBits(c) # Ones(w)
  BY <1>4, StringsAssumption
<1> HIDE DEF w
<1>7. w <= k /\ w < Octet /\ p \in Nat \ {0} /\ w \in Nat
  BY <1>1, <1>4, <1>5
<1>8. /\ SubSeq(b, p, p + w - 1) \in Seq(Bit) /\ Len(SubSeq(b, p, p + w - 1)) = w
      /\ \A i \in 1..w : SubSeq(b, p, p + w - 1)[i] = b[p + i - 1]
  BY <1>1, <1>4, <1>7, PartOfBits
<1>9. Ones(w) \in Seq(Bit) /\ Len(Ones(w)) = w /\ \A i \in 1..w : Ones(w)[i] = 1
  BY <1>7, OnesProperties
<1>10. \A i \in 1..w : SubSeq(b, p, p + w - 1)[i] = Ones(w)[i]
  <2> TAKE i \in 1..w
  <2>1. i \in 1..k /\ p + i - 1 = m + i
    BY <1>1, <1>7
  <2> QED
    BY <1>2, <1>8, <1>9, <2>1
<1>11. SubSeq(b, p, p + w - 1) = Ones(w)
  BY <1>8, <1>9, <1>10, SeqEqual
<1> QED
  BY <1>4, <1>6, <1>7, <1>11

\* A peer reads what was encoded.
LEMMA UndoText ==
  ASSUME NEW v, NEW t, NEW b, Padding(v, t, b)
  PROVE  Undo(b) = <<v>>
<1> DEFINE N == Len(v)
           L == Len(b)
           next(s) == LET c == CHOOSE x \in CodesAt(b, s.p) : TRUE
                      IN  IF CodesAt(b, s.p) = {} THEN s
                          ELSE [text |-> Append(s.text, c), p |-> s.p + Code[c].width]
           base == [text |-> <<>>, p |-> 1]
           walk == CHOOSE f : f = [n \in 0..L |-> IF n = 0 THEN base ELSE next(f[n - 1])]
           end == walk[CHOOSE n \in 0..L : CodesAt(b, walk[n].p) = {}]
           left == L - end.p + 1
           at(n) == IF n <= N THEN n ELSE N
           state(n) == [text |-> SubSeq(v, 1, at(n)), p |-> Len(t[at(n)]) + 1]
           h == [n \in 0..L |-> state(n)]
<1>1. Undo(b) = IF left < Octet /\ SubSeq(b, end.p, L) = Ones(left) THEN <<end.text>> ELSE <<>>
  BY Zenon DEF Undo
<1>2. /\ N \in Nat /\ L \in Nat /\ t[0] = <<>> /\ b \in Seq(Bit)
      /\ \A n \in 0..N : Len(t[n]) \in Nat
  BY PaddingProperties
<1>3. v \in Seq(Characters)
  BY DEF Padding
<1>4. N <= L
  <2>1. N \in 0..N
    BY <1>2
  <2>2. Begins(b, t[N]) /\ Len(t[N]) >= N /\ Len(t[N]) \in Nat
    BY <1>2, <2>1, TextsBegin
  <2> QED
    BY <1>2, <2>2 DEF Begins
<1>5. \A n \in 0..(N - 1) : CodesAt(b, Len(t[n]) + 1) = {v[n + 1]}
  BY CodeFollows
<1>6. CodesAt(b, Len(t[N]) + 1) = {}
  BY PaddingFollows
<1> HIDE DEF L
<1>7. state(0) = base
  <2>1. at(0) = 0
    BY <1>2
  <2>2. SubSeq(v, 1, 0) = <<>>
    BY SubSeqEmpty
  <2> QED
    BY <1>2, <2>1, <2>2
<1>8. ASSUME NEW n \in 1..L PROVE state(n) = next(state(n - 1))
  <2>1. CASE n <= N
    <3> DEFINE c == v[n]
               s == state(n - 1)
    <3>1. n - 1 \in 0..(N - 1) /\ (n - 1) + 1 = n /\ at(n) = n /\ at(n - 1) = n - 1 /\ n \in 1..N
      BY <1>2, <2>1
    <3>2. s = [text |-> SubSeq(v, 1, n - 1), p |-> Len(t[n - 1]) + 1]
      BY <3>1
    <3>3. CodesAt(b, s.p) = {c}
      BY <1>5, <3>1, <3>2
    <3> HIDE DEF s
    <3>4. next(s) = [text |-> Append(s.text, c), p |-> s.p + Code[c].width]
      <4>1. (CHOOSE x \in {c} : TRUE) = c /\ {c} # {}
        OBVIOUS
      <4> QED
        BY <3>3, <4>1
    <3>5. Append(SubSeq(v, 1, n - 1), c) = SubSeq(v, 1, n)
      <4>1. 1 \in 1..Len(v) /\ n \in 1..Len(v)
        BY <1>2, <3>1
      <4>2. SubSeq(v, 1, n) = SubSeq(v, 1, n - 1) \o <<v[n]>>
        BY <1>3, <4>1, SubSeqRecursiveSecond
      <4>3. SubSeq(v, 1, n - 1) \in Seq(Characters)
        <5>1. \A i \in 1..(n - 1) : v[i] \in Characters
          <6>1. \A i \in 1..(n - 1) : i \in 1..Len(v)
            BY <1>2, <4>1
          <6> QED
            BY <1>3, <6>1, ElementOfSeq
        <5>2. 1 \in Int /\ n - 1 \in Int
          BY <4>1
        <5> QED
          BY <5>1, <5>2, SubSeqProperties
      <4>4. c \in Characters
        BY <1>3, <4>1, ElementOfSeq
      <4> QED
        BY <4>2, <4>3, <4>4, AppendIsConcat
    <3>6. Len(t[n]) = Len(t[n - 1]) + Code[c].width /\ c \in Characters
      <4>1. PICK j \in 0..(N - 1) : j = n - 1
        BY <3>1
      <4>2. v[j + 1] \in Characters /\ Len(t[j + 1]) = Len(t[j]) + Code[v[j + 1]].width
        <5>1. OneMore(v, t, j)
          BY NextChar, Zenon
        <5> QED
          BY <5>1 DEF OneMore
      <4> QED
        BY <3>1, <4>1, <4>2
    <3>7. (Len(t[n - 1]) + 1) + Code[c].width = Len(t[n]) + 1
      <4>1. Code[c].width \in Nat
        BY <3>6, CharBitsProperties
      <4>2. n - 1 \in 0..N /\ n \in 0..N
        BY <1>2, <3>1
      <4>3. Len(t[n - 1]) \in Nat
        BY <1>2, <4>2
      <4> QED
        BY <3>6, <4>1, <4>3, SMTT(30)
    <3>8. state(n) = [text |-> SubSeq(v, 1, n), p |-> Len(t[n]) + 1]
      BY <3>1
    <3> HIDE DEF c, state, next
    <3>9. s.text = SubSeq(v, 1, n - 1) /\ s.p = Len(t[n - 1]) + 1
      BY <3>2
    <3>10. next(s) = state(n)
      BY <3>4, <3>5, <3>7, <3>8, <3>9
    <3> QED
      BY <3>10 DEF s
  <2>2. CASE ~(n <= N)
    <3>1. at(n) = N /\ at(n - 1) = N
      BY <1>2, <2>2
    <3>2. state(n) = state(n - 1) /\ state(n - 1).p = Len(t[N]) + 1
      BY <3>1
    <3>3. next(state(n - 1)) = state(n - 1)
      BY <1>6, <3>2
    <3> QED
      BY <3>2, <3>3
  <2> QED
    BY <2>1, <2>2
<1> HIDE DEF state, next, base
<1>9. \A n \in 1..L : n - 1 \in 0..L /\ n \in 0..L /\ n # 0
  BY <1>2
<1>10. h = [n \in 0..L |-> IF n = 0 THEN base ELSE next(h[n - 1])]
  <2>1. \A n \in 0..L : n = 0 \/ n \in 1..L
    BY <1>2
  <2> QED
    BY <1>7, <1>8, <1>9, <2>1
<1>11. walk = [n \in 0..L |-> IF n = 0 THEN base ELSE next(walk[n - 1])]
  BY <1>10, Zenon
<1> HIDE DEF walk
<1>12. \A n \in 0..L : walk[n] = state(n)
  <2> DEFINE S == {n \in 0..L : walk[n] = state(n)}
  <2>1. 0 \in S
    BY <1>2, <1>7, <1>11
  <2>2. ASSUME NEW n \in 0..(L - 1), n \in S PROVE n + 1 \in S
    <3>1. n + 1 \in 1..L /\ (n + 1) - 1 = n /\ n + 1 \in 0..L /\ n + 1 # 0
      BY <1>2
    <3>2. walk[n + 1] = next(walk[n])
      BY <1>11, <3>1
    <3>3. state(n + 1) = next(state(n))
      BY <1>8, <3>1
    <3> QED
      BY <2>2, <3>1, <3>2, <3>3
  <2> HIDE DEF S
  <2>3. 0..L \subseteq S
    BY <1>2, <2>1, <2>2, InductionUpTo
  <2> QED
    BY <2>3 DEF S
<1> DEFINE n0 == CHOOSE n \in 0..L : CodesAt(b, walk[n].p) = {}
<1>13. \E n \in 0..L : CodesAt(b, walk[n].p) = {}
  <2>1. N \in 0..L /\ at(N) = N
    BY <1>2, <1>4
  <2>2. walk[N].p = Len(t[N]) + 1
    <3>1. state(N) = [text |-> SubSeq(v, 1, N), p |-> Len(t[N]) + 1]
      BY <2>1 DEF state
    <3> QED
      BY <1>12, <2>1, <3>1
  <2> QED
    BY <1>6, <2>1, <2>2
<1>14. n0 \in 0..L /\ CodesAt(b, walk[n0].p) = {}
  BY <1>13, Zenon
<1>15. end = walk[n0]
  OBVIOUS
<1> HIDE DEF n0, end
<1>16. at(n0) = N
  <2>1. CASE n0 < N
    <3>1. n0 \in 0..(N - 1) /\ at(n0) = n0
      BY <1>2, <1>14, <2>1
    <3>2. walk[n0].p = Len(t[n0]) + 1
      <4>1. state(n0) = [text |-> SubSeq(v, 1, n0), p |-> Len(t[n0]) + 1]
        BY <3>1 DEF state
      <4> QED
        BY <1>12, <1>14, <4>1
    <3> QED
      BY <1>5, <1>14, <3>1, <3>2
  <2>2. CASE ~(n0 < N)
    BY <1>2, <1>14, <2>2
  <2> QED
    BY <2>1, <2>2
<1>17. end.text = v /\ end.p = Len(t[N]) + 1
  <2>1. end = [text |-> SubSeq(v, 1, N), p |-> Len(t[N]) + 1]
    BY <1>12, <1>14, <1>15, <1>16 DEF state
  <2>2. SubSeq(v, 1, N) = v
    BY <1>3, SubSeqFull
  <2> QED
    BY <2>1, <2>2
<1> DEFINE m == Len(t[N])
           k == Len(Pad(t[N]))
<1>18. /\ m \in Nat /\ k \in 0..(Octet - 1) /\ Octet \in Nat /\ L = m + k
       /\ \A i \in 1..k : b[m + i] = 1
  <2>1. N \in 0..N
    BY <1>2
  <2>2. k \in 0..(Octet - 1) /\ Octet \in Nat
    BY PaddingProperties, Zenon
  <2>3. L = m + k
    BY PaddingProperties, Zenon DEF L
  <2>4. \A i \in 1..k : b[m + i] = 1
    BY PaddingProperties, Zenon
  <2> QED
    BY <1>2, <2>1, <2>2, <2>3, <2>4
<1> HIDE DEF m, k
<1>19. left = k /\ k \in Nat /\ k < Octet
  BY <1>17, <1>18 DEF m
<1>20. SubSeq(b, end.p, L) = Ones(k)
  <2> DEFINE p == m + 1
             s == SubSeq(b, p, p + k - 1)
  <2>1. p \in Nat \ {0} /\ p + k - 1 = L /\ p + k - 1 <= Len(b)
    BY <1>18, <1>19 DEF L
  <2>2. s \in Seq(Bit) /\ Len(s) = k /\ \A i \in 1..k : s[i] = b[p + i - 1]
    BY <1>2, <1>19, <2>1, PartOfBits
  <2>3. Ones(k) \in Seq(Bit) /\ Len(Ones(k)) = k /\ \A i \in 1..k : Ones(k)[i] = 1
    BY <1>19, OnesProperties
  <2>4. \A i \in 1..k : s[i] = Ones(k)[i]
    <3>1. \A i \in 1..k : p + i - 1 = m + i
      BY <1>18, <1>19
    <3> QED
      BY <1>18, <2>2, <2>3, <3>1
  <2> HIDE DEF s
  <2>5. s = Ones(k)
    BY <2>2, <2>3, <2>4, SeqEqual
  <2> QED
    BY <1>17, <2>1, <2>5 DEF s, m
<1> QED
  BY <1>1, <1>17, <1>19, <1>20

\* A string is read by its octets.
LEMMA StringIsRead ==
  ASSUME NEW prefix \in {0, Flag}, NEW body \in Seq(Nat), NEW o, NEW s,
         IsString(Len(body), prefix, body, o, s)
  PROVE  PeerReads(s) = IF prefix = 0 THEN <<[i \in 1..Len(body) |-> Chars[body[i]]]>>
                        ELSE Undo(OctetBits(body))
<1>1. /\ o \in Seq(Nat) /\ Len(o) \in Nat \ {0} /\ s \in Seq(Nat) /\ Len(s) = Len(o) + Len(body)
      /\ (s[1] < Flag) = (prefix = 0) /\ Heads(s) = {Len(o)} /\ Meaning(o) = Len(body)
      /\ SubSeq(s, 1, Len(o)) = o /\ SubSeq(s, Len(o) + 1, Len(s)) = body
  BY DEF IsString
<1>2. (CHOOSE n \in Heads(s) : TRUE) = Len(o) /\ Heads(s) # {}
  BY <1>1
<1> DEFINE k == {n \in 1..Len(s) : Whole(SubSeq(s, 1, n))}
<1>3. k = Heads(s)
  BY DEF Heads
<1> HIDE DEF k
<1>4. (CHOOSE n \in k : TRUE) = Len(o) /\ k # {}
  BY <1>2, <1>3
<1> DEFINE head == SubSeq(s, 1, CHOOSE n \in k : TRUE)
           rest == SubSeq(s, Len(head) + 1, Len(s))
<1>5. PeerReads(s) = IF k = {} \/ Meaning(head) # Len(rest) THEN <<>>
                     ELSE IF s[1] < Flag THEN <<[i \in 1..Len(rest) |-> Chars[rest[i]]]>>
                     ELSE Undo(OctetBits(rest))
  BY Zenon DEF PeerReads, k
<1>6. head = o
  BY <1>1, <1>4
<1> HIDE DEF head
<1>7. rest = body
  BY <1>1, <1>6
<1> HIDE DEF rest
<1> QED
  BY <1>1, <1>4, <1>5, <1>6, <1>7

\* The octets of a string behind its length.
Body(v, huffman) == IF huffman THEN Octets(Text(v) \o Pad(Text(v))) ELSE Plain(v)
Prefix(huffman) == IF huffman THEN Flag ELSE 0

\* A string that is not Huffman coded is read as it was written.
LEMMA PlainProperties ==
  ASSUME NEW v \in Seq(Characters)
  PROVE  /\ Plain(v) \in Seq(Nat) /\ Len(Plain(v)) = Len(v)
         /\ [i \in 1..Len(Plain(v)) |-> Chars[Plain(v)[i]]] = v
<1>1. Len(v) \in Nat /\ v = [i \in 1..Len(v) |-> v[i]]
  BY LenProperties
<1>2. \A i \in 1..Len(v) : /\ Plain(v)[i] \in DOMAIN Chars /\ Chars[Plain(v)[i]] = v[i]
  <2> TAKE i \in 1..Len(v)
  <2>1. v[i] \in Characters
    BY ElementOfSeq
  <2>2. \E n \in DOMAIN Chars : Chars[n] = v[i]
    BY <2>1 DEF Characters
  <2>3. Plain(v)[i] = CHOOSE n \in DOMAIN Chars : Chars[n] = v[i]
    BY DEF Plain
  <2> QED
    BY <2>2, <2>3
<1>3. \A i \in 1..Len(v) : Plain(v)[i] \in Nat
  BY <1>2, StringsAssumption
<1>4. Plain(v) \in Seq(Nat) /\ Len(Plain(v)) = Len(v)
  <2>1. Plain(v) = [i \in 1..Len(v) |-> Plain(v)[i]]
    BY DEF Plain
  <2> QED
    BY <1>1, <1>3, <2>1
<1> QED
  BY <1>1, <1>2, <1>4

\* Octets that stand for v, not more than the buffer holds for each character.
LEMMA BodyProperties ==
  ASSUME NEW v \in Seq(Characters), NEW huffman \in BOOLEAN
  PROVE  /\ Body(v, huffman) \in Seq(Nat)
         /\ huffman => Undo(OctetBits(Body(v, huffman))) = <<v>>
         /\ Len(v) <= MaxLength => Readable(Len(Body(v, huffman)))
<1>1. Len(v) \in Nat /\ MaxLength \in Nat /\ Buffer \in Nat
  BY LenProperties, FieldAssumption, StringsAssumption
<1>2. ASSUME NEW a \in Nat, NEW n \in Nat, n <= MaxLength, a <= n * Buffer PROVE Readable(a)
  <2>1. n * Buffer <= MaxLength * Buffer
    <3>1. ASSUME NEW d \in Nat PROVE (n + d) * Buffer = n * Buffer + d * Buffer /\ d * Buffer \in Nat
      BY <1>1
    <3>2. MaxLength - n \in Nat /\ n + (MaxLength - n) = MaxLength
      BY <1>1, <1>2
    <3>3. MaxLength * Buffer = n * Buffer + (MaxLength - n) * Buffer /\ (MaxLength - n) * Buffer \in Nat
      BY <3>1, <3>2
    <3>4. n * Buffer \in Nat
      BY <1>1
    <3> DEFINE x == n * Buffer
               y == (MaxLength - n) * Buffer
    <3> HIDE DEF x, y
    <3>5. x \in Nat /\ y \in Nat /\ MaxLength * Buffer = x + y
      BY <3>3, <3>4 DEF x, y
    <3>6. x <= x + y
      BY <3>5
    <3> QED
      BY <3>5, <3>6 DEF x
  <2>2. n * Buffer \in Nat /\ MaxLength * Buffer \in Nat
    BY <1>1
  <2>3. a \in 0..(MaxLength * Buffer)
    BY <1>2, <2>1, <2>2
  <2> QED
    BY <2>3, FieldAssumption
<1>3. CASE ~huffman
  <2>1. Body(v, huffman) \in Seq(Nat) /\ Len(Body(v, huffman)) = Len(v)
    BY <1>3, PlainProperties DEF Body
  <2>2. Len(v) <= Len(v) * Buffer
    <3>1. CASE Len(v) = 0
      BY <1>1, <3>1
    <3>2. CASE Len(v) # 0
      <4>1. v[1] \in Characters
        BY <1>1, <3>2, ElementOfSeq
      <4>2. Buffer >= 1
        BY <1>1, <4>1, CharBitsProperties, Multiples
      <4>3. PICK d \in Nat : Buffer = 1 + d
        BY <1>1, <4>2
      <4>4. Len(v) * (1 + d) = Len(v) + Len(v) * d /\ Len(v) * d \in Nat
        BY <1>1
      <4> QED
        BY <1>1, <4>3, <4>4
    <3> QED
      BY <3>1, <3>2
  <2> QED
    BY <1>1, <1>2, <1>3, <2>1, <2>2
<1>4. CASE huffman
  <2>1. PICK t : Texts(v, t) /\ Text(v) = t[Len(v)]
    BY TextIsDefined
  <2> DEFINE T == t[Len(v)]
             b == T \o Pad(T)
             o == Octets(b)
  <2>2. Body(v, huffman) = o
    BY <1>4, <2>1 DEF Body
  <2>3. Padding(v, t, b)
    BY <2>1 DEF Padding
  <2>4. /\ T \in Seq(Bit) /\ t[0] = <<>> /\ \A n \in 0..Len(v) : Len(t[n]) \in Nat
    <3>1. Len(v) \in 0..Len(v) /\ t \in [0..Len(v) -> Seq(Bit)]
      BY <1>1, <2>1 DEF Texts
    <3> QED
      BY <2>3, <3>1, PaddingProperties
  <2>5. b \in Seq(Bit) /\ Len(b) \in Nat /\ Len(b) % Octet = 0
    <3>1. Len(b) % Octet = 0 /\ Pad(T) \in Seq(Bit)
      BY <2>4, PadProperties
    <3> QED
      BY <2>4, <3>1, ConcatProperties, LenProperties
  <2>6. Len(b) = Len(T) + Len(Pad(T)) /\ Len(Pad(T)) \in 0..(Octet - 1)
    <3>1. Len(b) = Len(T) + Len(Pad(T))
      BY <2>3, PaddingProperties, Zenon
    <3>2. Len(Pad(T)) \in 0..(Octet - 1)
      BY <2>3, PaddingProperties, Zenon
    <3> QED
      BY <3>1, <3>2
  <2> HIDE DEF b
  <2>7. o \in Seq(Nat) /\ Len(o) \in Nat /\ Len(o) <= Len(b)
    <3>1. o \in Seq(Nat) /\ Len(o) = Len(b) \div Octet
      BY <2>5, OctetsProperties
    <3>2. Len(b) \div Octet \in Nat /\ Len(b) = Octet * (Len(b) \div Octet) + 0
      BY <2>5, OctetDivision
    <3>3. ASSUME NEW q \in Nat PROVE q <= Octet * q + 0
      <4>1. PICK d \in Nat : Octet = 1 + d
        <5>1. Octet - 1 \in Nat /\ Octet = 1 + (Octet - 1)
          BY Multiples
        <5> QED
          BY <5>1
      <4>2. (1 + d) * q = q + d * q /\ d * q \in Nat
        OBVIOUS
      <4> QED
        BY <4>1, <4>2
    <3> QED
      BY <3>1, <3>2, <3>3
  <2>8. Undo(OctetBits(o)) = <<v>>
    <3>1. OctetBits(o) = b
      BY <2>5, OctetBitsBack
    <3> QED
      BY <2>3, <3>1, UndoText
  <2>9. Len(b) <= Len(v) * Buffer
    <3> DEFINE N == Len(v)
               S == {n \in 0..N : n = 0 \/ Len(t[n]) + (Octet - 1) <= n * Buffer}
    <3>1. 0 \in S
      BY <1>1
    <3>2. ASSUME NEW n \in 0..(N - 1), n \in S PROVE n + 1 \in S
      <4> DEFINE w == Code[v[n + 1]].width
      <4>1. Len(t[n + 1]) = Len(t[n]) + w /\ v[n + 1] \in Characters
        <5>1. OneMore(v, t, n)
          BY <2>3, NextChar, Zenon
        <5> QED
          BY <5>1 DEF OneMore
      <4>2. w \in Nat /\ Octet - 1 + w <= Buffer
        BY <4>1, CharBitsProperties
      <4> HIDE DEF w
      <4>3. n \in 0..N /\ n + 1 \in 0..N /\ Len(t[n]) \in Nat /\ Octet \in Nat /\ Octet >= 2
        <5>1. n \in 0..N /\ n + 1 \in 0..N
          BY <1>1
        <5>2. Len(t[n]) \in Nat
          BY <2>4, <5>1
        <5> QED
          BY <5>1, <5>2, Multiples
      <4>4. (n + 1) * Buffer = n * Buffer + Buffer /\ n * Buffer \in Nat
        BY <1>1, <4>3
      <4>5. CASE n = 0
        <5>1. Len(t[n]) = 0 /\ n * Buffer = 0
          BY <1>1, <2>4, <4>5
        <5> QED
          BY <1>1, <4>1, <4>2, <4>3, <4>4, <5>1
      <4>6. CASE n # 0
        <5>1. Len(t[n]) + (Octet - 1) <= n * Buffer
          BY <3>2, <4>6
        <5> DEFINE x == n * Buffer
                   y == (n + 1) * Buffer
        <5>2. y = x + Buffer /\ x \in Nat /\ Len(t[n]) + (Octet - 1) <= x
          BY <4>4, <5>1
        <5> HIDE DEF x, y
        <5>3. Len(t[n + 1]) + (Octet - 1) <= y
          BY <1>1, <4>1, <4>2, <4>3, <5>2
        <5> QED
          BY <4>3, <5>3 DEF y
      <4> QED
        BY <4>5, <4>6
    <3> HIDE DEF S
    <3>3. 0..N \subseteq S
      BY <1>1, <3>1, <3>2, InductionUpTo
    <3>4. N \in S
      BY <1>1, <3>3
    <3>5. CASE N = 0
      <4>1. T = <<>>
        BY <2>4, <3>5
      <4>2. Len(T) = 0 /\ Len(T) % Octet = 0
        <5>1. 0 = Octet * 0 + 0 /\ 0 \in 0..(Octet - 1) /\ 0 \in Nat
          BY Multiples
        <5>2. 0 % Octet = 0
          BY <5>1, OctetDivisionIsUnique
        <5> QED
          BY <4>1, <5>2
      <4>3. Len(Rest(T)) = 0
        BY <2>4, <4>2, RestProperties
      <4>4. Len(Pad(T)) = 0
        BY <2>4, <4>3, PadProperties
      <4>5. Len(b) = 0 /\ Len(v) * Buffer = 0
        BY <1>1, <2>6, <3>5, <4>2, <4>4
      <4> QED
        BY <4>5
    <3>6. CASE N # 0
      <4>1. Len(T) + (Octet - 1) <= N * Buffer
        BY <3>4, <3>6 DEF S
      <4> DEFINE x == N * Buffer
                 m == Len(T)
                 k == Len(Pad(T))
      <4>2. x \in Nat /\ m \in Nat /\ k \in 0..(Octet - 1) /\ Octet \in Nat /\ Len(b) = m + k
            /\ m + (Octet - 1) <= x
        <5>1. m \in Nat
          BY <2>4, LenProperties
        <5>2. x \in Nat
          BY <1>1
        <5> QED
          BY <2>6, <4>1, <5>1, <5>2, Multiples
      <4> HIDE DEF x, m, k
      <4>3. Len(b) <= x
        BY <4>2
      <4> QED
        BY <4>3 DEF x
    <3> QED
      BY <3>5, <3>6
  <2>10. Len(o) <= Len(v) * Buffer
    <3>1. Len(v) * Buffer \in Nat
      BY <1>1
    <3> QED
      BY <2>5, <2>7, <2>9, <3>1
  <2>11. Len(v) <= MaxLength => Readable(Len(o))
    BY <1>1, <1>2, <2>7, <2>10
  <2> HIDE DEF o
  <2> QED
    BY <2>2, <2>7, <2>8, <2>11
<1> QED
  BY <1>3, <1>4

\* A peer reads what a peer writes, and skip_string() finds its end.
LEMMA PeerStrings ==
  ASSUME NEW v \in Seq(Characters), NEW huffman \in BOOLEAN,
         NEW s, s = PeerWrites(v, huffman)
  PROVE  /\ s \in Seq(Nat) /\ Len(s) \in Nat \ {0} /\ (s[1] >= Flag) = huffman
         /\ PeerReads(s) = <<v>>
         /\ Len(v) <= MaxLength => skip_string(Append(s, 1), 1) = Len(s) + 1
<1> DEFINE body == Body(v, huffman)
           prefix == Prefix(huffman)
           o == Sent(Len(body), prefix)
<1>1. s = o \o body
  <2>1. CASE huffman
    BY <2>1 DEF PeerWrites, Body, Prefix
  <2>2. CASE ~huffman
    <3>1. Len(Plain(v)) = Len(v)
      BY PlainProperties
    <3> QED
      BY <2>2, <3>1 DEF PeerWrites, Body, Prefix
  <2> QED
    BY <2>1, <2>2
<1>2. body \in Seq(Nat) /\ Len(body) \in Nat
  BY BodyProperties, LenProperties
<1>3. prefix \in {0, Flag} /\ (prefix = 0) = ~huffman
  BY FlagIsNumber DEF Prefix
<1>4. huffman => Undo(OctetBits(body)) = <<v>>
  BY BodyProperties
<1>5. Len(v) <= MaxLength => Readable(Len(body))
  BY BodyProperties
<1>6. ~huffman => [i \in 1..Len(body) |-> Chars[body[i]]] = v
  BY PlainProperties DEF Body
<1> HIDE DEF body, prefix
<1>7. IsString(Len(body), prefix, body, o, s)
  BY <1>1, <1>2, <1>3, HeadFound
<1>8. /\ o \in Seq(Nat) /\ Len(o) \in Nat \ {0} /\ s \in Seq(Nat) /\ Len(s) = Len(o) + Len(body)
      /\ (s[1] < Flag) = (prefix = 0)
  BY <1>7 DEF IsString
<1>9. Len(s) \in Nat \ {0} /\ (s[1] >= Flag) = huffman
  <2>1. Len(s) \in Nat \ {0} /\ 1 \in 1..Len(s)
    BY <1>2, <1>8
  <2>2. s[1] \in Nat
    BY <1>8, <2>1, ElementOfSeq
  <2>3. (s[1] >= Flag) = ~(s[1] < Flag)
    BY <2>2, FlagIsNumber
  <2> QED
    BY <1>3, <1>8, <2>1, <2>3
<1>10. PeerReads(s) = IF prefix = 0 THEN <<[i \in 1..Len(body) |-> Chars[body[i]]]>>
                      ELSE Undo(OctetBits(body))
  BY <1>2, <1>3, <1>7, StringIsRead
<1>11. PeerReads(s) = <<v>>
  BY <1>3, <1>10, <1>4, <1>6
<1>12. ASSUME Len(v) <= MaxLength PROVE skip_string(Append(s, 1), 1) = Len(s) + 1
  <2>1. Readable(Len(body)) /\ 1 \in Nat
    BY <1>12, <1>5
  <2>2. Skipped(s, 1)
    BY <1>1, <1>2, <1>3, <1>7, <2>1, StringSkipped, Zenon
  <2> QED
    BY <2>2 DEF Skipped
<1> QED
  BY <1>8, <1>9, <1>11, <1>12

-----------------------------------------------------------------------------
\* What the bridge makes of a value: an error, or a text.
Texted(r) == r = <<>> \/ \E m \in Seq(Characters) : r = <<m>>

\* In HTTP/2 a value with a control is rejected.
Controlled(v) == \E i \in DOMAIN v : v[i] \in Control
Refused(v) == form # "h1" /\ Controlled(v)

\* The heart of rewrite(): what the reader has of the rewritten octets is what
\* value() makes of the string, be it copied, written anew, or rejected, and nothing
\* if it holds a control.
LEMMA RewrittenIsRead ==
  ASSUME NEW name, NEW v \in Seq(Characters), Len(v) <= MaxLength, NEW huffman \in BOOLEAN,
         NEW response, Texted(value(name, v, response)),
         NEW out, out = Rewritten(name, Append(PeerWrites(v, huffman), 1), response)
  PROVE  (IF out = <<>> THEN <<>> ELSE PeerReads(out[1]))
           = IF Controlled(v) THEN <<>> ELSE value(name, v, response)
<1> DEFINE s == PeerWrites(v, huffman)
           b == Append(s, 1)
           r == value(name, v, response)
<1>1. /\ s \in Seq(Nat) /\ Len(s) \in Nat \ {0} /\ (s[1] >= Flag) = huffman
      /\ PeerReads(s) = <<v>> /\ skip_string(b, 1) = Len(s) + 1
  BY PeerStrings
<1> HIDE DEF s
<1>2. /\ b \in Seq(Nat) /\ Len(b) = Len(s) + 1 /\ b[1] = s[1]
      /\ SubSeq(b, 1, Len(s)) = s
  <2>1. 1 \in Nat
    OBVIOUS
  <2>2. b \in Seq(Nat) /\ Len(b) = Len(s) + 1 /\ \A i \in 1..Len(s) : b[i] = s[i]
    BY <1>1, <2>1, AppendProperties
  <2>3. 1 \in 1..Len(s) /\ Len(s) \in Int /\ 1 \in Int
    BY <1>1
  <2> HIDE DEF b
  <2>4. \A i \in 1..Len(s) : b[i] \in Nat
    BY <1>1, <2>2, ElementOfSeq
  <2>5. /\ SubSeq(b, 1, Len(s)) \in Seq(Nat)
        /\ Len(SubSeq(b, 1, Len(s))) = IF 1 <= Len(s) THEN Len(s) - 1 + 1 ELSE 0
        /\ \A i \in 1..(Len(s) - 1 + 1) : SubSeq(b, 1, Len(s))[i] = b[1 + i - 1]
    BY <2>3, <2>4, SubSeqProperties
  <2>6. Len(SubSeq(b, 1, Len(s))) = Len(s) /\ \A i \in 1..Len(s) : SubSeq(b, 1, Len(s))[i] = s[i]
    <3>1. Len(s) - 1 + 1 = Len(s) /\ 1 <= Len(s) /\ \A i \in 1..Len(s) : 1 + i - 1 = i
      BY <1>1
    <3> QED
      BY <2>2, <2>5, <3>1
  <2>7. SubSeq(b, 1, Len(s)) = s
    BY <1>1, <2>5, <2>6, SeqEqual
  <2> QED
    BY <2>2, <2>3, <2>7
<1> HIDE DEF b
<1> DEFINE end == skip_string(b, 1)
           w == PeerReads(SubSeq(b, 1, end - 1))
<1>3. end # 0 /\ SubSeq(b, 1, end - 1) = s
  <2>1. end # 0 /\ end - 1 = Len(s)
    BY <1>1
  <2> QED
    BY <1>2, <2>1
<1>4. w = <<v>> /\ w # <<>> /\ w[1] = v
  <2>1. w = <<v>>
    BY <1>1, <1>3
  <2> HIDE DEF w
  <2> QED
    BY <2>1
<1>5. Rewritten(name, b, response) =
        IF end = 0 THEN <<>>
        ELSE IF ~(w # <<>> /\ \A i \in DOMAIN w[1] : w[1][i] \notin Control) THEN <<>>
        ELSE IF value(name, w[1], response) = <<>> THEN <<>>
        ELSE IF value(name, w[1], response)[1] = w[1] THEN <<SubSeq(b, 1, end - 1)>>
        ELSE <<put_string(value(name, w[1], response)[1], b[1] >= Flag)>>
  BY Zenon DEF Rewritten
<1> HIDE DEF end, w
<1>6. (w # <<>> /\ \A i \in DOMAIN w[1] : w[1][i] \notin Control) <=> ~Controlled(v)
  BY <1>4 DEF Controlled
<1>7. out = IF Controlled(v) \/ r = <<>> THEN <<>>
            ELSE IF r[1] = v THEN <<s>>
            ELSE <<put_string(r[1], huffman)>>
  <2>1. out = Rewritten(name, b, response)
    BY DEF b, s
  <2>2. (b[1] >= Flag) = huffman
    BY <1>1, <1>2
  <2>3. w[1] = v /\ SubSeq(b, 1, end - 1) = s /\ end # 0
    BY <1>3, <1>4 DEF end, w
  <2>4. out = IF Controlled(v) THEN <<>>
              ELSE IF value(name, v, response) = <<>> THEN <<>>
              ELSE IF value(name, v, response)[1] = v THEN <<s>>
              ELSE <<put_string(value(name, v, response)[1], huffman)>>
    BY <1>5, <1>6, <2>1, <2>2, <2>3
  <2> QED
    BY <2>4
<1> HIDE DEF r
<1>8. CASE Controlled(v) \/ r = <<>>
  BY <1>7, <1>8 DEF r
<1>9. CASE ~Controlled(v) /\ r # <<>>
  <2>1. PICK m \in Seq(Characters) : r = <<m>>
    BY <1>9 DEF Texted, r
  <2>2. r[1] = m
    BY <2>1
  <2>3. CASE m = v
    <3>1. out = <<s>> /\ out # <<>> /\ out[1] = s
      BY <1>7, <1>9, <2>2, <2>3
    <3> QED
      BY <1>1, <1>9, <2>1, <2>3, <3>1 DEF r
  <2>4. CASE m # v
    <3> DEFINE p == put_string(m, huffman)
    <3>1. out = <<p>>
      BY <1>7, <1>9, <2>2, <2>4
    <3>2. PeerReads(p) = <<m>>
      BY <2>1, PutStringIsSent, PeerStrings
    <3> HIDE DEF p
    <3>3. out # <<>> /\ out[1] = p
      BY <3>1
    <3> QED
      BY <1>9, <2>1, <3>2, <3>3 DEF r
  <2> QED
    BY <2>3, <2>4
<1> QED
  BY <1>8, <1>9

\* As a line or as octets of either coding, and of any length that fits, a value
\* is read on the other side as value() has it, unless HTTP/2 does not take it:
\* rewrite() with integer(), skip_string(), put_int() and put_string().
THEOREM CarriedIsValue ==
  ASSUME NEW name, NEW v \in Seq(Characters), Len(v) <= MaxLength, NEW response,
         Texted(value(name, v, response)), form \in Forms
  PROVE  Carried(name, v, response) = IF Refused(v) THEN <<>> ELSE value(name, v, response)
<1>1. CASE form = "h1"
  BY <1>1 DEF Carried, Refused
<1>2. CASE form # "h1"
  <2> DEFINE huffman == form = "huffman"
             out == Rewritten(name, Append(PeerWrites(v, huffman), 1), response)
  <2>1. huffman \in BOOLEAN
    OBVIOUS
  <2>2. Carried(name, v, response) = IF out = <<>> THEN <<>> ELSE PeerReads(out[1])
    BY <1>2 DEF Carried
  <2>3. Refused(v) = Controlled(v)
    BY <1>2 DEF Refused, Controlled
  <2> HIDE DEF huffman
  <2> QED
    BY <2>1, <2>2, <2>3, RewrittenIsRead
<1> QED
  BY <1>1, <1>2

-----------------------------------------------------------------------------
(***************************************************************************)
(* Values.                                                                 *)
(***************************************************************************)
String == Seq(Utf8)

\* A string of three parts.
IsThree(s, x, y, z) ==
  /\ s \in String /\ Len(s) = Len(x) + Len(y) + Len(z)
  /\ \A i \in 1..Len(x) : s[i] = x[i]
  /\ \A i \in 1..Len(y) : s[Len(x) + i] = y[i]
  /\ \A i \in 1..Len(z) : s[Len(x) + Len(y) + i] = z[i]

\* The octets of three parts behind one another.
LEMMA ThreeParts ==
  ASSUME NEW x \in String, NEW y \in String, NEW z \in String
  PROVE  IsThree(x \o y \o z, x, y, z)
<1> DEFINE w == x \o y
           s == w \o z
<1>1. Len(x) \in Nat /\ Len(y) \in Nat /\ Len(z) \in Nat
  BY LenProperties DEF String
<1>2. /\ w \in String /\ Len(w) = Len(x) + Len(y)
      /\ \A i \in 1..(Len(x) + Len(y)) : w[i] = IF i <= Len(x) THEN x[i] ELSE y[i - Len(x)]
  BY ConcatProperties DEF String
<1> HIDE DEF w
<1>3. /\ s \in String /\ Len(s) = Len(w) + Len(z)
      /\ \A i \in 1..(Len(w) + Len(z)) : s[i] = IF i <= Len(w) THEN w[i] ELSE z[i - Len(w)]
  <2>1. w \in String
    BY <1>2
  <2> QED
    BY <2>1, ConcatProperties DEF String
<1> HIDE DEF s
<1>4. Len(s) = Len(x) + Len(y) + Len(z)
  BY <1>1, <1>2, <1>3
<1>5. ASSUME NEW i \in 1..Len(x) PROVE s[i] = x[i]
  <2>1. i \in 1..(Len(x) + Len(y)) /\ i <= Len(w) /\ i \in 1..(Len(w) + Len(z)) /\ i <= Len(x)
    BY <1>1, <1>2
  <2> QED
    BY <1>2, <1>3, <2>1
<1>6. ASSUME NEW i \in 1..Len(y) PROVE s[Len(x) + i] = y[i]
  <2> DEFINE j == Len(x) + i
  <2>1. /\ j \in 1..(Len(x) + Len(y)) /\ j <= Len(w) /\ j \in 1..(Len(w) + Len(z))
        /\ ~(j <= Len(x)) /\ j - Len(x) = i
    BY <1>1, <1>2
  <2> HIDE DEF j
  <2>2. s[j] = y[i]
    BY <1>2, <1>3, <2>1
  <2> QED
    BY <2>2 DEF j
<1>7. ASSUME NEW i \in 1..Len(z) PROVE s[Len(x) + Len(y) + i] = z[i]
  <2> DEFINE j == Len(x) + Len(y) + i
  <2>1. j \in 1..(Len(w) + Len(z)) /\ ~(j <= Len(w)) /\ j - Len(w) = i
    BY <1>1, <1>2
  <2> HIDE DEF j
  <2>2. s[j] = z[i]
    BY <1>3, <2>1
  <2> QED
    BY <2>2 DEF j
<1> QED
  BY <1>3, <1>4, <1>5, <1>6, <1>7 DEF IsThree, s, w

\* Part of a string.
HasPart(s, p, e, y) == /\ s \in String /\ p \in Nat \ {0} /\ y \in String
                       /\ e = p + Len(y) - 1 /\ e <= Len(s)
                       /\ \A i \in 1..Len(y) : s[p + i - 1] = y[i]

\* A slice is the sequence that has its elements.
LEMMA PartOfString ==
  ASSUME NEW s, NEW p, NEW y, NEW e, HasPart(s, p, e, y)
  PROVE  SubSeq(s, p, e) = y
<1>1. /\ s \in String /\ p \in Nat \ {0} /\ y \in String
      /\ e = p + Len(y) - 1 /\ e <= Len(s)
      /\ \A i \in 1..Len(y) : s[p + i - 1] = y[i]
  BY DEF HasPart
<1>2. Len(s) \in Nat /\ Len(y) \in Nat
  BY <1>1, LenProperties DEF String
<1>3. p \in Int /\ e \in Int /\ e - p + 1 = Len(y) /\ e <= Len(s) /\ p \in Nat \ {0}
  BY <1>1, <1>2
<1>4. \A i \in p..e : s[i] \in Utf8
  <2>1. \A i \in p..e : i \in 1..Len(s)
    BY <1>2, <1>3
  <2> QED
    BY <1>1, <2>1, ElementOfSeq DEF String
<1> DEFINE t == SubSeq(s, p, e)
<1>5. /\ t \in String /\ Len(t) = IF p <= e THEN e - p + 1 ELSE 0
      /\ \A i \in 1..(e - p + 1) : t[i] = s[p + i - 1]
  BY <1>3, <1>4, SubSeqProperties DEF String
<1> HIDE DEF t
<1>6. Len(t) = Len(y) /\ \A i \in 1..Len(y) : t[i] = y[i]
  BY <1>1, <1>2, <1>3, <1>5
<1>7. t = y
  BY <1>1, <1>5, <1>6, SeqEqual DEF String
<1> QED
  BY <1>7 DEF t

\* The slices of three parts behind one another are the parts.
LEMMA PartsOfThree ==
  ASSUME NEW x \in String, NEW y \in String, NEW z \in String, NEW s, IsThree(s, x, y, z)
  PROVE  /\ SubSeq(s, 1, Len(x)) = x
         /\ SubSeq(s, Len(x) + 1, Len(x) + Len(y)) = y
         /\ SubSeq(s, Len(x) + Len(y) + 1, Len(s)) = z
<1>1. Len(x) \in Nat /\ Len(y) \in Nat /\ Len(z) \in Nat
  BY LenProperties DEF String
<1>2. /\ s \in String /\ Len(s) = Len(x) + Len(y) + Len(z)
      /\ \A i \in 1..Len(x) : s[i] = x[i]
      /\ \A i \in 1..Len(y) : s[Len(x) + i] = y[i]
      /\ \A i \in 1..Len(z) : s[Len(x) + Len(y) + i] = z[i]
  BY DEF IsThree
<1>3. SubSeq(s, 1, Len(x)) = x
  <2>1. 1 + Len(x) - 1 <= Len(s) /\ Len(x) = 1 + Len(x) - 1 /\ 1 \in Nat \ {0}
    BY <1>1, <1>2
  <2>2. \A i \in 1..Len(x) : s[1 + i - 1] = x[i]
    <3>1. \A i \in 1..Len(x) : 1 + i - 1 = i
      BY <1>1
    <3> QED
      BY <1>2, <3>1
  <2>3. HasPart(s, 1, Len(x), x)
    BY <1>2, <2>1, <2>2 DEF HasPart
  <2> QED
    BY <2>3, PartOfString
<1>4. SubSeq(s, Len(x) + 1, Len(x) + Len(y)) = y
  <2> DEFINE p == Len(x) + 1
             e == Len(x) + Len(y)
  <2>1. p + Len(y) - 1 <= Len(s) /\ e = p + Len(y) - 1 /\ p \in Nat \ {0}
    BY <1>1, <1>2
  <2>2. \A i \in 1..Len(y) : s[p + i - 1] = y[i]
    <3>1. \A i \in 1..Len(y) : p + i - 1 = Len(x) + i
      BY <1>1
    <3> QED
      BY <1>2, <3>1
  <2> HIDE DEF p, e
  <2>3. HasPart(s, p, e, y)
    BY <1>1, <1>2, <2>1, <2>2 DEF HasPart
  <2>4. SubSeq(s, p, e) = y
    BY <2>3, PartOfString
  <2> QED
    BY <2>4 DEF p, e
<1>5. SubSeq(s, Len(x) + Len(y) + 1, Len(s)) = z
  <2> DEFINE p == Len(x) + Len(y) + 1
             e == Len(s)
  <2>1. p + Len(z) - 1 <= Len(s) /\ e = p + Len(z) - 1 /\ p \in Nat \ {0}
    BY <1>1, <1>2
  <2>2. \A i \in 1..Len(z) : s[p + i - 1] = z[i]
    <3>1. \A i \in 1..Len(z) : p + i - 1 = Len(x) + Len(y) + i
      BY <1>1
    <3> QED
      BY <1>2, <3>1
  <2> HIDE DEF p, e
  <2>3. HasPart(s, p, e, z)
    BY <1>1, <1>2, <2>1, <2>2 DEF HasPart
  <2>4. SubSeq(s, p, e) = z
    BY <2>3, PartOfString
  <2> QED
    BY <2>4 DEF p, e
<1> QED
  BY <1>3, <1>4, <1>5

\* Two cuts make three parts.
LEMMA CutInThree ==
  ASSUME NEW s \in String, NEW a \in 0..Len(s), NEW b \in a..Len(s)
  PROVE  /\ SubSeq(s, 1, a) \in String /\ Len(SubSeq(s, 1, a)) = a
         /\ SubSeq(s, a + 1, b) \in String /\ Len(SubSeq(s, a + 1, b)) = b - a
         /\ SubSeq(s, b + 1, Len(s)) \in String /\ Len(SubSeq(s, b + 1, Len(s))) = Len(s) - b
         /\ s = SubSeq(s, 1, a) \o SubSeq(s, a + 1, b) \o SubSeq(s, b + 1, Len(s))
<1>1. Len(s) \in Nat /\ a \in Nat /\ b \in Nat /\ a <= b /\ b <= Len(s)
  BY LenProperties DEF String
<1>2. ASSUME NEW p \in Nat \ {0}, NEW e \in Nat, e <= Len(s), p <= e + 1
      PROVE  SubSeq(s, p, e) \in String /\ Len(SubSeq(s, p, e)) = e - p + 1
  <2>1. \A i \in p..e : s[i] \in Utf8
    <3>1. \A i \in p..e : i \in 1..Len(s)
      BY <1>1, <1>2
    <3> QED
      BY <3>1, ElementOfSeq DEF String
  <2>2. p \in Int /\ e \in Int
    OBVIOUS
  <2>3. SubSeq(s, p, e) \in String /\ Len(SubSeq(s, p, e)) = IF p <= e THEN e - p + 1 ELSE 0
    BY <2>1, <2>2, SubSeqProperties DEF String
  <2> QED
    BY <1>2, <2>3
<1>3. SubSeq(s, 1, a) \in String /\ Len(SubSeq(s, 1, a)) = a
  <2>1. a - 1 + 1 = a /\ 1 \in Nat \ {0} /\ a <= Len(s) /\ 1 <= a + 1
    BY <1>1
  <2> QED
    BY <1>1, <1>2, <2>1
<1>4. SubSeq(s, a + 1, b) \in String /\ Len(SubSeq(s, a + 1, b)) = b - a
  <2>1. b - (a + 1) + 1 = b - a /\ a + 1 \in Nat \ {0} /\ a + 1 <= b + 1
    BY <1>1
  <2> QED
    BY <1>1, <1>2, <2>1
<1>5. SubSeq(s, b + 1, Len(s)) \in String /\ Len(SubSeq(s, b + 1, Len(s))) = Len(s) - b
  <2>1. Len(s) - (b + 1) + 1 = Len(s) - b /\ b + 1 \in Nat \ {0} /\ b + 1 <= Len(s) + 1 /\ Len(s) <= Len(s)
    BY <1>1
  <2>2. SubSeq(s, b + 1, Len(s)) \in String /\ Len(SubSeq(s, b + 1, Len(s))) = Len(s) - (b + 1) + 1
    BY <1>1, <1>2, <2>1
  <2> QED
    BY <2>1, <2>2
<1>6. SubSeq(s, 1, a) \o SubSeq(s, a + 1, b) = SubSeq(s, 1, b)
  <2>1. 1 \in 1..(Len(s) + 1) /\ a \in (1 - 1)..Len(s) /\ b \in a..Len(s)
    BY <1>1
  <2> QED
    BY <2>1, ConcatAdjacentSubSeq DEF String
<1>7. SubSeq(s, 1, b) \o SubSeq(s, b + 1, Len(s)) = SubSeq(s, 1, Len(s))
  <2>1. 1 \in 1..(Len(s) + 1) /\ b \in (1 - 1)..Len(s) /\ Len(s) \in b..Len(s)
    BY <1>1
  <2> QED
    BY <2>1, ConcatAdjacentSubSeq DEF String
<1>8. SubSeq(s, 1, Len(s)) = s
  BY SubSeqFull DEF String
<1> QED
  BY <1>3, <1>4, <1>5, <1>6, <1>7, <1>8

\* Where white space ends, and where it begins again; W is what counts as such.
LeadsTo(s, n, W) == /\ n \in 0..Len(s) /\ \A i \in 1..n : s[i] \in W
                    /\ n < Len(s) => s[n + 1] \notin W
EndsAt(s, n, W) == /\ n \in 0..Len(s) /\ \A i \in n + 1..Len(s) : s[i] \in W
                   /\ n > 0 => s[n] \notin W

\* trim_start_matches() stops at one place.
LEMMA LeadingIs ==
  ASSUME NEW W, NEW s \in String, NEW n, LeadsTo(s, n, W)
  PROVE  Leading(s, W) = n
<1>1. Len(s) \in Nat
  BY LenProperties DEF String
<1>2. Leading(s, W) = CHOOSE m \in 0..Len(s) : LeadsTo(s, m, W)
  <2>1. \A m \in 0..Len(s) : LeadsTo(s, m, W) <=> /\ \A i \in 1..m : s[i] \in W
                                                  /\ m < Len(s) => s[m + 1] \notin W
    BY DEF LeadsTo
  <2> QED
    BY <2>1 DEF Leading
<1>3. ASSUME NEW m \in 0..Len(s), LeadsTo(s, m, W) PROVE m = n
  <2>1. n \in 0..Len(s)
    BY DEF LeadsTo
  <2>2. ~(m < n)
    <3> SUFFICES ASSUME m < n PROVE FALSE
      OBVIOUS
    <3>1. m + 1 \in 1..n /\ m < Len(s)
      BY <1>1, <2>1
    <3> QED
      BY <1>3, <3>1 DEF LeadsTo
  <2>3. ~(n < m)
    <3> SUFFICES ASSUME n < m PROVE FALSE
      OBVIOUS
    <3>1. n + 1 \in 1..m /\ n < Len(s)
      BY <1>1, <2>1
    <3> QED
      BY <1>3, <3>1 DEF LeadsTo
  <2> QED
    BY <1>1, <2>1, <2>2, <2>3
<1>4. n \in 0..Len(s)
  BY DEF LeadsTo
<1> QED
  BY <1>2, <1>3, <1>4

\* trim_end_matches() stops at one place.
LEMMA TrimEndIs ==
  ASSUME NEW W, NEW s \in String, NEW n, EndsAt(s, n, W)
  PROVE  TrimEnd(s, W) = n
<1>1. Len(s) \in Nat
  BY LenProperties DEF String
<1>2. TrimEnd(s, W) = CHOOSE m \in 0..Len(s) : EndsAt(s, m, W)
  <2>1. \A m \in 0..Len(s) : EndsAt(s, m, W) <=> /\ \A i \in m + 1..Len(s) : s[i] \in W
                                                 /\ m > 0 => s[m] \notin W
    BY DEF EndsAt
  <2> QED
    BY <2>1 DEF TrimEnd
<1>3. ASSUME NEW m \in 0..Len(s), EndsAt(s, m, W) PROVE m = n
  <2>1. n \in 0..Len(s)
    BY DEF EndsAt
  <2>2. ~(m < n)
    <3> SUFFICES ASSUME m < n PROVE FALSE
      OBVIOUS
    <3>1. n \in m + 1..Len(s) /\ n > 0
      BY <1>1, <2>1
    <3> QED
      BY <1>3, <3>1 DEF EndsAt
  <2>3. ~(n < m)
    <3> SUFFICES ASSUME n < m PROVE FALSE
      OBVIOUS
    <3>1. m \in n + 1..Len(s) /\ m > 0
      BY <1>1, <2>1
    <3> QED
      BY <1>3, <3>1 DEF EndsAt
  <2> QED
    BY <1>1, <2>1, <2>2, <2>3
<1>4. n \in 0..Len(s)
  BY DEF EndsAt
<1> QED
  BY <1>2, <1>3, <1>4

AreBlanks(x, W) == x \in String /\ \A i \in 1..Len(x) : x[i] \in W
IsCore(c, W) == c \in String /\ Len(c) > 0 /\ c[1] \notin W /\ c[Len(c)] \notin W
Laid(s, l, c, t, W) == AreBlanks(l, W) /\ IsCore(c, W) /\ AreBlanks(t, W) /\ s = l \o c \o t

\* A string with blanks around it.
LEMMA LaidProperties ==
  ASSUME NEW W, NEW s, NEW l, NEW c, NEW t, Laid(s, l, c, t, W)
  PROVE  /\ s \in String /\ IsThree(s, l, c, t) /\ Leading(s, W) = Len(l) /\ TrimEnd(s, W) = Len(l) + Len(c)
         /\ Trim(s, W) = c /\ SubSeq(s, 1, Leading(s, W)) = l /\ SubSeq(s, TrimEnd(s, W) + 1, Len(s)) = t
         /\ ~(TrimEnd(s, W) < Leading(s, W)) /\ Len(c) <= Len(s)
<1>1. /\ l \in String /\ c \in String /\ t \in String /\ s = l \o c \o t
      /\ \A i \in 1..Len(l) : l[i] \in W
      /\ \A i \in 1..Len(t) : t[i] \in W
      /\ Len(c) > 0 /\ c[1] \notin W /\ c[Len(c)] \notin W
  BY DEF Laid, AreBlanks, IsCore
<1>2. Len(l) \in Nat /\ Len(c) \in Nat /\ Len(t) \in Nat
  BY <1>1, LenProperties DEF String
<1>3. IsThree(s, l, c, t)
  BY <1>1, ThreeParts
<1>4. /\ s \in String /\ Len(s) = Len(l) + Len(c) + Len(t)
      /\ \A i \in 1..Len(l) : s[i] = l[i]
      /\ \A i \in 1..Len(c) : s[Len(l) + i] = c[i]
      /\ \A i \in 1..Len(t) : s[Len(l) + Len(c) + i] = t[i]
  BY <1>3 DEF IsThree
<1>5. LeadsTo(s, Len(l), W)
  <2>1. Len(l) \in 0..Len(s) /\ 1 \in 1..Len(c)
    BY <1>1, <1>2, <1>4
  <2>2. s[Len(l) + 1] \notin W
    BY <1>1, <1>4, <2>1
  <2>3. \A i \in 1..Len(l) : s[i] \in W
    BY <1>1, <1>4
  <2> QED
    BY <2>1, <2>2, <2>3 DEF LeadsTo
<1>6. EndsAt(s, Len(l) + Len(c), W)
  <2> DEFINE n == Len(l) + Len(c)
  <2>1. n \in 0..Len(s) /\ Len(c) \in 1..Len(c) /\ n \in Nat /\ Len(s) = n + Len(t)
    BY <1>1, <1>2, <1>4
  <2>2. s[n] \notin W
    BY <1>1, <1>4, <2>1
  <2>3. \A i \in 1..Len(t) : s[n + i] \in W
    BY <1>1, <1>4
  <2> HIDE DEF n
  <2>4. ASSUME NEW i \in n + 1..Len(s) PROVE s[i] \in W
    <3>1. i - n \in 1..Len(t) /\ n + (i - n) = i
      BY <1>2, <2>1
    <3> QED
      BY <2>3, <3>1
  <2>5. EndsAt(s, n, W)
    BY <2>1, <2>2, <2>4 DEF EndsAt
  <2> QED
    BY <2>5 DEF n
<1>7. Leading(s, W) = Len(l) /\ TrimEnd(s, W) = Len(l) + Len(c)
  BY <1>4, <1>5, <1>6, LeadingIs, TrimEndIs
<1>8. /\ SubSeq(s, 1, Len(l)) = l /\ SubSeq(s, Len(l) + 1, Len(l) + Len(c)) = c
      /\ SubSeq(s, Len(l) + Len(c) + 1, Len(s)) = t
  BY <1>1, <1>3, PartsOfThree
<1>9. ~(Len(l) + Len(c) < Len(l)) /\ Len(c) <= Len(s)
  BY <1>2, <1>4
<1> QED
  BY <1>3, <1>4, <1>7, <1>8, <1>9 DEF Trim

\* Nothing, or nothing but blanks.
LEMMA BlankProperties ==
  ASSUME NEW W, NEW s, AreBlanks(s, W)
  PROVE  /\ s \in String /\ Leading(s, W) = Len(s) /\ TrimEnd(s, W) = 0 /\ Trim(s, W) = <<>> /\ Len(s) \in Nat
         /\ s # <<>> => TrimEnd(s, W) < Leading(s, W)
<1>1. s \in String /\ \A i \in 1..Len(s) : s[i] \in W
  BY DEF AreBlanks
<1>2. Len(s) \in Nat /\ DOMAIN s = 1..Len(s)
  BY <1>1, LenProperties DEF String
<1>3. LeadsTo(s, Len(s), W) /\ EndsAt(s, 0, W)
  BY <1>1, <1>2 DEF LeadsTo, EndsAt
<1>4. Leading(s, W) = Len(s) /\ TrimEnd(s, W) = 0
  BY <1>1, <1>3, LeadingIs, TrimEndIs
<1>5. Trim(s, W) = <<>>
  <2>1. Len(s) + 1 \in Int /\ 0 \in Int /\ 0 < Len(s) + 1
    BY <1>2
  <2>2. SubSeq(s, Len(s) + 1, 0) = <<>>
    BY <2>1, SubSeqEmpty
  <2> QED
    BY <1>4, <2>2 DEF Trim
<1>6. s # <<>> => Len(s) > 0
  BY <1>1, <1>2, EmptySeq DEF String
<1> QED
  BY <1>1, <1>2, <1>4, <1>5, <1>6

\* Every other string has a core.
LEMMA Layouts ==
  ASSUME NEW W, NEW s \in String
  PROVE  AreBlanks(s, W) \/ \E l, c, t : Laid(s, l, c, t, W)
<1>1. Len(s) \in Nat
  BY LenProperties DEF String
<1>2. SUFFICES ASSUME ~AreBlanks(s, W) PROVE \E l, c, t : Laid(s, l, c, t, W)
  OBVIOUS
<1> DEFINE F == {i \in 1..Len(s) : s[i] \notin W}
           B == {k \in 0..Len(s) : k < Len(s) /\ s[Len(s) - k] \notin W}
<1>3. F # {} /\ F \subseteq Nat
  BY <1>2 DEF AreBlanks
<1>4. PICK a \in F : \A i \in F : a <= i
  <2> HIDE DEF F
  <2> QED
    BY <1>3, LeastElement
<1>5. B # {} /\ B \subseteq Nat
  <2>1. Len(s) - a \in B
    <3>1. Len(s) - (Len(s) - a) = a /\ Len(s) - a \in 0..Len(s) /\ Len(s) - a < Len(s)
      BY <1>1
    <3> QED
      BY <3>1
  <2> QED
    BY <2>1
<1>6. PICK k \in B : \A j \in B : k <= j
  <2> HIDE DEF B
  <2> QED
    BY <1>5, LeastElement
<1> DEFINE b == Len(s) - k
<1>7. b \in 1..Len(s) /\ s[b] \notin W /\ a \in 1..Len(s) /\ s[a] \notin W
  BY <1>1
<1>8. \A i \in 1..(a - 1) : s[i] \in W
  <2> TAKE i \in 1..(a - 1)
  <2>1. i \in 1..Len(s) /\ ~(a <= i)
    BY <1>1
  <2> QED
    BY <1>4, <2>1
<1>9. \A i \in (b + 1)..Len(s) : s[i] \in W
  <2> TAKE i \in (b + 1)..Len(s)
  <2>1. Len(s) - i \in 0..Len(s) /\ Len(s) - i < Len(s) /\ Len(s) - (Len(s) - i) = i /\ ~(k <= Len(s) - i)
    BY <1>1, <1>7
  <2> QED
    BY <1>6, <2>1
<1>10. a <= b
  BY <1>1, <1>7, <1>9
<1> HIDE DEF F, B, b
<1> DEFINE l == SubSeq(s, 1, a - 1)
           c == SubSeq(s, (a - 1) + 1, b)
           t == SubSeq(s, b + 1, Len(s))
<1>11. a - 1 \in 0..Len(s) /\ b \in (a - 1)..Len(s)
  BY <1>1, <1>7, <1>10
<1>12. /\ l \in String /\ Len(l) = a - 1 /\ c \in String /\ Len(c) = b - (a - 1)
       /\ t \in String /\ Len(t) = Len(s) - b /\ s = l \o c \o t
  BY <1>11, CutInThree, ZenonT(40)
<1> HIDE DEF l, c, t
<1>13. /\ \A i \in 1..Len(l) : s[i] = l[i]
       /\ \A i \in 1..Len(c) : s[Len(l) + i] = c[i]
       /\ \A i \in 1..Len(t) : s[Len(l) + Len(c) + i] = t[i]
  <2>1. IsThree(s, l, c, t)
    BY <1>12, ThreeParts
  <2> QED
    BY <2>1 DEF IsThree
<1>14. AreBlanks(l, W)
  <2>1. \A i \in 1..Len(l) : l[i] \in W
    BY <1>8, <1>12, <1>13
  <2> QED
    BY <1>12, <2>1 DEF AreBlanks
<1>15. IsCore(c, W)
  <2>1. 1 \in 1..Len(c) /\ Len(c) \in 1..Len(c) /\ Len(l) + 1 = a /\ Len(l) + Len(c) = b /\ Len(c) > 0
    BY <1>1, <1>7, <1>10, <1>12
  <2>2. s[a] = c[1] /\ s[b] = c[Len(c)]
    BY <1>13, <2>1
  <2> QED
    BY <1>7, <1>12, <2>1, <2>2 DEF IsCore
<1>16. AreBlanks(t, W)
  <2>1. ASSUME NEW i \in 1..Len(t) PROVE t[i] \in W
    <3>1. b + i \in (b + 1)..Len(s) /\ Len(l) + Len(c) + i = b + i
      BY <1>1, <1>7, <1>12
    <3>2. s[b + i] = t[i]
      BY <1>13, <3>1
    <3> QED
      BY <1>9, <3>1, <3>2
  <2> QED
    BY <1>12, <2>1 DEF AreBlanks
<1>17. Laid(s, l, c, t, W)
  BY <1>12, <1>14, <1>15, <1>16 DEF Laid
<1> QED
  BY <1>17

\* Where an authority ends.
Ends(s, n) == /\ n \in 1..Len(s) /\ \A i \in 2..n : s[i] \notin Delimiters
              /\ n < Len(s) => s[n + 1] \in Delimiters

\* The authority of a URL ends at one place.
LEMMA EndOfAuthorityIs ==
  ASSUME NEW s \in String, NEW n, Ends(s, n)
  PROVE  EndOfAuthority(s) = n
<1>1. Len(s) \in Nat
  BY LenProperties DEF String
<1>2. EndOfAuthority(s) = CHOOSE m \in 1..Len(s) : Ends(s, m)
  <2>1. \A m \in 1..Len(s) : Ends(s, m) <=> /\ \A i \in 2..m : s[i] \notin Delimiters
                                            /\ m < Len(s) => s[m + 1] \in Delimiters
    BY DEF Ends
  <2> QED
    BY <2>1 DEF EndOfAuthority
<1>3. n \in 1..Len(s)
  BY DEF Ends
<1>4. ASSUME NEW m \in 1..Len(s), Ends(s, m) PROVE m = n
  <2>1. ~(m < n)
    <3> SUFFICES ASSUME m < n PROVE FALSE
      OBVIOUS
    <3>1. m + 1 \in 2..n /\ m < Len(s)
      BY <1>1, <1>3
    <3> QED
      BY <1>4, <3>1 DEF Ends
  <2>2. ~(n < m)
    <3> SUFFICES ASSUME n < m PROVE FALSE
      OBVIOUS
    <3>1. n + 1 \in 2..m /\ n < Len(s)
      BY <1>1, <1>3
    <3> QED
      BY <1>4, <3>1 DEF Ends
  <2> QED
    BY <1>1, <1>3, <2>1, <2>2
<1> QED
  BY <1>2, <1>3, <1>4

\* Every URL has such a place.
LEMMA AuthorityEnds ==
  ASSUME NEW s \in String, s # <<>>
  PROVE  \E n : Ends(s, n)
<1>1. Len(s) \in Nat /\ Len(s) > 0
  <2>1. Len(s) \in Nat /\ Len(s) # 0
    BY LenProperties, EmptySeq DEF String
  <2> QED
    BY <2>1
<1> DEFINE D == {n \in 1..Len(s) : n = Len(s) \/ s[n + 1] \in Delimiters}
<1>2. D # {} /\ D \subseteq Nat
  <2>1. Len(s) \in D
    BY <1>1
  <2> QED
    BY <2>1
<1>3. PICK n \in D : \A m \in D : n <= m
  <2> HIDE DEF D
  <2> QED
    BY <1>2, LeastElement
<1>4. \A i \in 2..n : s[i] \notin Delimiters
  <2> SUFFICES ASSUME NEW i \in 2..n, s[i] \in Delimiters PROVE FALSE
    OBVIOUS
  <2>1. i - 1 \in 1..Len(s) /\ (i - 1) + 1 = i /\ ~(n <= i - 1)
    BY <1>1
  <2>2. i - 1 \in D
    BY <2>1
  <2> QED
    BY <1>3, <2>1, <2>2
<1>5. n \in 1..Len(s) /\ (n < Len(s) => s[n + 1] \in Delimiters)
  BY <1>1
<1>6. Ends(s, n)
  BY <1>4, <1>5 DEF Ends
<1> QED
  BY <1>6

\* A URL: a scheme, an authority, and what follows it.
Url(c, x, k, r) == /\ r \in String /\ <<x, k>> \in String /\ k \notin Delimiters
                   /\ c = <<x, k>> \o r
                   /\ r # <<>> => r[1] \in Delimiters

\* A scheme and an authority in front of a path.
LEMMA PairProperties ==
  ASSUME NEW x, NEW k, NEW r \in String, <<x, k>> \in String
  PROVE  LET c == <<x, k>> \o r
         IN  /\ c \in String /\ Len(c) = 2 + Len(r) /\ c[1] = x /\ c[2] = k
             /\ SubSeq(c, 3, Len(c)) = r /\ SubSeq(c, 2, 2) = <<k>>
             /\ Len(r) \in Nat /\ \A i \in 1..Len(r) : c[2 + i] = r[i]
<1> DEFINE p == <<x, k>>
           c == p \o r
<1>1. p \in String /\ Len(p) = 2 /\ p[1] = x /\ p[2] = k /\ Len(r) \in Nat
  <2>1. Len(r) \in Nat
    BY LenProperties DEF String
  <2> QED
    BY <2>1
<1>2. <<k>> \in String /\ Len(<<k>>) = 1 /\ <<k>>[1] = k
  <2>1. p[2] \in Utf8
    <3>1. 2 \in 1..Len(p)
      BY <1>1
    <3> QED
      BY <1>1, <3>1, ElementOfSeq DEF String
  <2> QED
    BY <2>1 DEF String
<1> HIDE DEF p
<1>3. /\ c \in String /\ Len(c) = Len(p) + Len(r)
      /\ \A i \in 1..(Len(p) + Len(r)) : c[i] = IF i <= Len(p) THEN p[i] ELSE r[i - Len(p)]
  BY <1>1, ConcatProperties DEF String
<1> HIDE DEF c
<1>4. c[1] = x /\ c[2] = k
  <2>1. /\ 1 \in 1..(Len(p) + Len(r)) /\ 2 \in 1..(Len(p) + Len(r))
        /\ 1 <= Len(p) /\ 2 <= Len(p)
    BY <1>1
  <2> QED
    BY <1>1, <1>3, <2>1
<1>5. \A i \in 1..Len(r) : c[2 + i] = r[i]
  <2> TAKE i \in 1..Len(r)
  <2>1. 2 + i \in 1..(Len(p) + Len(r)) /\ ~(2 + i <= Len(p)) /\ (2 + i) - Len(p) = i
    BY <1>1
  <2> QED
    BY <1>3, <2>1
<1>6. SubSeq(c, 3, Len(c)) = r
  <2>1. 3 \in Nat \ {0} /\ Len(c) = 3 + Len(r) - 1 /\ Len(c) <= Len(c)
    BY <1>1, <1>3
  <2>2. \A i \in 1..Len(r) : c[3 + i - 1] = r[i]
    <3>1. \A i \in 1..Len(r) : 3 + i - 1 = 2 + i
      BY <1>1
    <3> QED
      BY <1>5, <3>1
  <2>3. HasPart(c, 3, Len(c), r)
    BY <1>3, <2>1, <2>2 DEF HasPart
  <2> QED
    BY <2>3, PartOfString
<1>7. SubSeq(c, 2, 2) = <<k>>
  <2> DEFINE y == <<k>>
  <2>1. \A i \in 1..1 : i = 1 /\ 2 + i - 1 = 2
    OBVIOUS
  <2>2. y \in String /\ Len(y) = 1 /\ y[1] = k
    BY <1>2
  <2>3. 2 \in Nat \ {0} /\ 2 = 2 + Len(y) - 1 /\ 2 <= Len(c)
    BY <1>1, <1>3, <2>2
  <2> HIDE DEF y
  <2>4. \A i \in 1..Len(y) : c[2 + i - 1] = y[i]
    BY <1>4, <2>1, <2>2
  <2>5. HasPart(c, 2, 2, y)
    BY <1>3, <2>3, <2>2, <2>4 DEF HasPart
  <2>6. SubSeq(c, 2, 2) = y
    BY <2>5, PartOfString
  <2> QED
    BY <2>6 DEF y
<1> QED
  BY <1>1, <1>3, <1>4, <1>5, <1>6, <1>7 DEF c, p

\* Tokens that are something else.
LEMMA TokensDiffer ==
  ASSUME NEW k \in DOMAIN Spelled
  PROVE  /\ k \notin Blanks /\ k \notin Delimiters /\ k \notin Schemes
         /\ Spelled[k] # <<>> /\ authority(<<k>>) = Spelled[k]
<1>1. k \notin Blanks /\ k \notin Delimiters /\ k \notin Schemes /\ Spelled[k] # <<>>
  BY MappingAssumption DEF Blanks
<1>2. Len(<<k>>) = 1 /\ <<k>>[1] = k
  OBVIOUS
<1> QED
  BY <1>1, <1>2 DEF authority

\* What a value with a scheme and an authority is made of.
LEMMA UrlProperties ==
  ASSUME NEW c, NEW x, NEW k, NEW r, Url(c, x, k, r)
  PROVE  /\ c \in String /\ c # <<>> /\ EndOfAuthority(c) = 2
         /\ SubSeq(c, 2, 2) = <<k>> /\ SubSeq(c, 3, Len(c)) = r /\ c[1] = x /\ c[2] = k
         /\ Len(c) = 2 + Len(r) /\ Len(r) \in Nat /\ \A i \in 1..Len(r) : c[2 + i] = r[i]
<1>1. /\ r \in String /\ <<x, k>> \in String /\ k \notin Delimiters
      /\ c = <<x, k>> \o r /\ (r # <<>> => r[1] \in Delimiters)
  BY DEF Url
<1>2. /\ c \in String /\ Len(c) = 2 + Len(r) /\ c[1] = x /\ c[2] = k
      /\ SubSeq(c, 3, Len(c)) = r /\ SubSeq(c, 2, 2) = <<k>>
      /\ Len(r) \in Nat /\ \A i \in 1..Len(r) : c[2 + i] = r[i]
  BY <1>1, PairProperties
<1>3. c # <<>>
  <2>1. Len(c) # 0
    BY <1>2
  <2> QED
    BY <1>2, <2>1, EmptySeq DEF String
<1>4. Ends(c, 2)
  <2>1. 2 \in 1..Len(c) /\ \A i \in 2..2 : i = 2
    BY <1>2
  <2>2. c[2] \notin Delimiters
    BY <1>1, <1>2
  <2>3. 2 < Len(c) => c[2 + 1] \in Delimiters
    <3> SUFFICES ASSUME 2 < Len(c) PROVE c[2 + 1] \in Delimiters
      OBVIOUS
    <3>1. 1 \in 1..Len(r) /\ Len(r) # 0
      BY <1>2
    <3>2. r # <<>>
      BY <1>1, <3>1, EmptySeq DEF String
    <3> QED
      BY <1>1, <1>2, <3>1, <3>2
  <2> QED
    BY <2>1, <2>2, <2>3 DEF Ends
<1>5. EndOfAuthority(c) = 2
  BY <1>2, <1>4, EndOfAuthorityIs
<1> QED
  BY <1>2, <1>3, <1>5

\* What has an authority of one token is a URL.
LEMMA Urls ==
  ASSUME NEW c \in String, c # <<>>, EndOfAuthority(c) = 2
  PROVE  \E r : Url(c, c[1], c[2], r)
<1>1. PICK n : Ends(c, n)
  BY AuthorityEnds
<1>2. /\ n = 2 /\ 2 \in 1..Len(c) /\ (2 < Len(c) => c[2 + 1] \in Delimiters)
      /\ \A i \in 2..2 : c[i] \notin Delimiters
  <2>1. n = 2
    BY <1>1, EndOfAuthorityIs
  <2> QED
    BY <1>1, <2>1 DEF Ends
<1>3. Len(c) \in Nat /\ 2 <= Len(c) /\ c[2] \notin Delimiters
  <2>1. Len(c) \in Nat /\ 2 \in 2..2
    BY LenProperties DEF String
  <2> QED
    BY <1>2, <2>1
<1> DEFINE y == c[1]
           z == c[2]
           p == <<y, z>>
           r == SubSeq(c, 3, Len(c))
<1>4. y \in Utf8 /\ z \in Utf8
  <2>1. 1 \in 1..Len(c) /\ 2 \in 1..Len(c)
    BY <1>3
  <2> QED
    BY <2>1, ElementOfSeq DEF String
<1>5. p \in String /\ Len(p) = 2 /\ p[1] = y /\ p[2] = z
  <2> HIDE DEF y, z
  <2> QED
    BY <1>4 DEF String
<1>6. r \in String /\ Len(r) = Len(c) - 2 /\ \A i \in 1..Len(r) : r[i] = c[2 + i]
  <2>1. 3 \in Int /\ Len(c) \in Int /\ Len(c) - 3 + 1 = Len(c) - 2
    BY <1>3
  <2>2. \A i \in 3..Len(c) : c[i] \in Utf8
    <3>1. \A i \in 3..Len(c) : i \in 1..Len(c)
      BY <1>3
    <3> QED
      BY <3>1, ElementOfSeq DEF String
  <2>3. /\ r \in String /\ Len(r) = IF 3 <= Len(c) THEN Len(c) - 3 + 1 ELSE 0
        /\ \A i \in 1..(Len(c) - 3 + 1) : r[i] = c[3 + i - 1]
    BY <2>1, <2>2, SubSeqProperties DEF String
  <2> HIDE DEF r
  <2>4. Len(r) = Len(c) - 2
    <3> DEFINE k == Len(c)
    <3>1. Len(r) = IF 3 <= k THEN k - 3 + 1 ELSE 0
      BY <2>3
    <3>2. k \in Nat /\ 2 <= k
      BY <1>3
    <3> HIDE DEF k
    <3>3. (IF 3 <= k THEN k - 3 + 1 ELSE 0) = k - 2
      BY <3>2
    <3>4. Len(r) = k - 2
      BY <3>1, <3>3
    <3> QED
      BY <3>4 DEF k
  <2>5. \A i \in 1..Len(r) : 3 + i - 1 = 2 + i
    BY <1>3, <2>4
  <2>6. ASSUME NEW i \in 1..Len(r) PROVE r[i] = c[2 + i]
    <3>1. i \in 1..(Len(c) - 3 + 1) /\ 3 + i - 1 = 2 + i
      BY <1>3, <2>5, <2>4
    <3>2. r[i] = c[3 + i - 1]
      BY <2>3, <3>1
    <3> QED
      BY <3>1, <3>2
  <2> QED
    BY <2>3, <2>6, <2>4
<1> HIDE DEF r, p
<1>7. c = p \o r
  <2> DEFINE w == p \o r
  <2>1. /\ w \in String /\ Len(w) = Len(p) + Len(r)
        /\ \A i \in 1..(Len(p) + Len(r)) : w[i] = IF i <= Len(p) THEN p[i] ELSE r[i - Len(p)]
    BY <1>5, <1>6, ConcatProperties DEF String
  <2> HIDE DEF w
  <2>2. Len(w) = Len(c)
    BY <1>3, <1>5, <1>6, <2>1
  <2>3. ASSUME NEW i \in 1..Len(w) PROVE w[i] = c[i]
    <3>1. i \in 1..(Len(p) + Len(r)) /\ i \in Nat
      BY <1>3, <1>5, <1>6, <2>1
    <3>2. CASE i = 1
      BY <1>5, <2>1, <3>1, <3>2 DEF y
    <3>3. CASE i = 2
      BY <1>5, <2>1, <3>1, <3>3 DEF z
    <3>4. CASE i > 2
      <4>1. i - 2 \in 1..Len(r) /\ ~(i <= Len(p)) /\ 2 + (i - 2) = i /\ i - Len(p) = i - 2
        BY <1>3, <1>5, <1>6, <3>1, <3>4
      <4> QED
        BY <1>6, <2>1, <3>1, <4>1
    <3>5. i = 1 \/ i = 2 \/ i > 2
      BY <3>1
    <3> QED
      BY <3>2, <3>3, <3>4, <3>5
  <2>4. w = c
    BY <2>1, <2>2, <2>3, SeqEqual DEF String
  <2> QED
    BY <2>4 DEF w
<1>8. ASSUME r # <<>> PROVE r[1] \in Delimiters
  <2>1. Len(r) # 0 /\ Len(r) \in Nat
    BY <1>6, <1>8, EmptySeq, LenProperties DEF String
  <2>2. 1 \in 1..Len(r) /\ 2 < Len(c) /\ 2 + 1 = 3
    BY <1>3, <1>6, <2>1
  <2> QED
    BY <1>2, <1>6, <2>2
<1>9. Url(c, y, z, r)
  BY <1>3, <1>5, <1>6, <1>7, <1>8 DEF Url, p, z
<1> QED
  BY <1>9

\* What map_url() takes for a URL has an authority of one token.
LEMMA Recognised ==
  ASSUME NEW c \in String, c # <<>>, authority(SubSeq(c, 2, EndOfAuthority(c))) # <<>>
  PROVE  /\ EndOfAuthority(c) = 2 /\ c[2] \in DOMAIN Spelled
         /\ authority(SubSeq(c, 2, EndOfAuthority(c))) = Spelled[c[2]]
<1>1. PICK n : Ends(c, n)
  BY AuthorityEnds
<1>2. EndOfAuthority(c) = n /\ n \in 1..Len(c) /\ Len(c) \in Nat
  BY <1>1, EndOfAuthorityIs, LenProperties DEF Ends, String
<1> DEFINE k == SubSeq(c, 2, n)
<1>3. /\ Len(k) = IF 2 <= n THEN n - 2 + 1 ELSE 0
      /\ \A i \in 1..(n - 2 + 1) : k[i] = c[2 + i - 1]
  <2>1. 2 \in Int /\ n \in Int /\ \A i \in 2..n : c[i] \in Utf8
    <3>1. \A i \in 2..n : i \in 1..Len(c)
      BY <1>2
    <3> QED
      BY <1>2, <3>1, ElementOfSeq DEF String
  <2> QED
    BY <2>1, SubSeqProperties
<1>4. Len(k) = 1 /\ k[1] \in DOMAIN Spelled /\ authority(k) = Spelled[k[1]]
  <2>1. authority(k) # <<>>
    BY <1>2
  <2> HIDE DEF k
  <2> QED
    BY <2>1 DEF authority
<1> HIDE DEF k
<1>5. n = 2
  <2>1. (IF 2 <= n THEN n - 2 + 1 ELSE 0) = 1
    BY <1>3, <1>4
  <2> QED
    BY <1>2, <2>1
<1>6. k[1] = c[2]
  <2>1. 1 \in 1..(n - 2 + 1) /\ 2 + 1 - 1 = 2
    BY <1>5
  <2> QED
    BY <1>3, <2>1
<1> QED
  BY <1>2, <1>4, <1>5, <1>6 DEF k

\* Another authority in a URL.
LEMMA UrlReplaced ==
  ASSUME NEW c, NEW x, NEW k, NEW r, Url(c, x, k, r), NEW n \in DOMAIN Spelled, n \in Utf8
  PROVE  LET d == <<x, n>> \o r
         IN  Url(d, x, n, r) /\ Len(d) = Len(c) /\ (IsCore(c, Blanks) => IsCore(d, Blanks))
<1> DEFINE d == <<x, n>> \o r
<1>1. r \in String /\ (r # <<>> => r[1] \in Delimiters)
  BY DEF Url
<1>2. /\ c \in String /\ Len(c) = 2 + Len(r) /\ c[1] = x
      /\ Len(r) \in Nat /\ \A i \in 1..Len(r) : c[2 + i] = r[i]
  BY UrlProperties
<1>3. <<x, n>> \in String
  <2>1. x \in Utf8
    <3>1. 1 \in 1..Len(c)
      BY <1>2
    <3> QED
      BY <1>2, <3>1, ElementOfSeq DEF String
  <2> QED
    BY <2>1 DEF String
<1>4. /\ d \in String /\ Len(d) = 2 + Len(r) /\ d[1] = x
      /\ d[2] = n /\ \A i \in 1..Len(r) : d[2 + i] = r[i]
  BY <1>1, <1>3, PairProperties
<1>5. n \notin Blanks /\ n \notin Delimiters
  BY TokensDiffer
<1>6. Url(d, x, n, r)
  BY <1>1, <1>3, <1>5 DEF Url
<1> HIDE DEF d
<1>7. ASSUME IsCore(c, Blanks) PROVE IsCore(d, Blanks)
  <2>1. c[1] \notin Blanks /\ c[Len(c)] \notin Blanks
    BY <1>7 DEF IsCore
  <2>2. d[Len(d)] \notin Blanks
    <3>1. CASE Len(r) = 0
      <4>1. Len(d) = 2
        BY <1>4, <3>1
      <4> QED
        BY <1>4, <1>5, <4>1
    <3>2. CASE Len(r) # 0
      <4>1. Len(r) \in 1..Len(r)
        BY <1>2, <3>2
      <4>2. c[2 + Len(r)] = d[2 + Len(r)]
        BY <1>2, <1>4, <4>1
      <4> QED
        BY <1>2, <1>4, <2>1, <4>2
    <3> QED
      BY <3>1, <3>2
  <2>3. Len(d) > 0
    BY <1>2, <1>4
  <2> QED
    BY <1>2, <1>4, <2>1, <2>2, <2>3 DEF IsCore
<1>8. Len(d) = Len(c)
  BY <1>2, <1>4
<1> QED
  BY <1>6, <1>7, <1>8 DEF d

\* The name that map_url() looks for, and the one that it writes.
From(response) == IF response THEN upstream ELSE public
To(response) == IF response THEN public ELSE upstream

\* Both names of the bridge can be written and parsed.
LEMMA NamesAreSpelled ==
  ASSUME NEW response
  PROVE  /\ From(response) \in DOMAIN Spelled /\ To(response) \in DOMAIN Spelled
         /\ From(response) \in Utf8 /\ To(response) \in Utf8
BY MappingAssumption, FieldAssumption DEF From, To

\* What map_url() recognises, of scheme x and authority k.
Known(x, k, response) ==
  x \in Schemes /\ k \in DOMAIN Spelled /\ Spelled[k] = Spelled[From(response)]

\* map_url() puts the other name in a URL of the one, in any spelling.
LEMMA MapUrlChanges ==
  ASSUME NEW response, NEW c, NEW x, NEW k, NEW r, Url(c, x, k, r), Known(x, k, response)
  PROVE  map_url(c, response) = <<x, To(response)>> \o r
<1>1. /\ c \in String /\ c # <<>> /\ EndOfAuthority(c) = 2
      /\ SubSeq(c, 2, 2) = <<k>> /\ SubSeq(c, 3, Len(c)) = r /\ c[1] = x
  BY UrlProperties
<1>2. authority(<<k>>) = authority(<<From(response)>>) /\ x \in Schemes
  BY NamesAreSpelled, TokensDiffer DEF Known
<1>3. ~(c = <<>> \/ c[1] \notin Schemes)
  BY <1>1, <1>2
<1>4. 2 + 1 = 3
  OBVIOUS
<1>5. map_url(c, response) = <<c[1], To(response)>> \o SubSeq(c, 2 + 1, Len(c))
  BY <1>1, <1>2, <1>3 DEF map_url, From, To
<1> QED
  BY <1>1, <1>4, <1>5

\* Anything else stays.
LEMMA MapUrlKeeps ==
  ASSUME NEW response, NEW c \in String, ~ \E x, k, r : Url(c, x, k, r) /\ Known(x, k, response)
  PROVE  map_url(c, response) = c
<1> DEFINE end == EndOfAuthority(c)
<1>1. SUFFICES ASSUME c # <<>>, c[1] \in Schemes,
                      authority(SubSeq(c, 2, end)) = authority(<<From(response)>>)
               PROVE  FALSE
  BY DEF map_url, From
<1>2. authority(<<From(response)>>) = Spelled[From(response)] /\ Spelled[From(response)] # <<>>
  BY NamesAreSpelled, TokensDiffer
<1>3. end = 2 /\ c[2] \in DOMAIN Spelled /\ Spelled[c[2]] = Spelled[From(response)]
  BY <1>1, <1>2, Recognised
<1>4. PICK r : Url(c, c[1], c[2], r)
  BY <1>1, <1>3, Urls
<1> QED
  BY <1>1, <1>3, <1>4 DEF Known

\* A text of UTF-8 is a text.
LEMMA StringIsText ==
  ASSUME NEW s \in String
  PROVE  s \in Seq(Characters) /\ \A i \in DOMAIN s : s[i] \notin NotUtf8
<1>1. Utf8 \subseteq Characters /\ Utf8 \cap NotUtf8 = {}
  BY DEF Utf8
<1>2. s \in Seq(Utf8) /\ Len(s) \in Nat /\ DOMAIN s = 1..Len(s)
  BY LenProperties DEF String
<1>3. \A i \in 1..Len(s) : s[i] \in Utf8
  BY <1>2, ElementOfSeq
<1>4. s \in Seq(Characters)
  BY <1>1, <1>2
<1> QED
  BY <1>1, <1>2, <1>3, <1>4

\* value() of a string with blanks around it.
IsValue(name, s, l, c, t, response) ==
  value(name, s, response) = <<l \o (IF name = "set-cookie" THEN Cookie(c) ELSE map_url(c, response)) \o t>>

\* value() changes what is between the blanks.
LEMMA LaidValue ==
  ASSUME NEW s, NEW l, NEW c, NEW t, Laid(s, l, c, t, Blanks), NEW response,
         NEW name \in Relevant(response), name \notin {"host", ":authority"}
  PROVE  IsValue(name, s, l, c, t, response)
<1> DEFINE W == Blanks
<1>1. /\ s \in String /\ Trim(s, W) = c /\ SubSeq(s, 1, Leading(s, W)) = l
      /\ SubSeq(s, TrimEnd(s, W) + 1, Len(s)) = t
      /\ ~(TrimEnd(s, W) < Leading(s, W))
  BY LaidProperties
<1>2. ~(\E i \in DOMAIN s : s[i] \in NotUtf8)
  BY <1>1, StringIsText
<1>3. value(name, s, response)
        = <<SubSeq(s, 1, Leading(s, W))
            \o (IF name = "set-cookie" THEN Cookie(Trim(s, W)) ELSE map_url(Trim(s, W), response))
            \o SubSeq(s, TrimEnd(s, W) + 1, Len(s))>>
  BY <1>1, <1>2 DEF value
<1> QED
  BY <1>1, <1>3 DEF IsValue

\* value() of nothing but blanks.
LEMMA BlankValue ==
  ASSUME NEW s, AreBlanks(s, Blanks), s # <<>>, NEW response, NEW name \in Relevant(response)
  PROVE  value(name, s, response) = <<>>
<1>1. TrimEnd(s, Blanks) < Leading(s, Blanks)
  BY BlankProperties
<1> QED
  BY <1>1 DEF value

\* The empty string adds nothing.
LEMMA NoConcat ==
  ASSUME NEW x \in String
  PROVE  <<>> \o x = x /\ x \o <<>> = x
BY ConcatEmptySeq DEF String

\* value() of nothing at all.
LEMMA EmptyValue ==
  ASSUME NEW name, name \notin {"host", ":authority", "set-cookie"}, NEW response
  PROVE  value(name, <<>>, response) = <<<<>>>>
<1> DEFINE s == <<>>
           W == Blanks
<1>1. AreBlanks(s, W) /\ Len(s) = 0
  BY DEF AreBlanks, String
<1>2. /\ s \in String /\ Leading(s, W) = Len(s) /\ TrimEnd(s, W) = 0 /\ Trim(s, W) = <<>>
  <2> HIDE DEF W, s
  <2>1. /\ s \in String /\ Leading(s, W) = Len(s) /\ TrimEnd(s, W) = 0 /\ Trim(s, W) = <<>>
    BY <1>1, BlankProperties
  <2> QED
    BY <2>1
<1>3. map_url(s, response) = s
  BY DEF map_url
<1>4. SubSeq(s, 1, 0) = <<>> /\ SubSeq(s, 0 + 1, Len(s)) = <<>>
  BY <1>1
<1>5. s \o s \o s = s
  BY <1>2, NoConcat
<1>6. ~(TrimEnd(s, W) < Leading(s, W)) /\ ~(\E i \in DOMAIN s : s[i] \in NotUtf8)
  BY <1>1, <1>2
<1>7. name \in Relevant(response) =>
        value(name, s, response) = <<SubSeq(s, 1, Leading(s, W)) \o map_url(Trim(s, W), response)
                                     \o SubSeq(s, TrimEnd(s, W) + 1, Len(s))>>
  <2> HIDE DEF s
  <2> QED
    BY <1>6 DEF value
<1>8. SubSeq(s, 1, Leading(s, W)) = s /\ SubSeq(s, TrimEnd(s, W) + 1, Len(s)) = s
  BY <1>1, <1>2, <1>4
<1>9. value(name, s, response) = <<s>>
  <2>1. CASE name \in Relevant(response)
    <3> HIDE DEF s
    <3>1. Trim(s, W) = s
      BY <1>2 DEF s
    <3>2. value(name, s, response) = <<s \o s \o s>>
      BY <1>3, <1>7, <1>8, <2>1, <3>1
    <3> QED
      BY <1>5, <3>2
  <2>2. CASE name \notin Relevant(response)
    BY <2>2 DEF value
  <2> QED
    BY <2>1, <2>2
<1> QED
  BY <1>9

\* A value with the URL of scheme x, authority k and page r.
Leads(g, l, c, t, x, k, r) == Laid(g, l, c, t, Blanks) /\ Url(c, x, k, r)

\* A URL between blanks: what a browser reads of it.
LEMMA LeadsProperties ==
  ASSUME NEW g, NEW l, NEW c, NEW t, NEW x, NEW k, NEW r, Leads(g, l, c, t, x, k, r)
  PROVE  /\ g \in String /\ r \in String /\ (r # <<>> => r[1] \in Delimiters)
         /\ Trim(g, Blanks) = c /\ c[2] = k /\ Page(Trim(g, Blanks)) = Reads[k].page \o r
         /\ Len(r) \in Nat /\ 2 + Len(r) <= Len(g)
         /\ \A n : PointsAt(g, n) <=> x \in Secure /\ k \in DOMAIN Reads /\ Reads[k].site = Spelled[n]
         /\ Usual(g) <=> x \in Schemes /\ k \in DOMAIN Spelled
<1>1. Laid(g, l, c, t, Blanks) /\ Url(c, x, k, r)
  BY DEF Leads
<1>2. Trim(g, Blanks) = c /\ g \in String /\ Len(c) <= Len(g)
  BY <1>1, LaidProperties
<1>3. /\ c \in String /\ c # <<>> /\ EndOfAuthority(c) = 2 /\ SubSeq(c, 3, Len(c)) = r
      /\ c[1] = x /\ c[2] = k /\ Len(c) = 2 + Len(r) /\ Len(r) \in Nat
  BY <1>1, UrlProperties
<1>4. r \in String /\ (r # <<>> => r[1] \in Delimiters)
  BY <1>1 DEF Url
<1>5. Page(Trim(g, Blanks)) = Reads[k].page \o r
  BY <1>2, <1>3 DEF Page
<1>6. ASSUME NEW n
      PROVE  PointsAt(g, n) <=> x \in Secure /\ k \in DOMAIN Reads /\ Reads[k].site = Spelled[n]
  BY <1>2, <1>3 DEF PointsAt, IsUrl
<1>7. Usual(g) <=> x \in Schemes /\ k \in DOMAIN Spelled
  BY <1>2, <1>3 DEF Usual
<1>8. 2 + Len(r) <= Len(g)
  BY <1>2, <1>3
<1> QED
  BY <1>2, <1>3, <1>4, <1>5, <1>6, <1>7, <1>8

PageIn(g, k, r) == /\ Trim(g, Blanks)[2] = k /\ Page(Trim(g, Blanks)) = Reads[k].page \o r
                   /\ r \in String
                   /\ \A n : PointsAt(g, n) <=> k \in DOMAIN Reads /\ Reads[k].site = Spelled[n]

\* For a browser too, whatever it knows of schemes and authorities: the page of a
\* URL is that of its authority and what follows.
LEMMA PageIsIn ==
  ASSUME NEW g, NEW l, NEW c, NEW t, NEW x \in Secure, NEW k, NEW r, Leads(g, l, c, t, x, k, r)
  PROVE  PageIn(g, k, r)
<1>1. /\ r \in String /\ Trim(g, Blanks) = c /\ c[2] = k /\ Page(Trim(g, Blanks)) = Reads[k].page \o r
      /\ \A n : PointsAt(g, n) <=> x \in Secure /\ k \in DOMAIN Reads /\ Reads[k].site = Spelled[n]
  BY LeadsProperties
<1> QED
  BY <1>1 DEF PageIn

\* The tokens of a page are tokens of the value.
LEMMA PageTokens ==
  ASSUME NEW g, NEW l, NEW c, NEW t, NEW x, NEW k, NEW r, Leads(g, l, c, t, x, k, r),
         NEW i \in 1..Len(r)
  PROVE  \E j \in DOMAIN g : r[i] = g[j]
<1>1. Laid(g, l, c, t, Blanks) /\ Url(c, x, k, r)
  BY DEF Leads
<1>2. IsThree(g, l, c, t) /\ l \in String /\ t \in String
  BY <1>1, LaidProperties DEF Laid, AreBlanks
<1>3. Len(c) = 2 + Len(r) /\ Len(r) \in Nat /\ c[2 + i] = r[i]
  BY <1>1, UrlProperties
<1>4. Len(l) \in Nat /\ Len(t) \in Nat /\ Len(g) \in Nat /\ DOMAIN g = 1..Len(g)
  BY <1>2, LenProperties DEF String, IsThree
<1>5. 2 + i \in 1..Len(c) /\ Len(g) = Len(l) + Len(c) + Len(t) /\ i \in Nat
  <2>1. Len(g) = Len(l) + Len(c) + Len(t)
    BY <1>2 DEF IsThree
  <2> QED
    BY <1>3, <2>1
<1>6. g[Len(l) + (2 + i)] = c[2 + i]
  BY <1>2, <1>5 DEF IsThree
<1>7. Len(l) + (2 + i) \in 1..Len(g)
  BY <1>3, <1>4, <1>5
<1> QED
  BY <1>3, <1>4, <1>6, <1>7

\* The same value with another authority.
LEMMA LeadsElsewhere ==
  ASSUME NEW g, NEW l, NEW c, NEW t, NEW x, NEW k, NEW r, Leads(g, l, c, t, x, k, r),
         NEW n \in DOMAIN Spelled, n \in Utf8
  PROVE  LET d == <<x, n>> \o r
             m == l \o d \o t
         IN  Leads(m, l, d, t, x, n, r) /\ m \in String /\ Len(m) = Len(g)
<1>1. Laid(g, l, c, t, Blanks) /\ Url(c, x, k, r)
  BY DEF Leads
<1> DEFINE d == <<x, n>> \o r
<1>2. Url(d, x, n, r) /\ Len(d) = Len(c) /\ (IsCore(c, Blanks) => IsCore(d, Blanks))
  BY <1>1, UrlReplaced
<1> HIDE DEF d
<1> DEFINE m == l \o d \o t
<1>3. Laid(m, l, d, t, Blanks)
  BY <1>1, <1>2 DEF Laid
<1> HIDE DEF m
<1>4. m \in String /\ IsThree(m, l, d, t) /\ IsThree(g, l, c, t)
  BY <1>1, <1>3, LaidProperties
<1>5. Len(m) = Len(g)
  BY <1>2, <1>4 DEF IsThree
<1>6. Leads(m, l, d, t, x, n, r)
  BY <1>2, <1>3 DEF Leads
<1> QED
  BY <1>4, <1>5, <1>6 DEF d, m

\* A value that a browser, or map_url(), takes for a URL.
LEMMA PointsLeads ==
  ASSUME NEW s \in String, IsUrl(Trim(s, Blanks))
  PROVE  \E l, c, t, r : Leads(s, l, c, t, c[1], c[2], r)
<1>1. ~AreBlanks(s, Blanks)
  <2>1. Trim(s, Blanks) # <<>>
    BY DEF IsUrl
  <2> QED
    BY <2>1, BlankProperties
<1>2. PICK l, c, t : Laid(s, l, c, t, Blanks)
  BY <1>1, Layouts
<1>3. Trim(s, Blanks) = c /\ c \in String
  BY <1>2, LaidProperties DEF Laid, IsCore
<1>4. PICK r : Url(c, c[1], c[2], r)
  <2>1. c # <<>> /\ EndOfAuthority(c) = 2
    BY <1>3 DEF IsUrl
  <2> QED
    BY <1>3, <2>1, Urls
<1>5. Leads(s, l, c, t, c[1], c[2], r)
  BY <1>2, <1>4 DEF Leads
<1> QED
  BY <1>5

\* value() of a Location of the origin, or of a Referer of the client.
Reflects(s, m, response) ==
  \E l, c, t, x, k, r :
    /\ Leads(s, l, c, t, x, k, r) /\ Known(x, k, response)
    /\ Leads(m, l, <<x, To(response)>> \o r, t, x, To(response), r)
    /\ m \in String /\ Len(m) = Len(s)
Strange(s, response) == ~ \E l, c, t, x, k, r : Leads(s, l, c, t, x, k, r) /\ Known(x, k, response)
UrlValue(s, v, response) ==
  \/ v = <<>> /\ AreBlanks(s, Blanks) /\ s # <<>>
  \/ v = <<s>> /\ Strange(s, response)
  \/ \E m : v = <<m>> /\ Reflects(s, m, response)

\* What value() makes of Location and Referer: a URL that map_url() knows gets the
\* other name, with its scheme and what follows; any other text is kept; only blanks
\* are an error.
LEMMA UrlValues ==
  ASSUME NEW response, NEW name \in Relevant(response) \ {"host", ":authority", "set-cookie"},
         NEW s \in String
  PROVE  UrlValue(s, value(name, s, response), response)
<1>1. CASE AreBlanks(s, Blanks)
  <2>1. CASE s = <<>>
    <3>1. value(name, <<>>, response) = <<<<>>>>
      BY EmptyValue
    <3>2. Strange(s, response)
      <4>1. ASSUME NEW l, NEW c, NEW t, NEW x, NEW k, NEW r, Leads(s, l, c, t, x, k, r) PROVE FALSE
        <5>1. Len(r) \in Nat /\ 2 + Len(r) <= Len(s) /\ Len(s) = 0
          BY <2>1, <4>1, LeadsProperties
        <5> QED
          BY <5>1
      <4> QED
        BY <4>1 DEF Strange
    <3> QED
      BY <2>1, <3>1, <3>2 DEF UrlValue
  <2>2. CASE s # <<>>
    <3>1. value(name, s, response) = <<>>
      BY <1>1, <2>2, BlankValue
    <3> QED
      BY <1>1, <2>2, <3>1 DEF UrlValue
  <2> QED
    BY <2>1, <2>2
<1>2. CASE \E l, c, t : Laid(s, l, c, t, Blanks)
  <2>1. PICK l, c, t : Laid(s, l, c, t, Blanks)
    BY <1>2
  <2>2. value(name, s, response) = <<l \o map_url(c, response) \o t>>
    <3>1. IsValue(name, s, l, c, t, response)
      BY <2>1, LaidValue, Zenon
    <3> QED
      BY <3>1 DEF IsValue
  <2>3. c \in String /\ s = l \o c \o t /\ Trim(s, Blanks) = c
    BY <2>1, LaidProperties DEF Laid, IsCore
  <2>4. CASE \E x, k, r : Url(c, x, k, r) /\ Known(x, k, response)
    <3>1. PICK x, k, r : Url(c, x, k, r) /\ Known(x, k, response)
      BY <2>4
    <3>2. map_url(c, response) = <<x, To(response)>> \o r
      BY <3>1, MapUrlChanges
    <3>3. Leads(s, l, c, t, x, k, r)
      BY <2>1, <3>1 DEF Leads
    <3> DEFINE n == To(response)
               d == <<x, n>> \o r
               m == l \o d \o t
    <3>4. n \in DOMAIN Spelled /\ n \in Utf8
      BY NamesAreSpelled
    <3> HIDE DEF n
    <3>5. Leads(m, l, d, t, x, n, r) /\ m \in String /\ Len(m) = Len(s)
      BY <3>3, <3>4, LeadsElsewhere
    <3> HIDE DEF m
    <3>6. Leads(m, l, <<x, To(response)>> \o r, t, x, To(response), r)
      BY <3>5 DEF n
    <3>7. Reflects(s, m, response)
      BY <3>1, <3>3, <3>5, <3>6 DEF Reflects
    <3>8. value(name, s, response) = <<m>>
      BY <2>2, <3>2 DEF m, n
    <3> QED
      BY <3>7, <3>8 DEF UrlValue
  <2>5. CASE ~ \E x, k, r : Url(c, x, k, r) /\ Known(x, k, response)
    <3>1. map_url(c, response) = c
      BY <2>3, <2>5, MapUrlKeeps
    <3>2. Strange(s, response)
      <4>1. ASSUME NEW a, NEW b, NEW e, NEW x, NEW k, NEW r, Leads(s, a, b, e, x, k, r),
                   Known(x, k, response)
            PROVE  FALSE
        <5>1. b = c
          <6>1. Trim(s, Blanks) = b
            BY <4>1, LeadsProperties
          <6> QED
            BY <2>3, <6>1
        <5> QED
          BY <2>5, <4>1, <5>1 DEF Leads
      <4> QED
        BY <4>1 DEF Strange
    <3> QED
      BY <2>2, <2>3, <3>1, <3>2 DEF UrlValue
  <2> QED
    BY <2>4, <2>5
<1> QED
  BY <1>1, <1>2, Layouts

\* It can be sent.
LEMMA UrlValueIsText ==
  ASSUME NEW response, NEW s \in String, NEW v, UrlValue(s, v, response)
  PROVE  Texted(v)
<1>1. CASE \E m : v = <<m>> /\ Reflects(s, m, response)
  <2>1. PICK m : v = <<m>> /\ Reflects(s, m, response)
    BY <1>1
  <2>2. m \in String
    BY <2>1 DEF Reflects
  <2> QED
    BY <2>1, <2>2, StringIsText DEF Texted
<1>2. CASE v = <<s>>
  BY <1>2, StringIsText DEF Texted
<1>3. CASE v = <<>>
  BY <1>3 DEF Texted
<1> QED
  BY <1>1, <1>2, <1>3 DEF UrlValue

\* A core has no blanks around it.
LEMMA CoreIsLaid ==
  ASSUME NEW W, NEW c, IsCore(c, W)
  PROVE  Laid(c, <<>>, c, <<>>, W)
<1>1. AreBlanks(<<>>, W)
  BY DEF AreBlanks, String
<1>2. c \in String
  BY DEF IsCore
<1>3. c = <<>> \o c \o <<>>
  BY <1>2, NoConcat
<1> QED
  BY <1>1, <1>3 DEF Laid

\* The page of a URL, as a client may ask for it: it begins with a delimiter, has
\* room in a request, and no control if it came as HPACK.
IsPage(q) == /\ q \in String /\ (q # <<>> => q[1] \in Delimiters)
             /\ Len(q) \in Nat /\ 2 + Len(q) <= MaxLength
             /\ form # "h1" => \A i \in 1..Len(q) : q[i] \notin Control

\* So the page of a Location that is passed on can be asked for.
LEMMA PageProperties ==
  ASSUME NEW s, NEW l, NEW c, NEW t, NEW x, NEW k, NEW r, Leads(s, l, c, t, x, k, r), ~Refused(s),
         NEW j \in DOMAIN Reads, Len(s) + Len(Reads[j].page) <= MaxLength
  PROVE  IsPage(Reads[j].page \o r)
<1> DEFINE p == Reads[j].page
           q == p \o r
<1>1. /\ r \in String /\ (r # <<>> => r[1] \in Delimiters)
      /\ Len(r) \in Nat /\ 2 + Len(r) <= Len(s) /\ s \in String
  BY LeadsProperties
<1>2. p \in Seq(Utf8 \ Control) /\ (p # <<>> => p[1] \in Delimiters)
  BY FieldAssumption
<1>3. Len(s) + Len(p) <= MaxLength
  OBVIOUS
<1> HIDE DEF p
<1>4. /\ p \in String /\ Len(p) \in Nat /\ Len(s) \in Nat
      /\ \A i \in 1..Len(p) : p[i] \notin Control
  <2>1. Len(p) \in Nat /\ Len(s) \in Nat
    BY <1>1, <1>2, LenProperties DEF String
  <2>2. \A i \in 1..Len(p) : p[i] \in Utf8 \ Control
    BY <1>2, ElementOfSeq
  <2>3. p \in String
    BY <1>2 DEF String
  <2> QED
    BY <2>1, <2>2, <2>3
<1>5. /\ q \in String /\ Len(q) = Len(p) + Len(r)
      /\ \A i \in 1..(Len(p) + Len(r)) : q[i] = IF i <= Len(p) THEN p[i] ELSE r[i - Len(p)]
  BY <1>1, <1>4, ConcatProperties DEF String
<1> HIDE DEF q
<1>6. Len(q) \in Nat /\ 2 + Len(q) <= MaxLength
  BY <1>1, <1>3, <1>4, <1>5, FieldAssumption
<1>7. ASSUME q # <<>> PROVE q[1] \in Delimiters
  <2>1. Len(q) # 0
    BY <1>5, <1>7, EmptySeq DEF String
  <2>2. 1 \in 1..(Len(p) + Len(r)) /\ 1 - 0 = 1
    BY <1>5, <1>6, <2>1
  <2>3. CASE Len(p) = 0
    <3>1. Len(r) # 0 /\ ~(1 <= Len(p))
      BY <1>5, <2>1, <2>3
    <3>2. r # <<>>
      BY <1>1, <3>1, EmptySeq DEF String
    <3>3. q[1] = r[1]
      BY <1>5, <2>2, <2>3, <3>1
    <3> QED
      BY <1>1, <3>2, <3>3
  <2>4. CASE Len(p) # 0
    <3>1. p # <<>> /\ 1 <= Len(p)
      BY <1>4, <2>4, EmptySeq DEF String
    <3>2. q[1] = p[1]
      BY <1>5, <2>2, <3>1
    <3> QED
      BY <1>2, <3>1, <3>2
  <2> QED
    BY <2>3, <2>4
<1>8. ASSUME form # "h1", NEW i \in 1..Len(q) PROVE q[i] \notin Control
  <2>1. i \in 1..(Len(p) + Len(r))
    BY <1>5
  <2>2. CASE i <= Len(p)
    <3>1. i \in 1..Len(p) /\ q[i] = p[i]
      BY <1>5, <2>1, <2>2
    <3> QED
      BY <1>4, <3>1
  <2>3. CASE ~(i <= Len(p))
    <3>1. i - Len(p) \in 1..Len(r) /\ q[i] = r[i - Len(p)]
      BY <1>1, <1>4, <1>5, <2>1, <2>3
    <3>2. \E n \in DOMAIN s : r[i - Len(p)] = s[n]
      BY <3>1, PageTokens
    <3>3. \A n \in DOMAIN s : s[n] \notin Control
      BY <1>8 DEF Refused, Controlled
    <3> QED
      BY <3>1, <3>2, <3>3
  <2> QED
    BY <2>2, <2>3
<1>9. IsPage(q)
  BY <1>5, <1>6, <1>7, <1>8 DEF IsPage
<1> QED
  BY <1>9 DEF q, p

\* The page of B that the client goes to is the page that the origin named, but
\* for a backslash before it.
SentTo(s, g) ==
  /\ IsPage(Page(Trim(g, Blanks)))
  /\ PointsAt(s, upstream) \/ PointsAt(s, public)
  /\ Reads[Trim(s, Blanks)[2]].page = <<>> => Page(Trim(g, Blanks)) = Page(Trim(s, Blanks))

\* A Location that leads to B when it is received led to A or B when it was sent,
\* and to the same page but for a backslash.
LEMMA PageIsSent ==
  ASSUME NEW s \in String, ~Refused(s), \A t \in DOMAIN Reads : Len(s) + Len(Reads[t].page) <= MaxLength,
         NEW g, UrlValue(s, <<g>>, TRUE), PointsAt(g, public)
  PROVE  SentTo(s, g)
<1>1. IsUrl(Trim(g, Blanks))
  BY DEF PointsAt
<1>2. CASE g = s
  <2>1. PICK l, c, t, r : Leads(s, l, c, t, c[1], c[2], r)
    BY <1>1, <1>2, PointsLeads
  <2>2. c[1] \in Secure
    <3>1. Trim(s, Blanks) = c
      BY <2>1, LaidProperties DEF Leads
    <3> QED
      BY <1>1, <1>2, <3>1 DEF IsUrl
  <2>3. PageIn(s, c[2], r)
    BY <2>1, <2>2, PageIsIn
  <2>4. Page(Trim(g, Blanks)) = Reads[c[2]].page \o r
    BY <1>2, <2>3 DEF PageIn
  <2>5. c[2] \in DOMAIN Reads
    BY <1>2, <2>3 DEF PageIn
  <2>6. IsPage(Reads[c[2]].page \o r)
    BY <2>1, <2>5, PageProperties
  <2> QED
    BY <1>2, <2>4, <2>6 DEF SentTo
<1>3. CASE Reflects(s, g, TRUE)
  <2>1. PICK l, c, t, x, k, r :
          /\ Leads(s, l, c, t, x, k, r) /\ Known(x, k, TRUE)
          /\ Leads(g, l, <<x, To(TRUE)>> \o r, t, x, To(TRUE), r)
    BY <1>3 DEF Reflects
  <2>2. /\ To(TRUE) = public /\ x \in Secure /\ k \in DOMAIN Reads /\ public \in DOMAIN Reads
        /\ Reads[k].site = Spelled[upstream] /\ Reads[public].page = <<>>
    BY <2>1, MappingAssumption, FieldAssumption DEF Known, From, To
  <2>3. PageIn(s, k, r) /\ PageIn(g, public, r)
    BY <2>1, <2>2, PageIsIn
  <2>4. /\ Trim(s, Blanks)[2] = k /\ Page(Trim(s, Blanks)) = Reads[k].page \o r
        /\ PointsAt(s, upstream) /\ r \in String
    BY <2>2, <2>3 DEF PageIn
  <2>5. Page(Trim(g, Blanks)) = Reads[public].page \o r
    BY <2>3 DEF PageIn
  <2>6. IsPage(Reads[public].page \o r)
    BY <2>1, <2>2, PageProperties, ZenonT(40)
  <2> QED
    BY <2>2, <2>4, <2>5, <2>6 DEF SentTo
<1>4. g = s \/ Reflects(s, g, TRUE)
  BY DEF UrlValue
<1> QED
  BY <1>2, <1>3, <1>4

\* A request names a part of the page.
IsNamed(q) == IsPage(q) /\ (q # <<>> => q[Len(q)] \notin Blanks)

\* What the client tells of a page is named like one.
LEMMA ToldIsPage ==
  ASSUME NEW p, IsPage(p), NEW q \in Told(p)
  PROVE  IsNamed(q) /\ q = SubSeq(p, 1, Len(q))
<1>1. PICK k \in 0..Len(p) : (k > 0 => p[k] # Blank) /\ q = SubSeq(p, 1, k)
  BY DEF Told
<1>2. /\ p \in String /\ (p # <<>> => p[1] \in Delimiters) /\ Len(p) \in Nat /\ 2 + Len(p) <= MaxLength
      /\ form # "h1" => \A i \in 1..Len(p) : p[i] \notin Control
  BY DEF IsPage
<1>3. /\ q \in String /\ Len(q) = IF 1 <= k THEN k - 1 + 1 ELSE 0
      /\ \A i \in 1..(k - 1 + 1) : q[i] = p[1 + i - 1]
  <2>1. 1 \in Int /\ k \in Int /\ \A i \in 1..k : i \in 1..Len(p)
    BY <1>2
  <2>2. \A i \in 1..k : p[i] \in Utf8
    BY <1>2, <2>1, ElementOfSeq DEF String
  <2> QED
    BY <1>1, <2>1, <2>2, SubSeqProperties DEF String
<1>4. Len(q) = k
  <2>1. (IF 1 <= k THEN k - 1 + 1 ELSE 0) = k
    OBVIOUS
  <2> QED
    BY <1>3, <2>1
<1>5. \A i \in 1..k : q[i] = p[i] /\ i \in 1..Len(p)
  <2> TAKE i \in 1..k
  <2>1. i \in 1..(k - 1 + 1) /\ 1 + i - 1 = i /\ i \in 1..Len(p)
    BY <1>2
  <2> QED
    BY <1>3, <2>1
<1>6. ASSUME q # <<>> PROVE q[1] \in Delimiters /\ q[Len(q)] \notin Blanks
  <2>1. k # 0
    BY <1>3, <1>4, <1>6, EmptySeq DEF String
  <2>2. 1 \in 1..k /\ k \in 1..k /\ k > 0 /\ Len(p) # 0
    BY <1>2, <2>1
  <2>3. p # <<>>
    BY <1>2, <2>2, EmptySeq DEF String
  <2> QED
    BY <1>1, <1>2, <1>4, <1>5, <2>2, <2>3 DEF Blanks
<1>7. Len(q) \in Nat /\ 2 + Len(q) <= MaxLength
  BY <1>2, <1>4, FieldAssumption
<1>8. form # "h1" => \A i \in 1..Len(q) : q[i] \notin Control
  BY <1>2, <1>4, <1>5
<1> QED
  BY <1>1, <1>3, <1>4, <1>6, <1>7, <1>8 DEF IsNamed, IsPage

\* A value without a control is not refused.
LEMMA NotControlled ==
  ASSUME NEW s \in String, \A i \in 1..Len(s) : s[i] \notin Control
  PROVE  ~Refused(s)
<1>1. DOMAIN s = 1..Len(s)
  BY LenProperties DEF String
<1> QED
  BY <1>1 DEF Refused, Controlled

\* B in any spelling is an authority of clean text.
LEMMA SpellingProperties ==
  ASSUME NEW j \in SpellingsOfB
  PROVE  /\ j \in DOMAIN Spelled /\ j \in Utf8 /\ j \notin Control /\ j \notin Blanks
         /\ Spelled[j] = Spelled[public] /\ "https://" \in Utf8 /\ "https://" \notin Control
         /\ "https://" \notin Blanks
BY FieldAssumption, TokensDiffer DEF SpellingsOfB, Schemes

\* The client's request is let through, and the origin reads its own name.
LEMMA HostArrives ==
  ASSUME NEW j \in SpellingsOfB, 1 <= MaxLength,
         NEW name \in {"host", ":authority"}, form \in Forms
  PROVE  Carried(name, <<j>>, FALSE) = <<<<upstream>>>>
<1> DEFINE s == <<j>>
           u == <<upstream>>
           W == Blanks
<1>1. j \notin Blanks /\ j \notin Control /\ authority(s) = authority(<<public>>)
  <2>1. j \in DOMAIN Spelled /\ public \in DOMAIN Spelled /\ Spelled[j] = Spelled[public]
    BY MappingAssumption, SpellingProperties
  <2> QED
    BY <2>1, SpellingProperties, TokensDiffer
<1>2. s \in String /\ Len(s) = 1 /\ s[1] = j /\ u \in String
  <2>1. j \in Utf8 /\ upstream \in Utf8
    BY FieldAssumption, SpellingProperties
  <2> QED
    BY <2>1 DEF String
<1> HIDE DEF s, u
<1>3. IsCore(s, W)
  BY <1>1, <1>2 DEF IsCore
<1>4. /\ Trim(s, W) = s /\ SubSeq(s, 1, Leading(s, W)) = <<>> /\ SubSeq(s, TrimEnd(s, W) + 1, Len(s)) = <<>>
      /\ ~(TrimEnd(s, W) < Leading(s, W))
  <2> HIDE DEF W
  <2> QED
    BY <1>3, CoreIsLaid, LaidProperties
<1>5. is_public(Trim(s, W)) /\ name \in Relevant(FALSE) /\ ~(\E i \in DOMAIN s : s[i] \in NotUtf8)
  BY <1>1, <1>2, <1>4, StringIsText DEF is_public, Relevant
<1>6. value(name, s, FALSE)
        = <<SubSeq(s, 1, Leading(s, W)) \o <<upstream>> \o SubSeq(s, TrimEnd(s, W) + 1, Len(s))>>
  BY <1>4, <1>5 DEF value
<1>7. value(name, s, FALSE) = <<<<>> \o u \o <<>>>>
  BY <1>4, <1>6 DEF u
<1>8. value(name, s, FALSE) = <<u>>
  BY <1>2, <1>7, NoConcat
<1>9. Texted(value(name, s, FALSE))
  BY <1>2, <1>8, StringIsText DEF Texted
<1>10. Carried(name, s, FALSE) = <<u>>
  <2>1. Len(s) <= MaxLength /\ s \in Seq(Characters)
    BY <1>2, StringIsText
  <2>2. ~Refused(s)
    <3>1. \A i \in 1..Len(s) : i = 1
      BY <1>2
    <3> QED
      BY <1>1, <1>2, <3>1, NotControlled
  <2>3. Carried(name, s, FALSE) = IF Refused(s) THEN <<>> ELSE value(name, s, FALSE)
    <3> DEFINE response == FALSE
    <3> HIDE DEF response
    <3>1. Carried(name, s, response) = IF Refused(s) THEN <<>> ELSE value(name, s, response)
      BY <1>9, <2>1, CarriedIsValue DEF response
    <3> QED
      BY <3>1 DEF response
  <2> QED
    BY <1>8, <2>2, <2>3
<1> QED
  BY <1>10 DEF s, u

\* And the page that the client names is the origin's.
Referer(j, q) == <<"https://", j>> \o q

\* A Referer is a URL of that authority and page, which HTTP/2 takes.
LEMMA RefererIs ==
  ASSUME NEW j \in SpellingsOfB, NEW q, IsNamed(q)
  PROVE  /\ Leads(Referer(j, q), <<>>, Referer(j, q), <<>>, "https://", j, q)
         /\ Len(Referer(j, q)) <= MaxLength /\ ~Refused(Referer(j, q))
<1> DEFINE h == "https://"
           d == <<h, j>> \o q
<1>1. /\ j \in DOMAIN Spelled /\ j \in Utf8 /\ j \notin Control /\ j \notin Blanks
      /\ h \in Utf8 /\ h \notin Control /\ h \notin Blanks
  BY SpellingProperties
<1>2. /\ q \in String /\ (q # <<>> => q[1] \in Delimiters) /\ (q # <<>> => q[Len(q)] \notin Blanks)
      /\ Len(q) \in Nat /\ 2 + Len(q) <= MaxLength
      /\ form # "h1" => \A i \in 1..Len(q) : q[i] \notin Control
  BY DEF IsNamed, IsPage
<1>3. j \notin Delimiters
  BY <1>1, TokensDiffer
<1>4. Referer(j, q) = d
  BY DEF Referer
<1> HIDE DEF h
<1>5. <<h, j>> \in String
  BY <1>1 DEF String
<1>6. Url(d, h, j, q)
  BY <1>2, <1>5, <1>3 DEF Url
<1> HIDE DEF d
<1>7. /\ d \in String /\ d[1] = h /\ d[2] = j /\ Len(d) = 2 + Len(q)
      /\ \A i \in 1..Len(q) : d[2 + i] = q[i]
  BY <1>6, UrlProperties
<1>8. IsCore(d, Blanks)
  <2>1. d[Len(d)] \notin Blanks
    <3>1. CASE Len(q) = 0
      <4>1. Len(d) = 2
        BY <1>7, <3>1
      <4> QED
        BY <1>1, <1>7, <4>1
    <3>2. CASE Len(q) # 0
      <4>1. Len(q) \in 1..Len(q) /\ q # <<>>
        BY <1>2, <3>2, EmptySeq DEF String
      <4> QED
        BY <1>2, <1>7, <4>1
    <3> QED
      BY <3>1, <3>2
  <2>2. Len(d) > 0
    BY <1>2, <1>7
  <2> QED
    BY <1>1, <1>7, <2>1, <2>2 DEF IsCore
<1>9. Leads(d, <<>>, d, <<>>, h, j, q)
  BY <1>6, <1>8, CoreIsLaid DEF Leads
<1>10. ~Refused(d)
  <2>1. CASE form = "h1"
    BY <2>1 DEF Refused
  <2>2. CASE form # "h1"
    <3>1. ASSUME NEW i \in 1..Len(d) PROVE d[i] \notin Control
      <4>1. i = 1 \/ i = 2 \/ (i - 2 \in 1..Len(q) /\ 2 + (i - 2) = i)
        BY <1>2, <1>7
      <4>2. i - 2 \in 1..Len(q) /\ 2 + (i - 2) = i => d[i] = q[i - 2]
        BY <1>7
      <4>3. CASE i = 1
        BY <1>1, <1>7, <4>3
      <4>4. CASE i = 2
        BY <1>1, <1>7, <4>4
      <4>5. CASE i - 2 \in 1..Len(q) /\ 2 + (i - 2) = i
        BY <1>2, <2>2, <4>2, <4>5
      <4> QED
        BY <4>1, <4>3, <4>4, <4>5
    <3> QED
      BY <1>7, <3>1, NotControlled
  <2> QED
    BY <2>1, <2>2
<1> QED
  BY <1>2, <1>7, <1>9, <1>4, <1>10 DEF h

\* The Referer of a page of B is read by A as that page of its own, whichever of
\* B's spellings the client has.
LEMMA RefererArrives ==
  ASSUME NEW j \in SpellingsOfB, NEW q, IsNamed(q), form \in Forms
  PROVE  Carried("referer", Referer(j, q), FALSE) = <<Referer(upstream, q)>>
<1> DEFINE h == "https://"
           d == Referer(j, q)
           z == <<>>
           n == "referer"
           o == FALSE
<1>1. Leads(d, z, d, z, h, j, q) /\ Len(d) <= MaxLength /\ ~Refused(d)
  BY RefererIs
<1>2. /\ n \in Relevant(o) /\ n \notin {"host", ":authority"} /\ n # "set-cookie" /\ To(o) = upstream
      /\ Known(h, j, o) /\ <<h, upstream>> \o q = Referer(upstream, q)
  BY SpellingProperties DEF Relevant, To, From, Known, Referer, Schemes
<1>3. \A y \in String : z \o y = y /\ y \o z = y
  BY NoConcat
<1>4. upstream \in DOMAIN Spelled /\ upstream \in Utf8
  BY MappingAssumption, FieldAssumption
<1> HIDE DEF h, d, z, n, o
<1>5. Laid(d, z, d, z, Blanks) /\ Url(d, h, j, q) /\ d \in String
  BY <1>1 DEF Leads, Laid, IsCore
<1> DEFINE e == <<h, upstream>> \o q
<1>6. map_url(d, o) = e
  BY <1>2, <1>5, MapUrlChanges
<1>7. e \in String
  <2>1. Url(e, h, upstream, q)
    BY <1>4, <1>5, UrlReplaced
  <2> QED
    BY <2>1, UrlProperties
<1> HIDE DEF e
<1>8. value(n, d, o) = <<e>>
  <2>1. IsValue(n, d, z, d, z, o)
    BY <1>2, <1>5, LaidValue, Zenon
  <2>2. value(n, d, o) = <<z \o e \o z>>
    BY <1>2, <1>6, <2>1 DEF IsValue
  <2> QED
    BY <1>3, <1>7, <2>2
<1>9. Texted(value(n, d, o))
  BY <1>7, <1>8, StringIsText DEF Texted
<1>10. Carried(n, d, o) = IF Refused(d) THEN <<>> ELSE value(n, d, o)
  <2>1. d \in Seq(Characters)
    BY <1>5, StringIsText
  <2> QED
    BY <1>1, <1>9, <2>1, CarriedIsValue
<1>11. Carried(n, d, o) = <<e>>
  BY <1>1, <1>8, <1>10
<1> QED
  BY <1>2, <1>11 DEF e, d, n, o

-----------------------------------------------------------------------------
(***************************************************************************)
(* Parts of a cookie.                                                      *)
(***************************************************************************)
Clean(p) == p \in String /\ \A i \in 1..Len(p) : p[i] # ";"
Parts(P) == P \in Seq(String) /\ Len(P) \in Nat \ {0} /\ \A i \in 1..Len(P) : Clean(P[i])
Before(i) == IF i = 1 THEN <<>> ELSE <<";">>

\* A character is a string.
LEMMA OneCharacter ==
  ASSUME NEW ch \in Utf8
  PROVE  <<ch>> \in String /\ Len(<<ch>>) = 1 /\ <<ch>>[1] = ch
BY DEF String

\* What a cookie is mapped with can be sent.
LEMMA TokensAreUtf8 ==
  /\ Blank \in Utf8 /\ ";" \in Utf8 /\ "=" \in Utf8 /\ "." \in Utf8
  /\ public_host \in Utf8
<1>1. Punctuation \subseteq Utf8 /\ public_host \in Utf8
  BY FieldAssumption
<1> QED
  BY <1>1 DEF Punctuation

\* So can the separator of its parts.
LEMMA BeforeProperties ==
  ASSUME NEW i
  PROVE  Before(i) \in String
<1>1. <<";">> \in String
  BY TokensAreUtf8, OneCharacter
<1>2. <<>> \in String
  BY EmptySeq DEF String
<1> QED
  BY <1>1, <1>2 DEF Before

\* What the first parts of P make.
Joins(P, t) == /\ t \in [0..Len(P) -> String] /\ t[0] = <<>>
               /\ \A i \in 1..Len(P) : t[i] = t[i - 1] \o Before(i) \o P[i]

\* Joining is the last value of its loop.
LEMMA JoinIsDefined ==
  ASSUME NEW P \in Seq(String)
  PROVE  \E t : Joins(P, t) /\ Join(P) = t[Len(P)]
<1> DEFINE N == Len(P)
           T == String
           step == [i \in 1..N |-> [x \in T |-> x \o Before(i) \o P[i]]]
           join == CHOOSE f : f = [i \in 0..N |-> IF i = 0 THEN <<>> ELSE f[i - 1] \o Before(i) \o P[i]]
<1>1. Join(P) = join[N]
  BY DEF Join, Before
<1>2. N \in Nat /\ <<>> \in T
  BY LenProperties DEF String
<1>3. \A i \in 1..N : P[i] \in T
  BY ElementOfSeq
<1>4. \A i \in 1..N : \A x \in T : x \o Before(i) \o P[i] \in T
  <2> TAKE i \in 1..N
  <2> TAKE x \in T
  <2>1. x \in Seq(Utf8) /\ Before(i) \in Seq(Utf8) /\ P[i] \in Seq(Utf8)
    BY <1>3, BeforeProperties DEF String
  <2>2. x \o Before(i) \in Seq(Utf8)
    BY <2>1, ConcatProperties
  <2>3. (x \o Before(i)) \o P[i] \in Seq(Utf8)
    BY <2>1, <2>2, ConcatProperties
  <2> QED
    BY <2>3 DEF String
<1> HIDE DEF T
<1>5. step \in [1..N -> [T -> T]]
  BY <1>4
<1>6. \A i \in 1..N : \A x \in T : step[i][x] = x \o Before(i) \o P[i]
  OBVIOUS
<1> HIDE DEF step, N
<1>7. PICK g \in [0..N -> T] : Recurs(g, N, <<>>, step)
  BY <1>2, <1>5, RecursionUpTo
<1>8. g[0] = <<>> /\ \A i \in 1..N : g[i - 1] \in T /\ g[i] = g[i - 1] \o Before(i) \o P[i]
  <2>1. \A i \in 1..N : i - 1 \in 0..N
    BY <1>2
  <2> QED
    BY <1>6, <1>7, <2>1 DEF Recurs
<1>9. g = [i \in 0..N |-> IF i = 0 THEN <<>> ELSE g[i - 1] \o Before(i) \o P[i]]
  <2>1. \A i \in 0..N : i = 0 \/ i \in 1..N
    BY <1>2
  <2> QED
    BY <1>7, <1>8, <2>1
<1>10. join = [i \in 0..N |-> IF i = 0 THEN <<>> ELSE join[i - 1] \o Before(i) \o P[i]]
  BY <1>9, Zenon
<1> HIDE DEF join
<1>11. join[0] = <<>> /\ \A i \in 1..N : join[i] = join[i - 1] \o Before(i) \o P[i]
  <2>1. 0 \in 0..N /\ \A i \in 1..N : i \in 0..N /\ i # 0
    BY <1>2
  <2> QED
    BY <1>10, <2>1
<1>12. \A i \in 0..N : join[i] \in T
  <2>1. join[0] \in T
    BY <1>2, <1>11
  <2>2. \A i \in 1..N : join[i - 1] \in T => join[i] \in T
    BY <1>4, <1>11, Zenon
  <2> QED
    BY <1>2, <2>1, <2>2, RecursionStays, Zenon
<1>13. join \in [0..N -> T]
  BY <1>10, <1>12
<1> QED
  BY <1>1, <1>11, <1>13 DEF N, T, Joins

\* That loop has one value.
LEMMA JoinIs ==
  ASSUME NEW P \in Seq(String), NEW u, Joins(P, u)
  PROVE  Join(P) = u[Len(P)] /\ Join(P) \in String
<1> DEFINE N == Len(P)
<1>1. N \in Nat
  BY LenProperties
<1>2. PICK t : Joins(P, t) /\ Join(P) = t[N]
  BY JoinIsDefined
<1>3. /\ t[0] = <<>> /\ \A i \in 1..N : t[i] = t[i - 1] \o Before(i) \o P[i]
      /\ u[0] = <<>> /\ \A i \in 1..N : u[i] = u[i - 1] \o Before(i) \o P[i]
      /\ u \in [0..N -> String]
  BY <1>2 DEF Joins
<1> DEFINE S == {i \in 0..N : t[i] = u[i]}
<1> HIDE DEF N
<1>4. 0 \in S
  BY <1>1, <1>3
<1>5. ASSUME NEW i \in 0..(N - 1), i \in S PROVE i + 1 \in S
  <2>1. i + 1 \in 1..N /\ (i + 1) - 1 = i /\ i + 1 \in 0..N
    BY <1>1
  <2>2. /\ t[i + 1] = t[(i + 1) - 1] \o Before(i + 1) \o P[i + 1]
        /\ u[i + 1] = u[(i + 1) - 1] \o Before(i + 1) \o P[i + 1]
    BY <1>3, <2>1
  <2> QED
    BY <1>5, <2>1, <2>2
<1> HIDE DEF S
<1>6. 0..N \subseteq S
  BY <1>1, <1>4, <1>5, InductionUpTo
<1>7. t[N] = u[N] /\ u[N] \in String
  BY <1>1, <1>3, <1>6 DEF S
<1> QED
  BY <1>2, <1>7 DEF N

\* Two strings behind one another are a string.
LEMMA Concats ==
  ASSUME NEW x \in String, NEW y \in String
  PROVE  x \o y \in String
BY ConcatProperties DEF String

\* Grouping three strings, as a named fact.
LEMMA Associates ==
  ASSUME NEW x \in String, NEW y \in String, NEW z \in String
  PROVE  Associated(x, y, z)
BY SequencesAssociate, Zenon DEF String

\* Three are the same, however they are grouped.
LEMMA ConcatsAssociate ==
  ASSUME NEW x \in String, NEW y \in String, NEW z \in String
  PROVE  (x \o y) \o z = x \o (y \o z)
<1>1. Associated(x, y, z)
  BY Associates, Zenon
<1> QED
  BY <1>1, Zenon DEF Associated

\* The join of one part.
LEMMA JoinOfOne ==
  ASSUME NEW p \in String
  PROVE  <<p>> \in Seq(String) /\ Len(<<p>>) = 1 /\ <<p>>[1] = p /\ Join(<<p>>) = p
<1> DEFINE P == <<p>>
           t == [i \in 0..1 |-> IF i = 0 THEN <<>> ELSE p]
<1>1. P \in Seq(String) /\ Len(P) = 1 /\ P[1] = p /\ <<>> \in String
  BY DEF String
<1>2. t \in [0..1 -> String] /\ t[0] = <<>> /\ t[1] = p
  BY <1>1
<1> HIDE DEF P, t
<1>3. <<>> \o Before(1) \o p = p
  BY NoConcat, <1>1 DEF Before
<1>4. \A i \in 1..1 : t[i] = t[i - 1] \o Before(i) \o P[i]
  <2>1. \A i \in 1..1 : i = 1 /\ i - 1 = 0
    OBVIOUS
  <2> QED
    BY <1>1, <1>2, <1>3, <2>1
<1>5. Joins(P, t)
  BY <1>1, <1>2, <1>4 DEF Joins
<1>6. Join(P) = p
  BY <1>1, <1>2, <1>5, JoinIs
<1> QED
  BY <1>1, <1>6 DEF P

\* One more character: a part begins, or the last one goes on.
Begun(P) == Append(P, <<>>)
Longer(P, ch) == [P EXCEPT ![Len(P)] = Append(@, ch)]
Further(P, ch) == IF ch = ";" THEN Begun(P) ELSE Longer(P, ch)

\* The last of n + 1, or one before it.
LEMMA LastOrBefore ==
  ASSUME NEW n \in Nat, NEW i \in 1..(n + 1)
  PROVE  i \in 1..n \/ i = n + 1
OBVIOUS

\* The last of n, and the one before it.
LEMMA LastIsIn ==
  ASSUME NEW n \in Nat \ {0}
  PROVE  n \in 1..n /\ n - 1 \in Nat /\ (n - 1) + 1 = n
OBVIOUS

\* The empty part has no separator in it.
LEMMA EmptyIsClean == Clean(<<>>)
<1>1. <<>> \in String /\ Len(<<>>) = 0
  BY EmptySeq DEF String
<1> QED
  BY <1>1 DEF Clean

\* A part begun is a separator joined.
LEMMA JoinBegun ==
  ASSUME NEW P, Parts(P)
  PROVE  Parts(Begun(P)) /\ Join(P) \in String /\ Join(Begun(P)) = Append(Join(P), ";")
<1> DEFINE N == Len(P)
           Q == Begun(P)
<1>1. P \in Seq(String) /\ N \in Nat \ {0} /\ (\A i \in 1..N : Clean(P[i])) /\ <<>> \in String
  BY EmptyIsClean DEF Parts, Clean
<1>2. /\ Q \in Seq(String) /\ Len(Q) = N + 1 /\ Q[N + 1] = <<>>
      /\ \A i \in 1..N : Q[i] = P[i]
  BY <1>1, AppendProperties DEF Begun
<1>3. PICK t : Joins(P, t) /\ Join(P) = t[N]
  BY <1>1, JoinIsDefined
<1>4. /\ t \in [0..N -> String] /\ t[0] = <<>>
      /\ \A i \in 1..N : t[i] = t[i - 1] \o Before(i) \o P[i]
  BY <1>3 DEF Joins
<1> DEFINE last == Append(t[N], ";")
           u == [i \in 0..(N + 1) |-> IF i <= N THEN t[i] ELSE last]
<1> HIDE DEF N, Q
<1>5. t[N] \in String /\ ";" \in Utf8
  <2>1. N \in 0..N
    BY <1>1
  <2> QED
    BY <1>4, <2>1, TokensAreUtf8
<1>6. last \in String /\ last = t[N] \o <<";">>
  BY <1>5, AppendProperties, AppendIsConcat DEF String
<1>7. u \in [0..(N + 1) -> String] /\ u[0] = <<>> /\ u[N + 1] = last /\ \A i \in 0..N : u[i] = t[i]
  <2>1. 0 \in 0..(N + 1) /\ 0 <= N /\ N + 1 \in 0..(N + 1) /\ ~(N + 1 <= N)
        /\ (\A i \in 0..N : i \in 0..(N + 1) /\ i <= N) /\ \A i \in 0..(N + 1) : i <= N => i \in 0..N
    BY <1>1
  <2> HIDE DEF last
  <2> QED
    BY <1>4, <1>6, <2>1
<1> HIDE DEF u
<1>8. \A i \in 1..(N + 1) : u[i] = u[i - 1] \o Before(i) \o Q[i]
  <2> TAKE i \in 1..(N + 1)
  <2>1. CASE i = N + 1
    <3>1. i - 1 = N /\ N \in 0..N /\ i # 1
      BY <1>1, <2>1
    <3>2. u[i] = last /\ u[i - 1] = t[N] /\ Before(i) = <<";">> /\ Q[i] = <<>>
      BY <1>2, <1>7, <2>1, <3>1 DEF Before
    <3>3. last \o <<>> = last
      BY <1>6, NoConcat
    <3> HIDE DEF last
    <3> QED
      BY <1>6, <3>2, <3>3
  <2>2. CASE i # N + 1
    <3>1. i \in 1..N /\ i \in 0..N /\ i - 1 \in 0..N
      BY <1>1, <2>2
    <3> QED
      BY <1>2, <1>4, <1>7, <3>1
  <2> QED
    BY <2>1, <2>2
<1>9. Joins(Q, u)
  BY <1>2, <1>7, <1>8 DEF Joins
<1>10. Join(Q) = last
  BY <1>2, <1>7, <1>9, JoinIs
<1>11. Parts(Q)
  <2>1. \A i \in 1..Len(Q) : Clean(Q[i])
    <3> TAKE i \in 1..Len(Q)
    <3>1. i \in 1..N \/ i = N + 1
      BY <1>1, <1>2
    <3> QED
      BY <1>1, <1>2, <3>1, EmptyIsClean
  <2>2. Len(Q) \in Nat \ {0}
    BY <1>1, <1>2
  <2> QED
    BY <1>2, <2>1, <2>2 DEF Parts
<1> QED
  BY <1>3, <1>5, <1>10, <1>11 DEF N, Q

\* Another last part.
LEMMA JoinOther ==
  ASSUME NEW P \in Seq(String), Len(P) \in Nat \ {0}, NEW q \in String
  PROVE  LET Q == [P EXCEPT ![Len(P)] = q]
         IN  /\ Q \in Seq(String) /\ Len(Q) = Len(P) /\ Q[Len(P)] = q
             /\ \A i \in 1..Len(P) : i # Len(P) => Q[i] = P[i]
             /\ \E f \in String : Join(P) = f \o P[Len(P)] /\ Join(Q) = f \o q
<1> DEFINE N == Len(P)
           Q == [P EXCEPT ![N] = q]
<1>1. N \in Nat \ {0} /\ N \in 1..N /\ P[N] \in String
  BY ElementOfSeq
<1>2. /\ Q \in Seq(String) /\ Len(Q) = N
      /\ \A i \in 1..N : Q[i] = IF i = N THEN q ELSE P[i]
  BY <1>1, ExceptSeq
<1>3. PICK t : Joins(P, t) /\ Join(P) = t[N]
  BY JoinIsDefined
<1>4. /\ t \in [0..N -> String] /\ t[0] = <<>>
      /\ \A i \in 1..N : t[i] = t[i - 1] \o Before(i) \o P[i]
  BY <1>3 DEF Joins
<1> HIDE DEF N, Q
<1> DEFINE f == t[N - 1] \o Before(N)
           u == [t EXCEPT ![N] = f \o q]
<1>5. f \in String
  <2>1. t[N - 1] \in String
    BY <1>1, <1>4
  <2> QED
    BY <2>1, BeforeProperties, Concats
<1>6. t[N] = f \o P[N]
  BY <1>1, <1>4
<1> HIDE DEF f
<1>7. f \o q \in String
  BY <1>5, Concats
<1>8. u \in [0..N -> String] /\ u[N] = f \o q /\ \A i \in 0..N : i # N => u[i] = t[i]
  BY <1>1, <1>4, <1>7
<1> HIDE DEF u
<1>9. u[0] = <<>> /\ \A i \in 1..N : u[i] = u[i - 1] \o Before(i) \o Q[i]
  <2>1. u[0] = <<>>
    BY <1>1, <1>4, <1>8
  <2> SUFFICES ASSUME NEW i \in 1..N PROVE u[i] = u[i - 1] \o Before(i) \o Q[i]
    BY <2>1
  <2>2. i \in 0..N /\ i - 1 \in 0..N /\ i - 1 # N
    BY <1>1
  <2>3. u[i - 1] = t[i - 1]
    BY <1>8, <2>2
  <2>4. CASE i = N
    <3>1. Q[i] = q /\ u[i] = f \o q
      BY <1>2, <1>8, <2>4
    <3> QED
      BY <2>3, <2>4, <3>1 DEF f
  <2>5. CASE i # N
    BY <1>2, <1>4, <1>8, <2>2, <2>3, <2>5
  <2> QED
    BY <2>4, <2>5
<1>10. Joins(Q, u)
  BY <1>2, <1>8, <1>9 DEF Joins
<1>11. Join(Q) = f \o q
  BY <1>2, <1>8, <1>10, JoinIs
<1>12. Join(P) = f \o P[N]
  BY <1>3, <1>6
<1>13. Q[N] = q /\ \A i \in 1..N : i # N => Q[i] = P[i]
  BY <1>1, <1>2
<1> QED
  BY <1>2, <1>5, <1>11, <1>12, <1>13 DEF N, Q

\* A character that separates nothing keeps a part whole.
LEMMA CleanAppend ==
  ASSUME NEW p, Clean(p), NEW ch \in Utf8, ch # ";"
  PROVE  Clean(Append(p, ch)) /\ p \in String
<1>1. p \in Seq(Utf8) /\ \A i \in 1..Len(p) : p[i] # ";"
  BY DEF Clean, String
<1>2. /\ Append(p, ch) \in Seq(Utf8) /\ Len(Append(p, ch)) = Len(p) + 1
      /\ \A i \in 1..Len(p) : Append(p, ch)[i] = p[i]
      /\ Append(p, ch)[Len(p) + 1] = ch
  BY <1>1, AppendProperties, ZenonT(40)
<1>3. Len(p) \in Nat
  BY <1>1, LenProperties
<1> DEFINE q == Append(p, ch)
<1> HIDE DEF q
<1>4. \A i \in 1..(Len(p) + 1) : q[i] # ";"
  <2> TAKE i \in 1..(Len(p) + 1)
  <2>1. i \in 1..Len(p) \/ i = Len(p) + 1
    BY <1>3, LastOrBefore
  <2> QED
    BY <1>1, <1>2, <2>1 DEF q
<1> QED
  BY <1>1, <1>2, <1>4 DEF Clean, String, q

\* The last part made longer is the joined string made longer.
LEMMA JoinLonger ==
  ASSUME NEW P, Parts(P), NEW ch \in Utf8, ch # ";"
  PROVE  Parts(Longer(P, ch)) /\ Join(Longer(P, ch)) = Append(Join(P), ch)
<1> DEFINE N == Len(P)
           q == Append(P[N], ch)
           Q == [P EXCEPT ![N] = q]
<1>1. P \in Seq(String) /\ N \in Nat \ {0} /\ N \in 1..N /\ \A i \in 1..N : Clean(P[i])
  <2>1. P \in Seq(String) /\ N \in Nat \ {0} /\ \A i \in 1..N : Clean(P[i])
    BY DEF Parts
  <2>2. N \in 1..N
    BY <2>1, LastIsIn
  <2> QED
    BY <2>1, <2>2
<1>2. Clean(q) /\ P[N] \in String
  BY <1>1, CleanAppend
<1>3. q \in String /\ q = P[N] \o <<ch>>
  BY <1>2, AppendIsConcat DEF Clean, String
<1>4. Longer(P, ch) = Q
  BY DEF Longer
<1> HIDE DEF q
<1>5. /\ Q \in Seq(String) /\ Len(Q) = N /\ Q[N] = q
      /\ \A i \in 1..N : i # N => Q[i] = P[i]
      /\ \E f \in String : Join(P) = f \o P[N] /\ Join(Q) = f \o q
  BY <1>1, <1>3, JoinOther
<1> HIDE DEF Q
<1>6. Parts(Q)
  <2>1. \A i \in 1..N : Clean(Q[i])
    BY <1>1, <1>2, <1>5
  <2> QED
    BY <1>1, <1>5, <2>1 DEF Parts
<1>7. Join(Q) = Append(Join(P), ch)
  <2>1. PICK f \in String : Join(P) = f \o P[N] /\ Join(Q) = f \o q
    BY <1>5
  <2>2. <<ch>> \in String
    BY OneCharacter
  <2>3. Join(Q) = Join(P) \o <<ch>>
    <3>1. (f \o P[N]) \o <<ch>> = f \o (P[N] \o <<ch>>)
      BY <1>2, <2>1, <2>2, ConcatsAssociate
    <3> QED
      BY <1>3, <2>1, <3>1
  <2>4. Join(P) \in String
    BY <1>2, <2>1, Concats
  <2> QED
    BY <2>3, <2>4, AppendIsConcat DEF String
<1> QED
  BY <1>4, <1>6, <1>7

\* So one step of splitting is one character of the joined string.
LEMMA JoinFurther ==
  ASSUME NEW P, Parts(P), NEW ch \in Utf8
  PROVE  Parts(Further(P, ch)) /\ Join(P) \in String /\ Join(Further(P, ch)) = Append(Join(P), ch)
<1>1. Join(P) \in String
  BY JoinBegun
<1>2. CASE ch = ";"
  BY <1>1, <1>2, JoinBegun DEF Further
<1>3. CASE ch # ";"
  BY <1>1, <1>3, JoinLonger DEF Further
<1> QED
  BY <1>2, <1>3

\* Arithmetic of the last part but one.
LEMMA OneLess ==
  ASSUME NEW k \in Nat \ {0}, k # 1
  PROVE  /\ 1 \in Int /\ k - 1 \in Int /\ (k - 1) - 1 + 1 = k - 1 /\ 1 <= k - 1 /\ k - 1 \in Nat \ {0}
OBVIOUS

\* Parts are one empty part, or have grown by a character.
LEMMA PartsGrow ==
  ASSUME NEW Q, Parts(Q)
  PROVE  Q = <<<<>>>> \/ \E P : Parts(P) /\ \E ch \in Utf8 : Q = Further(P, ch)
<1> DEFINE k == Len(Q)
<1>1. Q \in Seq(String) /\ k \in Nat \ {0} /\ \A i \in 1..k : Clean(Q[i])
  BY DEF Parts
<1>2. k \in 1..k /\ k - 1 \in Nat /\ (k - 1) + 1 = k
  BY <1>1, LastIsIn
<1>3. Q[k] \in String /\ Clean(Q[k])
  BY <1>1, <1>2, ElementOfSeq
<1>4. <<>> \in String
  BY EmptySeq DEF String
<1>5. CASE Q[k] = <<>> /\ k = 1
  <2> DEFINE R == <<<<>>>>
  <2>1. R \in Seq(String) /\ Len(R) = 1 /\ R[1] = <<>>
    BY <1>4, JoinOfOne
  <2> HIDE DEF R
  <2>2. \A i \in 1..Len(Q) : Q[i] = R[i]
    <3>1. \A i \in 1..1 : i = 1
      OBVIOUS
    <3> QED
      BY <1>5, <2>1, <3>1
  <2>3. Q = R
    BY <1>1, <1>5, <2>1, <2>2, SeqEqual
  <2> QED
    BY <2>3 DEF R
<1>6. CASE Q[k] = <<>> /\ k # 1
  <2> DEFINE P == SubSeq(Q, 1, k - 1)
             R == Begun(P)
  <2>1. \A i \in 1..(k - 1) : i \in 1..k /\ 1 + i - 1 = i /\ Q[i] \in String
    <3>1. \A i \in 1..(k - 1) : i \in 1..k /\ 1 + i - 1 = i
      BY <1>1
    <3> QED
      BY <1>1, <3>1, ElementOfSeq
  <2>2. 1 \in Int /\ k - 1 \in Int /\ (k - 1) - 1 + 1 = k - 1 /\ 1 <= k - 1 /\ k - 1 \in Nat \ {0}
    BY <1>1, <1>6, OneLess
  <2>3. /\ P \in Seq(String) /\ Len(P) = k - 1
        /\ \A i \in 1..(k - 1) : P[i] = Q[i]
    <3>1. /\ P \in Seq(String) /\ Len(P) = IF 1 <= k - 1 THEN (k - 1) - 1 + 1 ELSE 0
          /\ \A i \in 1..((k - 1) - 1 + 1) : P[i] = Q[1 + i - 1]
      BY <2>1, <2>2, SubSeqProperties
    <3> HIDE DEF P
    <3> QED
      BY <2>1, <2>2, <3>1
  <2> HIDE DEF P
  <2>4. /\ R \in Seq(String) /\ Len(R) = (k - 1) + 1 /\ R[(k - 1) + 1] = <<>>
        /\ \A i \in 1..(k - 1) : R[i] = P[i]
    BY <1>4, <2>3, AppendProperties DEF Begun
  <2> HIDE DEF R
  <2>5. ASSUME NEW i \in 1..Len(Q) PROVE Q[i] = R[i]
    <3>1. i \in 1..(k - 1) \/ i = k
      BY <1>2, LastOrBefore
    <3> QED
      BY <1>2, <1>6, <2>3, <2>4, <3>1
  <2>6. Q = R
    BY <1>1, <1>2, <2>4, <2>5, SeqEqual
  <2>7. Parts(P)
    BY <1>1, <2>1, <2>2, <2>3 DEF Parts
  <2>8. Q = Further(P, ";") /\ ";" \in Utf8
    BY <2>6, TokensAreUtf8 DEF R, Further
  <2> QED
    BY <2>7, <2>8
<1>7. CASE Q[k] # <<>>
  <2>1. PICK p \in Seq(Utf8), ch \in Utf8 : Q[k] = Append(p, ch)
    BY <1>3, <1>7, SequenceEmptyOrAppend DEF String
  <2>2. Clean(p) /\ ch # ";"
    <3> DEFINE n == Len(p)
               q == Append(p, ch)
    <3>1. n \in Nat
      BY LenProperties
    <3>2. Len(q) = n + 1 /\ (\A i \in 1..n : q[i] = p[i]) /\ q[n + 1] = ch
      BY AppendProperties
    <3>3. \A i \in 1..Len(q) : q[i] # ";"
      BY <1>3, <2>1 DEF Clean
    <3> HIDE DEF n, q
    <3>4. n + 1 \in 1..Len(q) /\ \A i \in 1..n : i \in 1..Len(q)
      BY <3>1, <3>2
    <3>5. ch # ";" /\ \A i \in 1..n : p[i] # ";"
      BY <3>2, <3>3, <3>4
    <3> QED
      BY <3>5 DEF Clean, String, n
  <2> DEFINE P == [Q EXCEPT ![k] = p]
             e == Append(p, ch)
             R == [P EXCEPT ![k] = e]
  <2>3. p \in String /\ e \in String
    BY <2>1, <1>3 DEF String
  <2>4. /\ P \in Seq(String) /\ Len(P) = k
        /\ \A i \in 1..k : P[i] = IF i = k THEN p ELSE Q[i]
    BY <1>1, <1>2, <2>3, ExceptSeq
  <2>5. Q[k] = e
    BY <2>1
  <2> HIDE DEF P, e
  <2>6. /\ R \in Seq(String) /\ Len(R) = k
        /\ \A i \in 1..k : R[i] = IF i = k THEN e ELSE P[i]
    <3> HIDE DEF k
    <3>1. P \in Seq(String) /\ Len(P) = k /\ k \in 1..Len(P)
      BY <1>2, <2>4
    <3>2. /\ R \in Seq(String) /\ Len(R) = Len(P)
          /\ \A i \in 1..Len(P) : R[i] = IF i = k THEN e ELSE P[i]
      BY <2>3, <3>1, ExceptSeq
    <3> QED
      BY <3>1, <3>2
  <2>7. Longer(P, ch) = R
    BY <1>2, <2>4 DEF Longer, e
  <2> HIDE DEF R
  <2>8. \A i \in 1..Len(Q) : Q[i] = R[i]
    BY <2>4, <2>6, <2>5
  <2>9. Q = R
    BY <1>1, <2>6, <2>8, SeqEqual
  <2>10. Parts(P)
    BY <1>1, <2>2, <2>4 DEF Parts
  <2>11. Q = Further(P, ch)
    BY <2>2, <2>7, <2>9 DEF Further
  <2> QED
    BY <2>10, <2>11
<1> QED
  BY <1>5, <1>6, <1>7

\* How Split() makes its parts.
Splits(s, f) == /\ f[0] = <<<<>>>> /\ \A i \in 1..Len(s) : f[i] = Further(f[i - 1], s[i])
                /\ \A i \in 0..Len(s) : Parts(f[i])

\* Splitting is the last value of its loop.
LEMMA SplitIsDefined ==
  ASSUME NEW s \in String
  PROVE  \E f : Splits(s, f) /\ Split(s) = f[Len(s)]
<1> DEFINE N == Len(s)
           T == {P \in Seq(String) : Parts(P)}
           one == <<<<>>>>
           step == [i \in 1..N |-> [P \in T |-> Further(P, s[i])]]
           split == CHOOSE f : f = [i \in 0..N |-> IF i = 0 THEN <<<<>>>> ELSE Further(f[i - 1], s[i])]
<1>1. Split(s) = split[N]
  BY DEF Split, Further, Begun, Longer
<1>2. N \in Nat /\ \A i \in 1..N : s[i] \in Utf8
  BY LenProperties, ElementOfSeq DEF String
<1>3. one \in T
  <2>1. one \in Seq(String) /\ Len(one) = 1 /\ one[1] = <<>>
    BY EmptyIsClean, JoinOfOne DEF Clean
  <2> HIDE DEF one
  <2>2. 1 \in Nat \ {0} /\ \A i \in 1..1 : i = 1
    OBVIOUS
  <2>3. Parts(one)
    BY <2>1, <2>2, EmptyIsClean DEF Parts
  <2> QED
    BY <2>1, <2>3
<1>4. \A i \in 1..N : \A P \in T : Further(P, s[i]) \in T
  <2> TAKE i \in 1..N
  <2> TAKE P \in T
  <2>1. Parts(Further(P, s[i]))
    BY <1>2, JoinFurther
  <2> QED
    BY <2>1 DEF Parts
<1> HIDE DEF T, one
<1>5. step \in [1..N -> [T -> T]]
  BY <1>4
<1>6. \A i \in 1..N : \A P \in T : step[i][P] = Further(P, s[i])
  OBVIOUS
<1> HIDE DEF step, N
<1>7. PICK g \in [0..N -> T] : Recurs(g, N, one, step)
  BY <1>2, <1>3, <1>5, RecursionUpTo
<1>8. g[0] = one /\ \A i \in 1..N : g[i - 1] \in T /\ g[i] = Further(g[i - 1], s[i])
  <2>1. \A i \in 1..N : i - 1 \in 0..N
    BY <1>2
  <2> QED
    BY <1>6, <1>7, <2>1 DEF Recurs
<1>9. g = [i \in 0..N |-> IF i = 0 THEN one ELSE Further(g[i - 1], s[i])]
  <2>1. \A i \in 0..N : i = 0 \/ i \in 1..N
    BY <1>2
  <2> QED
    BY <1>7, <1>8, <2>1
<1>10. split = [i \in 0..N |-> IF i = 0 THEN one ELSE Further(split[i - 1], s[i])]
  BY <1>9, Zenon DEF one
<1> HIDE DEF split
<1>11. split[0] = one /\ \A i \in 1..N : split[i] = Further(split[i - 1], s[i])
  <2>1. 0 \in 0..N /\ \A i \in 1..N : i \in 0..N /\ i # 0
    BY <1>2
  <2> QED
    BY <1>10, <2>1
<1>12. \A i \in 0..N : split[i] \in T
  <2>1. split[0] \in T
    BY <1>3, <1>11
  <2>2. \A i \in 1..N : split[i - 1] \in T => split[i] \in T
    BY <1>4, <1>11, Zenon
  <2> QED
    BY <1>2, <2>1, <2>2, RecursionStays, Zenon
<1>13. \A i \in 0..N : Parts(split[i])
  BY <1>12 DEF T
<1> QED
  BY <1>1, <1>11, <1>13 DEF N, one, Splits

\* The beginnings of a string.
Start(s, i) == SubSeq(s, 1, i)

\* The first characters of a string.
LEMMA StartProperties ==
  ASSUME NEW s \in String
  PROVE  /\ Start(s, 0) = <<>> /\ Start(s, Len(s)) = s /\ Len(s) \in Nat
         /\ \A i \in 0..Len(s) : Start(s, i) \in String
         /\ \A i \in 1..Len(s) : s[i] \in Utf8 /\ Start(s, i) = Append(Start(s, i - 1), s[i])
<1>1. Len(s) \in Nat /\ \A i \in 1..Len(s) : s[i] \in Utf8
  BY LenProperties, ElementOfSeq DEF String
<1>2. Start(s, 0) = <<>>
  BY SubSeqEmpty DEF Start
<1>3. Start(s, Len(s)) = s
  BY SubSeqFull DEF Start, String
<1>4. ASSUME NEW i \in 0..Len(s) PROVE Start(s, i) \in String
  <2>1. 1 \in Int /\ i \in Int /\ \A j \in 1..i : j \in 1..Len(s)
    BY <1>1
  <2>2. \A j \in 1..i : s[j] \in Utf8
    BY <1>1, <2>1
  <2> QED
    BY <2>1, <2>2, SubSeqProperties DEF Start, String
<1>5. ASSUME NEW i \in 1..Len(s) PROVE Start(s, i) = Append(Start(s, i - 1), s[i])
  <2>1. 1 \in 1..Len(s) /\ i \in 1..Len(s) /\ i - 1 \in 0..Len(s)
    BY <1>1
  <2>2. Start(s, i) = Start(s, i - 1) \o <<s[i]>>
    BY <2>1, SubSeqRecursiveSecond DEF Start, String
  <2>3. Start(s, i - 1) \in Seq(Utf8) /\ s[i] \in Utf8
    BY <1>1, <1>4, <2>1 DEF String
  <2> DEFINE b == Start(s, i - 1)
             e == s[i]
  <2> HIDE DEF b, e
  <2>4. Append(b, e) = b \o <<e>>
    BY <2>3, AppendIsConcat DEF b, e
  <2> QED
    BY <2>2, <2>4 DEF b, e
<1> QED
  BY <1>1, <1>2, <1>3, <1>4, <1>5

\* The parts of s join to s.
LEMMA JoinOfSplit ==
  ASSUME NEW s \in String
  PROVE  Parts(Split(s)) /\ Join(Split(s)) = s
<1> DEFINE N == Len(s)
<1>1. PICK f : Splits(s, f) /\ Split(s) = f[N]
  BY SplitIsDefined
<1>2. /\ f[0] = <<<<>>>> /\ \A i \in 1..N : f[i] = Further(f[i - 1], s[i])
      /\ \A i \in 0..N : Parts(f[i])
  BY <1>1 DEF Splits
<1>3. /\ Start(s, 0) = <<>> /\ Start(s, N) = s /\ N \in Nat
      /\ \A i \in 1..N : s[i] \in Utf8 /\ Start(s, i) = Append(Start(s, i - 1), s[i])
  BY StartProperties
<1> DEFINE S == {i \in 0..N : Join(f[i]) = Start(s, i)}
<1> HIDE DEF N
<1>4. 0 \in S
  <2>1. <<>> \in String
    BY EmptySeq DEF String
  <2>2. Join(<<<<>>>>) = <<>>
    BY <2>1, JoinOfOne
  <2>3. 0 \in 0..N
    BY <1>3
  <2>4. Join(f[0]) = Start(s, 0)
    BY <1>2, <1>3, <2>2, Zenon
  <2> QED
    BY <2>3, <2>4
<1>5. ASSUME NEW i \in 0..(N - 1), i \in S PROVE i + 1 \in S
  <2>1. i + 1 \in 1..N /\ (i + 1) - 1 = i /\ i + 1 \in 0..N /\ i \in 0..N
    BY <1>3
  <2>2. f[i + 1] = Further(f[i], s[i + 1]) /\ Start(s, i + 1) = Append(Start(s, i), s[i + 1])
    BY <1>2, <1>3, <2>1
  <2>3. Join(f[i + 1]) = Append(Join(f[i]), s[i + 1])
    BY <1>2, <1>3, <2>1, <2>2, JoinFurther
  <2> QED
    BY <1>5, <2>1, <2>2, <2>3
<1> HIDE DEF S
<1>6. 0..N \subseteq S
  BY <1>3, <1>4, <1>5, InductionUpTo
<1>7. N \in 0..N
  BY <1>3
<1>8. Join(f[N]) = Start(s, N)
  BY <1>6, <1>7 DEF S
<1> QED
  BY <1>1, <1>2, <1>3, <1>7, <1>8 DEF N

\* Parts are the parts of their join.
LEMMA SplitOfJoin ==
  ASSUME NEW Q, Parts(Q)
  PROVE  Join(Q) \in String /\ Split(Join(Q)) = Q
<1> DEFINE s == Join(Q)
           N == Len(s)
<1>1. s \in String
  BY JoinBegun
<1> HIDE DEF s
<1>2. PICK f : Splits(s, f) /\ Split(s) = f[N]
  BY <1>1, SplitIsDefined
<1>3. f[0] = <<<<>>>> /\ \A i \in 1..N : f[i] = Further(f[i - 1], s[i])
  BY <1>2 DEF Splits
<1>4. /\ Start(s, 0) = <<>> /\ Start(s, N) = s /\ N \in Nat
      /\ \A i \in 0..N : Start(s, i) \in String
      /\ \A i \in 1..N : s[i] \in Utf8 /\ Start(s, i) = Append(Start(s, i - 1), s[i])
  BY <1>1, StartProperties
<1> DEFINE S == {i \in 0..N : \A P : Parts(P) /\ Join(P) = Start(s, i) => f[i] = P}
<1> HIDE DEF N
<1>5. Join(<<<<>>>>) = <<>>
  <2>1. <<>> \in String
    BY EmptySeq DEF String
  <2> QED
    BY <2>1, JoinOfOne
<1>6. ASSUME NEW P, Parts(P), NEW ch \in Utf8
      PROVE  /\ Join(P) \in Seq(Utf8) /\ Join(Further(P, ch)) = Append(Join(P), ch)
             /\ Join(Further(P, ch)) # <<>>
  <2>1. Join(P) \in Seq(Utf8) /\ Join(Further(P, ch)) = Append(Join(P), ch)
    BY <1>6, JoinFurther DEF String
  <2> QED
    BY <2>1, AppendProperties
<1>7. 0 \in S
  <2>1. ASSUME NEW P, Parts(P), Join(P) = Start(s, 0) PROVE f[0] = P
    BY <1>3, <1>4, <1>6, <2>1, PartsGrow
  <2> QED
    BY <1>4, <2>1
<1>8. ASSUME NEW i \in 0..(N - 1), i \in S PROVE i + 1 \in S
  <2>1. i + 1 \in 1..N /\ (i + 1) - 1 = i /\ i + 1 \in 0..N /\ i \in 0..N
    BY <1>4
  <2>2. /\ f[i + 1] = Further(f[i], s[i + 1]) /\ Start(s, i + 1) = Append(Start(s, i), s[i + 1])
        /\ Start(s, i) \in Seq(Utf8) /\ s[i + 1] \in Utf8
    BY <1>3, <1>4, <2>1 DEF String
  <2>3. ASSUME NEW P, Parts(P), Join(P) = Start(s, i + 1) PROVE f[i + 1] = P
    <3>1. Start(s, i + 1) # <<>>
      BY <2>2, AppendProperties
    <3>2. PICK R : Parts(R) /\ \E ch \in Utf8 : P = Further(R, ch)
      BY <1>5, <2>3, <3>1, PartsGrow
    <3>3. PICK ch \in Utf8 : P = Further(R, ch)
      BY <3>2
    <3>4. Append(Join(R), ch) = Append(Start(s, i), s[i + 1]) /\ Join(R) \in Seq(Utf8)
      BY <1>6, <2>2, <2>3, <3>2, <3>3
    <3> DEFINE e == s[i + 1]
               b == Start(s, i)
               a == Join(R)
    <3> HIDE DEF e, b, a
    <3>5. a = b /\ ch = e
      <4>1. /\ Append(a, ch) = Append(b, e) /\ a \in Seq(Utf8) /\ b \in Seq(Utf8)
            /\ e \in Utf8
        BY <2>2, <3>4 DEF a, b, e
      <4> QED
        BY <4>1, AppendInjective
    <3>6. f[i] = R
      BY <1>8, <3>2, <3>5 DEF a, b
    <3> QED
      BY <2>2, <3>3, <3>5, <3>6 DEF e
  <2> QED
    BY <2>1, <2>3
<1> HIDE DEF S
<1>9. 0..N \subseteq S
  BY <1>4, <1>7, <1>8, InductionUpTo
<1>10. N \in 0..N
  BY <1>4
<1>11. f[N] = Q
  BY <1>4, <1>9, <1>10 DEF S, s
<1> QED
  BY <1>1, <1>2, <1>11 DEF N, s

\* A function on 1..n is a sequence of n.
LEMMA FunctionIsSeq ==
  ASSUME NEW n \in Nat, NEW S, NEW f \in [1..n -> S]
  PROVE  f \in Seq(S) /\ Len(f) = n
<1>1. f \in Seq(S)
  BY SeqDef, Zenon
<1>2. DOMAIN f = 1..n
  OBVIOUS
<1>3. Len(f) \in Nat /\ DOMAIN f = 1..Len(f)
  BY <1>1, LenProperties
<1>4. Len(f) = n
  BY <1>2, <1>3
<1> QED
  BY <1>1, <1>4

\* Two parts without a separator make one without.
LEMMA CleanConcat ==
  ASSUME NEW x, Clean(x), NEW y, Clean(y)
  PROVE  Clean(x \o y)
<1>1. /\ x \in Seq(Utf8) /\ y \in Seq(Utf8)
      /\ (\A i \in 1..Len(x) : x[i] # ";") /\ \A i \in 1..Len(y) : y[i] # ";"
  BY DEF Clean, String
<1> DEFINE s == x \o y
           a == Len(x)
           b == Len(y)
<1>2. a \in Nat /\ b \in Nat
  BY <1>1, LenProperties
<1>3. /\ s \in Seq(Utf8) /\ Len(s) = a + b
      /\ \A i \in 1..(a + b) : s[i] = IF i <= a THEN x[i] ELSE y[i - a]
  BY <1>1, ConcatProperties
<1> HIDE DEF s
<1>4. \A i \in 1..Len(s) : s[i] # ";"
  <2>1. (\A i \in 1..a : x[i] # ";") /\ \A i \in 1..b : y[i] # ";"
    BY <1>1
  <2> HIDE DEF a, b
  <2> TAKE i \in 1..Len(s)
  <2>2. i \in 1..(a + b)
    BY <1>3
  <2>3. (i <= a => i \in 1..a) /\ (~(i <= a) => i - a \in 1..b)
    BY <1>2, <2>2
  <2> QED
    BY <1>3, <2>1, <2>2, <2>3
<1> QED
  BY <1>3, <1>4 DEF Clean, String, s

\* A part of such a string has none either.
LEMMA CleanParts ==
  ASSUME NEW x \in String, NEW y \in String, Clean(x \o y)
  PROVE  Clean(x) /\ Clean(y)
<1> DEFINE s == x \o y
           a == Len(x)
           b == Len(y)
<1>1. a \in Nat /\ b \in Nat
  BY LenProperties DEF String
<1>2. /\ Len(s) = a + b
      /\ \A i \in 1..(a + b) : s[i] = IF i <= a THEN x[i] ELSE y[i - a]
  BY ConcatProperties DEF String
<1>3. \A i \in 1..Len(s) : s[i] # ";"
  BY DEF Clean
<1> HIDE DEF s
<1>4. Clean(x)
  <2>1. \A i \in 1..a : x[i] # ";"
    <3> HIDE DEF a, b
    <3> TAKE i \in 1..a
    <3>1. i \in 1..(a + b) /\ i <= a /\ i \in 1..Len(s)
      BY <1>1, <1>2
    <3> QED
      BY <1>2, <1>3, <3>1
  <2> QED
    BY <2>1 DEF Clean
<1>5. Clean(y)
  <2>1. \A i \in 1..b : y[i] # ";"
    <3> HIDE DEF a, b
    <3> TAKE i \in 1..b
    <3>1. a + i \in 1..(a + b) /\ ~(a + i <= a) /\ a + i \in 1..Len(s) /\ (a + i) - a = i
      BY <1>1, <1>2
    <3> QED
      BY <1>2, <1>3, <3>1
  <2> QED
    BY <2>1 DEF Clean
<1> QED
  BY <1>4, <1>5

\* Blanks are white space.
LEMMA BlanksAreWhite ==
  Blanks \subseteq White /\ \A x : AreBlanks(x, Blanks) => AreBlanks(x, White)
<1>1. Blanks \subseteq White
  BY MappingAssumption DEF Blanks
<1> QED
  BY <1>1 DEF AreBlanks

\* Blanks separate nothing.
LEMMA BlanksAreClean ==
  ASSUME NEW x, AreBlanks(x, White)
  PROVE  Clean(x)
<1>1. ";" \notin White
  BY MappingAssumption
<1> QED
  BY <1>1 DEF AreBlanks, Clean

\* Blanks in front of the first part and behind the last.
Ahead(l, i) == IF i = 1 THEN l ELSE <<>>
Behind(P, t, i) == IF i = Len(P) THEN t ELSE <<>>
Wrap(P, l, t) == [i \in 1..Len(P) |-> Ahead(l, i) \o P[i] \o Behind(P, t, i)]

\* Text in front of the first part and behind the last is in front of and behind
\* the joined string.
LEMMA WrapProperties ==
  ASSUME NEW P, Parts(P), NEW l, Clean(l), NEW t, Clean(t)
  PROVE  /\ Parts(Wrap(P, l, t)) /\ Len(Wrap(P, l, t)) = Len(P)
         /\ Join(Wrap(P, l, t)) = l \o Join(P) \o t
<1> DEFINE N == Len(P)
           Q == Wrap(P, l, t)
<1>1. P \in Seq(String) /\ N \in Nat \ {0} /\ \A i \in 1..N : Clean(P[i])
  BY DEF Parts
<1>2. \A i : Clean(Ahead(l, i)) /\ Clean(Behind(P, t, i))
  BY EmptyIsClean DEF Ahead, Behind
<1>3. \A i \in 1..N : Clean(Ahead(l, i) \o P[i]) /\ Clean(Ahead(l, i) \o P[i] \o Behind(P, t, i))
  BY <1>1, <1>2, CleanConcat
<1>4. Q \in [1..N -> String] /\ \A i \in 1..N : Q[i] = Ahead(l, i) \o P[i] \o Behind(P, t, i) /\ Clean(Q[i])
  BY <1>3 DEF Wrap, Clean
<1> HIDE DEF Q
<1>5. Q \in Seq(String) /\ Len(Q) = N
  BY <1>1, <1>4, FunctionIsSeq
<1>6. Parts(Q)
  BY <1>1, <1>4, <1>5 DEF Parts
<1>7. PICK g : Joins(P, g) /\ Join(P) = g[N]
  BY <1>1, JoinIsDefined
<1>8. /\ g \in [0..N -> String] /\ g[0] = <<>>
      /\ \A i \in 1..N : g[i] = g[i - 1] \o Before(i) \o P[i]
  BY <1>7 DEF Joins
<1>9. l \in String /\ t \in String /\ <<>> \in String
  BY EmptyIsClean DEF Clean
<1> DEFINE u == [i \in 0..N |-> IF i = 0 THEN <<>> ELSE l \o g[i] \o Behind(P, t, i)]
<1>10. /\ u \in [0..N -> String] /\ u[0] = <<>>
       /\ \A i \in 1..N : u[i] = l \o g[i] \o Behind(P, t, i)
  <2>1. \A i \in 0..N : l \o g[i] \o Behind(P, t, i) \in String
    <3> TAKE i \in 0..N
    <3>1. g[i] \in String /\ Behind(P, t, i) \in String
      BY <1>2, <1>8 DEF Clean
    <3>2. l \o g[i] \in String
      BY <1>9, <3>1, Concats
    <3> QED
      BY <3>1, <3>2, Concats
  <2>2. 0 \in 0..N /\ \A i \in 1..N : i \in 0..N /\ i # 0
    BY <1>1
  <2> HIDE DEF N
  <2> QED
    BY <1>9, <2>1, <2>2
<1> HIDE DEF u
<1>11. ASSUME NEW i \in 1..N PROVE u[i] = u[i - 1] \o Before(i) \o Q[i]
  <2> DEFINE b == Before(i)
             p == P[i]
             e == Behind(P, t, i)
  <2>1. b \in String /\ p \in String /\ e \in String
    BY <1>1, <1>2, BeforeProperties DEF Clean
  <2>2. u[i] = l \o (g[i - 1] \o b \o p) \o e /\ Q[i] = Ahead(l, i) \o p \o e
    BY <1>4, <1>8, <1>10
  <2>3. CASE i = 1
    <3>1. i - 1 = 0 /\ b = <<>> /\ Ahead(l, i) = l
      BY <2>3 DEF Before, Ahead
    <3>2. u[i - 1] = <<>> /\ g[i - 1] = <<>>
      BY <1>8, <1>10, <3>1
    <3>3. <<>> \o <<>> \o p = p /\ <<>> \o <<>> = <<>>
      BY <1>9, <2>1, NoConcat
    <3>4. u[i] = l \o p \o e
      BY <2>2, <3>1, <3>2, <3>3
    <3>5. l \o p \o e \in String
      BY <1>9, <2>1, Concats
    <3>6. <<>> \o (l \o p \o e) = l \o p \o e
      BY <3>5, NoConcat
    <3>7. u[i - 1] \o Before(i) = <<>>
      BY <3>1, <3>2, <3>3
    <3>8. Q[i] = l \o p \o e
      BY <2>2, <3>1
    <3> QED
      BY <3>4, <3>6, <3>7, <3>8
  <2>4. CASE i # 1
    <3> DEFINE h == g[i - 1]
    <3>1. i - 1 \in 1..N /\ i - 1 \in 0..N /\ i - 1 # N
      BY <1>1, <2>4
    <3>2. Ahead(l, i) = <<>> /\ Behind(P, t, i - 1) = <<>>
      BY <2>4, <3>1 DEF Ahead, Behind
    <3>3. h \in String
      BY <1>8, <3>1
    <3>4. u[i - 1] = l \o h \o <<>>
      BY <1>10, <3>1, <3>2
    <3> HIDE DEF h, b, p, e
    <3>5. l \o h \in String /\ h \o b \in String
      BY <1>9, <2>1, <3>3, Concats
    <3>6. l \in String /\ h \in String /\ b \in String /\ p \in String /\ h \o b \in String
      BY <1>9, <2>1, <3>3, <3>5
    <3>7. u[i - 1] = l \o h
      BY <3>4, <3>5, NoConcat
    <3>8. <<>> \o p = p
      BY <2>1, NoConcat
    <3>9. Q[i] = p \o e
      BY <2>2, <3>2, <3>8
    <3>10. (l \o (h \o b)) \o p = l \o ((h \o b) \o p)
      <4>1. Associated(l, h \o b, p)
        BY <3>6, Associates, Zenon
      <4> QED
        BY <4>1, Zenon DEF Associated
    <3>11. (l \o h) \o b = l \o (h \o b)
      <4>1. Associated(l, h, b)
        BY <3>6, Associates, Zenon
      <4> QED
        BY <4>1, Zenon DEF Associated
    <3>12. (l \o h) \o b \in String
      BY <2>1, <3>5, Concats
    <3>13. (((l \o h) \o b) \o p) \o e = ((l \o h) \o b) \o (p \o e)
      <4>1. Associated((l \o h) \o b, p, e)
        BY <2>1, <3>12, Associates, Zenon
      <4> QED
        BY <4>1, Zenon DEF Associated
    <3>14. u[i] = (l \o ((h \o b) \o p)) \o e
      BY <2>2 DEF h
    <3> QED
      BY <3>7, <3>9, <3>10, <3>11, <3>13, <3>14 DEF b
  <2> QED
    BY <2>3, <2>4
<1>12. Joins(Q, u)
  BY <1>5, <1>10, <1>11 DEF Joins
<1>13. Join(Q) = u[N]
  BY <1>5, <1>12, JoinIs
<1>14. N \in 1..N
  BY <1>1, LastIsIn
<1>15. u[N] = l \o g[N] \o t
  BY <1>10, <1>14 DEF Behind
<1> QED
  BY <1>5, <1>6, <1>7, <1>13, <1>15 DEF Q

\* A string of one character is that character.
LEMMA StringOfOne ==
  ASSUME NEW y \in String, Len(y) = 1
  PROVE  y = <<y[1]>> /\ y[1] \in Utf8
<1> DEFINE ch == y[1]
<1>1. ch \in Utf8
  <2>1. 1 \in 1..Len(y)
    OBVIOUS
  <2> QED
    BY <2>1, ElementOfSeq DEF String
<1> DEFINE z == <<ch>>
<1>2. z \in String /\ Len(z) = 1 /\ z[1] = ch
  BY <1>1, OneCharacter
<1> HIDE DEF z
<1>3. \A i \in 1..Len(y) : y[i] = z[i]
  <2>1. \A i \in 1..1 : i = 1
    OBVIOUS
  <2> QED
    BY <1>2, <2>1
<1>4. y = z
  BY <1>2, <1>3, SeqEqual DEF String
<1> QED
  BY <1>1, <1>4 DEF z

\* A part of a cookie with an equals sign.
Attr(p, n, raw) == /\ n \in String /\ raw \in String /\ p = n \o <<"=">> \o raw
                   /\ \A i \in 1..Len(n) : n[i] # "="

\* An attribute is its name and its value, on both sides of the first sign.
LEMMA AttrProperties ==
  ASSUME NEW p, NEW n, NEW raw, Attr(p, n, raw)
  PROVE  /\ p \in String /\ Equals(p) = {Len(n) + 1} /\ Sign(p) = Len(n) + 1 /\ Len(n) \in Nat
         /\ SubSeq(p, 1, Sign(p) - 1) = n /\ SubSeq(p, 1, Sign(p)) = n \o <<"=">>
         /\ SubSeq(p, Sign(p) + 1, Len(p)) = raw
<1> DEFINE y == <<"=">>
           w == n \o y
           a == Len(n)
<1>1. /\ n \in String /\ raw \in String /\ p = w \o raw
      /\ \A i \in 1..a : n[i] # "="
  BY DEF Attr
<1>2. y \in String /\ Len(y) = 1 /\ y[1] = "="
  BY TokensAreUtf8, OneCharacter
<1> HIDE DEF y
<1>3. a \in Nat /\ Len(raw) \in Nat
  BY <1>1, LenProperties DEF String
<1>4. w \in String /\ Len(w) = a + 1
  <2>1. w \in String /\ Len(w) = a + Len(y)
    BY <1>1, <1>2, ConcatProperties DEF String
  <2> QED
    BY <1>2, <2>1
<1>5. IsThree(p, n, y, raw) /\ SubSeq(p, 1, a) = n
  BY <1>1, <1>2, ThreeParts, PartsOfThree
<1>6. /\ p \in String /\ Len(p) = a + Len(y) + Len(raw)
      /\ \A i \in 1..a : p[i] = n[i]
      /\ \A i \in 1..Len(y) : p[a + i] = y[i]
  BY <1>5 DEF IsThree
<1> HIDE DEF w
<1>7. IsThree(p, w, raw, <<>>) /\ <<>> \in String
  <2>1. <<>> \in String
    BY EmptySeq DEF String
  <2>2. w \o raw \in String
    BY <1>1, <1>4, Concats
  <2>3. p = w \o raw \o <<>>
    BY <1>1, <2>2, NoConcat
  <2> QED
    BY <1>1, <1>4, <2>1, <2>3, ThreeParts
<1>8. SubSeq(p, 1, a + 1) = w /\ SubSeq(p, (a + 1) + 1, Len(p)) = raw
  <2>1. /\ SubSeq(p, 1, Len(w)) = w
        /\ SubSeq(p, Len(w) + 1, Len(w) + Len(raw)) = raw
    BY <1>1, <1>4, <1>7, PartsOfThree, SMTT(30)
  <2>2. Len(w) + Len(raw) = Len(p)
    BY <1>2, <1>3, <1>4, <1>6
  <2> QED
    BY <1>4, <2>1, <2>2
<1>9. p[a + 1] = "="
  <2>1. 1 \in 1..Len(y)
    BY <1>2
  <2> QED
    BY <1>2, <1>6, <2>1
<1>10. Equals(p) = {a + 1}
  <2>1. DOMAIN p = 1..Len(p)
    BY <1>6, LenProperties DEF String
  <2>2. a + 1 \in 1..Len(p) /\ (a + 1) - 1 = a
    BY <1>2, <1>3, <1>6
  <2>3. \A j \in 1..a : p[j] # "="
    BY <1>1, <1>6
  <2>4. a + 1 \in Equals(p)
    BY <1>9, <2>1, <2>2, <2>3 DEF Equals
  <2>5. ASSUME NEW i \in Equals(p) PROVE i = a + 1
    <3>1. i \in 1..Len(p) /\ p[i] = "=" /\ \A j \in 1..(i - 1) : p[j] # "="
      BY <2>1 DEF Equals
    <3>2. i \in 1..a \/ i = a + 1 \/ a + 1 \in 1..(i - 1)
      BY <1>2, <1>3, <1>6, <3>1
    <3> QED
      BY <1>9, <2>3, <3>1, <3>2
  <2> QED
    BY <2>4, <2>5
<1>11. Sign(p) = a + 1
  BY <1>10 DEF Sign
<1>12. Sign(p) - 1 = a
  BY <1>3, <1>11
<1> QED
  BY <1>3, <1>5, <1>6, <1>8, <1>10, <1>11, <1>12 DEF w, y

\* A part with a sign in it is an attribute.
LEMMA Attrs ==
  ASSUME NEW p \in String, Equals(p) # {}
  PROVE  \E n, raw : Attr(p, n, raw)
<1>1. PICK q : q \in Equals(p)
  OBVIOUS
<1>2. DOMAIN p = 1..Len(p) /\ Len(p) \in Nat
  BY LenProperties DEF String
<1>3. q \in 1..Len(p) /\ p[q] = "=" /\ \A j \in 1..(q - 1) : p[j] # "="
  BY <1>1, <1>2 DEF Equals
<1> DEFINE n == SubSeq(p, 1, q - 1)
           y == SubSeq(p, (q - 1) + 1, q)
           raw == SubSeq(p, q + 1, Len(p))
<1>4. q - 1 \in 0..Len(p) /\ q \in (q - 1)..Len(p) /\ q - (q - 1) = 1 /\ (q - 1) + 1 = q
  BY <1>2, <1>3
<1>5. /\ n \in String /\ Len(n) = q - 1 /\ y \in String /\ Len(y) = q - (q - 1)
      /\ raw \in String /\ p = n \o y \o raw
  BY <1>4, CutInThree
<1> HIDE DEF n, y, raw
<1>6. IsThree(p, n, y, raw)
  BY <1>5, ThreeParts
<1>7. y[1] = "=" /\ \A i \in 1..Len(n) : n[i] # "="
  <2>1. (\A i \in 1..Len(n) : p[i] = n[i]) /\ \A i \in 1..Len(y) : p[Len(n) + i] = y[i]
    BY <1>6 DEF IsThree
  <2>2. 1 \in 1..Len(y) /\ Len(n) + 1 = q
    BY <1>4, <1>5
  <2> QED
    BY <1>3, <1>5, <2>1, <2>2
<1>8. y = <<"=">>
  BY <1>4, <1>5, <1>7, StringOfOne
<1>9. Attr(p, n, raw)
  BY <1>5, <1>7, <1>8 DEF Attr
<1> QED
  BY <1>9

\* Blanks behind a string do not change what is left of it.
LEMMA TrimLonger ==
  ASSUME NEW W, NEW s \in String, NEW e, AreBlanks(e, W)
  PROVE  Trim(s \o e, W) = Trim(s, W) /\ s \o e \in String
<1>1. e \in String /\ \A i \in 1..Len(e) : e[i] \in W
  BY DEF AreBlanks
<1>2. s \o e \in String
  BY <1>1, Concats
<1>3. ASSUME NEW x, AreBlanks(x, W) PROVE AreBlanks(x \o e, W)
  <2>1. x \in Seq(Utf8) /\ e \in Seq(Utf8) /\ \A i \in 1..Len(x) : x[i] \in W
    BY <1>1, <1>3 DEF AreBlanks, String
  <2> DEFINE w == x \o e
             a == Len(x)
             b == Len(e)
  <2>2. /\ w \in Seq(Utf8) /\ Len(w) = a + b /\ a \in Nat /\ b \in Nat
        /\ \A i \in 1..(a + b) : w[i] = IF i <= a THEN x[i] ELSE e[i - a]
    BY <2>1, ConcatProperties, LenProperties
  <2>3. (\A i \in 1..a : x[i] \in W) /\ \A i \in 1..b : e[i] \in W
    BY <1>1, <2>1
  <2> HIDE DEF w, a, b
  <2>4. \A i \in 1..Len(w) : w[i] \in W
    <3> TAKE i \in 1..Len(w)
    <3>1. i \in 1..(a + b) /\ (i <= a => i \in 1..a) /\ (~(i <= a) => i - a \in 1..b)
      BY <2>2
    <3> QED
      BY <2>2, <2>3, <3>1
  <2> QED
    BY <2>2, <2>4 DEF AreBlanks, String, w
<1>4. CASE AreBlanks(s, W)
  BY <1>3, <1>4, BlankProperties
<1>5. CASE \E l, c, t : Laid(s, l, c, t, W)
  <2>1. PICK l, c, t : Laid(s, l, c, t, W)
    BY <1>5
  <2>2. AreBlanks(l, W) /\ IsCore(c, W) /\ AreBlanks(t, W) /\ s = (l \o c) \o t
    BY <2>1 DEF Laid
  <2>3. l \in String /\ c \in String /\ t \in String
    BY <2>2 DEF AreBlanks, IsCore
  <2>4. l \o c \in String
    BY <2>3, Concats
  <2> DEFINE lc == l \o c
             te == t \o e
  <2>5. (lc \o t) \o e = lc \o te
    <3> HIDE DEF lc
    <3> QED
      BY <1>1, <2>3, <2>4, ConcatsAssociate DEF lc
  <2>6. AreBlanks(te, W)
    BY <1>3, <2>2
  <2> HIDE DEF te
  <2>7. Laid(s \o e, l, c, te, W)
    BY <2>2, <2>5, <2>6 DEF Laid
  <2> QED
    BY <1>2, <2>1, <2>7, LaidProperties
<1> QED
  BY <1>2, <1>4, <1>5, Layouts

\* The dots that a Domain begins with.
DotsTo(v, n) == /\ n \in 0..Len(v) /\ \A i \in 1..n : v[i] = "."
                /\ n < Len(v) => v[n + 1] # "."

\* The dots in front of a host end at one place.
LEMMA DotsAre ==
  ASSUME NEW v \in String, NEW n, DotsTo(v, n)
  PROVE  Dots(v) = n
<1>1. Len(v) \in Nat
  BY LenProperties DEF String
<1>2. Dots(v) = CHOOSE m \in 0..Len(v) : DotsTo(v, m)
  <2>1. \A m \in 0..Len(v) : DotsTo(v, m) <=> /\ \A i \in 1..m : v[i] = "."
                                              /\ m < Len(v) => v[m + 1] # "."
    BY DEF DotsTo
  <2> QED
    BY <2>1 DEF Dots
<1>3. n \in 0..Len(v)
  BY DEF DotsTo
<1>4. ASSUME NEW m \in 0..Len(v), DotsTo(v, m) PROVE m = n
  <2>1. ~(m < n)
    <3> SUFFICES ASSUME m < n PROVE FALSE
      OBVIOUS
    <3>1. m + 1 \in 1..n /\ m < Len(v)
      BY <1>1, <1>3
    <3> QED
      BY <1>4, <3>1 DEF DotsTo
  <2>2. ~(n < m)
    <3> SUFFICES ASSUME n < m PROVE FALSE
      OBVIOUS
    <3>1. n + 1 \in 1..m /\ n < Len(v)
      BY <1>1, <1>3
    <3> QED
      BY <1>4, <3>1 DEF DotsTo
  <2> QED
    BY <1>1, <1>3, <2>1, <2>2
<1> QED
  BY <1>2, <1>3, <1>4

\* A host, with a dot or without one.
IsHost(w, host) ==
  /\ IsCore(w, White) /\ Dots(w) = Len(w) - 1 /\ w[Len(w)] = host
  /\ host # ";" => Clean(w)

\* A host behind one dot or none is trimmed text, and its dots are before it.
LEMMA Hosts ==
  ASSUME NEW host, host \notin White, host # ".", NEW w \in {<<host>>, <<".", host>>}, w \in String
  PROVE  IsHost(w, host)
<1>1. "." \notin White /\ "." # ";"
  BY MappingAssumption
<1>2. CASE w = <<host>>
  <2>1. Len(w) = 1 /\ w[1] = host /\ \A i \in 1..1 : i = 1
    BY <1>2
  <2>2. IsCore(w, White)
    <3>1. Len(w) > 0 /\ w[1] \notin White /\ w[Len(w)] \notin White
      BY <2>1
    <3> QED
      BY <3>1 DEF IsCore
  <2>3. host # ";" => Clean(w)
    BY <2>1 DEF Clean
  <2>4. Dots(w) = 0
    <3>1. 0 \in 0..Len(w) /\ 0 + 1 = 1 /\ \A i \in 1..0 : w[i] = "."
      BY <2>1
    <3>2. DotsTo(w, 0)
      BY <2>1, <3>1 DEF DotsTo
    <3> QED
      BY <3>2, DotsAre
  <2>5. Dots(w) = Len(w) - 1 /\ w[Len(w)] = host
    BY <2>1, <2>4
  <2> QED
    BY <2>2, <2>3, <2>5, Zenon DEF IsHost
<1>3. CASE w = <<".", host>>
  <2>1. Len(w) = 2 /\ w[1] = "." /\ w[2] = host /\ \A i \in 1..2 : i = 1 \/ i = 2
    BY <1>3
  <2>2. IsCore(w, White)
    <3>1. Len(w) > 0 /\ w[1] \notin White /\ w[Len(w)] \notin White
      BY <1>1, <2>1
    <3> QED
      BY <3>1 DEF IsCore
  <2>3. host # ";" => Clean(w)
    BY <1>1, <2>1 DEF Clean
  <2>4. Dots(w) = 1
    <3>1. 1 \in 0..Len(w) /\ 1 + 1 = 2 /\ \A i \in 1..1 : i = 1
      BY <2>1
    <3>2. DotsTo(w, 1)
      BY <2>1, <3>1 DEF DotsTo
    <3> QED
      BY <3>2, DotsAre
  <2>5. Dots(w) = Len(w) - 1 /\ w[Len(w)] = host
    BY <2>1, <2>4
  <2> QED
    BY <2>2, <2>3, <2>5, Zenon DEF IsHost
<1> QED
  BY <1>2, <1>3

\* The name of B, as Attribute() puts it.
Dotted(dot) == IF dot THEN <<".">> ELSE <<>>

\* With the dot or without it, it is the host of B.
LEMMA NameOfB ==
  ASSUME NEW dot \in BOOLEAN, NEW w, w = Dotted(dot) \o <<public_host>>
  PROVE  /\ w \in {<<public_host>>, <<".", public_host>>} /\ IsHost(w, public_host) /\ Clean(w)
         /\ Dotted(dot) \in String /\ <<public_host>> \in String
<1>1. public_host \notin White /\ public_host # "." /\ public_host # ";"
  BY MappingAssumption DEF Punctuation
<1>2. "." \in Utf8 /\ public_host \in Utf8
  BY TokensAreUtf8
<1>3. /\ <<public_host>> \in String /\ <<".", public_host>> \in String /\ <<".">> \in String
      /\ <<>> \in String
  BY <1>2 DEF String
<1>4. <<".">> \o <<public_host>> = <<".", public_host>>
  <2> DEFINE d == <<".">>
             h == <<public_host>>
             y == d \o h
             z == <<".", public_host>>
  <2>1. Len(d) = 1 /\ d[1] = "." /\ Len(h) = 1 /\ h[1] = public_host /\ d \in String /\ h \in String
    BY <1>3
  <2>2. z \in String /\ Len(z) = 2 /\ z[1] = "." /\ z[2] = public_host
    BY <1>3
  <2> HIDE DEF d, h, z
  <2>3. /\ y \in String /\ Len(y) = Len(d) + Len(h)
        /\ \A i \in 1..(Len(d) + Len(h)) : y[i] = IF i <= Len(d) THEN d[i] ELSE h[i - Len(d)]
    BY <2>1, ConcatProperties DEF String
  <2> HIDE DEF y
  <2>4. Len(y) = 2 /\ y[1] = "." /\ y[2] = public_host
    <3>1. 1 \in 1..(Len(d) + Len(h)) /\ 2 \in 1..(Len(d) + Len(h)) /\ Len(d) + Len(h) = 2
      BY <2>1
    <3> QED
      BY <2>1, <2>3, <3>1
  <2>5. \A i \in 1..Len(y) : y[i] = z[i]
    <3>1. \A i \in 1..2 : i = 1 \/ i = 2
      OBVIOUS
    <3> QED
      BY <2>2, <2>4, <3>1
  <2>6. y = z
    BY <2>2, <2>3, <2>4, <2>5, SeqEqual DEF String
  <2> QED
    BY <2>6 DEF y, z, d, h
<1>5. w = IF dot THEN <<".", public_host>> ELSE <<public_host>>
  <2>1. <<>> \o <<public_host>> = <<public_host>>
    BY <1>3, NoConcat
  <2> QED
    BY <1>4, <2>1 DEF Dotted
<1>6. w \in {<<public_host>>, <<".", public_host>>} /\ w \in String /\ Dotted(dot) \in String
  BY <1>3, <1>5 DEF Dotted
<1>7. IsHost(w, public_host)
  BY <1>1, <1>6, Hosts
<1> QED
  BY <1>1, <1>3, <1>6, <1>7 DEF IsHost

Regrouped(x, l, d, h, t) == /\ x \o l \o d \o h \o t = x \o (l \o (d \o h) \o t)
                          /\ l \o (d \o h) \o t \in String

\* Grouping five, as a named fact.
LEMMA Regroup ==
  ASSUME NEW x \in String, NEW l \in String, NEW d \in String, NEW h \in String, NEW t \in String
  PROVE  Regrouped(x, l, d, h, t)
<1> DEFINE y == x \o l
           w == d \o h
           v == l \o w
<1>1. y \in String /\ w \in String
  BY Concats
<1>2. v \in String
  <2> HIDE DEF w
  <2> QED
    BY <1>1, Concats
<1>3. v \o t \in String
  <2> HIDE DEF v
  <2> QED
    BY <1>2, Concats
<1>4. (y \o d) \o h = y \o w
  <2> HIDE DEF y
  <2>1. Associated(y, d, h)
    BY <1>1, Associates, Zenon
  <2> QED
    BY <2>1, Zenon DEF Associated
<1>5. y \o w = x \o v
  <2>1. Associated(x, l, w)
    BY <1>1, Associates, Zenon
  <2> QED
    BY <2>1 DEF Associated
<1>6. (x \o v) \o t = x \o (v \o t)
  <2> HIDE DEF v
  <2>1. Associated(x, v, t)
    BY <1>2, Associates, Zenon
  <2> QED
    BY <2>1, Zenon DEF Associated
<1> QED
  BY <1>3, <1>4, <1>5, <1>6 DEF Regrouped

\* What follows an attribute belongs to its value.
LEMMA AttrLonger ==
  ASSUME NEW p, NEW n, NEW raw, Attr(p, n, raw), NEW e \in String
  PROVE  Attr(p \o e, n, raw \o e)
<1> DEFINE w == n \o <<"=">>
<1>1. n \in String /\ raw \in String /\ p = w \o raw /\ \A i \in 1..Len(n) : n[i] # "="
  BY DEF Attr
<1>2. w \in String
  <2>1. <<"=">> \in String
    BY TokensAreUtf8, OneCharacter
  <2> QED
    BY <1>1, <2>1, Concats
<1> HIDE DEF w
<1>3. raw \o e \in String /\ (w \o raw) \o e = w \o (raw \o e)
  BY <1>1, <1>2, Concats, ConcatsAssociate
<1>4. p \o e = w \o (raw \o e)
  BY <1>1, <1>3
<1> QED
  BY <1>1, <1>3, <1>4 DEF Attr, w

\* The name of an attribute and its content, for blanks and for white space.
LEMMA DomainOf ==
  ASSUME NEW W, NEW p, NEW n, NEW raw, Attr(p, n, raw)
  PROVE  /\ NamesDomain(p, W) <=> Trim(n, W) = <<"domain">>
         /\ Content(p, W) = Trim(raw, W)
<1>1. /\ Sign(p) = Len(n) + 1 /\ Len(n) \in Nat
      /\ SubSeq(p, 1, Sign(p) - 1) = n /\ SubSeq(p, Sign(p) + 1, Len(p)) = raw
  BY AttrProperties
<1>2. Sign(p) > 0
  BY <1>1
<1> QED
  BY <1>1, <1>2 DEF NamesDomain, Content

\* What is trimmed is a string.
LEMMA TrimIsString ==
  ASSUME NEW W, NEW s \in String
  PROVE  Trim(s, W) \in String
<1>1. CASE AreBlanks(s, W)
  <2>1. Trim(s, W) = <<>>
    BY <1>1, BlankProperties
  <2> QED
    BY <2>1, EmptySeq DEF String
<1>2. CASE \E l, c, t : Laid(s, l, c, t, W)
  <2>1. PICK l, c, t : Laid(s, l, c, t, W)
    BY <1>2
  <2>2. Trim(s, W) = c
    BY <2>1, LaidProperties
  <2> QED
    BY <2>1, <2>2 DEF Laid, IsCore
<1> QED
  BY <1>1, <1>2, Layouts

\* What is left without blanks, and has no white space around it, is what is left
\* without white space.
Within(s, l, c, t) == Laid(s, l, c, t, Blanks) /\ Laid(s, l, c, t, White)

LEMMA TrimWider ==
  ASSUME NEW s \in String, NEW c, Trim(s, Blanks) = c, IsCore(c, White)
  PROVE  \E l, t : Within(s, l, c, t)
<1>1. ~AreBlanks(s, Blanks)
  <2> SUFFICES ASSUME AreBlanks(s, Blanks) PROVE FALSE
    OBVIOUS
  <2>1. c = <<>>
    BY BlankProperties
  <2>2. Len(c) > 0 /\ Len(<<>>) = 0
    BY DEF IsCore
  <2> QED
    BY <2>1, <2>2
<1>2. PICK l, d, t : Laid(s, l, d, t, Blanks)
  BY <1>1, Layouts
<1>3. d = c
  BY <1>2, LaidProperties
<1>4. Laid(s, l, c, t, White)
  BY <1>2, <1>3, BlanksAreWhite DEF Laid
<1> QED
  BY <1>2, <1>3, <1>4 DEF Within

\* Whether Attribute() puts the name of B, and where.
Taken(n, raw) == Trim(n, White) = <<"domain">> /\ OfUpstream(Trim(raw, White))
Renamed(n, raw) ==
  (n \o <<"=">>) \o SubSeq(raw, 1, Leading(raw, White)) \o Dotted(Trim(raw, White)[1] = ".")
    \o <<public_host>> \o SubSeq(raw, TrimEnd(raw, White) + 1, Len(raw))

\* Attribute() renames a Domain of A's host and keeps any other part.
LEMMA AttributeIs ==
  ASSUME NEW p, NEW n, NEW raw, Attr(p, n, raw)
  PROVE  Attribute(p) = IF Taken(n, raw) THEN Renamed(n, raw) ELSE p
<1> DEFINE W == White
<1>1. /\ Equals(p) = {Len(n) + 1} /\ Sign(p) = Len(n) + 1
      /\ SubSeq(p, 1, Sign(p) - 1) = n /\ SubSeq(p, 1, Sign(p)) = n \o <<"=">>
      /\ SubSeq(p, Sign(p) + 1, Len(p)) = raw
  BY AttrProperties
<1>2. Equals(p) # {} /\ Sign(p) = CHOOSE i \in Equals(p) : TRUE
  BY <1>1 DEF Sign
<1>3. Attribute(p) =
        LET r == SubSeq(p, Sign(p) + 1, Len(p))
        IN  IF Trim(SubSeq(p, 1, Sign(p) - 1), W) = <<"domain">> /\ OfUpstream(Trim(r, W))
            THEN SubSeq(p, 1, Sign(p)) \o SubSeq(r, 1, Leading(r, W))
                 \o (IF Trim(r, W)[1] = "." THEN <<".">> ELSE <<>>) \o <<public_host>>
                 \o SubSeq(r, TrimEnd(r, W) + 1, Len(r))
            ELSE p
  BY <1>2 DEF Attribute
<1> QED
  BY <1>1, <1>3 DEF Taken, Renamed, Dotted

\* The part with the name of B.
Put(l, c, t) == l \o (Dotted(c[1] = ".") \o <<public_host>>) \o t
PutIs(p, n, l, c, t) ==
  Put(l, c, t) \in String /\ Attr(p, n, Put(l, c, t)) /\ Clean(p)

\* A renamed Domain is an attribute still, with the name of B between its blanks.
LEMMA RenamedProperties ==
  ASSUME NEW p, Clean(p), NEW n, NEW raw, Attr(p, n, raw),
         NEW l, NEW c, NEW t, Laid(raw, l, c, t, White)
  PROVE  PutIs(Renamed(n, raw), n, l, c, t)
<1> DEFINE w == n \o <<"=">>
           h == <<public_host>>
           o == c[1] = "."
           d == Dotted(o)
<1>1. n \in String /\ raw \in String /\ p = w \o raw /\ \A i \in 1..Len(n) : n[i] # "="
  BY DEF Attr
<1>2. w \in String
  <2>1. <<"=">> \in String
    BY TokensAreUtf8, OneCharacter
  <2> QED
    BY <1>1, <2>1, Concats
<1>3. Clean(w) /\ Clean(raw)
  <2> HIDE DEF w
  <2> QED
    BY <1>1, <1>2, CleanParts
<1>4. AreBlanks(l, White) /\ AreBlanks(t, White) /\ l \in String /\ t \in String
  BY DEF Laid, AreBlanks
<1>5. /\ Trim(raw, White) = c
      /\ SubSeq(raw, 1, Leading(raw, White)) = l /\ SubSeq(raw, TrimEnd(raw, White) + 1, Len(raw)) = t
  BY LaidProperties
<1>6. Renamed(n, raw) = w \o l \o d \o h \o t
  BY <1>5 DEF Renamed
<1>7. o \in BOOLEAN
  OBVIOUS
<1>8. Put(l, c, t) = l \o (d \o h) \o t
  BY DEF Put
<1> HIDE DEF o
<1>9. Clean(d \o h)
  BY <1>7, NameOfB
<1>10. d \in String /\ h \in String
  BY <1>7, NameOfB
<1> HIDE DEF d, h, w
<1> DEFINE r == l \o (d \o h) \o t
<1>11. Renamed(n, raw) = w \o r /\ r \in String
  <2>1. w \in String /\ l \in String /\ d \in String /\ h \in String /\ t \in String
    BY <1>2, <1>4, <1>10
  <2>2. w \o l \o d \o h \o t = w \o (l \o (d \o h) \o t) /\ l \o (d \o h) \o t \in String
    <3>1. Regrouped(w, l, d, h, t)
      BY <2>1, Regroup, Zenon
    <3> QED
      BY <3>1 DEF Regrouped
  <2> QED
    BY <1>6, <2>2
<1>12. Clean(r)
  <2>1. Clean(l) /\ Clean(t)
    BY <1>4, BlanksAreClean
  <2>2. Clean(l \o (d \o h))
    BY <1>9, <2>1, CleanConcat
  <2> QED
    BY <2>1, <2>2, CleanConcat
<1> HIDE DEF r
<1>13. Attr(Renamed(n, raw), n, r)
  BY <1>1, <1>11 DEF Attr, w
<1>14. Clean(Renamed(n, raw))
  BY <1>3, <1>11, <1>12, CleanConcat
<1>15. Put(l, c, t) = r
  BY <1>8 DEF r
<1> QED
  BY <1>11, <1>13, <1>14, <1>15 DEF PutIs

\* A browser's reading of a part and of the part that Attribute() makes of it.
OfA(a) == \E host \in upstream_hosts : IsDomain(a, host)
ReadsAs(a, b) == IF OfA(a) THEN IsDomain(b, public_host) ELSE b = a \/ Loosely(a)

\* Blanks make no attribute of a part.
LEMMA NoSign ==
  ASSUME NEW p \in String, Equals(p) = {}, NEW e, AreBlanks(e, Blanks)
  PROVE  Equals(p \o e) = {}
<1> DEFINE s == p \o e
           a == Len(p)
           b == Len(e)
<1>1. e \in String /\ \A i \in 1..b : e[i] = Blank
  BY DEF AreBlanks, Blanks
<1>2. a \in Nat /\ b \in Nat /\ DOMAIN p = 1..a
  BY <1>1, LenProperties DEF String
<1>3. /\ s \in String /\ Len(s) = a + b
      /\ \A i \in 1..(a + b) : s[i] = IF i <= a THEN p[i] ELSE e[i - a]
  BY <1>1, ConcatProperties DEF String
<1>4. DOMAIN s = 1..(a + b)
  BY <1>3, LenProperties DEF String
<1> HIDE DEF s, a, b
<1>5. "=" # Blank
  BY DEF Blank
<1> SUFFICES ASSUME NEW i \in Equals(s) PROVE FALSE
  BY DEF s
<1>6. i \in 1..(a + b) /\ s[i] = "=" /\ \A j \in 1..(i - 1) : s[j] # "="
  BY <1>4 DEF Equals
<1>7. i \in 1..a
  <2> SUFFICES ASSUME ~(i \in 1..a) PROVE FALSE
    OBVIOUS
  <2>1. ~(i <= a) /\ i - a \in 1..b
    BY <1>2, <1>6
  <2>2. s[i] = Blank
    BY <1>1, <1>3, <1>6, <2>1
  <2> QED
    BY <1>5, <1>6, <2>2
<1>8. p[i] = "=" /\ \A j \in 1..(i - 1) : p[j] # "="
  <2>1. i <= a /\ \A j \in 1..(i - 1) : j \in 1..(a + b) /\ j <= a
    BY <1>2, <1>7
  <2> QED
    BY <1>3, <1>6, <2>1
<1>9. i \in Equals(p)
  BY <1>2, <1>7, <1>8 DEF Equals
<1> QED
  BY <1>9

\* A Domain of A is taken.
LEMMA DomainIsTaken ==
  ASSUME NEW a, NEW n, NEW raw, Attr(a, n, raw), NEW host \in upstream_hosts, IsDomain(a, host),
         NEW c, c = Content(a, Blanks)
  PROVE  /\ Taken(n, raw) /\ Trim(n, Blanks) = <<"domain">>
         /\ \E l, t : Within(raw, l, c, t)
<1>1. n \in String /\ raw \in String
  BY DEF Attr
<1>2. Trim(n, Blanks) = <<"domain">> /\ Trim(raw, Blanks) = c /\ c \in {<<host>>, <<".", host>>}
  BY DomainOf DEF IsDomain
<1>3. c \in String /\ <<"domain">> \in String
  BY <1>1, <1>2, TrimIsString
<1>4. host \notin White /\ host # "." /\ "domain" \notin White
  BY MappingAssumption DEF Punctuation
<1>5. IsHost(c, host)
  BY <1>2, <1>3, <1>4, Hosts
<1>6. PICK l, t : Within(raw, l, c, t)
  BY <1>1, <1>2, <1>5, TrimWider DEF IsHost
<1>7. Trim(raw, White) = c
  BY <1>6, LaidProperties DEF Within
<1>8. OfUpstream(c)
  BY <1>5 DEF IsHost, OfUpstream
<1>9. Trim(n, White) = <<"domain">>
  <2> DEFINE d == <<"domain">>
  <2>1. Len(d) = 1 /\ d[1] = "domain" /\ d \in String
    BY <1>3
  <2> HIDE DEF d
  <2>2. IsCore(d, White)
    BY <1>4, <2>1 DEF IsCore
  <2>3. PICK x, y : Within(n, x, d, y)
    BY <1>1, <1>2, <2>2, TrimWider DEF d
  <2>4. Trim(n, White) = d
    BY <2>3, LaidProperties DEF Within
  <2> QED
    BY <2>4 DEF d
<1> QED
  BY <1>2, <1>6, <1>7, <1>8, <1>9 DEF Taken

\* One attribute, with the blanks behind it: what was A's is B's, and anything else
\* is kept.
LEMMA AttributeProperties ==
  ASSUME NEW p, Clean(p), NEW e, AreBlanks(e, Blanks)
  PROVE  Clean(Attribute(p)) /\ ReadsAs(p \o e, Attribute(p) \o e)
<1> DEFINE a == p \o e
<1>1. p \in String /\ e \in String /\ AreBlanks(e, White)
  BY BlanksAreWhite DEF Clean, AreBlanks
<1>2. CASE Equals(p) = {}
  <2>1. Attribute(p) = p
    BY <1>2 DEF Attribute
  <2>2. Sign(a) = 0
    BY <1>1, <1>2, NoSign DEF Sign
  <2>3. ~OfA(a)
    BY <2>2 DEF OfA, IsDomain, NamesDomain
  <2> QED
    BY <2>1, <2>3 DEF ReadsAs
<1>3. CASE Equals(p) # {}
  <2>1. PICK n, raw : Attr(p, n, raw)
    BY <1>1, <1>3, Attrs
  <2>2. raw \in String /\ n \in String
    BY <2>1 DEF Attr
  <2>3. Attr(a, n, raw \o e)
    BY <1>1, <2>1, AttrLonger
  <2>4. Trim(raw \o e, White) = Trim(raw, White) /\ Trim(raw \o e, Blanks) = Trim(raw, Blanks)
    BY <1>1, <2>2, TrimLonger
  <2>5. Loosely(a) <=> Taken(n, raw)
    BY <2>3, <2>4, DomainOf DEF Loosely, Taken
  <2>6. Attribute(p) = IF Taken(n, raw) THEN Renamed(n, raw) ELSE p
    BY <2>1, AttributeIs
  <2>7. OfA(a) => Taken(n, raw)
    <3> SUFFICES ASSUME NEW host \in upstream_hosts, IsDomain(a, host) PROVE Taken(n, raw)
      BY DEF OfA
    <3> HIDE DEF a
    <3>1. Taken(n, raw \o e)
      BY <2>3, DomainIsTaken
    <3> QED
      BY <2>4, <3>1 DEF Taken
  <2>8. CASE ~Taken(n, raw)
    BY <2>6, <2>7, <2>8 DEF ReadsAs
  <2>9. CASE Taken(n, raw)
    <3> DEFINE q == Renamed(n, raw)
    <3>1. Clean(q)
      <4>1. ~AreBlanks(raw, White)
        <5> SUFFICES ASSUME AreBlanks(raw, White) PROVE FALSE
          OBVIOUS
        <5> DEFINE z == <<>>
        <5>1. Trim(raw, White) = z /\ z \in String /\ Len(z) = 0
          BY BlankProperties, EmptySeq DEF String
        <5>2. OfUpstream(z)
          BY <2>9, <5>1 DEF Taken
        <5> HIDE DEF z
        <5>3. DotsTo(z, 0)
          BY <5>1 DEF DotsTo
        <5>4. Dots(z) = 0 /\ Dots(z) = Len(z) - 1
          BY <5>1, <5>2, <5>3, DotsAre DEF OfUpstream
        <5> QED
          BY <5>1, <5>4
      <4>2. PICK l, c, t : Laid(raw, l, c, t, White)
        BY <2>2, <4>1, Layouts
      <4>3. PutIs(q, n, l, c, t)
        BY <2>1, <4>2, RenamedProperties
      <4> QED
        BY <4>3 DEF PutIs
    <3> HIDE DEF q
    <3>2. ASSUME OfA(a) PROVE IsDomain(q \o e, public_host)
      <4>1. PICK host \in upstream_hosts : IsDomain(a, host)
        BY <3>2 DEF OfA
      <4> DEFINE c == Content(a, Blanks)
      <4>2. Trim(n, Blanks) = <<"domain">> /\ \E l, t : Within(raw \o e, l, c, t)
        <5> HIDE DEF a
        <5> QED
          BY <2>3, <4>1, DomainIsTaken
      <4>3. c = Trim(raw, Blanks) /\ c \in String /\ IsCore(c, White)
        <5>1. c = Trim(raw \o e, Blanks)
          BY <2>3, DomainOf
        <5>2. IsCore(c, White)
          <6> HIDE DEF c
          <6> QED
            BY <4>2 DEF Within, Laid
        <5> QED
          BY <2>4, <5>1, <5>2 DEF IsCore
      <4> HIDE DEF c
      <4>4. PICK l, t : Within(raw, l, c, t)
        BY <2>2, <4>3, TrimWider
      <4>5. PutIs(q, n, l, c, t)
        BY <2>1, <4>4, RenamedProperties DEF q, Within
      <4> DEFINE r == Put(l, c, t)
                 o == c[1] = "."
                 w == Dotted(o) \o <<public_host>>
      <4>6. r \in String /\ Attr(q, n, r) /\ r = l \o w \o t
        BY <4>5 DEF PutIs, Put
      <4>7. w \in {<<public_host>>, <<".", public_host>>} /\ IsCore(w, White)
        <5>1. o \in BOOLEAN
          OBVIOUS
        <5> HIDE DEF o
        <5> QED
          BY <5>1, NameOfB DEF IsHost
      <4> HIDE DEF r, w
      <4>8. Laid(r, l, w, t, Blanks)
        <5>1. AreBlanks(l, Blanks) /\ AreBlanks(t, Blanks)
          BY <4>4 DEF Within, Laid
        <5>2. IsCore(w, Blanks)
          BY <4>7, BlanksAreWhite DEF IsCore
        <5> QED
          BY <4>6, <5>1, <5>2 DEF Laid
      <4>9. Trim(r \o e, Blanks) = w
        <5>1. Trim(r, Blanks) = w
          BY <4>8, LaidProperties
        <5> QED
          BY <4>6, <5>1, TrimLonger
      <4>10. Attr(q \o e, n, r \o e)
        BY <1>1, <4>6, AttrLonger
      <4> QED
        BY <4>2, <4>7, <4>9, <4>10, DomainOf DEF IsDomain
    <3>3. Attribute(p) = q
      BY <2>6, <2>9 DEF q
    <3> QED
      BY <2>5, <2>9, <3>1, <3>2, <3>3 DEF ReadsAs
  <2> QED
    BY <2>8, <2>9
<1> QED
  BY <1>2, <1>3

\* What the property says of a cookie.
CookieReads(s, m) ==
  /\ Len(Split(s)) = Len(Split(m)) /\ Split(s)[1] = Split(m)[1]
  /\ \A i \in 2..Len(Split(s)) : ReadsAs(Split(s)[i], Split(m)[i])
Mapped(P) == [i \in 1..Len(P) |-> IF i = 1 THEN P[i] ELSE Attribute(P[i])]

\* Cookie() maps every part but the first.
LEMMA MappedProperties ==
  ASSUME NEW P, Parts(P)
  PROVE  /\ Parts(Mapped(P)) /\ Len(Mapped(P)) = Len(P)
         /\ \A i \in 1..Len(P) : Mapped(P)[i] = IF i = 1 THEN P[i] ELSE Attribute(P[i])
<1> DEFINE N == Len(P)
           Q == Mapped(P)
<1>1. P \in Seq(String) /\ N \in Nat \ {0} /\ \A i \in 1..N : Clean(P[i])
  BY DEF Parts
<1>2. AreBlanks(<<>>, Blanks)
  BY DEF AreBlanks, String
<1>3. \A i \in 1..N : Clean(Attribute(P[i]))
  BY <1>1, <1>2, AttributeProperties
<1>4. \A i \in 1..N : Q[i] = IF i = 1 THEN P[i] ELSE Attribute(P[i])
  BY DEF Mapped
<1>5. \A i \in 1..N : Clean(Q[i])
  BY <1>1, <1>3, <1>4
<1>6. Q \in [1..N -> String]
  <2>1. \A i \in 1..N : Q[i] \in String
    BY <1>5 DEF Clean
  <2>2. Q = [i \in 1..N |-> Q[i]]
    BY DEF Mapped
  <2> HIDE DEF Q
  <2> QED
    BY <2>1, <2>2
<1> HIDE DEF Q
<1>7. Q \in Seq(String) /\ Len(Q) = N
  BY <1>1, <1>6, FunctionIsSeq
<1>8. Parts(Q)
  BY <1>1, <1>5, <1>7 DEF Parts
<1> QED
  BY <1>4, <1>7, <1>8 DEF Q

\* The whole cookie between blanks: what a browser reads, part by part.
LEMMA CookieProperties ==
  ASSUME NEW l, AreBlanks(l, Blanks), NEW c \in String, NEW t, AreBlanks(t, Blanks)
  PROVE  /\ l \o Cookie(c) \o t \in String
         /\ CookieReads(l \o c \o t, l \o Cookie(c) \o t)
<1> DEFINE P == Split(c)
           M == Mapped(P)
           A == Wrap(P, l, t)
           B == Wrap(M, l, t)
<1>1. Parts(P) /\ Join(P) = c
  BY JoinOfSplit
<1>2. Cookie(c) = Join(M)
  BY DEF Cookie, Mapped
<1> HIDE DEF P
<1>3. /\ Parts(M) /\ Len(M) = Len(P)
      /\ \A i \in 1..Len(P) : M[i] = IF i = 1 THEN P[i] ELSE Attribute(P[i])
  BY <1>1, MappedProperties
<1> HIDE DEF M
<1>4. Clean(l) /\ Clean(t)
  BY BlanksAreWhite, BlanksAreClean
<1>5. Parts(A) /\ Len(A) = Len(P) /\ Join(A) = l \o c \o t
  BY <1>1, <1>4, WrapProperties
<1>6. Parts(B) /\ Len(B) = Len(M) /\ Join(B) = l \o Cookie(c) \o t
  <2>1. Parts(B) /\ Len(B) = Len(M) /\ Join(B) = l \o Join(M) \o t
    BY <1>3, <1>4, WrapProperties
  <2> QED
    BY <1>2, <2>1
<1>7. \A i \in 1..Len(P) : /\ A[i] = Ahead(l, i) \o P[i] \o Behind(P, t, i)
                           /\ B[i] = Ahead(l, i) \o M[i] \o Behind(P, t, i)
  BY <1>3 DEF Wrap, Behind
<1> HIDE DEF A, B
<1>8. Split(l \o c \o t) = A
  BY <1>5, SplitOfJoin
<1>9. Split(l \o Cookie(c) \o t) = B /\ l \o Cookie(c) \o t \in String
  <2>1. Split(Join(B)) = B /\ Join(B) \in String
    BY <1>6, SplitOfJoin
  <2> QED
    BY <1>6, <2>1
<1>10. Len(P) \in Nat \ {0} /\ \A i \in 1..Len(P) : Clean(P[i])
  BY <1>1 DEF Parts
<1>11. A[1] = B[1]
  <2>1. 1 \in 1..Len(P)
    BY <1>10
  <2> QED
    BY <1>3, <1>7, <2>1
<1>12. ASSUME NEW i \in 2..Len(A) PROVE ReadsAs(A[i], B[i])
  <2> DEFINE e == Behind(P, t, i)
             p == P[i]
  <2>1. i \in 1..Len(P) /\ i # 1
    BY <1>5, <1>10
  <2>2. AreBlanks(e, Blanks)
    <3>1. AreBlanks(<<>>, Blanks)
      BY DEF AreBlanks, String
    <3> QED
      BY <3>1 DEF Behind
  <2>3. Clean(p)
    BY <1>10, <2>1
  <2>4. A[i] = <<>> \o p \o e /\ B[i] = <<>> \o Attribute(p) \o e
    BY <1>3, <1>7, <2>1 DEF Ahead
  <2> HIDE DEF e, p
  <2>5. Clean(Attribute(p)) /\ ReadsAs(p \o e, Attribute(p) \o e)
    BY <2>2, <2>3, AttributeProperties
  <2>6. <<>> \o p = p /\ <<>> \o Attribute(p) = Attribute(p)
    BY <2>3, <2>5, NoConcat DEF Clean
  <2> QED
    BY <2>4, <2>5, <2>6
<1>13. Len(A) = Len(B)
  BY <1>3, <1>5, <1>6
<1> QED
  BY <1>8, <1>9, <1>11, <1>12, <1>13 DEF CookieReads

CookieValue(s, v) == \/ v = <<>> /\ AreBlanks(s, Blanks) /\ s # <<>>
                     \/ \E m \in String : v = <<m>> /\ CookieReads(s, m)

\* value() of a Set-Cookie that is text: rejected if it is all blanks, else mapped.
LEMMA CookieValues ==
  ASSUME NEW s \in String
  PROVE  CookieValue(s, value("set-cookie", s, TRUE))
<1> DEFINE name == "set-cookie"
           response == TRUE
           W == Blanks
<1>1. name \in Relevant(response) /\ name \notin {"host", ":authority"} /\ name = "set-cookie"
  BY DEF Relevant
<1> HIDE DEF name, response
<1>2. CASE AreBlanks(s, W) /\ s # <<>>
  <2>1. value(name, s, response) = <<>>
    BY <1>1, <1>2, BlankValue
  <2> QED
    BY <1>2, <2>1 DEF CookieValue, name, response
<1>3. CASE s = <<>>
  <2> DEFINE z == <<>>
             m == z \o Cookie(z) \o z
  <2>1. AreBlanks(z, W) /\ z \in String /\ Len(z) = 0
    BY DEF AreBlanks, String
  <2>2. m \in String /\ CookieReads(z \o z \o z, m)
    <3> HIDE DEF z
    <3> QED
      BY <2>1, CookieProperties
  <2>3. z \o z \o z = z
    BY <2>1, NoConcat
  <2>4. Leading(z, W) = 0 /\ TrimEnd(z, W) = 0 /\ Trim(z, W) = z
    <3> HIDE DEF W
    <3> QED
      BY <2>1, BlankProperties
  <2>5. value(name, z, response)
          = <<SubSeq(z, 1, Leading(z, W)) \o Cookie(Trim(z, W)) \o SubSeq(z, TrimEnd(z, W) + 1, Len(z))>>
    <3> HIDE DEF z
    <3>1. ~(TrimEnd(z, W) < Leading(z, W)) /\ ~(\E i \in DOMAIN z : z[i] \in NotUtf8)
      BY <2>1, <2>4, StringIsText
    <3> QED
      BY <1>1, <3>1 DEF value
  <2>6. SubSeq(z, 1, 0) = z /\ SubSeq(z, 0 + 1, Len(z)) = z
    BY <2>1
  <2> HIDE DEF z
  <2>7. value(name, z, response) = <<m>>
    BY <2>4, <2>5, <2>6
  <2>8. s = z
    BY <1>3 DEF z
  <2> HIDE DEF m
  <2>9. CookieReads(s, m) /\ value(name, s, response) = <<m>>
    BY <2>2, <2>3, <2>7, <2>8
  <2> QED
    BY <2>2, <2>9 DEF CookieValue, name, response
<1>4. CASE \E l, c, t : Laid(s, l, c, t, W)
  <2>1. PICK l, c, t : Laid(s, l, c, t, W)
    BY <1>4
  <2>2. IsValue(name, s, l, c, t, response)
    BY <1>1, <2>1, LaidValue, Zenon
  <2>3. AreBlanks(l, W) /\ AreBlanks(t, W) /\ c \in String /\ s = l \o c \o t
    BY <2>1 DEF Laid, IsCore
  <2> DEFINE m == l \o Cookie(c) \o t
  <2>4. value(name, s, response) = <<m>>
    BY <1>1, <2>2 DEF IsValue
  <2>5. m \in String /\ CookieReads(l \o c \o t, m)
    BY <2>3, CookieProperties
  <2> HIDE DEF m
  <2>6. CookieReads(s, m)
    BY <2>3, <2>5
  <2> QED
    BY <2>4, <2>5, <2>6 DEF CookieValue, name, response
<1> QED
  BY <1>2, <1>3, <1>4, Layouts

\* value() of a Location, from the empty one to any other.
LEMMA LocationValues ==
  ASSUME NEW s \in String
  PROVE  UrlValue(s, value("location", s, TRUE), TRUE)
<1> DEFINE name == "location"
           response == TRUE
<1>1. name \in Relevant(response) \ {"host", ":authority", "set-cookie"}
  BY DEF Relevant
<1> HIDE DEF name, response
<1>2. UrlValue(s, value(name, s, response), response)
  BY <1>1, UrlValues
<1> QED
  BY <1>2 DEF name, response

\* What is no UTF-8 is passed on only where nothing is mapped.
NotText(s) == \E i \in DOMAIN s : s[i] \in NotUtf8

\* What has none of them is text.
LEMMA TextOrNot ==
  ASSUME NEW s \in Seq(Characters), ~NotText(s)
  PROVE  s \in String
<1>1. Len(s) \in Nat /\ DOMAIN s = 1..Len(s) /\ \A i \in 1..Len(s) : s[i] \in Characters
  BY LenProperties, ElementOfSeq
<1>2. \A i \in 1..Len(s) : s[i] \in Utf8
  BY <1>1 DEF NotText, Utf8
<1>3. s = [i \in 1..Len(s) |-> s[i]]
  BY <1>1
<1>4. s \in [1..Len(s) -> Utf8]
  BY <1>2, <1>3
<1> QED
  BY <1>1, <1>4, FunctionIsSeq DEF String

\* What value() maps must be text: std::str::from_utf8() ends it otherwise.
LEMMA NotTextIsRejected ==
  ASSUME NEW s, NotText(s), NEW name \in Relevant(TRUE)
  PROVE  value(name, s, TRUE) = <<>>
BY DEF value, NotText

\* Whatever is passed on is text.
LEMMA ResponseIsText ==
  ASSUME NEW name, NEW s \in Seq(Characters)
  PROVE  Texted(value(name, s, TRUE))
<1>1. CASE name \notin Relevant(TRUE)
  BY <1>1 DEF value, Texted
<1>2. CASE name \in Relevant(TRUE) /\ NotText(s)
  BY <1>2, NotTextIsRejected DEF Texted
<1>3. CASE name = "set-cookie" /\ ~NotText(s)
  <2>1. CookieValue(s, value("set-cookie", s, TRUE))
    BY <1>3, TextOrNot, CookieValues
  <2>2. \A m \in String : m \in Seq(Characters)
    BY StringIsText
  <2> QED
    BY <1>3, <2>1, <2>2 DEF CookieValue, Texted
<1>4. CASE name = "location" /\ ~NotText(s)
  <2>1. UrlValue(s, value(name, s, TRUE), TRUE) /\ s \in String
    BY <1>4, TextOrNot, LocationValues
  <2> QED
    BY <2>1, UrlValueIsText
<1>5. name \in Relevant(TRUE) => name = "set-cookie" \/ name = "location"
  BY DEF Relevant
<1> QED
  BY <1>1, <1>3, <1>4, <1>5, <1>2

-----------------------------------------------------------------------------
Stages == {"respond", "rejected", "received", "elsewhere", "request", "home"}
Received(f) == IF Refused(f.value) THEN <<>> ELSE value(f.name, f.value, TRUE)
IsAsked(a, g) ==
  \E j \in SpellingsOfB, page \in Told(Page(Trim(g, Blanks))) : a = <<[authority |-> j, page |-> page]>>
IsHome(q, a) == q = [authority |-> <<upstream>>, referer |-> Referer(upstream, a.page)]

\* Until it goes out, nothing is read; then the client has what value() has, if
\* HTTP/2 takes it.  A request asks for the page of the Location that the client
\* has read, and arrives with the name of the origin.
JourneyInv ==
  /\ field \in Responses /\ form \in Forms /\ stage \in Stages
  /\ stage # "respond" => got = Received(field)
  /\ stage \notin {"respond", "received"} => stage = "rejected" \/ field.name = "location"
  /\ stage = "rejected" => got = <<>>
  /\ stage \notin {"respond", "rejected"} => got # <<>>
  /\ stage = "elsewhere" => ~PointsAt(got[1], public)
  /\ stage \in {"request", "home"} => PointsAt(got[1], public) /\ IsAsked(asked, got[1])
  /\ stage = "home" => IsHome(arrived[1], asked[1])

\* The origin's fields are octets of the lengths that fit, UTF-8 or not.
LEMMA FieldIsText ==
  ASSUME NEW f \in Responses
  PROVE  /\ f.value \in Seq(Characters) /\ Len(f.value) <= MaxLength
         /\ \A t \in DOMAIN Reads : Len(f.value) + Len(Reads[t].page) <= MaxLength
BY FieldAssumption

\* What has been received of a Location.
LEMMA LocationReceived ==
  ASSUME NEW f \in Responses, f.name = "location", Received(f) # <<>>
  PROVE  /\ f.value \in String /\ ~Refused(f.value) /\ UrlValue(f.value, Received(f), TRUE)
         /\ \E g : Received(f) = <<g>>
<1>1. ~Refused(f.value) /\ Received(f) = value("location", f.value, TRUE)
  BY DEF Received
<1>2. f.value \in Seq(Characters) /\ "location" \in Relevant(TRUE)
  BY FieldIsText DEF Relevant
<1>3. ~NotText(f.value)
  BY <1>1, <1>2, NotTextIsRejected
<1>4. f.value \in String
  BY <1>2, <1>3, TextOrNot
<1>5. UrlValue(f.value, Received(f), TRUE)
  BY <1>1, <1>4, LocationValues
<1> QED
  BY <1>1, <1>4, <1>5 DEF UrlValue

\* Of a field of the origin: where the Location led that leads to B now.
LEMMA LocationSent ==
  ASSUME NEW f \in Responses, f.name = "location", Received(f) # <<>>, PointsAt(Received(f)[1], public)
  PROVE  SentTo(f.value, Received(f)[1])
<1> DEFINE s == f.value
           v == Received(f)
           g == v[1]
<1>1. /\ s \in String /\ ~Refused(s) /\ UrlValue(s, v, TRUE)
      /\ \E m : v = <<m>>
  BY LocationReceived
<1>2. \A t \in DOMAIN Reads : Len(s) + Len(Reads[t].page) <= MaxLength
  BY FieldIsText
<1> HIDE DEF s, v
<1>3. v = <<g>>
  <2>1. PICK m : v = <<m>>
    BY <1>1
  <2>2. v[1] = m
    BY <2>1
  <2> QED
    BY <2>1, <2>2
<1>4. PointsAt(g, public)
  BY DEF v
<1> HIDE DEF g
<1>5. SentTo(s, g)
  BY <1>1, <1>2, <1>3, <1>4, PageIsSent
<1> QED
  BY <1>5 DEF s, g, v

\* The bridge passes the field on: the client has what value() has.
LEMMA Responds ==
  ASSUME JourneyInv, BridgeResponds
  PROVE  JourneyInv'
<1>1. /\ stage = "respond" /\ got' = Carried(field.name, field.value, TRUE)
      /\ stage' = IF got' = <<>> THEN "rejected" ELSE "received"
      /\ field' = field /\ form' = form
  BY DEF BridgeResponds
<1>2. field \in Responses /\ form \in Forms
  BY DEF JourneyInv
<1>3. got' = Received(field)
  <2>1. field.value \in Seq(Characters) /\ Len(field.value) <= MaxLength
    BY <1>2, FieldIsText
  <2>2. Texted(value(field.name, field.value, TRUE))
    BY <2>1, ResponseIsText
  <2> DEFINE name == field.name
             v == field.value
             response == TRUE
  <2> HIDE DEF name, v, response
  <2>3. Carried(name, v, response) = IF Refused(v) THEN <<>> ELSE value(name, v, response)
    BY <1>2, <2>1, <2>2, CarriedIsValue DEF name, v, response
  <2> QED
    BY <1>1, <2>3 DEF name, v, response, Received
<1>4. Received(field)' = Received(field)
  BY <1>1 DEF Received, Refused, Controlled
<1>5. CASE got' = <<>>
  <2>1. stage' = "rejected"
    BY <1>1, <1>5
  <2> QED
    BY <1>1, <1>2, <1>3, <1>5, <1>4, <2>1 DEF JourneyInv, Stages
<1>6. CASE got' # <<>>
  <2>1. stage' = "received"
    BY <1>1, <1>6
  <2> QED
    BY <1>1, <1>2, <1>3, <1>6, <1>4, <2>1 DEF JourneyInv, Stages
<1> QED
  BY <1>5, <1>6

\* The client follows a Location: it asks for the page that it was sent to.
LEMMA Follows ==
  ASSUME JourneyInv, ClientFollows
  PROVE  JourneyInv'
<1>1. /\ stage = "received" /\ field.name = "location"
      /\ field' = field /\ form' = form /\ got' = got
  BY DEF ClientFollows
<1>2. field \in Responses /\ form \in Forms /\ got = Received(field) /\ got # <<>>
  BY <1>1 DEF JourneyInv
<1>3. Received(field)' = Received(field)
  BY <1>1 DEF Received, Refused, Controlled
<1>4. PointsAt(got[1], public)' = PointsAt(got[1], public)
  BY <1>1 DEF PointsAt, IsUrl
<1>5. CASE PointsAt(got[1], public)
  <2>1. stage' = "request" /\ IsAsked(asked', got[1])
    BY <1>5 DEF ClientFollows, IsAsked
  <2>2. IsAsked(asked, got[1])' = IsAsked(asked', got[1])
    BY <1>1 DEF IsAsked, Page, SpellingsOfB, Told
  <2> QED
    BY <1>1, <1>2, <1>5, <1>3, <1>4, <2>1, <2>2 DEF JourneyInv, Stages
<1>6. CASE ~PointsAt(got[1], public)
  <2>1. stage' = "elsewhere"
    BY <1>6 DEF ClientFollows
  <2> QED
    BY <1>1, <1>2, <1>6, <1>3, <1>4, <2>1 DEF JourneyInv, Stages
<1> QED
  BY <1>5, <1>6

\* The bridge passes the request on: the origin reads its own name, and the page
\* that the client names.
LEMMA Requests ==
  ASSUME JourneyInv, BridgeRequests
  PROVE  JourneyInv'
<1> DEFINE name == IF form = "h1" THEN "host" ELSE ":authority"
           j == asked[1].authority
           page == asked[1].page
           host == Carried(name, <<j>>, FALSE)
           referer == Carried("referer", Referer(j, page), FALSE)
<1>1. /\ stage = "request" /\ field' = field /\ form' = form /\ got' = got /\ asked' = asked
      /\ IF host = <<>> \/ referer = <<>> THEN stage' = "refused" /\ UNCHANGED arrived
         ELSE /\ arrived' = <<[authority |-> host[1], referer |-> referer[1]]>>
              /\ stage' = "home"
  BY DEF BridgeRequests, Referer
<1>2. /\ field \in Responses /\ form \in Forms /\ got = Received(field) /\ got # <<>>
      /\ field.name = "location" /\ PointsAt(got[1], public) /\ IsAsked(asked, got[1])
  BY <1>1 DEF JourneyInv
<1>3. j \in SpellingsOfB /\ page \in Told(Page(Trim(got[1], Blanks)))
  <2>1. PICK a \in SpellingsOfB, q \in Told(Page(Trim(got[1], Blanks))) :
          asked = <<[authority |-> a, page |-> q]>>
    BY <1>2 DEF IsAsked
  <2>2. asked[1] = [authority |-> a, page |-> q]
    BY <2>1
  <2> QED
    BY <2>2
<1>4. IsPage(Page(Trim(got[1], Blanks)))
  BY <1>2, LocationSent DEF SentTo
<1> HIDE DEF j, page
<1>5. IsNamed(page)
  BY <1>3, <1>4, ToldIsPage
<1>6. 1 <= MaxLength
  BY <1>5, FieldAssumption DEF IsNamed, IsPage
<1>7. host = <<<<upstream>>>>
  <2>1. name \in {"host", ":authority"}
    OBVIOUS
  <2> HIDE DEF name
  <2> QED
    BY <1>2, <1>3, <1>6, <2>1, HostArrives
<1>8. referer = <<Referer(upstream, page)>>
  BY <1>2, <1>3, <1>5, RefererArrives
<1> DEFINE q == [authority |-> <<upstream>>, referer |-> Referer(upstream, page)]
<1>9. stage' = "home" /\ arrived' = <<q>>
  <2> HIDE DEF host, referer
  <2>1. host # <<>> /\ referer # <<>> /\ host[1] = <<upstream>> /\ referer[1] = Referer(upstream, page)
    BY <1>7, <1>8
  <2> QED
    BY <1>1, <2>1
<1>10. IsHome(arrived[1], asked[1])'
  <2>1. arrived'[1] = q
    BY <1>9
  <2> QED
    BY <1>1, <2>1 DEF IsHome, Referer, page
<1>11. Received(field)' = Received(field)
  BY <1>1 DEF Received, Refused, Controlled
<1>12. PointsAt(got[1], public)' = PointsAt(got[1], public)
  BY <1>1 DEF PointsAt, IsUrl
<1>13. IsAsked(asked, got[1])' = IsAsked(asked, got[1])
  BY <1>1 DEF IsAsked, Page, SpellingsOfB, Told
<1> QED
  BY <1>1, <1>2, <1>9, <1>10, <1>11, <1>12, <1>13 DEF JourneyInv, Stages

\* On its journey a field is what value() makes of it, whether it goes as a line or
\* as HPACK octets, and a request is for the page of the Location the client read:
\* the inductive invariant of BridgeResponds, ClientFollows and BridgeRequests.
THEOREM JourneyInvariant == FieldSpec => []JourneyInv
<1>1. FieldInit => JourneyInv
  BY DEF FieldInit, JourneyInv, Stages
<1>2. JourneyInv /\ [FieldNext]_field_vars => JourneyInv'
  <2> SUFFICES ASSUME JourneyInv, [FieldNext]_field_vars PROVE JourneyInv'
    OBVIOUS
  <2>1. CASE BridgeResponds
    BY <2>1, Responds
  <2>2. CASE ClientFollows
    BY <2>2, Follows
  <2>3. CASE BridgeRequests
    BY <2>3, Requests
  <2>4. CASE UNCHANGED field_vars
    <3>1. /\ field' = field /\ form' = form /\ got' = got /\ asked' = asked
          /\ arrived' = arrived /\ stage' = stage
      BY <2>4 DEF field_vars
    <3>2. PointsAt(got[1], public)' = PointsAt(got[1], public)
      BY <3>1 DEF PointsAt, IsUrl
    <3>3. IsAsked(asked, got[1])' = IsAsked(asked, got[1])
      BY <3>1 DEF IsAsked, Page, SpellingsOfB, Told
    <3>4. Received(field)' = Received(field)
      BY <3>1 DEF Received, Refused, Controlled
    <3>5. IsHome(arrived[1], asked[1])' = IsHome(arrived[1], asked[1])
      BY <3>1 DEF IsHome, Referer
    <3> QED
      BY <3>1, <3>2, <3>3, <3>4, <3>5 DEF JourneyInv
  <2> QED
    BY <2>1, <2>2, <2>3, <2>4 DEF FieldNext
<1> QED
  BY <1>1, <1>2, PTL DEF FieldSpec

\* Only a bad value is rejected.
LEMMA RejectedIsBad ==
  ASSUME JourneyInv, field.name \in {"location", "set-cookie"}, stage = "rejected"
  PROVE  Bad(field.value)
<1> DEFINE s == field.value
<1>1. Received(field) = <<>> /\ s \in Seq(Characters)
  BY FieldIsText DEF JourneyInv
<1>2. CASE Refused(s)
  BY <1>2 DEF Refused, Controlled, Bad
<1>3. CASE NotText(s)
  BY <1>3 DEF NotText, Bad
<1>4. CASE ~Refused(s) /\ ~NotText(s)
  <2>1. s \in String /\ value(field.name, s, TRUE) = <<>>
    BY <1>1, <1>4, TextOrNot DEF Received
  <2>2. AreBlanks(s, Blanks) /\ s # <<>>
    <3>1. CASE field.name = "location"
      <4>1. UrlValue(s, <<>>, TRUE)
        BY <2>1, <3>1, LocationValues
      <4> QED
        BY <4>1 DEF UrlValue
    <3>2. CASE field.name = "set-cookie"
      <4>1. CookieValue(s, <<>>)
        BY <2>1, <3>2, CookieValues
      <4> QED
        BY <4>1 DEF CookieValue
    <3> QED
      BY <3>1, <3>2
  <2>3. \A i \in DOMAIN s : s[i] = Blank
    <3>1. DOMAIN s = 1..Len(s)
      BY <2>1, LenProperties DEF String
    <3> QED
      BY <2>2, <3>1 DEF AreBlanks, Blanks
  <2> QED
    BY <2>2, <2>3 DEF Bad
<1> QED
  BY <1>2, <1>3, <1>4

\* A browser that goes elsewhere goes where the origin sent it.
LEMMA ElsewhereIsKept ==
  ASSUME JourneyInv, field.name = "location", stage = "elsewhere"
  PROVE  /\ got = <<field.value>> /\ ~PointsAt(field.value, public)
         /\ ~(PointsAt(field.value, upstream) /\ Usual(field.value))
<1> DEFINE s == field.value
<1>1. got = Received(field) /\ got # <<>> /\ ~PointsAt(got[1], public) /\ field \in Responses
  BY DEF JourneyInv
<1>2. s \in String /\ UrlValue(s, got, TRUE)
  BY <1>1, LocationReceived
<1>3. From(TRUE) = upstream /\ To(TRUE) = public
  BY DEF From, To
<1> HIDE DEF s
<1>4. ASSUME NEW m, got = <<m>>, Reflects(s, m, TRUE) PROVE FALSE
  <2>1. PICK l, t, x, k, r : /\ Leads(m, l, <<x, To(TRUE)>> \o r, t, x, To(TRUE), r)
                             /\ Known(x, k, TRUE)
    BY <1>4 DEF Reflects
  <2>2. x \in Secure /\ public \in DOMAIN Reads /\ Reads[public].site = Spelled[public]
    BY <2>1, MappingAssumption, FieldAssumption DEF Known
  <2>3. PageIn(m, public, r)
    BY <1>3, <2>1, <2>2, PageIsIn
  <2>4. PointsAt(m, public)
    BY <2>2, <2>3 DEF PageIn
  <2>5. got[1] = m
    BY <1>4
  <2> QED
    BY <1>1, <2>4, <2>5
<1>5. got = <<s>> /\ Strange(s, TRUE)
  BY <1>1, <1>2, <1>4 DEF UrlValue
<1>6. ~PointsAt(s, public)
  <2>1. got[1] = s
    BY <1>5
  <2> QED
    BY <1>1, <2>1
<1>7. ASSUME PointsAt(s, upstream), Usual(s) PROVE FALSE
  <2>1. IsUrl(Trim(s, Blanks)) /\ Reads[Trim(s, Blanks)[2]].site = Spelled[upstream]
    BY <1>7 DEF PointsAt
  <2>2. PICK l, c, t, r : Leads(s, l, c, t, c[1], c[2], r)
    BY <1>2, <2>1, PointsLeads
  <2>3. Trim(s, Blanks) = c
    BY <2>2, LaidProperties DEF Leads
  <2>4. c[1] \in Schemes /\ c[2] \in DOMAIN Spelled
    BY <1>7, <2>3 DEF Usual
  <2>5. Reads[c[2]].site = Spelled[c[2]]
    BY <2>4, FieldAssumption
  <2>6. Known(c[1], c[2], TRUE)
    BY <1>3, <2>1, <2>3, <2>4, <2>5 DEF Known
  <2> QED
    BY <1>5, <2>2, <2>6 DEF Strange
<1> QED
  BY <1>5, <1>6, <1>7 DEF s

\* One that asks B for it asks for the page that the origin gave.
LEMMA HomeIsKept ==
  ASSUME JourneyInv, field.name = "location", stage = "home"
  PROVE  /\ PointsAt(field.value, upstream) \/ PointsAt(field.value, public)
         /\ Reads[Trim(field.value, Blanks)[2]].page = <<>> => PageIsKept
<1> DEFINE s == field.value
           g == got[1]
           P == Page(Trim(g, Blanks))
<1>1. /\ got = Received(field) /\ got # <<>> /\ field \in Responses
      /\ PointsAt(g, public) /\ IsAsked(asked, g)
  BY DEF JourneyInv
<1>2. SentTo(s, g)
  BY <1>1, LocationSent
<1>3. asked[1].page \in Told(P)
  <2>1. PICK a \in SpellingsOfB, q \in Told(P) : asked = <<[authority |-> a, page |-> q]>>
    BY <1>1 DEF IsAsked
  <2>2. asked[1] = [authority |-> a, page |-> q]
    BY <2>1
  <2> QED
    BY <2>2
<1>4. IsPage(P)
  BY <1>2 DEF SentTo
<1> HIDE DEF P
<1>5. asked[1].page = SubSeq(P, 1, Len(asked[1].page))
  BY <1>3, <1>4, ToldIsPage
<1>6. Reads[Trim(s, Blanks)[2]].page = <<>> => P = Page(Trim(s, Blanks))
  BY <1>2 DEF SentTo, P
<1> QED
  BY <1>2, <1>5, <1>6 DEF SentTo, PageIsKept

\* The invariant answers for redirects.
LEMMA JourneyInvRedirects ==
  ASSUME JourneyInv
  PROVE  RedirectComesBack
<1> SUFFICES ASSUME field.name = "location" PROVE RedirectComesBack
  BY DEF RedirectComesBack
<1>1. stage = "rejected" => Bad(field.value)
  BY RejectedIsBad
<1>2. stage # "refused"
  BY DEF JourneyInv, Stages
<1>3. stage = "elsewhere" => /\ got = <<field.value>> /\ ~PointsAt(field.value, public)
                             /\ ~(PointsAt(field.value, upstream) /\ Usual(field.value))
  BY ElsewhereIsKept
<1>4. stage = "home" => /\ PointsAt(field.value, upstream) \/ PointsAt(field.value, public)
                        /\ Reads[Trim(field.value, Blanks)[2]].page = <<>> => PageIsKept
  BY HomeIsKept
<1>5. stage = "home" => /\ arrived[1].authority = <<upstream>>
                        /\ arrived[1].referer = <<"https://", upstream>> \o asked[1].page
  BY DEF JourneyInv, IsHome, Referer
<1> QED
  BY <1>1, <1>2, <1>3, <1>4, <1>5 DEF RedirectComesBack

\* Whatever a browser takes for a URL, if only it knows those that url::Url knows: a
\* Location that map_url() makes lead to B led to A or to B, its request is not
\* refused, and A reads its own name and the page named, which is its own but for a
\* backslash behind the host.  A Location that leads to A for the browser and not for
\* map_url() (a scheme in capitals, a user, a host in Unicode) arrives as it was sent.
\* Nothing is rejected but blanks, what is no UTF-8 and, in HTTP/2, controls.  As a
\* line or an HPACK string of any length, both ways: value(), rewrite().
THEOREM RedirectsComeBack == FieldSpec => []RedirectComesBack
BY JourneyInvariant, JourneyInvRedirects, PTL

\* The invariant answers for cookies.
LEMMA JourneyInvCookies ==
  ASSUME JourneyInv
  PROVE  CookieIsForBridge
<1> SUFFICES ASSUME field.name = "set-cookie" PROVE CookieIsForBridge
  BY DEF CookieIsForBridge
<1> DEFINE s == field.value
<1>1. stage = "rejected" => Bad(s)
  BY RejectedIsBad
<1>2. ASSUME stage = "received" PROVE CookieReads(s, got[1])
  <2>1. got = Received(field) /\ got # <<>> /\ s \in Seq(Characters)
    BY <1>2, FieldIsText DEF JourneyInv
  <2>2. got = value("set-cookie", s, TRUE) /\ "set-cookie" \in Relevant(TRUE)
    BY <2>1 DEF Received, Relevant
  <2>3. s \in String
    BY <2>1, <2>2, NotTextIsRejected, TextOrNot
  <2>4. PICK m \in String : got = <<m>> /\ CookieReads(s, m)
    BY <2>1, <2>2, <2>3, CookieValues DEF CookieValue
  <2>5. got[1] = m
    BY <2>4
  <2> QED
    BY <2>4, <2>5
<1> QED
  BY <1>1, <1>2 DEF CookieIsForBridge, CookieReads, ReadsAs, OfA

\* What a browser stores for A's host it stores for B's, and every other part of a
\* Set-Cookie arrives as it was sent, but for what only Attribute() takes for a Domain
\* of A: behind more than one dot, or amid white space that is not ASCII.  Nothing is
\* rejected but blanks, what is no UTF-8 and, in HTTP/2, controls.  Huffman coded or
\* not, at any length: value(), rewrite().
THEOREM CookiesAreForBridge == FieldSpec => []CookieIsForBridge
BY JourneyInvariant, JourneyInvCookies, PTL
=============================================================================
