------------------------------- MODULE Hpack -------------------------------
(***************************************************************************)
(* HeaderRewriter of src/src/hpack_wire.rs: one direction of an HTTP/2     *)
(* connection.  It reads HPACK instructions of one peer, translates the    *)
(* mapped values, and writes instructions for the other peer in the same   *)
(* representation.  A mapped value may be longer than the one it replaces, *)
(* so the dynamic table of the receiver evicts other entries than that of  *)
(* the sender, and an index of the one need not be an index of the other.  *)
(*                                                                         *)
(* A header is a name and a value; its octets, Huffman coded or not, are   *)
(* left out.  SizeOf is a header's HPACK size, its length and 32.          *)
(***************************************************************************)
EXTENDS Integers, Sequences

CONSTANTS
  Headers,   \* [name, value]: every header either side may hold
  Static,    \* the static table, a sequence of headers
  Offered,   \* headers that the sender may write
  Accepted,  \* headers that pass the checks and Mapping::value()
  MapOf,     \* Mapping::value(): the header sent in place of a header
  SizeOf,    \* by header
  InitialLimit, \* the initial size of a dynamic table (4096)
  Limits,    \* dynamic table sizes that the sender may ask for
  Advertised,\* the receiver's SETTINGS_HEADER_TABLE_SIZE, at most 65536
  MaxBlock,  \* limit of a block's decoded size (1 MiB)
  Response   \* this is the direction of responses

Names == {h.name : h \in Headers}
Values == {h.value : h \in Headers}
IsPseudo(n) == n \in {":authority", ":method", ":status"}

ASSUME HpackAssumption ==
  /\ Headers = [name : Names, value : Values]
  /\ Static \in Seq(Headers) /\ Offered \subseteq Headers
  /\ Accepted \subseteq Headers
  /\ MapOf \in [Headers -> Headers]
  /\ \A h \in Headers : MapOf[h].name = h.name
  /\ SizeOf \in [Headers -> Nat \ {0}]
  /\ InitialLimit \in Nat /\ Limits \subseteq Nat
  /\ Advertised \in Nat /\ MaxBlock \in Nat

VARIABLES
  inbound,   \* the decoder's dynamic table: what the sender believes
  outbound,  \* the Table that the rewriter keeps for the receiver
  receiver,  \* the dynamic table of a receiver that follows RFC 7541
  block,     \* of the block being rewritten: see NewBlock
  read,      \* the last field instruction read, and the header it stands for
  written,   \* the instruction written for it, and the header received
  ok         \* the connection is not rejected

vars == <<inbound, outbound, receiver, block, read, written, ok>>

NewBlock == [fields |-> FALSE, regular |-> FALSE, method |-> FALSE,
             authority |-> 0, total |-> 0]

-----------------------------------------------------------------------------
\* Dynamic tables.  Entry 1 is the newest.
NewTable == [entries |-> <<>>, size |-> 0, limit |-> InitialLimit]

\* Sizes of the first k entries of s.
Sizes(s) == LET f[k \in 0..Len(s)] == IF k = 0 THEN 0 ELSE f[k - 1] + SizeOf[s[k]]
            IN  f

\* evict(): pops the oldest entry, and its size, while size exceeds limit.
\* Kept(t, limit): how many entries are left.  Bug: it stops one octet early.
Left(t, k) == t.size - (Sizes(t.entries)[Len(t.entries)] - Sizes(t.entries)[k])
Fits(t, limit) ==
  {k \in 0..Len(t.entries) : /\ Left(t, k) <= limit
                             /\ \A j \in k + 1..Len(t.entries) : Left(t, j) > limit}
Kept(t, limit) ==
  IF Fits(t, limit) # {} THEN CHOOSE k \in Fits(t, limit) : TRUE ELSE 0
Evict_Late(t) ==
  [t EXCEPT !.entries = SubSeq(t.entries, 1, Kept(t, t.limit + 1)),
            !.size = Left(t, Kept(t, t.limit + 1))]
Evict(t) ==
  [t EXCEPT !.entries = SubSeq(t.entries, 1, Kept(t, t.limit)),
            !.size = Left(t, Kept(t, t.limit))]

Insert(t, h) == Evict([t EXCEPT !.entries = <<h>> \o t.entries,
                                !.size = t.size + SizeOf[h]])

Resize(t, n) == Evict([t EXCEPT !.limit = n])

\* Static entries come before dynamic ones; index 0 is none.
All(t) == Static \o t.entries
Named(n) == {h \in Headers : h.name = n}
First(t, S) == {i \in DOMAIN All(t) :
                  All(t)[i] \in S /\ \A j \in 1..(i - 1) : All(t)[j] \notin S}

\* find(): the preferred index if it still stands for a header of S, else the
\* first that does, else 0.  Bug: the preferred index is taken on trust.
Find_Trusting(t, preferred, S) == preferred
Find(t, preferred, S) ==
  IF preferred \in DOMAIN All(t) /\ All(t)[preferred] \in S THEN preferred
  ELSE IF First(t, S) # {} THEN CHOOSE i \in First(t, S) : TRUE ELSE 0

-----------------------------------------------------------------------------
(***************************************************************************)
(* Instructions.  "indexed" is a header of the table; a "literal" has a    *)
(* value, and a name of the table or, with index 0, of its own.  mode is   *)
(* "incremental" (insert), "plain" or "never" (indexed by nobody).         *)
(***************************************************************************)
Modes == {"incremental", "plain", "never"}
Indexed(i) == [kind |-> "indexed", index |-> i, name |-> "", value |-> "",
               mode |-> "plain"]
Literal(i, n, v, mode) ==
  [kind |-> "literal", index |-> i, name |-> IF i = 0 THEN n ELSE "",
   value |-> v, mode |-> mode]

NoHeader == [name |-> "", value |-> ""]
NoField == [instr |-> Indexed(0), header |-> NoHeader]

\* The reader of an instruction (the hpack crate, or the receiver) with the
\* table t: does it stand for a header, for which, and what of the table?
Stands(t, x) ==
  x.index \in DOMAIN All(t) \/ (x.kind = "literal" /\ x.index = 0)
Reading(t, x) ==
  IF ~Stands(t, x) THEN NoHeader
  ELSE IF x.kind = "indexed" THEN All(t)[x.index]
  ELSE [name  |-> IF x.index = 0 THEN x.name ELSE All(t)[x.index].name,
        value |-> x.value]
TableAfter(t, x) ==
  IF Stands(t, x) /\ x.mode = "incremental"
  THEN Insert(t, Reading(t, x)) ELSE t

\* What rewrite() writes for x, which stands for h, when m is sent instead.
\* Bug: a header that the receiver has evicted is inserted again.
Rewriting_Reinserts(x, h, m) ==
  IF x.kind = "indexed"
  THEN LET target == Find(outbound, x.index, {m})
       IN  IF target # 0 THEN Indexed(target)
           ELSE Literal(Find(outbound, 0, Named(h.name)), h.name, m.value,
                        "incremental")
  ELSE LET target == IF x.index = 0 THEN 0
                     ELSE Find(outbound, x.index, Named(h.name))
       IN  Literal(target, h.name, m.value, x.mode)
Rewriting(x, h, m) ==
  IF x.kind = "indexed"
  THEN LET target == Find(outbound, x.index, {m})
       IN  IF target # 0 THEN Indexed(target)
           ELSE Literal(Find(outbound, 0, Named(h.name)), h.name, m.value, "plain")
  ELSE LET target == IF x.index = 0 THEN 0
                     ELSE Find(outbound, x.index, Named(h.name))
       IN  Literal(target, h.name, m.value, x.mode)

-----------------------------------------------------------------------------
Init ==
  /\ inbound = NewTable /\ outbound = NewTable /\ receiver = NewTable
  /\ block = NewBlock /\ read = NoField /\ written = NoField /\ ok = TRUE

\* ensure! fails: rewrite(), and with it the connection, so that nothing is
\* read from the tables or written again.
Reject ==
  /\ ok' = FALSE
  /\ UNCHANGED <<inbound, outbound, receiver, block, read, written>>

\* A dynamic table size update, which is passed on as it is.  Bug: the
\* rewriter's own table does not shrink.
Update_Passes(n) ==
  /\ ok /\ ~block.fields /\ n <= Advertised
  /\ inbound' = Resize(inbound, n) /\ receiver' = Resize(receiver, n)
  /\ UNCHANGED <<outbound, block, read, written, ok>>
Update(n) ==
  /\ ok /\ ~block.fields /\ n <= Advertised
  /\ inbound' = Resize(inbound, n)
  /\ outbound' = Resize(outbound, n)
  /\ receiver' = Resize(receiver, n)
  /\ UNCHANGED <<block, read, written, ok>>

UpdateRejected(n) ==
  /\ ok /\ (block.fields \/ n > Advertised)
  /\ Reject

Larger(a, b) == IF a > b THEN a ELSE b

\* block after the field h, sent as m.
Noted(h, m) ==
  [fields    |-> TRUE,
   regular   |-> block.regular \/ ~IsPseudo(h.name),
   method    |-> block.method \/ h.name = ":method",
   authority |-> block.authority + (IF h.name = ":authority" THEN 1 ELSE 0),
   total     |-> block.total + Larger(SizeOf[h], SizeOf[m])]

\* Bug: the decoded size is counted but never limited.
FieldOk_Unlimited(h, m) ==
  h \in Accepted /\ (IsPseudo(h.name) => ~block.regular)
FieldOk(h, m) ==
  /\ h \in Accepted /\ (IsPseudo(h.name) => ~block.regular)
  /\ Noted(h, m).total <= MaxBlock

\* A field: decoded, mapped, written, and inserted if the sender said so.
\* Bug: the header is inserted as it was read.
Field_InsertsRead(x) ==
  /\ ok /\ Stands(inbound, x)
  /\ LET h == Reading(inbound, x)
         m == MapOf[h]
         y == Rewriting(x, h, m)
     IN  /\ FieldOk(h, m)
         /\ block' = Noted(h, m)
         /\ outbound' = IF x.mode = "incremental" THEN Insert(outbound, h)
                                                  ELSE outbound
         /\ read' = [instr |-> x, header |-> h]
         /\ receiver' = TableAfter(receiver, y)
         /\ written' = [instr |-> y, header |-> Reading(receiver, y)]
  /\ inbound' = TableAfter(inbound, x)
  /\ UNCHANGED ok
Field(x) ==
  /\ ok /\ Stands(inbound, x)
  /\ LET h == Reading(inbound, x)
         m == MapOf[h]
         y == Rewriting(x, h, m)
     IN  /\ FieldOk(h, m)
         /\ block' = Noted(h, m)
         /\ outbound' = IF x.mode = "incremental" THEN Insert(outbound, m)
                                                  ELSE outbound
         /\ read' = [instr |-> x, header |-> h]
         /\ receiver' = TableAfter(receiver, y)
         /\ written' = [instr |-> y, header |-> Reading(receiver, y)]
  /\ inbound' = TableAfter(inbound, x)
  /\ UNCHANGED ok

FieldRejected(x) ==
  /\ ok
  /\ Stands(inbound, x) =>
       LET h == Reading(inbound, x) IN ~FieldOk(h, MapOf[h])
  /\ Reject

\* The block ends: a request has exactly one :authority, trailers need none.
BlockOk == ~Response /\ block.method => block.authority = 1

EndBlock ==
  /\ ok /\ BlockOk
  /\ block' = NewBlock
  /\ UNCHANGED <<inbound, outbound, receiver, read, written, ok>>

BlockRejected == ok /\ ~BlockOk /\ Reject

Rejected == ~ok /\ UNCHANGED vars

\* The instructions a sender may write, with a valid or a dangling index.
Indices == 0..Len(All(inbound)) + 1
Instructions ==
  {Indexed(i) : i \in Indices} \cup
  {Literal(i, h.name, h.value, mode) : i \in Indices, h \in Offered, mode \in Modes}

Next ==
  \/ \E n \in Limits : Update(n) \/ UpdateRejected(n)
  \/ \E x \in Instructions : Field(x) \/ FieldRejected(x)
  \/ EndBlock \/ BlockRejected \/ Rejected

Spec == Init /\ [][Next]_vars

-----------------------------------------------------------------------------
Tables == [entries : Seq(Headers), size : Nat, limit : Nat]
Fields == [instr : [kind : {"indexed", "literal"}, index : Nat,
                    name : Names \cup {""}, value : Values \cup {""}, mode : Modes],
           header : Headers \cup {NoHeader}]
TypeOK ==
  /\ inbound \in Tables /\ outbound \in Tables /\ receiver \in Tables
  /\ block \in [fields : BOOLEAN, regular : BOOLEAN, method : BOOLEAN,
                authority : Nat, total : 0..MaxBlock]
  /\ read \in Fields /\ written \in Fields /\ ok \in BOOLEAN

\* The rewriter always knows the receiver's dynamic table, though mapped
\* values make it evict other entries than the sender's.
TablesAgree == outbound = receiver

\* A table's size is that of its entries, and never above its limit: evict()
\* never pops an empty table, and a receiver never sees an illegal one.
SizesAreTrue ==
  \A t \in {inbound, outbound} :
    t.size = Sizes(t.entries)[Len(t.entries)] /\ t.size <= t.limit

\* The receiver reads each header as mapped, whichever index it came by.
HeadersMapped ==
  read # NoField => written.header = MapOf[read.header]

\* A representation survives: what may never be indexed stays so, and the
\* receiver is asked to index nothing that the sender did not ask for.
RepresentationKept ==
  /\ written.instr.mode = read.instr.mode
  /\ read.instr.kind = "literal" => written.instr.kind = "literal"
=============================================================================
