------------------------------ MODULE H2Frames ------------------------------
(***************************************************************************)
(* Frames of src/src/h2.rs and reframe().  A frame is its kind, its stream *)
(* and the lengths that limits are about: over, the octets of a HEADERS    *)
(* frame's padding and priority, and len, the rest of the payload.         *)
(***************************************************************************)
EXTENDS Integers, Sequences

CONSTANTS
  Streams,    \* stream identifiers, 0 (the connection) not among them
  MinFrame,   \* the least SETTINGS_MAX_FRAME_SIZE (16384)
  TopFrame,   \* the greatest (2^24 - 1)
  MAX_BLOCK,  \* limit of a frame and of a header block (1 MiB)
  MaxOver     \* padding and priority of a HEADERS frame (at most 261)

ASSUME FramesAssumption ==
  /\ Streams \subseteq Nat \ {0}
  /\ MinFrame \in Nat /\ TopFrame \in Nat /\ MAX_BLOCK \in Nat /\ MaxOver \in Nat
  /\ MaxOver < MinFrame /\ MinFrame <= TopFrame

Kinds == {"preface", "settings", "ack", "headers", "continuation", "push", "other"}

\* table and frame are what SETTINGS ask for, and table is also the dynamic
\* table size update of a header block, 0 if it has none.  size is no octet of
\* a frame: it remembers, in HEADERS, the length of the whole encoded block.
Frames == [kind : Kinds, stream : Streams \cup {0}, over : 0..MaxOver, len : Nat,
           end : BOOLEAN, table : Nat, frame : Nat, size : Nat]
Frame(kind, stream) ==
  [kind |-> kind, stream |-> stream, over |-> 0, len |-> 0, end |-> FALSE,
   table |-> 0, frame |-> 0, size |-> 0]

Preface == Frame("preface", 0)
Ack == Frame("ack", 0)
\* A SETTINGS frame that leaves a setting out is one that repeats its value.
Settings(table, frame) ==
  [Frame("settings", 0) EXCEPT !.table = table, !.frame = frame]
Headers(stream, over, len, end, table) ==
  [Frame("headers", stream) EXCEPT !.over = over, !.len = len, !.end = end,
                                   !.table = table]
Continuation(stream, len, end) ==
  [Frame("continuation", stream) EXCEPT !.len = len, !.end = end]
Other(stream, len) == [Frame("other", stream) EXCEPT !.len = len]

Payload(f) == f.over + f.len
IsBlock(f) == f.kind \in {"headers", "continuation"}

\* settings(): the frame size is in range; and header_parts().
SettingsOk(f) == f.frame \in MinFrame..TopFrame
HeadersOk(f) == f.stream # 0

Lesser(a, b) == IF a < b THEN a ELSE b

\* The length of the first i fragments of a block.
Length(block) ==
  LET sum[i \in 0..Len(block)] == IF i = 0 THEN 0 ELSE sum[i - 1] + block[i].len
  IN  sum[Len(block)]

-----------------------------------------------------------------------------
(***************************************************************************)
(* reframe(block, encoded, max), for n octets of encoded: every fragment   *)
(* keeps its length while octets last, the last one takes what is left up  *)
(* to max, and CONTINUATION frames the remainder.                          *)
(***************************************************************************)
Fits(block, max) == \A i \in DOMAIN block : Payload(block[i]) <= max

\* The octets written after each fragment.  Bug: the last one forgets that
\* padding and priority count.
Written_NoOverhead(block, n, max) ==
  LET pos[i \in 0..Len(block)] ==
        IF i = 0 THEN 0
        ELSE Lesser(n, pos[i - 1] + IF i = Len(block) THEN max ELSE block[i].len)
  IN  pos
Written(block, n, max) ==
  LET pos[i \in 0..Len(block)] ==
        IF i = 0 THEN 0
        ELSE Lesser(n, pos[i - 1] + IF i = Len(block) THEN max - block[i].over
                                                      ELSE block[i].len)
  IN  pos

\* Only the last frame ends the block.  Bug: the original's flag stays.
Kept_KeepsEnd(block, pos) ==
  [i \in DOMAIN block |-> [block[i] EXCEPT !.len = pos[i] - pos[i - 1]]]
Kept(block, pos) ==
  [i \in DOMAIN block |-> [block[i] EXCEPT !.len = pos[i] - pos[i - 1], !.end = FALSE]]

Added(stream, rest, max) ==
  [i \in 1..((rest + max - 1) \div max) |->
     Continuation(stream, Lesser(max, rest - (i - 1) * max), FALSE)]

Reframe(block, n, max) ==
  LET pos == Written(block, n, max)
      all == Kept(block, pos) \o Added(block[1].stream, n - pos[Len(block)], max)
  IN  [all EXCEPT ![1].size = n, ![Len(all)].end = TRUE]
=============================================================================
