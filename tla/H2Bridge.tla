------------------------------ MODULE H2Bridge ------------------------------
(***************************************************************************)
(* bridge() of src/src/h2.rs: two directions, polled in one task, between  *)
(* the client and the upstream A.  Each reads a frame, writes it on, and   *)
(* gathers, rewrites and reframes header blocks.  What a peer announces in *)
(* SETTINGS is read by the direction from it and binds the direction to    *)
(* it, through PeerLimits.  A direction is named after its sender.         *)
(*                                                                         *)
(* The peers follow RFC 9113 but for Faults, and stop or vanish anywhere.  *)
(* HPACK is that of Hpack: here a block's length changes by some Growth.   *)
(***************************************************************************)
EXTENDS H2Frames, FiniteSets

CONSTANTS
  MaxFrames,  \* limit of frames in a block (1024)
  TableCap,   \* limit of a dynamic table (65536)
  FirstTable, \* a dynamic table's size before SETTINGS (4096)
  Growth,     \* changes of a block's length
  Overs, Lens, Tables, FrameSizes,  \* what peers choose from
  Faults,     \* frames that a peer should not send
  Does,       \* by peer: which of "settings", "other", "headers", "close" it does
  Budget,     \* bound, by peer: the frames it sends, acknowledgements not counted
  WireCap     \* bound: frames in flight in one wire

Peers == {"client", "upstream"}
Peer(e) == IF e = "client" THEN "upstream" ELSE "client"

ASSUME BridgeAssumption ==
  /\ MaxFrames \in Nat /\ TableCap \in Nat /\ FirstTable \in Nat
  /\ Growth \subseteq Int /\ Overs \subseteq 0..MaxOver /\ Lens \subseteq Nat
  /\ Tables \subseteq Nat /\ FrameSizes \subseteq MinFrame..TopFrame
  /\ Faults \subseteq Frames
  /\ Does \in [Peers -> SUBSET {"settings", "other", "headers", "close"}]
  /\ Budget \in [Peers -> Nat] /\ WireCap \in Nat \ {0}

\* A fault is in a frame's kind, place or size, never in the announcements that
\* the peers count: it is no acknowledgement, nor SETTINGS that the bridge passes.
\* Only a HEADERS frame has a table size update.
ASSUME FaultsAssumption ==
  \A f \in Faults : /\ f.kind # "ack" /\ (f.kind = "settings" => ~SettingsOk(f))
                    /\ f.kind = "continuation" => f.table = 0

VARIABLES
  limits, \* PeerLimits that bind a direction, by direction
  pc,     \* "preface", "read", "block" (HEADERS without END_HEADERS), "write", "done"
  got,    \* the frames of the block being read, by direction
  out,    \* frames to write, by direction
  up,     \* the wire from a direction's sender to the bridge
  down,   \* the wire from the bridge to its receiver
  res,    \* of bridge(): "run", "ok", "error", or "limit", an error of PeerLimits
  sent,   \* by peer: the limits it announced, oldest first
  acked,  \* by peer: which of them was acknowledged last
  peer    \* by peer: see Start

bridgeVars == <<limits, pc, got, out, res>>
wireVars == <<up, down>>
peerVars == <<sent, acked, peer>>
vars == <<bridgeVars, wireVars, peerVars>>

Defaults == [table |-> FirstTable, frame |-> MinFrame]

\* left: frames it may send; block: the stream of the block it is sending, or 0;
\* eof: its writing half is "open", "clean"ly closed, or "torn" with all of it;
\* applied: which of the other's limits it observes; owed: SETTINGS it must
\* acknowledge.
Start(e) == [left |-> Budget[e], block |-> 0, eof |-> "open", applied |-> 1, owed |-> 0]

Init ==
  /\ limits = [d \in Peers |-> Defaults]
  /\ pc = [d \in Peers |-> IF d = "client" THEN "preface" ELSE "read"]
  /\ got = [d \in Peers |-> <<>>] /\ out = [d \in Peers |-> <<>>]
  /\ \E first \in {Preface, Other(0, 0)} :
       up = [d \in Peers |-> IF d = "client" THEN <<first>> ELSE <<>>]
  /\ down = [d \in Peers |-> <<>>]
  /\ res = "run"
  /\ sent = [e \in Peers |-> <<Defaults>>] /\ acked = [e \in Peers |-> 1]
  /\ peer = [e \in Peers |-> Start(e)]

-----------------------------------------------------------------------------
(***************************************************************************)
(* The peers.                                                              *)
(***************************************************************************)
Observed(e) == sent[Peer(e)][peer[e].applied]

Send(e, f, left, block) ==
  /\ res = "run" /\ peer[e].eof = "open" /\ Len(up[e]) < WireCap
  /\ peer[e].left > 0
  /\ up' = [up EXCEPT ![e] = Append(@, f)]
  /\ peer' = [peer EXCEPT ![e].left = left, ![e].block = block]
  /\ UNCHANGED <<bridgeVars, down, acked>>

Fewer(e) == peer[e].left - 1

SendSettings(e, table, frame) ==
  /\ "settings" \in Does[e] /\ peer[e].block = 0
  /\ Send(e, Settings(table, frame), Fewer(e), 0)
  /\ sent' = [sent EXCEPT ![e] = Append(@, [table |-> table, frame |-> frame])]

SendOther(e, stream, len) ==
  /\ "other" \in Does[e] /\ peer[e].block = 0 /\ len <= Observed(e).frame
  /\ Send(e, Other(stream, len), Fewer(e), 0)
  /\ UNCHANGED sent

SendHeaders(e, stream, over, len, end, table) ==
  /\ "headers" \in Does[e] /\ peer[e].block = 0
  /\ over + len <= Observed(e).frame /\ table <= Observed(e).table
  /\ Send(e, Headers(stream, over, len, end, table), Fewer(e), IF end THEN 0 ELSE stream)
  /\ UNCHANGED sent

SendContinuation(e, len, end) ==
  /\ peer[e].block # 0 /\ len <= Observed(e).frame
  /\ Send(e, Continuation(peer[e].block, len, end), Fewer(e),
          IF end THEN 0 ELSE peer[e].block)
  /\ UNCHANGED sent

\* A frame it should not send now, and its last.
SendFault(e, f) ==
  /\ Send(e, f, 0, peer[e].block)
  /\ UNCHANGED sent

\* SETTINGS are applied and acknowledged in one step.
SendAck(e) ==
  /\ res = "run" /\ peer[e].eof = "open" /\ peer[e].block = 0
  /\ peer[e].owed > 0 /\ Len(up[e]) < WireCap
  /\ up' = [up EXCEPT ![e] = Append(@, Ack)]
  /\ peer' = [peer EXCEPT ![e].applied = @ + 1, ![e].owed = @ - 1]
  /\ UNCHANGED <<bridgeVars, down, sent, acked>>

Receive(e) ==
  LET d == Peer(e)
      f == Head(down[d])
  IN  /\ peer[e].eof # "torn" /\ down[d] # <<>>
      /\ down' = [down EXCEPT ![d] = Tail(@)]
      /\ peer' = [peer EXCEPT ![e].owed = IF f.kind = "settings" THEN @ + 1 ELSE @]
      /\ acked' = [acked EXCEPT ![e] = IF f.kind = "ack" THEN @ + 1 ELSE @]
      /\ UNCHANGED <<bridgeVars, up, sent>>

Close(e) ==
  /\ "close" \in Does[e] /\ res = "run" /\ peer[e].eof = "open"
  /\ \E eof \in {"clean", "torn"} : peer' = [peer EXCEPT ![e].eof = eof]
  /\ UNCHANGED <<bridgeVars, wireVars, sent, acked>>

-----------------------------------------------------------------------------
(***************************************************************************)
(* direction().                                                            *)
(***************************************************************************)
Fail(why) ==
  /\ res' = why
  /\ UNCHANGED <<limits, pc, got, out, wireVars, peerVars>>

Read(d, at) == res = "run" /\ pc[d] = at /\ up[d] # <<>>

\* Frame::read() took f and s is to be written.
Forward(d, s) ==
  /\ up' = [up EXCEPT ![d] = Tail(@)]
  /\ out' = [out EXCEPT ![d] = s]
  /\ pc' = [pc EXCEPT ![d] = "write"]
  /\ UNCHANGED <<res, down, peerVars>>

ReadPreface(d) ==
  /\ Read(d, "preface")
  /\ IF Head(up[d]).kind = "preface"
     THEN Forward(d, <<Preface>>) /\ UNCHANGED <<limits, got>>
     ELSE Fail("error")

\* Kinds that go on as they are: all but HEADERS, PUSH_PROMISE and CONTINUATION.
\* The limits are stored, then the SETTINGS written.  Bugs: the limits bind the
\* wrong direction; the range of a frame size is not checked.
ReadControl_Own(d) ==
  /\ Read(d, "read") /\ Head(up[d]).kind \in {"settings", "ack", "other"}
  /\ LET f == Head(up[d])
     IN  IF f.len > MAX_BLOCK \/ (f.kind = "settings" /\ ~SettingsOk(f))
         THEN Fail("error")
         ELSE /\ limits' = IF f.kind # "settings" THEN limits
                           ELSE [limits EXCEPT ![d] = [table |-> f.table, frame |-> f.frame]]
              /\ Forward(d, <<f>>)
              /\ UNCHANGED got
ReadControl_AnySize(d) ==
  /\ Read(d, "read") /\ Head(up[d]).kind \in {"settings", "ack", "other"}
  /\ LET f == Head(up[d])
     IN  IF f.len > MAX_BLOCK
         THEN Fail("error")
         ELSE /\ limits' = IF f.kind # "settings" THEN limits
                           ELSE [limits EXCEPT ![Peer(d)] = [table |-> f.table, frame |-> f.frame]]
              /\ Forward(d, <<f>>)
              /\ UNCHANGED got
ReadControl(d) ==
  /\ Read(d, "read") /\ Head(up[d]).kind \in {"settings", "ack", "other"}
  /\ LET f == Head(up[d])
     IN  IF f.len > MAX_BLOCK \/ (f.kind = "settings" /\ ~SettingsOk(f))
         THEN Fail("error")
         ELSE /\ limits' = IF f.kind # "settings" THEN limits
                           ELSE [limits EXCEPT ![Peer(d)] = [table |-> f.table, frame |-> f.frame]]
              /\ Forward(d, <<f>>)
              /\ UNCHANGED got

ReadUnsupported(d) ==
  /\ Read(d, "read") /\ Head(up[d]).kind \in {"preface", "push", "continuation"}
  /\ Fail("error")

\* The block ends with the last of block: rewrite_block() for the table limit,
\* then reframe() for the frame limit.  The header fields may be rejected too.
Encoded(block) ==
  IF Length(block) = 0 THEN {0} ELSE {Length(block) + g : g \in Growth} \cap Nat

BlockRead(d, block) ==
  \/ /\ block[1].table > limits[d].table
     /\ Fail("limit")
  \/ /\ block[1].table <= limits[d].table
     /\ ~Fits(block, limits[d].frame)
     /\ Fail("limit")
  \/ Fail("error")
  \/ \E n \in Encoded(block) :
       /\ n <= MAX_BLOCK /\ block[1].table <= TableCap
       /\ block[1].table <= limits[d].table /\ Fits(block, limits[d].frame)
       /\ Forward(d, Reframe(block, n, limits[d].frame))
       /\ got' = [got EXCEPT ![d] = <<>>]
       /\ UNCHANGED limits

More(d, block) ==
  /\ up' = [up EXCEPT ![d] = Tail(@)]
  /\ got' = [got EXCEPT ![d] = block]
  /\ pc' = [pc EXCEPT ![d] = "block"]
  /\ UNCHANGED <<limits, out, res, down, peerVars>>

\* Bug: END_HEADERS is looked for in CONTINUATION frames only.
ReadHeaders_Waits(d) ==
  /\ Read(d, "read") /\ Head(up[d]).kind = "headers"
  /\ LET f == Head(up[d])
     IN  IF ~HeadersOk(f) \/ Payload(f) > MAX_BLOCK THEN Fail("error") ELSE More(d, <<f>>)
ReadHeaders(d) ==
  /\ Read(d, "read") /\ Head(up[d]).kind = "headers"
  /\ LET f == Head(up[d])
     IN  IF ~HeadersOk(f) \/ Payload(f) > MAX_BLOCK THEN Fail("error")
         ELSE IF f.end THEN BlockRead(d, <<f>>)
         ELSE More(d, <<f>>)

\* Bug: other frames pass while a block is gathered.
ReadContinuation_Interleaves(d) ==
  /\ Read(d, "block")
  /\ LET f == Head(up[d])
         block == Append(got[d], f)
     IN  IF f.kind \in {"other", "ack"} /\ Len(down[d]) < WireCap
         THEN /\ up' = [up EXCEPT ![d] = Tail(@)]
              /\ down' = [down EXCEPT ![d] = Append(@, f)]
              /\ UNCHANGED <<bridgeVars, peerVars>>
         ELSE IF \/ f.kind # "continuation" \/ f.stream # got[d][1].stream
                 \/ Length(block) > MAX_BLOCK \/ Len(block) > MaxFrames
         THEN Fail("error")
         ELSE IF f.end THEN BlockRead(d, block)
         ELSE More(d, block)
ReadContinuation(d) ==
  /\ Read(d, "block")
  /\ LET f == Head(up[d])
         block == Append(got[d], f)
     IN  IF \/ f.kind # "continuation" \/ f.stream # got[d][1].stream
            \/ Length(block) > MAX_BLOCK \/ Len(block) > MaxFrames
         THEN Fail("error")
         ELSE IF f.end THEN BlockRead(d, block)
         ELSE More(d, block)

\* One write_all(); after the last, flush().
Write(d) ==
  /\ res = "run" /\ pc[d] = "write" /\ Len(down[d]) < WireCap
  /\ down' = [down EXCEPT ![d] = Append(@, Head(out[d]))]
  /\ out' = [out EXCEPT ![d] = Tail(@)]
  /\ pc' = [pc EXCEPT ![d] = IF Len(out[d]) = 1 THEN "read" ELSE @]
  /\ UNCHANGED <<limits, got, res, up, peerVars>>

\* write_all() or shutdown() fails once the receiver is gone.
WriteFails(d) ==
  /\ res = "run" /\ peer[Peer(d)].eof = "torn"
  /\ \/ pc[d] = "write"
     \/ pc[d] = "read" /\ up[d] = <<>> /\ peer[d].eof = "clean"
  /\ Fail("error")

\* The end of the sender's stream: between frames, shutdown(), and the end of
\* responses ends the bridge; elsewhere, an error.  Bug: the bridge joins both.
EndOfStream_Joins(d) ==
  /\ res = "run" /\ up[d] = <<>> /\ peer[d].eof = "clean"
  /\ pc[d] \in {"preface", "read", "block"}
  /\ IF pc[d] # "read" THEN Fail("error")
     ELSE /\ pc' = [pc EXCEPT ![d] = "done"]
          /\ res' = IF pc[Peer(d)] = "done" THEN "ok" ELSE "run"
          /\ UNCHANGED <<limits, got, out, wireVars, peerVars>>
EndOfStream(d) ==
  /\ res = "run" /\ up[d] = <<>> /\ peer[d].eof = "clean"
  /\ pc[d] \in {"preface", "read", "block"}
  /\ IF pc[d] # "read" THEN Fail("error")
     ELSE /\ pc' = [pc EXCEPT ![d] = "done"]
          /\ res' = IF d = "upstream" THEN "ok" ELSE "run"
          /\ UNCHANGED <<limits, got, out, wireVars, peerVars>>

\* A stream torn within a frame, or reset.
Torn(d) ==
  /\ res = "run" /\ peer[d].eof = "torn" /\ pc[d] \in {"preface", "read", "block"}
  /\ Fail("error")

Direction(d) ==
  \/ ReadPreface(d) \/ ReadControl(d) \/ ReadUnsupported(d)
  \/ ReadHeaders(d) \/ ReadContinuation(d)
  \/ Write(d) \/ WriteFails(d) \/ EndOfStream(d) \/ Torn(d)

PeerStep(e) ==
  \/ \E table \in Tables, frame \in FrameSizes : SendSettings(e, table, frame)
  \/ \E stream \in Streams, len \in Lens : SendOther(e, stream, len)
  \/ \E stream \in Streams, over \in Overs, len \in Lens, end \in BOOLEAN,
        table \in Tables \cup {0} : SendHeaders(e, stream, over, len, end, table)
  \/ \E len \in Lens, end \in BOOLEAN : SendContinuation(e, len, end)
  \/ \E f \in Faults : SendFault(e, f)
  \/ SendAck(e) \/ Close(e)

Ended == res # "run" /\ UNCHANGED vars

Next == \/ \E d \in Peers : Direction(d) \/ PeerStep(d) \/ Receive(d)
        \/ Ended

Spec == Init /\ [][Next]_vars

\* Both futures are polled whenever they are ready, and peers read.
Fairness == \A d \in Peers : WF_vars(Direction(d)) /\ WF_vars(Receive(d))
FairSpec == Spec /\ Fairness

-----------------------------------------------------------------------------
Limits == [table : Nat, frame : MinFrame..TopFrame]
TypeOK ==
  /\ limits \in [Peers -> Limits]
  /\ pc \in [Peers -> {"preface", "read", "block", "write", "done"}]
  /\ got \in [Peers -> Seq(Frames)] /\ out \in [Peers -> Seq(Frames)]
  /\ up \in [Peers -> Seq(Frames)] /\ down \in [Peers -> Seq(Frames)]
  /\ res \in {"run", "ok", "error", "limit"}
  /\ sent \in [Peers -> Seq(Limits)] /\ acked \in [Peers -> Nat]
  /\ peer \in [Peers -> [left : Nat, block : Streams \cup {0},
                         eof : {"open", "clean", "torn"}, applied : Nat, owed : Nat]]

\* The limits a peer must tolerate: those whose successor is not acknowledged.
Tolerated(e) == {sent[e][i] : i \in acked[e]..Len(sent[e])}

\* A peer reads no HEADERS or CONTINUATION frame and no table size update above
\* a limit that it tolerates, however its SETTINGS race with header blocks.
LimitsKept ==
  \A d \in Peers : down[d] # <<>> /\ IsBlock(Head(down[d])) =>
    /\ \E l \in Tolerated(Peer(d)) : Payload(Head(down[d])) <= l.frame
    /\ \E l \in Tolerated(Peer(d)) : Head(down[d]).table <= l.table

\* Conforming blocks are rejected for a limit only while a peer, be it of either
\* direction, has lowered one and has not got the acknowledgement.
OnlyLoweringRejects ==
  res = "limit" =>
    \E e \in Peers : \E i, j \in acked[e]..Len(sent[e]) :
      i < j /\ (sent[e][j].frame < sent[e][i].frame \/ sent[e][j].table < sent[e][i].table)

\* Every header block that goes on is one HEADERS frame and its CONTINUATIONs,
\* ended once, and carries the encoded block, whole.
BlocksIntact ==
  \A d \in Peers :
    LET s == down[d] \o out[d]
    IN  /\ \A i \in DOMAIN s : s[i].kind = "headers" =>
             \E j \in i..Len(s) :
               /\ Length(SubSeq(s, i, j)) = s[i].size
               /\ s[j].end /\ \A k \in i..(j - 1) : ~s[k].end
               /\ \A k \in (i + 1)..j : s[k].kind = "continuation" /\ s[k].stream = s[i].stream
        /\ \A i \in DOMAIN s \ {1} : s[i].kind = "continuation" => IsBlock(s[i - 1]) /\ ~s[i - 1].end

\* The bridge implements two FIFO channels of frames, with their padding and
\* priority.
Item(f) == [kind |-> f.kind, stream |-> f.stream, over |-> f.over,
            table |-> f.table, frame |-> f.frame]
Items ==
  {Item(f) : f \in {Preface, Ack, Other(0, 0)} \cup Faults} \cup
  [kind : {"settings"}, stream : {0}, over : {0}, table : Tables, frame : FrameSizes] \cup
  [kind : {"other"}, stream : Streams, over : {0}, table : {0}, frame : {0}] \cup
  [kind : {"headers"}, stream : Streams, over : Overs, table : Tables \cup {0}, frame : {0}]
InFlight(s) ==
  LET items[i \in 0..Len(s)] ==
        IF i = 0 THEN <<>>
        ELSE IF s[i].kind = "continuation" THEN items[i - 1]
        ELSE Append(items[i - 1], Item(s[i]))
  IN  items[Len(s)]
flow == [d \in Peers |-> InFlight(down[d] \o out[d] \o got[d] \o up[d])]
Channel == INSTANCE FrameChannel
KeepsOrder == Channel!Spec

\* What a peer has sent, but for a block that it has not completed.
Pending(d) == \/ up[d] \o out[d] \o down[d] # <<>>
              \/ got[d] # <<>> /\ peer[d].block = 0

\* It reaches a peer that stays, or the bridge ends: no direction waits for the
\* other, nor for more of a block that is complete.
EverythingArrives ==
  \A d \in Peers : Pending(d) ~> (~Pending(d) \/ res # "run" \/ peer[Peer(d)].eof = "torn")

\* Once A closes its half the bridge ends, whatever the client does.
UpstreamCloseEnds == peer["upstream"].eof # "open" ~> res # "run"
=============================================================================
