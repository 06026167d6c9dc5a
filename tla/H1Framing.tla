----------------------------- MODULE H1Framing -----------------------------
(***************************************************************************)
(* HTTP/1.1 message heads, the body framing the bridge derives from them   *)
(* (src/src/h1.rs) and the framing RFC 9112 gives the same message.        *)
(*                                                                         *)
(* A head is what the code's decisions read of it:                         *)
(*   lineOk    the request or status line passes the checks of bridge()    *)
(*   fieldsOk  every line is a well-formed field that Mapping can rewrite  *)
(*   cl        the Content-Length values, -1 one that is no decimal u64    *)
(*   te        the Transfer-Encoding values, "chunked" or another coding   *)
(*   upgrade   an Upgrade field is present                                 *)
(* and, for a request, isHead (its method is HEAD) and hosts (the Host     *)
(* values: B's authority or a foreign one); for a response, its status.    *)
(***************************************************************************)
EXTENDS Integers, Sequences

RequestHeads ==
  [isHead : BOOLEAN, lineOk : BOOLEAN, fieldsOk : BOOLEAN, upgrade : BOOLEAN,
   cl : Seq(Int), te : Seq({"chunked", "other"}),
   hosts : Seq({"B", "A", "foreign"})]

ResponseHeads ==
  [status : Nat, lineOk : BOOLEAN, fieldsOk : BOOLEAN, upgrade : BOOLEAN,
   cl : Seq(Int), te : Seq({"chunked", "other"})]

(***************************************************************************)
(* Bodies.  left counts the units of a "length" body still to come; the    *)
(* reader of a "chunked" or "eof" body does not know how many pieces       *)
(* follow, so its left is 0.  Body::Length(0) copies nothing, as Empty.    *)
(***************************************************************************)
Empty     == [kind |-> "none", left |-> 0]
Length(n) == IF n = 0 THEN Empty ELSE [kind |-> "length", left |-> n]
Chunked   == [kind |-> "chunked", left |-> 0]
UntilEof  == [kind |-> "eof", left |-> 0]

Bodies == {b \in [kind : {"none", "length", "chunked", "eof"}, left : Nat] :
             /\ b.kind = "none" => b.left = 0
             /\ b.kind = "length" => b.left > 0}

\* Bugs framing() could have: an unchecked value; the first of two lengths.
FramingOk_AnyValue(h, noBody) ==
  /\ Len(h.cl) <= 1 /\ Len(h.te) <= 1 /\ ~h.upgrade
  /\ h.cl = <<>> \/ h.te = <<>>
  /\ noBody \/ h.te = <<>> \/ h.te = <<"chunked">>
FramingOk_FirstLength(h, noBody) ==
  /\ \A i \in DOMAIN h.cl : h.cl[i] >= 0
  /\ Len(h.te) <= 1 /\ ~h.upgrade
  /\ h.cl = <<>> \/ h.te = <<>>
  /\ noBody \/ h.te = <<>> \/ h.te = <<"chunked">>

\* framing() accepts the head: the ensure! and bail! of its loop and after it.
FramingOk(h, noBody) ==
  /\ Len(h.cl) <= 1
  /\ \A i \in DOMAIN h.cl : h.cl[i] >= 0
  /\ Len(h.te) <= 1
  /\ ~h.upgrade
  /\ h.cl = <<>> \/ h.te = <<>>
  /\ noBody \/ h.te = <<>> \/ h.te = <<"chunked">>

\* The Body that framing() returns for a head it accepts.
Framing(h, response, noBody) ==
  CASE noBody                                    -> Empty
    [] ~noBody /\ h.te # <<>>                    -> Chunked
    [] ~noBody /\ h.te = <<>> /\ h.cl # <<>>     -> Length(h.cl[1])
    [] ~noBody /\ h.te = <<>> /\ h.cl = <<>>     -> IF response THEN UntilEof
                                                                ELSE Empty

(***************************************************************************)
(* What a peer that follows RFC 9112, section 6.3, sends or expects after  *)
(* this head.  The peers are not part of the repository.  Repeated lengths *)
(* are invalid; a reader that does not reject them may use the last one.   *)
(***************************************************************************)
RfcBody(h, response, noBody) ==
  IF noBody THEN Empty
  ELSE IF \E i \in DOMAIN h.te : h.te[i] = "chunked" THEN Chunked
  ELSE IF h.te # <<>> THEN UntilEof
  ELSE IF h.cl # <<>> /\ h.cl[Len(h.cl)] > 0 THEN Length(h.cl[Len(h.cl)])
  ELSE IF h.cl = <<>> /\ response THEN UntilEof ELSE Empty

RfcNoBody(h, isHead) == isHead \/ h.status \in 100..199 \cup {204, 304}

\* What a sender that has k pieces to send does about a body of that framing.
Sending(b, k) == IF b.kind \in {"chunked", "eof"} THEN [b EXCEPT !.left = k] ELSE b

Interim(h) == h.status \in 100..199

\* A bug: a 304 that announces the length of the body it does not carry.
NoBody_No304(h, isHead) == isHead \/ Interim(h) \/ h.status = 204

\* bridge() tells framing() that a response has no body in these cases.
NoBody(h, isHead) == isHead \/ Interim(h) \/ h.status \in {204, 304}

\* The checks bridge() makes of a request head before it sends anything:
\* request line, framing, and Mapping::h1_head with exactly one Host, of B.
RequestOk(h) ==
  h.lineOk /\ FramingOk(h, FALSE) /\ h.fieldsOk /\ h.hosts = <<"B">>

\* Mapping::h1_head of an accepted request: only the authority changes.
Rewritten(h) == [h EXCEPT !.hosts = <<"A">>]

\* The checks bridge() makes of a response head before it forwards it.
ResponseOk(h, isHead) ==
  /\ h.lineOk /\ h.status # 101
  /\ FramingOk(h, NoBody(h, isHead))
  /\ h.fieldsOk

(***************************************************************************)
(* A body on the wire.  Its sender knows how many pieces are left; a       *)
(* reader consumes a piece t and learns whether the body goes on.          *)
(***************************************************************************)
Piece(b) ==
  CASE b.kind = "chunked" /\ b.left = 0 -> "last"
    [] b.kind = "chunked" /\ b.left > 0 -> "chunk"
    [] b.kind # "chunked"               -> "data"

AfterPiece(b) ==
  IF \/ b.kind = "chunked" /\ b.left = 0
     \/ b.kind = "length" /\ b.left = 1
  THEN Empty ELSE [b EXCEPT !.left = b.left - 1]

\* One turn of body(): exact() counts down, the chunk loop ends at size 0
\* after the trailers, copy() goes on until end of file.
Consume(e, t) ==
  IF \/ e.kind = "length" /\ e.left = 1
     \/ e.kind = "chunked" /\ t = "last"
  THEN Empty
  ELSE IF e.kind = "length" THEN [e EXCEPT !.left = e.left - 1] ELSE e

\* A reader's expectation e agrees with the state b of the sender.
Match(e, b) == e.kind = b.kind /\ (e.kind = "length" => e.left = b.left)
=============================================================================
