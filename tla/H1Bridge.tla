------------------------------ MODULE H1Bridge ------------------------------
(***************************************************************************)
(* bridge() of src/src/h1.rs: one client connection B-side, one upstream   *)
(* connection to A, and two futures polled in one task.  requests parses   *)
(* and rewrites the client's pipeline and announces every request to       *)
(* responses over an mpsc channel of "is it HEAD" flags; responses pairs   *)
(* each flag with the next final response of A.  select! ends both as soon *)
(* as responses ends or requests fails.                                    *)
(*                                                                         *)
(* The client is read by rendezvous: what it sends next is chosen when the *)
(* bridge reads it.  The connection to A is two bounded FIFO wires.  A and *)
(* the client follow RFC 9112 in what they send, but may stop, close or    *)
(* send a malformed chunk at any point.                                    *)
(***************************************************************************)
EXTENDS H1Framing

CONSTANTS ReqHeads,    \* the request heads a client may send
          RspHeads,    \* the response heads A may send
          MaxReq,      \* bound: requests accepted on one connection
          MaxInterim,  \* bound: interim responses before a final one
          MaxPieces,   \* bound: pieces of a chunked or EOF-delimited body
          ChanCap,     \* capacity of the flag channel (32 in the code)
          WireCap      \* bound: tokens in flight in one wire to or from A

ASSUME HeadsAssumption ==
  ReqHeads \subseteq RequestHeads /\ RspHeads \subseteq ResponseHeads
ASSUME BoundsAssumption ==
  /\ MaxReq \in Nat /\ MaxInterim \in Nat /\ MaxPieces \in Nat
  /\ ChanCap \in Nat \ {0} /\ WireCap \in Nat \ {0}

VARIABLES
  client,   \* the client's connection: "open", "eof" (half closed), "gone"
  cbody,    \* what the client has still to send of its current body
  reqs,     \* the request heads the bridge accepted, in order
  qpc,      \* where the requests future is
  qbody,    \* what body() still expects of the current request
  chan,     \* the mpsc channel: is_head of requests announced, not received
  txOpen,   \* the sending half of the channel is not dropped
  b2u,      \* wire from the bridge to A
  uShut,    \* the bridge shut down its writing half towards A
  areqs,    \* the requests A read, in order
  aparse,   \* what A still expects of the request it is reading
  aans,     \* the number of final responses A started
  abody,    \* what A has still to send of its current response
  aint,     \* interim responses A sent since its last final one
  aClosed,  \* A closed its connection
  u2b,      \* wire from A to the bridge
  rpc,      \* where the responses future is
  isHead,   \* the flag responses received last
  rbody,    \* what body() still expects of the current response
  result    \* of bridge(): "running", "ok" or "err"

clientVars == <<client, cbody>>
reqVars    == <<reqs, qpc, qbody, txOpen, uShut>>
aVars      == <<areqs, aparse, aans, abody, aint, aClosed>>
rspVars    == <<rpc, isHead, rbody>>
vars == <<clientVars, reqVars, chan, b2u, aVars, u2b, rspVars, result>>

(***************************************************************************)
(* A token of a wire is a whole head or one piece of a body.  It carries   *)
(* the state of its sender before and after it: the body state and the     *)
(* number of messages whose (final) head the sender has sent.              *)
(***************************************************************************)
Positions == [b : Bodies, n : Nat]
Pos(b, n) == [b |-> b, n |-> n]
HeadToken(h, from, then) ==
  [t |-> "head", h |-> h, from |-> from, then |-> then]
PieceToken(t, from, then) == [t |-> t, from |-> from, then |-> then]

HeadTokens(H) == [t : {"head"}, h : H, from : Positions, then : Positions]
PieceTokens ==
  [t : {"data", "chunk", "last", "bad"}, from : Positions, then : Positions]

Init ==
  /\ client = "open" /\ cbody = Empty
  /\ reqs = <<>> /\ qpc = "head" /\ qbody = Empty
  /\ chan = <<>> /\ txOpen = TRUE /\ b2u = <<>> /\ uShut = FALSE
  /\ areqs = <<>> /\ aparse = Empty /\ aans = 0 /\ abody = Empty
  /\ aint = 0 /\ aClosed = FALSE /\ u2b = <<>>
  /\ rpc = "recv" /\ isHead = FALSE /\ rbody = Empty
  /\ result = "running"

Running == result = "running"
End(r)  == /\ result' = r
           /\ UNCHANGED <<clientVars, reqVars, chan, b2u, aVars, u2b, rspVars>>

\* Requests announced to, and received by, the responses future.
Announced == IF qpc = "send" THEN Len(reqs) - 1 ELSE Len(reqs)
Received  == Announced - Len(chan)
\* Requests whose head is on the wire to A.
Written   == IF qpc \in {"send", "write"} THEN Len(reqs) - 1 ELSE Len(reqs)
\* Final response heads the responses future has parsed.
Parsed    == IF rpc = "head" THEN Received - 1 ELSE Received

-----------------------------------------------------------------------------
(***************************************************************************)
(* The requests future.                                                    *)
(***************************************************************************)

\* A head arrives and passes every check up to tx.send.
ReqAccept(h, k) ==
  /\ Running /\ qpc = "head" /\ client = "open" /\ Len(reqs) < MaxReq
  /\ RequestOk(h)
  /\ reqs' = Append(reqs, h)
  /\ qbody' = Framing(h, FALSE, FALSE)
  /\ cbody' = Sending(RfcBody(h, FALSE, FALSE), k)
  /\ qpc' = "send"
  /\ UNCHANGED <<client, chan, txOpen, b2u, uShut, aVars, u2b, rspVars, result>>

\* A head that fails a check: the error ends the bridge, whatever earlier
\* requests are still unanswered.
ReqReject(h) ==
  /\ Running /\ qpc = "head" /\ client = "open"
  /\ ~RequestOk(h)
  /\ End("err")

\* A bug: an unbounded channel.
ReqSend_Unbounded ==
  /\ Running /\ qpc = "send"
  /\ chan' = Append(chan, reqs[Len(reqs)].isHead)
  /\ qpc' = "write"
  /\ UNCHANGED <<clientVars, reqs, qbody, txOpen, b2u, uShut, aVars, u2b, rspVars, result>>

\* tx.send: waits while the channel is full.  The receiver lives as long as
\* the bridge, so it never fails.
ReqSend ==
  /\ Running /\ qpc = "send" /\ Len(chan) < ChanCap
  /\ chan' = Append(chan, reqs[Len(reqs)].isHead)
  /\ qpc' = "write"
  /\ UNCHANGED <<clientVars, reqs, qbody, txOpen, b2u, uShut, aVars, u2b, rspVars, result>>

\* uw.write_all of the rewritten head, and flush.
ReqWrite ==
  /\ Running /\ qpc = "write" /\ Len(b2u) < WireCap
  /\ b2u' = Append(b2u, HeadToken(Rewritten(reqs[Len(reqs)]),
                                  Pos(Empty, Written), Pos(cbody, Len(reqs))))
  /\ qpc' = IF qbody = Empty THEN "head" ELSE "body"
  /\ UNCHANGED <<clientVars, reqs, qbody, chan, txOpen, uShut, aVars, u2b, rspVars, result>>

\* One turn of body() from the client to A.
ReqBody ==
  /\ Running /\ qpc = "body" /\ client = "open" /\ Len(b2u) < WireCap
  /\ b2u' = Append(b2u, PieceToken(Piece(cbody), Pos(cbody, Written),
                                   Pos(AfterPiece(cbody), Written)))
  /\ cbody' = AfterPiece(cbody)
  /\ qbody' = Consume(qbody, Piece(cbody))
  /\ qpc' = IF qbody' = Empty THEN "head" ELSE "body"
  /\ UNCHANGED <<client, reqs, chan, txOpen, uShut, aVars, u2b, rspVars, result>>

\* A bug: tx lives until the requests future is dropped.
ReqEof_KeepsTx ==
  /\ Running /\ qpc = "head" /\ client = "eof"
  /\ qpc' = "shutdown"
  /\ UNCHANGED <<clientVars, reqs, qbody, chan, txOpen, b2u, uShut, aVars, u2b, rspVars, result>>

\* End of file at a head boundary: the channel is closed first, then the
\* writing half of the upstream.
ReqEof ==
  /\ Running /\ qpc = "head" /\ client = "eof"
  /\ txOpen' = FALSE /\ qpc' = "shutdown"
  /\ UNCHANGED <<clientVars, reqs, qbody, chan, b2u, uShut, aVars, u2b, rspVars, result>>

ReqShutdown ==
  /\ Running /\ qpc = "shutdown"
  /\ uShut' = TRUE /\ qpc' = "done"
  /\ UNCHANGED <<clientVars, reqs, qbody, chan, txOpen, b2u, aVars, u2b, rspVars, result>>

\* The client's bytes end inside a head or a body, or its connection is gone.
ReqTruncated ==
  /\ Running /\ qpc \in {"head", "body"} /\ client # "open"
  /\ End("err")

ReqBadChunk ==
  /\ Running /\ qpc = "body" /\ client = "open" /\ qbody.kind = "chunked"
  /\ End("err")

\* A write or the shutdown towards a closed A may fail, before responses
\* gets to the answers A sent in time.
ReqWriteFails ==
  /\ Running /\ qpc \in {"write", "body", "shutdown"} /\ aClosed
  /\ End("err")

-----------------------------------------------------------------------------
(***************************************************************************)
(* The responses future.                                                   *)
(***************************************************************************)

RspRecv ==
  /\ Running /\ rpc = "recv" /\ chan # <<>>
  /\ isHead' = Head(chan) /\ chan' = Tail(chan)
  /\ rpc' = "head"
  /\ UNCHANGED <<clientVars, reqVars, b2u, aVars, u2b, rbody, result>>

\* A bug: a closed channel is taken for an empty one.
RspDrained_Closed == /\ Running /\ rpc = "recv" /\ ~txOpen
                     /\ End("ok")

\* recv() returns None: the channel is closed and empty.
RspDrained ==
  /\ Running /\ rpc = "recv" /\ chan = <<>> /\ ~txOpen
  /\ End("ok")

\* A bug: an interim response uses up the flag.
AfterHead_InterimFinal(h, kind) == IF kind # Empty THEN "body" ELSE "recv"

\* Where the loops go on once a head with this framing is forwarded and its
\* body, if it has one, is not yet copied.
AfterHead(h, kind) ==
  IF kind # Empty THEN "body" ELSE IF Interim(h) THEN "head" ELSE "recv"

RspHead ==
  /\ Running /\ rpc = "head" /\ u2b # <<>> /\ Head(u2b).t = "head"
  /\ ResponseOk(Head(u2b).h, isHead)
  /\ LET h == Head(u2b).h
         kind == Framing(h, TRUE, NoBody(h, isHead))
     IN rbody' = kind /\ rpc' = AfterHead(h, kind)
  /\ u2b' = Tail(u2b)
  /\ UNCHANGED <<clientVars, reqVars, chan, b2u, aVars, isHead, result>>

\* What stands where a head should be is not one the bridge accepts.
RspReject ==
  /\ Running /\ rpc = "head" /\ u2b # <<>>
  /\ ~(Head(u2b).t = "head" /\ ResponseOk(Head(u2b).h, isHead))
  /\ End("err")

\* One turn of body() from A to the client.
RspBody ==
  /\ Running /\ rpc = "body" /\ u2b # <<>>
  /\ rbody.kind = "chunked" => Head(u2b).t \in {"chunk", "last"}
  /\ rbody' = Consume(rbody, Head(u2b).t)
  /\ rpc' = IF rbody' = Empty THEN "recv" ELSE "body"
  /\ u2b' = Tail(u2b)
  /\ UNCHANGED <<clientVars, reqVars, chan, b2u, aVars, isHead, result>>

RspBadChunk ==
  /\ Running /\ rpc = "body" /\ u2b # <<>> /\ rbody.kind = "chunked"
  /\ Head(u2b).t \notin {"chunk", "last"}
  /\ End("err")

\* A bug: end of file is noticed inside bodies only.
RspEof_BodyOnly ==
  /\ Running /\ rpc = "body" /\ u2b = <<>> /\ aClosed
  /\ End(IF rbody.kind = "eof" THEN "ok" ELSE "err")

\* End of file from A ends an EOF-delimited body, and with it the bridge; it
\* truncates everything else.
RspEof ==
  /\ Running /\ rpc \in {"head", "body"} /\ u2b = <<>> /\ aClosed
  /\ End(IF rpc = "body" /\ rbody.kind = "eof" THEN "ok" ELSE "err")

\* Reading from a connection that broke, or writing to a client that is gone.
RspFails ==
  /\ Running
  /\ \/ rpc \in {"head", "body"} /\ aClosed
     \/ rpc \in {"head", "body"} /\ client = "gone" /\ u2b # <<>>
     \/ rpc = "recv" /\ client = "gone" /\ chan = <<>> /\ ~txOpen
  /\ End("err")

-----------------------------------------------------------------------------
(***************************************************************************)
(* The peers.                                                              *)
(***************************************************************************)

ClientCloses(how) ==
  /\ Running /\ client # how /\ client # "gone"
  /\ client' = how
  /\ UNCHANGED <<cbody, reqVars, chan, b2u, aVars, u2b, rspVars, result>>

\* A reads a token with its own, RFC 9112, idea of where a body ends.
ARead ==
  /\ Running /\ b2u # <<>> /\ ~aClosed
  /\ \/ /\ aparse = Empty /\ Head(b2u).t = "head"
        /\ areqs' = Append(areqs, Head(b2u).h)
        /\ aparse' = RfcBody(Head(b2u).h, FALSE, FALSE)
     \/ /\ aparse # Empty
        /\ aparse' = Consume(aparse, Head(b2u).t)
        /\ UNCHANGED areqs
  /\ b2u' = Tail(b2u)
  /\ UNCHANGED <<clientVars, reqVars, chan, aans, abody, aint, aClosed, u2b, rspVars, result>>

\* A starts a response to its next request, possibly before it has read that
\* request's body.
AStart(h, k) ==
  /\ Running /\ ~aClosed /\ abody = Empty /\ aans < Len(areqs)
  /\ Len(u2b) < WireCap
  /\ IF h.status \in 100..199
     THEN aint < MaxInterim /\ aint' = aint + 1 /\ aans' = aans
     ELSE aint' = 0 /\ aans' = aans + 1
  /\ abody' = Sending(RfcBody(h, TRUE, RfcNoBody(h, areqs[aans + 1].isHead)), k)
  /\ u2b' = Append(u2b, HeadToken(h, Pos(Empty, aans), Pos(abody', aans')))
  /\ UNCHANGED <<clientVars, reqVars, chan, b2u, areqs, aparse, aClosed, rspVars, result>>

\* A sends the next piece of its body; only its close ends an EOF body.
ABody ==
  /\ Running /\ ~aClosed /\ abody # Empty /\ Len(u2b) < WireCap
  /\ ~(abody.kind = "eof" /\ abody.left = 0)
  /\ abody' = AfterPiece(abody)
  /\ u2b' = Append(u2b, PieceToken(Piece(abody), Pos(abody, aans), Pos(abody', aans)))
  /\ UNCHANGED <<clientVars, reqVars, chan, b2u, areqs, aparse, aans, aint, aClosed, rspVars, result>>

ABadChunk ==
  /\ Running /\ ~aClosed /\ abody.kind = "chunked" /\ Len(u2b) < WireCap
  /\ u2b' = Append(u2b, PieceToken("bad", Pos(abody, aans), Pos(abody, aans)))
  /\ UNCHANGED <<clientVars, reqVars, chan, b2u, aVars, rspVars, result>>

AClose ==
  /\ Running /\ ~aClosed
  /\ aClosed' = TRUE
  /\ UNCHANGED <<clientVars, reqVars, chan, b2u, areqs, aparse, aans, abody, aint, u2b, rspVars, result>>

\* bridge() has returned: its caller drops both connections.
Ended == ~Running /\ UNCHANGED vars

-----------------------------------------------------------------------------
ReqStep == \/ ReqSend \/ ReqWrite \/ ReqBody \/ ReqEof \/ ReqShutdown
           \/ ReqTruncated \/ ReqBadChunk \/ ReqWriteFails
RspStep == \/ RspRecv \/ RspDrained \/ RspHead \/ RspReject \/ RspBody
           \/ RspBadChunk \/ RspEof \/ RspFails
ClientStep == \/ \E h \in ReqHeads, k \in 0..MaxPieces : ReqAccept(h, k)
              \/ \E h \in ReqHeads : ReqReject(h)
              \/ \E how \in {"eof", "gone"} : ClientCloses(how)
AAnswer == \E h \in RspHeads, k \in 0..MaxPieces : AStart(h, k)
AStep == ARead \/ AAnswer \/ ABody \/ ABadChunk \/ AClose

Next == ReqStep \/ RspStep \/ ClientStep \/ AStep \/ Ended

\* tokio polls both futures when they can move; A reads, answers and finishes
\* what it starts.  Nothing obliges the client to send or to close.
ReqProgress == \/ ReqSend \/ ReqWrite \/ ReqEof \/ ReqShutdown \/ ReqTruncated
               \/ qpc # "body" /\ ReqWriteFails
RspProgress == \/ RspRecv \/ RspDrained \/ RspHead \/ RspReject \/ RspBody
               \/ RspBadChunk \/ RspEof
AFinish == ABody \/ (abody.kind = "eof" /\ abody.left = 0 /\ AClose)
Fairness == /\ WF_vars(ReqProgress) /\ WF_vars(RspProgress)
            /\ WF_vars(ARead) /\ WF_vars(AAnswer) /\ WF_vars(AFinish)

Spec == Init /\ [][Next]_vars /\ Fairness

-----------------------------------------------------------------------------
(***************************************************************************)
(* Properties.                                                             *)
(***************************************************************************)

\* The state of both futures, of the channel, the wires and the peers.
TypeOK ==
  /\ client \in {"open", "eof", "gone"} /\ cbody \in Bodies
  /\ reqs \in Seq(ReqHeads)
  /\ qpc \in {"head", "send", "write", "body", "shutdown", "done"}
  /\ qbody \in Bodies
  /\ chan \in Seq(BOOLEAN) /\ txOpen \in BOOLEAN /\ uShut \in BOOLEAN
  /\ b2u \in Seq(HeadTokens(RequestHeads) \cup PieceTokens)
  /\ areqs \in Seq(RequestHeads) /\ aparse \in Bodies
  /\ aans \in Nat /\ abody \in Bodies /\ aint \in Nat /\ aClosed \in BOOLEAN
  /\ u2b \in Seq(HeadTokens(RspHeads) \cup PieceTokens)
  /\ rpc \in {"recv", "head", "body"} /\ isHead \in BOOLEAN /\ rbody \in Bodies
  /\ result \in {"running", "ok", "err"}

\* A reader that expects e after n heads, a wire w and a sender in state b
\* after m heads: every token continues the one before it, so the reader will
\* take each head as a head, each body as the sender framed it, and number
\* the messages as the sender does.
InStep(e, n, w, b, m) ==
  LET at(i) == IF i > Len(w) THEN Pos(b, m) ELSE w[i].from
  IN /\ Match(e, at(1).b) /\ n = at(1).n
     /\ \A i \in DOMAIN w : w[i].then = at(i + 1)

\* The responses loop is always in step with A's stream: through interim,
\* bodiless, HEAD, chunked and length-delimited responses it never takes body
\* bytes for a head, and the flag it holds is that of the request which A
\* answers next (h1.rs, the pairing of rx.recv() with framing()).
ResponsesInSync ==
  /\ InStep(rbody, Parsed, u2b, abody, aans)
  /\ rpc # "recv" => isHead = reqs[Received].isHead

\* The bridge parses the client's stream as the client framed it, and A parses
\* the forwarded stream into the very requests the bridge accepted,
\* in order, each with B's authority replaced: no accepted request can be
\* split or merged by a reader that follows RFC 9112.
RequestsInSync ==
  /\ Match(qbody, cbody)
  /\ InStep(aparse, Len(areqs), b2u, IF qpc = "body" THEN cbody ELSE Empty, Written)
  /\ \A i \in DOMAIN areqs : areqs[i] = Rewritten(reqs[i])

\* bridge() returns Ok only when nothing is lost: either the client finished
\* at a message boundary and every accepted request was answered and its
\* answer forwarded to the last byte, or the last response read is delimited
\* by A's close and was forwarded up to it.
OkMeansAnswered ==
  result = "ok" =>
    /\ u2b = <<>>
    /\ \/ /\ client # "open" /\ Parsed = Len(reqs)
          /\ aans = Len(reqs) /\ abody = Empty
       \/ /\ rpc = "body" /\ abody.kind = "eof" /\ aClosed
          /\ aans = Received

\* The channel bounds the pipeline: one request being answered, ChanCap
\* announced, and one waiting in tx.send.
PipelineBound == Len(reqs) - Parsed <= ChanCap + 2

\* Once the client has closed or gone, the bridge ends.
ClientCloseEnds == (client # "open") ~> ~Running

\* A close of A that leaves an accepted request without a response ends the
\* bridge, even while the client keeps its side open and sends nothing.
UpstreamCloseEnds == (aClosed /\ aans < Len(reqs)) ~> ~Running
=============================================================================
