--------------------------- MODULE H1BridgeProofs ---------------------------
(***************************************************************************)
(* H1Bridge keeps its parsers in step with both peers, for every set of    *)
(* heads, channel capacity and wire.                                       *)
(***************************************************************************)
EXTENDS H1Bridge, SequenceTheorems, TLAPS

-----------------------------------------------------------------------------
(***************************************************************************)
(* Framing: what the operators of H1Framing return.                        *)
(***************************************************************************)

LEMMA OneElement ==
  ASSUME NEW s \in Seq(Int), s # <<>>, Len(s) <= 1
  PROVE  Len(s) = 1 /\ 1 \in DOMAIN s /\ s[1] \in Int
  <1>1. Len(s) \in Nat \ {0}
    BY EmptySeq
  <1>2. \A n \in Nat \ {0} : n <= 1 => n = 1
    OBVIOUS
  <1>3. Len(s) = 1
    BY <1>1, <1>2, Zenon
  <1> QED  BY <1>3, LenProperties, ElementOfSeq

\* Where framing() accepts a head, it finds the body RFC 9112 gives it.
LEMMA FramingIsRfc ==
  ASSUME NEW h, h.cl \in Seq(Int), h.te \in Seq({"chunked", "other"}),
         NEW response \in BOOLEAN, NEW noBody \in BOOLEAN,
         FramingOk(h, noBody)
  PROVE  Framing(h, response, noBody) = RfcBody(h, response, noBody)
  <1>1. CASE noBody
    BY <1>1 DEF Framing, RfcBody
  <1>2. CASE ~noBody /\ h.te # <<>>
    <2>1. h.te = <<"chunked">>
      BY <1>2 DEF FramingOk
    <2>2. 1 \in DOMAIN h.te /\ h.te[1] = "chunked"
      BY <2>1
    <2>3. RfcBody(h, response, noBody) = Chunked
      BY <1>2, <2>2 DEF RfcBody
    <2> QED  BY <1>2, <2>3 DEF Framing
  <1>3. CASE ~noBody /\ h.te = <<>>
    <2>1. ~ \E i \in DOMAIN h.te : h.te[i] = "chunked"
      BY <1>3
    <2>2. CASE h.cl = <<>>
      BY <1>3, <2>1, <2>2 DEF Framing, RfcBody
    <2>3. CASE h.cl # <<>>
      <3>1. Len(h.cl) = 1 /\ h.cl[1] \in Int /\ h.cl[1] >= 0
        <4>1. Len(h.cl) <= 1 /\ \A i \in DOMAIN h.cl : h.cl[i] >= 0
          BY DEF FramingOk
        <4>2. Len(h.cl) = 1 /\ 1 \in DOMAIN h.cl /\ h.cl[1] \in Int
          BY <2>3, <4>1, OneElement
        <4> QED  BY <4>1, <4>2
      <3> QED  BY <1>3, <2>1, <2>3, <3>1 DEF Framing, RfcBody, Length
    <2> QED  BY <2>2, <2>3
  <1> QED  BY <1>1, <1>2, <1>3

LEMMA EmptyIsBody == Empty \in Bodies
  BY DEF Empty, Bodies

LEMMA RfcBodyType ==
  ASSUME NEW h, h.cl \in Seq(Int), NEW response \in BOOLEAN, NEW noBody \in BOOLEAN
  PROVE  RfcBody(h, response, noBody) \in Bodies
  <1>1. h.cl # <<>> => h.cl[Len(h.cl)] \in Int
    OBVIOUS
  <1> QED  BY <1>1 DEF RfcBody, Bodies, Empty, Length, Chunked, UntilEof

\* A request never has an EOF-delimited body.
LEMMA RequestFramingType ==
  ASSUME NEW h \in RequestHeads, FramingOk(h, FALSE)
  PROVE  /\ Framing(h, FALSE, FALSE) = RfcBody(h, FALSE, FALSE)
         /\ Framing(h, FALSE, FALSE) \in Bodies
         /\ Framing(h, FALSE, FALSE).kind # "eof"
  <1>1. h.cl \in Seq(Int) /\ h.te \in Seq({"chunked", "other"})
    BY DEF RequestHeads
  <1>2. Framing(h, FALSE, FALSE) = RfcBody(h, FALSE, FALSE)
    BY <1>1, FramingIsRfc
  <1>3. Framing(h, FALSE, FALSE) \in Bodies
    BY <1>1, <1>2, RfcBodyType
  <1>4. Framing(h, FALSE, FALSE).kind # "eof"
    BY DEF Framing, Length, Empty, Chunked
  <1> QED  BY <1>2, <1>3, <1>4

LEMMA SendingType ==
  ASSUME NEW b \in Bodies, NEW k \in Nat
  PROVE  Sending(b, k) \in Bodies /\ Match(b, Sending(b, k))
  BY DEF Sending, Bodies, Match

LEMMA MatchEmpty ==
  ASSUME NEW e \in Bodies, NEW b \in Bodies, Match(e, b)
  PROVE  (e = Empty) <=> (b = Empty)
  BY DEF Match, Bodies, Empty

\* A reader in step with a sender stays in step over one piece.
LEMMA PieceStep ==
  ASSUME NEW e \in Bodies, NEW b \in Bodies, b # Empty, Match(e, b),
         b.kind = "eof" => b.left > 0
  PROVE  /\ AfterPiece(b) \in Bodies
         /\ Match(Consume(e, Piece(b)), AfterPiece(b))
  BY DEF AfterPiece, Consume, Piece, Match, Bodies, Empty

LEMMA ConsumeType ==
  ASSUME NEW e \in Bodies, NEW t
  PROVE  Consume(e, t) \in Bodies /\ Consume(e, t).kind \in {e.kind, "none"}
  BY DEF Consume, Bodies, Empty

-----------------------------------------------------------------------------
(***************************************************************************)
(* Wires: what sending and reading a token does to InStep.                 *)
(***************************************************************************)
LEMMA InStepAppend ==
  ASSUME NEW S, NEW w \in Seq(S), NEW x \in S, NEW e, NEW n, NEW b, NEW m,
         NEW b2, NEW m2, InStep(e, n, w, b, m),
         x.from = Pos(b, m), x.then = Pos(b2, m2)
  PROVE  InStep(e, n, Append(w, x), b2, m2)
  <1> DEFINE v == Append(w, x)
             at(i) == IF i > Len(w) THEN Pos(b, m) ELSE w[i].from
             to(i) == IF i > Len(v) THEN Pos(b2, m2) ELSE v[i].from
  <1>1. /\ v \in Seq(S) /\ Len(v) = Len(w) + 1 /\ Len(w) \in Nat
        /\ v[Len(w) + 1] = x /\ \A i \in 1..Len(w) : v[i] = w[i]
        /\ DOMAIN v = 1..(Len(w) + 1) /\ DOMAIN w = 1..Len(w)
    OBVIOUS
  <1>2. \A i \in 1..(Len(w) + 1) : to(i) = at(i)
    BY <1>1
  <1>3. /\ Match(e, at(1).b) /\ n = at(1).n
        /\ \A i \in DOMAIN w : w[i].then = at(i + 1)
    BY DEF InStep
  <1>4. \A i \in DOMAIN v : v[i].then = to(i + 1)
    <2> TAKE i \in DOMAIN v
    <2>1. CASE i \in 1..Len(w)
      <3>1. i + 1 \in 1..(Len(w) + 1) /\ v[i] = w[i]
        BY <1>1, <2>1
      <3>2. to(i + 1) = at(i + 1)
        BY <1>2, <3>1
      <3>3. w[i].then = at(i + 1)
        BY <1>1, <1>3, <2>1
      <3> QED  BY <3>1, <3>2, <3>3
    <2>2. CASE i = Len(w) + 1
      BY <1>1, <2>2
    <2> QED  BY <1>1, <2>1, <2>2
  <1>5. to(1) = at(1)
    BY <1>1, <1>2
  <1>6. Match(e, to(1).b) /\ n = to(1).n
    BY <1>3, <1>5
  <1> HIDE DEF at, v
  <1> QED  BY <1>4, <1>6 DEF InStep, v

LEMMA InStepTail ==
  ASSUME NEW S, NEW w \in Seq(S), w # <<>>, NEW e, NEW n, NEW b, NEW m,
         NEW e2, NEW n2, InStep(e, n, w, b, m),
         Match(e2, w[1].then.b), n2 = w[1].then.n
  PROVE  InStep(e2, n2, Tail(w), b, m)
  <1> DEFINE v == Tail(w)
             at(i) == IF i > Len(w) THEN Pos(b, m) ELSE w[i].from
             to(i) == IF i > Len(v) THEN Pos(b, m) ELSE v[i].from
  <1>1. /\ v \in Seq(S) /\ Len(v) = Len(w) - 1 /\ Len(w) \in Nat /\ Len(w) > 0
        /\ \A i \in 1..(Len(w) - 1) : v[i] = w[i + 1]
        /\ DOMAIN v = 1..(Len(w) - 1) /\ DOMAIN w = 1..Len(w)
    OBVIOUS
  <1>2. \A i \in Nat \ {0} : to(i) = at(i + 1)
    BY <1>1
  <1>3. \A i \in DOMAIN w : w[i].then = at(i + 1)
    BY DEF InStep
  <1>4. to(1) = w[1].then
    <2>1. w[1].then = at(1 + 1)
      BY <1>1, <1>3
    <2>2. to(1) = at(1 + 1)
      BY <1>2
    <2> QED  BY <2>1, <2>2
  <1>5. \A i \in DOMAIN v : v[i].then = to(i + 1)
    <2> TAKE i \in DOMAIN v
    <2>1. i \in Nat /\ i + 1 \in DOMAIN w /\ v[i] = w[i + 1] /\ i + 1 \in Nat \ {0}
      BY <1>1
    <2>2. w[i + 1].then = at((i + 1) + 1)
      BY <1>3, <2>1
    <2>3. to(i + 1) = at((i + 1) + 1)
      BY <1>2, <2>1
    <2> QED  BY <2>1, <2>2, <2>3
  <1>6. Match(e2, to(1).b) /\ n2 = to(1).n
    BY <1>4
  <1> HIDE DEF at, v
  <1> QED  BY <1>5, <1>6 DEF InStep, v

LEMMA AppendElements ==
  ASSUME NEW S, NEW w \in Seq(S), NEW x \in S
  PROVE  /\ Append(w, x) \in Seq(S)
         /\ \A i \in DOMAIN Append(w, x) :
              \/ Append(w, x)[i] = x
              \/ \E j \in DOMAIN w : Append(w, x)[i] = w[j]
  OBVIOUS

LEMMA TailElements ==
  ASSUME NEW S, NEW w \in Seq(S), w # <<>>
  PROVE  /\ Tail(w) \in Seq(S) /\ Head(w) = w[1] /\ 1 \in DOMAIN w /\ w[1] \in S
         /\ \A i \in DOMAIN Tail(w) : \E j \in DOMAIN w : Tail(w)[i] = w[j]
  <1>1. Len(w) \in Nat \ {0} /\ DOMAIN w = 1..Len(w)
    BY EmptySeq, LenProperties
  <1>2. /\ Tail(w) \in Seq(S) /\ Len(Tail(w)) = Len(w) - 1
        /\ \A i \in 1..Len(Tail(w)) : Tail(w)[i] = w[i + 1]
    BY HeadTailProperties
  <1>3. DOMAIN Tail(w) = 1..(Len(w) - 1)
    BY <1>2, LenProperties
  <1>4. \A i \in 1..(Len(w) - 1) : i + 1 \in 1..Len(w)
    BY <1>1
  <1>5. 1 \in DOMAIN w /\ w[1] \in S
    BY <1>1, ElementOfSeq
  <1> QED  BY <1>1, <1>2, <1>3, <1>4, <1>5

\* A reader at the end of the wire has caught up with the sender.
LEMMA InStepHead ==
  ASSUME NEW S, NEW w \in Seq(S), NEW e, NEW n, NEW b, NEW m, InStep(e, n, w, b, m)
  PROVE  /\ w = <<>> => Match(e, b) /\ n = m
         /\ w # <<>> => Match(e, w[1].from.b) /\ n = w[1].from.n
  BY DEF InStep, Pos

-----------------------------------------------------------------------------
(***************************************************************************)
(* The inductive invariant: TypeOK, the two properties, what the program   *)
(* counters say of the rest of the state, the flags in the channel, and    *)
(* how every token on a wire came to be there.                             *)
(***************************************************************************)
Control ==
  /\ qpc = "body" => qbody # Empty
  /\ qpc \in {"head", "shutdown", "done"} => qbody = Empty
  /\ qpc \in {"send", "write"} =>
       reqs # <<>> /\ qbody = RfcBody(reqs[Len(reqs)], FALSE, FALSE)
  /\ qpc = "body" => reqs # <<>>
  /\ qbody.kind # "eof"
  /\ rpc = "body" <=> rbody # Empty
  /\ ~txOpen => qpc \in {"shutdown", "done"} /\ client # "open"
  /\ aans <= Len(areqs)

\* The channel holds the flags of the last announced requests, in order.
ChannelInOrder ==
  /\ Len(chan) <= Announced /\ Len(chan) <= ChanCap
  /\ rpc # "recv" => Received > 0
  /\ \A j \in DOMAIN chan : chan[j] = reqs[Received + j].isHead

\* A token the bridge wrote to A after n heads of the requests rs.
FromBridge(rs, n, x) ==
  /\ x.then.n \in 1..n
  /\ \/ /\ x \in HeadTokens(RequestHeads)
        /\ x.from.b = Empty /\ x.then.n = x.from.n + 1
        /\ x.h = Rewritten(rs[x.then.n])
        /\ Match(RfcBody(x.h, FALSE, FALSE), x.then.b)
     \/ /\ x \in PieceTokens
        /\ x.from.b # Empty /\ x.then.n = x.from.n
        /\ x.t = Piece(x.from.b) /\ x.then.b = AfterPiece(x.from.b)

\* A token A sent, having read the requests rs.
FromA(rs, x) ==
  \/ /\ x \in HeadTokens(RspHeads)
     /\ x.from.b = Empty /\ x.from.n < Len(rs)
     /\ x.then.n = IF Interim(x.h) THEN x.from.n ELSE x.from.n + 1
     /\ Match(RfcBody(x.h, TRUE, RfcNoBody(x.h, rs[x.from.n + 1].isHead)), x.then.b)
  \/ /\ x \in PieceTokens
     /\ x.from.b # Empty /\ x.then.n = x.from.n
     /\ \/ x.t = Piece(x.from.b) /\ x.then.b = AfterPiece(x.from.b)
        \/ x.t = "bad" /\ x.from.b.kind = "chunked" /\ x.then.b = x.from.b

WiresInOrder ==
  /\ \A i \in DOMAIN b2u : FromBridge(reqs, Written, b2u[i])
  /\ \A i \in DOMAIN u2b : FromA(areqs, u2b[i])
  /\ Len(areqs) <= Written

ReqWire == HeadTokens(RequestHeads) \cup PieceTokens
RspWire == HeadTokens(RspHeads) \cup PieceTokens

IInv == /\ TypeOK /\ Control /\ ChannelInOrder /\ WiresInOrder
        /\ RequestsInSync /\ ResponsesInSync

-----------------------------------------------------------------------------
(***************************************************************************)
(* The invariant holds initially and every action preserves it.            *)
(***************************************************************************)
LEMMA InitInv == Init => IInv
  <1> SUFFICES ASSUME Init PROVE IInv
    OBVIOUS
  <1>1. TypeOK
    <2>1. /\ <<>> \in Seq(ReqHeads) /\ <<>> \in Seq(BOOLEAN)
          /\ <<>> \in Seq(RequestHeads) /\ <<>> \in Seq(ReqWire)
          /\ <<>> \in Seq(RspWire)
      BY EmptySeq
    <2> QED  BY <2>1, EmptyIsBody DEF Init, TypeOK, ReqWire, RspWire
  <1>2. Control /\ ChannelInOrder /\ WiresInOrder
    BY BoundsAssumption DEF Init, Control, ChannelInOrder, WiresInOrder, Announced, Received,
           Written, Empty
  <1>3. RequestsInSync /\ ResponsesInSync
    BY DEF Init, RequestsInSync, ResponsesInSync, InStep, Pos, Match, Written,
           Parsed, Received, Announced
  <1> QED  BY <1>1, <1>2, <1>3 DEF IInv

LEMMA EndInv == ASSUME IInv, NEW r \in {"ok", "err"}, End(r) PROVE IInv'
  <1> USE DEF End, clientVars, reqVars, aVars, rspVars
  <1>1. TypeOK'
    BY DEF IInv, TypeOK
  <1>2. Control' /\ ChannelInOrder'
    BY DEF IInv, Control, ChannelInOrder, Announced, Received
  <1>3. WiresInOrder'
    BY DEF IInv, WiresInOrder, Written
  <1>4. RequestsInSync' /\ ResponsesInSync'
    BY DEF IInv, RequestsInSync, ResponsesInSync, InStep, Written, Parsed,
           Received, Announced
  <1> QED  BY <1>1, <1>2, <1>3, <1>4 DEF IInv

\* The client's and A's closing, the end of the requests loop.
LEMMA CloseInv ==
  ASSUME IInv,
         \/ \E how \in {"eof", "gone"} : ClientCloses(how)
         \/ AClose \/ ReqEof \/ ReqShutdown
  PROVE  IInv'
  <1> USE DEF ClientCloses, AClose, ReqEof, ReqShutdown, clientVars, reqVars,
              aVars, rspVars
  <1>1. TypeOK'
    BY DEF IInv, TypeOK
  <1>2. Control' /\ ChannelInOrder'
    BY DEF IInv, Control, ChannelInOrder, Announced, Received
  <1>3. WiresInOrder'
    BY DEF IInv, WiresInOrder, Written
  <1>4. RequestsInSync' /\ ResponsesInSync'
    BY DEF IInv, RequestsInSync, ResponsesInSync, InStep, Written, Parsed,
           Received, Announced
  <1> QED  BY <1>1, <1>2, <1>3, <1>4 DEF IInv

LEMMA ReqAcceptInv ==
  ASSUME IInv, NEW h \in ReqHeads, NEW k \in 0..MaxPieces, ReqAccept(h, k)
  PROVE  IInv'
  <1> USE DEF ReqAccept, clientVars, reqVars, aVars, rspVars
  <1>1. /\ reqs \in Seq(ReqHeads) /\ reqs' \in Seq(ReqHeads)
        /\ Len(reqs) \in Nat /\ Len(reqs') = Len(reqs) + 1
        /\ \A i \in 1..Len(reqs) : reqs'[i] = reqs[i]
    BY DEF IInv, TypeOK
  <1>2. Announced' = Announced /\ Received' = Received /\ Written' = Written
        /\ Parsed' = Parsed /\ Written = Len(reqs) /\ Announced = Len(reqs)
    BY <1>1 DEF Announced, Received, Written, Parsed
  <1>3. /\ qbody' = RfcBody(h, FALSE, FALSE) /\ qbody' \in Bodies
        /\ qbody'.kind # "eof" /\ cbody' \in Bodies /\ Match(qbody', cbody')
    <2>1. h \in RequestHeads /\ FramingOk(h, FALSE) /\ k \in Nat
      <3>1. h \in RequestHeads
        BY HeadsAssumption
      <3>2. FramingOk(h, FALSE)
        BY DEF RequestOk
      <3>3. k \in Nat
        BY BoundsAssumption
      <3> QED  BY <3>1, <3>2, <3>3
    <2> QED  BY <2>1, RequestFramingType, SendingType
  <1>4. TypeOK'
    BY <1>1, <1>3 DEF IInv, TypeOK
  <1>5. Control'
    <2>1. reqs' # <<>> /\ reqs'[Len(reqs')] = h
      BY <1>1
    <2>2. qpc' = "send" /\ qbody'.kind # "eof"
      BY <1>3
    <2> QED  BY <1>3, <2>1, <2>2 DEF IInv, Control
  <1>6. ChannelInOrder'
    <2>1. /\ chan \in Seq(BOOLEAN) /\ Len(chan) \in Nat /\ Len(chan) <= Len(reqs)
          /\ \A j \in 1..Len(chan) : chan[j] = reqs[Received + j].isHead
      BY <1>2 DEF IInv, TypeOK, ChannelInOrder
    <2>2. \A j \in 1..Len(chan) : Received + j \in 1..Len(reqs)
      BY <1>1, <1>2, <2>1 DEF Received
    <2> QED  BY <1>1, <1>2, <2>1, <2>2 DEF IInv, ChannelInOrder
  <1>7. WiresInOrder'
    <2>1. \A x : FromBridge(reqs, Written, x) => FromBridge(reqs', Written, x)
      BY <1>1, <1>2 DEF FromBridge
    <2> QED  BY <1>2, <2>1 DEF IInv, WiresInOrder
  <1>8. RequestsInSync'
    <2>1. InStep(aparse, Len(areqs), b2u, Empty, Written)
      BY DEF IInv, RequestsInSync
    <2>2. \A i \in DOMAIN areqs : areqs[i] = Rewritten(reqs[i]) /\ i \in 1..Len(reqs)
      BY <1>1, <1>2 DEF IInv, RequestsInSync, WiresInOrder, TypeOK
    <2> QED  BY <1>1, <1>2, <1>3, <2>1, <2>2 DEF RequestsInSync
  <1>9. ResponsesInSync'
    <2>1. rpc # "recv" => Received \in 1..Len(reqs)
      BY <1>1, <1>2 DEF IInv, ChannelInOrder, TypeOK, Received
    <2> QED  BY <1>1, <1>2, <2>1 DEF IInv, ResponsesInSync
  <1> QED  BY <1>4, <1>5, <1>6, <1>7, <1>8, <1>9 DEF IInv

LEMMA ReqSendInv == ASSUME IInv, ReqSend PROVE IInv'
  <1> USE DEF ReqSend, clientVars, aVars, rspVars
  <1>1. /\ reqs \in Seq(ReqHeads) /\ reqs # <<>> /\ Len(reqs) \in Nat \ {0}
        /\ chan \in Seq(BOOLEAN) /\ Len(chan) \in Nat /\ DOMAIN chan = 1..Len(chan)
    BY EmptySeq, LenProperties DEF IInv, TypeOK, Control
  <1>2. reqs[Len(reqs)].isHead \in BOOLEAN
    <2>1. reqs[Len(reqs)] \in RequestHeads
      BY <1>1, HeadsAssumption, ElementOfSeq
    <2> QED  BY <2>1 DEF RequestHeads
  <1>3. /\ chan' \in Seq(BOOLEAN) /\ Len(chan') = Len(chan) + 1
        /\ DOMAIN chan' = 1..(Len(chan) + 1)
        /\ \A j \in 1..Len(chan) : chan'[j] = chan[j]
        /\ chan'[Len(chan) + 1] = reqs[Len(reqs)].isHead
    BY <1>1, <1>2
  <1>4. /\ Announced' = Announced + 1 /\ Received' = Received
        /\ Written' = Written /\ Parsed' = Parsed
        /\ Announced = Len(reqs) - 1 /\ Received = Len(reqs) - 1 - Len(chan)
    BY <1>1, <1>3 DEF Announced, Received, Written, Parsed
  <1>5. TypeOK'
    BY <1>3 DEF IInv, TypeOK
  <1>6. Control'
    BY DEF IInv, Control
  <1>7. ChannelInOrder'
    <2>1. /\ Len(chan) <= Announced /\ (rpc # "recv" => Received > 0)
          /\ \A j \in 1..Len(chan) : chan[j] = reqs[Received + j].isHead
      BY <1>1 DEF IInv, ChannelInOrder
    <2>2. \A j \in 1..(Len(chan) + 1) : chan'[j] = reqs[Received + j].isHead
      <3> TAKE j \in 1..(Len(chan) + 1)
      <3>1. CASE j \in 1..Len(chan)
        BY <1>3, <2>1, <3>1
      <3>2. CASE j = Len(chan) + 1
        <4>1. Received + j = Len(reqs)
          BY <1>1, <1>4, <3>2
        <4> QED  BY <1>3, <3>2, <4>1
      <3> QED  BY <1>1, <3>1, <3>2
    <2>3. /\ Len(chan') <= Announced' /\ Len(chan') <= ChanCap
          /\ rpc' # "recv" => Received' > 0
      BY <1>1, <1>3, <1>4, <2>1, BoundsAssumption
    <2> QED  BY <1>3, <1>4, <2>2, <2>3 DEF ChannelInOrder
  <1>8. WiresInOrder'
    BY <1>4 DEF IInv, WiresInOrder
  <1>9. RequestsInSync' /\ ResponsesInSync'
    BY <1>4 DEF IInv, RequestsInSync, ResponsesInSync, InStep
  <1> QED  BY <1>5, <1>6, <1>7, <1>8, <1>9 DEF IInv

LEMMA RspRecvInv == ASSUME IInv, RspRecv PROVE IInv'
  <1> USE DEF RspRecv, clientVars, reqVars, aVars
  <1>1. /\ chan \in Seq(BOOLEAN) /\ chan # <<>> /\ Len(chan) \in Nat \ {0}
        /\ DOMAIN chan = 1..Len(chan)
        /\ Head(chan) = chan[1] /\ Head(chan) \in BOOLEAN
        /\ chan' \in Seq(BOOLEAN) /\ Len(chan') = Len(chan) - 1
        /\ DOMAIN chan' = 1..(Len(chan) - 1)
        /\ \A j \in 1..(Len(chan) - 1) : chan'[j] = chan[j + 1]
    BY EmptySeq, HeadTailProperties, LenProperties DEF IInv, TypeOK
  <1>2. Len(reqs) \in Nat
    BY DEF IInv, TypeOK
  <1>3. /\ Announced \in Int /\ Announced' = Announced /\ Received \in Int
        /\ Received' = Received + 1
        /\ Received = Announced - Len(chan)
        /\ Written' = Written /\ Parsed' = Parsed
    BY <1>1, <1>2 DEF Announced, Received, Written, Parsed
  <1>4. /\ Len(chan) <= Announced /\ Len(chan) <= ChanCap
        /\ \A j \in 1..Len(chan) : chan[j] = reqs[Received + j].isHead
    BY <1>1 DEF IInv, ChannelInOrder
  <1>5. TypeOK'
    BY <1>1 DEF IInv, TypeOK
  <1>6. Control'
    BY DEF IInv, Control
  <1>7. ChannelInOrder'
    <2>1. \A j \in 1..(Len(chan) - 1) : chan'[j] = reqs[Received' + j].isHead
      <3> TAKE j \in 1..(Len(chan) - 1)
      <3>1. j + 1 \in 1..Len(chan) /\ Received + (j + 1) = Received' + j
        BY <1>1, <1>3
      <3>2. chan[j + 1] = reqs[Received + (j + 1)].isHead
        BY <1>4, <3>1
      <3> QED  BY <1>1, <3>1, <3>2
    <2>2. Len(chan') <= Announced' /\ Len(chan') <= ChanCap /\ Received' > 0
      BY <1>1, <1>3, <1>4, BoundsAssumption
    <2> QED  BY <1>1, <2>1, <2>2 DEF ChannelInOrder
  <1>8. WiresInOrder'
    BY <1>3 DEF IInv, WiresInOrder
  <1>9. RequestsInSync'
    BY <1>3 DEF IInv, RequestsInSync, InStep
  <1>10. ResponsesInSync'
    <2>1. isHead' = reqs[Received'].isHead
      <3>1. chan[1] = reqs[Received + 1].isHead
        BY <1>1, <1>4
      <3> QED  BY <1>1, <1>3, <3>1
    <2> QED  BY <1>3, <2>1 DEF IInv, ResponsesInSync, InStep
  <1> QED  BY <1>5, <1>6, <1>7, <1>8, <1>9, <1>10 DEF IInv

LEMMA ReqWriteInv == ASSUME IInv, ReqWrite PROVE IInv'
  <1> USE DEF ReqWrite, clientVars, aVars, rspVars
  <1> DEFINE h == Rewritten(reqs[Len(reqs)])
             x == HeadToken(h, Pos(Empty, Written), Pos(cbody, Len(reqs)))
  <1>1. /\ reqs \in Seq(ReqHeads) /\ Len(reqs) \in Nat \ {0}
        /\ b2u \in Seq(ReqWire) /\ b2u' = Append(b2u, x)
        /\ cbody \in Bodies /\ qbody \in Bodies /\ Match(qbody, cbody)
    BY EmptySeq DEF IInv, TypeOK, Control, RequestsInSync, ReqWire
  <1>2. reqs[Len(reqs)] \in RequestHeads /\ reqs[Len(reqs)] \in ReqHeads
    BY <1>1, HeadsAssumption, ElementOfSeq
  <1>3. h \in RequestHeads /\ h.cl = reqs[Len(reqs)].cl /\ h.te = reqs[Len(reqs)].te
    <2>1. <<"A">> \in Seq({"B", "A", "foreign"})
      OBVIOUS
    <2> QED  BY <1>2, <2>1 DEF Rewritten, RequestHeads
  <1>4. /\ Written = Len(reqs) - 1 /\ Written' = Len(reqs)
        /\ Announced' = Announced /\ Received' = Received /\ Parsed' = Parsed
    BY DEF Written, Announced, Received, Parsed
  <1>5. x \in HeadTokens(RequestHeads) /\ x \in ReqWire
    BY <1>1, <1>3, <1>4, EmptyIsBody
       DEF HeadToken, HeadTokens, Positions, Pos, ReqWire
  <1>6. b2u' \in Seq(ReqWire)
    BY <1>1, <1>5, AppendElements
  <1>7. qbody = Empty <=> cbody = Empty
    BY <1>1, MatchEmpty
  <1>8. TypeOK'
    BY <1>6 DEF IInv, TypeOK, ReqWire
  <1>9. Control' /\ ChannelInOrder'
    BY <1>4 DEF IInv, Control, ChannelInOrder
  <1>10. WiresInOrder'
    <2>1. \A y : FromBridge(reqs, Written, y) => FromBridge(reqs', Written', y)
      <3>1. 1..Written \subseteq 1..Written' /\ reqs' = reqs
        BY <1>1, <1>4
      <3> QED  BY <3>1 DEF FromBridge
    <2>2. FromBridge(reqs', Written', x)
      <3>1. RfcBody(h, FALSE, FALSE) = RfcBody(reqs[Len(reqs)], FALSE, FALSE)
        BY <1>3 DEF RfcBody
      <3>2. Match(RfcBody(h, FALSE, FALSE), cbody)
        BY <1>1, <3>1 DEF IInv, Control
      <3>3. /\ x.from = Pos(Empty, Written) /\ x.then = Pos(cbody, Len(reqs))
            /\ x.h = h
        BY DEF HeadToken
      <3>4. x.then.n = Len(reqs) /\ x.from.n = Len(reqs) - 1
        BY <1>4, <3>3 DEF Pos
      <3>5. x.from.b = Empty /\ x.then.b = cbody
        BY <3>3 DEF Pos
      <3> HIDE DEF x
      <3>6. x.then.n \in 1..Written' /\ x.then.n = x.from.n + 1
        BY <1>1, <1>4, <3>4
      <3>7. x.h = Rewritten(reqs'[x.then.n])
        BY <3>3, <3>4
      <3> HIDE DEF h
      <3> QED  BY <1>5, <3>2, <3>3, <3>5, <3>6, <3>7 DEF FromBridge
    <2>3. \A i \in DOMAIN b2u : FromBridge(reqs', Written', b2u[i])
      BY <2>1 DEF IInv, WiresInOrder
    <2> HIDE DEF x
    <2>4. \A i \in DOMAIN b2u' : FromBridge(reqs', Written', b2u'[i])
      BY <1>1, <1>5, <2>2, <2>3, AppendElements
    <2>5. \A i \in DOMAIN u2b' : FromA(areqs', u2b'[i])
      BY DEF IInv, WiresInOrder
    <2>6. (Len(areqs) <= Written)'
      <3>1. Len(areqs) \in Nat /\ Len(areqs) <= Written
        BY DEF IInv, TypeOK, WiresInOrder
      <3> QED  BY <1>1, <1>4, <3>1
    <2> QED  BY <2>4, <2>5, <2>6 DEF WiresInOrder
  <1>11. RequestsInSync'
    <2>1. /\ InStep(aparse, Len(areqs), b2u, Empty, Written)
          /\ \A i \in DOMAIN areqs : areqs[i] = Rewritten(reqs[i])
      BY DEF IInv, RequestsInSync
    <2>2. x.from = Pos(Empty, Written) /\ x.then = Pos(cbody, Len(reqs))
      BY DEF HeadToken
    <2> HIDE DEF x
    <2>3. InStep(aparse, Len(areqs), b2u', cbody, Len(reqs))
      BY <1>1, <1>5, <2>1, <2>2, InStepAppend
    <2>4. (IF qpc' = "body" THEN cbody' ELSE Empty) = cbody
      BY <1>7
    <2> QED  BY <1>1, <1>4, <2>1, <2>3, <2>4 DEF RequestsInSync
  <1>12. ResponsesInSync'
    BY <1>4 DEF IInv, ResponsesInSync, InStep
  <1> QED  BY <1>8, <1>9, <1>10, <1>11, <1>12 DEF IInv

LEMMA ReqBodyInv == ASSUME IInv, ReqBody PROVE IInv'
  <1> USE DEF ReqBody, clientVars, aVars, rspVars
  <1> DEFINE x == PieceToken(Piece(cbody), Pos(cbody, Written),
                             Pos(AfterPiece(cbody), Written))
  <1>1. /\ b2u \in Seq(ReqWire) /\ b2u' = Append(b2u, x)
        /\ cbody \in Bodies /\ qbody \in Bodies /\ Match(qbody, cbody)
        /\ qbody # Empty /\ qbody.kind # "eof"
    BY DEF IInv, TypeOK, Control, RequestsInSync, ReqWire
  <1>2. cbody # Empty /\ cbody.kind # "eof"
    BY <1>1, MatchEmpty DEF Match
  <1>3. /\ cbody' \in Bodies /\ Match(qbody', cbody')
        /\ qbody' \in Bodies /\ qbody'.kind # "eof"
    <2>1. qbody' = Consume(qbody, Piece(cbody)) /\ cbody' = AfterPiece(cbody)
      OBVIOUS
    <2> QED  BY <1>1, <1>2, <2>1, PieceStep, ConsumeType
  <1>4. qbody' = Empty <=> cbody' = Empty
    BY <1>3, MatchEmpty
  <1>5. /\ Written' = Written /\ Written = Len(reqs) /\ Announced' = Announced
        /\ Received' = Received /\ Parsed' = Parsed /\ Written \in Nat
    BY DEF Written, Announced, Received, Parsed, IInv, TypeOK
  <1>6. x \in PieceTokens /\ x \in ReqWire
    <2>1. Piece(cbody) \in {"data", "chunk", "last"}
      BY <1>1 DEF Piece, Bodies
    <2> QED  BY <1>1, <1>3, <1>5, <2>1 DEF PieceToken, PieceTokens, Positions, Pos, ReqWire
  <1>7. /\ x.from = Pos(cbody, Written) /\ x.then = Pos(cbody', Written)
        /\ x.t = Piece(cbody)
    BY DEF PieceToken
  <1>8. /\ x.from.b = cbody /\ x.from.n = Written
        /\ x.then.b = AfterPiece(cbody) /\ x.then.n = Written
    BY <1>7 DEF Pos
  <1> HIDE DEF x
  <1>9. TypeOK'
    <2>1. b2u' \in Seq(ReqWire)
      BY <1>1, <1>6, AppendElements
    <2> QED  BY <1>3, <2>1 DEF IInv, TypeOK, ReqWire
  <1>10. Control' /\ ChannelInOrder'
    BY <1>3, <1>5 DEF IInv, Control, ChannelInOrder
  <1>11. WiresInOrder'
    <2>1. \A y : FromBridge(reqs, Written, y) => FromBridge(reqs', Written', y)
      BY <1>5 DEF FromBridge
    <2>2. FromBridge(reqs', Written', x)
      <3>1. Written > 0
        <4>1. reqs # <<>> /\ reqs \in Seq(ReqHeads)
          BY DEF IInv, Control, TypeOK
        <4> QED  BY <1>5, <4>1, EmptySeq
      <3>2. x.then.n \in 1..Written' /\ x.then.n = x.from.n
        BY <1>5, <1>8, <3>1
      <3>3. x.from.b # Empty /\ x.t = Piece(x.from.b) /\ x.then.b = AfterPiece(x.from.b)
        BY <1>2, <1>7, <1>8
      <3> QED  BY <1>6, <3>2, <3>3 DEF FromBridge
    <2>3. \A i \in DOMAIN b2u : FromBridge(reqs', Written', b2u[i])
      BY <2>1 DEF IInv, WiresInOrder
    <2>4. \A i \in DOMAIN b2u' : FromBridge(reqs', Written', b2u'[i])
      BY <1>1, <1>6, <2>2, <2>3, AppendElements
    <2>5. \A i \in DOMAIN u2b' : FromA(areqs', u2b'[i])
      BY DEF IInv, WiresInOrder
    <2> QED  BY <1>5, <2>4, <2>5 DEF IInv, WiresInOrder
  <1>12. RequestsInSync'
    <2>1. /\ InStep(aparse, Len(areqs), b2u, cbody, Written)
          /\ \A i \in DOMAIN areqs : areqs[i] = Rewritten(reqs[i])
      BY DEF IInv, RequestsInSync
    <2>2. InStep(aparse, Len(areqs), b2u', cbody', Written)
      BY <1>1, <1>6, <1>7, <2>1, InStepAppend
    <2>3. (IF qpc' = "body" THEN cbody' ELSE Empty) = cbody'
      BY <1>4
    <2> QED  BY <1>3, <1>5, <2>1, <2>2, <2>3 DEF RequestsInSync
  <1>13. ResponsesInSync'
    BY <1>5 DEF IInv, ResponsesInSync, InStep
  <1> QED  BY <1>9, <1>10, <1>11, <1>12, <1>13 DEF IInv

\* The bodiless responses of the bridge are those of RFC 9112.
LEMMA NoBodyIsRfc ==
  ASSUME NEW h \in ResponseHeads, NEW flag \in BOOLEAN
  PROVE  /\ NoBody(h, flag) = RfcNoBody(h, flag)
         /\ NoBody(h, flag) \in BOOLEAN
         /\ Interim(h) => NoBody(h, flag)
  BY DEF NoBody, RfcNoBody, Interim, ResponseHeads

\* What the responses future finds at the head of its wire.
LEMMA NextToken ==
  ASSUME IInv, u2b # <<>>
  PROVE  /\ u2b \in Seq(RspWire) /\ Head(u2b) = u2b[1] /\ u2b[1] \in RspWire
         /\ FromA(areqs, u2b[1])
         /\ Match(rbody, u2b[1].from.b) /\ Parsed = u2b[1].from.n
         /\ rbody \in Bodies /\ u2b[1].from \in Positions /\ u2b[1].then \in Positions
         /\ \A i \in DOMAIN Tail(u2b) : FromA(areqs, Tail(u2b)[i])
         /\ Tail(u2b) \in Seq(RspWire)
  <1>1. u2b \in Seq(RspWire) /\ rbody \in Bodies
    BY DEF IInv, TypeOK, RspWire
  <1>2. /\ Tail(u2b) \in Seq(RspWire) /\ Head(u2b) = u2b[1] /\ 1 \in DOMAIN u2b
        /\ u2b[1] \in RspWire
        /\ \A i \in DOMAIN Tail(u2b) : \E j \in DOMAIN u2b : Tail(u2b)[i] = u2b[j]
    BY <1>1, TailElements
  <1>3. \A j \in DOMAIN u2b : FromA(areqs, u2b[j])
    BY DEF IInv, WiresInOrder
  <1>4. Match(rbody, u2b[1].from.b) /\ Parsed = u2b[1].from.n
    BY <1>1, InStepHead DEF IInv, ResponsesInSync
  <1>5. u2b[1].from \in Positions /\ u2b[1].then \in Positions
    BY <1>2 DEF RspWire, HeadTokens, PieceTokens
  <1> QED  BY <1>1, <1>2, <1>3, <1>4, <1>5

LEMMA RspHeadInv == ASSUME IInv, RspHead PROVE IInv'
  <1> USE DEF RspHead, clientVars, reqVars, aVars
  <1> DEFINE x == u2b[1]
             h == x.h
             kind == Framing(h, TRUE, NoBody(h, isHead))
  <1>1. u2b # <<>> /\ u2b' = Tail(u2b) /\ rpc = "head" /\ Head(u2b) = x
    BY NextToken
  <1>2. /\ x \in RspWire /\ FromA(areqs, x) /\ rbody \in Bodies
        /\ Match(rbody, x.from.b) /\ Parsed = x.from.n
        /\ x.from \in Positions /\ x.then \in Positions
    BY <1>1, NextToken
  <1>3. rbody = Empty /\ x.from.b = Empty
    <2>1. rbody = Empty
      BY <1>1 DEF IInv, Control
    <2> QED  BY <1>2, <2>1, MatchEmpty DEF Positions
  <1>4. /\ x \in HeadTokens(RspHeads) /\ x.from.n < Len(areqs)
        /\ x.then.n = IF Interim(h) THEN x.from.n ELSE x.from.n + 1
        /\ Match(RfcBody(h, TRUE, RfcNoBody(h, areqs[x.from.n + 1].isHead)), x.then.b)
    BY <1>2, <1>3 DEF FromA
  <1>5. h \in ResponseHeads /\ h.cl \in Seq(Int) /\ h.te \in Seq({"chunked", "other"})
    BY <1>4, HeadsAssumption DEF HeadTokens, ResponseHeads
  <1>6. areqs[x.from.n + 1].isHead = isHead /\ isHead \in BOOLEAN
    <2>1. /\ areqs \in Seq(RequestHeads) /\ Len(areqs) \in Nat
          /\ isHead = reqs[Received].isHead /\ isHead \in BOOLEAN
          /\ \A i \in DOMAIN areqs : areqs[i] = Rewritten(reqs[i])
      BY <1>1 DEF IInv, TypeOK, ResponsesInSync, RequestsInSync
    <2>2. x.from.n \in Nat /\ x.from.n = Received - 1
      BY <1>1, <1>2 DEF Parsed, Positions
    <2>3. x.from.n + 1 \in DOMAIN areqs
      BY <1>4, <2>1, <2>2
    <2>4. Received \in Int
      BY DEF Received, Announced, IInv, TypeOK
    <2>5. x.from.n + 1 = Received
      BY <2>2, <2>4
    <2>6. areqs[Received].isHead = Rewritten(reqs[Received]).isHead
      BY <2>1, <2>3, <2>5
    <2>7. Rewritten(reqs[Received]).isHead = reqs[Received].isHead
      <3>1. reqs[Received] \in RequestHeads
        <4>1. reqs \in Seq(ReqHeads) /\ Len(reqs) \in Nat /\ Len(chan) \in Nat
          BY DEF IInv, TypeOK
        <4>2. Received \in 1..Len(reqs)
          BY <1>1, <2>2, <2>4, <4>1 DEF Received, Announced
        <4> QED  BY <4>1, <4>2, ElementOfSeq, HeadsAssumption
      <3> QED  BY <3>1 DEF Rewritten, RequestHeads
    <2> QED  BY <2>1, <2>5, <2>6, <2>7
  <1>7. kind = RfcBody(h, TRUE, RfcNoBody(h, isHead)) /\ kind \in Bodies
    <2>1. FramingOk(h, NoBody(h, isHead))
      BY <1>1 DEF ResponseOk
    <2>2. NoBody(h, isHead) = RfcNoBody(h, isHead) /\ NoBody(h, isHead) \in BOOLEAN
      BY <1>5, <1>6, NoBodyIsRfc
    <2>3. kind = RfcBody(h, TRUE, NoBody(h, isHead))
      BY <1>5, <2>1, <2>2, FramingIsRfc
    <2> HIDE DEF kind
    <2> QED  BY <1>5, <2>2, <2>3, RfcBodyType
  <1>8. Match(kind, x.then.b)
    BY <1>4, <1>6, <1>7
  <1>9. rbody' = kind /\ rpc' = AfterHead(h, kind)
    BY <1>1
  <1>10. kind # Empty => ~Interim(h)
    <2>1. Interim(h) => NoBody(h, isHead)
      BY <1>5, <1>6, NoBodyIsRfc
    <2> QED  BY <2>1 DEF Framing
  <1> HIDE DEF h, kind, x
  <1>11. /\ Announced' = Announced /\ Received' = Received /\ Received \in Int
         /\ Written' = Written /\ Parsed' = x.then.n
    <2>1. /\ Announced' = Announced /\ Received' = Received /\ Received \in Int
          /\ Written' = Written
      BY DEF Announced, Received, Written, IInv, TypeOK
    <2>2. Parsed = Received - 1 /\ x.from.n = Received - 1
      BY <1>1, <1>2 DEF Parsed
    <2>3. CASE Interim(h)
      <3>1. rpc' = "head"
        BY <1>9, <1>10, <2>3 DEF AfterHead
      <3> QED  BY <1>4, <2>1, <2>2, <2>3, <3>1 DEF Parsed
    <2>4. CASE ~Interim(h)
      <3>1. rpc' # "head"
        BY <1>9, <2>4 DEF AfterHead
      <3> QED  BY <1>4, <2>1, <2>2, <2>4, <3>1 DEF Parsed
    <2> QED  BY <2>1, <2>3, <2>4
  <1>12. TypeOK'
    <2>1. u2b' \in Seq(RspWire)
      BY <1>1, NextToken
    <2>2. rpc' \in {"recv", "head", "body"}
      BY <1>9 DEF AfterHead
    <2> QED  BY <1>7, <1>9, <2>1, <2>2 DEF IInv, TypeOK, RspWire
  <1>13. Control'
    <2>1. rpc' = "body" <=> rbody' # Empty
      BY <1>9 DEF AfterHead
    <2> QED  BY <2>1 DEF IInv, Control
  <1>14. ChannelInOrder'
    BY <1>1, <1>11 DEF IInv, ChannelInOrder
  <1>15. WiresInOrder'
    BY <1>1, <1>11, NextToken DEF IInv, WiresInOrder
  <1>16. RequestsInSync'
    BY <1>11 DEF IInv, RequestsInSync, InStep
  <1>17. ResponsesInSync'
    <2>1. InStep(rbody, Parsed, u2b, abody, aans) /\ u2b \in Seq(RspWire)
      BY <1>1, NextToken DEF IInv, ResponsesInSync
    <2>2. InStep(kind, x.then.n, Tail(u2b), abody, aans)
      BY <1>1, <1>8, <2>1, InStepTail DEF x
    <2>3. isHead' = reqs'[Received'].isHead
      BY <1>1, <1>11 DEF IInv, ResponsesInSync
    <2> QED  BY <1>1, <1>9, <1>11, <2>2, <2>3 DEF ResponsesInSync
  <1> QED  BY <1>12, <1>13, <1>14, <1>15, <1>16, <1>17 DEF IInv

LEMMA RspBodyInv == ASSUME IInv, RspBody PROVE IInv'
  <1> USE DEF RspBody, clientVars, reqVars, aVars
  <1> DEFINE x == u2b[1]
  <1>1. u2b # <<>> /\ u2b' = Tail(u2b) /\ rpc = "body" /\ Head(u2b) = x
    BY NextToken
  <1>2. /\ x \in RspWire /\ FromA(areqs, x) /\ rbody \in Bodies
        /\ Match(rbody, x.from.b) /\ Parsed = x.from.n
        /\ x.from \in Positions /\ x.then \in Positions
    BY <1>1, NextToken
  <1>3. rbody # Empty /\ x.from.b # Empty /\ x.from.b \in Bodies
    <2>1. rbody # Empty
      BY <1>1 DEF IInv, Control
    <2> QED  BY <1>2, <2>1, MatchEmpty DEF Positions
  <1>4. /\ x \in PieceTokens /\ x.then.n = x.from.n
        /\ \/ x.t = Piece(x.from.b) /\ x.then.b = AfterPiece(x.from.b)
           \/ x.t = "bad" /\ x.from.b.kind = "chunked" /\ x.then.b = x.from.b
    BY <1>2, <1>3 DEF FromA
  <1>5. x.t = Piece(x.from.b) /\ x.then.b = AfterPiece(x.from.b)
    BY <1>1, <1>2, <1>4 DEF Match
  <1>6. rbody' = Consume(rbody, x.t) /\ rbody' \in Bodies
    BY <1>1, <1>2, ConsumeType
  <1>7. Match(rbody', x.then.b)
    <2>1. CASE x.from.b.kind = "eof"
      BY <1>2, <1>5, <1>6, <2>1 DEF Consume, AfterPiece, Match
    <2>2. CASE x.from.b.kind # "eof"
      BY <1>2, <1>3, <1>5, <1>6, <2>2, PieceStep
    <2> QED  BY <2>1, <2>2
  <1> HIDE DEF x
  <1>8. rpc' = IF rbody' = Empty THEN "recv" ELSE "body"
    OBVIOUS
  <1>9. /\ Announced' = Announced /\ Received' = Received /\ Written' = Written
        /\ Parsed' = x.then.n
    BY <1>1, <1>2, <1>4, <1>8 DEF Announced, Received, Written, Parsed
  <1>10. TypeOK'
    <2>1. u2b' \in Seq(RspWire)
      BY <1>1, NextToken
    <2> QED  BY <1>6, <1>8, <2>1 DEF IInv, TypeOK, RspWire
  <1>11. Control' /\ ChannelInOrder'
    BY <1>1, <1>8, <1>9 DEF IInv, Control, ChannelInOrder
  <1>12. WiresInOrder'
    BY <1>1, <1>9, NextToken DEF IInv, WiresInOrder
  <1>13. RequestsInSync'
    BY <1>9 DEF IInv, RequestsInSync, InStep
  <1>14. ResponsesInSync'
    <2>1. InStep(rbody, Parsed, u2b, abody, aans) /\ u2b \in Seq(RspWire)
      BY <1>1, NextToken DEF IInv, ResponsesInSync
    <2>2. InStep(rbody', x.then.n, Tail(u2b), abody, aans)
      BY <1>1, <1>7, <2>1, InStepTail DEF x
    <2>3. isHead' = reqs'[Received'].isHead
      BY <1>1, <1>9 DEF IInv, ResponsesInSync
    <2> QED  BY <1>1, <1>9, <2>2, <2>3 DEF ResponsesInSync
  <1> QED  BY <1>10, <1>11, <1>12, <1>13, <1>14 DEF IInv

LEMMA AReadInv == ASSUME IInv, ARead PROVE IInv'
  <1> USE DEF ARead, clientVars, reqVars, rspVars
  <1> DEFINE x == b2u[1]
  <1>1. /\ b2u \in Seq(ReqWire) /\ b2u # <<>> /\ b2u' = Tail(b2u)
        /\ areqs \in Seq(RequestHeads) /\ Len(areqs) \in Nat /\ aparse \in Bodies
    BY DEF IInv, TypeOK, ReqWire
  <1>2. /\ Tail(b2u) \in Seq(ReqWire) /\ Head(b2u) = x /\ 1 \in DOMAIN b2u
        /\ x \in ReqWire
        /\ \A i \in DOMAIN Tail(b2u) : \E j \in DOMAIN b2u : Tail(b2u)[i] = b2u[j]
    BY <1>1, TailElements
  <1>3. \A j \in DOMAIN b2u : FromBridge(reqs, Written, b2u[j])
    BY DEF IInv, WiresInOrder
  <1>4. FromBridge(reqs, Written, x)
    BY <1>2, <1>3
  <1> DEFINE b == IF qpc = "body" THEN cbody ELSE Empty
  <1>5. InStep(aparse, Len(areqs), b2u, b, Written)
    BY DEF IInv, RequestsInSync
  <1>6. Match(aparse, x.from.b) /\ Len(areqs) = x.from.n /\ x.from \in Positions
    BY <1>1, <1>2, <1>5, InStepHead DEF ReqWire, HeadTokens, PieceTokens
  <1>7. aparse = Empty <=> x.from.b = Empty
    BY <1>1, <1>6, MatchEmpty DEF Positions
  <1>8. /\ Written' = Written /\ Announced' = Announced /\ Received' = Received
        /\ Parsed' = Parsed /\ Written \in Int
    BY DEF Written, Announced, Received, Parsed, IInv, TypeOK
  \* The wire, whatever A read from it.
  <1>9. ASSUME /\ Match(aparse', x.then.b) /\ Len(areqs') = x.then.n
               /\ aparse' \in Bodies /\ areqs' \in Seq(RequestHeads)
               /\ \A i \in DOMAIN areqs' : areqs'[i] = Rewritten(reqs[i])
               /\ \A i \in DOMAIN areqs : areqs'[i] = areqs[i]
               /\ Len(areqs) <= Len(areqs') /\ Len(areqs') \in Nat
        PROVE  IInv'
    <2>1. TypeOK'
      BY <1>1, <1>2, <1>9 DEF IInv, TypeOK, ReqWire
    <2>2. Control'
      <3>1. aans \in Nat /\ aans <= Len(areqs)
        BY DEF IInv, TypeOK, Control
      <3>2. aans <= Len(areqs')
        BY <1>1, <1>9, <3>1
      <3> QED  BY <3>2 DEF IInv, Control
    <2>3. ChannelInOrder'
      BY <1>8 DEF IInv, ChannelInOrder
    <2>4. WiresInOrder'
      <3>1. \A i \in DOMAIN b2u' : FromBridge(reqs', Written', b2u'[i])
        BY <1>1, <1>2, <1>3, <1>8
      <3>2. \A y \in RspWire : FromA(areqs, y) => FromA(areqs', y)
        <4> TAKE y \in RspWire
        <4>1. y.from.n \in Nat
          BY DEF RspWire, HeadTokens, PieceTokens, Positions
        <4>2. y.from.n < Len(areqs) => y.from.n < Len(areqs')
          BY <1>1, <1>9, <4>1
        <4>3. y.from.n < Len(areqs) => areqs'[y.from.n + 1] = areqs[y.from.n + 1]
          <5>1. y.from.n < Len(areqs) => y.from.n + 1 \in DOMAIN areqs
            BY <1>1, <4>1
          <5> QED  BY <1>9, <5>1
        <4> QED  BY <4>2, <4>3 DEF FromA
      <3>3. \A i \in DOMAIN u2b : u2b[i] \in RspWire /\ FromA(areqs, u2b[i])
        BY ElementOfSeq DEF IInv, TypeOK, WiresInOrder, RspWire
      <3>4. \A i \in DOMAIN u2b' : FromA(areqs', u2b'[i])
        BY <3>2, <3>3
      <3>5. Len(areqs') <= Written'
        BY <1>4, <1>8, <1>9 DEF FromBridge
      <3> QED  BY <3>1, <3>4, <3>5 DEF WiresInOrder
    <2>5. RequestsInSync'
      <3>1. InStep(aparse', Len(areqs'), Tail(b2u), b, Written)
        <4> HIDE DEF b
        <4> QED  BY <1>1, <1>5, <1>9, InStepTail
      <3>2. Match(qbody', cbody')
        BY DEF IInv, RequestsInSync
      <3> QED  BY <1>1, <1>8, <1>9, <3>1, <3>2 DEF RequestsInSync
    <2>6. ResponsesInSync'
      BY <1>8 DEF IInv, ResponsesInSync, InStep
    <2> QED  BY <2>1, <2>2, <2>3, <2>4, <2>5, <2>6 DEF IInv
  <1>10. CASE aparse = Empty
    <2>1. /\ x \in HeadTokens(RequestHeads) /\ x.then.n = x.from.n + 1
          /\ x.h = Rewritten(reqs[x.then.n])
          /\ Match(RfcBody(x.h, FALSE, FALSE), x.then.b)
      BY <1>4, <1>7, <1>10 DEF FromBridge
    <2>2. x.h \in RequestHeads /\ x.h.cl \in Seq(Int)
      BY <2>1 DEF HeadTokens, RequestHeads
    <2>3. areqs' = Append(areqs, x.h) /\ aparse' = RfcBody(x.h, FALSE, FALSE)
      BY <1>2, <1>10
    <2>4. aparse' \in Bodies
      BY <2>2, <2>3, RfcBodyType
    <2> HIDE DEF x
    <2>5. /\ areqs' \in Seq(RequestHeads) /\ Len(areqs') = Len(areqs) + 1
          /\ DOMAIN areqs' = 1..(Len(areqs) + 1) /\ DOMAIN areqs = 1..Len(areqs)
          /\ \A i \in 1..Len(areqs) : areqs'[i] = areqs[i]
          /\ areqs'[Len(areqs) + 1] = x.h
      BY <1>1, <2>2, <2>3
    <2>6. Len(areqs') = x.then.n /\ x.then.n = Len(areqs) + 1
      BY <1>6, <2>1, <2>5
    <2>7. \A i \in DOMAIN areqs' : areqs'[i] = Rewritten(reqs[i])
      <3>1. \A i \in 1..Len(areqs) : areqs[i] = Rewritten(reqs[i])
        BY <2>5 DEF IInv, RequestsInSync
      <3> QED  BY <1>1, <2>1, <2>5, <2>6, <3>1
    <2>8. Match(aparse', x.then.b)
      BY <2>1, <2>3
    <2>9. Len(areqs) <= Len(areqs') /\ Len(areqs') \in Nat
      BY <1>1, <2>5
    <2>10. \A i \in DOMAIN areqs : areqs'[i] = areqs[i]
      BY <2>5
    <2> QED  BY <1>9, <2>4, <2>5, <2>6, <2>7, <2>8, <2>9, <2>10
  <1>11. CASE aparse # Empty
    <2>1. /\ x.then.n = x.from.n
          /\ x.t = Piece(x.from.b) /\ x.then.b = AfterPiece(x.from.b)
      BY <1>4, <1>7, <1>11 DEF FromBridge
    <2>2. aparse' = Consume(aparse, x.t) /\ areqs' = areqs
      BY <1>2, <1>11
    <2>3. aparse' \in Bodies
      BY <1>1, <2>2, ConsumeType
    <2>4. Match(aparse', x.then.b)
      <3>1. CASE x.from.b.kind = "eof"
        BY <1>1, <1>6, <2>1, <2>2, <3>1 DEF Consume, AfterPiece, Match
      <3>2. CASE x.from.b.kind # "eof"
        <4>1. x.from.b \in Bodies /\ x.from.b # Empty
          BY <1>6, <1>7, <1>11 DEF Positions
        <4> QED  BY <1>1, <1>6, <2>1, <2>2, <3>2, <4>1, PieceStep
      <3> QED  BY <3>1, <3>2
    <2>5. \A i \in DOMAIN areqs : areqs[i] = Rewritten(reqs[i])
      BY DEF IInv, RequestsInSync
    <2> QED  BY <1>1, <1>6, <1>9, <2>1, <2>2, <2>3, <2>4, <2>5
  <1> QED  BY <1>10, <1>11

\* What a token A appends to its wire must be for the invariant to hold.
LEMMA ASends ==
  ASSUME IInv, NEW x \in RspWire, u2b' = Append(u2b, x), FromA(areqs, x),
         x.from = Pos(abody, aans), x.then = Pos(abody', aans'),
         aans' \in Nat, aans' <= Len(areqs), abody' \in Bodies, aint' \in Nat,
         UNCHANGED <<clientVars, reqVars, chan, b2u, areqs, aparse, aClosed,
                     rspVars, result>>
  PROVE  IInv'
  <1> USE DEF clientVars, reqVars, rspVars
  <1>1. u2b \in Seq(RspWire)
    BY DEF IInv, TypeOK, RspWire
  <1>2. /\ u2b' \in Seq(RspWire)
        /\ \A i \in DOMAIN u2b' : \/ u2b'[i] = x
                                  \/ \E j \in DOMAIN u2b : u2b'[i] = u2b[j]
    BY <1>1, AppendElements
  <1>3. /\ Written' = Written /\ Announced' = Announced /\ Received' = Received
        /\ Parsed' = Parsed
    BY DEF Written, Announced, Received, Parsed
  <1>4. TypeOK'
    BY <1>2 DEF IInv, TypeOK, RspWire
  <1>5. Control' /\ ChannelInOrder'
    BY <1>3 DEF IInv, Control, ChannelInOrder
  <1>6. WiresInOrder'
    BY <1>2, <1>3 DEF IInv, WiresInOrder
  <1>7. RequestsInSync'
    BY <1>3 DEF IInv, RequestsInSync, InStep
  <1>8. ResponsesInSync'
    <2>1. InStep(rbody, Parsed, u2b, abody, aans)
      BY DEF IInv, ResponsesInSync
    <2>2. InStep(rbody, Parsed, u2b', abody', aans')
      BY <1>1, <2>1, InStepAppend
    <2> QED  BY <1>3, <2>2 DEF IInv, ResponsesInSync
  <1> QED  BY <1>4, <1>5, <1>6, <1>7, <1>8 DEF IInv

LEMMA AStartInv ==
  ASSUME IInv, NEW h \in RspHeads, NEW k \in 0..MaxPieces, AStart(h, k)
  PROVE  IInv'
  <1> USE DEF AStart
  <1> DEFINE x == HeadToken(h, Pos(Empty, aans), Pos(abody', aans'))
             body == RfcBody(h, TRUE, RfcNoBody(h, areqs[aans + 1].isHead))
  <1>1. /\ aans \in Nat /\ aint \in Nat /\ Len(areqs) \in Nat /\ aans < Len(areqs)
        /\ abody = Empty /\ areqs \in Seq(RequestHeads)
    BY DEF IInv, TypeOK
  <1>2. h \in ResponseHeads /\ h.cl \in Seq(Int) /\ k \in Nat
    <2>1. h \in ResponseHeads
      BY HeadsAssumption
    <2>2. k \in Nat
      BY BoundsAssumption
    <2> QED  BY <2>1, <2>2 DEF ResponseHeads
  <1>3. body \in Bodies
    <2>1. areqs[aans + 1].isHead \in BOOLEAN
      <3>1. aans + 1 \in 1..Len(areqs)
        BY <1>1
      <3>2. areqs[aans + 1] \in RequestHeads
        BY <1>1, <3>1, ElementOfSeq
      <3> QED  BY <3>2 DEF RequestHeads
    <2>2. RfcNoBody(h, areqs[aans + 1].isHead) \in BOOLEAN
      BY <2>1 DEF RfcNoBody
    <2> QED  BY <1>2, <2>2, RfcBodyType
  <1>4. abody' \in Bodies /\ Match(body, abody')
    <2>1. abody' = Sending(body, k)
      OBVIOUS
    <2> HIDE DEF body
    <2> QED  BY <1>2, <1>3, <2>1, SendingType
  <1>5. /\ aans' = IF Interim(h) THEN aans ELSE aans + 1
        /\ aint' \in Nat /\ aans' \in Nat /\ aans' <= Len(areqs)
    BY <1>1 DEF Interim
  <1>6. x \in HeadTokens(RspHeads) /\ x \in RspWire
    BY <1>1, <1>4, <1>5, EmptyIsBody
       DEF HeadToken, HeadTokens, Positions, Pos, RspWire
  <1>7. x.from = Pos(abody, aans) /\ x.then = Pos(abody', aans') /\ x.h = h
    BY <1>1 DEF HeadToken
  <1>8. u2b' = Append(u2b, x)
    OBVIOUS
  <1> HIDE DEF x
  <1>9. FromA(areqs, x)
    <2>1. /\ x.from.b = Empty /\ x.from.n = aans /\ x.then.n = aans'
          /\ x.then.b = abody'
      BY <1>1, <1>7 DEF Pos
    <2> QED  BY <1>1, <1>4, <1>5, <1>6, <1>7, <2>1 DEF FromA
  <1> QED  BY <1>4, <1>5, <1>6, <1>7, <1>8, <1>9, ASends

LEMMA APieceInv == ASSUME IInv, ABody \/ ABadChunk PROVE IInv'
  <1> USE DEF ABody, ABadChunk, aVars
  <1>1. /\ abody \in Bodies /\ aans \in Nat /\ aint \in Nat
        /\ Len(areqs) \in Nat /\ aans <= Len(areqs)
    BY DEF IInv, TypeOK, Control
  <1>2. abody # Empty
    BY DEF Empty
  <1>3. CASE ABody
    <2> DEFINE x == PieceToken(Piece(abody), Pos(abody, aans), Pos(abody', aans))
    <2>1. abody' = AfterPiece(abody) /\ abody' \in Bodies
      BY <1>1, <1>2, <1>3 DEF AfterPiece, Bodies, Empty
    <2>2. x \in PieceTokens /\ x \in RspWire
      BY <1>1, <2>1 DEF Piece, Bodies, PieceToken, PieceTokens, Positions, Pos, RspWire
    <2>3. /\ x.t = Piece(abody) /\ x.from = Pos(abody, aans)
          /\ x.then = Pos(abody', aans)
      BY DEF PieceToken
    <2>4. u2b' = Append(u2b, x)
      BY <1>3
    <2> HIDE DEF x
    <2>5. FromA(areqs, x)
      <3>1. /\ x.from.b = abody /\ x.from.n = aans
            /\ x.then.b = AfterPiece(abody) /\ x.then.n = aans
        BY <2>1, <2>3 DEF Pos
      <3> QED  BY <1>2, <2>2, <2>3, <3>1 DEF FromA
    <2> QED  BY <1>1, <1>3, <2>1, <2>2, <2>3, <2>4, <2>5, ASends
  <1>4. CASE ABadChunk
    <2> DEFINE x == PieceToken("bad", Pos(abody, aans), Pos(abody, aans))
    <2>1. x \in PieceTokens /\ x \in RspWire
      BY <1>1 DEF PieceToken, PieceTokens, Positions, Pos, RspWire
    <2>2. /\ x.t = "bad" /\ x.from = Pos(abody, aans) /\ x.then = Pos(abody, aans)
      BY DEF PieceToken
    <2>3. u2b' = Append(u2b, x) /\ abody.kind = "chunked"
      BY <1>4
    <2> HIDE DEF x
    <2>4. FromA(areqs, x)
      <3>1. /\ x.from.b = abody /\ x.from.n = aans
            /\ x.then.b = abody /\ x.then.n = aans
        BY <2>2 DEF Pos
      <3> QED  BY <1>2, <2>1, <2>2, <2>3, <3>1 DEF FromA
    <2> QED  BY <1>1, <1>4, <2>1, <2>2, <2>3, <2>4, ASends
  <1> QED  BY <1>3, <1>4

LEMMA StepInv == IInv /\ [Next]_vars => IInv'
  <1> SUFFICES ASSUME IInv, [Next]_vars PROVE IInv'
    OBVIOUS
  <1>1. CASE ReqStep
    <2>1. (ReqTruncated \/ ReqBadChunk \/ ReqWriteFails) => End("err")
      BY DEF ReqTruncated, ReqBadChunk, ReqWriteFails
    <2> QED  BY <1>1, <2>1, EndInv, ReqSendInv, ReqWriteInv, ReqBodyInv, CloseInv
             DEF ReqStep
  <1>2. CASE RspStep
    <2>1. (RspReject \/ RspBadChunk \/ RspFails) => End("err")
      BY DEF RspReject, RspBadChunk, RspFails
    <2>2. (RspDrained \/ RspEof) => End("ok") \/ End("err")
      BY DEF RspDrained, RspEof
    <2> QED  BY <1>2, <2>1, <2>2, EndInv, RspRecvInv, RspHeadInv, RspBodyInv
             DEF RspStep
  <1>3. CASE ClientStep
    <2>1. \A h \in ReqHeads : ReqReject(h) => End("err")
      BY DEF ReqReject
    <2> QED  BY <1>3, <2>1, EndInv, ReqAcceptInv, CloseInv DEF ClientStep
  <1>4. CASE AStep
    BY <1>4, AReadInv, AStartInv, APieceInv, CloseInv DEF AStep, AAnswer
  <1>5. CASE UNCHANGED vars
    <2>1. Written' = Written /\ Announced' = Announced /\ Received' = Received
          /\ Parsed' = Parsed
      BY <1>5 DEF vars, clientVars, reqVars, aVars, rspVars, Written, Announced,
              Received, Parsed
    <2> USE DEF vars, clientVars, reqVars, aVars, rspVars
    <2>2. TypeOK'
      BY <1>5 DEF IInv, TypeOK
    <2>3. Control'
      BY <1>5 DEF IInv, Control
    <2>4. ChannelInOrder'
      BY <1>5, <2>1 DEF IInv, ChannelInOrder
    <2>5. WiresInOrder'
      BY <1>5, <2>1 DEF IInv, WiresInOrder
    <2>6. RequestsInSync' /\ ResponsesInSync'
      BY <1>5, <2>1 DEF IInv, RequestsInSync, ResponsesInSync, InStep
    <2> QED  BY <2>2, <2>3, <2>4, <2>5, <2>6 DEF IInv
  <1> QED  BY <1>1, <1>2, <1>3, <1>4, <1>5 DEF Next, Ended

THEOREM Invariance == Spec => []IInv
  BY InitInv, StepInv, PTL DEF Spec

-----------------------------------------------------------------------------
(***************************************************************************)
(* The results.                                                            *)
(***************************************************************************)

\* Every reachable state of bridge(), of the channel and of the wires is
\* well-formed; in particular no body length is ever negative.
THEOREM TypeCorrect == Spec => []TypeOK
  BY Invariance, PTL DEF IInv

\* However A's interim, bodiless, chunked and length-delimited responses and
\* the client's pipeline interleave, bridge() never takes body bytes for a
\* head and never frames a response by another request's flag.
THEOREM ResponsesStayInSync == Spec => []ResponsesInSync
  BY Invariance, PTL DEF IInv

\* A parses the stream bridge() forwards into the requests bridge() accepted.
THEOREM RequestsStayInSync == Spec => []RequestsInSync
  BY Invariance, PTL DEF IInv

\* The channel's capacity bounds the requests accepted ahead of a response.
THEOREM PipelineBounded == Spec => []PipelineBound
  <1>1. IInv => PipelineBound
    <2> SUFFICES ASSUME IInv PROVE PipelineBound
      OBVIOUS
    <2>1. /\ Len(chan) \in Nat /\ Len(reqs) \in Nat /\ Len(chan) <= ChanCap
          /\ ChanCap \in Nat
      BY BoundsAssumption DEF IInv, TypeOK, ChannelInOrder
    <2>2. Announced \in {Len(reqs), Len(reqs) - 1}
      BY DEF Announced
    <2>3. Parsed \in {Announced - Len(chan), Announced - Len(chan) - 1}
      BY DEF Parsed, Received
    <2>4. Len(reqs) - Parsed <= Len(chan) + 2
      BY <2>1, <2>2, <2>3
    <2>5. Parsed \in Int
      BY <2>1, <2>2, <2>3
    <2> QED  BY <2>1, <2>4, <2>5 DEF PipelineBound
  <1> QED  BY <1>1, Invariance, PTL

\* bridge() returns Ok only when everything A owed the client was forwarded.
THEOREM OkIsAnswered == Spec => []OkMeansAnswered
  <1> DEFINE Inv == IInv /\ OkMeansAnswered
  <1>1. Init => Inv
    BY InitInv DEF Init, OkMeansAnswered
  <1>2. Inv /\ [Next]_vars => Inv'
    <2> SUFFICES ASSUME IInv, OkMeansAnswered, [Next]_vars PROVE OkMeansAnswered'
      BY StepInv
    <2>1. CASE RspDrained
      <3>1. /\ rpc = "recv" /\ chan = <<>> /\ ~txOpen /\ End("ok")
        BY <2>1 DEF RspDrained
      <3>2. /\ Len(reqs) \in Nat /\ Len(areqs) \in Nat /\ aans \in Nat
            /\ u2b \in Seq(RspWire) /\ abody \in Bodies /\ rbody \in Bodies
        BY DEF IInv, TypeOK, RspWire
      <3>3. /\ qpc \in {"shutdown", "done"} /\ client # "open" /\ rbody = Empty
            /\ aans <= Len(areqs)
        BY <3>1 DEF IInv, Control
      <3>4. Parsed = Len(reqs) /\ Written = Len(reqs) /\ Len(areqs) <= Len(reqs)
        <4>1. Parsed = Len(reqs) /\ Written = Len(reqs)
          BY <3>1, <3>2, <3>3 DEF Parsed, Received, Announced, Written
        <4> QED  BY <4>1 DEF IInv, WiresInOrder
      <3>5. InStep(rbody, Parsed, u2b, abody, aans)
        BY DEF IInv, ResponsesInSync
      <3>6. u2b = <<>>
        <4> SUFFICES ASSUME u2b # <<>> PROVE FALSE
          OBVIOUS
        <4>1. /\ FromA(areqs, u2b[1]) /\ Match(rbody, u2b[1].from.b)
              /\ Parsed = u2b[1].from.n /\ u2b[1].from \in Positions
          BY NextToken
        <4>2. u2b[1].from.b = Empty
          BY <3>2, <3>3, <4>1, MatchEmpty DEF Positions
        <4>3. u2b[1].from.n < Len(areqs)
          BY <4>1, <4>2 DEF FromA
        <4> QED  BY <3>2, <3>4, <4>1, <4>3
      <3>7. abody = Empty /\ aans = Len(reqs)
        <4>1. Match(rbody, abody) /\ Parsed = aans
          BY <3>2, <3>5, <3>6, InStepHead
        <4> QED  BY <3>2, <3>3, <3>4, <4>1, MatchEmpty
      <3> QED  BY <3>1, <3>3, <3>4, <3>6, <3>7
               DEF OkMeansAnswered, End, clientVars, reqVars, aVars, rspVars,
                   Parsed, Received, Announced
    <2>2. CASE RspEof
      <3>1. u2b = <<>> /\ aClosed /\ rpc \in {"head", "body"}
            /\ \/ End("ok") /\ rpc = "body" /\ rbody.kind = "eof"
               \/ End("err")
        BY <2>2 DEF RspEof
      <3>2. InStep(rbody, Parsed, u2b, abody, aans) /\ u2b \in Seq(RspWire)
        BY DEF IInv, ResponsesInSync, TypeOK, RspWire
      <3>3. Match(rbody, abody) /\ Parsed = aans
        BY <3>1, <3>2, InStepHead
      <3>4. rpc = "body" => aans = Received
        BY <3>3 DEF Parsed
      <3> QED  BY <3>1, <3>3, <3>4
               DEF OkMeansAnswered, End, clientVars, reqVars, aVars, rspVars,
                   Match, Received, Announced
    <2>3. CASE End("err")
      BY <2>3 DEF End, OkMeansAnswered
    <2>4. CASE result = "running" /\ result' = result
      BY <2>4 DEF OkMeansAnswered
    <2>5. CASE UNCHANGED vars
      BY <2>5 DEF OkMeansAnswered, vars, clientVars, reqVars, aVars, rspVars,
              Parsed, Received, Announced
    <2> USE DEF Running
    <2>6. CASE ReqStep
      BY <2>3, <2>4, <2>6 DEF ReqStep, ReqSend, ReqWrite, ReqBody, ReqEof,
         ReqShutdown, ReqTruncated, ReqBadChunk, ReqWriteFails
    <2>7. CASE RspStep
      BY <2>1, <2>2, <2>3, <2>4, <2>7 DEF RspStep, RspRecv, RspHead, RspReject,
         RspBody, RspBadChunk, RspFails
    <2>8. CASE ClientStep
      BY <2>3, <2>4, <2>8 DEF ClientStep, ReqAccept, ReqReject, ClientCloses
    <2>9. CASE AStep
      BY <2>4, <2>9 DEF AStep, ARead, AAnswer, AStart, ABody, ABadChunk, AClose
    <2> QED  BY <2>5, <2>6, <2>7, <2>8, <2>9 DEF Next, Ended
  <1>3. Inv => OkMeansAnswered
    OBVIOUS
  <1> QED  BY <1>1, <1>2, <1>3, PTL DEF Spec
=============================================================================
