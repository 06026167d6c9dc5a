----------------------------- MODULE MCH1Bridge -----------------------------
(***************************************************************************)
(* Heads for the instances of H1Bridge: one of each kind the code's checks *)
(* and framing() tell apart.                                               *)
(***************************************************************************)
EXTENDS H1Bridge

Req(head, cl, te, hosts) ==
  [isHead |-> head, lineOk |-> TRUE, fieldsOk |-> TRUE, upgrade |-> FALSE,
   cl |-> cl, te |-> te, hosts |-> hosts]
Rsp(status, cl, te) ==
  [status |-> status, lineOk |-> TRUE, fieldsOk |-> TRUE, upgrade |-> FALSE,
   cl |-> cl, te |-> te]

GetReq     == Req(FALSE, <<>>, <<>>, <<"B">>)
HeadReq    == Req(TRUE, <<>>, <<>>, <<"B">>)
PostLength == Req(FALSE, <<2>>, <<>>, <<"B">>)
PostChunks == Req(FALSE, <<>>, <<"chunked">>, <<"B">>)

BadReqs ==
  { Req(FALSE, <<1>>, <<"chunked">>, <<"B">>),
    Req(FALSE, <<1, 2>>, <<>>, <<"B">>),
    Req(FALSE, <<>>, <<"other">>, <<"B">>),
    Req(FALSE, <<>>, <<>>, <<"foreign">>),
    [GetReq EXCEPT !.upgrade = TRUE],
    [GetReq EXCEPT !.lineOk = FALSE],
    [GetReq EXCEPT !.fieldsOk = FALSE] }

Continue == Rsp(100, <<>>, <<>>)
Ok2      == Rsp(200, <<2>>, <<>>)
OkChunks == Rsp(200, <<>>, <<"chunked">>)
OkEof    == Rsp(200, <<>>, <<>>)
NotMod   == Rsp(304, <<1>>, <<>>)

BadRsps ==
  { Rsp(101, <<>>, <<>>), Rsp(200, <<1>>, <<"chunked">>),
    Rsp(200, <<1, 2>>, <<>>), Rsp(200, <<-1>>, <<>>),
    [Ok2 EXCEPT !.fieldsOk = FALSE] }

\* Every framing, two requests.
FramingReqs == {GetReq, HeadReq, PostLength, PostChunks} \cup BadReqs
FramingRsps == {Continue, Ok2, OkChunks, OkEof, NotMod, Rsp(204, <<>>, <<>>)}
               \cup BadRsps

\* Longer pipelines of fewer kinds of message.
PipelineReqs == {GetReq, HeadReq, PostChunks}
PipelineRsps == {Continue, Ok2, NotMod, OkEof}
=============================================================================
