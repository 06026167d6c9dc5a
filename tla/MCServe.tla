------------------------------ MODULE MCServe ------------------------------
(***************************************************************************)
(* Serve with a few clients.                                               *)
(***************************************************************************)
EXTENDS Serve

CONSTANTS c1, c2, c3
ThreeClients == {c1, c2, c3}
=============================================================================
