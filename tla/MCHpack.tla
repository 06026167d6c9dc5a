------------------------------ MODULE MCHpack ------------------------------
(***************************************************************************)
(* A small instance of Hpack: an upstream authority that is longer than    *)
(* the public one, in tables that hold three short headers.                *)
(***************************************************************************)
EXTENDS Hpack

H(n, v) == [name |-> n, value |-> v]

AllHeaders == [name : {":method", ":authority", "origin"},
               value : {"", "GET", "B", "A"}]
StaticTable == << H(":authority", ""), H(":method", "GET") >>
AcceptedHeaders == { H(":method", "GET"), H(":authority", "B"),
                     H("origin", "B"), H("origin", "") }
OfferedHeaders == {h \in AcceptedHeaders : h.value # ""} \cup {H(":authority", "A")}
Mapping == [h \in AllHeaders |-> IF h.value = "B" /\ h.name # ":method"
                                 THEN [h EXCEPT !.value = "A"] ELSE h]
HeaderSizes == [h \in AllHeaders |-> IF h.value = "A" THEN 2 ELSE 1]
=============================================================================
