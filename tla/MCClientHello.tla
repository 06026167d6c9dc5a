--------------------------- MODULE MCClientHello ----------------------------
(***************************************************************************)
(* Small instances of ClientHello: record headers of 2 octets, a message   *)
(* prefix of 1, records of at most 3 and hellos of at most 8 octets.       *)
(***************************************************************************)
EXTENDS ClientHello

Record(len) == [handshake |-> TRUE, len |-> len]
Hello(lens, need) == [records |-> [i \in DOMAIN lens |-> Record(lens[i])],
                      hello |-> TRUE, need |-> need, valid |-> TRUE]

\* A message in one record or in several, empty and oversized ones too, and
\* with octets behind it; then those that are no hello.
Cuts == UNION {[1..n -> {0, 1, 3}] : n \in 1..3}
Simple == Hello(<<3, 1>>, 3)
Odd == {[Simple EXCEPT !.hello = FALSE], [Simple EXCEPT !.valid = FALSE],
        [Simple EXCEPT !.need = 9], Hello(<<4>>, 3),
        [Hello(<<1, 3>>, 3) EXCEPT !.records[2].handshake = FALSE],
        [Hello(<<3, 1>>, 3) EXCEPT !.records[2].handshake = FALSE]}
ManyClients == {Hello(lens, need) : lens \in Cuts, need \in {2, 4}} \cup Odd
ManyOutgoing == {Simple, Hello(<<1, 1, 1>>, 2), Hello(<<3, 3>>, 4), Hello(<<1, 1, 1>>, 3),
                 [Simple EXCEPT !.valid = FALSE]}
=============================================================================
