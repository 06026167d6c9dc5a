----------------------------- MODULE TlsMirror ------------------------------
(***************************************************************************)
(* mirror() of tls.rs: from the parsed hello of a client to the settings   *)
(* of the TLS library and a list of limitations; and, as far as mirror()   *)
(* uses it, the library: the hello that it sends with such settings.       *)
(*                                                                         *)
(* patched: the build with the patched library ("patched-tls").  What a    *)
(* loop of mirror() cannot configure it adds to the limitations, here the  *)
(* set of <<what, id>>.                                                    *)
(***************************************************************************)
EXTENDS Fingerprint

CONSTANT Ciphers   \* cipher suites that the library knows

\* The tables, and what the patched build adds to them.
BACKEND_EXTENSIONS(patched) ==
  <<0, 65037, 23>> \o (IF patched THEN <<22>> ELSE <<>>) \o <<65281, 10, 11, 35, 16, 5>>
  \o (IF patched THEN <<17>> ELSE <<>>) \o <<13>> \o (IF patched THEN <<50>> ELSE <<>>)
  \o <<13172, 18, 30032, 14, 51, 45, 42, 43, 44>>
  \o <<57, 65445, 27, 34, 17613, 17513, 47, 35387, 51764, 28>>
\* Bug: the table of extensions that can be ordered is taken for it.
KNOWN_Backend(patched) == Range(BACKEND_EXTENSIONS(patched))
KNOWN(patched) ==
  {0, 5, 10, 11, 13, 16, 18, 21, 23, 27, 28, 34, 35, 41, 42, 43, 44, 45, 47, 51,
   17513, 17613, 65037, 65281} \cup (IF patched THEN {17, 22, 50} ELSE {})
Groups(patched) ==
  {23, 24, 25, 29, 4588, 25497, 256, 257}
  \cup (IF patched THEN {10, 30, 4587, 4589, 258, 259, 260} ELSE {})
\* The patched build's share() is the same table as group().
SIGNATURES(patched) ==
  {513, 515, 1025, 1281, 1537, 1027, 1283, 1539, 2052, 2053, 2054, 2055}
  \cup (IF patched THEN {514, 770, 1026, 1282, 1538, 769, 771} \cup (2056..2059)
                        \cup (2074..2076) \cup (2308..2310) ELSE {})
Compressions == {1, 2, 3}
SCSV == 255

Has(s, x) == x \in Range(s)

\* extension_order(): first the client's, then all others, each once.
\* Bugs: the library's order comes first; an extension of both lists comes twice.
extension_order_Table(incoming, patched) ==
  Once(Keep(BACKEND_EXTENSIONS(patched) \o incoming, Range(BACKEND_EXTENSIONS(patched))))
extension_order_Twice(incoming, patched) ==
  Keep(incoming \o BACKEND_EXTENSIONS(patched), Range(BACKEND_EXTENSIONS(patched)))
extension_order(incoming, patched) ==
  Once(Keep(incoming \o BACKEND_EXTENSIONS(patched), Range(BACKEND_EXTENSIONS(patched))))

-----------------------------------------------------------------------------
\* Versions: at least 1.2, only 1.3 if the client offers nothing older.
OnlyTls13(h) == /\ Has(h.supported_versions, 772)
                /\ \A v \in Range(h.supported_versions) : grease(v) \/ v >= 772
AtMostTls12(h) == ~Has(h.supported_versions, 772)

\* Refused before anything is sent to the origin.
Refused(h) == \/ Keep(h.ciphers, Ciphers) = <<>>
              \/ ~(Range(h.alpn) \subseteq {1, 2})

\* What a loop over a list leaves out.
LeftOut(what, list, S) == {<<what, x>> : x \in {y \in Range(list) : ~grease(y)} \ S}

\* Only in the patched build are these configured, and so left out, at all.
PatchedLimitations(h) ==
  LeftOut("certificate signature", h.signature_algorithms_cert, SIGNATURES(TRUE))
  \cup {<<"point format", f>> : f \in {g \in Range(h.point_formats) : g > 2}}

\* ALPS and resumption are known, and not carried over.
NotInherited(h) ==
  {<<"not inherited", x>> : x \in Range(h.extensions) \cap {17513, 17613, 41, 42}}

limitations(h, patched) ==
  LeftOut("cipher", h.ciphers, Ciphers \cup {SCSV})
  \cup LeftOut("group", h.groups, Groups(patched))
  \cup LeftOut("signature", h.signature_algorithms, SIGNATURES(patched))
  \cup {<<"compression", x>> : x \in Range(h.cert_compression) \ Compressions}
  \cup LeftOut("extension", h.extensions, KNOWN(patched))
  \cup NotInherited(h)
  \cup (IF patched THEN PatchedLimitations(h) ELSE {<<"SCSV", x>> : x \in Range(h.ciphers) \cap {SCSV}})

\* Extensions that are switched on if, and only if, the client has them.
\* Bug: tickets are not.
Switched_NoTickets(patched) ==
  {5, 18, 45, 65281, 65037} \cup (IF patched THEN {17, 21, 22} ELSE {})
Switched(patched) == {5, 18, 35, 45, 65281, 65037} \cup (IF patched THEN {17, 21, 22} ELSE {})

\* The patched build sends the ciphers as the client has them, reserved values
\* and the SCSV at their places.
CipherOrder(h, patched) ==
  IF patched THEN Keep(h.ciphers, {c \in Range(h.ciphers) : grease(c)} \cup Ciphers \cup {SCSV})
  ELSE Keep(h.ciphers, Ciphers)
PointFormats(h, patched) ==
  IF patched THEN Keep(h.point_formats, 0..2) ELSE <<>>
Shares(h, patched) == Keep(h.key_share_groups, Groups(patched))

\* The settings that the library takes.
Settings ==
  [only_tls13 : BOOLEAN, at_most_tls12 : BOOLEAN, grease : BOOLEAN, ciphers : Seq(Nat),
   groups : Seq(Nat), signatures : Seq(Nat), certificate_signatures : Seq(Nat),
   alpn : Seq(Nat), compression : Seq(Nat), point_formats : Seq(Nat), shares : Seq(Nat),
   on : SUBSET Nat, order : Seq(Nat)]

mirror(h, patched) ==
  [only_tls13 |-> OnlyTls13(h), at_most_tls12 |-> AtMostTls12(h),
   ciphers |-> CipherOrder(h, patched),
   grease |-> \E x \in Range(h.ciphers \o h.extensions) : grease(x),
   groups |-> Keep(h.groups, Groups(patched)),
   signatures |-> Keep(h.signature_algorithms, SIGNATURES(patched)),
   certificate_signatures |->
     IF patched THEN Keep(h.signature_algorithms_cert, SIGNATURES(patched)) ELSE <<>>,
   alpn |-> h.alpn,
   compression |-> Keep(h.cert_compression, Compressions),
   point_formats |-> PointFormats(h, patched), shares |-> Shares(h, patched),
   on |-> Range(h.extensions) \cap Switched(patched),
   order |-> extension_order(h.extensions, patched)]

\* What can be said of the settings that mirror() makes, of whatever hello.
Mirrorable(c, patched) ==
  /\ \E x \in Range(c.ciphers) : x \in Ciphers
  /\ \A x \in Range(c.ciphers) : x \in Ciphers \/ (patched /\ (x = SCSV \/ (grease(x) /\ c.grease)))
  /\ Range(c.groups) \cup Range(c.shares) \subseteq Groups(patched)
  /\ Range(c.signatures) \subseteq SIGNATURES(patched)
  /\ Range(c.certificate_signatures) \subseteq IF patched THEN SIGNATURES(TRUE) ELSE {}
  /\ Range(c.alpn) \subseteq {1, 2} /\ Range(c.compression) \subseteq Compressions
  /\ Range(c.point_formats) \subseteq IF patched THEN 0..2 ELSE {}
  /\ c.on \subseteq Switched(patched)
  /\ Range(c.order) = Range(BACKEND_EXTENSIONS(patched))
  /\ \A i, j \in DOMAIN c.order : c.order[i] = c.order[j] => i = j

-----------------------------------------------------------------------------
(***************************************************************************)
(* The library with settings c: a list that is not set has the library's   *)
(* default; the extensions follow c.order, with reserved ones at both ends *)
(* and the padding last.  reserved is what GREASE draws, once per hello.   *)
(* A hello that offers TLS 1.3 has a session id of 32 octets, for old      *)
(* middleboxes; without a session to resume another has none.              *)
(***************************************************************************)
Singles(s) == Map(LAMBDA x : <<x>>, s)
Default(s, d) == IF s = <<>> THEN d ELSE s
ShareLen(g) == IF g = 29 THEN 32 ELSE IF grease(g) THEN 1 ELSE 65

Sends(c) ==
  {0, 10, 11, 13, 23} \cup (c.on \cap {5, 18, 35, 65281, 17, 22, 65037})
  \cup (IF c.alpn # <<>> THEN {16} ELSE {})
  \cup (IF c.certificate_signatures # <<>> THEN {50} ELSE {})
  \cup (IF c.at_most_tls12 THEN {}
        ELSE {43, 51} \cup (c.on \cap {45}) \cup (IF c.compression # <<>> THEN {27} ELSE {}))

\* The body of an extension; G is the reserved value where one is drawn.
Body(c, G, id) ==
  CASE id = 0  -> <<<<0, 6>>>>
    [] id = 10 -> Singles(G \o Default(c.groups, <<29, 23>>))
    [] id = 11 -> Singles(Default(c.point_formats, <<0>>))
    [] id = 13 -> Singles(Default(c.signatures, <<1027>>))
    [] id = 16 -> Singles(c.alpn)
    [] id = 27 -> Singles(c.compression)
    [] id = 43 -> Singles(G \o <<772>> \o (IF c.only_tls13 THEN <<>> ELSE <<771>>))
    [] id = 45 -> <<<<1>>>>
    [] id = 50 -> Singles(c.certificate_signatures)
    [] id = 51 -> Map(LAMBDA g : <<g, ShareLen(g)>>,
                      G \o Default(c.shares, <<Default(c.groups, <<29>>)[1]>>))
    [] OTHER   -> <<>>
Ext(id, items) == [id |-> id, items |-> items, proper |-> TRUE]

\* What GREASE draws from.
Draws == {4112 * j + 2570 : j \in 0..15}
\* The second reserved extension differs from the first: XOR 0x1010.
Second(n) == IF n % 32 < 16 THEN n + 4112 ELSE n - 4112

Emission(c, patched, reserved) ==
  LET G == IF c.grease THEN <<reserved>> ELSE <<>>
      last == Second(reserved)
  IN  [version |-> 771, session |-> IF c.at_most_tls12 THEN 0 ELSE 32,
       compression |-> <<0>>, proper |-> TRUE,
       ciphers |-> IF patched THEN Map(LAMBDA x : IF grease(x) THEN reserved ELSE x, c.ciphers)
                   ELSE G \o c.ciphers,
       extensions |->
         Map(LAMBDA id : Ext(id, <<>>), G)
         \o Map(LAMBDA id : Ext(id, Body(c, G, id)), Keep(c.order, Sends(c)))
         \o (IF c.grease THEN <<Ext(last, <<>>)>> ELSE <<>>)
         \o (IF 21 \in c.on THEN <<Ext(21, <<>>)>> ELSE <<>>)]
=============================================================================
