---------------------------- MODULE Fingerprint -----------------------------
(***************************************************************************)
(* What of a ClientHello is evidence, and when two pieces of evidence      *)
(* match (fingerprint.rs).                                                 *)
(*                                                                         *)
(* A hello on the wire is its lists, already cut at their length prefixes: *)
(*   [version, session, ciphers, compression, proper, extensions], and an  *)
(* extension is [id, items, proper].  proper is FALSE where a length does  *)
(* not fit or octets trail; session is the length of the session id, the   *)
(* random is left out; an item is a tuple: <<value>>, of a key share       *)
(* <<group, length>>, of a server name <<kind, length>>, of a protocol its *)
(* number.                                                                 *)
(* A digest is the body itself: collisions of SHA-256 are left out.        *)
(***************************************************************************)
EXTENDS Integers, Sequences, Lists

\* Extensions and hellos as they come.
Extension ==
  [id : Nat \ {0, 51}, items : Seq([1..1 -> Nat]), proper : BOOLEAN]
  \cup [id : {0, 51}, items : Seq([1..2 -> Nat]), proper : BOOLEAN]
Hello == [version : Nat, session : Nat, ciphers : Seq(Nat), compression : Seq(Nat),
          proper : BOOLEAN, extensions : Seq(Extension)]

grease(n) == n % 16 = 10 /\ n \div 256 = n % 256
\* Bug: only the first reserved value is recognised.
normalize_First(n) == IF n = 2570 THEN 2570 ELSE n
normalize(n) == IF grease(n) THEN 2570 ELSE n

\* Extensions whose bodies are decoded, and those that are exempt: padding,
\* tickets, binders, cookies, encrypted hellos.
Decoded == {0, 10, 11, 13, 16, 27, 43, 45, 50, 51}
Exempt == {21, 35, 41, 44, 65037}

\* How parse_hello() can fail.
DuplicateExtension(h) ==
  \E i, j \in DOMAIN h.extensions : i # j /\ h.extensions[i].id = h.extensions[j].id
BadBody(x) ==
  /\ x.id \in Decoded
  /\ \/ ~x.proper
     \/ x.id = 0 /\ \E i \in DOMAIN x.items : x.items[i] = <<0, 0>>
     \/ x.id = 16 /\ \E i \in DOMAIN x.items : x.items[i] = <<0>>
     \/ x.id = 50 /\ x.items = <<>>
Parsable(h) ==
  /\ h.proper /\ h.ciphers # <<>>
  /\ ~DuplicateExtension(h)
  /\ \A i \in DOMAIN h.extensions : ~BadBody(h.extensions[i])

Map(f(_), s) == [i \in DOMAIN s |-> f(s[i])]
\* An extension occurs once.
Place(h, id) == {i \in DOMAIN h.extensions : h.extensions[i].id = id}
Items(h, id) == IF Place(h, id) = {} THEN <<>>
                ELSE h.extensions[CHOOSE i \in Place(h, id) : TRUE].items
Octs(h, id) == Map(LAMBDA t : t[1], Items(h, id))
words(h, id) == Map(LAMBDA t : normalize(t[1]), Items(h, id))

\* Bug: a decoded extension's body is not kept.
Other_NotDecoded(x) == ~grease(x.id) /\ x.id \notin Exempt \cup Decoded
Other(x) == ~grease(x.id) /\ x.id \notin Exempt \cup (Decoded \ {50})

TlsHello(h) ==
  [legacy_version |-> h.version,
   ciphers |-> Map(normalize, h.ciphers),
   extensions |-> Map(LAMBDA x : normalize(x.id), h.extensions),
   compression |-> h.compression,
   groups |-> words(h, 10), point_formats |-> Octs(h, 11),
   signature_algorithms |-> words(h, 13), signature_algorithms_cert |-> words(h, 50),
   supported_versions |-> words(h, 43), alpn |-> Octs(h, 16),
   key_share_groups |-> words(h, 51),
   key_share_lengths |-> Map(LAMBDA t : t[2], Items(h, 51)),
   cert_compression |-> words(h, 27), psk_modes |-> Octs(h, 45),
   sni_present |-> \E i \in DOMAIN Items(h, 0) : Items(h, 0)[i][1] = 0,
   other_extensions |-> Keep(h.extensions, {x \in Range(h.extensions) : Other(x)})]

\* The observation, or none.  The session id is read past, whole.
parse_hello(h) == IF Parsable(h) THEN <<TlsHello(h)>> ELSE <<>>

-----------------------------------------------------------------------------
(***************************************************************************)
(* compare(): a document is a function of layers, a layer the sequence of  *)
(* its observations: null, an empty object and an empty array have none.   *)
(* differences() goes through every field of what both sides have.         *)
(***************************************************************************)
\* Bug: what neither side has is taken to match.
valid_Always(doc, layer) == TRUE
valid(doc, layer) == layer \in DOMAIN doc /\ doc[layer] # <<>>

compare(a, b, layers) ==
  IF layers = {} THEN "error"
  ELSE IF \A l \in layers : valid(a, l) /\ valid(b, l) /\ a[l] = b[l] THEN "pass"
  ELSE "fail"
=============================================================================
