----------------------------- MODULE MCEvidence -----------------------------
(***************************************************************************)
(* Instances of Evidence.  Hellos are variations, one or two at a time, of *)
(* the hello of a client that has most of what the mirror knows; captures  *)
(* have all option strings of up to three octets of a small alphabet, with *)
(* timestamp options of three octets.                                      *)
(***************************************************************************)
EXTENDS Evidence, SequencesExt

\* Settings, as a client that is the bridge's own library may have them.
Configured(build) ==
  [only_tls13 |-> FALSE, at_most_tls12 |-> FALSE, ciphers |-> <<4865, 49195>>,
   grease |-> FALSE, groups |-> <<29, 23>>, signatures |-> <<1027, 2052>>,
   certificate_signatures |-> IF build THEN <<1027, 2057>> ELSE <<>>,
   alpn |-> <<1, 2>>, compression |-> <<2, 1>>,
   point_formats |-> IF build THEN <<0, 1>> ELSE <<>>, shares |-> <<29>>,
   on |-> {35, 65281, 45}, order |-> BACKEND_EXTENSIONS(build)]

Toggles(build) == {5, 35, 45, 65281, 65037} \cup (IF build THEN {21, 22} ELSE {})
Orders(build) ==
  {BACKEND_EXTENSIONS(build),
   <<43, 16, 0, 51>> \o SelectSeq(BACKEND_EXTENSIONS(build), LAMBDA x : x \notin {0, 16, 43, 51})}
Greased(c, build) ==
  {[c EXCEPT !.grease = TRUE]}
  \cup (IF build THEN {[c EXCEPT !.grease = TRUE, !.ciphers = <<2570, 4865, 49195, 255>>]}
        ELSE {})
Modes(c) == {c, [c EXCEPT !.only_tls13 = TRUE], [c EXCEPT !.at_most_tls12 = TRUE]}
Others(c) ==
  {[c EXCEPT !.groups = <<>>, !.shares = <<>>], [c EXCEPT !.signatures = <<>>],
   [c EXCEPT !.alpn = <<>>], [c EXCEPT !.compression = <<>>],
   [c EXCEPT !.certificate_signatures = <<>>, !.point_formats = <<>>],
   [c EXCEPT !.groups = <<4588, 29>>, !.shares = <<29, 4588>>]}
Own(build) ==
  LET plain == Configured(build)
      switched == {[plain EXCEPT !.on = T, !.order = o] :
                     T \in SUBSET Toggles(build), o \in Orders(build)}
      greased == UNION {{c} \cup Greased(c, build) : c \in switched \cup Others(plain)}
  IN  {<<c>> : c \in UNION {Modes(c) : c \in greased}}
OwnProfiles == [build \in BOOLEAN |-> Own(build)]

\* The hello that is varied.
Base == Emission([Configured(TRUE) EXCEPT !.ciphers = <<2570, 4865, 49195>>, !.grease = TRUE,
                                        !.on = {5, 21, 22, 35, 45, 65281, 65037}],
                 TRUE, 6682)
Set(h, id, items) ==
  [h EXCEPT !.extensions = [i \in DOMAIN @ |-> IF @[i].id = id THEN Ext(id, items) ELSE @[i]]]
Swap(s, i) == [j \in DOMAIN s |-> IF j = i THEN s[i + 1] ELSE IF j = i + 1 THEN s[i] ELSE s[j]]

Contents ==
  [id \in {0, 10, 11, 13, 16, 27, 43, 45, 50, 51, 35, 22} |->
     CASE id = 0 -> {<<<<0, 0>>>>, <<<<0, 9>>>>, <<<<1, 4>>>>, <<>>}
       [] id = 10 -> {<<<<10794>>, <<29>>, <<23>>>>, <<<<29>>, <<6682>>, <<23>>>>, <<<<23>>, <<29>>>>, <<<<30>>>>}
       [] id = 11 -> {<<<<0>>>>, <<<<0>>, <<3>>>>, <<<<26>>>>}
       [] id = 13 -> {<<<<2052>>, <<1027>>>>, <<<<6682>>, <<1027>>>>, <<<<10794>>, <<1027>>>>, <<<<2570>>, <<999>>>>}
       [] id = 16 -> {<<<<0>>>>, <<<<2>>, <<1>>>>, <<<<1>>, <<3>>>>}
       [] id = 27 -> {<<<<2>>, <<6682>>>>, <<<<2>>, <<10794>>>>, <<<<4>>>>}
       [] id = 43 -> {<<<<772>>>>, <<<<6682>>, <<772>>, <<770>>>>, <<<<771>>>>}
       [] id = 45 -> {<<<<0>>, <<1>>>>, <<<<1>>, <<27>>>>}
       [] id = 50 -> {<<>>, <<<<1027>>, <<6682>>>>, <<<<1027>>, <<10794>>>>, <<<<999>>>>}
       [] id = 51 -> {<<<<10794, 1>>, <<29, 32>>>>, <<<<6682, 2>>, <<29, 32>>>>, <<<<29, 32>>, <<6682, 1>>>>, <<<<29, 31>>>>}
       [] id = 35 -> {<<<<7>>>>}
       [] id = 22 -> {<<<<7>>>>}]

Variations(h) ==
  {[h EXCEPT !.version = 769], [h EXCEPT !.compression = <<1, 0>>], [h EXCEPT !.proper = FALSE],
   [h EXCEPT !.session = 0]}
  \cup {[h EXCEPT !.ciphers = c] :
          c \in {<<>>, <<53>>, <<10794, 4865, 49195>>, <<4865, 6682, 49195>>, <<4865, 49195>>,
                 <<6682, 49195, 4865>>, <<6682, 4865, 49195, 255>>, <<6682, 4865, 53>>}}
  \cup {[h EXCEPT !.extensions = Swap(@, i)] : i \in 1..Len(h.extensions) - 1}
  \cup {[h EXCEPT !.extensions = RemoveAt(@, i)] : i \in DOMAIN h.extensions}
  \cup {[h EXCEPT !.extensions[i].proper = FALSE] : i \in DOMAIN h.extensions}
  \cup {[h EXCEPT !.extensions = Append(@, Ext(id, <<>>))] :
          id \in {28, 41, 42, 44, 99, 17513, 13172, 6682, 43690}}
  \cup UNION {{Set(h, id, items) : items \in Contents[id]} : id \in DOMAIN Contents}

Single == {Base} \cup Variations(Base)
Small == {Base, Set(Base, 10, <<<<10794>>, <<29>>, <<23>>>>), [Base EXCEPT !.ciphers = <<>>]}
Few == {Base, Set(Base, 50, <<<<1027>>, <<6682>>>>), Set(Base, 51, <<<<10794, 1>>, <<29, 32>>>>), Set(Base, 22, <<<<7>>>>),
        [Base EXCEPT !.ciphers = <<10794, 4865, 49195>>], [Base EXCEPT !.extensions[1].id = 43690]}
SomeDouble == UNION {Variations(h) : h \in {Set(Base, 43, <<<<772>>>>),
                                            [Base EXCEPT !.ciphers = <<4865, 49195>>],
                                            Set(Base, 11, <<<<0>>>>)}}
ManyClients == Single \cup SomeDouble

\* Captures of one or two frames.
Plain == [link |-> "ip", ip |-> 4, whole |-> TRUE, fragment |-> FALSE, tcp |-> TRUE,
          header |-> TRUE, flags |-> {"SYN"}, stack |-> 1, options |-> <<2, 2>>]
Packets ==
  {Plain, [Plain EXCEPT !.link = "short"], [Plain EXCEPT !.link = "other"], [Plain EXCEPT !.ip = 6],
   [Plain EXCEPT !.ip = 6, !.tcp = FALSE], [Plain EXCEPT !.tcp = FALSE], [Plain EXCEPT !.ip = 5],
   [Plain EXCEPT !.whole = FALSE], [Plain EXCEPT !.fragment = TRUE], [Plain EXCEPT !.header = FALSE],
   [Plain EXCEPT !.flags = {"SYN", "ACK"}], [Plain EXCEPT !.flags = {"SYN", "ECE"}],
   [Plain EXCEPT !.flags = {"ACK"}, !.header = FALSE], [Plain EXCEPT !.stack = 2]}
Octet == {0, 1, 2, 3, 8}
Strings == UNION {[1..n -> Octet] : n \in 0..3}
Nearby(o) == {o} \cup {[o EXCEPT ![i] = x] : i \in DOMAIN o, x \in Octet}
                 \cup (IF o = <<>> THEN {} ELSE {Front(o)})
With(o) == <<[Plain EXCEPT !.options = o]>>
Captures == {<<f>> : f \in Packets} \cup {<<f, [Plain EXCEPT !.stack = 3]>> : f \in Packets}

Side(tls, http, tcp) == [l \in Layers |-> CASE l = "tls" -> tls [] l = "http" -> http [] l = "tcp" -> tcp]
Pair(x, y) == [s \in Sides |-> IF s = "a" THEN x ELSE y]
ManyFiles ==
  {Pair(Side(<<g>>, <<>>, <<>>), Side(<<h>>, <<>>, <<>>)) : g \in Few, h \in Single}
  \cup UNION {{Pair(Side(<<>>, <<>>, With(o)), Side(<<>>, <<>>, With(w))) : w \in Nearby(o)} : o \in Strings}
  \cup {Pair(Side(<<>>, <<>>, c), Side(<<>>, <<>>, d)) : c \in Captures, d \in Captures}
  \cup {Pair(Side(<<Base>>, <<1>>, c), Side(<<h>>, k, <<Plain>>)) :
          h \in Small, k \in {<<>>, <<1>>, <<2>>}, c \in {<<Plain>>, <<>>}}
SomeScopes == {{}, {"tls"}, {"tcp"}, {"tls", "http", "tcp"}}
=============================================================================
