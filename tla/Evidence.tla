------------------------------ MODULE Evidence ------------------------------
(***************************************************************************)
(* From the wire to a verdict.  A connection parses the client's hello,    *)
(* configures the library after it, parses the hello that the library      *)
(* sends, and compares both for the --strict-tls gate (handle_connection() *)
(* of main.rs).  The commands inspect-hello, inspect-pcap and compare do   *)
(* so with files, of which each may be missing or not yet be inspected.    *)
(*                                                                         *)
(* A layer of a side is a sequence: of one hello, of the frames of a       *)
(* capture, of whatever another tool observed of HTTP; <<>> is none.       *)
(***************************************************************************)
EXTENDS TlsMirror, TcpSyn

CONSTANTS
  Builds,     \* \subseteq BOOLEAN: with the patched library or not
  Clients,    \* hellos of clients
  Profiles,   \* by build: settings of clients that use the bridge's own library
  Reserved,   \* values that GREASE draws
  Files,      \* of the commands: pairs [a, b] of sides
  Scopes      \* sets of layers that compare is asked for

Sides == {"a", "b"}
Layers == {"tls", "http", "tcp"}
Nothing == [l \in Layers |-> <<>>]

\* What the bridge is given is what its parsers can have cut it into.  Reserved
\* values are those of GREASE; neither these nor the SCSV are cipher suites that
\* can be had.  A library of the bridge's is set as mirror() sets it.
ASSUME EvidenceAssumption ==
  /\ Builds \subseteq BOOLEAN
  /\ Ciphers \subseteq Nat \ {SCSV} /\ \A x \in Ciphers : ~grease(x)
  /\ Reserved \subseteq Draws
  /\ Clients \subseteq Hello
  /\ \A build \in Builds : /\ Profiles[build] \subseteq [1..1 -> Settings]
                            /\ \A p \in Profiles[build] : Mirrorable(p[1], build)
  /\ \A files \in Files :
       /\ DOMAIN files = Sides
       /\ \A s \in Sides : /\ DOMAIN files[s] = Layers
                           /\ files[s]["tls"] \in Seq(Hello) /\ files[s]["tcp"] \in Seq(Frames)
  /\ Scopes \subseteq SUBSET Layers
  /\ TimestampLen \in Nat

VARIABLES
  patched,
  wire,       \* by side and layer: what there was to observe
  document,   \* by side and layer: what has been observed
  profile,    \* the client is the bridge's library, with these settings
  settings, reported,   \* what mirror() returned, the limitations
  verdict, scope,       \* of compare(), and the layers that it compared
  stage

vars == <<patched, wire, document, profile, settings, reported, verdict, scope, stage>>

Serving ==
  /\ stage = "hello"
  /\ \E r \in Reserved :
       \/ /\ profile \in Profiles[patched]
          /\ wire = [a |-> [Nothing EXCEPT !["tls"] = <<Emission(profile[1], patched, r)>>],
                     b |-> Nothing]
       \/ /\ profile = <<>>
          /\ \E h \in Clients : wire = [a |-> [Nothing EXCEPT !["tls"] = <<h>>], b |-> Nothing]
\* The commands are the same in both builds.
Commanding == stage = "files" /\ profile = <<>> /\ wire \in Files

Init ==
  /\ patched \in Builds /\ (Serving \/ (Commanding /\ ~patched))
  /\ document = [s \in Sides |-> Nothing]
  /\ settings = <<>> /\ reported = {} /\ verdict = "" /\ scope = {}

Parsed(s) == IF wire[s]["tls"] = <<>> THEN <<>> ELSE parse_hello(wire[s]["tls"][1])

-----------------------------------------------------------------------------
\* A connection.  read_hello() parses what it has read; see ClientHello.
ReadHello ==
  /\ stage = "hello"
  /\ document' = [document EXCEPT !["a"]["tls"] = Parsed("a")]
  /\ stage' = IF Parsed("a") = <<>> THEN "refused" ELSE "mirror"
  /\ UNCHANGED <<patched, wire, profile, settings, reported, verdict, scope>>

Mirror ==
  /\ stage = "mirror"
  /\ LET h == document["a"]["tls"][1]
     IN  IF Refused(h) THEN stage' = "refused" /\ UNCHANGED <<settings, reported>>
         ELSE /\ settings' = <<mirror(h, patched)>>
              /\ reported' = limitations(h, patched)
              /\ stage' = "connect"
  /\ UNCHANGED <<patched, wire, document, profile, verdict, scope>>

\* The library sends its hello.
LibraryConnects(r) ==
  /\ stage = "connect"
  /\ wire' = [wire EXCEPT !["b"]["tls"] = <<Emission(settings[1], patched, r)>>]
  /\ stage' = "captured"
  /\ UNCHANGED <<patched, document, profile, settings, reported, verdict, scope>>

Gate ==
  /\ stage = "captured"
  /\ document' = [document EXCEPT !["b"]["tls"] = Parsed("b")]
  /\ IF Parsed("b") = <<>> THEN stage' = "refused" /\ UNCHANGED <<verdict, scope>>
     ELSE /\ scope' = {"tls"}
          /\ verdict' = compare(document'["a"], document'["b"], scope')
          /\ stage' = "decided"
  /\ UNCHANGED <<patched, wire, profile, settings, reported>>

-----------------------------------------------------------------------------
\* The commands.  One that fails prints no document.
InspectHello(s) ==
  /\ stage = "files" /\ wire[s]["tls"] # <<>>
  /\ document' = [document EXCEPT ![s]["tls"] = Parsed(s)]
  /\ UNCHANGED <<patched, wire, profile, settings, reported, verdict, scope, stage>>

InspectPcap(s) ==
  /\ stage = "files" /\ wire[s]["tcp"] # <<>>
  /\ document' = [document EXCEPT ![s]["tcp"] = pcap_syns(wire[s]["tcp"])]
  /\ UNCHANGED <<patched, wire, profile, settings, reported, verdict, scope, stage>>

\* The lab's own observation of HTTP, put into the same document.
LabObserves(s) ==
  /\ stage = "files" /\ wire[s]["http"] # <<>>
  /\ document' = [document EXCEPT ![s]["http"] = wire[s]["http"]]
  /\ UNCHANGED <<patched, wire, profile, settings, reported, verdict, scope, stage>>

Compare(layers) ==
  /\ stage = "files"
  /\ scope' = layers
  /\ verdict' = compare(document["a"], document["b"], layers)
  /\ stage' = "decided"
  /\ UNCHANGED <<patched, wire, document, profile, settings, reported>>

Next ==
  \/ ReadHello \/ Mirror \/ Gate
  \/ \E r \in Reserved : LibraryConnects(r)
  \/ \E s \in Sides : InspectHello(s) \/ InspectPcap(s) \/ LabObserves(s)
  \/ \E layers \in Scopes : Compare(layers)

Spec == Init /\ [][Next]_vars

-----------------------------------------------------------------------------
(***************************************************************************)
(* When two observations are the same, said of the wire: README, "TLS      *)
(* normalisation" and "TCP ignores".  The session id is not among what     *)
(* SameHello compares: the README exempts its value, and the parser reads  *)
(* past it, its presence included.  Nor is the body of a reserved          *)
(* extension.                                                              *)
(***************************************************************************)
SameValue(x, y) == x = y \/ (grease(x) /\ grease(y))
SameList(s, t) == Len(s) = Len(t) /\ \A i \in DOMAIN s : SameValue(s[i], t[i])
SameItems(s, t) ==
  Len(s) = Len(t) /\ \A i \in DOMAIN s : SameValue(s[i][1], t[i][1]) /\ Tail(s[i]) = Tail(t[i])
NamesServer(x) == \E i \in DOMAIN x.items : x.items[i][1] = 0

SameExtension(x, y) ==
  \/ grease(x.id) /\ grease(y.id)
  \/ /\ x.id = y.id
     /\ CASE x.id \in Exempt -> TRUE
          [] x.id = 0 -> NamesServer(x) = NamesServer(y)
          [] x.id \in {10, 13, 27, 43, 51} -> SameItems(x.items, y.items)
          [] OTHER -> x.items = y.items /\ x.proper = y.proper

SameHello(g, h) ==
  /\ g.version = h.version /\ g.compression = h.compression
  /\ SameList(g.ciphers, h.ciphers)
  /\ Len(g.extensions) = Len(h.extensions)
  /\ \A i \in DOMAIN g.extensions : SameExtension(g.extensions[i], h.extensions[i])

\* B is where the options of o begin.
Cuts(o, B) ==
  /\ o # <<>> => 1 \in B
  /\ \A p \in B : /\ o[p] \in {0, 1} \/ LengthOk(o, p)
                  /\ Behind(o, p) \in B \cup {Len(o) + 1}
  /\ \A p \in B \ {1} : \E q \in B : Behind(o, q) = p
Stamps(o, B) == {i \in DOMAIN o : \E p \in B : o[p] = 8 /\ i \in p + 2..p + o[p + 1] - 1}
SameOptions(o, w) ==
  /\ Len(o) = Len(w)
  /\ \E B \in SUBSET DOMAIN o :
       /\ Cuts(o, B) /\ Cuts(w, B)
       /\ \A i \in DOMAIN o \ Stamps(o, B) : o[i] = w[i]

InitialSyns(capture) ==
  Keep(capture, {f \in Range(capture) : /\ f.link = "ip" /\ f.tcp
                                       /\ f.flags \cap {"SYN", "ACK"} = {"SYN"}})
SameCapture(c, d) ==
  LET x == InitialSyns(c)
      y == InitialSyns(d)
  IN  /\ Len(x) = Len(y)
      /\ \A i \in DOMAIN x : /\ x[i].ip = y[i].ip /\ x[i].stack = y[i].stack /\ x[i].flags = y[i].flags
                             /\ SameOptions(x[i].options, y[i].options)

Same(l) ==
  LET x == wire["a"][l]
      y == wire["b"][l]
  IN  /\ x # <<>> /\ y # <<>>
      /\ CASE l = "tls" -> SameHello(x[1], y[1])
           [] l = "tcp" -> SameCapture(x, y)
           [] OTHER -> x = y
Observed(l) == \A s \in Sides : document[s][l] # <<>>

\* A verdict is about the wire: compare passes only if every layer asked for
\* was on both wires and was the same there, in everything that Same names, and
\* fails only if a layer was not observed or was not the same.  So among what
\* Same names no hash, no skipped frame, no reserved value, no option that is cut
\* otherwise and no missing document makes a match.  What it leaves out is said
\* with it: the exemptions of the README, the session id and reserved bodies.
PassIsEquivalence ==
  /\ verdict = "pass" => scope # {} /\ \A l \in scope : Same(l)
  /\ verdict = "fail" => \E l \in scope : ~Observed(l) \/ ~Same(l)

\* "Unsupported features remain visible in the measured outbound comparison":
\* what mirror() reports as a limitation is a difference, whatever the library
\* sends, so the strict gate holds it up.
LimitationsAreVisible == verdict = "pass" => reported = {}

\* A client that is the bridge's own library, with settings the bridge can
\* make, is mirrored whole: nothing of what it was set to is lost on the way
\* through the parser, the tables and the settings, and nothing is added.
OwnClientsPass ==
  profile # <<>> /\ stage \in {"refused", "decided"} => verdict = "pass" /\ reported = {}

\* The library is given each of its extensions exactly once, so it has no rest
\* of them to put in an order of its own.
TypeOK ==
  /\ patched \in Builds
  /\ \A s \in Sides : DOMAIN document[s] = Layers /\ Len(document[s]["tls"]) <= 1
  /\ \A i \in DOMAIN settings :
       /\ settings[i].on \subseteq Switched(patched)
       /\ Range(settings[i].order) = Range(BACKEND_EXTENSIONS(patched))
       /\ Len(settings[i].order) = Len(BACKEND_EXTENSIONS(patched))
  /\ verdict \in {"", "pass", "fail", "error"} /\ scope \subseteq Layers
  /\ stage \in {"hello", "mirror", "connect", "captured", "files", "refused", "decided"}
=============================================================================
