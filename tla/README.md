# Verification of fingerprint-bridge

fingerprint-bridge is a TLS and HTTP bridge B: it accepts a client's connection,
opens one to its origin A with a ClientHello that mirrors the client's, and
forwards HTTP/1.1 or HTTP/2 between the two with as few changes as it can. This
directory holds TLA+ specifications of its core, the configurations that
model-check them with TLC, and proofs that TLAPS checks.

Run from this directory: `tlc -config H1Messages.cfg MCH1Bridge` checks one
configuration, `tlapm H1BridgeProofs.tla` one module of proofs. `PROJECT.json`
lists every run, what each mutant breaks, and the source lines that each
definition stands for.

## The system

| Component | State | Operations | Interacts with |
|---|---|---|---|
| Accept loop, `main.rs` `serve()` | semaphore, `JoinSet`, listener | accept, refuse, join, ctrl-c, drain, abort | spawns one connection task each |
| Connection, `main.rs` `handle_connection()`, `transport.rs` | stage of the task, two TLS sessions, two captures, the files of its id, two nested timers | ClientHello, connect, origin handshake, reports, strict gate, client handshake, bridge, evidence | the two bridges, tokio's file pool |
| HTTP/1.1 bridge, `h1.rs` | two futures, a channel of HEAD flags (32), body state of each direction | head, framing, send, body, end of file, shutdown | header mapping |
| HTTP/2 bridge, `h2.rs` | two directions, `PeerLimits` shared by both | preface, SETTINGS, header blocks, other frames, end of file | HPACK rewriter |
| HPACK rewriter, `hpack_wire.rs` | inbound decoder, outbound `Table` | size update, indexed and literal fields, eviction | header mapping, both directions of HTTP/2 |
| Header mapping, `rewrite.rs`, strings of `hpack_wire.rs` | none (a pure function of the command line); a bit buffer per string | authority, URL, cookie domain; integers, strings, Huffman coding | both protocols |
| ClientHello in transit, `transport.rs` `read_hello()`, `Tap`, `Replay` | octets read and not yet replayed, octets captured | read a record, capture a write, replay a read | the connection, the TLS library on both sides |
| ClientHello parser and comparison, `fingerprint.rs` | none | parse, normalise, compare, JA3, JA4 | the connection, the command line |
| TLS mirror, `tls.rs` | none, but for the library's | versions, ALPN, ciphers, groups, signatures, extensions and their order | the connection, the TLS library |
| TCP SYN records, `fingerprint.rs` `pcap_syns()` | none | frames, headers, options | the command line |
| Command line, `main.rs` `run()` | files | inspect-hello, inspect-pcap, compare | the lab |
| crypto providers, scripts, CI, patches | — | offline or third party | — |

What is hard in it, and where a test hardly reaches (every hazard and its line
are in `PROJECT.json`):

* *Two parsers in step.* An HTTP/1.1 bridge has to find the same message
  boundaries as the sender and as the next reader, and pair each response with
  the method of its request, while requests are pipelined, responses interim,
  bodiless or delimited by close, and either side ends anywhere.
* *Two futures in one task.* `select!` drops one half of a bridge in whatever
  state it is. SETTINGS read in one direction bind the other.
* *Two tables that drift.* A mapped header has another length, so the receiver
  evicts other HPACK entries than the sender believes.
* *Two sessions that must agree* in version and protocol, with a gate and
  reports between their handshakes, under two timers.
* *Files that outlive their task.* tokio writes on a pool of threads, timers
  drop the task that waits, the process may die.
* *Octets in pieces.* A hello comes in records, segments and short reads, leaves
  in partial writes, and is read three times: parsed, replayed and captured.
* *Evidence of evidence.* The gate compares what parsers made of two hellos, one
  of which a library wrote after tables of settings. What a parser drops, or a
  table leaves out, could pass for a match.
* *Spellings.* The origin spells itself in many ways, inside URLs and cookies,
  in strings whose coding changes with their length.
* *Admission.* Tasks, permits, joins, signals and the drain race in one loop.

What makes each correct:

* accept loop: never more than the limit inside, nobody refused while there is
  room, no permit lost, ctrl-c works;
* connection: HTTP only between sessions that agree, and past the gate; visible
  evidence whole, and of a bridge that ran to its end; documents left before a
  good end;
* HTTP/1.1: both parsers in step, bounded pipeline, `Ok` only if nothing is
  lost, ends when either side is gone;
* HTTP/2: no peer gets more than it tolerates, blocks whole, frames in order,
  nothing stuck;
* HPACK: the receiver reads the mapped headers in the sender's representation;
* header mapping: a redirect or cookie of the origin leads back to the bridge, and
  to the same page, all else arrives as it was sent;
* ClientHello in transit: exactly the acceptable hellos are accepted, at once, no
  octet lost; the capture is what the socket took;
* evidence: a match means the same wire, limitations show, own clients match.

## Modules

| Module | Models | How |
|---|---|---|
| `H1Framing` | `framing()`, the checks of heads, `body()` | pure operators next to the framing of RFC 9112, which the peers use |
| `H1Bridge` | `h1::bridge()` | one action per await of either future; `qpc` and `rpc` are where the futures are, `chan` is the mpsc channel, `b2u` and `u2b` the wires to and from A. Each token of a wire carries its sender's state, so that a reader out of step is visible |
| `Admission` | what `serve()` promises | abstract: clients, places, a door |
| `Serve` | `serve()` | one action per branch of `select!` and per step of the drain; a client's connection and its task are `conn` and `tasks` |
| `Connection` | `handle_connection()`, `HttpTap`, `HttpCapture`, `write_private_evidence()`, versions and ALPN of `mirror()` | `stage` is the await the task is at; `op` the file operations of the pool, which go on when the task is dropped |
| `H2Frames` | frames, `header_parts()`, `reframe()` | pure operators on lengths |
| `H2Bridge` | `direction()`, `bridge()`, `PeerLimits` | `pc` is what a direction does; one action per frame read and per frame written. A direction is named after its sender |
| `FrameChannel` | what a frame bridge promises | abstract: two FIFO queues |
| `Hpack` | `HeaderRewriter`, `Table` | one action per instruction; the receiver is a table that follows RFC 7541 |
| `ClientHello` | `read_hello()`, `client_hello()`, `Tap`, `Replay` | one action per read, write, record; an octet is its position in its stream, `bytes` is the result of `read_hello()` and the prefix of `Replay`, `want` and `part` the buffer of `read_exact()` |
| `Lists` | `retain()`, `filter()`, `contains()` | what is kept of a list, each element once; recursive functions, which can be proved about |
| `Fingerprint` | `parse_hello()`, `compare()` | pure operators on a hello as lists cut at their lengths |
| `TlsMirror` | `mirror()` for both builds, and the library as it configures it | pure operators: settings, limitations, order of extensions; external: the hello the library sends |
| `TcpSyn` | `pcap_syns()`, `tcp_syn()` | pure operators on frames; the options octet by octet |
| `Evidence` | `handle_connection()` from the hello to the gate; `run()` | composes the three above: one action per step of a connection and per command; `wire` is what there was, `document` what was made of it |
| `Mapping` | `Mapping::value()` and what it calls | pure operators on sequences of tokens |
| `HpackStrings` | `integer()`, `skip_string()`, `put_int()`, `put_string()` | pure operators on octets of any width, loops as recursive functions, which can be proved about; external: the coding of RFC 7541 |
| `HeaderField` | a value's way through `rewrite()` and `h1_head()` and back | composes the two above with a browser that follows redirects. What the browser makes of a URL (`Secure`, `Reads`, `IsUrl`, `Page`) and of a cookie (`IsDomain`) is defined apart from `map_url()` and `Attribute()` |
| `MC...` | instances for TLC | values of the constants |
| `...Proofs` | theorems | see below |
| `Induction` | induction and recursion up to a natural number | lemmas that the proofs share |

`Connection` abstracts the bridge it runs to octets that move and a result,
which `H1Bridge` and `H2Bridge` justify. `Serve` abstracts a connection to a
task that ends: `main.rs` line 197 runs each one inside a lifetime timer. `H2Bridge`
abstracts header rewriting to a change of length, `Hpack` has the headers and
abstracts values, and `HeaderField` has the values. In `Connection` the outcome
of the comparison is a choice; `Evidence` says which it is. `Evidence` starts from
whole hellos, which `ClientHello` assembles; in `ClientHello` whether a message
parses is a choice.

Definitions with a suffix, as `Evict_Late`, are mutants: plausible bugs that
the properties must catch. No specification uses them.

Actions marked external in `PROJECT.json` are peers: A, the client, the kernel,
the thread pool, an HTTP/2 endpoint, a browser, and the TLS library, of which
`TlsMirror` has what `mirror()` relies on: lists are sent as they are set, or the
library's default if they are not; switches add their extensions; extensions
follow the permutation; with GREASE there is a reserved value at the head of the
lists and a reserved extension at both ends. They follow their RFC where the property
needs it (a bridge cannot make sense of a lying peer) but may send what the code
rejects, fall silent, close or vanish at every step.

## Runs

| Run | Question and answer | Bounds |
|---|---|---|
| `h1_messages` | Are both parsers in step, and is `Ok` honest, over every kind of head `framing()` tells apart, rejected ones too? Yes. | 2 requests, 1 interim, 1 piece, channel 1, wires 2 |
| `h1_pipeline` | Is the pipeline bounded when it is longer than channel and wires, and does the bridge end once the client closes, or A owing a response? Yes. | 4 requests of 3 kinds, responses of 4, channel 1, wires 1 |
| `serve` | Are permits conserved; does `Serve` implement `Admission`; are queued clients answered; does ctrl-c stop a busy server? Yes. | 3 clients, limit 2 |
| `client_hello` | Are exactly the acceptable hellos accepted, however they are cut; is every octet replayed once; is the capture the wire; is no octet too many waited for? Yes. | records of 0 to 4 octets, up to 3 of them; headers of 2, prefix of 1, MAX_HELLO 8, MAX_RECORD 3; segments, reads and writes of 1, 2 and 4 |
| `connection` | Does HTTP move only between sessions that agree, is visible evidence whole and of a bridge that ran to its end past both timers, are ends documented? Yes. | hellos and origins of each combination of versions and protocols that decides, 2 octets, capture of 1, every command line |
| `connection_wire_reports` | Are the wire reports there when evidence is? **No**, see Findings. | 1 octet |
| `h2_race` | Do SETTINGS race with header blocks safely? Yes: no peer gets a frame or a table size above what it must tolerate, and a conforming block is rejected only while a lowered limit is unacknowledged. | 2 blocks or fragments, 2 SETTINGS, sizes 2 to 4 |
| `h2_order` | Are blocks whole and frames in order, with faulty peers? Yes. | 3 frames, wires 1, blocks that grow by 2 or shrink by 1 |
| `h2_liveness` | Does everything arrive, and does the end of A end the bridge? Yes; no deadlock. | both directions, wires 1 |
| `hpack` | Does the receiver read the mapped headers? Yes. | tables of 0 to 3 units, a mapping that lengthens, 2 static entries |
| `header_field` | Does a redirect of the origin come back to the bridge and home, and a cookie to its domain, in HTTP/1.1 and both codings of HPACK, and is nothing else changed or rejected? Yes, but for the exceptions below. | 813 fields, each in the three forms: 8 tokens, 22 characters with codes of 2 to 11 bits, octets of 5 bits |
| `evidence` | Does a match mean the same wire but for what is exempt, do limitations show, is the bridge's own library mirrored whole? Yes. | both builds; a hello of 19 extensions varied in one or two fields (430 hellos), 2358 settings of the patched library and 414 of the stock one, options of up to 3 octets of an alphabet of 5, captures of up to 2 frames |

Why the bounds are enough. In the bridges a state depends on a message and its
neighbours: two requests make every pair of framings, and four through a channel
of one make every fill of the pipeline. Wires of one or two tokens block as soon
as they can; longer ones only add room. The sizes of HTTP/2 keep the order of
the real ones (the least frame size, a larger one, the block limit, padding
below them), and a block of three fragments has a first, a middle and a last.
HPACK tables hold three short headers or one short and one long, so that the
sender's and the receiver's evict differently; sizes 1 and 2 stand
for short and long. The captures overflow by one octet. In `client_hello` the header, the prefix
and the message can each be cut in every place, and each limit be met and passed
by one octet. In `header_field` an octet of 5 bits makes strings of 15 octets and more need
a continuation, as 127 do in the code, and characters of 2 to 11 bits cross
octets as those of 5 to 30 do; its buffer of 15 bits holds what is left of an
octet and the longest code, with no more to spare than that, where the code has 64 bits for 7 and 30.
In `evidence` a timestamp has 3 octets in place of 10, so that options before, after and
inside it fit in a string of three. For the safety
properties the proofs below remove the bounds.

Deadlock is checked in the HTTP/1.1, `serve`, HPACK and `h2_liveness` runs, where a
finished bridge or server stutters explicitly. It is not in the connection runs, as a
connection is over at "done", nor in `client_hello`, `header_field` and
`evidence`, which end with a verdict or a silent client, nor in `h2_race` and `h2_order`, whose peers may
fall silent on an open connection.

### Fairness

* `H1Bridge`: weak fairness of each future, whose steps stay ready until they
  are polled (tokio wakes both), of A reading, answering and finishing what it
  began. Nothing obliges the client.
* `H2Bridge`: weak fairness of each direction and of the peers' reading; an
  HTTP/2 endpoint reads always.
* `Serve`: strong fairness of the branches of the loop, since `select!` polls
  in random order and no branch that is ready again and again loses for ever;
  weak fairness of the drain, of its timer and of the end of each task, since
  `handle_connection()` is one `timeout(lifetime, ...)` (`main.rs` line 197).
* `Connection`: none. What it says of timers is that they nest
  (`EvidenceIsOfABridge`); that a timer fires is not a property of this code.
* `ClientHello`: weak fairness of `read_hello()`, which is polled when the socket
  has octets for it or has ended. The client owes nothing, so liveness is
  about a client that has sent its message.

### Findings

`connection_wire_reports`: `main.rs` line 210 writes `<id>.inbound.json` and
`<id>.outbound.json` with `write_all()` on a `tokio::fs::File`, which hands the
octets to the pool, and drops the file without `flush()`. `scripts/matrix_lab.py`
lines 252 to 254 parses both once the evidence `<id>.http.json` is visible.
Nothing orders the two: TLC shows evidence visible while a wire report is not
written, or has failed to be.

Three more disagreements have no run of their own. The properties that pass name
each as an exception:

* `parse_hello()` reads past the session id (`fingerprint.rs` line 217). The
  repository's README (line 197) exempts its value, but a hello without one and a
  hello with 32 octets compare equal, and where TLS 1.3 is offered the library sends 32 octets
  whatever the client had. `SameHello`, and with it `PassIsEquivalence`, leaves
  `session` out, and with it only the body of an extension whose number is reserved.
* `map_url()` knows `https://` in small letters only (`rewrite.rs` line 43). A browser takes
  `HTTPS://A/` for the same and goes past the bridge, as it does with a user
  before the host or a host in Unicode; the README (line 64) says that a `Location` with exactly
  A's HTTPS authority becomes B's. `RedirectComesBack` lets such a redirect leave,
  where `Usual` does not hold, and no other.
* `map_url()` ends an authority at `/`, `?` or `#` (`rewrite.rs` line 50); `url::Url`, which it
  asks whether this is A, ends it at a backslash too. `https://A\x/y` is then A, all of
  `A\x` is replaced, and the client goes to `https://B/y`, while the README (line 63) and
  `tests/fingerprints.rs` line 270 say that the path is kept. `RedirectComesBack`
  has the page kept where no backslash begins it.

Worth knowing of values, and exactly so in `RedirectComesBack` and
`CookieIsForBridge`: behind more than one dot, or amid white space that is not
ASCII, a `Domain` is taken for A's by the bridge and not by a browser; a mapped
field that is no UTF-8, or nothing but blanks, ends the connection, as a control
does in HTTP/2.

Worth knowing, though no document contradicts it: a peer that lowers
`SETTINGS_MAX_FRAME_SIZE` or the table size makes the bridge reject header
blocks that were legal when the other sent them. `OnlyLoweringRejects` says that
this is the only way a conforming block is rejected for a limit.

## Proofs

All hold for every value of the constants that the named assumptions admit.
`HeadsAssumption` and `BoundsAssumption`, `ServeAssumption`, `ConnectionAssumption`,
`HpackAssumption`, `FramesAssumption`, `BridgeAssumption` and `EvidenceAssumption` say types, the order of
sizes that RFC 9113 fixes, and that a capacity is positive. `StringsAssumption` is
about the Huffman table: a prefix code, of which no part of padding is a character, and
whose longest code fits in the bit buffer behind 7 bits that wait.
`MappingAssumption` says that B's and A's names parse and that a spelling of a host is
neither blank nor punctuation; `FieldAssumption`, that fields are octets of the alphabet, UTF-8 or not,
of lengths that `integer()` takes (28 bits of shift, far more than a block holds), and of the
browser only that it knows the schemes and authorities that `map_url()` knows, by
the same site, that a page begins with what ends an authority, and that B's own
name is nothing more. What else it takes for a URL is open. `HelloAssumption`
adds that a message has its prefix. `FaultsAssumption` says what the faulty frames of
`H2Bridge` are about: a kind, a place or a size, never an acknowledgement or
SETTINGS that the bridge passes, as nobody could count announcements with a peer that
acknowledges what it was never sent. `OnlyLoweringCauses` alone assumes more
(`SmallFaults`): that a faulty block is no larger than any limit, because a peer
that exceeds what it was told is rejected for that and nothing else.

* `H1BridgeProofs`: `TypeOK`, `ResponsesInSync`, `RequestsInSync`,
  `PipelineBound`, `OkMeansAnswered`. The two InSync properties are nearly
  inductive, because a wire's tokens carry the state of their sender: a token
  appended continues the last one, and a reader that takes the first one arrives
  at the state of the next. What they lack is control: which state variables go
  with which place of a future (`Control`), that the channel holds the flags of
  the requests announced and not received (`ChannelInOrder`), and the types of
  the wires (`WiresInOrder`). The invariant is the conjunction of all. The bound
  and `OkMeansAnswered` follow from it.
* `ServeProofs`: `TypeOK`, `PermitsConserved`, and that `Serve` implements
  `Admission`, every step a step or a stutter. The invariant is the conjunction
  of the first two: without the conservation of permits, "a permit is free" would
  not mean "fewer than Limit are inside". Cardinalities come from
  FiniteSetTheorems.
* `ConnectionProofs`: `TypeOK`, `ForwardsOnlyAgreed`, `EvidenceIsWhole`,
  `EndsAreDocumented`, `EvidenceIsOfABridge`. They need to be known stage by stage: which session exists
  (`Negotiated`), which captures are final (`Captured`, `Quiet`), which
  operation can be pending (`EvidenceOrder`), and that the report has landed
  before HTTP starts (`ReportLanded`).
* `H2BridgeProofs`: `TypeOK`, `LimitsKept`, `OnlyLoweringRejects`, `BlocksIntact`,
  and that `H2Bridge` implements `FrameChannel`. Every action of either direction or
  peer does one of nine things to the frames (`Effects`), and the invariants are
  shown to survive those nine. `LimitsKept` is far from inductive. It takes
  what a direction holds where (`Shape`); that announcements and acknowledgements
  of a peer, in flight on four queues, add up to what it has sent (`Conserved`);
  that the limits stored for a direction are those its receiver announced last
  among the ones the bridge has read (`Stored`), as the limit is stored before the SETTINGS go
  on and the acknowledgement can only follow them; and then `Honoured`: in each
  queue, a block behind the *n*-th acknowledgement obeys a limit from the *n*-th
  announcement on. `OnlyLoweringRejects` adds `Observing`, the same for
  blocks that have not reached the bridge. Sums over queues are taken with
  counts that grow frame by frame. `BlocksIntact` says of what is written, in place of what is
  read, that it consists of whole blocks and perhaps one that is still being
  written (`AllIntact`). For the refinement the abstract queue is the wire to the bridge,
  what is gathered, and what is to be written, with each block as one item: a gather,
  a rewrite or a cut leaves it as it is.
* `HpackProofs`: `TypeOK`, `SizesAreTrue`, `TablesAgree`, `HeadersMapped`,
  `RepresentationKept`. The
  argument for the last three is one lemma, `RewritingStands`: the instruction written stands, in a
  table that equals the receiver's, for the mapped header, since `find()`
  returns nothing or an index of what was asked for (`FindFinds`). Equal tables
  stay equal, as both sides insert the same header and evict alike. Sizes are
  sums over a table's entries: a new entry adds its size to each of them
  (`CountsAfter`), what is left counts as before (`CountsAgree`), so a table whose
  size was that of its entries ends within its limit (`EvictSound`).

  For values the same module has `RedirectsComeBack` and `CookiesAreForBridge`, of strings of any
  length. The argument has three layers. *Octets*: a peer and the bridge have
  the same integers (`SentLong`, `HeadFound`, `SumIsDefined`), `put_string()` writes
  what RFC 7541 would, as its buffer is the text not yet written, and a text is read
  back character by character because no code begins another and padding is no
  character (`OneCode`, `UndoText`); so what is read of a rewritten string
  is `value()` of the string, copied or written anew, unless a control ends it
  (`CarriedIsValue`). *Values*:
  a URL that `map_url()` knows becomes the same URL of the other name, between the same
  blanks, and any other text is kept (`UrlValues`); what a browser reads of the one and
  the other is compared apart from that (`LeadsProperties`, `PageIsSent`). Joining inverts
  splitting, and of each attribute a browser reads what it read, but for the host
  of A (`AttributeProperties`, `CookieValues`); that the bridge trims more white
  space than the browser is why the renamed part is compared in both ways (`TrimWider`). *The journey*: `JourneyInv` says, stage by stage, that the client
  has what `value()` made, and that its request is for the page of the Location it
  read. Neither property is inductive without it: that the request is let through
  needs to be known of what was read two steps before. The page is what the browser makes of the
  value, whose length and tokens must be shown to fit in a request (`PageProperties`).
* `ClientHelloProofs`: `TypeOK` (with it the limits of both captures),
  `NothingLost`, `VerdictIsOfMessage`, `CaptureIsWire`. The invariant
  adds that a body announced still fits (`Staged`), and where among the records the
  reader is, with no hello found before (`Reading`). Octets are stretches
  of a stream: two that meet are one (`OctetsMeet`), what is behind a position
  grows with its sequence (`RestOfConcat`) and shrinks from the front
  (`RestIsCut`). Verdicts rest on two lemmas about `client_hello()` of any number of octets,
  records of any lengths: what it finds is acceptable and there
  (`FoundIsAcceptable`), and what is acceptable is found as soon as it is there,
  and never rejected before (`AcceptableVerdict`).
* `Induction` has what the others need of naturals: a least element, induction
  and recursion up to a bound, for sets and functions in place of the library's
  operators.

* `EvidenceProofs`: `TypeOK`, `PassIsEquivalence`, `LimitationsAreVisible`,
  `OwnClientsPass`, from
  `EvidenceAssumption`: hellos and captures have their types, reserved values are
  those of GREASE, neither these nor the SCSV, which no library offers as a suite, are
  among `Ciphers`, and a client that is the bridge's library has settings of the kind
  that `mirror()` makes (`Mirrorable`; that it makes no other is
  `MirrorIsMirrorable`). Nothing bounds lists, hellos, captures or option strings. The
  parts of the argument have no states. Observations of two hellos
  that parse are equal exactly if the hellos are the same, but for the session id (`ObservedEqualIsSame`,
  `SameIsObservedEqual`): an extension occurs once, so a list found by its id
  belongs to the extension at the same place of the other hello. The same for the options of
  a SYN (`OptionsPass`, `OptionsFail`): the loop of `tcp_syn()` cuts a list that is
  not malformed from end to end (`TraceExists`), and there is one way only to do so
  (`CutsAreStarts`), so what it leaves out, the values of timestamps, is the same
  on both sides. And if the observation of what the library sends with
  the settings of `mirror()` equals the client's, `mirror()` has reported nothing
  (`LimitationsDiffer`): each value of the client must then be one that the
  library sends, which sends only what it was set to, or a default.
  The invariant ties these to the connection: a document has
  nothing or what the parsers make of the wire (`DocumentsAreOfWires`), the
  verdict is of the documents, and the library's hello is of settings
  made from the hello that was parsed (`SettingsAreOfHello`). `TypeOK`
  rests on `OrderProperties`: `extension_order()` is a permutation of the backend's table.

  `OwnClientsPass` goes once around. What is observed of the library's hello is, list
  by list, what it was set to, with the library's default where it was set to
  nothing, and reserved values in front (`EmissionItems`, `OwnObserved`); the tables
  keep all of it and drop only what is reserved (`KeepBehind`, `OwnLists`), so
  nothing is left out (`OwnAccepted`) and `mirror()` has the client's settings again,
  but for the defaults, which are spelled out now (`OwnMirrored`). The order is the
  delicate part: `extension_order()` has the client's extensions in front, each once,
  and the rest of the table behind, none of which is sent (`OwnFront`), since which
  extensions are sent depends on switches and empty lists that come back as they
  were (`SendsDecided`). The second hello is then the first, but for the reserved
  values drawn (`OwnSame`), so both are observed to be equal (`OwnRoundTrip`). `OwnInv`
  carries this through the stages of the connection.

The proof of `LimitationsDiffer` found a mistake of the model that no run had reached: the
second reserved extension was the first plus 0x1010, which for 0xFAFA is no
reserved value. It is the first XOR 0x1010 (`Second`).

Only model-checked: all liveness (fairness and ENABLED are out of TLAPS's reach here).
Every safety property that a passing run checks is a theorem.

## What is left out, and the plan

Abstracted: octets and their syntax (a head is what the checks read of it, a
header is a name and a value of a small set, a hello is lists already cut at their
length prefixes, and `proper` says whether they could be), the Huffman table (a constant), logging, the
contents of reports. A digest is the body itself, so collisions are left out.
`authority()` is a table of spellings, as `url::Url` parses them.

Not modelled:

* the cryptographic providers and the native one: stateless arithmetic;
* the certificate decompressors of `tls.rs`: stateless, bounded by their own
  limits;
* `ja3()` and `ja4()`: digests of fields that `compare()` compares anyway. They
  decide nothing, and two different hellos may share them, so no verdict is
  about them;
* the lengths and alignment of the Huffman table: the repository's own test
  codes all 256 octets against another implementation;
* the patches to BoringSSL and the scripts that build and test: third-party or
  offline;
* failures of the library's own setters, each of which ends the connection as
  `Refused` does.

Worth knowing of the evidence, and exactly so in the model: the body of
extension 50 is digested besides being decoded, so a reserved value in it makes
a difference although `words()` normalises it, and bodies of extensions that
are not decoded are compared as they are. What `mirror()` does not configure is not
always a limitation: without the patched library point formats and reserved
places in the cipher list are left to the library, and a key share of an unknown group is
dropped without a word. The comparison shows them, which is all that
`PassIsEquivalence` needs.

The order of the plan: the HTTP/1.1 bridge first, as pairing messages is what
the bridge is for; then the server around it, the connection, HPACK and HTTP/2;
then the hello in transit, the evidence and the values of headers, all of which
are here. Next:

1. A composition of `Serve` and `Connection`, so that a connection's timers and
   the drain meet.
