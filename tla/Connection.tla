----------------------------- MODULE Connection -----------------------------
(***************************************************************************)
(* handle_connection() of src/src/main.rs with the parts of transport.rs   *)
(* and tls.rs it calls: one accepted connection from its ClientHello to    *)
(* its result, and the files it leaves.                                    *)
(*                                                                         *)
(* `stage' is the await the task is at.  What runs between two awaits is   *)
(* one action.  tokio does file work on a pool of threads: an operation    *)
(* goes on when the task that started it is dropped, but not when the      *)
(* process exits.  op[o] is the state of operation o, and thereby of disk. *)
(***************************************************************************)
EXTENDS Integers

CONSTANTS
  Configs,   \* command lines: [strict, reports, evidence]
  Offers,    \* what a client's hello offers: [versions, alpn]
  Origins,   \* what the origin supports:     [versions, alpn]
  MaxBytes,  \* bound on the bytes of a connection, in each direction
  CapLimit   \* what HttpCapture keeps of them (1 MiB)

Setup == {"hello", "connect", "origin_tls", "inbound", "outbound", "report",
          "client_tls"}
Saving == {"ev_open", "ev_flush", "ev_rename"}
Stages == Setup \cup {"http"} \cup Saving \cup {"done"}

\* Versions: 11, 12, 13.  No supported_versions means TLS 1.2 at most.
Versions == {11, 12, 13}
Protocols == {"h2", "http/1.1"}
Hellos == [versions : SUBSET Versions, alpn : SUBSET (Protocols \cup {"other"})]

CommandLines == [strict : BOOLEAN, reports : BOOLEAN, evidence : BOOLEAN]

ASSUME ConnectionAssumption ==
  /\ Configs \subseteq {c \in CommandLines : c.evidence => c.reports}
  /\ Offers \subseteq Hellos /\ Origins \subseteq Hellos
  /\ MaxBytes \in Nat /\ CapLimit \in Nat

NoSession == [version |-> 0, alpn |-> "none"]
Sessions == [version : {0} \cup Versions, alpn : Protocols \cup {"none"}]
Ops == {"open_in", "write_in", "open_out", "write_out", "report",
        "ev_open", "ev_write", "ev_rename"}

VARIABLES
  cfg, offer, origin,  \* the inputs of the connection
  stage,
  up, down,  \* TLS sessions with the origin and with the client
  match,     \* comparison["pass"]
  op,        \* file operations: "idle", "pending", "landed", "failed"
  inTap,     \* bytes read from the client, and HttpCapture's view of them
  outTap,    \* bytes the origin's socket took, and HttpCapture's view of them
  bridged,   \* what the bridge returned
  result,    \* what handle_connection() logs
  alive      \* the process runs

vars == <<cfg, offer, origin, stage, up, down, match, op, inTap, outTap,
          bridged, result, alive>>
inputs == <<cfg, offer, origin>>
tls == <<up, down, match>>
taps == <<inTap, outTap>>

NewTap == [total |-> 0, kept |-> 0, truncated |-> FALSE]

Init ==
  /\ cfg \in Configs /\ offer \in Offers /\ origin \in Origins
  /\ stage = "hello" /\ up = NoSession /\ down = NoSession /\ match = FALSE
  /\ op = [o \in Ops |-> "idle"]
  /\ inTap = NewTap /\ outTap = NewTap
  /\ bridged = "none" /\ result = "none" /\ alive = TRUE

-----------------------------------------------------------------------------
\* The task is polled: it has no result yet and its process runs.
At(s) == alive /\ result = "none" /\ stage = s

Ends(r) == stage' = "done" /\ result' = r

\* mirror(): the versions offered to the origin.
OnlyTls13(h) == 13 \in h.versions /\ ~\E v \in h.versions : v < 13
Mirrored(h) == {v \in {12, 13} : /\ OnlyTls13(h) => v = 13
                                 /\ 13 \notin h.versions => v = 12}

\* What a client that sent this hello can speak.
Speaks(h) == IF h.versions = {} THEN {12} ELSE h.versions

\* read_hello() and mirror(), which refuses an ALPN that is not HTTP.
ReadHello ==
  /\ At("hello")
  /\ IF offer.alpn \subseteq Protocols
     THEN stage' = "connect" /\ UNCHANGED result
     ELSE Ends("error")
  /\ UNCHANGED <<inputs, tls, op, taps, bridged, alive>>

\* lookup_host() unless --connect gives the address, then connect().
Connected ==
  /\ At("connect") /\ stage' = "origin_tls"
  /\ UNCHANGED <<inputs, tls, op, taps, bridged, result, alive>>

Start(o) == [op EXCEPT ![o] = "pending"]

\* The --strict-tls gate, passed after the reports and before the client's
\* handshake.
Gate(m) ==
  IF cfg.strict /\ ~m
  THEN Ends("strict")
  ELSE stage' = "client_tls" /\ UNCHANGED result

\* The origin picks a version and an ALPN protocol of those mirrored; then
\* the outgoing hello is compared with the incoming one.  Bug: the gate
\* comes before the reports.
OriginTls_GateFirst ==
  /\ At("origin_tls")
  /\ \E v \in Mirrored(offer) \cap origin.versions,
        a \in (offer.alpn \cap origin.alpn) \cup {"none"}, m \in BOOLEAN :
       /\ up' = [version |-> v, alpn |-> a] /\ match' = m
       /\ IF cfg.reports /\ (m \/ ~cfg.strict)
          THEN /\ stage' = "inbound" /\ op' = Start("open_in")
               /\ UNCHANGED result
          ELSE Gate(m) /\ UNCHANGED op
  /\ UNCHANGED <<inputs, down, taps, bridged, alive>>
OriginTls ==
  /\ At("origin_tls")
  /\ \E v \in Mirrored(offer) \cap origin.versions,
        a \in (offer.alpn \cap origin.alpn) \cup {"none"}, m \in BOOLEAN :
       /\ up' = [version |-> v, alpn |-> a] /\ match' = m
       /\ IF cfg.reports
          THEN /\ stage' = "inbound" /\ op' = Start("open_in")
               /\ UNCHANGED result
          ELSE Gate(m) /\ UNCHANGED op
  /\ UNCHANGED <<inputs, down, taps, bridged, alive>>

\* <id>.inbound.json is open: write_all() hands its bytes to the pool and
\* returns, and the file is dropped without a flush.
InboundOpen ==
  /\ At("inbound") /\ op["open_in"] = "landed"
  /\ stage' = "outbound"
  /\ op' = [op EXCEPT !["write_in"] = "pending", !["open_out"] = "pending"]
  /\ UNCHANGED <<inputs, tls, taps, bridged, result, alive>>

OutboundOpen ==
  /\ At("outbound") /\ op["open_out"] = "landed"
  /\ stage' = "report"
  /\ op' = [op EXCEPT !["write_out"] = "pending", !["report"] = "pending"]
  /\ UNCHANGED <<inputs, tls, taps, bridged, result, alive>>

\* tokio::fs::write() of <id>.report.json is waited for.
ReportWritten ==
  /\ At("report") /\ op["report"] = "landed"
  /\ Gate(match)
  /\ UNCHANGED <<inputs, tls, op, taps, bridged, alive>>

\* An unset ALPN means HTTP/1.1, here and in any client.
Selected(s) == IF s.alpn = "none" THEN "http/1.1" ELSE s.alpn

\* The acceptor speaks the origin's version only, and its ALPN callback takes
\* the origin's protocol if the client offered it (NOACK otherwise).
\* Bug: no maximal version.
Accepted_MinOnly(v, a) ==
  /\ v \in Speaks(offer) /\ v >= up.version
  /\ a = IF Selected(up) \in offer.alpn THEN Selected(up) ELSE "none"
Accepted(v, a) ==
  /\ v \in Speaks(offer) /\ v = up.version
  /\ a = IF Selected(up) \in offer.alpn THEN Selected(up) ELSE "none"

ClientTls ==
  /\ At("client_tls")
  /\ \E v \in Versions, a \in Protocols \cup {"none"} :
       /\ Accepted(v, a)
       /\ down' = [version |-> v, alpn |-> a]
  /\ stage' = "http"
  /\ UNCHANGED <<inputs, up, match, op, taps, bridged, result, alive>>

\* HttpTap: what a poll_read of the client or a poll_write to the origin
\* moved; an end of file moves nothing.  Bugs: no limit; a
\* flag that only tells of the last move.
Append_NoLimit(t, n) ==
  [total |-> t.total + n, kept |-> t.kept + n, truncated |-> t.truncated]
Append_Forgets(t, n) ==
  LET k == IF n < CapLimit - t.kept THEN n ELSE CapLimit - t.kept
  IN  [total |-> t.total + n, kept |-> t.kept + k, truncated |-> k # n]
Append(t, n) ==
  LET k == IF n < CapLimit - t.kept THEN n ELSE CapLimit - t.kept
  IN  [total |-> t.total + n, kept |-> t.kept + k,
       truncated |-> t.truncated \/ k # n]

Moved(t, n) == IF cfg.evidence THEN Append(t, n)
                               ELSE [t EXCEPT !.total = t.total + n]

FromClient(n) ==
  /\ At("http") /\ inTap.total + n <= MaxBytes
  /\ inTap' = Moved(inTap, n)
  /\ UNCHANGED <<inputs, stage, tls, op, outTap, bridged, result, alive>>

ToOrigin(n) ==
  /\ At("http") /\ inTap.total > 0 /\ outTap.total + n <= MaxBytes
  /\ outTap' = Moved(outTap, n)
  /\ UNCHANGED <<inputs, stage, tls, op, inTap, bridged, result, alive>>

\* The bridge returns and drops both streams; its result waits until the
\* evidence is written.
BridgeReturns(r) ==
  /\ At("http") /\ bridged' = r
  /\ IF cfg.evidence
     THEN stage' = "ev_open" /\ op' = Start("ev_open") /\ UNCHANGED result
     ELSE Ends(r) /\ UNCHANGED op
  /\ UNCHANGED <<inputs, tls, taps, alive>>

\* write_private_evidence(): create <id>.http.partial, write and flush it,
\* rename it.  Bug: write_all() taken for a write.
EvOpen_NoFlush ==
  /\ At("ev_open") /\ op["ev_open"] = "landed"
  /\ stage' = "ev_rename"
  /\ op' = [op EXCEPT !["ev_write"] = "pending", !["ev_rename"] = "pending"]
  /\ UNCHANGED <<inputs, tls, taps, bridged, result, alive>>
EvOpen ==
  /\ At("ev_open") /\ op["ev_open"] = "landed"
  /\ stage' = "ev_flush" /\ op' = Start("ev_write")
  /\ UNCHANGED <<inputs, tls, taps, bridged, result, alive>>

EvFlushed ==
  /\ At("ev_flush") /\ op["ev_write"] = "landed"
  /\ stage' = "ev_rename" /\ op' = Start("ev_rename")
  /\ UNCHANGED <<inputs, tls, taps, bridged, result, alive>>

EvRenamed ==
  /\ At("ev_rename") /\ op["ev_rename"] = "landed"
  /\ Ends(bridged)
  /\ UNCHANGED <<inputs, tls, op, taps, bridged, alive>>

\* The operation that the task waits for at a stage.
Awaited == [inbound |-> "open_in", outbound |-> "open_out",
            report |-> "report", ev_open |-> "ev_open",
            ev_flush |-> "ev_write", ev_rename |-> "ev_rename"]

FileFails ==
  /\ \E s \in DOMAIN Awaited : At(s) /\ op[Awaited[s]] = "failed"
  /\ Ends("error")
  /\ UNCHANGED <<inputs, tls, op, taps, bridged, alive>>

\* A peer closes, resets, sends no hello or fails the handshake; mirror()
\* finds nothing in the hello that it could offer.
NetworkFails ==
  /\ \E s \in {"hello", "connect", "origin_tls", "client_tls"} : At(s)
  /\ Ends("error")
  /\ UNCHANGED <<inputs, tls, op, taps, bridged, alive>>

\* The inner timer.  Bug: it is put around the whole connection.
HandshakeTimeout_Whole ==
  /\ \E s \in Stages : At(s)
  /\ Ends("handshake timeout")
  /\ UNCHANGED <<inputs, tls, op, taps, bridged, alive>>
HandshakeTimeout ==
  /\ \E s \in Setup : At(s)
  /\ Ends("handshake timeout")
  /\ UNCHANGED <<inputs, tls, op, taps, bridged, alive>>

\* The outer timer, which drops whatever the task waits for.
LifetimeTimeout ==
  /\ \E s \in Stages : At(s)
  /\ Ends("lifetime")
  /\ UNCHANGED <<inputs, tls, op, taps, bridged, alive>>

\* A thread of the pool ends operation o, whoever still waits for it.
Land(o, how) ==
  /\ alive /\ op[o] = "pending"
  /\ op' = [op EXCEPT ![o] = how]
  /\ UNCHANGED <<inputs, stage, tls, taps, bridged, result, alive>>

\* std::process::exit() in main(), or a crash.
ProcessExits ==
  /\ alive /\ alive' = FALSE
  /\ UNCHANGED <<inputs, stage, tls, op, taps, bridged, result>>

Next ==
  \/ ReadHello \/ Connected \/ OriginTls \/ InboundOpen \/ OutboundOpen
  \/ ReportWritten \/ ClientTls
  \/ \E n \in 0..MaxBytes : FromClient(n) \/ ToOrigin(n)
  \/ \E r \in {"ok", "error"} : BridgeReturns(r)
  \/ EvOpen \/ EvFlushed \/ EvRenamed
  \/ FileFails \/ NetworkFails \/ HandshakeTimeout \/ LifetimeTimeout
  \/ \E o \in Ops, how \in {"landed", "failed"} : Land(o, how)
  \/ ProcessExits

Spec == Init /\ [][Next]_vars

-----------------------------------------------------------------------------
Taps == [total : 0..MaxBytes, kept : 0..CapLimit, truncated : BOOLEAN]
TypeOK ==
  /\ cfg \in Configs /\ offer \in Offers /\ origin \in Origins
  /\ stage \in Stages
  /\ up \in Sessions /\ down \in Sessions /\ match \in BOOLEAN
  /\ op \in [Ops -> {"idle", "pending", "landed", "failed"}]
  /\ inTap \in Taps /\ outTap \in Taps
  /\ bridged \in {"none", "ok", "error"}
  /\ result \in {"none", "ok", "error", "strict", "handshake timeout", "lifetime"}
  /\ alive \in BOOLEAN

\* A byte of HTTP moves only between two sessions of one TLS version, which
\* the client offered, and of one protocol; and with --strict-tls only when
\* the comparison passed.
ForwardsOnlyAgreed ==
  inTap.total > 0 \/ outTap.total > 0 =>
    /\ up.version = down.version /\ up.version \in Speaks(offer) \cap origin.versions
    /\ Selected(up) = Selected(down)
    /\ cfg.strict => match

\* <id>.http.json is visible.
Published == op["ev_rename"] = "landed"

\* Visible evidence is whole, and tells whether a byte is missing in it:
\* whatever timer fired, and even when the process died.
EvidenceIsWhole ==
  Published =>
    /\ op["ev_write"] = "landed"
    /\ \A t \in {inTap, outTap} :
         IF t.truncated THEN t.kept = CapLimit /\ t.total > CapLimit
                        ELSE t.kept = t.total

\* A connection that ends well has left its report and its evidence, and one
\* that --strict-tls ended has left the report that says why.
EndsAreDocumented ==
  /\ result = "ok" /\ cfg.evidence => Published
  /\ result \in {"ok", "strict"} /\ cfg.reports => op["report"] = "landed"

\* Visible evidence is of a bridge that ran to its end, and stands beside the
\* connection's reports.  The timers nest: whoever has evidence was not ended by
\* the handshake's timer, and only the outer one may hide what the bridge
\* returned, while the pool still renames.
EvidenceIsOfABridge ==
  Published =>
    /\ bridged # "none" /\ result \in {"none", bridged, "lifetime"}
    /\ \A o \in {"open_in", "open_out", "report"} : op[o] = "landed"

\* What scripts/matrix_lab.py takes for granted: when <id>.http.json is
\* visible, <id>.inbound.json and <id>.outbound.json can be parsed.
WireReportsWithEvidence ==
  Published => op["write_in"] = "landed" /\ op["write_out"] = "landed"
=============================================================================
