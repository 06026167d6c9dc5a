-------------------------- MODULE ConnectionProofs --------------------------
(***************************************************************************)
(* For any command lines, hellos, origins and byte counts: HTTP moves only *)
(* between sessions that agree, visible evidence is whole and of a bridge  *)
(* that ran to its end, and the ends that owe a document have left it.     *)
(***************************************************************************)
EXTENDS Connection, TLAPS

\* A session with the origin that the client could have made itself, as far
\* as its offer and the gate tell.
OriginAgreed ==
  /\ up.version \in {12, 13} \cap origin.versions
  /\ up.alpn \in offer.alpn \cup {"none"}

PassedGate == cfg.strict => match

\* A session with the client that agrees with the one with the origin.
ClientAgreed ==
  /\ down.version = up.version /\ up.version \in Speaks(offer)
  /\ Selected(up) = Selected(down)

Negotiated ==
  /\ stage \notin {"hello", "done"} => offer.alpn \subseteq Protocols
  /\ stage \in {"inbound", "outbound", "report", "client_tls", "http"} \cup Saving
       => OriginAgreed
  /\ stage \in {"client_tls", "http"} \cup Saving => PassedGate
  /\ stage \in {"http"} \cup Saving => ClientAgreed

\* Nothing moves before both handshakes.
Quiet == stage \in Setup => inTap = NewTap /\ outTap = NewTap

\* A capture that keeps a prefix, and knows when it is a proper one.
TapOK(t) == IF t.truncated THEN t.kept = CapLimit /\ t.total > CapLimit
                           ELSE t.kept = t.total
Captured == cfg.evidence => TapOK(inTap) /\ TapOK(outTap)

\* How far the evidence can be at each stage.
EvidenceOrder ==
  /\ op["ev_rename"] # "idle" => op["ev_write"] = "landed" /\ cfg.evidence
  /\ stage \in Setup \cup {"http", "ev_open"}
       => op["ev_write"] = "idle" /\ op["ev_rename"] = "idle"
  /\ stage = "ev_flush" => op["ev_rename"] = "idle"
  /\ stage \in Saving => cfg.evidence /\ bridged # "none"

ReportLanded ==
  stage \in {"client_tls", "http"} \cup Saving /\ cfg.reports
    => op["report"] = "landed"

IInv ==
  /\ TypeOK /\ Negotiated /\ Quiet /\ Captured /\ EvidenceOrder /\ ReportLanded
  /\ ForwardsOnlyAgreed /\ EvidenceIsWhole /\ EndsAreDocumented

LEMMA InitIInv == Init => IInv
  <1> SUFFICES ASSUME Init PROVE IInv
    OBVIOUS
  <1>1. TypeOK
    <2>1. NoSession \in Sessions
      BY DEF NoSession, Sessions
    <2>2. NewTap \in Taps
      BY ConnectionAssumption DEF NewTap, Taps
    <2> QED  BY <2>1, <2>2 DEF Init, TypeOK, Stages, Setup
  <1>2. op["ev_rename"] = "idle" /\ op["ev_write"] = "idle"
    BY DEF Init, Ops
  <1>3. Negotiated /\ Quiet /\ EvidenceOrder /\ ReportLanded
    BY <1>2 DEF Init, Negotiated, Quiet, EvidenceOrder, ReportLanded, Setup, Saving
  <1>4. Captured
    BY DEF Init, Captured, TapOK, NewTap
  <1>5. ForwardsOnlyAgreed /\ EvidenceIsWhole /\ EndsAreDocumented
    BY <1>2 DEF Init, ForwardsOnlyAgreed, EvidenceIsWhole, EndsAreDocumented,
       NewTap, Published
  <1> QED  BY <1>1, <1>3, <1>4, <1>5 DEF IInv

(***************************************************************************)
(* The connection ends: whatever it ended at, what was true of its         *)
(* sessions, captures and files stays true.                                *)
(***************************************************************************)
LEMMA EndInv ==
  ASSUME IInv, result = "none",
         NEW r \in {"ok", "error", "strict", "handshake timeout", "lifetime"},
         Ends(r),
         UNCHANGED <<cfg, offer, origin, up, down, match, op, inTap, outTap,
                     bridged, alive>>,
         r = "ok" => /\ cfg.evidence => Published
                     /\ cfg.reports => op["report"] = "landed",
         r = "strict" => (cfg.reports => op["report"] = "landed")
  PROVE  IInv'
  <1> USE DEF Ends
  <1>1. TypeOK'
    BY DEF IInv, TypeOK, Stages
  <1>2. Negotiated' /\ Quiet' /\ ReportLanded'
    BY DEF Negotiated, Quiet, ReportLanded, Setup, Saving
  <1>3. Captured' /\ EvidenceOrder'
    BY DEF IInv, Captured, EvidenceOrder, TapOK, Setup, Saving
  <1>4. ForwardsOnlyAgreed' /\ EvidenceIsWhole'
    BY DEF IInv, ForwardsOnlyAgreed, EvidenceIsWhole, Published, Selected, Speaks
  <1>5. EndsAreDocumented'
    BY DEF EndsAreDocumented, Published
  <1> QED  BY <1>1, <1>2, <1>3, <1>4, <1>5 DEF IInv

(***************************************************************************)
(* One lemma per action that changes more than the result.                 *)
(***************************************************************************)
LEMMA ReadHelloInv == IInv /\ ReadHello => IInv'
  <1> SUFFICES ASSUME IInv, ReadHello PROVE IInv'
    OBVIOUS
  <1> USE DEF ReadHello, At, inputs, tls, taps
  <1>1. CASE offer.alpn \subseteq Protocols
    <2> USE <1>1
    <2>1. TypeOK'
      BY DEF IInv, TypeOK, Stages, Setup
    <2>2. Negotiated' /\ Quiet' /\ ReportLanded'
      BY DEF IInv, Negotiated, Quiet, ReportLanded, Setup, Saving
    <2>3. Captured' /\ EvidenceOrder'
      BY DEF IInv, Captured, EvidenceOrder, TapOK, Setup, Saving
    <2>4. ForwardsOnlyAgreed' /\ EvidenceIsWhole' /\ EndsAreDocumented'
      BY DEF IInv, ForwardsOnlyAgreed, EvidenceIsWhole, EndsAreDocumented,
         Published, Selected, Speaks
    <2> QED  BY <2>1, <2>2, <2>3, <2>4 DEF IInv
  <1>2. CASE ~(offer.alpn \subseteq Protocols)
    BY <1>2, EndInv
  <1> QED  BY <1>1, <1>2

LEMMA ConnectedInv == IInv /\ Connected => IInv'
  <1> SUFFICES ASSUME IInv, Connected PROVE IInv'
    OBVIOUS
  <1> USE DEF Connected, At, inputs, tls, taps
  <1>1. TypeOK'
    BY DEF IInv, TypeOK, Stages, Setup
  <1>2. Negotiated' /\ Quiet' /\ ReportLanded'
    BY DEF IInv, Negotiated, Quiet, ReportLanded, Setup, Saving
  <1>3. Captured' /\ EvidenceOrder'
    BY DEF IInv, Captured, EvidenceOrder, TapOK, Setup, Saving
  <1>4. ForwardsOnlyAgreed' /\ EvidenceIsWhole' /\ EndsAreDocumented'
    BY DEF IInv, ForwardsOnlyAgreed, EvidenceIsWhole, EndsAreDocumented,
       Published, Selected, Speaks
  <1> QED  BY <1>1, <1>2, <1>3, <1>4 DEF IInv

\* The origin answers out of what was mirrored.
LEMMA OriginTlsInv == IInv /\ OriginTls => IInv'
  <1> SUFFICES ASSUME IInv, OriginTls PROVE IInv'
    OBVIOUS
  <1> USE DEF OriginTls, At, inputs, taps
  <1>1. PICK v \in Mirrored(offer) \cap origin.versions,
             a \in (offer.alpn \cap origin.alpn) \cup {"none"}, m \in BOOLEAN :
          /\ up' = [version |-> v, alpn |-> a] /\ match' = m
          /\ IF cfg.reports
             THEN /\ stage' = "inbound" /\ op' = Start("open_in")
                  /\ UNCHANGED result
             ELSE Gate(m) /\ UNCHANGED op
    OBVIOUS
  <1>2. v \in {12, 13} \cap origin.versions /\ a \in offer.alpn \cup {"none"}
    BY DEF Mirrored
  <1>3. OriginAgreed'
    BY <1>1, <1>2 DEF OriginAgreed
  <1>4. inTap = NewTap /\ outTap = NewTap /\ offer.alpn \subseteq Protocols
    BY DEF IInv, Quiet, Negotiated, Setup
  <1>5. op["ev_write"] = "idle" /\ op["ev_rename"] = "idle"
    BY DEF IInv, EvidenceOrder, Setup
  <1>6. up' \in Sessions
    <2>1. a \in Protocols \cup {"none"}
      BY DEF IInv, Negotiated
    <2> QED  BY <1>1, <1>2, <2>1 DEF Sessions, Versions
  <1>7. CASE cfg.reports
    <2>1. stage' = "inbound" /\ op' = Start("open_in") /\ result' = result
      BY <1>1, <1>7
    <2>2. op'["ev_write"] = "idle" /\ op'["ev_rename"] = "idle"
      BY <2>1, <1>5 DEF Start, IInv, TypeOK, Ops
    <2>3. TypeOK'
      BY <1>1, <1>6, <2>1 DEF IInv, TypeOK, Stages, Setup, Start, Ops
    <2>4. Negotiated' /\ Quiet' /\ ReportLanded'
      BY <1>3, <1>4, <2>1 DEF Negotiated, Quiet, ReportLanded, Setup, Saving
    <2>5. Captured' /\ EvidenceOrder'
      BY <2>1, <2>2 DEF IInv, Captured, EvidenceOrder, TapOK, Setup, Saving
    <2>6. ForwardsOnlyAgreed' /\ EvidenceIsWhole' /\ EndsAreDocumented'
      BY <1>4, <2>1, <2>2 DEF ForwardsOnlyAgreed, EvidenceIsWhole,
         EndsAreDocumented, Published, NewTap
    <2> QED  BY <2>3, <2>4, <2>5, <2>6 DEF IInv
  <1>8. CASE ~cfg.reports
    <2>1. Gate(m) /\ op' = op
      BY <1>1, <1>8
    <2>2. TypeOK'
      BY <1>1, <1>6, <2>1 DEF IInv, TypeOK, Stages, Setup, Gate, Ends
    <2>3. Negotiated' /\ Quiet' /\ ReportLanded'
      BY <1>1, <1>3, <1>4, <1>8, <2>1 DEF Negotiated, Quiet, ReportLanded,
         PassedGate, Setup, Saving, Gate, Ends
    <2>4. Captured' /\ EvidenceOrder'
      BY <2>1, <1>5 DEF IInv, Captured, EvidenceOrder, TapOK, Setup, Saving,
         Gate, Ends
    <2>5. ForwardsOnlyAgreed' /\ EvidenceIsWhole'
      BY <1>4, <1>5, <2>1 DEF ForwardsOnlyAgreed, EvidenceIsWhole, Published, NewTap
    <2>6. EndsAreDocumented'
      BY <1>8, <2>1 DEF EndsAreDocumented, Published, Gate, Ends
    <2> QED  BY <2>2, <2>3, <2>4, <2>5, <2>6 DEF IInv
  <1> QED  BY <1>7, <1>8

\* The files of the wire reports are opened, and the report is waited for.
LEMMA OpenInv == IInv /\ (InboundOpen \/ OutboundOpen) => IInv'
  <1> SUFFICES ASSUME IInv, InboundOpen \/ OutboundOpen PROVE IInv'
    OBVIOUS
  <1> USE DEF InboundOpen, OutboundOpen, At, inputs, tls, taps
  <1>1. op \in [Ops -> {"idle", "pending", "landed", "failed"}]
    BY DEF IInv, TypeOK
  <1>2. /\ op["ev_write"] = "idle" /\ op["ev_rename"] = "idle"
        /\ inTap = NewTap /\ outTap = NewTap /\ OriginAgreed
        /\ offer.alpn \subseteq Protocols
    BY DEF IInv, EvidenceOrder, Quiet, Negotiated, Setup
  <1>3. op'["ev_write"] = "idle" /\ op'["ev_rename"] = "idle"
    BY <1>1, <1>2 DEF Ops
  <1>4. TypeOK'
    BY <1>1 DEF IInv, TypeOK, Stages, Setup
  <1>5. Negotiated' /\ Quiet' /\ ReportLanded'
    BY <1>2 DEF Negotiated, Quiet, ReportLanded, Setup, Saving, OriginAgreed
  <1>6. Captured' /\ EvidenceOrder'
    BY <1>3 DEF IInv, Captured, EvidenceOrder, TapOK, Setup, Saving
  <1>7. ForwardsOnlyAgreed' /\ EvidenceIsWhole' /\ EndsAreDocumented'
    BY <1>2, <1>3 DEF ForwardsOnlyAgreed, EvidenceIsWhole, EndsAreDocumented,
       Published, NewTap
  <1> QED  BY <1>4, <1>5, <1>6, <1>7 DEF IInv

LEMMA ReportWrittenInv == IInv /\ ReportWritten => IInv'
  <1> SUFFICES ASSUME IInv, ReportWritten PROVE IInv'
    OBVIOUS
  <1> USE DEF ReportWritten, At, inputs, tls, taps
  <1>1. CASE cfg.strict /\ ~match
    BY <1>1, EndInv DEF Gate
  <1>2. CASE ~(cfg.strict /\ ~match)
    <2>1. stage' = "client_tls" /\ result' = result
      BY <1>2 DEF Gate
    <2>2. /\ op["ev_write"] = "idle" /\ op["ev_rename"] = "idle"
          /\ inTap = NewTap /\ outTap = NewTap /\ OriginAgreed
          /\ offer.alpn \subseteq Protocols
      BY DEF IInv, EvidenceOrder, Quiet, Negotiated, Setup
    <2>3. TypeOK'
      BY <2>1 DEF IInv, TypeOK, Stages, Setup
    <2>4. Negotiated' /\ Quiet' /\ ReportLanded'
      BY <1>2, <2>1, <2>2 DEF Negotiated, Quiet, ReportLanded, Setup, Saving,
         OriginAgreed, PassedGate
    <2>5. Captured' /\ EvidenceOrder'
      BY <2>1, <2>2 DEF IInv, Captured, EvidenceOrder, TapOK, Setup, Saving
    <2>6. ForwardsOnlyAgreed' /\ EvidenceIsWhole' /\ EndsAreDocumented'
      BY <2>1, <2>2 DEF ForwardsOnlyAgreed, EvidenceIsWhole, EndsAreDocumented,
         Published, NewTap
    <2> QED  BY <2>3, <2>4, <2>5, <2>6 DEF IInv
  <1> QED  BY <1>1, <1>2

\* The client is answered with the origin's version, and with its protocol
\* or, when the origin chose none, with what none stands for.
LEMMA ClientTlsInv == IInv /\ ClientTls => IInv'
  <1> SUFFICES ASSUME IInv, ClientTls PROVE IInv'
    OBVIOUS
  <1> USE DEF ClientTls, At, inputs, taps
  <1>1. PICK v \in Versions, a \in Protocols \cup {"none"} :
          Accepted(v, a) /\ down' = [version |-> v, alpn |-> a]
    OBVIOUS
  <1>2. OriginAgreed /\ PassedGate /\ offer.alpn \subseteq Protocols
    BY DEF IInv, Negotiated
  <1>3. /\ op["ev_write"] = "idle" /\ op["ev_rename"] = "idle"
        /\ inTap = NewTap /\ outTap = NewTap
        /\ cfg.reports => op["report"] = "landed"
    BY DEF IInv, EvidenceOrder, Quiet, ReportLanded, Setup
  <1>4. ClientAgreed'
    <2>1. down'.version = up'.version /\ up'.version \in Speaks(offer)'
      BY <1>1 DEF Accepted, Speaks
    <2>2. Selected(up) \notin offer.alpn => Selected(up) = "http/1.1"
      BY <1>2 DEF OriginAgreed, Selected
    <2>3. Selected(up) # "none"
      BY <1>2 DEF OriginAgreed, Selected, Protocols
    <2>4. Selected(down') = Selected(up)
      BY <1>1, <2>2, <2>3 DEF Accepted, Selected
    <2> QED  BY <2>1, <2>4 DEF ClientAgreed, Selected
  <1>5. TypeOK'
    BY <1>1 DEF IInv, TypeOK, Stages, Setup, Sessions
  <1>6. Negotiated' /\ Quiet' /\ ReportLanded'
    BY <1>2, <1>3, <1>4 DEF Negotiated, Quiet, ReportLanded, Setup, Saving,
       OriginAgreed, PassedGate
  <1>7. Captured' /\ EvidenceOrder'
    BY <1>3 DEF IInv, Captured, EvidenceOrder, TapOK, Setup, Saving
  <1>8. ForwardsOnlyAgreed' /\ EvidenceIsWhole' /\ EndsAreDocumented'
    BY <1>3 DEF ForwardsOnlyAgreed, EvidenceIsWhole, EndsAreDocumented,
       Published, NewTap
  <1> QED  BY <1>5, <1>6, <1>7, <1>8 DEF IInv

\* What moves is captured up to the limit, and the flag remembers the rest.
LEMMA MovedOK ==
  ASSUME TypeOK, NEW t \in Taps, NEW n \in 0..MaxBytes,
         t.total + n <= MaxBytes, cfg.evidence => TapOK(t)
  PROVE  Moved(t, n) \in Taps /\ (cfg.evidence => TapOK(Moved(t, n)))
  <1>1. MaxBytes \in Nat /\ CapLimit \in Nat
    BY ConnectionAssumption
  <1>2. t.total \in 0..MaxBytes /\ t.kept \in 0..CapLimit /\ t.truncated \in BOOLEAN
    BY DEF Taps
  <1>3. CASE cfg.evidence
    <2> DEFINE k == IF n < CapLimit - t.kept THEN n ELSE CapLimit - t.kept
               u == Moved(t, n)
    <2>1. /\ u.total = t.total + n /\ u.kept = t.kept + k
          /\ u.truncated = (t.truncated \/ k # n)
          /\ u = [total |-> t.total + n, kept |-> t.kept + k,
                  truncated |-> t.truncated \/ k # n]
      BY <1>3 DEF Moved, Append
    <2>2. k \in 0..n /\ t.kept + k \in 0..CapLimit
      BY <1>1, <1>2
    <2>3. t.total + n \in 0..MaxBytes
      BY <1>1, <1>2
    <2>4. u \in Taps
      BY <2>1, <2>2, <2>3 DEF Taps
    <2>5. ASSUME t.truncated PROVE u.truncated /\ t.kept + k = CapLimit
                                   /\ t.total + n > CapLimit
      <3>1. t.kept = CapLimit /\ t.total > CapLimit
        BY <1>3, <2>5 DEF TapOK
      <3>2. t.kept + k = CapLimit /\ t.total + n > CapLimit
        BY <1>1, <1>2, <3>1
      <3>3. u.truncated
        BY <2>1, <2>5
      <3> QED  BY <3>2, <3>3
    <2>6. ASSUME ~t.truncated
          PROVE  /\ u.truncated = (k # n) /\ t.kept = t.total
                 /\ k # n => t.kept + k = CapLimit /\ t.total + n > CapLimit
      <3>1. t.kept = t.total
        BY <1>3, <2>6 DEF TapOK
      <3>2. k # n => t.kept + k = CapLimit /\ t.total + n > CapLimit
        BY <1>1, <1>2, <3>1
      <3> QED  BY <2>1, <2>6, <3>1, <3>2
    <2> HIDE DEF k, u
    <2>7. IF u.truncated THEN u.kept = CapLimit /\ u.total > CapLimit
                         ELSE u.kept = u.total
      BY <1>2, <2>1, <2>5, <2>6
    <2>8. TapOK(u)
      BY <2>7 DEF TapOK
    <2> QED  BY <2>4, <2>8 DEF u
  <1>4. CASE ~cfg.evidence
    BY <1>1, <1>2, <1>4 DEF Moved, Taps
  <1> QED  BY <1>3, <1>4

LEMMA BytesInv ==
  ASSUME IInv, NEW n \in 0..MaxBytes, FromClient(n) \/ ToOrigin(n)
  PROVE  IInv'
  <1> USE DEF FromClient, ToOrigin, At, inputs, tls
  <1>1. inTap \in Taps /\ outTap \in Taps /\ TypeOK
    BY DEF IInv, TypeOK
  <1>2. cfg.evidence => TapOK(inTap) /\ TapOK(outTap)
    BY DEF IInv, Captured
  <1>3. /\ inTap' \in Taps /\ outTap' \in Taps
        /\ cfg.evidence => TapOK(inTap') /\ TapOK(outTap')
    BY <1>1, <1>2, MovedOK
  <1>4. op["ev_rename"] = "idle" /\ OriginAgreed /\ ClientAgreed /\ PassedGate
    BY DEF IInv, EvidenceOrder, Negotiated
  <1>5. TypeOK'
    BY <1>1, <1>3 DEF TypeOK
  <1>6. Negotiated' /\ Quiet' /\ ReportLanded'
    BY DEF IInv, Negotiated, Quiet, ReportLanded, Setup, OriginAgreed,
       ClientAgreed, PassedGate, Selected, Speaks
  <1>7. Captured' /\ EvidenceOrder'
    BY <1>3 DEF IInv, Captured, EvidenceOrder, TapOK
  <1>8. ForwardsOnlyAgreed'
    BY <1>4 DEF ForwardsOnlyAgreed, OriginAgreed, ClientAgreed, PassedGate,
       Selected, Speaks
  <1>9. EvidenceIsWhole' /\ EndsAreDocumented'
    BY <1>4 DEF EvidenceIsWhole, EndsAreDocumented, Published
  <1> QED  BY <1>5, <1>6, <1>7, <1>8, <1>9 DEF IInv

LEMMA BridgeReturnsInv ==
  ASSUME IInv, NEW r \in {"ok", "error"}, BridgeReturns(r)
  PROVE  IInv'
  <1> USE DEF BridgeReturns, At, inputs, tls, taps
  <1>1. /\ op["ev_write"] = "idle" /\ op["ev_rename"] = "idle"
        /\ cfg.reports => op["report"] = "landed"
    BY DEF IInv, EvidenceOrder, ReportLanded, Setup
  <1>2. op \in [Ops -> {"idle", "pending", "landed", "failed"}]
    BY DEF IInv, TypeOK
  <1>3. CASE cfg.evidence
    <2>1. stage' = "ev_open" /\ op' = Start("ev_open") /\ result' = result
      BY <1>3
    <2>2. /\ op'["ev_write"] = "idle" /\ op'["ev_rename"] = "idle"
          /\ cfg.reports => op'["report"] = "landed"
      BY <1>1, <1>2, <2>1 DEF Start, Ops
    <2>3. TypeOK'
      BY <2>1 DEF IInv, TypeOK, Stages, Saving, Start, Ops
    <2>4. Negotiated' /\ Quiet' /\ ReportLanded'
      BY <2>1, <2>2 DEF IInv, Negotiated, Quiet, ReportLanded, Setup, Saving,
         OriginAgreed, ClientAgreed, PassedGate, Selected, Speaks
    <2>5. Captured' /\ EvidenceOrder'
      BY <1>3, <2>1, <2>2 DEF IInv, Captured, EvidenceOrder, TapOK, Setup, Saving
    <2>6. ForwardsOnlyAgreed'
      BY DEF IInv, ForwardsOnlyAgreed, Selected, Speaks
    <2>7. EvidenceIsWhole' /\ EndsAreDocumented'
      BY <2>1, <2>2 DEF EvidenceIsWhole, EndsAreDocumented, Published
    <2> QED  BY <2>3, <2>4, <2>5, <2>6, <2>7 DEF IInv
  <1>4. CASE ~cfg.evidence
    <2>1. stage' = "done" /\ result' = r /\ op' = op
      BY <1>4 DEF Ends
    <2>2. TypeOK'
      BY <2>1 DEF IInv, TypeOK, Stages
    <2>3. Negotiated' /\ Quiet' /\ ReportLanded'
      BY <2>1 DEF Negotiated, Quiet, ReportLanded, Setup, Saving
    <2>4. Captured' /\ EvidenceOrder'
      BY <1>1, <1>4, <2>1 DEF Captured, EvidenceOrder, Setup, Saving
    <2>5. ForwardsOnlyAgreed'
      BY DEF IInv, ForwardsOnlyAgreed, Selected, Speaks
    <2>6. EvidenceIsWhole' /\ EndsAreDocumented'
      BY <1>1, <1>4, <2>1 DEF EvidenceIsWhole, EndsAreDocumented, Published
    <2> QED  BY <2>2, <2>3, <2>4, <2>5, <2>6 DEF IInv
  <1> QED  BY <1>3, <1>4

\* The write is flushed before the rename begins.
LEMMA SavingInv == IInv /\ (EvOpen \/ EvFlushed) => IInv'
  <1> SUFFICES ASSUME IInv, EvOpen \/ EvFlushed PROVE IInv'
    OBVIOUS
  <1> USE DEF EvOpen, EvFlushed, At, Start, inputs, tls, taps
  <1>1. op \in [Ops -> {"idle", "pending", "landed", "failed"}]
    BY DEF IInv, TypeOK
  <1>2. /\ op["ev_rename"] = "idle" /\ cfg.evidence
        /\ cfg.reports => op["report"] = "landed"
    BY DEF IInv, EvidenceOrder, ReportLanded, Saving
  <1>3. /\ cfg.reports => op'["report"] = "landed"
        /\ op'["ev_rename"] # "landed"
        /\ op'["ev_rename"] # "idle" => op'["ev_write"] = "landed"
        /\ stage' = "ev_flush" => op'["ev_rename"] = "idle"
    BY <1>1, <1>2 DEF Ops
  <1>4. TypeOK'
    BY <1>1 DEF IInv, TypeOK, Stages, Saving
  <1>5. Negotiated' /\ Quiet' /\ ReportLanded'
    BY <1>3 DEF IInv, Negotiated, Quiet, ReportLanded, Setup, Saving,
       OriginAgreed, ClientAgreed, PassedGate, Selected, Speaks
  <1>6. Captured' /\ EvidenceOrder'
    BY <1>2, <1>3 DEF IInv, Captured, EvidenceOrder, TapOK, Setup, Saving
  <1>7. ForwardsOnlyAgreed'
    BY DEF IInv, ForwardsOnlyAgreed, Selected, Speaks
  <1>8. EvidenceIsWhole' /\ EndsAreDocumented'
    BY <1>3 DEF EvidenceIsWhole, EndsAreDocumented, Published
  <1> QED  BY <1>4, <1>5, <1>6, <1>7, <1>8 DEF IInv

LEMMA EvRenamedInv == IInv /\ EvRenamed => IInv'
  <1> SUFFICES ASSUME IInv, EvRenamed PROVE IInv'
    OBVIOUS
  <1> USE DEF EvRenamed, At, inputs, tls, taps
  <1>1. Published /\ (cfg.reports => op["report"] = "landed")
    BY DEF Published, IInv, ReportLanded, Saving
  <1>2. bridged \in {"none", "ok", "error"}
    BY DEF IInv, TypeOK
  <1>3. bridged \in {"ok", "error"}
    BY <1>2 DEF IInv, EvidenceOrder, Saving
  <1> QED  BY <1>1, <1>3, EndInv

\* A failure or a timer: nothing but the result changes.
LEMMA GivesUpInv ==
  IInv /\ (FileFails \/ NetworkFails \/ HandshakeTimeout \/ LifetimeTimeout) => IInv'
  BY EndInv DEF FileFails, NetworkFails, HandshakeTimeout, LifetimeTimeout, At,
     inputs, tls, taps

\* The pool works for tasks that live and for tasks that are gone.
LEMMA LandInv ==
  ASSUME IInv, NEW o \in Ops, NEW how \in {"landed", "failed"}, Land(o, how)
  PROVE  IInv'
  <1> USE DEF Land, inputs, tls, taps
  <1>1. op \in [Ops -> {"idle", "pending", "landed", "failed"}]
    BY DEF IInv, TypeOK
  <1>2. \A p \in Ops : /\ op[p] = "idle" <=> op'[p] = "idle"
                      /\ op[p] = "landed" => op'[p] = "landed"
    BY <1>1
  <1>3. "ev_write" \in Ops /\ "ev_rename" \in Ops /\ "report" \in Ops
    BY DEF Ops
  <1>4. TypeOK'
    BY <1>1 DEF IInv, TypeOK
  <1>5. Negotiated' /\ Quiet' /\ ReportLanded'
    BY <1>2, <1>3 DEF IInv, Negotiated, Quiet, ReportLanded, OriginAgreed,
       ClientAgreed, PassedGate, Selected, Speaks
  <1>6. Captured' /\ EvidenceOrder'
    BY <1>2, <1>3 DEF IInv, Captured, EvidenceOrder, TapOK
  <1>7. ForwardsOnlyAgreed'
    BY DEF IInv, ForwardsOnlyAgreed, Selected, Speaks
  <1>8. EvidenceIsWhole'
    <2>1. op'["ev_rename"] = "landed" => cfg.evidence /\ op'["ev_write"] = "landed"
      BY <1>2, <1>3 DEF IInv, EvidenceOrder
    <2> QED  BY <2>1 DEF IInv, Captured, TapOK, EvidenceIsWhole, Published
  <1>9. EndsAreDocumented'
    BY <1>2, <1>3 DEF IInv, EndsAreDocumented, Published
  <1> QED  BY <1>4, <1>5, <1>6, <1>7, <1>8, <1>9 DEF IInv

LEMMA IdleInv == IInv /\ (ProcessExits \/ UNCHANGED vars) => IInv'
  <1> SUFFICES ASSUME IInv, ProcessExits \/ UNCHANGED vars PROVE IInv'
    OBVIOUS
  <1> USE DEF ProcessExits, vars, inputs, tls, taps
  <1>1. TypeOK'
    BY DEF IInv, TypeOK
  <1>2. Negotiated' /\ Quiet' /\ ReportLanded'
    BY DEF IInv, Negotiated, Quiet, ReportLanded, OriginAgreed, ClientAgreed,
       PassedGate, Selected, Speaks
  <1>3. Captured' /\ EvidenceOrder'
    BY DEF IInv, Captured, EvidenceOrder, TapOK
  <1>4. ForwardsOnlyAgreed' /\ EvidenceIsWhole' /\ EndsAreDocumented'
    BY DEF IInv, ForwardsOnlyAgreed, EvidenceIsWhole, EndsAreDocumented,
       Published, Selected, Speaks
  <1> QED  BY <1>1, <1>2, <1>3, <1>4 DEF IInv

LEMMA StepIInv == IInv /\ [Next]_vars => IInv'
  <1> SUFFICES ASSUME IInv, [Next]_vars PROVE IInv'
    OBVIOUS
  <1>1. CASE ReadHello \/ Connected \/ OriginTls
    BY <1>1, ReadHelloInv, ConnectedInv, OriginTlsInv
  <1>2. CASE InboundOpen \/ OutboundOpen \/ ReportWritten \/ ClientTls
    BY <1>2, OpenInv, ReportWrittenInv, ClientTlsInv
  <1>3. CASE \E n \in 0..MaxBytes : FromClient(n) \/ ToOrigin(n)
    BY <1>3, BytesInv
  <1>4. CASE \E r \in {"ok", "error"} : BridgeReturns(r)
    BY <1>4, BridgeReturnsInv
  <1>5. CASE EvOpen \/ EvFlushed \/ EvRenamed
    BY <1>5, SavingInv, EvRenamedInv
  <1>6. CASE FileFails \/ NetworkFails \/ HandshakeTimeout \/ LifetimeTimeout
    BY <1>6, GivesUpInv
  <1>7. CASE \E o \in Ops, how \in {"landed", "failed"} : Land(o, how)
    BY <1>7, LandInv
  <1>8. CASE ProcessExits \/ UNCHANGED vars
    BY <1>8, IdleInv
  <1> QED  BY <1>1, <1>2, <1>3, <1>4, <1>5, <1>6, <1>7, <1>8 DEF Next

-----------------------------------------------------------------------------
(***************************************************************************)
(* What visible evidence stands beside, by a second invariant on top of    *)
(* the first: the files of the wire reports, and how the evidence that is  *)
(* being renamed and the result can stand to each other.                   *)
(***************************************************************************)
FilesOpen ==
  cfg.reports =>
    /\ stage \in {"outbound", "report", "client_tls", "http"} \cup Saving
         => op["open_in"] = "landed"
    /\ stage \in {"report", "client_tls", "http"} \cup Saving
         => op["open_out"] = "landed"

RenameOrder ==
  op["ev_rename"] \in {"pending", "landed"} =>
    /\ bridged # "none" /\ result \in {"none", bridged, "lifetime"}
    /\ stage \in {"ev_rename", "done"}
    /\ \A o \in {"open_in", "open_out", "report"} : op[o] = "landed"

BInv == FilesOpen /\ RenameOrder /\ (cfg.evidence => cfg.reports)
                  /\ (result # "none" => stage = "done")

LEMMA InitBInv == Init => BInv
  BY ConnectionAssumption
     DEF Init, BInv, FilesOpen, RenameOrder, Saving, Ops, CommandLines

\* The task goes on to another stage, and starts what it waits for there.
LEMMA MovesBInv ==
  ASSUME IInv, BInv, result = "none",
         ReadHello \/ Connected \/ OriginTls \/ InboundOpen \/ OutboundOpen
           \/ ReportWritten \/ ClientTls
  PROVE  BInv'
  <1>1. op \in [Ops -> {"idle", "pending", "landed", "failed"}]
    BY DEF IInv, TypeOK
  <1>2. stage \in Setup /\ op["ev_rename"] = "idle" /\ cfg' = cfg
    BY DEF ReadHello, Connected, OriginTls, InboundOpen, OutboundOpen,
       ReportWritten, ClientTls, At, Setup, inputs, IInv, EvidenceOrder
  <1>3. op'["ev_rename"] = "idle"
    BY <1>1, <1>2 DEF ReadHello, Connected, OriginTls, InboundOpen, OutboundOpen,
       ReportWritten, ClientTls, Start, Ops
  <1>4. RenameOrder'
    BY <1>3 DEF RenameOrder
  <1>5. result' # "none" => stage' = "done"
    BY DEF ReadHello, Connected, OriginTls, InboundOpen, OutboundOpen,
       ReportWritten, ClientTls, Ends, Gate
  <1>6. FilesOpen'
    <2>1. CASE ReadHello \/ Connected \/ OriginTls
      BY <1>2, <2>1 DEF FilesOpen, ReadHello, Connected, OriginTls, Ends, Gate, Saving
    <2>2. CASE InboundOpen
      BY <1>1, <1>2, <2>2 DEF FilesOpen, InboundOpen, Saving, Ops
    <2>3. CASE OutboundOpen
      BY <1>1, <1>2, <2>3 DEF BInv, FilesOpen, OutboundOpen, At, Saving, Ops
    <2>4. CASE ReportWritten \/ ClientTls
      BY <1>2, <2>4 DEF BInv, FilesOpen, ReportWritten, ClientTls, At, Ends, Gate,
         Saving
    <2> QED  BY <2>1, <2>2, <2>3, <2>4
  <1> QED  BY <1>2, <1>4, <1>5, <1>6 DEF BInv

\* HTTP, the bridge's return, and its evidence on the way to its name.
LEMMA BridgeBInv ==
  ASSUME IInv, BInv, result = "none",
         \/ \E n \in 0..MaxBytes : FromClient(n) \/ ToOrigin(n)
         \/ \E r \in {"ok", "error"} : BridgeReturns(r)
         \/ EvOpen \/ EvFlushed \/ EvRenamed
  PROVE  BInv'
  <1>1. op \in [Ops -> {"idle", "pending", "landed", "failed"}]
    BY DEF IInv, TypeOK
  <1>2. /\ stage \in {"http"} \cup Saving /\ cfg' = cfg
        /\ \A o \in {"open_in", "open_out", "report"} :
             cfg.reports => op[o] = "landed" /\ op'[o] = "landed"
    <2>1. stage \in {"http"} \cup Saving /\ cfg' = cfg
      BY DEF FromClient, ToOrigin, BridgeReturns, EvOpen, EvFlushed, EvRenamed, At,
         Saving, inputs
    <2>2. \A o \in {"open_in", "open_out", "report"} :
            cfg.reports => op[o] = "landed"
      BY <2>1 DEF BInv, FilesOpen, IInv, ReportLanded
    <2>3. \A o \in {"open_in", "open_out", "report"} : op'[o] = op[o]
      BY <1>1 DEF FromClient, ToOrigin, BridgeReturns, EvOpen, EvFlushed, EvRenamed,
         Start, Ops
    <2> QED  BY <2>1, <2>2, <2>3
  <1>3. FilesOpen'
    BY <1>2 DEF FilesOpen
  <1>4. result' # "none" => stage' = "done"
    BY DEF FromClient, ToOrigin, BridgeReturns, EvOpen, EvFlushed, EvRenamed, Ends
  <1>5. RenameOrder'
    <2>1. CASE \E n \in 0..MaxBytes : FromClient(n) \/ ToOrigin(n)
      BY <2>1 DEF FromClient, ToOrigin, At, tls, BInv, RenameOrder
    <2>2. CASE \E r \in {"ok", "error"} : BridgeReturns(r)
      <3>1. op["ev_rename"] = "idle"
        BY <2>2 DEF BridgeReturns, At, IInv, EvidenceOrder
      <3>2. op'["ev_rename"] = "idle"
        BY <1>1, <2>2, <3>1 DEF BridgeReturns, Start, Ops
      <3> QED  BY <3>2 DEF RenameOrder
    <2>3. CASE EvOpen
      <3>1. op["ev_rename"] = "idle"
        BY <2>3 DEF EvOpen, At, IInv, EvidenceOrder
      <3>2. op'["ev_rename"] = "idle"
        BY <1>1, <2>3, <3>1 DEF EvOpen, Start, Ops
      <3> QED  BY <3>2 DEF RenameOrder
    <2>4. CASE EvFlushed
      <3>1. cfg.evidence /\ bridged # "none" /\ cfg.reports
        BY <2>4 DEF EvFlushed, At, IInv, EvidenceOrder, Saving, BInv
      <3>2. stage' = "ev_rename" /\ result' = result /\ bridged' = bridged
        BY <2>4 DEF EvFlushed
      <3> QED  BY <1>2, <3>1, <3>2 DEF RenameOrder
    <2>5. CASE EvRenamed
      BY <2>5 DEF EvRenamed, At, Ends, BInv, RenameOrder
    <2> QED  BY <2>1, <2>2, <2>3, <2>4, <2>5
  <1> QED  BY <1>2, <1>3, <1>4, <1>5 DEF BInv

\* A failure or a timer ends the connection.  Evidence that is being renamed, or
\* is visible, can then be met by the outer timer alone: the other ends belong to
\* stages before it, or to a rename that failed.
LEMMA GivesUpBInv ==
  ASSUME IInv, BInv,
         FileFails \/ NetworkFails \/ HandshakeTimeout \/ LifetimeTimeout
  PROVE  BInv'
  <1>1. stage' = "done" /\ op' = op /\ cfg' = cfg /\ bridged' = bridged
    BY DEF FileFails, NetworkFails, HandshakeTimeout, LifetimeTimeout, Ends, inputs
  <1>2. FilesOpen'
    BY <1>1 DEF FilesOpen, Saving
  <1>3. op["ev_rename"] \in {"pending", "landed"} => result' = "lifetime"
    <2> SUFFICES ASSUME op["ev_rename"] \in {"pending", "landed"}
                 PROVE  result' = "lifetime"
      OBVIOUS
    <2>1. stage \in {"ev_rename", "done"}
      BY DEF BInv, RenameOrder
    <2>2. ~NetworkFails /\ ~HandshakeTimeout
      BY <2>1 DEF NetworkFails, HandshakeTimeout, At, Setup
    <2>3. ~FileFails
      BY <2>1 DEF FileFails, At, Awaited
    <2> QED  BY <2>2, <2>3 DEF LifetimeTimeout, Ends
  <1>4. RenameOrder'
    BY <1>1, <1>3 DEF BInv, RenameOrder
  <1> QED  BY <1>1, <1>2, <1>4 DEF BInv

\* The pool lands what is pending, and never undoes what landed.
LEMMA LandBInv ==
  ASSUME IInv, BInv, NEW o \in Ops, NEW how \in {"landed", "failed"}, Land(o, how)
  PROVE  BInv'
  <1> USE DEF Land, inputs, tls, taps
  <1>1. op \in [Ops -> {"idle", "pending", "landed", "failed"}]
    BY DEF IInv, TypeOK
  <1>2. \A p \in Ops : /\ op[p] = "landed" => op'[p] = "landed"
                      /\ op'[p] \in {"pending", "landed"} => op[p] \in {"pending", "landed"}
    BY <1>1
  <1>3. {"open_in", "open_out", "report", "ev_rename"} \subseteq Ops
    BY DEF Ops
  <1>4. FilesOpen'
    BY <1>2, <1>3 DEF BInv, FilesOpen
  <1>5. RenameOrder'
    BY <1>2, <1>3 DEF BInv, RenameOrder
  <1> QED  BY <1>4, <1>5 DEF BInv

LEMMA StepBInv == IInv /\ BInv /\ [Next]_vars => BInv'
  <1> SUFFICES ASSUME IInv, BInv, [Next]_vars PROVE BInv'
    OBVIOUS
  <1>1. CASE ReadHello \/ Connected \/ OriginTls \/ InboundOpen \/ OutboundOpen
               \/ ReportWritten \/ ClientTls
    <2>1. result = "none"
      BY <1>1 DEF ReadHello, Connected, OriginTls, InboundOpen, OutboundOpen,
         ReportWritten, ClientTls, At
    <2> QED  BY <1>1, <2>1, MovesBInv
  <1>2. CASE \/ \E n \in 0..MaxBytes : FromClient(n) \/ ToOrigin(n)
             \/ \E r \in {"ok", "error"} : BridgeReturns(r)
             \/ EvOpen \/ EvFlushed \/ EvRenamed
    <2>1. result = "none"
      BY <1>2 DEF FromClient, ToOrigin, BridgeReturns, EvOpen, EvFlushed, EvRenamed, At
    <2> QED  BY <1>2, <2>1, BridgeBInv
  <1>3. CASE FileFails \/ NetworkFails \/ HandshakeTimeout \/ LifetimeTimeout
    BY <1>3, GivesUpBInv
  <1>4. CASE \E o \in Ops, how \in {"landed", "failed"} : Land(o, how)
    BY <1>4, LandBInv
  <1>5. CASE ProcessExits \/ UNCHANGED vars
    BY <1>5 DEF ProcessExits, vars, inputs, tls, taps, BInv, FilesOpen, RenameOrder
  <1> QED  BY <1>1, <1>2, <1>3, <1>4, <1>5 DEF Next

-----------------------------------------------------------------------------
LEMMA Invariance == Spec => []IInv
  BY InitIInv, StepIInv, PTL DEF Spec

\* The types of the connection, its sessions, files and captures.
THEOREM ConnectionTypeCorrect == Spec => []TypeOK
  <1>1. IInv => TypeOK
    BY DEF IInv
  <1> QED  BY <1>1, Invariance, PTL

\* No byte of HTTP moves between sessions that disagree, or past the gate.
THEOREM ForwardingAgreed == Spec => []ForwardsOnlyAgreed
  <1>1. IInv => ForwardsOnlyAgreed
    BY DEF IInv
  <1> QED  BY <1>1, Invariance, PTL

\* A visible <id>.http.json is whole and says what it misses, at any crash.
THEOREM VisibleEvidenceIsWhole == Spec => []EvidenceIsWhole
  <1>1. IInv => EvidenceIsWhole
    BY DEF IInv
  <1> QED  BY <1>1, Invariance, PTL

\* A good end, and an end at the gate, has left its documents.
THEOREM DocumentedEnds == Spec => []EndsAreDocumented
  <1>1. IInv => EndsAreDocumented
    BY DEF IInv
  <1> QED  BY <1>1, Invariance, PTL

\* Visible evidence is of a bridge that ran to its end: neither timer, nor a
\* crash, nor a file that fails leaves evidence of anything else.
THEOREM VisibleEvidenceIsOfABridge == Spec => []EvidenceIsOfABridge
  <1>1. BInv => EvidenceIsOfABridge
    BY DEF BInv, RenameOrder, EvidenceIsOfABridge, Published
  <1> QED  BY <1>1, InitBInv, StepBInv, Invariance, PTL DEF Spec
=============================================================================
