---------------------------- MODULE ClientHello ----------------------------
(***************************************************************************)
(* The ClientHello on its way through a connection: read_hello() takes the *)
(* client's off the socket, Tap captures the one that the TLS library      *)
(* sends to the origin, and Replay gives the client's to the library that  *)
(* accepts it (transport.rs); client_hello() finds a hello in TLS records  *)
(* (fingerprint.rs).                                                       *)
(*                                                                         *)
(* An octet is its position in its stream, so an octet lost, read twice or *)
(* out of place is visible.  What a stream's octets say is its records and *)
(* the handshake message that they carry.                                  *)
(***************************************************************************)
EXTENDS Integers, Sequences, SequencesExt

CONSTANTS
  Clients, Outgoing,  \* streams of the client, and of the library to A
  MAX_HELLO,          \* 256 KiB
  MAX_RECORD,         \* 18432
  HEADER,             \* octets of a record header, 5
  PREFIX,             \* octets before a handshake message's body, 4
  Buffers             \* sizes of the library's reads and writes

Streams == [records : Seq([handshake : BOOLEAN, len : Nat]),
            hello : BOOLEAN,  \* the message is a ClientHello
            need : Nat,       \* its octets with the prefix
            valid : BOOLEAN]  \* parse_hello() accepts it

ASSUME HelloAssumption ==
  /\ Clients \subseteq Streams /\ Outgoing \subseteq Streams
  /\ \A s \in Clients \cup Outgoing : s.need >= PREFIX
  /\ MAX_HELLO \in Nat /\ MAX_RECORD \in Nat
  /\ HEADER \in Nat \ {0} /\ PREFIX \in Nat \ {0}
  /\ Buffers \subseteq Nat \ {0}

VARIABLES
  client, sent, closed,  \* the client's stream, what it has sent, its end
  taken,     \* octets read off the client's socket
  want, part,  \* the size of read_exact()'s buffer, and what it has so far
  bytes,     \* the hello's records: read_hello()'s result, Replay's prefix
  position,  \* Replay's
  read,      \* what the accepting library has read
  out, wrote,     \* the library's stream to A, what A's socket took of it
  capture, done,  \* Capture
  stage      \* where handle_connection() is; how it ended

vars == <<client, sent, closed, taken, want, part, bytes, position, read,
          out, wrote, capture, done, stage>>
inbound == <<client, sent, closed, taken, want, part, bytes, position, read>>
outbound == <<out, wrote, capture, done>>

Least(a, b) == IF a < b THEN a ELSE b

\* The octets of a stream after the first a, up to the first b.
Octets(a, b) == [i \in 1..(b - a) |-> a + i]

\* Where record i ends.
End(s, i) ==
  LET end[k \in 0..Len(s.records)] ==
        IF k = 0 THEN 0 ELSE end[k - 1] + HEADER + s.records[k].len
  IN  end[i]
Size(s) == End(s, Len(s.records))
Payload(s, i) == End(s, i) - i * HEADER

\* client_hello() goes through the first k octets record by record.  At record
\* i it checks the header and, once it has the record's payload, the message.
HeaderOk(s, i) == s.records[i].handshake /\ s.records[i].len <= MAX_RECORD
Readable(s, k, i) == HeaderOk(s, i) /\ End(s, i) <= k /\ Payload(s, i) >= PREFIX
PrefixOk(s) == s.hello /\ s.need <= MAX_HELLO
\* Bug: one octet more is waited for.
Complete_Late(s, i) == Payload(s, i) > s.need
Complete(s, i) == Payload(s, i) >= s.need

Rejects(s, k, i) ==
  \/ ~HeaderOk(s, i)
  \/ Readable(s, k, i) /\ (~PrefixOk(s) \/ (Complete(s, i) /\ ~s.valid))
Finds(s, k, i) == Readable(s, k, i) /\ PrefixOk(s) /\ Complete(s, i) /\ s.valid

\* The first record that decides.
client_hello(s, k) ==
  LET decides == {i \in DOMAIN s.records : /\ End(s, i - 1) + HEADER <= k
                                          /\ (Rejects(s, k, i) \/ Finds(s, k, i))}
  IN  IF k <= MAX_HELLO /\ decides = {} THEN "none"
      ELSE IF k <= MAX_HELLO /\ Finds(s, k, Min(decides)) THEN "hello"
      ELSE "error"

Init ==
  /\ client \in Clients /\ sent = 0 /\ closed = FALSE
  /\ taken = 0 /\ want = HEADER /\ part = <<>> /\ bytes = <<>> /\ position = 0 /\ read = <<>>
  /\ out \in Outgoing /\ wrote = 0 /\ capture = <<>> /\ done = FALSE
  /\ stage = "header"

-----------------------------------------------------------------------------
\* The client sends what it likes, in segments, and may close.
ClientSends(n) ==
  /\ ~closed /\ sent + n <= Size(client)
  /\ sent' = sent + n
  /\ UNCHANGED <<client, closed, taken, want, part, bytes, position, read, outbound, stage>>

ClientCloses ==
  /\ ~closed /\ closed' = TRUE
  /\ UNCHANGED <<client, sent, taken, want, part, bytes, position, read, outbound, stage>>

\* A read of read_exact() takes what is there, up to what it still wants.
ReadSome ==
  /\ stage \in {"header", "body"} /\ Len(part) < want /\ taken < sent
  /\ LET n == Least(want - Len(part), sent - taken)
     IN  /\ part' = part \o Octets(taken, taken + n)
         /\ taken' = taken + n
  /\ UNCHANGED <<client, sent, closed, want, bytes, position, read, outbound, stage>>

\* read_exact() of the end of file.
ReadFails ==
  /\ stage \in {"header", "body"} /\ Len(part) < want
  /\ closed /\ taken = sent
  /\ stage' = "closed"
  /\ UNCHANGED <<inbound, outbound>>

\* The header is read, of the record that begins behind bytes.  Bug: the
\* header's own octets do not count.
HeaderRead_BodyOnly ==
  /\ stage = "header" /\ Len(part) = want
  /\ \E i \in DOMAIN client.records :
       LET r == client.records[i]
       IN  /\ End(client, i - 1) = Len(bytes)
           /\ IF r.handshake /\ r.len <= MAX_RECORD /\ Len(bytes) + r.len <= MAX_HELLO
              THEN stage' = "body" /\ want' = r.len /\ bytes' = bytes \o part /\ part' = <<>>
              ELSE stage' = "refused" /\ UNCHANGED <<want, bytes, part>>
  /\ UNCHANGED <<client, sent, closed, taken, position, read, outbound>>
HeaderRead ==
  /\ stage = "header" /\ Len(part) = want
  /\ \E i \in DOMAIN client.records :
       LET r == client.records[i]
       IN  /\ End(client, i - 1) = Len(bytes)
           /\ IF r.handshake /\ r.len <= MAX_RECORD /\ Len(bytes) + r.len + HEADER <= MAX_HELLO
              THEN stage' = "body" /\ want' = r.len /\ bytes' = bytes \o part /\ part' = <<>>
              ELSE stage' = "refused" /\ UNCHANGED <<want, bytes, part>>
  /\ UNCHANGED <<client, sent, closed, taken, position, read, outbound>>

\* The body is read: client_hello() of all records so far.
BodyRead ==
  /\ stage = "body" /\ Len(part) = want
  /\ bytes' = bytes \o part /\ part' = <<>> /\ want' = HEADER
  /\ stage' = CASE client_hello(client, Len(bytes')) = "hello" -> "upstream"
                [] client_hello(client, Len(bytes')) = "none" -> "header"
                [] OTHER -> "refused"
  /\ UNCHANGED <<client, sent, closed, taken, position, read, outbound>>

\* Tap: the library writes m octets and A's socket takes n of them.
\* Bugs: the whole buffer is captured; what does not fit is left out.
TapWrites_Buffer(m, n) ==
  /\ stage = "upstream" /\ n <= m /\ wrote + m <= Size(out)
  /\ wrote' = wrote + n
  /\ IF done THEN UNCHANGED <<capture, done>>
     ELSE LET take == Least(m, MAX_HELLO - Len(capture))
          IN  /\ capture' = capture \o Octets(wrote, wrote + take)
              /\ done' = \/ client_hello(out, Len(capture')) = "hello"
                         \/ Len(capture') = MAX_HELLO
  /\ UNCHANGED <<inbound, out, stage>>
TapWrites(m, n) ==
  /\ stage = "upstream" /\ n <= m /\ wrote + m <= Size(out)
  /\ wrote' = wrote + n
  /\ IF done THEN UNCHANGED <<capture, done>>
     ELSE LET take == Least(n, MAX_HELLO - Len(capture))
          IN  /\ capture' = capture \o Octets(wrote, wrote + take)
              /\ done' = \/ client_hello(out, Len(capture')) = "hello"
                         \/ Len(capture') = MAX_HELLO
  /\ UNCHANGED <<inbound, out, stage>>

\* A has the library's whole message and answers, so connect() returns; then
\* the captured hello is parsed.
Connected ==
  /\ stage = "upstream"
  /\ \E i \in DOMAIN out.records : Payload(out, i) >= out.need /\ End(out, i) <= wrote
  /\ stage' = IF client_hello(out, Len(capture)) = "hello" THEN "accept" ELSE "uncaptured"
  /\ UNCHANGED <<inbound, outbound>>

\* Replay: a read into a buffer of m octets takes from the prefix, and only
\* when that is used up from the socket.  Bug: a short read ends the prefix.
ReplayReads_Once(m) ==
  /\ stage = "accept"
  /\ \/ /\ position < Len(bytes)
        /\ LET n == Least(m, Len(bytes) - position)
           IN  /\ read' = read \o SubSeq(bytes, position + 1, position + n)
               /\ position' = Len(bytes)
        /\ UNCHANGED taken
     \/ /\ position = Len(bytes) /\ taken < sent
        /\ LET n == Least(m, sent - taken)
           IN  read' = read \o Octets(taken, taken + n) /\ taken' = taken + n
        /\ UNCHANGED position
  /\ UNCHANGED <<client, sent, closed, want, part, bytes, outbound, stage>>
ReplayReads(m) ==
  /\ stage = "accept"
  /\ \/ /\ position < Len(bytes)
        /\ LET n == Least(m, Len(bytes) - position)
           IN  /\ read' = read \o SubSeq(bytes, position + 1, position + n)
               /\ position' = position + n
        /\ UNCHANGED taken
     \/ /\ position = Len(bytes) /\ taken < sent
        /\ LET n == Least(m, sent - taken)
           IN  read' = read \o Octets(taken, taken + n) /\ taken' = taken + n
        /\ UNCHANGED position
  /\ UNCHANGED <<client, sent, closed, want, part, bytes, outbound, stage>>

Next ==
  \/ \E n \in Buffers : ClientSends(n) \/ ReplayReads(n)
  \/ ClientCloses \/ ReadSome \/ ReadFails \/ HeaderRead \/ BodyRead
  \/ \E m, n \in Buffers : TapWrites(m, n)
  \/ Connected

\* read_hello() is polled when the socket has octets for it; nothing is owed
\* by the peers.
Spec == Init /\ [][Next]_vars
             /\ WF_vars(ReadSome \/ ReadFails \/ HeaderRead \/ BodyRead)

-----------------------------------------------------------------------------
TypeOK ==
  /\ client \in Clients /\ out \in Outgoing
  /\ sent \in Nat /\ taken \in 0..sent /\ wrote \in Nat /\ want \in Nat
  /\ part \in Seq(Nat) /\ bytes \in Seq(Nat) /\ read \in Seq(Nat) /\ capture \in Seq(Nat)
  /\ position \in 0..Len(bytes) /\ closed \in BOOLEAN /\ done \in BOOLEAN
  /\ Len(bytes) <= MAX_HELLO /\ Len(capture) <= MAX_HELLO
  /\ stage \in {"header", "body", "refused", "closed", "upstream", "uncaptured", "accept"}

\* Every octet taken off the client's socket is read by the accepting library,
\* or waits to be, once and in its place.
NothingLost ==
  read \o SubSeq(bytes, position + 1, Len(bytes)) \o part = Octets(0, taken)

\* What has to be accepted, however the message is cut into records: a valid
\* hello in handshake records that fit, up to the one that completes it.
Completes(s, c) == Payload(s, c) >= s.need /\ Payload(s, c - 1) < s.need
Acceptable(s) ==
  /\ s.hello /\ s.valid
  /\ \E c \in DOMAIN s.records :
       /\ Completes(s, c) /\ End(s, c) <= MAX_HELLO
       /\ \A i \in 1..c : s.records[i].handshake /\ s.records[i].len <= MAX_RECORD

\* The client is refused only for a message that is not acceptable, and one
\* that is accepted is taken up to the record that completes it, no further.
VerdictIsOfMessage ==
  /\ stage = "refused" => ~Acceptable(client)
  /\ stage \in {"upstream", "uncaptured", "accept"} =>
       /\ Acceptable(client)
       /\ \E c \in DOMAIN client.records : Completes(client, c) /\ Len(bytes) = End(client, c)

\* The capture is what A's socket took, from the first octet to the limit or to
\* a whole hello, whatever it took at a time; so an acceptable hello that A
\* answered has been captured, and nothing else passes for one.
CaptureIsWire ==
  /\ capture = Octets(0, Len(capture)) /\ Len(capture) <= wrote
  /\ Len(capture) = Least(wrote, MAX_HELLO) \/ client_hello(out, Len(capture)) = "hello"
  /\ stage = "uncaptured" => ~Acceptable(out)
  /\ stage = "accept" => Acceptable(out)

\* A client that has sent a whole message, and then waits for the answer, gets
\* read_hello() to return: no octet more is waited for.
HelloIsAnswered ==
  (\E c \in DOMAIN client.records : Completes(client, c) /\ End(client, c) <= sent)
    ~> stage \notin {"header", "body"}
=============================================================================
