------------------------------ MODULE TcpSyn --------------------------------
(***************************************************************************)
(* The initial SYNs of a capture file: pcap_syns() and tcp_syn() of        *)
(* fingerprint.rs.                                                         *)
(*                                                                         *)
(* A capture is a sequence of frames [link, ip, whole, fragment, tcp,      *)
(* header, flags, stack, options].  link is "short", "other" (no IP) or    *)
(* "ip"; whole, fragment and tcp are what the IP header says; header is    *)
(* FALSE if the TCP header's length is impossible; stack stands for hops,  *)
(* DF and window; options are the octets of the header behind the 20th.    *)
(***************************************************************************)
EXTENDS Integers, Sequences, Lists

CONSTANT TimestampLen   \* 10, the octets of a timestamp option

Malformed == [kind |-> -1, value |-> <<>>]
Present == <<-1>>

\* The options from octet p on.  An option's length counts its kind and itself.
\* Bug: what follows the end of the list is dropped.
Option_End(o, p) ==
  [kind |-> o[p],
   value |-> IF o[p] \in {0, 1} THEN <<>>
             ELSE IF o[p] = 8 THEN Present
             ELSE SubSeq(o, p + 2, p + o[p + 1] - 1)]
Option(o, p) ==
  [kind |-> o[p],
   value |-> IF o[p] = 0 THEN SubSeq(o, p + 1, Len(o))
             ELSE IF o[p] = 1 THEN <<>>
             ELSE IF o[p] = 8 THEN Present
             ELSE SubSeq(o, p + 2, p + o[p + 1] - 1)]

LengthOk(o, p) == /\ p < Len(o)
                  /\ o[p + 1] >= 2 /\ p + o[p + 1] - 1 <= Len(o)
                  /\ o[p] = 8 => o[p + 1] = TimestampLen

\* Where the option at p ends: nothing follows the end of the list.
Behind(o, p) == IF o[p] = 0 THEN Len(o) + 1 ELSE IF o[p] = 1 THEN p + 1 ELSE p + o[p + 1]

\* The loop of tcp_syn() over the options, after n rounds.
Round(o, s) ==
  IF s.p > Len(o) THEN s
  ELSE IF o[s.p] \in {0, 1} \/ LengthOk(o, s.p)
  THEN [p |-> Behind(o, s.p), options |-> Append(s.options, Option(o, s.p))]
  ELSE [p |-> Len(o) + 1, options |-> Append(s.options, Malformed)]
Options(o) ==
  LET loop[n \in 0..Len(o)] ==
        IF n = 0 THEN [p |-> 1, options |-> <<>>] ELSE Round(o, loop[n - 1])
  IN  loop[Len(o)].options

\* A frame of a capture.
Frames ==
  [link : {"short", "other", "ip"}, ip : Nat, whole : BOOLEAN, fragment : BOOLEAN,
   tcp : BOOLEAN, header : BOOLEAN, stack : Nat, options : Seq(Nat),
   flags : SUBSET {"FIN", "SYN", "RST", "PSH", "ACK", "URG", "ECE", "CWR"}]

\* tcp_syn(): a frame is an error, no SYN, or an observation.
\* Bug: the answer of the other side is taken for a SYN.
SynOnly_Bit(f) == "SYN" \in f.flags
SynOnly(f) == "SYN" \in f.flags /\ "ACK" \notin f.flags

tcp_syn(f) ==
  IF ~f.whole \/ (f.ip = 4 /\ f.fragment) \/ (f.ip = 6 /\ ~f.tcp) \/ f.ip \notin {4, 6}
  THEN "error"
  ELSE IF ~f.tcp \/ ~SynOnly(f) THEN "none"
  ELSE IF ~f.header \/ Malformed \in Range(Options(f.options)) THEN "error"
  ELSE "syn"

Syn(f) == [ip |-> f.ip, stack |-> f.stack, flags |-> f.flags, options |-> Options(f.options)]

\* pcap_syns(): the observations of a file, none if any frame is an error.
Frame(f) == IF f.link = "short" THEN "error" ELSE IF f.link = "other" THEN "none" ELSE tcp_syn(f)

pcap_syns(capture) ==
  IF \E i \in DOMAIN capture : Frame(capture[i]) = "error" THEN <<>>
  ELSE LET syns == Keep(capture, {f \in Range(capture) : Frame(f) = "syn"})
       IN  [i \in DOMAIN syns |-> Syn(syns[i])]
=============================================================================
