---------------------------- MODULE HpackStrings ----------------------------
(***************************************************************************)
(* Integers and strings of HPACK as hpack_wire.rs reads and writes them,   *)
(* with octets of Octet bits and characters of any code: integer(),        *)
(* skip_string(), put_int() and put_string() with its bit buffer; and, as  *)
(* RFC 7541 has them, the strings of a peer.                               *)
(***************************************************************************)
EXTENDS Integers, Sequences

CONSTANTS
  Chars,      \* the characters, in the order of their octets
  Code,       \* by character: [code, width], its Huffman code
  Octet,      \* 8
  Buffer,     \* bits of the buffer, 64
  MaxShift    \* 28

Characters == {Chars[i] : i \in DOMAIN Chars}
Power(n) == LET power[i \in 0..n] == IF i = 0 THEN 1 ELSE 2 * power[i - 1] IN power[n]
Group == Octet - 1   \* bits of an octet that carry part of an integer
Mask(bits) == Power(bits) - 1
Flag == Power(Group) \* of a continuation, and of a Huffman string

\* The loop of put_int(), which is that of RFC 7541, 5.1: groups of bits, the
\* low ones first.
Groups(n) ==
  LET left[i \in 0..n] == IF i = 0 THEN n ELSE left[i - 1] \div Flag
      k == CHOOSE i \in 0..n : left[i] < Flag /\ \A j \in 0..i - 1 : left[j] >= Flag
  IN  [i \in 1..k + 1 |-> IF i <= k THEN Flag + (left[i - 1] % Flag) ELSE left[k]]

\* put_int(): the prefix, then groups.  Bug: an integer equal to the mask is
\* written without a continuation.
put_int_Mask(n, prefix, bits) ==
  IF n <= Mask(bits) THEN <<prefix + n>> ELSE <<prefix + Mask(bits)>> \o Groups(n - Mask(bits))
put_int(n, prefix, bits) ==
  IF n < Mask(bits) THEN <<prefix + n>> ELSE <<prefix + Mask(bits)>> \o Groups(n - Mask(bits))

\* integer() at octet p of b: [n, next], or next = 0 for an error.  Its loop has
\* the sum of q groups, and the unit of the next, 1 << shift.
integer(b, p, bits) ==
  LET n == b[p] % Power(bits)
      last == {q \in p + 1..Len(b) : b[q] < Flag /\ \A r \in p + 1..q - 1 : b[r] >= Flag}
      end == CHOOSE q \in last : TRUE
      sum[q \in 0..Len(b) - p] ==
        IF q = 0 THEN [n |-> n, unit |-> 1]
        ELSE LET before == sum[q - 1]
             IN  [n |-> before.n + ((b[p + q] % Flag) * before.unit), unit |-> before.unit * Flag]
  IN  IF n < Mask(bits) THEN [n |-> n, next |-> p + 1]
      ELSE IF last = {} \/ Group * (end - p - 1) > MaxShift THEN [n |-> 0, next |-> 0]
      ELSE [n |-> sum[end - p].n, next |-> end + 1]

\* skip_string(): where the octets of the string end, 0 for an error.
skip_string(b, p) ==
  LET end(i) == IF i.next = 0 \/ i.n > Len(b) - i.next + 1 THEN 0 ELSE i.next + i.n
  IN  end(integer(b, p, Group))

\* A number as so many bits, the high ones first, and the number of some bits.
Bits(n, width) ==
  LET half[i \in 0..width] == IF i = 0 THEN n ELSE half[i - 1] \div 2
  IN  [i \in 1..width |-> half[width - i] % 2]
Number(bits) ==
  LET n[i \in 0..Len(bits)] == IF i = 0 THEN 0 ELSE 2 * n[i - 1] + bits[i]
  IN  n[Len(bits)]
CharBits(c) == Bits(Code[c].code, Code[c].width)

\* The whole octets of some bits, and the bits behind them.
Octets(bits) == [j \in 1..Len(bits) \div Octet |->
                   Number(SubSeq(bits, Octet * (j - 1) + 1, Octet * j))]
Rest(bits) == SubSeq(bits, Octet * (Len(bits) \div Octet) + 1, Len(bits))
Ones(n) == [i \in 1..n |-> 1]

\* No code begins another, none is padding, and the buffer holds each behind the
\* bits that wait.
ASSUME StringsAssumption ==
  /\ Octet \in Nat \ {0, 1} /\ Buffer \in Nat /\ MaxShift \in Nat
  /\ DOMAIN Chars \subseteq Nat /\ DOMAIN Code = Characters
  /\ \A c \in Characters : /\ Code[c] \in [code : Nat, width : Nat \ {0}]
                           /\ Octet - 1 + Code[c].width <= Buffer
                           /\ Code[c].width < Octet => CharBits(c) # Ones(Code[c].width)
  /\ \A c, d \in Characters :
       Code[c].width <= Code[d].width /\ SubSeq(CharBits(d), 1, Code[c].width) = CharBits(c) => c = d

\* The buffer shifts a character in and gives its whole octets: its bits that
\* wait, and what is shifted out of a buffer of so many bits is lost.
\* Bug: it holds no more than two octets.
Held(bits, size) == [i \in 1..Len(bits) |-> IF i <= Len(bits) - size THEN 0 ELSE bits[i]]
Buffered_Short(s, c) ==
  LET bits == Held(s.bits \o CharBits(c), 2 * Octet)
  IN  [bits |-> Rest(bits), encoded |-> s.encoded \o Octets(bits)]
Buffered(s, c) ==
  LET bits == Held(s.bits \o CharBits(c), Buffer)
  IN  [bits |-> Rest(bits), encoded |-> s.encoded \o Octets(bits)]

\* The rest is padded with ones.
Padded(s) ==
  IF s.bits = <<>> THEN s.encoded
  ELSE Append(s.encoded, Number(s.bits \o Ones(Octet - Len(s.bits))))

Plain(v) == [i \in 1..Len(v) |-> CHOOSE n \in DOMAIN Chars : Chars[n] = v[i]]
put_string(v, huffman) ==
  IF ~huffman THEN put_int(Len(v), 0, Group) \o Plain(v)
  ELSE LET state[i \in 0..Len(v)] ==
             IF i = 0 THEN [bits |-> <<>>, encoded |-> <<>>] ELSE Buffered(state[i - 1], v[i])
           encoded == Padded(state[Len(v)])
       IN  put_int(Len(encoded), Flag, Group) \o encoded

-----------------------------------------------------------------------------
\* RFC 7541: the bits of a string, its padding, and the bits of octets.
Text(v) ==
  LET text[i \in 0..Len(v)] == IF i = 0 THEN <<>> ELSE text[i - 1] \o CharBits(v[i])
  IN  text[Len(v)]
Pad(bits) == Ones((Octet - (Len(bits) % Octet)) % Octet)
OctetBits(o) == [i \in 1..Octet * Len(o) |->
                   Bits(o[((i - 1) \div Octet) + 1], Octet)[((i - 1) % Octet) + 1]]

\* The integer that octets stand for, in a prefix of Group bits.
Meaning(o) ==
  LET value[i \in 0..Len(o) - 1] ==
        IF i = 0 THEN 0 ELSE value[i - 1] * Flag + (o[Len(o) - i + 1] % Flag)
  IN  IF Len(o) = 1 THEN o[1] % Flag ELSE Mask(Group) + value[Len(o) - 1]
Whole(o) == IF o[1] % Flag < Mask(Group) THEN Len(o) = 1
            ELSE Len(o) > 1 /\ \A i \in 2..Len(o) : (o[i] >= Flag) = (i < Len(o))
Sent(n, prefix) == IF n < Mask(Group) THEN <<prefix + n>>
                   ELSE <<prefix + Mask(Group)>> \o Groups(n - Mask(Group))

\* The string as a peer writes it, and as it reads it: <<>> if it cannot.
PeerWrites(v, huffman) ==
  IF huffman THEN LET o == Octets(Text(v) \o Pad(Text(v))) IN Sent(Len(o), Flag) \o o
  ELSE Sent(Len(v), 0) \o Plain(v)

\* Character by character, as long as a code follows.  What is left is padding,
\* ones that do not fill an octet, or an error.
CodesAt(bits, p) == {c \in DOMAIN Code :
                       /\ p + Code[c].width - 1 <= Len(bits)
                       /\ SubSeq(bits, p, p + Code[c].width - 1) = CharBits(c)}
Undo(bits) ==
  LET read[n \in 0..Len(bits)] ==
        IF n = 0 THEN [text |-> <<>>, p |-> 1]
        ELSE LET before == read[n - 1]
                 c == CHOOSE x \in CodesAt(bits, before.p) : TRUE
             IN  IF CodesAt(bits, before.p) = {} THEN before
                 ELSE [text |-> Append(before.text, c), p |-> before.p + Code[c].width]
      end == read[CHOOSE n \in 0..Len(bits) : CodesAt(bits, read[n].p) = {}]
      left == Len(bits) - end.p + 1
  IN  IF left < Octet /\ SubSeq(bits, end.p, Len(bits)) = Ones(left) THEN <<end.text>> ELSE <<>>

PeerReads(o) ==
  LET k == {n \in 1..Len(o) : Whole(SubSeq(o, 1, n))}
      head == SubSeq(o, 1, CHOOSE n \in k : TRUE)
      body == SubSeq(o, Len(head) + 1, Len(o))
  IN  IF k = {} \/ Meaning(head) # Len(body) THEN <<>>
      ELSE IF o[1] < Flag THEN <<[i \in 1..Len(body) |-> Chars[body[i]]]>>
      ELSE Undo(OctetBits(body))
=============================================================================
