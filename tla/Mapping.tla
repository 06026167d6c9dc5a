------------------------------ MODULE Mapping -------------------------------
(***************************************************************************)
(* Mapping::value() of rewrite.rs: the values that are changed between B,  *)
(* the public name of the bridge, and A, its origin.                       *)
(*                                                                         *)
(* A value is a sequence of tokens: blanks, punctuation, words, spellings  *)
(* of a scheme, an authority or a host, each a token, and octets that are  *)
(* no UTF-8.  An empty result is the error, which rejects the message.     *)
(***************************************************************************)
EXTENDS Integers, Sequences

CONSTANTS
  Spelled,         \* authority() by token: <<host, port>>
  public, upstream,              \* --public and --upstream, as they are spelled
  public_host,                   \* B's host
  upstream_hosts,                \* the spellings of A's host, in any case
  NotUtf8,         \* octets that from_utf8() refuses
  White            \* what str::trim() takes away: all white space of Unicode

Blank == " "
Blanks == {Blank}   \* the space and the tab
Schemes == {"https://", "//"}
Delimiters == {"/", "?", "#"}

\* authority(): one token that url::Url can parse, without white space, a
\* control, a delimiter or an "@", or an error, <<>>.
authority(s) == IF Len(s) = 1 /\ s[1] \in DOMAIN Spelled THEN Spelled[s[1]] ELSE <<>>
is_public(s) == authority(s) = authority(<<public>>)

\* A spelling of an authority or a host is a token of its own.
Punctuation == {Blank, ";", "=", "."}

ASSUME MappingAssumption ==
  /\ {public, upstream} \subseteq DOMAIN Spelled /\ \A t \in DOMAIN Spelled : Spelled[t] # <<>>
  /\ DOMAIN Spelled \cap (White \cup Schemes \cup Delimiters \cup NotUtf8) = {}
  /\ ({public_host} \cup upstream_hosts) \cap (Punctuation \cup White \cup NotUtf8) = {}
  /\ Blank \in White /\ White \cap ({";", "=", ".", "domain"} \cup NotUtf8) = {}

\* trim_start_matches() and trim_end_matches() as positions; trim().
Leading(s, W) == CHOOSE n \in 0..Len(s) : /\ \A i \in 1..n : s[i] \in W
                                          /\ n < Len(s) => s[n + 1] \notin W
TrimEnd(s, W) == CHOOSE n \in 0..Len(s) : /\ \A i \in n + 1..Len(s) : s[i] \in W
                                          /\ n > 0 => s[n] \notin W
Trim(s, W) == SubSeq(s, Leading(s, W) + 1, TrimEnd(s, W))

\* Where the authority of a URL ends.
EndOfAuthority(s) ==
  CHOOSE n \in 1..Len(s) : /\ \A i \in 2..n : s[i] \notin Delimiters
                           /\ n < Len(s) => s[n + 1] \in Delimiters

\* Bug: an authority of another spelling is not recognised.
map_url_Spelled(s, response) ==
  IF s = <<>> \/ s[1] \notin Schemes THEN s
  ELSE LET end == EndOfAuthority(s)
       IN  IF SubSeq(s, 2, end) = <<IF response THEN upstream ELSE public>>
           THEN <<s[1], IF response THEN public ELSE upstream>> \o SubSeq(s, end + 1, Len(s))
           ELSE s
map_url(s, response) ==
  IF s = <<>> \/ s[1] \notin Schemes THEN s
  ELSE LET end == EndOfAuthority(s)
       IN  IF authority(SubSeq(s, 2, end)) = authority(<<IF response THEN upstream ELSE public>>)
           THEN <<s[1], IF response THEN public ELSE upstream>> \o SubSeq(s, end + 1, Len(s))
           ELSE s

\* Set-Cookie is split at semicolons; its first part is left alone.
Split(s) ==
  LET split[i \in 0..Len(s)] ==
        IF i = 0 THEN <<<<>>>>
        ELSE LET parts == split[i - 1]
             IN  IF s[i] = ";" THEN Append(parts, <<>>)
                 ELSE [parts EXCEPT ![Len(parts)] = Append(@, s[i])]
  IN  split[Len(s)]
Join(parts) ==
  LET join[i \in 0..Len(parts)] ==
        IF i = 0 THEN <<>> ELSE join[i - 1] \o (IF i = 1 THEN <<>> ELSE <<";">>) \o parts[i]
  IN  join[Len(parts)]

Equals(part) == {i \in DOMAIN part : part[i] = "=" /\ \A j \in 1..i - 1 : part[j] # "="}
Dots(v) == CHOOSE n \in 0..Len(v) : (\A i \in 1..n : v[i] = ".") /\ (n < Len(v) => v[n + 1] # ".")
OfUpstream(v) == Dots(v) = Len(v) - 1 /\ v[Len(v)] \in upstream_hosts

Attribute(part) ==
  IF Equals(part) = {} THEN part
  ELSE LET eq == CHOOSE i \in Equals(part) : TRUE
           raw == SubSeq(part, eq + 1, Len(part))
           v == Trim(raw, White)
       IN  IF Trim(SubSeq(part, 1, eq - 1), White) = <<"domain">> /\ OfUpstream(v)
           THEN SubSeq(part, 1, eq) \o SubSeq(raw, 1, Leading(raw, White))
                \o (IF v[1] = "." THEN <<".">> ELSE <<>>) \o <<public_host>>
                \o SubSeq(raw, TrimEnd(raw, White) + 1, Len(raw))
           ELSE part

\* Bug: the cookie itself is taken for an attribute.
Cookie_Whole(s) == Join([i \in 1..Len(Split(s)) |-> Attribute(Split(s)[i])])
Cookie(s) == Join([i \in 1..Len(Split(s)) |->
                     IF i = 1 THEN Split(s)[i] ELSE Attribute(Split(s)[i])])

Relevant(response) == IF response THEN {"set-cookie", "location"}
                      ELSE {"host", ":authority", "origin", "referer"}

value(name, s, response) ==
  IF name \notin Relevant(response) THEN <<s>>
  ELSE IF \E i \in DOMAIN s : s[i] \in NotUtf8 THEN <<>>
  ELSE IF TrimEnd(s, Blanks) < Leading(s, Blanks) THEN <<>>
  ELSE IF name \in {"host", ":authority"} /\ ~is_public(Trim(s, Blanks)) THEN <<>>
  ELSE <<SubSeq(s, 1, Leading(s, Blanks))
         \o (CASE name \in {"host", ":authority"} -> <<upstream>>
               [] name = "set-cookie" -> Cookie(Trim(s, Blanks))
               [] OTHER -> map_url(Trim(s, Blanks), response))
         \o SubSeq(s, TrimEnd(s, Blanks) + 1, Len(s))>>
=============================================================================
