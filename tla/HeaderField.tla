---------------------------- MODULE HeaderField -----------------------------
(***************************************************************************)
(* A header value of the origin on its way to the client, and what the     *)
(* client makes of it on its way back: the bridge reads the octets of the  *)
(* value, maps it and writes it anew (rewrite() of hpack_wire.rs, value()  *)
(* of rewrite.rs), in both directions.  The client is a browser.  It goes  *)
(* where a Location sends it and names that page as Referer; the fields    *)
(* travel as lines of HTTP/1.1, or as HPACK strings, Huffman coded or not. *)
(*                                                                         *)
(* What a browser makes of a URL and of a cookie is not what the bridge    *)
(* makes of it, and has definitions of its own.                            *)
(***************************************************************************)
EXTENDS Mapping, HpackStrings

CONSTANTS
  Responses,   \* header fields of the origin: [name, value]
  MaxLength,   \* of a value, which a block of MAX_BLOCK octets holds
  Secure,      \* what a browser takes for https://, or for // under https
  Reads        \* by what may stand between that and a delimiter, as a browser
               \* reads it: [site, page], <<host, port>> and what is behind it

\* integer() takes the length of a string of n octets.
Readable(n) == \/ n < Mask(Group)
               \/ Group * (Len(Groups(n - Mask(Group))) - 1) <= MaxShift

\* What no value may have in HTTP/2.
Control == {"CR", "LF", "NUL"}
Utf8 == Characters \ NotUtf8

\* A character has no more bits than the buffer, and an octet one at least.  A
\* browser knows every authority that url::Url knows, as url::Url does, and may
\* know others; a page begins with what ends an authority; B's has none.
ASSUME FieldAssumption ==
  /\ MaxLength \in Nat /\ \A n \in 0..(MaxLength * Buffer) : Readable(n)
  /\ Punctuation \cup {"https://", public, upstream, public_host} \subseteq Utf8 \ Control
  /\ Schemes \subseteq Secure /\ Secure \cap Blanks = {}
  /\ DOMAIN Spelled \subseteq DOMAIN Reads /\ DOMAIN Spelled \cap Control = {}
  /\ \A t \in DOMAIN Spelled : Reads[t].site = Spelled[t]
  /\ \A t \in DOMAIN Reads : /\ Reads[t].page \in Seq(Utf8 \ Control)
                             /\ Reads[t].page # <<>> => Reads[t].page[1] \in Delimiters
  /\ Reads[public].page = <<>>
  /\ \A f \in Responses :
       /\ f.value \in Seq(Characters) /\ Len(f.value) <= MaxLength
       /\ \A t \in DOMAIN Reads : Len(f.value) + Len(Reads[t].page) <= MaxLength

Forms == {"h1", "plain", "huffman"}

VARIABLES
  field,     \* the origin's header field
  form,
  got,       \* what the client reads, if the bridge passes it on
  asked,     \* the client's request: of whom, and the page that it names
  arrived,   \* what the origin reads of it: [authority, referer]
  stage

field_vars == <<field, form, got, asked, arrived, stage>>

\* rewrite() of a literal's value: where it ends, what it is, what it becomes.
\* A value that stays is copied as it came.  b is the block: the value's string
\* and the octet of the next field.  What rewrite() checks of a field beside its
\* value is in Hpack.
Rewritten(name, b, response) ==
  LET end == skip_string(b, 1)
      written(v, mapped) == IF mapped = <<>> THEN <<>>
                            ELSE IF mapped[1] = v THEN <<SubSeq(b, 1, end - 1)>>
                            ELSE <<put_string(mapped[1], b[1] >= Flag)>>
      read(v) == IF v # <<>> /\ \A i \in DOMAIN v[1] : v[1][i] \notin Control
                 THEN written(v[1], value(name, v[1], response)) ELSE <<>>
  IN  IF end = 0 THEN <<>> ELSE read(PeerReads(SubSeq(b, 1, end - 1)))

\* What the other side reads: <<>> if the message is rejected on the way.
Carried(name, v, response) ==
  IF form = "h1" THEN value(name, v, response)
  ELSE LET arrives(out) == IF out = <<>> THEN <<>> ELSE PeerReads(out[1])
       IN  arrives(Rewritten(name, Append(PeerWrites(v, form = "huffman"), 1), response))

FieldInit ==
  /\ field \in Responses /\ form \in Forms
  /\ got = <<>> /\ asked = <<>> /\ arrived = <<>> /\ stage = "respond"

BridgeResponds ==
  /\ stage = "respond"
  /\ got' = Carried(field.name, field.value, TRUE)
  /\ stage' = IF got' = <<>> THEN "rejected" ELSE "received"
  /\ UNCHANGED <<field, form, asked, arrived>>

-----------------------------------------------------------------------------
(***************************************************************************)
(* A browser.  In a URL blanks at both ends do not count; a scheme is of   *)
(* any case, and // is the scheme of the page; an authority goes up to the *)
(* first / ? or #, or to a backslash, may have a user before the host, and *)
(* a host need not be ASCII.  A backslash and what follows it up to the    *)
(* delimiter stand with their host in one token, and are the page's.       *)
(***************************************************************************)
IsUrl(s) ==
  s # <<>> /\ s[1] \in Secure /\ EndOfAuthority(s) = 2 /\ s[2] \in DOMAIN Reads
PointsAt(v, name) ==
  IsUrl(Trim(v, Blanks)) /\ Reads[Trim(v, Blanks)[2]].site = Spelled[name]
Page(s) == Reads[s[2]].page \o SubSeq(s, 3, Len(s))

\* How a browser may spell B in a request, and what it may tell of a page: all,
\* or up to a fragment, a query or a path, and no blank at the end.
SpellingsOfB ==
  {t \in DOMAIN Spelled \cap Utf8 : Spelled[t] = Spelled[public] /\ Reads[t].page = <<>>}
Told(page) ==
  {SubSeq(page, 1, k) : k \in {n \in 0..Len(page) : n > 0 => page[n] # Blank}}

ClientFollows ==
  /\ stage = "received" /\ field.name = "location"
  /\ IF PointsAt(got[1], public)
     THEN \E t \in SpellingsOfB, page \in Told(Page(Trim(got[1], Blanks))) :
            /\ asked' = <<[authority |-> t, page |-> page]>>
            /\ stage' = "request"
     ELSE stage' = "elsewhere" /\ UNCHANGED asked
  /\ UNCHANGED <<field, form, got, arrived>>

BridgeRequests ==
  /\ stage = "request"
  /\ \E host \in {Carried(IF form = "h1" THEN "host" ELSE ":authority",
                          <<asked[1].authority>>, FALSE)},
        referer \in {Carried("referer", <<"https://", asked[1].authority>> \o asked[1].page,
                             FALSE)} :
         IF host = <<>> \/ referer = <<>> THEN stage' = "refused" /\ UNCHANGED arrived
         ELSE /\ arrived' = <<[authority |-> host[1], referer |-> referer[1]]>>
              /\ stage' = "home"
  /\ UNCHANGED <<field, form, got, asked>>

FieldNext == BridgeResponds \/ ClientFollows \/ BridgeRequests

FieldSpec == FieldInit /\ [][FieldNext]_field_vars

-----------------------------------------------------------------------------
\* What may be rejected: nothing but blanks, octets that are no UTF-8, and in
\* HTTP/2 a control.
Bad(v) ==
  \/ v # <<>> /\ \A i \in DOMAIN v : v[i] = Blank
  \/ \E i \in DOMAIN v : v[i] \in NotUtf8 \/ (form # "h1" /\ v[i] \in Control)

\* "Exactly the HTTPS authority of A": its scheme in small letters or none, and
\* an authority that is ASCII and nothing but host and port.
Usual(v) ==
  LET s == Trim(v, Blanks)
  IN  s # <<>> /\ s[1] \in Schemes /\ EndOfAuthority(s) = 2 /\ s[2] \in DOMAIN Spelled

\* The page as the origin meant it, and as the client names it.
PageIsKept ==
  stage = "home" =>
    asked[1].page = SubSeq(Page(Trim(field.value, Blanks)), 1, Len(asked[1].page))

\* A client that the origin redirects to itself stays with the bridge, however
\* the host is spelled and however the value is coded: the redirect leads to B,
\* the request that follows is let through, and the origin reads its own name
\* there and the page that it gave, unless a backslash begins it.  A Location
\* that leads elsewhere for the browser arrives as it was sent, and none is of
\* A's usual URLs.  Only bad values are rejected.
RedirectComesBack ==
  field.name = "location" =>
    /\ stage = "rejected" => Bad(field.value)
    /\ stage # "refused"
    /\ stage = "elsewhere" =>
         /\ got = <<field.value>> /\ ~PointsAt(field.value, public)
         /\ ~(PointsAt(field.value, upstream) /\ Usual(field.value))
    /\ stage = "home" =>
         /\ PointsAt(field.value, upstream) \/ PointsAt(field.value, public)
         /\ arrived[1].authority = <<upstream>>
         /\ arrived[1].referer = <<"https://", upstream>> \o asked[1].page
         /\ Reads[Trim(field.value, Blanks)[2]].page = <<>> => PageIsKept

-----------------------------------------------------------------------------
(***************************************************************************)
(* A browser's reading of a cookie's attributes: between semicolons, the   *)
(* name before the first equals sign, blanks around name and value not     *)
(* counted, and in a Domain one dot before the host not counted either.    *)
(***************************************************************************)
Sign(p) == IF Equals(p) = {} THEN 0 ELSE CHOOSE i \in Equals(p) : TRUE
NamesDomain(p, W) == Sign(p) > 0 /\ Trim(SubSeq(p, 1, Sign(p) - 1), W) = <<"domain">>
Content(p, W) == Trim(SubSeq(p, Sign(p) + 1, Len(p)), W)
IsDomain(p, host) == NamesDomain(p, Blanks) /\ Content(p, Blanks) \in {<<host>>, <<".", host>>}

\* What the bridge takes for a Domain of A beyond that: any white space of Unicode
\* around it, and any number of dots.
Loosely(p) == NamesDomain(p, White) /\ OfUpstream(Content(p, White))

\* A cookie is for the bridge where it was for the origin: what a browser reads
\* as a Domain of A's host it reads as one of B's, at the same place; the cookie
\* itself, other domains and other attributes arrive as they were sent, but for
\* what only the bridge takes for a Domain of A.  Only bad values are rejected.
CookieIsForBridge ==
  field.name = "set-cookie" =>
    /\ stage = "rejected" => Bad(field.value)
    /\ stage = "received" =>
         LET a == Split(field.value)
             b == Split(got[1])
         IN  /\ Len(a) = Len(b) /\ a[1] = b[1]
             /\ \A i \in 2..Len(a) :
                  IF \E host \in upstream_hosts : IsDomain(a[i], host)
                  THEN IsDomain(b[i], public_host)
                  ELSE b[i] = a[i] \/ Loosely(a[i])
=============================================================================
