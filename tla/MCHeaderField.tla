--------------------------- MODULE MCHeaderField ----------------------------
(***************************************************************************)
(* Instances of HeaderField: URLs and cookies of up to eight tokens, which *)
(* are twenty-two characters of octets of five bits, with a prefix code of *)
(* two to eleven bits; A has a port of its own and B the default one.      *)
(***************************************************************************)
EXTENDS HeaderField, SequencesExt

Letters == <<" ", "https://", "http://", "//", "/", "?", "A", "a", "B", "b", "x", ";", "=", ".", "domain",
             "HTTPS://", "me@A", "A\\=", "wide", "NBSP", "0xFF", "NUL">>
\* x is A's host with another port.  A backslash is the end of a host for
\* url::Url too.
Spelling == [t \in {"A", "a", "B", "b", "x", "A\\="} |->
               IF t \in {"A", "a", "A\\="} THEN <<"a.test", 443>>
               ELSE IF t = "x" THEN <<"a.test", 8443>> ELSE <<"b.test", 443>>]
\* A browser also knows A with a user, and in letters that are not ASCII.
Reading == [t \in DOMAIN Spelling \cup {"me@A", "wide"} |->
              [site |-> IF t \in DOMAIN Spelling THEN Spelling[t] ELSE <<"a.test", 443>>,
               page |-> IF t = "A\\=" THEN <<"/", "=">> ELSE <<>>]]
AnyCase == {"https://", "HTTPS://", "//"}

Coded(code, width) == [code |-> code, width |-> width]
Letter == [t \in Range(Letters) |->
  CASE t = "/" -> Coded(0, 2) [] t = "A" -> Coded(2, 3) [] t = "B" -> Coded(3, 3)
    [] t = "a" -> Coded(4, 3) [] t = "b" -> Coded(5, 3) [] t = " " -> Coded(12, 4)
    [] t = ";" -> Coded(13, 4) [] t = "=" -> Coded(28, 5) [] t = "." -> Coded(29, 5)
    [] t = "domain" -> Coded(60, 6) [] t = "https://" -> Coded(122, 7)
    [] t = "http://" -> Coded(123, 7) [] t = "//" -> Coded(124, 7)
    [] t = "x" -> Coded(250, 8) [] t = "HTTPS://" -> Coded(251, 8)
    [] t = "me@A" -> Coded(252, 8) [] t = "A\\=" -> Coded(253, 8)
    [] t = "?" -> Coded(508, 9) [] t = "wide" -> Coded(509, 9)
    [] t = "0xFF" -> Coded(510, 9) [] t = "NBSP" -> Coded(1022, 10)
    [] t = "NUL" -> Coded(2046, 11)]

Around(s) == {s, <<" ">> \o s \o <<" ", " ">>}
Locations ==
  UNION {Around(scheme \o host \o path) :
     scheme \in {<<>>, <<"https://">>, <<"http://">>, <<"//">>, <<"HTTPS://">>},
     host \in {<<>>, <<"A">>, <<"a">>, <<"B">>, <<"x">>, <<"A", "x">>, <<"me@A">>, <<"A\\=">>,
              <<"wide">>, <<"A", "NBSP">>},
     path \in {<<>>, <<"/", "A">>, <<"?", "https://", "A">>, <<"x", "/", "?", "B">>, <<"/", "0xFF">>,
              <<"/", "NUL", "x">>}}
Attributes ==
  {<<"x">>, <<"x", "=", "A">>, <<" ", "domain", "=", "a">>, <<"domain", "=", ".", "A">>,
   <<"domain", " ", "=", " ", "a", " ">>, <<"domain", "=", "x">>, <<"domain", "=", "a", "x">>,
   <<"domain">>, <<"domain", "=">>, <<"domain", "=", ".">>, <<"domain", "=", ".", ".", "A">>,
   <<"NBSP", "domain", "=", "A">>, <<"x", "=", "0xFF">>}
LastAttributes == {<<"domain", "=", "a">>, <<"domain", " ", "=", " ", "a", " ">>, <<"x", "=", "A">>}
Cookies ==
  {first \o FoldLeft(LAMBDA s, p : s \o <<";">> \o p, <<>>, parts) :
     first \in {<<"x", "=", "A">>, <<"domain", "=", "a">>, <<" ", "x">>, <<>>},
     parts \in {<<>>} \cup {<<p>> : p \in Attributes}
                \cup {<<p, q>> : p \in Attributes, q \in LastAttributes}}
ManyResponses ==
  {[name |-> "location", value |-> v] : v \in Locations}
  \cup {[name |-> "set-cookie", value |-> v] : v \in Cookies \cup {<<" ">>}}
=============================================================================
