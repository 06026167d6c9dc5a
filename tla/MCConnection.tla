---------------------------- MODULE MCConnection ----------------------------
(***************************************************************************)
(* Small instances of Connection.                                          *)
(***************************************************************************)
EXTENDS Connection

\* --http-evidence requires --reports.
AllConfigs == {c \in CommandLines : c.evidence => c.reports}
FullConfig == {[strict |-> TRUE, reports |-> TRUE, evidence |-> TRUE]}

\* Every ALPN, then clients old, current and odd: 1.3 with 1.1 but without 1.2.
MixedOffers ==
  [versions : {{12, 13}}, alpn : {{}, {"http/1.1"}, {"h2", "http/1.1"}, {"other"}}]
  \cup [versions : {{}, {13}, {11, 13}, {11}}, alpn : {{"h2"}}]
MixedOrigins == [versions : {{12}, {12, 13}}, alpn : {{}, {"h2", "http/1.1"}}]

OneOffer == {[versions |-> {12, 13}, alpn |-> {"h2", "http/1.1"}]}
OneOrigin == OneOffer
=============================================================================
