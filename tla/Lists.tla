------------------------------- MODULE Lists --------------------------------
(***************************************************************************)
(* What retain(), filter() and contains() make of a list in tls.rs and     *)
(* fingerprint.rs.  Keep is SelectSeq with a set in place of its test, and *)
(* both are recursive functions, so that they can be proved about.         *)
(***************************************************************************)
EXTENDS Integers, Sequences, Functions

\* The elements of s that are in S.
Keep(s, S) ==
  LET kept[i \in 0..Len(s)] ==
        IF i = 0 THEN <<>>
        ELSE IF s[i] \in S THEN Append(kept[i - 1], s[i]) ELSE kept[i - 1]
  IN  kept[Len(s)]

\* Each element of s at its first place.
Once(s) ==
  LET once[i \in 0..Len(s)] ==
        IF i = 0 THEN <<>>
        ELSE LET before == once[i - 1]
             IN  IF s[i] \in Range(before) THEN before ELSE Append(before, s[i])
  IN  once[Len(s)]
=============================================================================
