----------------------------- MODULE Admission -----------------------------
(***************************************************************************)
(* What the server promises about admission: no more than Limit clients    *)
(* are inside at a time, a client is turned away only while that many are  *)
(* inside, or after the server closed its door, and the door stays closed. *)
(***************************************************************************)
EXTENDS Integers, FiniteSets

CONSTANTS Clients, Limit

VARIABLES place,  \* "away", "waiting", "inside" or "refused", by client
          open    \* the server takes clients in

vars == <<place, open>>

Places == {"away", "waiting", "inside", "refused"}
Inside == {c \in Clients : place[c] = "inside"}

Init == place = [c \in Clients |-> "away"] /\ open = TRUE

Arrive(c) ==
  /\ open /\ place[c] \in {"away", "refused"}
  /\ place' = [place EXCEPT ![c] = "waiting"]
  /\ UNCHANGED open

Admit(c) ==
  /\ open /\ place[c] = "waiting" /\ Cardinality(Inside) < Limit
  /\ place' = [place EXCEPT ![c] = "inside"]
  /\ UNCHANGED open

Refuse(c) ==
  /\ open /\ place[c] = "waiting" /\ Cardinality(Inside) = Limit
  /\ place' = [place EXCEPT ![c] = "refused"]
  /\ UNCHANGED open

Leave(c) ==
  /\ place[c] = "inside"
  /\ place' = [place EXCEPT ![c] = "away"]
  /\ UNCHANGED open

\* The door closes before those who wait; those inside may stay.
Close ==
  /\ open /\ open' = FALSE
  /\ place' = [c \in Clients |->
                 IF place[c] = "waiting" THEN "refused" ELSE place[c]]

\* The process ends, with everyone inside.
Exit ==
  /\ open' = FALSE
  /\ place' = [c \in Clients |->
                 CASE place[c] = "waiting" -> "refused"
                   [] place[c] = "inside"  -> "away"
                   [] OTHER                -> place[c]]

Next == \/ \E c \in Clients : Arrive(c) \/ Admit(c) \/ Refuse(c) \/ Leave(c)
        \/ Close \/ Exit

Spec == Init /\ [][Next]_vars
=============================================================================
