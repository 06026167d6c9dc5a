---------------------------- MODULE ServeProofs ----------------------------
(***************************************************************************)
(* serve() conserves its permits and keeps the promise of Admission, for   *)
(* any number of clients and any limit.                                    *)
(***************************************************************************)
EXTENDS Serve, FiniteSetTheorems, TLAPS

Inv == TypeOK /\ PermitsConserved

LEMMA ServedFinite ==
  /\ IsFiniteSet(Served) /\ Cardinality(Served) \in Nat
  /\ Limit \in Nat /\ Limit > 0
  <1>1. Served \subseteq Clients
    BY DEF Served
  <1>2. IsFiniteSet(Served)
    BY <1>1, ServeAssumption, FS_Subset
  <1> QED  BY <1>2, ServeAssumption, FS_CardinalityType

\* With nobody served, every permit is free.
LEMMA AllFree ==
  ASSUME Served' = {}, permits' = Limit
  PROVE  permits' + Cardinality(Served') = Limit
  BY ServedFinite, FS_EmptySet

LEMMA InitInv == Init => Inv
  <1> SUFFICES ASSUME Init PROVE Inv
    OBVIOUS
  <1>1. TypeOK
    <2>1. Limit \in 0..Limit
      BY ServedFinite
    <2>2. conn \in [Clients -> {"away", "queued", "served", "ended", "refused"}]
      BY DEF Init
    <2> QED  BY <2>1, <2>2 DEF Init, TypeOK
  <1>2. Served = {} /\ tasks = {c \in Clients : conn[c] \in {"served", "ended"}}
    BY DEF Init, Served
  <1>3. permits + Cardinality(Served) = Limit
    BY <1>2, ServedFinite, FS_EmptySet DEF Init
  <1> QED  BY <1>1, <1>2, <1>3 DEF Inv, PermitsConserved

LEMMA AcceptInv == ASSUME Inv, NEW c \in Clients, Accept(c) PROVE Inv'
  <1> USE DEF Accept, Inv, TypeOK, PermitsConserved
  <1>1. CASE permits > 0
    <2>1. c \notin Served /\ Served' = Served \cup {c}
      BY <1>1 DEF Served
    <2>2. Cardinality(Served') = Cardinality(Served) + 1
      BY <2>1, ServedFinite, FS_AddElement
    <2>3. TypeOK'
      <3>1. permits - 1 \in 0..Limit
        BY <1>1, ServedFinite
      <3>2. conn' \in [Clients -> {"away", "queued", "served", "ended", "refused"}]
        BY <1>1
      <3> QED  BY <1>1, <3>1, <3>2
    <2>4. tasks' = {d \in Clients : conn'[d] \in {"served", "ended"}}
      BY <1>1
    <2>5. permits' + Cardinality(Served') = Limit
      BY <1>1, <2>2, ServedFinite
    <2> QED  BY <2>3, <2>4, <2>5
  <1>2. CASE ~(permits > 0)
    <2>1. Served' = Served
      BY <1>2 DEF Served
    <2>2. TypeOK'
      BY <1>2
    <2>3. tasks' = {d \in Clients : conn'[d] \in {"served", "ended"}}
      BY <1>2
    <2> QED  BY <1>2, <2>1, <2>2, <2>3
  <1> QED  BY <1>1, <1>2

LEMMA TaskEndsInv == ASSUME Inv, NEW c \in Clients, TaskEnds(c) PROVE Inv'
  <1> USE DEF TaskEnds, Inv, TypeOK, PermitsConserved
  <1>1. c \in Served /\ Served' = Served \ {c}
    BY DEF Served
  <1>2. Cardinality(Served') = Cardinality(Served) - 1 /\ Cardinality(Served) > 0
    <2>1. Cardinality(Served') = Cardinality(Served) - 1
      BY <1>1, ServedFinite, FS_RemoveElement
    <2>2. Cardinality(Served) # 0
      BY <1>1, ServedFinite, FS_EmptySet
    <2> QED  BY <2>1, <2>2, ServedFinite
  <1>3. permits + 1 \in 0..Limit /\ permits' + Cardinality(Served') = Limit
    BY <1>2, ServedFinite
  <1>4. tasks' = {d \in Clients : conn'[d] \in {"served", "ended"}}
    OBVIOUS
  <1>5. TypeOK'
    BY <1>3
  <1> QED  BY <1>3, <1>4, <1>5

\* Steps that free every permit, because the process ends.
LEMMA CutInv ==
  ASSUME Inv, phase' = "exited", conn' = Cut, tasks' = {}, permits' = Limit,
         signal' \in BOOLEAN
  PROVE  Inv'
  <1>1. \A c \in Clients : conn'[c] \in {"away", "refused"}
    BY DEF Inv, TypeOK, Cut
  <1>2. Served' = {} /\ tasks' = {c \in Clients : conn'[c] \in {"served", "ended"}}
    BY <1>1 DEF Served
  <1>3. conn' \in [Clients -> {"away", "queued", "served", "ended", "refused"}]
    BY <1>1 DEF Cut
  <1>4. TypeOK'
    BY <1>3, ServedFinite DEF TypeOK
  <1> QED  BY <1>2, <1>4, AllFree DEF Inv, PermitsConserved

\* Steps that neither start nor end a task.
LEMMA OtherInv ==
  ASSUME Inv,
         \/ \E c \in Clients : Arrive(c) \/ Join(c) \/ DrainJoin(c)
         \/ CtrlC \/ Break \/ Drained \/ UNCHANGED vars
  PROVE  Inv'
  <1> USE DEF Arrive, Join, DrainJoin, CtrlC, Break, Drained, vars
  <1>1. Served' = Served /\ permits' = permits
    BY DEF Inv, TypeOK, Served
  <1>2. tasks' = {d \in Clients : conn'[d] \in {"served", "ended"}}
    BY DEF Inv, TypeOK, PermitsConserved
  <1>3. TypeOK'
    BY DEF Inv, TypeOK
  <1> QED  BY <1>1, <1>2, <1>3 DEF Inv, PermitsConserved

LEMMA StepInv == Inv /\ [Next]_vars => Inv'
  <1> SUFFICES ASSUME Inv, [Next]_vars PROVE Inv'
    OBVIOUS
  <1>1. AcceptFails \/ DrainTimeout => Inv'
    BY CutInv DEF AcceptFails, DrainTimeout, Inv, TypeOK
  <1> QED  BY <1>1, AcceptInv, TaskEndsInv, OtherInv DEF Next, Exited

\* No permit is lost or made, whatever order tasks end, panic and are joined in.
THEOREM PermitsAreConserved == Spec => []PermitsConserved
  <1>1. Inv => PermitsConserved
    BY DEF Inv
  <1> QED  BY <1>1, InitInv, StepInv, PTL DEF Spec

\* The semaphore is never overdrawn.
THEOREM ServeTypeCorrect == Spec => []TypeOK
  <1>1. Inv => TypeOK
    BY DEF Inv
  <1> QED  BY <1>1, InitInv, StepInv, PTL DEF Spec

-----------------------------------------------------------------------------
(***************************************************************************)
(* The refinement: every step of serve() is a step of Admission, or        *)
(* changes nothing that Admission speaks of.                               *)
(***************************************************************************)
LEMMA PlaceOf ==
  ASSUME Inv, NEW c \in Clients
  PROVE  /\ Place[c] = "waiting" <=> conn[c] = "queued"
         /\ Place[c] = "inside"  <=> conn[c] = "served"
         /\ Place[c] = "refused" <=> conn[c] = "refused"
         /\ Place[c] = "away"    <=> conn[c] \in {"away", "ended"}
  BY DEF Inv, TypeOK, Place

\* The two modules mean the same Cardinality.
LEMMA SameCardinality == \A S : Promise!Cardinality(S) = Cardinality(S)
  BY DEF Promise!Cardinality, Cardinality

\* Free permits are Admission's free places.
LEMMA InsideCount ==
  ASSUME Inv
  PROVE  /\ Promise!Inside = Served
         /\ permits > 0 => Promise!Cardinality(Promise!Inside) < Limit
         /\ ~(permits > 0) => Promise!Cardinality(Promise!Inside) = Limit
  <1>1. Promise!Inside = Served
    BY PlaceOf DEF Promise!Inside, Served
  <1>2. permits \in 0..Limit /\ permits + Cardinality(Served) = Limit
    BY DEF Inv, TypeOK, PermitsConserved
  <1> QED  BY <1>1, <1>2, ServedFinite, SameCardinality

LEMMA InitRefines == Init => Promise!Init
  BY DEF Init, Promise!Init, Place, Open

\* An action that changes conn[c] to v changes Place[c] to the image w of v.
LEMMA PlaceUpdate ==
  ASSUME Inv, NEW c \in Clients, NEW v, NEW w,
         conn' = [conn EXCEPT ![c] = v],
         \/ v = "queued" /\ w = "waiting"
         \/ v = "served" /\ w = "inside"
         \/ v = "refused" /\ w = "refused"
         \/ v \in {"away", "ended"} /\ w = "away"
  PROVE  Place' = [Place EXCEPT ![c] = w]
  <1>1. conn'[c] = v /\ \A d \in Clients \ {c} : conn'[d] = conn[d]
    BY DEF Inv, TypeOK
  <1>2. Place'[c] = w /\ \A d \in Clients \ {c} : Place'[d] = Place[d]
    BY <1>1 DEF Place
  <1>3. DOMAIN Place' = Clients /\ DOMAIN Place = Clients
    BY DEF Place
  <1>4. Place' = [d \in Clients |-> Place'[d]]
    BY DEF Place
  <1>5. [Place EXCEPT ![c] = w] = [d \in Clients |-> IF d = c THEN w ELSE Place[d]]
    BY <1>3
  <1> QED  BY <1>2, <1>4, <1>5

LEMMA StepRefines == Inv /\ [Next]_vars => [Promise!Next]_(Promise!vars)
  <1> SUFFICES ASSUME Inv, [Next]_vars PROVE [Promise!Next]_(Promise!vars)
    OBVIOUS
  <1>1. ASSUME NEW c \in Clients, Arrive(c) PROVE Promise!Arrive(c)
    <2>1. Place' = [Place EXCEPT ![c] = "waiting"]
      BY <1>1, PlaceUpdate DEF Arrive
    <2>2. Place[c] \in {"away", "refused"}
      BY <1>1, PlaceOf DEF Arrive
    <2> QED  BY <1>1, <2>1, <2>2 DEF Promise!Arrive, Arrive, Open
  <1>2. ASSUME NEW c \in Clients, Accept(c)
        PROVE  Promise!Admit(c) \/ Promise!Refuse(c)
    <2>1. Place[c] = "waiting"
      BY <1>2, PlaceOf DEF Accept
    <2>2. CASE permits > 0
      <3>1. Place' = [Place EXCEPT ![c] = "inside"]
        BY <1>2, <2>2, PlaceUpdate DEF Accept
      <3>2. Promise!Cardinality(Promise!Inside) < Limit
        BY <2>2, InsideCount
      <3> QED  BY <1>2, <2>1, <3>1, <3>2 DEF Promise!Admit, Accept, Open
    <2>3. CASE ~(permits > 0)
      <3>1. Place' = [Place EXCEPT ![c] = "refused"]
        BY <1>2, <2>3, PlaceUpdate DEF Accept
      <3>2. Promise!Cardinality(Promise!Inside) = Limit
        BY <2>3, InsideCount
      <3> QED  BY <1>2, <2>1, <3>1, <3>2 DEF Promise!Refuse, Accept, Open
    <2> QED  BY <2>2, <2>3
  <1>3. ASSUME NEW c \in Clients, TaskEnds(c) PROVE Promise!Leave(c)
    <2>1. Place' = [Place EXCEPT ![c] = "away"]
      BY <1>3, PlaceUpdate DEF TaskEnds
    <2>2. Place[c] = "inside"
      BY <1>3, PlaceOf DEF TaskEnds
    <2> QED  BY <1>3, <2>1, <2>2 DEF Promise!Leave, TaskEnds, Open
  <1>4. ASSUME NEW c \in Clients, Join(c) \/ DrainJoin(c)
        PROVE  Place' = Place /\ Open' = Open
    <2>1. Place' = [Place EXCEPT ![c] = "away"] /\ Place[c] = "away"
      BY <1>4, PlaceUpdate, PlaceOf DEF Join, DrainJoin
    <2>2. Place' = Place
      BY <2>1 DEF Place
    <2> QED  BY <1>4, <2>2 DEF Join, DrainJoin, Open
  <1>5. Break => Promise!Close
    BY DEF Break, Promise!Close, Inv, TypeOK, Place, Open
  <1>6. AcceptFails \/ DrainTimeout => Promise!Exit
    BY DEF AcceptFails, DrainTimeout, Cut, Promise!Exit, Inv, TypeOK, Place, Open
  <1>7. CtrlC \/ Drained \/ UNCHANGED vars => Place' = Place /\ Open' = Open
    BY DEF CtrlC, Drained, vars, Place, Open
  <1>8. ASSUME Promise!Next \/ (Place' = Place /\ Open' = Open)
        PROVE  [Promise!Next]_(Promise!vars)
    BY <1>8 DEF Promise!vars
  <1>9. CASE \E c \in Clients : Arrive(c) \/ Accept(c) \/ TaskEnds(c)
    BY <1>9, <1>1, <1>2, <1>3, <1>8 DEF Promise!Next
  <1>10. CASE \E c \in Clients : Join(c) \/ DrainJoin(c)
    BY <1>10, <1>4, <1>8
  <1>11. CASE AcceptFails \/ Break \/ DrainTimeout
    BY <1>11, <1>5, <1>6, <1>8 DEF Promise!Next
  <1>12. CASE CtrlC \/ Drained \/ UNCHANGED vars
    BY <1>12, <1>7, <1>8
  <1> QED  BY <1>9, <1>10, <1>11, <1>12 DEF Next, Exited

\* serve() keeps the promise of Admission.
THEOREM ServeKeepsPromise == Spec => KeepsPromise
  <1>1. KeepsPromise <=> Promise!Init /\ [][Promise!Next]_(Promise!vars)
    BY DEF KeepsPromise, Promise!Spec
  <1> QED  BY <1>1, InitInv, StepInv, InitRefines, StepRefines, PTL DEF Spec
=============================================================================
