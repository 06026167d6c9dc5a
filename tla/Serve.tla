------------------------------- MODULE Serve -------------------------------
(***************************************************************************)
(* serve() of src/src/main.rs: the accept loop, its connection tasks, the  *)
(* semaphore that limits them, and the shutdown on ctrl-c.                 *)
(*                                                                         *)
(* The loop selects, in random order, among a connection to accept, a      *)
(* finished task to join and ctrl-c.  Each turn makes a new ctrl_c()       *)
(* future; a signal that came in a turn that another branch won is         *)
(* dropped with that turn's future.                                        *)
(***************************************************************************)
EXTENDS Integers, FiniteSets

CONSTANTS Clients,  \* remote ends; each has at most one connection at a time
          Limit     \* max_connections, which serve() requires to be positive

ASSUME ServeAssumption == IsFiniteSet(Clients) /\ Limit \in Nat \ {0}

VARIABLES
  phase,    \* "accepting", "draining", "exited"
  conn,     \* per client: "away", "queued" in the backlog, "served",
            \* "ended", or "refused"
  tasks,    \* the JoinSet: clients whose task is not joined
  permits,  \* available permits of the semaphore
  signal    \* ctrl-c arrived in this turn of the loop

vars == <<phase, conn, tasks, permits, signal>>

Init ==
  /\ phase = "accepting" /\ conn = [c \in Clients |-> "away"]
  /\ tasks = {} /\ permits = Limit /\ signal = FALSE

Served == {c \in Clients : conn[c] = "served"}

\* A client connects: the kernel queues it while the listener is open.
Arrive(c) ==
  /\ phase = "accepting" /\ conn[c] \in {"away", "refused"}
  /\ conn' = [conn EXCEPT ![c] = "queued"]
  /\ UNCHANGED <<phase, tasks, permits, signal>>

\* Bugs: one connection too many; a limit on tasks that are not joined.
Accept_OneMore(c) ==
  /\ phase = "accepting" /\ conn[c] = "queued" /\ permits >= 0
  /\ permits' = permits - 1 /\ tasks' = tasks \cup {c}
  /\ conn' = [conn EXCEPT ![c] = "served"] /\ signal' = FALSE
  /\ UNCHANGED phase
Accept_CountsTasks(c) ==
  /\ phase = "accepting" /\ conn[c] = "queued"
  /\ IF Cardinality(tasks) < Limit
     THEN /\ permits' = permits - 1 /\ tasks' = tasks \cup {c}
          /\ conn' = [conn EXCEPT ![c] = "served"]
     ELSE /\ conn' = [conn EXCEPT ![c] = "refused"]
          /\ UNCHANGED <<permits, tasks>>
  /\ signal' = FALSE
  /\ UNCHANGED phase

\* The accept branch: without a permit the connection is dropped at once.
Accept(c) ==
  /\ phase = "accepting" /\ conn[c] = "queued"
  /\ IF permits > 0
     THEN /\ permits' = permits - 1
          /\ conn' = [conn EXCEPT ![c] = "served"]
          /\ tasks' = tasks \cup {c}
     ELSE /\ conn' = [conn EXCEPT ![c] = "refused"]
          /\ UNCHANGED <<permits, tasks>>
  /\ signal' = FALSE
  /\ UNCHANGED phase

\* All connections end with the process.
Cut == [c \in Clients |->
          CASE conn[c] = "queued"              -> "refused"
            [] conn[c] \in {"served", "ended"} -> "away"
            [] OTHER                           -> conn[c]]

\* accept() fails, for want of descriptors say: serve() returns the error,
\* the JoinSet is dropped with every task in it, and main() exits.
AcceptFails ==
  /\ phase = "accepting"
  /\ phase' = "exited" /\ conn' = Cut /\ tasks' = {} /\ permits' = Limit
  /\ signal' = FALSE

\* A bug: a task that ends forgets its permit.
TaskEnds_Leaks(c) ==
  /\ phase # "exited" /\ conn[c] = "served"
  /\ conn' = [conn EXCEPT ![c] = "ended"]
  /\ UNCHANGED <<phase, tasks, permits, signal>>

\* handle_connection returns or panics; _permit is dropped with the task.
TaskEnds(c) ==
  /\ phase # "exited" /\ conn[c] = "served"
  /\ conn' = [conn EXCEPT ![c] = "ended"]
  /\ permits' = permits + 1
  /\ UNCHANGED <<phase, tasks, signal>>

\* The join branch of the loop, which reports a panic and goes on.
Join(c) ==
  /\ phase = "accepting" /\ c \in tasks /\ conn[c] = "ended"
  /\ tasks' = tasks \ {c} /\ conn' = [conn EXCEPT ![c] = "away"]
  /\ signal' = FALSE
  /\ UNCHANGED <<phase, permits>>

CtrlC ==
  /\ phase = "accepting" /\ ~signal
  /\ signal' = TRUE
  /\ UNCHANGED <<phase, conn, tasks, permits>>

\* Bugs: a biased select! with ctrl_c last; a listener kept while draining.
Break_Last ==
  /\ phase = "accepting" /\ signal
  /\ \A c \in Clients : conn[c] \notin {"queued", "ended"}
  /\ phase' = "draining" /\ signal' = FALSE
  /\ UNCHANGED <<conn, tasks, permits>>
Break_KeepsListener ==
  /\ phase = "accepting" /\ signal
  /\ phase' = "draining" /\ signal' = FALSE
  /\ UNCHANGED <<conn, tasks, permits>>

\* The ctrl_c branch; dropping the listener resets the backlog.
Break ==
  /\ phase = "accepting" /\ signal
  /\ phase' = "draining" /\ signal' = FALSE
  /\ conn' = [c \in Clients |-> IF conn[c] = "queued" THEN "refused" ELSE conn[c]]
  /\ UNCHANGED <<tasks, permits>>

DrainJoin(c) ==
  /\ phase = "draining" /\ c \in tasks /\ conn[c] = "ended"
  /\ tasks' = tasks \ {c} /\ conn' = [conn EXCEPT ![c] = "away"]
  /\ UNCHANGED <<phase, permits, signal>>

Drained ==
  /\ phase = "draining" /\ tasks = {}
  /\ phase' = "exited"
  /\ UNCHANGED <<conn, tasks, permits, signal>>

\* Ten seconds passed: abort_all, and main() exits without waiting for it.
DrainTimeout ==
  /\ phase = "draining" /\ tasks # {}
  /\ phase' = "exited" /\ conn' = Cut /\ tasks' = {} /\ permits' = Limit
  /\ UNCHANGED signal

Exited == phase = "exited" /\ UNCHANGED vars

Next == \/ \E c \in Clients : \/ Arrive(c) \/ Accept(c) \/ TaskEnds(c)
                              \/ Join(c) \/ DrainJoin(c)
        \/ AcceptFails \/ CtrlC \/ Break \/ Drained \/ DrainTimeout \/ Exited

(***************************************************************************)
(* connection_lifetime ends every task; the timer ends the drain; the loop *)
(* takes a ready branch, and as select! polls its branches in random order *)
(* none that is ready again and again is passed over for ever.             *)
(***************************************************************************)
Fairness ==
  /\ \A c \in Clients : /\ WF_vars(TaskEnds(c)) /\ SF_vars(Accept(c))
                        /\ SF_vars(Join(c)) /\ WF_vars(DrainJoin(c))
  /\ SF_vars(Break) /\ WF_vars(Drained) /\ WF_vars(DrainTimeout)

Spec == Init /\ [][Next]_vars /\ Fairness

-----------------------------------------------------------------------------
\* The state of the loop, its tasks and the semaphore, never overdrawn.
TypeOK ==
  /\ phase \in {"accepting", "draining", "exited"}
  /\ conn \in [Clients -> {"away", "queued", "served", "ended", "refused"}]
  /\ tasks \subseteq Clients /\ permits \in 0..Limit /\ signal \in BOOLEAN

\* Every permit is either free or held by a served connection, so none leaks
\* when a task panics, is aborted, or ends before it is joined; and the
\* JoinSet knows every task that runs.
PermitsConserved ==
  /\ permits + Cardinality(Served) = Limit
  /\ tasks = {c \in Clients : conn[c] \in {"served", "ended"}}

\* Where Admission sees a client, and its door.
Place == [c \in Clients |->
            CASE conn[c] = "queued"  -> "waiting"
              [] conn[c] = "served"  -> "inside"
              [] conn[c] = "refused" -> "refused"
              [] OTHER               -> "away"]
Open == phase = "accepting"

Promise == INSTANCE Admission WITH place <- Place, open <- Open

\* serve() keeps the promise of Admission: tasks that ended but are not yet
\* joined take no place, a connection is refused only at the limit or after
\* the listener is gone, and nothing is admitted after that.
KeepsPromise == Promise!Spec

\* A queued connection is answered: served, refused, or cut by shutdown.
QueuedIsAnswered ==
  \A c \in Clients : (conn[c] = "queued") ~> (conn[c] # "queued")

\* One ctrl-c may be lost to a branch that is ready in the same turn; but
\* pressing it again and again stops the server, however busy it is, and
\* once draining it exits.
CtrlCStops == /\ ([]<>signal) => <>(phase # "accepting")
              /\ (phase = "draining") ~> (phase = "exited")
=============================================================================
