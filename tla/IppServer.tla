------------------------------ MODULE IppServer ------------------------------
(***************************************************************************)
(* The connection side of ESPresso's IPP proxy (main/ipp_proxy.c): two     *)
(* listening sockets (IPP on 631, IPPS on 8631), the single accept task,   *)
(* and the worker tasks it creates, one per accepted connection, bounded   *)
(* by the counting semaphore worker_slots.                                 *)
(*                                                                         *)
(* What a worker does with its connection is abstracted to the interval    *)
(* between "serving" and "closed"; module IppProxy fills it in.            *)
(***************************************************************************)
EXTENDS Integers, Sequences, FiniteSets

CONSTANTS
  Conns,        \* tokens for TCP connections; one is reused once its task is gone
  SecureConns,  \* the connections made to the IPPS port
  WorkerSlots,  \* IPP_SERVER_WORKERS
  Backlog,      \* IPP_SERVER_BACKLOG
  NoConn        \* "the accept task holds no accepted socket"

ASSUME ServerAssumption ==
  /\ SecureConns \subseteq Conns
  /\ WorkerSlots \in Nat \ {0}
  /\ Backlog \in Nat \ {0}
  /\ NoConn \notin Conns

VARIABLES
  slots,     \* value of the worker_slots semaphore
  acceptor,  \* where ipp_accept_task is in its loop
  chosen,    \* the listener select() made it pick
  held,      \* the socket accept() returned, until a worker owns it
  queue,     \* TCP backlog of each listener
  phase      \* where each connection is

serverVars == <<slots, acceptor, chosen, held, queue, phase>>

Listeners == {"plain", "secure"}

ListenerOf(c) == IF c \in SecureConns THEN "secure" ELSE "plain"

Phases == {"away", "queued", "held", "serving", "closed"}

ServerTypeOK ==
  /\ slots \in 0..WorkerSlots
  /\ acceptor \in {"take", "select", "accept", "spawn"}
  /\ chosen \in Listeners
  /\ held \in Conns \cup {NoConn}
  /\ queue \in [Listeners -> Seq(Conns)]
  /\ phase \in [Conns -> Phases]

ServerInit ==
  /\ slots = WorkerSlots
  /\ acceptor = "take"
  /\ chosen = "plain"
  /\ held = NoConn
  /\ queue = [l \in Listeners |-> <<>>]
  /\ phase = [c \in Conns |-> "away"]

----------------------------------------------------------------------------
(* The network: a client completes the TCP handshake; the listener queues  *)
(* at most Backlog connections and the stack turns the others away.        *)

Connect(c) ==
  /\ phase[c] = "away"
  /\ Len(queue[ListenerOf(c)]) < Backlog
  /\ queue' = [queue EXCEPT ![ListenerOf(c)] = Append(@, c)]
  /\ phase' = [phase EXCEPT ![c] = "queued"]
  /\ UNCHANGED <<slots, acceptor, chosen, held>>

----------------------------------------------------------------------------
(* ipp_accept_task                                                         *)

(* A slot is reserved before accept(), so that excess clients wait in the  *)
(* backlog.                                                                *)
TakeSlot ==
  /\ acceptor = "take"
  /\ slots > 0
  /\ slots' = slots - 1
  /\ acceptor' = "select"
  /\ UNCHANGED <<chosen, held, queue, phase>>

(* Slips that the runs must notice (each takes the place of the action it  *)
(* is named after): the wrong listener preferred, or picked without being  *)
(* ready; a slot that is not given back.                                   *)
SelectReadyPlainFirst ==
  /\ acceptor = "select"
  /\ \E l \in Listeners : queue[l] # <<>>
  /\ chosen' = IF queue["plain"] # <<>> THEN "plain" ELSE "secure"
  /\ acceptor' = "accept"
  /\ UNCHANGED <<slots, held, queue, phase>>

SelectReadyUnchecked ==
  /\ acceptor = "select"
  /\ \E l \in Listeners : queue[l] # <<>>
  /\ chosen' = IF queue["secure"] = <<>> THEN "secure" ELSE "plain"
  /\ acceptor' = "accept"
  /\ UNCHANGED <<slots, held, queue, phase>>

SpawnFailsKeepsSlot ==
  /\ acceptor = "spawn"
  /\ acceptor' = "take"
  /\ phase' = [phase EXCEPT ![held] = "away"]
  /\ held' = NoConn
  /\ UNCHANGED <<slots, chosen, queue>>

GiveSlotForgotten(c) ==
  /\ phase[c] = "closed"
  /\ phase' = [phase EXCEPT ![c] = "away"]
  /\ UNCHANGED <<slots, acceptor, chosen, held, queue>>

(* Every failure of the loop gives the reserved slot back and starts over. *)
GiveBack ==
  /\ slots' = slots + 1
  /\ acceptor' = "take"

SelectFails ==
  /\ acceptor = "select"
  /\ GiveBack
  /\ UNCHANGED <<chosen, held, queue, phase>>

(* select() returns once a listener has a client; the secure one is        *)
(* preferred when both have.                                               *)
SelectReady ==
  /\ acceptor = "select"
  /\ \E l \in Listeners : queue[l] # <<>>
  /\ chosen' = IF queue["secure"] # <<>> THEN "secure" ELSE "plain"
  /\ acceptor' = "accept"
  /\ UNCHANGED <<slots, held, queue, phase>>

(* accept() fails for a client that gave up meanwhile, or when the socket  *)
(* table is full; the stack drops that connection.                         *)
AcceptFails ==
  /\ acceptor = "accept"
  /\ GiveBack
  /\ phase' = [phase EXCEPT ![Head(queue[chosen])] = "away"]
  /\ queue' = [queue EXCEPT ![chosen] = Tail(@)]
  /\ UNCHANGED <<chosen, held>>

AcceptConnection ==
  /\ acceptor = "accept"
  /\ held' = Head(queue[chosen])
  /\ phase' = [phase EXCEPT ![Head(queue[chosen])] = "held"]
  /\ queue' = [queue EXCEPT ![chosen] = Tail(@)]
  /\ acceptor' = "spawn"
  /\ UNCHANGED <<slots, chosen>>

(* malloc() or xTaskCreate() fails: slot given back, socket closed.        *)
SpawnFails ==
  /\ acceptor = "spawn"
  /\ GiveBack
  /\ phase' = [phase EXCEPT ![held] = "away"]
  /\ held' = NoConn
  /\ UNCHANGED <<chosen, queue>>

SpawnWorker ==
  /\ acceptor = "spawn"
  /\ phase' = [phase EXCEPT ![held] = "serving"]
  /\ held' = NoConn
  /\ acceptor' = "take"
  /\ UNCHANGED <<slots, chosen, queue>>

----------------------------------------------------------------------------
(* ipp_worker_task: after the request, the socket is closed and only then  *)
(* the slot given back.                                                    *)

CloseConnection(c) ==
  /\ phase[c] = "serving"
  /\ phase' = [phase EXCEPT ![c] = "closed"]
  /\ UNCHANGED <<slots, acceptor, chosen, held, queue>>

GiveSlot(c) ==
  /\ phase[c] = "closed"
  /\ slots' = slots + 1
  /\ phase' = [phase EXCEPT ![c] = "away"]
  /\ UNCHANGED <<acceptor, chosen, held, queue>>

AcceptTask ==
  \/ TakeSlot \/ SelectFails \/ SelectReady \/ AcceptFails
  \/ AcceptConnection \/ SpawnFails \/ SpawnWorker

ServerNext ==
  \/ \E c \in Conns : Connect(c) \/ CloseConnection(c) \/ GiveSlot(c)
  \/ AcceptTask

ServerSafety == ServerInit /\ [][ServerNext]_serverVars

(* The accept task always runs on. Its calls may fail, but not forever:    *)
(* each step that is tried again and again succeeds once. Nothing is said  *)
(* of when a request ends: an IPPS client may be silent for ever (reads of *)
(* a TLS connection have no time limit), and a chunked body may come piece *)
(* by piece without end. A worker that has closed its socket goes on to    *)
(* give its slot back.                                                     *)
ServerFairness ==
  /\ WF_serverVars(TakeSlot)
  /\ SF_serverVars(SelectReady)
  /\ SF_serverVars(AcceptConnection)
  /\ SF_serverVars(SpawnWorker)
  /\ \A c \in Conns : WF_serverVars(GiveSlot(c))

ServerSpec == ServerSafety /\ ServerFairness

----------------------------------------------------------------------------
(* Worker tasks that exist: each keeps its slot until it has closed its    *)
(* socket.                                                                 *)
Tasks == {c \in Conns : phase[c] \in {"serving", "closed"}}

(* Slots the accept task has reserved for the client it will accept next.  *)
Reserved == IF acceptor = "take" THEN 0 ELSE 1

(* No slot is lost or invented on any path of the accept loop and of the   *)
(* workers: the semaphore, the accept task's reservation and the worker    *)
(* tasks always add up to IPP_SERVER_WORKERS. A leaked slot would slowly   *)
(* stop the printer, an invented one would exceed the heap budget.         *)
SlotConservation ==
  /\ IsFiniteSet(Tasks)
  /\ slots + Reserved + Cardinality(Tasks) = WorkerSlots

(* A connection is in one place: queued once and at its own listener, or   *)
(* held by the accept task, or owned by one worker. Two owners would close *)
(* one descriptor twice.                                                   *)
OneOwner ==
  /\ \A l \in Listeners : \A i, j \in 1..Len(queue[l]) :
       /\ phase[queue[l][i]] = "queued"
       /\ ListenerOf(queue[l][i]) = l
       /\ queue[l][i] = queue[l][j] => i = j
  /\ \A c \in Conns : phase[c] = "held" <=> (acceptor = "spawn" /\ held = c)
  /\ acceptor = "spawn" <=> held # NoConn
  /\ acceptor = "accept" => queue[chosen] # <<>>

(* Every slot is with a worker whose request is not over.                  *)
Exhausted == Cardinality({c \in Conns : phase[c] = "serving"}) = WorkerSlots

(* A client of the IPPS port always leaves the backlog, whatever the       *)
(* clients of the IPP port do. A client of the IPP port leaves it provided *)
(* IPPS clients stop arriving: the loop looks at the secure listener first,*)
(* with no turn-taking. Neither holds once as many clients as there are    *)
(* slots keep their workers for ever, and fewer than that do not matter.   *)
ClientsLeaveBacklog ==
  <>[]Exhausted \/
  \A c \in Conns :
    c \in SecureConns \/ <>[](queue["secure"] = <<>>) =>
      (phase[c] = "queued" ~> phase[c] # "queued")

(* Only clients can bring the server to a standstill, and only by keeping  *)
(* all of its workers at once: otherwise it always becomes able to reserve *)
(* a slot again, whatever calls have failed before.                        *)
SlotsComeBack == <>[]Exhausted \/ []<>(slots > 0 \/ acceptor # "take")

=============================================================================
