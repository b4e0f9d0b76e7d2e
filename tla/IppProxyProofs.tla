---------------------------- MODULE IppProxyProofs ----------------------------
(***************************************************************************)
(* Proofs about IppServer and about IppProxy, for any set of connections   *)
(* (finite or not), any number of worker slots, any backlog, and any set   *)
(* of requests, printers, job-ids and any capacity.                        *)
(***************************************************************************)
EXTENDS IppProxy, JobLogProofs

----------------------------------------------------------------------------
(* The server: connections and worker slots                                *)

(* The inductive invariant: types, the place of every connection, and the  *)
(* account of the slots. The first two are needed because AcceptFails and  *)
(* AcceptConnection take the head of a queue, which must exist and must be *)
(* the token of a connection that no worker owns.                          *)
ServerInv == ServerTypeOK /\ OneOwner /\ SlotConservation

(* What taking the head of a listener's queue means: the head was queued,  *)
(* and what remains is still queued, each once.                            *)
LEMMA HeadOfQueue ==
  ASSUME ServerTypeOK, OneOwner, acceptor = "accept"
  PROVE  /\ Head(queue[chosen]) \in Conns
         /\ phase[Head(queue[chosen])] = "queued"
         /\ Tail(queue[chosen]) \in Seq(Conns)
         /\ Len(Tail(queue[chosen])) = Len(queue[chosen]) - 1
         /\ \A i \in 1..Len(Tail(queue[chosen])) :
              /\ Tail(queue[chosen])[i] = queue[chosen][i + 1]
              /\ Tail(queue[chosen])[i] # Head(queue[chosen])
<1> DEFINE q == queue[chosen]
<1>1. q \in Seq(Conns) /\ q # <<>> /\ chosen \in Listeners
  BY DEF ServerTypeOK, OneOwner
<1>2. Len(q) \in Nat /\ Len(q) >= 1 /\ Head(q) = q[1] /\ q[1] \in Conns
  BY <1>1
<1>3. /\ Tail(q) \in Seq(Conns)
      /\ Len(Tail(q)) = Len(q) - 1
      /\ \A i \in 1..Len(Tail(q)) : Tail(q)[i] = q[i + 1]
  BY <1>1, <1>2
<1>4. \A i, j \in 1..Len(q) : phase[q[i]] = "queued" /\ (q[i] = q[j] => i = j)
  BY <1>1 DEF OneOwner
<1>5. \A i \in 1..Len(Tail(q)) : Tail(q)[i] # Head(q)
  BY <1>2, <1>3, <1>4
<1> QED BY <1>2, <1>3, <1>4, <1>5

LEMMA ServerTypeStep ==
  ASSUME ServerTypeOK, OneOwner, SlotConservation, [ServerNext]_serverVars
  PROVE  ServerTypeOK'
<1> USE ServerAssumption DEF ServerTypeOK, Listeners, Phases
<1>1. ASSUME NEW c \in Conns, Connect(c) PROVE ServerTypeOK'
  BY <1>1 DEF Connect, ListenerOf
<1>2. CASE TakeSlot
  BY <1>2 DEF TakeSlot
<1>3. ASSUME acceptor # "take" PROVE slots + 1 \in 0..WorkerSlots
  <2>1. Cardinality(Tasks) \in Nat
    BY FS_CardinalityType DEF SlotConservation
  <2> QED BY <1>3, <2>1 DEF SlotConservation, Reserved
<1>4. CASE SelectFails
  BY <1>3, <1>4 DEF SelectFails, GiveBack
<1>5. CASE SelectReady
  BY <1>5 DEF SelectReady
<1>6. CASE AcceptFails
  BY <1>3, <1>6, HeadOfQueue DEF AcceptFails, GiveBack
<1>7. CASE AcceptConnection
  BY <1>7, HeadOfQueue DEF AcceptConnection
<1>8. CASE SpawnFails
  BY <1>3, <1>8 DEF SpawnFails, GiveBack
<1>9. CASE SpawnWorker
  BY <1>9 DEF SpawnWorker
<1>10. ASSUME NEW c \in Conns, CloseConnection(c) PROVE ServerTypeOK'
  BY <1>10 DEF CloseConnection
<1>11. ASSUME NEW c \in Conns, GiveSlot(c) PROVE ServerTypeOK'
  <2>1. c \in Tasks
    BY <1>11 DEF GiveSlot, Tasks
  <2>2. Cardinality(Tasks) \in Nat /\ Cardinality(Tasks) # 0
    BY <2>1, FS_CardinalityType, FS_EmptySet DEF SlotConservation
  <2>3. slots + 1 \in 0..WorkerSlots
    BY <2>2 DEF SlotConservation, Reserved
  <2> QED BY <1>11, <2>3 DEF GiveSlot
<1>12. CASE UNCHANGED serverVars
  BY <1>12 DEF serverVars
<1> QED
  BY <1>1, <1>2, <1>4, <1>5, <1>6, <1>7, <1>8, <1>9, <1>10, <1>11, <1>12
     DEF ServerNext, AcceptTask

LEMMA OneOwnerStep ==
  ASSUME ServerTypeOK, OneOwner, [ServerNext]_serverVars
  PROVE  OneOwner'
<1> USE ServerAssumption DEF ServerTypeOK, Listeners, Phases
<1>1. ASSUME NEW c \in Conns, Connect(c) PROVE OneOwner'
  <2> DEFINE m == ListenerOf(c)
  <2>1. /\ m \in Listeners
        /\ queue'[m] = Append(queue[m], c)
        /\ \A l \in Listeners \ {m} : queue'[l] = queue[l]
        /\ phase' = [phase EXCEPT ![c] = "queued"]
        /\ phase[c] = "away"
    BY <1>1 DEF Connect, ListenerOf
  <2>2. \A l \in Listeners : \A i \in 1..Len(queue[l]) :
          queue[l][i] # c /\ queue[l][i] \in Conns
    BY <2>1 DEF OneOwner
  <2>3. ASSUME NEW l \in Listeners, NEW i \in 1..Len(queue'[l]),
               NEW j \in 1..Len(queue'[l])
        PROVE  /\ phase'[queue'[l][i]] = "queued"
               /\ ListenerOf(queue'[l][i]) = l
               /\ queue'[l][i] = queue'[l][j] => i = j
    <3>1. CASE l = m
      <4>1. /\ Len(queue'[l]) = Len(queue[l]) + 1
            /\ queue'[l][Len(queue[l]) + 1] = c
            /\ \A k \in 1..Len(queue[l]) : queue'[l][k] = queue[l][k]
        BY <2>1, <3>1
      <4>2. i \in 1..Len(queue[l]) \/ i = Len(queue[l]) + 1
        BY <4>1
      <4>3. j \in 1..Len(queue[l]) \/ j = Len(queue[l]) + 1
        BY <4>1
      <4>4. \A k \in 1..Len(queue[l]) :
              /\ queue'[l][k] = queue[l][k] /\ queue[l][k] \in Conns
              /\ queue[l][k] # c
              /\ phase[queue[l][k]] = "queued" /\ ListenerOf(queue[l][k]) = l
        BY <2>2, <4>1 DEF OneOwner
      <4>5. phase'[queue'[l][i]] = "queued" /\ ListenerOf(queue'[l][i]) = l
        <5>1. CASE i \in 1..Len(queue[l])
          BY <2>1, <4>4, <5>1
        <5>2. CASE i = Len(queue[l]) + 1
          <6>1. queue'[l][i] = c
            BY <4>1, <5>2
          <6> QED BY <2>1, <3>1, <6>1
        <5> QED BY <4>2, <5>1, <5>2
      <4>6. \A k, n \in 1..Len(queue[l]) : queue[l][k] = queue[l][n] => k = n
        BY DEF OneOwner
      <4>7. queue'[l][i] = queue'[l][j] => i = j
        BY <4>1, <4>2, <4>3, <4>4, <4>6
      <4> QED BY <4>5, <4>7
    <3>2. CASE l # m
      BY <2>1, <2>2, <3>2 DEF OneOwner
    <3> QED BY <3>1, <3>2
  <2>4. UNCHANGED <<acceptor, chosen, held>>
    BY <1>1 DEF Connect
  <2>5. \A d \in Conns : phase'[d] = "held" <=> (acceptor' = "spawn" /\ held' = d)
    BY <2>1, <2>4 DEF OneOwner
  <2>6. acceptor' = "accept" => queue'[chosen'] # <<>>
    BY <2>1, <2>4 DEF OneOwner
  <2>7. acceptor' = "spawn" <=> held' # NoConn
    BY <2>4 DEF OneOwner
  <2> QED BY <2>3, <2>5, <2>6, <2>7 DEF OneOwner, ListenerOf
<1>2. CASE TakeSlot
  BY <1>2 DEF TakeSlot, OneOwner, ListenerOf
<1>3. CASE SelectFails
  BY <1>3 DEF SelectFails, GiveBack, OneOwner, ListenerOf
<1>4. CASE SelectReady
  BY <1>4 DEF SelectReady, OneOwner, ListenerOf
<1>5. ASSUME acceptor = "accept",
             queue' = [queue EXCEPT ![chosen] = Tail(@)],
             NEW p \in Phases,
             phase' = [phase EXCEPT ![Head(queue[chosen])] = p]
      PROVE  \A l \in Listeners : \A i, j \in 1..Len(queue'[l]) :
               /\ phase'[queue'[l][i]] = "queued"
               /\ ListenerOf(queue'[l][i]) = l
               /\ queue'[l][i] = queue'[l][j] => i = j
  <2> DEFINE q == queue[chosen]  h == Head(queue[chosen])
  <2>1. /\ h \in Conns /\ phase[h] = "queued"
        /\ Tail(q) \in Seq(Conns) /\ Len(Tail(q)) = Len(q) - 1
        /\ \A i \in 1..Len(Tail(q)) : Tail(q)[i] = q[i + 1] /\ Tail(q)[i] # h
    BY <1>5, HeadOfQueue
  <2> SUFFICES ASSUME NEW l \in Listeners, NEW i \in 1..Len(queue'[l]),
                      NEW j \in 1..Len(queue'[l])
               PROVE  /\ phase'[queue'[l][i]] = "queued"
                      /\ ListenerOf(queue'[l][i]) = l
                      /\ queue'[l][i] = queue'[l][j] => i = j
    OBVIOUS
  <2>2. CASE l = chosen
    <3>1. queue'[l] = Tail(q)
      BY <1>5, <2>2
    <3>2. /\ i + 1 \in 1..Len(q) /\ j + 1 \in 1..Len(q)
          /\ queue'[l][i] = q[i + 1] /\ queue'[l][j] = q[j + 1]
          /\ q[i + 1] # h
          /\ q \in Seq(Conns)
      BY <2>1, <2>2, <3>1
    <3>3. /\ phase[q[i + 1]] = "queued" /\ ListenerOf(q[i + 1]) = l
          /\ (q[i + 1] = q[j + 1] => i + 1 = j + 1)
      BY <2>2, <3>2 DEF OneOwner
    <3> QED BY <1>5, <2>1, <3>2, <3>3
  <2>3. CASE l # chosen
    <3>1. queue'[l] = queue[l]
      BY <1>5, <2>3
    <3>2. /\ phase[queue[l][i]] = "queued" /\ ListenerOf(queue[l][i]) = l
          /\ (queue[l][i] = queue[l][j] => i = j) /\ queue[l][i] \in Conns
      BY <3>1 DEF OneOwner
    <3>3. ListenerOf(h) = chosen
      <4>1. q \in Seq(Conns) /\ q # <<>> /\ h = q[1] /\ 1 \in 1..Len(q)
        BY <1>5 DEF OneOwner
      <4> QED BY <4>1 DEF OneOwner
    <3>4. queue[l][i] # h
      BY <2>3, <3>2, <3>3
    <3> QED BY <1>5, <3>1, <3>2, <3>4
  <2> QED BY <2>2, <2>3
<1>6. CASE AcceptFails
  <2>1. /\ acceptor = "accept" /\ "away" \in Phases
        /\ queue' = [queue EXCEPT ![chosen] = Tail(@)]
        /\ phase' = [phase EXCEPT ![Head(queue[chosen])] = "away"]
        /\ acceptor' = "take" /\ held' = held
    BY <1>6 DEF AcceptFails, GiveBack
  <2> QED BY <1>5, <2>1, HeadOfQueue DEF OneOwner, ListenerOf
<1>7. CASE AcceptConnection
  <2>1. /\ acceptor = "accept" /\ "held" \in Phases
        /\ queue' = [queue EXCEPT ![chosen] = Tail(@)]
        /\ phase' = [phase EXCEPT ![Head(queue[chosen])] = "held"]
        /\ acceptor' = "spawn" /\ held' = Head(queue[chosen])
    BY <1>7 DEF AcceptConnection
  <2> QED BY <1>5, <2>1, HeadOfQueue DEF OneOwner, ListenerOf
<1>8. ASSUME acceptor = "spawn",
             NEW p \in Phases, p \notin {"held", "queued"},
             phase' = [phase EXCEPT ![held] = p],
             acceptor' = "take", held' = NoConn, UNCHANGED <<chosen, queue>>
      PROVE  OneOwner'
  <2>1. held \in Conns /\ phase[held] = "held"
    BY <1>8 DEF OneOwner
  <2>2. \A l \in Listeners : \A i \in 1..Len(queue[l]) :
          queue[l][i] \in Conns /\ queue[l][i] # held
    BY <2>1 DEF OneOwner
  <2> QED BY <1>8, <2>1, <2>2 DEF OneOwner, ListenerOf
<1>9. CASE SpawnFails
  BY <1>8, <1>9 DEF SpawnFails, GiveBack
<1>10. CASE SpawnWorker
  BY <1>8, <1>10 DEF SpawnWorker
<1>11. ASSUME NEW c \in Conns, phase[c] \in {"serving", "closed"},
              NEW p \in Phases, p \notin {"held", "queued"},
              phase' = [phase EXCEPT ![c] = p],
              UNCHANGED <<acceptor, chosen, held, queue>>
       PROVE  OneOwner'
  <2>1. \A l \in Listeners : \A i \in 1..Len(queue[l]) :
          queue[l][i] \in Conns /\ queue[l][i] # c
    BY <1>11 DEF OneOwner
  <2> QED BY <1>11, <2>1 DEF OneOwner, ListenerOf
<1>12. ASSUME NEW c \in Conns, CloseConnection(c) PROVE OneOwner'
  BY <1>11, <1>12 DEF CloseConnection
<1>13. ASSUME NEW c \in Conns, GiveSlot(c) PROVE OneOwner'
  BY <1>11, <1>13 DEF GiveSlot
<1>14. CASE UNCHANGED serverVars
  BY <1>14 DEF serverVars, OneOwner, ListenerOf
<1> QED
  BY <1>1, <1>2, <1>3, <1>4, <1>6, <1>7, <1>9, <1>10, <1>12, <1>13, <1>14
     DEF ServerNext, AcceptTask

(* Only SpawnWorker creates a task and only GiveSlot ends one.             *)
LEMMA SlotConservationStep ==
  ASSUME ServerTypeOK, OneOwner, SlotConservation, [ServerNext]_serverVars
  PROVE  SlotConservation'
<1> USE ServerAssumption DEF ServerTypeOK, Listeners, Phases
<1>0. IsFiniteSet(Tasks) /\ Cardinality(Tasks) \in Nat
  BY FS_CardinalityType DEF SlotConservation
<1>1. ASSUME Tasks' = Tasks, slots' + Reserved' = slots + Reserved
      PROVE  SlotConservation'
  BY <1>0, <1>1 DEF SlotConservation
<1>2. ASSUME NEW c \in Conns, Connect(c) PROVE SlotConservation'
  <2>1. Tasks' = Tasks
    BY <1>2 DEF Connect, Tasks
  <2> QED BY <1>1, <1>2, <2>1 DEF Connect, Reserved
<1>3. CASE TakeSlot
  <2>1. Tasks' = Tasks
    BY <1>3 DEF TakeSlot, Tasks
  <2> QED BY <1>1, <1>3, <2>1 DEF TakeSlot, Reserved
<1>4. CASE SelectFails
  <2>1. Tasks' = Tasks
    BY <1>4 DEF SelectFails, Tasks
  <2> QED BY <1>1, <1>4, <2>1 DEF SelectFails, GiveBack, Reserved
<1>5. CASE SelectReady
  <2>1. Tasks' = Tasks
    BY <1>5 DEF SelectReady, Tasks
  <2> QED BY <1>1, <1>5, <2>1 DEF SelectReady, Reserved
<1>6. CASE AcceptFails
  <2>1. Tasks' = Tasks
    BY <1>6, HeadOfQueue DEF AcceptFails, Tasks
  <2> QED BY <1>1, <1>6, <2>1 DEF AcceptFails, GiveBack, Reserved
<1>7. CASE AcceptConnection
  <2>1. Tasks' = Tasks
    BY <1>7, HeadOfQueue DEF AcceptConnection, Tasks
  <2> QED BY <1>1, <1>7, <2>1 DEF AcceptConnection, Reserved
<1>8. ASSUME acceptor = "spawn"
      PROVE  held \in Conns /\ phase[held] = "held" /\ held \notin Tasks
  BY <1>8 DEF OneOwner, Tasks
<1>9. CASE SpawnFails
  <2>1. Tasks' = Tasks
    BY <1>8, <1>9 DEF SpawnFails, Tasks
  <2> QED BY <1>1, <1>9, <2>1 DEF SpawnFails, GiveBack, Reserved
<1>10. CASE SpawnWorker
  <2>1. Tasks' = Tasks \cup {held}
    BY <1>8, <1>10 DEF SpawnWorker, Tasks
  <2>2. IsFiniteSet(Tasks') /\ Cardinality(Tasks') = Cardinality(Tasks) + 1
    BY <1>0, <1>8, <1>10, <2>1, FS_AddElement DEF SpawnWorker
  <2> QED BY <1>0, <1>10, <2>2 DEF SpawnWorker, Reserved, SlotConservation
<1>11. ASSUME NEW c \in Conns, CloseConnection(c) PROVE SlotConservation'
  <2>1. Tasks' = Tasks
    BY <1>11 DEF CloseConnection, Tasks
  <2> QED BY <1>1, <1>11, <2>1 DEF CloseConnection, Reserved
<1>12. ASSUME NEW c \in Conns, GiveSlot(c) PROVE SlotConservation'
  <2>1. Tasks' = Tasks \ {c} /\ c \in Tasks
    BY <1>12 DEF GiveSlot, Tasks
  <2>2. IsFiniteSet(Tasks') /\ Cardinality(Tasks') = Cardinality(Tasks) - 1
    BY <1>0, <2>1, FS_RemoveElement
  <2> QED BY <1>0, <1>12, <2>2 DEF GiveSlot, Reserved, SlotConservation
<1>13. CASE UNCHANGED serverVars
  <2>1. Tasks' = Tasks
    BY <1>13 DEF serverVars, Tasks
  <2> QED BY <1>1, <1>13, <2>1 DEF serverVars, Reserved
<1> QED
  BY <1>2, <1>3, <1>4, <1>5, <1>6, <1>7, <1>9, <1>10, <1>11, <1>12, <1>13
     DEF ServerNext, AcceptTask

LEMMA ServerInitInv == ServerInit => ServerInv
<1> SUFFICES ASSUME ServerInit PROVE ServerInv
  OBVIOUS
<1>1. ServerTypeOK
  BY ServerAssumption DEF ServerInit, ServerTypeOK, Listeners, Phases
<1>2. OneOwner
  BY ServerAssumption DEF ServerInit, OneOwner, Listeners
<1>3. SlotConservation
  <2>1. Tasks = {}
    BY DEF ServerInit, Tasks
  <2> QED BY <2>1, FS_EmptySet, ServerAssumption DEF ServerInit, SlotConservation, Reserved
<1> QED BY <1>1, <1>2, <1>3 DEF ServerInv

LEMMA ServerStepInv == ServerInv /\ [ServerNext]_serverVars => ServerInv'
  BY ServerTypeStep, OneOwnerStep, SlotConservationStep DEF ServerInv

LEMMA ServerInvAlways == ServerSafety => []ServerInv
  BY ServerInitInv, ServerStepInv, PTL DEF ServerSafety

(* Types and conservation of the worker slots hold in every behaviour of   *)
(* the accept loop and its workers, failures of select(), accept(),        *)
(* malloc() and xTaskCreate() included.                                    *)
THEOREM ServerCorrect == ServerSafety => [](ServerTypeOK /\ SlotConservation)
  BY ServerInvAlways, PTL DEF ServerInv

(* A connection waits once, at its own listener, or belongs to the accept  *)
(* task, or to one worker: ipp_accept_task hands a descriptor over to      *)
(* ipp_worker_task or closes it, and never does both.                      *)
THEOREM OneOwnerAlways == ServerSafety => []OneOwner
  BY ServerInvAlways, PTL DEF ServerInv

----------------------------------------------------------------------------
(* The proxy implements the server: a handler's steps leave the server's   *)
(* variables alone, the others are the server's own steps.                 *)

LEMMA ServerStep == [Next]_vars => [ServerNext]_serverVars
<1> SUFFICES ASSUME [Next]_vars PROVE [ServerNext]_serverVars
  OBVIOUS
<1>1. ASSUME NEW c \in Conns, ClientConnects(c) PROVE ServerNext
  BY <1>1 DEF ClientConnects, ServerNext
<1>2. ASSUME NEW c \in Conns, Handler(c) PROVE UNCHANGED serverVars
  BY <1>2 DEF Handler, OpenRequest, ReceiveFails, ReceiveAttributes, PlanRejects,
     LengthRejects, OpenUpstream, OpenUpstreamFails, StreamPiece, StreamEnds, StreamFails,
     ResponseArrives, ResponseFails, TranslateResponse, TranslateFails
<1>3. ASSUME NEW c \in Conns, PrinterDecides(c) PROVE UNCHANGED serverVars
  BY <1>3 DEF PrinterDecides
<1>4. ASSUME NEW c \in Conns, WorkerCloses(c) PROVE ServerNext
  BY <1>4 DEF WorkerCloses, ServerNext
<1>5. ASSUME NEW c \in Conns, WorkerEnds(c) PROVE ServerNext
  BY <1>5 DEF WorkerEnds, ServerNext
<1>6. CASE Accepting
  BY <1>6 DEF Accepting, ServerNext
<1>7. CASE UserSelects \/ JobPage \/ Tick
  BY <1>7 DEF UserSelects, JobPage, Tick
<1>8. CASE UNCHANGED vars
  BY <1>8 DEF vars
<1> QED BY <1>1, <1>2, <1>3, <1>4, <1>5, <1>6, <1>7, <1>8 DEF Next

(* No path through the handler loses or doubles a worker slot or a socket. *)
THEOREM ProxyImplementsServer == Safety => ImplementsServer
<1>1. Init => ServerInit
  BY DEF Init
<1> QED BY <1>1, ServerStep, PTL DEF Safety, ServerSafety, ImplementsServer

----------------------------------------------------------------------------
(* How far a handler is, and what it has done by then.                     *)

HandlerTypes ==
  /\ req \in [Conns -> Requests \cup {NoRequest}]
  /\ pc \in [Conns -> Steps]
  /\ snap \in [Conns -> Printers \cup {NoTarget}]
  /\ got \in [Conns -> Nat]
  /\ opened \in [Conns -> Nat]
  /\ sent \in [Conns -> Nat]
  /\ ended \in [Conns -> BOOLEAN]
  /\ verdict \in [Conns -> {"none", "accepted", "refused"}]
  /\ jobOf \in [Conns -> UpJobs \cup {NoJob}]
  /\ answer \in [Conns -> {"none", "error", "refused", "ok"}]
  /\ target \in Printers \cup {NoTarget}

(* The request is there once the client has connected, and never changes.  *)
Asked(c) == pc[c] # "new" => req[c] \in Requests

(* Nothing has gone to the printer before the handler is through with its  *)
(* plan, one request has when it waits for the response.                   *)
Offered(c) ==
  /\ opened[c] <= 1
  /\ pc[c] \in {"new", "open", "receive", "plan"} =>
       opened[c] = 0 /\ sent[c] = 0 /\ ~ended[c] /\ answer[c] = "none"
  /\ pc[c] \in {"new", "open", "receive"} => got[c] = 0
  /\ pc[c] \in {"stream", "await", "translate"} => opened[c] = 1 /\ answer[c] = "none"

(* The document passes through: the printer has no more of it than came    *)
(* from the client, and sees an end only behind all of it.                 *)
Passed(c) ==
  /\ pc[c] # "new" => sent[c] <= got[c] /\ got[c] <= req[c].doc
  /\ ended[c] => pc[c] # "new" /\ sent[c] = req[c].doc /\ got[c] = req[c].doc
  /\ verdict[c] # "none" => ended[c]

(* The printer a request is meant for stays the same.                      *)
Aimed(c) ==
  pc[c] \in {"receive", "plan", "stream", "await", "translate"} => snap[c] \in Printers

Told(c) ==
  /\ answer[c] = "ok" =>
       pc[c] = "done" /\ verdict[c] = "accepted" /\ opened[c] = 1 /\ snap[c] \in Printers
  /\ pc[c] = "translate" => verdict[c] # "none"

HandlerInv ==
  /\ HandlerTypes
  /\ \A c \in Conns : Asked(c) /\ Offered(c) /\ Passed(c) /\ Aimed(c) /\ Told(c)

LEMMA HandlerInit == Init => HandlerInv
  BY DEF Init, HandlerInv, HandlerTypes, Steps, Asked, Offered, Passed, Aimed, Told

(* A request has a length.                                                 *)
LEMMA DocIsNat == \A c \in Conns : HandlerInv /\ pc[c] # "new" => req[c].doc \in Nat
  BY ProxyAssumption DEF HandlerInv, Asked, RequestType

LEMMA HandlerStep ==
  ASSUME HandlerInv, NEW c \in Conns, Handler(c)
  PROVE  HandlerInv'
<1> USE DEF HandlerInv, HandlerTypes, Steps, Serving, Answer
<1>0. pc[c] # "new" => req[c].doc \in Nat
  BY DocIsNat
<1>1. CASE OpenRequest(c)
  BY <1>0, <1>1 DEF OpenRequest, Asked, Offered, Passed, Aimed, Told
<1>2. CASE ReceiveFails(c)
  BY <1>0, <1>2 DEF ReceiveFails, Asked, Offered, Passed, Aimed, Told
<1>3. CASE ReceiveAttributes(c)
  <2>1. PICK k \in PrefixPieces(req[c]) : got' = [got EXCEPT ![c] = k]
    BY <1>3 DEF ReceiveAttributes
  <2>2. k \in Nat /\ k <= req[c].doc
    BY <1>0, <1>3, <2>1 DEF ReceiveAttributes, PrefixPieces
  <2> QED BY <1>0, <1>3, <2>1, <2>2 DEF ReceiveAttributes, Asked, Offered, Passed, Aimed, Told
<1>4. CASE PlanRejects(c)
  BY <1>0, <1>4 DEF PlanRejects, Asked, Offered, Passed, Aimed, Told
<1>5. CASE LengthRejects(c)
  BY <1>0, <1>5 DEF LengthRejects, Asked, Offered, Passed, Aimed, Told
<1>6. ASSUME Relayed(c), PrefixWritten(c), UNCHANGED <<req, got>>
      PROVE  /\ opened' \in [Conns -> Nat] /\ sent' \in [Conns -> Nat]
             /\ ended' \in [Conns -> BOOLEAN]
             /\ opened'[c] = 1 /\ sent'[c] <= got[c] /\ got[c] <= req[c].doc
             /\ ended'[c] => sent'[c] = req[c].doc /\ got[c] = req[c].doc
             /\ \A d \in Conns \ {c} :
                  opened'[d] = opened[d] /\ sent'[d] = sent[d] /\ ended'[d] = ended[d]
  <2>1. opened[c] = 0 /\ got[c] <= req[c].doc
    BY <1>6 DEF Relayed, Offered, Passed
  <2>2. opened' = [opened EXCEPT ![c] = 1]
    BY <1>6, <2>1 DEF Relayed
  <2>3. sent' = [sent EXCEPT ![c] = IF Converting(req[c]) THEN 0 ELSE got[c]]
    BY <1>6 DEF PrefixWritten
  <2>4. ended' = [ended EXCEPT ![c] = ~OutgoingChunked(req[c]) /\ got[c] = req[c].doc]
    BY <1>6 DEF PrefixWritten
  <2>5. ended'[c] => ~Converting(req[c]) /\ got[c] = req[c].doc
    BY <2>4 DEF OutgoingChunked
  <2> QED BY <2>1, <2>2, <2>3, <2>4, <2>5
<1>7. CASE OpenUpstream(c)
  <2>1. pc[c] = "plan" /\ verdict[c] = "none"
    BY <1>7 DEF OpenUpstream, Relayed, Offered, Passed
  <2> QED BY <1>0, <1>6, <1>7, <2>1 DEF OpenUpstream, Asked, Offered, Passed, Aimed, Told
<1>8. CASE OpenUpstreamFails(c)
  <2>1. pc[c] = "plan" /\ verdict[c] = "none" /\ opened[c] = 0
    BY <1>8 DEF OpenUpstreamFails, Relayed, Offered, Passed
  <2>2. CASE PrefixWritten(c)
    BY <1>0, <1>6, <1>8, <2>1, <2>2 DEF OpenUpstreamFails, Asked, Offered, Passed, Aimed, Told
  <2>3. CASE UNCHANGED <<sent, ended>>
    <3>1. opened' = [opened EXCEPT ![c] = 1]
      BY <1>8, <2>1 DEF OpenUpstreamFails, Relayed
    <3> QED
      BY <1>0, <1>8, <2>1, <2>3, <3>1 DEF OpenUpstreamFails, Asked, Offered, Passed, Aimed, Told
  <2> QED BY <1>8, <2>2, <2>3 DEF OpenUpstreamFails
<1>9. CASE StreamPiece(c)
  BY <1>0, <1>9 DEF StreamPiece, PieceWritten, Asked, Offered, Passed, Aimed, Told
<1>10. CASE StreamEnds(c)
  BY <1>0, <1>10 DEF StreamEnds, EndWritten, Asked, Offered, Passed, Aimed, Told
<1>11. CASE StreamFails(c)
  <2>1. CASE UNCHANGED <<sent, got, ended>>
    BY <1>0, <1>11, <2>1 DEF StreamFails, Asked, Offered, Passed, Aimed, Told
  <2>2. CASE PieceWritten(c)
    <3>1. /\ sent[c] <= got[c] /\ got[c] <= req[c].doc /\ sent[c] < req[c].doc
          /\ req[c].doc \in Nat /\ ~ended[c] /\ verdict[c] = "none"
      BY <1>0, <1>11, <2>2 DEF StreamFails, PieceWritten, Passed
    <3>2. /\ sent'[c] = sent[c] + 1 /\ sent'[c] <= got'[c] /\ got'[c] <= req[c].doc
          /\ ended'[c] => sent'[c] = req[c].doc
      BY <2>2, <3>1 DEF PieceWritten
    <3>3. /\ sent' \in [Conns -> Nat] /\ got' \in [Conns -> Nat] /\ ended' \in [Conns -> BOOLEAN]
          /\ \A d \in Conns \ {c} : sent'[d] = sent[d] /\ got'[d] = got[d] /\ ended'[d] = ended[d]
      BY <2>2, <3>1 DEF PieceWritten
    <3>4. /\ pc' = [pc EXCEPT ![c] = "done"] /\ answer' = [answer EXCEPT ![c] = "error"]
          /\ UNCHANGED <<req, snap, opened, verdict, jobOf, target>>
          /\ pc[c] = "stream"
      BY <1>11 DEF StreamFails
    <3>5. HandlerTypes'
      BY <3>3, <3>4
    <3>6. Asked(c)' /\ Offered(c)' /\ Passed(c)' /\ Aimed(c)' /\ Told(c)'
      BY <3>1, <3>2, <3>3, <3>4 DEF Asked, Offered, Passed, Aimed, Told
    <3>7. ASSUME NEW d \in Conns \ {c}
          PROVE  Asked(d)' /\ Offered(d)' /\ Passed(d)' /\ Aimed(d)' /\ Told(d)'
      BY <3>3, <3>4 DEF Asked, Offered, Passed, Aimed, Told
    <3> QED BY <3>5, <3>6, <3>7
  <2>3. CASE EndWritten(c)
    BY <1>0, <1>11, <2>3 DEF StreamFails, EndWritten, Asked, Offered, Passed, Aimed, Told
  <2> QED BY <1>11, <2>1, <2>2, <2>3 DEF StreamFails
<1>12. CASE ResponseArrives(c)
  BY <1>0, <1>12 DEF ResponseArrives, Asked, Offered, Passed, Aimed, Told
<1>13. CASE ResponseFails(c)
  BY <1>0, <1>13 DEF ResponseFails, Asked, Offered, Passed, Aimed, Told
<1>14. CASE TranslateResponse(c)
  BY <1>0, <1>14 DEF TranslateResponse, RefreshTarget, Asked, Offered, Passed, Aimed, Told
<1>15. CASE TranslateFails(c)
  BY <1>0, <1>15 DEF TranslateFails, RefreshTarget, Asked, Offered, Passed, Aimed, Told
<1> QED
  BY <1>1, <1>2, <1>3, <1>4, <1>5, <1>7, <1>8, <1>9, <1>10, <1>11, <1>12, <1>13, <1>14, <1>15
     DEF Handler

(* The steps of the others: they touch a handler's state only where it     *)
(* connects, where the printer decides, and where a printer is selected.   *)
LEMMA SurroundingsStep ==
  ASSUME HandlerInv, [Next]_vars, \A c \in Conns : ~Handler(c)
  PROVE  HandlerInv'
<1> USE DEF HandlerInv, HandlerTypes
<1>1. ASSUME NEW c \in Conns, ClientConnects(c) PROVE HandlerInv'
  <2>1. PICK r \in Requests : req' = [req EXCEPT ![c] = r]
    BY <1>1 DEF ClientConnects
  <2>2. r.doc \in Nat
    BY ProxyAssumption DEF RequestType
  <2> QED
    BY <1>1, <2>1, <2>2 DEF ClientConnects, Steps, Asked, Offered, Passed, Aimed, Told
<1>2. ASSUME NEW c \in Conns, PrinterDecides(c) PROVE HandlerInv'
  <2>1. jobOf' \in [Conns -> UpJobs \cup {NoJob}]
    BY <1>2 DEF PrinterDecides
  <2>2. \E v \in {"accepted", "refused"} : verdict' = [verdict EXCEPT ![c] = v]
    BY <1>2 DEF PrinterDecides
  <2>3. ended[c] /\ verdict[c] = "none"
    BY <1>2 DEF PrinterDecides
  <2>4. UNCHANGED <<req, pc, snap, got, opened, sent, ended, answer, target>>
    BY <1>2 DEF PrinterDecides
  <2> QED BY <2>1, <2>2, <2>3, <2>4 DEF Asked, Offered, Passed, Aimed, Told
<1>3. ASSUME UNCHANGED handlerVars, target' \in Printers \cup {NoTarget} PROVE HandlerInv'
  BY <1>3 DEF handlerVars, Asked, Offered, Passed, Aimed, Told
<1>4. ASSUME NEW c \in Conns, WorkerCloses(c) \/ WorkerEnds(c) PROVE HandlerInv'
  BY <1>3, <1>4 DEF WorkerCloses, WorkerEnds
<1>5. CASE Accepting \/ JobPage \/ Tick
  BY <1>3, <1>5 DEF Accepting, JobPage, Tick
<1>6. CASE UserSelects
  BY <1>3, <1>6 DEF UserSelects
<1>7. CASE UNCHANGED vars
  BY <1>3, <1>7 DEF vars
<1> QED BY <1>1, <1>2, <1>4, <1>5, <1>6, <1>7 DEF Next

LEMMA HandlerInvStep == HandlerInv /\ [Next]_vars => HandlerInv'
<1> SUFFICES ASSUME HandlerInv, [Next]_vars PROVE HandlerInv'
  OBVIOUS
<1>1. CASE \E c \in Conns : Handler(c)
  BY <1>1, HandlerStep
<1>2. CASE \A c \in Conns : ~Handler(c)
  BY <1>2, SurroundingsStep
<1> QED BY <1>1, <1>2

LEMMA HandlerInvAlways == Safety => []HandlerInv
  BY HandlerInit, HandlerInvStep, PTL DEF Safety

(* proxy_handler() offers a request to the printer at most once, whatever  *)
(* fails on either side and however late.                                  *)
THEOREM DeliveryOnce == Safety => []DeliveredAtMostOnce
<1>1. HandlerInv => DeliveredAtMostOnce
  BY DEF HandlerInv, Offered, DeliveredAtMostOnce
<1> QED BY <1>1, HandlerInvAlways, PTL

(* The printer never takes a part of a document for the whole: the end of  *)
(* the body, a last chunk or the announced length, is written only after   *)
(* every piece, in each of the three ways proxy_handler() relays one.      *)
THEOREM DeliveryWhole == Safety => []NoTruncatedDocument
<1>1. HandlerInv => NoTruncatedDocument
  BY DEF HandlerInv, Passed, NoTruncatedDocument
<1> QED BY <1>1, HandlerInvAlways, PTL

(* A client that is told of success has had its complete document accepted *)
(* by the printer it was meant for: no path through proxy_handler() makes  *)
(* a success up.                                                           *)
THEOREM SuccessIsEarned == Safety => []SuccessIsReal
<1>1. HandlerInv => SuccessIsReal
  BY DEF HandlerInv, HandlerTypes, Passed, Told, SuccessIsReal
<1> QED BY <1>1, HandlerInvAlways, PTL

----------------------------------------------------------------------------
(* The job records: the log stays well formed under the calls of the       *)
(* handlers, the final states it shows are true, and no record is left     *)
(* behind as "sending".                                                    *)

MonInv == LogInv /\ mon \in [Conns -> Nat]

(* The two ways in which most steps treat the log.                         *)
LEMMA LogLeftAlone ==
  ASSUME MonInv, UNCHANGED <<logVars, mon>>
  PROVE  MonInv'
  BY DEF MonInv, LogInv, LogTypeOK, LogWellFormed, logVars

LEMMA LogFailed ==
  ASSUME MonInv, NEW c \in Conns, SubmissionFailed(c), UNCHANGED <<lastId, now, mon>>
  PROVE  MonInv'
<1>1. CASE req[c].op \in Submissions
  <2>1. LogUpdate(mon[c], "FAILED") /\ "FAILED" \in JobStates
    BY <1>1 DEF SubmissionFailed, LogUpdate, JobStates
  <2> QED BY <2>1, UpdateLog DEF MonInv
<1>2. CASE req[c].op \notin Submissions
  <2>1. UNCHANGED <<logVars, mon>>
    BY <1>2 DEF SubmissionFailed, logVars
  <2> QED BY <2>1, LogLeftAlone
<1> QED BY <1>1, <1>2

LEMMA MonitorStartInv ==
  ASSUME MonInv, HandlerInv, NEW c \in Conns, req[c] \in Requests, MonitorStart(c), now' = now
  PROVE  MonInv'
<1> DEFINE r == req[c]
           found == IF r.op \in {"Send-Document", "Cancel-Job"} THEN FindUpstream(log, r.job) ELSE 0
           begins == r.op \in {"Print-Job", "Create-Job"} \/ (r.op = "Send-Document" /\ found = 0)
<1>1. found \in Nat
  BY FoundIsId DEF MonInv
<1>2. r.job \in UpJobs \cup {NoJob}
  BY ProxyAssumption DEF RequestType
<1>3. CASE begins
  <2>1. PICK state \in JobStates, job \in UpJobs \cup {NoJob} :
          log' = Begun(log, lastId + 1, state, job, now)
    BY <1>2, <1>3 DEF MonitorStart, JobStates
  <2>2. lastId' = lastId + 1 /\ mon' = [mon EXCEPT ![c] = lastId + 1]
    BY <1>3 DEF MonitorStart
  <2>3. LogInv'
    BY <2>1, <2>2, BeginLog DEF MonInv
  <2>4. mon' \in [Conns -> Nat]
    BY <2>2 DEF MonInv, LogInv, LogTypeOK
  <2> QED BY <2>3, <2>4 DEF MonInv
<1>4. CASE ~begins
  <2>1. mon' = [mon EXCEPT ![c] = found] /\ lastId' = lastId
    BY <1>4 DEF MonitorStart
  <2>2. mon' \in [Conns -> Nat]
    BY <1>1, <2>1 DEF MonInv
  <2>3. CASE r.op = "Send-Document"
    <3>1. LogUpdate(found, "SENDING") /\ "SENDING" \in JobStates
      BY <1>4, <2>1, <2>3 DEF MonitorStart, LogUpdate, JobStates
    <3> QED BY <2>2, <3>1, UpdateLog DEF MonInv
  <2>4. CASE r.op # "Send-Document"
    <3>1. log' = log
      BY <1>4, <2>4 DEF MonitorStart
    <3> QED BY <2>1, <2>2, <3>1 DEF MonInv, LogInv, LogTypeOK, LogWellFormed
  <2> QED BY <2>3, <2>4
<1> QED BY <1>3, <1>4

(* What MonitorOutcome does to the log, case by case.                      *)
LEMMA Outcomes ==
  ASSUME HandlerInv, NEW c \in Conns, MonitorOutcome(c)
  PROVE  \/ verdict[c] # "accepted" /\ SubmissionFailed(c)
         \/ Completes(c) /\ log' = Updated(log, mon[c], "COMPLETED", now)
         \/ Cancels(c) /\ log' = Updated(log, mon[c], "CANCELLED", now)
         \/ /\ verdict[c] = "accepted" /\ req[c].op = "Send-Document"
            /\ log' = Updated(log, mon[c], "QUEUED", now)
         \/ /\ req[c].op = "Create-Job" /\ jobOf[c] \in UpJobs
            /\ log' = Attached(log, mon[c], jobOf[c], now)
         \/ req[c].op \notin DocumentOps /\ log' = log
<1>1. CASE verdict[c] # "accepted"
  BY <1>1 DEF MonitorOutcome
<1>2. CASE verdict[c] = "accepted" /\ req[c].op = "Print-Job"
  BY <1>2 DEF MonitorOutcome, Completes
<1>3. CASE verdict[c] = "accepted" /\ req[c].op = "Create-Job"
  BY <1>3 DEF MonitorOutcome, HandlerInv, HandlerTypes, DocumentOps
<1>4. CASE verdict[c] = "accepted" /\ req[c].op = "Send-Document"
  BY <1>4 DEF MonitorOutcome, Completes
<1>5. CASE verdict[c] = "accepted" /\ req[c].op = "Cancel-Job"
  BY <1>5 DEF MonitorOutcome, Cancels
<1>6. CASE /\ verdict[c] = "accepted"
           /\ req[c].op \notin {"Print-Job", "Create-Job", "Send-Document", "Cancel-Job"}
  BY <1>6 DEF MonitorOutcome, DocumentOps
<1> QED BY <1>1, <1>2, <1>3, <1>4, <1>5, <1>6

LEMMA MonitorOutcomeInv ==
  ASSUME MonInv, HandlerInv, NEW c \in Conns, MonitorOutcome(c), UNCHANGED <<lastId, now, mon>>
  PROVE  MonInv'
<1>1. ASSUME NEW state \in {"COMPLETED", "CANCELLED", "QUEUED"}, log' = Updated(log, mon[c], state, now)
      PROVE  MonInv'
  <2>1. LogUpdate(mon[c], state) /\ state \in JobStates
    BY <1>1 DEF LogUpdate, JobStates
  <2> QED BY <2>1, UpdateLog DEF MonInv
<1>2. ASSUME jobOf[c] \in UpJobs, log' = Attached(log, mon[c], jobOf[c], now) PROVE MonInv'
  <2>1. LogAttach(mon[c], jobOf[c])
    BY <1>2 DEF LogAttach
  <2> QED BY <1>2, <2>1, AttachLog DEF MonInv
<1>3. ASSUME log' = log PROVE MonInv'
  BY <1>3, LogLeftAlone DEF logVars
<1> QED BY <1>1, <1>2, <1>3, LogFailed, Outcomes

LEMMA MonStep == MonInv /\ HandlerInv /\ [Next]_vars => MonInv'
<1> SUFFICES ASSUME MonInv, HandlerInv, [Next]_vars PROVE MonInv'
  OBVIOUS
<1>1. ASSUME NEW c \in Conns, Handler(c) PROVE MonInv'
  <2>1. CASE OpenRequest(c) \/ ReceiveFails(c) \/ LengthRejects(c) \/ OpenUpstream(c)
             \/ StreamPiece(c) \/ StreamEnds(c) \/ TranslateResponse(c)
    BY <2>1, LogLeftAlone DEF OpenRequest, ReceiveFails, LengthRejects, OpenUpstream,
       StreamPiece, StreamEnds, TranslateResponse
  <2>2. CASE PlanRejects(c) \/ OpenUpstreamFails(c) \/ StreamFails(c) \/ ResponseFails(c)
    BY <2>2, LogFailed DEF PlanRejects, OpenUpstreamFails, StreamFails, ResponseFails
  <2>3. CASE ReceiveAttributes(c)
    <3>1. req[c] \in Requests
      BY <2>3 DEF ReceiveAttributes, Serving, HandlerInv, Asked
    <3> QED BY <2>3, <3>1, MonitorStartInv DEF ReceiveAttributes
  <2>4. CASE ResponseArrives(c)
    BY <2>4, MonitorOutcomeInv DEF ResponseArrives
  <2>5. CASE TranslateFails(c)
    <3>1. (LogUpdate(mon[c], "FAILED") \/ UNCHANGED logVars) /\ mon' = mon /\ "FAILED" \in JobStates
      BY <2>5 DEF TranslateFails, LogUpdate, logVars, JobStates
    <3> QED BY <3>1, UpdateLog, LogLeftAlone DEF MonInv
  <2> QED BY <1>1, <2>1, <2>2, <2>3, <2>4, <2>5 DEF Handler
<1>2. ASSUME NEW c \in Conns,
             ClientConnects(c) \/ PrinterDecides(c) \/ WorkerCloses(c) \/ WorkerEnds(c)
      PROVE  MonInv'
  BY <1>2, LogLeftAlone DEF ClientConnects, PrinterDecides, WorkerCloses, WorkerEnds, handlerVars
<1>3. CASE Accepting \/ UserSelects \/ UNCHANGED vars
  BY <1>3, LogLeftAlone DEF Accepting, UserSelects, vars, handlerVars
<1>4. CASE JobPage
  BY <1>4, PruneLog DEF JobPage, handlerVars, MonInv
<1>5. CASE Tick
  BY <1>5, TickLog DEF Tick, handlerVars, MonInv
<1> QED BY <1>1, <1>2, <1>3, <1>4, <1>5 DEF Next

LEMMA MonInit == Init => MonInv
  BY LogInitInv DEF Init, MonInv

(* Every variable of the proxy keeps its type.                             *)
THEOREM ProxyTypes == Safety => []TypeOK
<1>1. ServerTypeOK /\ HandlerInv /\ MonInv => TypeOK
  BY DEF HandlerInv, HandlerTypes, MonInv, LogInv, TypeOK
<1>2. Safety => []MonInv
  BY MonInit, MonStep, HandlerInvAlways, PTL DEF Safety
<1> QED
  BY <1>1, <1>2, HandlerInvAlways, ServerCorrect, ProxyImplementsServer, PTL DEF ImplementsServer

(* The job page's log stays within its array and an id names one record,   *)
(* however the requests of several workers and the job page interleave.    *)
THEOREM ProxyLogWellFormed == Safety => []LogWellFormed
<1>1. MonInv => LogWellFormed
  BY DEF MonInv, LogInv
<1> QED BY <1>1, MonInit, MonStep, HandlerInvAlways, PTL DEF Safety

----------------------------------------------------------------------------
(* What was decided about a request stays decided, and its record is the   *)
(* one it had: a record's witness is never lost.                           *)

LEMMA Decided ==
  ASSUME HandlerInv, [Next]_vars, NEW d \in Conns,
         verdict[d] # "none" \/ answer[d] = "error"
  PROVE  /\ req'[d] = req[d] /\ mon'[d] = mon[d]
         /\ verdict[d] # "none" => verdict'[d] = verdict[d]
         /\ answer[d] = "error" => answer'[d] = "error"
<1>1. pc[d] \notin {"new", "open", "receive", "plan"}
  BY DEF HandlerInv, Offered, Passed
<1>2. answer[d] = "error" => pc[d] = "done"
  BY <1>1 DEF HandlerInv, HandlerTypes, Steps, Offered
<1> USE DEF HandlerInv, HandlerTypes
<1>3. ASSUME NEW c \in Conns, Handler(c) PROVE UNCHANGED <<req, verdict>>
  BY <1>3 DEF Handler, OpenRequest, ReceiveFails, ReceiveAttributes, PlanRejects,
     LengthRejects, OpenUpstream, OpenUpstreamFails, Relayed, StreamPiece, StreamEnds, StreamFails,
     ResponseArrives, ResponseFails, TranslateResponse, TranslateFails
<1>4. ASSUME NEW c \in Conns, Handler(c) PROVE pc[c] # "done" /\ \A e \in Conns \ {c} : answer'[e] = answer[e]
  BY <1>4 DEF Handler, OpenRequest, ReceiveFails, ReceiveAttributes, PlanRejects,
     LengthRejects, OpenUpstream, OpenUpstreamFails, Relayed, StreamPiece, StreamEnds, StreamFails,
     ResponseArrives, ResponseFails, TranslateResponse, TranslateFails, Serving, Answer
<1>5. ASSUME NEW c \in Conns, Handler(c) PROVE mon'[d] = mon[d]
  <2>1. CASE ReceiveAttributes(c)
    <3>1. c # d /\ \E n : mon' = [mon EXCEPT ![c] = n]
      BY <1>1, <2>1 DEF ReceiveAttributes, Serving, MonitorStart
    <3> QED BY <3>1
  <2> QED
    BY <1>5, <2>1 DEF Handler, OpenRequest, ReceiveFails, PlanRejects,
     LengthRejects, OpenUpstream, OpenUpstreamFails, StreamPiece, StreamEnds, StreamFails,
     ResponseArrives, ResponseFails, TranslateResponse, TranslateFails
<1>6. ASSUME NEW c \in Conns, Handler(c)
      PROVE  /\ req'[d] = req[d] /\ mon'[d] = mon[d] /\ verdict'[d] = verdict[d]
             /\ answer[d] = "error" => answer'[d] = "error"
  BY <1>2, <1>3, <1>4, <1>5, <1>6
<1>7. ASSUME NEW c \in Conns, ClientConnects(c)
      PROVE  req'[d] = req[d] /\ mon' = mon /\ verdict' = verdict /\ answer' = answer
  BY <1>1, <1>7 DEF ClientConnects
<1>8. ASSUME NEW c \in Conns, PrinterDecides(c)
      PROVE  req' = req /\ mon' = mon /\ answer' = answer /\ (verdict[d] # "none" => verdict'[d] = verdict[d])
  BY <1>8 DEF PrinterDecides
<1>9. ASSUME NEW c \in Conns, WorkerCloses(c) \/ WorkerEnds(c) PROVE UNCHANGED handlerVars
  BY <1>9 DEF WorkerCloses, WorkerEnds
<1>10. CASE Accepting \/ UserSelects \/ JobPage \/ Tick \/ UNCHANGED vars
  BY <1>10 DEF Accepting, UserSelects, JobPage, Tick, vars, handlerVars
<1> QED BY <1>6, <1>7, <1>8, <1>9, <1>10 DEF Next, handlerVars

(* Only submissions and cancellations are about a record.                  *)
RecordUse ==
  \A c \in Conns :
    /\ pc[c] \in {"new", "open", "receive"} => mon[c] = 0
    /\ mon[c] # 0 => req[c].op \in Submissions \cup {"Cancel-Job"}

LEMMA RecordUseStep == MonInv /\ HandlerInv /\ RecordUse /\ [Next]_vars => RecordUse'
<1> SUFFICES ASSUME MonInv, HandlerInv, RecordUse, [Next]_vars PROVE RecordUse'
  OBVIOUS
<1> USE DEF HandlerInv, HandlerTypes, MonInv
<1>1. ASSUME NEW c \in Conns, ReceiveAttributes(c) PROVE RecordUse'
  <2>1. PICK n : mon' = [mon EXCEPT ![c] = n]
    BY <1>1 DEF ReceiveAttributes, MonitorStart
  <2>2. n # 0 => req[c].op \in Submissions \cup {"Cancel-Job"}
    BY <1>1, <2>1 DEF ReceiveAttributes, MonitorStart, Submissions
  <2> QED BY <1>1, <2>1, <2>2 DEF ReceiveAttributes, RecordUse
<1>2. ASSUME NEW c \in Conns, Handler(c), ~ReceiveAttributes(c) PROVE RecordUse'
  <2>1. UNCHANGED <<req, mon>>
    BY <1>2 DEF Handler, OpenRequest, ReceiveFails, PlanRejects, LengthRejects, OpenUpstream,
       OpenUpstreamFails, StreamPiece, StreamEnds, StreamFails, ResponseArrives, ResponseFails,
       TranslateResponse, TranslateFails
  <2>2. \A d \in Conns : pc'[d] \in {"new", "open", "receive"} => pc[d] \in {"new", "open", "receive"}
    BY <1>2 DEF Handler, OpenRequest, ReceiveFails, PlanRejects, LengthRejects, OpenUpstream,
       OpenUpstreamFails, Relayed, StreamPiece, StreamEnds, StreamFails, ResponseArrives,
       ResponseFails, TranslateResponse, TranslateFails, Serving, Answer
  <2> QED BY <2>1, <2>2 DEF RecordUse
<1>3. ASSUME NEW c \in Conns, ClientConnects(c) PROVE RecordUse'
  BY <1>3 DEF ClientConnects, RecordUse
<1>4. ASSUME UNCHANGED <<req, mon, pc>> PROVE RecordUse'
  BY <1>4 DEF RecordUse
<1>5. ASSUME NEW c \in Conns, PrinterDecides(c) \/ WorkerCloses(c) \/ WorkerEnds(c)
      PROVE  RecordUse'
  BY <1>4, <1>5 DEF PrinterDecides, WorkerCloses, WorkerEnds, handlerVars
<1>6. CASE Accepting \/ UserSelects \/ JobPage \/ Tick \/ UNCHANGED vars
  BY <1>4, <1>6 DEF Accepting, UserSelects, JobPage, Tick, vars, handlerVars
<1> QED BY <1>1, <1>2, <1>3, <1>5, <1>6 DEF Next

(* A record as it was, or in a state that claims nothing.                  *)
Kept(q) == \E r \in log : r.id = q.id /\ r.state = q.state
Open(q) == q.state \in {"QUEUED", "SENDING"}

(* A record of the new log is an old one, claims nothing, or was put into  *)
(* its state by the request that witnesses it.                             *)
Witnessed(q) ==
  \E c \in Conns :
    /\ mon'[c] = q.id
    /\ \/ q.state = "COMPLETED" /\ Completes(c)'
       \/ q.state = "CANCELLED" /\ Cancels(c)'
       \/ q.state = "FAILED" /\ Fails(c)'

LEMMA FailedRecords ==
  ASSUME MonInv, NEW c \in Conns, SubmissionFailed(c), UNCHANGED <<mon, req, verdict>>,
         answer'[c] = "error" \/ verdict[c] = "refused", NEW q \in log'
  PROVE  Kept(q) \/ Witnessed(q)
<1>1. CASE req[c].op \in Submissions
  <2>1. q \in Updated(log, mon[c], "FAILED", now) /\ "FAILED" \in JobStates
    BY <1>1 DEF SubmissionFailed, JobStates
  <2>2. q \in log \/ (q.id = mon[c] /\ q.state = "FAILED")
    BY <2>1, UpdatedRecords DEF MonInv
  <2> QED BY <1>1, <2>2 DEF Kept, Witnessed, Fails
<1>2. CASE req[c].op \notin Submissions
  BY <1>2 DEF SubmissionFailed, Kept
<1> QED BY <1>1, <1>2

LEMMA RecordsStep ==
  ASSUME MonInv, HandlerInv, RecordUse, [Next]_vars, MonInv', NEW q \in log'
  PROVE  Kept(q) \/ Open(q) \/ Witnessed(q)
<1>1. ASSUME log' \subseteq log PROVE Kept(q)
  BY <1>1 DEF Kept
<1>2. ASSUME NEW c \in Conns, Handler(c) PROVE Kept(q) \/ Open(q) \/ Witnessed(q)
  <2>1. CASE OpenRequest(c) \/ ReceiveFails(c) \/ LengthRejects(c) \/ OpenUpstream(c)
             \/ StreamPiece(c) \/ StreamEnds(c) \/ TranslateResponse(c)
    BY <1>1, <2>1 DEF OpenRequest, ReceiveFails, LengthRejects, OpenUpstream,
       StreamPiece, StreamEnds, TranslateResponse, logVars
  <2>2. CASE PlanRejects(c) \/ OpenUpstreamFails(c) \/ StreamFails(c) \/ ResponseFails(c)
    <3>1. SubmissionFailed(c) /\ UNCHANGED <<mon, req, verdict>>
      BY <2>2 DEF PlanRejects, OpenUpstreamFails, StreamFails, ResponseFails
    <3>2. answer'[c] = "error"
      BY <2>2 DEF PlanRejects, OpenUpstreamFails, StreamFails, ResponseFails, Answer,
         HandlerInv, HandlerTypes
    <3> QED BY <3>1, <3>2, FailedRecords
  <2>3. CASE ReceiveAttributes(c)
    <3>1. \/ \E state \in {"QUEUED", "SENDING"} : \E job :
               log' = Begun(log, lastId + 1, state, job, now)
          \/ \E id : log' = Updated(log, id, "SENDING", now)
          \/ log' = log
      BY <2>3 DEF ReceiveAttributes, MonitorStart
    <3>2. ASSUME NEW state \in {"QUEUED", "SENDING"}, NEW job,
                 log' = Begun(log, lastId + 1, state, job, now)
          PROVE  Kept(q) \/ Open(q)
      <4>1. q \in log \/ q.state = state
        BY <3>2, BegunRecords
      <4> QED BY <4>1 DEF Kept, Open
    <3>3. ASSUME NEW id, log' = Updated(log, id, "SENDING", now) PROVE Kept(q) \/ Open(q)
      <4>1. "SENDING" \in JobStates
        BY DEF JobStates
      <4>2. q \in log \/ q.state = "SENDING"
        BY <3>3, <4>1, UpdatedRecords DEF MonInv
      <4> QED BY <4>2 DEF Kept, Open
    <3> QED BY <1>1, <3>1, <3>2, <3>3
  <2>4. CASE ResponseArrives(c)
    <3>1. MonitorOutcome(c) /\ UNCHANGED <<lastId, now, mon, req, verdict, answer>> /\ verdict[c] # "none"
      BY <2>4 DEF ResponseArrives
    <3>2. ASSUME NEW state \in JobStates, log' = Updated(log, mon[c], state, now)
          PROVE  q \in log \/ (q.id = mon[c] /\ q.state = state)
      BY <3>2, UpdatedRecords DEF MonInv
    <3>3. {"COMPLETED", "CANCELLED", "QUEUED"} \subseteq JobStates
      BY DEF JobStates
    <3>4. CASE verdict[c] # "accepted" /\ SubmissionFailed(c)
      <4>1. verdict[c] = "refused"
        BY <3>1, <3>4 DEF HandlerInv, HandlerTypes
      <4> QED BY <3>1, <3>4, <4>1, FailedRecords
    <3>5. CASE Completes(c) /\ log' = Updated(log, mon[c], "COMPLETED", now)
      BY <3>1, <3>2, <3>3, <3>5 DEF Kept, Witnessed, Completes
    <3>6. CASE Cancels(c) /\ log' = Updated(log, mon[c], "CANCELLED", now)
      BY <3>1, <3>2, <3>3, <3>6 DEF Kept, Witnessed, Cancels
    <3>7. CASE log' = Updated(log, mon[c], "QUEUED", now)
      BY <3>2, <3>3, <3>7 DEF Kept, Open
    <3>8. CASE jobOf[c] \in UpJobs /\ log' = Attached(log, mon[c], jobOf[c], now)
      BY <3>8, AttachedRecords DEF MonInv, Kept
    <3>9. CASE log' = log
      BY <1>1, <3>9
    <3> QED BY <3>1, <3>4, <3>5, <3>6, <3>7, <3>8, <3>9, Outcomes
  <2>5. CASE TranslateFails(c)
    <3>1. \/ log' = log
          \/ /\ verdict[c] = "accepted" /\ req[c].op \notin (DocumentOps \cup {"Cancel-Job"})
             /\ log' = Updated(log, mon[c], "FAILED", now)
      BY <2>5 DEF TranslateFails
    <3>2. answer'[c] = "error" /\ UNCHANGED <<mon, req, verdict>>
      BY <2>5 DEF TranslateFails, Answer, HandlerInv, HandlerTypes
    <3>3. q \in Updated(log, mon[c], "FAILED", now) => q \in log \/ (q.id = mon[c] /\ q.state = "FAILED")
      <4>1. "FAILED" \in JobStates
        BY DEF JobStates
      <4> QED BY <4>1, UpdatedRecords DEF MonInv
    <3>4. q.id # 0
      BY DEF MonInv, LogInv, LogTypeOK, Records
    <3>5. q.id = mon[c] => req[c].op \in Submissions \cup {"Cancel-Job"}
      BY <3>4 DEF RecordUse
    <3> QED BY <1>1, <3>1, <3>2, <3>3, <3>5 DEF Kept, Witnessed, Fails
  <2> QED BY <1>2, <2>1, <2>2, <2>3, <2>4, <2>5 DEF Handler
<1>3. ASSUME NEW c \in Conns,
             ClientConnects(c) \/ PrinterDecides(c) \/ WorkerCloses(c) \/ WorkerEnds(c)
      PROVE  log' = log
  BY <1>3 DEF ClientConnects, PrinterDecides, WorkerCloses, WorkerEnds, logVars
<1>4. CASE Accepting \/ UserSelects \/ Tick \/ UNCHANGED vars
  BY <1>1, <1>4 DEF Accepting, UserSelects, Tick, LogTick, vars, logVars
<1>5. CASE JobPage
  BY <1>1, <1>5 DEF JobPage, LogSnapshot, Pruned
<1> QED BY <1>1, <1>2, <1>3, <1>4, <1>5 DEF Next

LEMMA TruthStep ==
  MonInv /\ HandlerInv /\ RecordUse /\ LogTellsTruth /\ [Next]_vars => LogTellsTruth'
<1> SUFFICES ASSUME MonInv, HandlerInv, RecordUse, LogTellsTruth, [Next]_vars, NEW q \in log'
             PROVE  /\ q.state = "COMPLETED" => \E c \in Conns : mon'[c] = q.id /\ Completes(c)'
                    /\ q.state = "CANCELLED" => \E c \in Conns : mon'[c] = q.id /\ Cancels(c)'
                    /\ q.state = "FAILED" => \E c \in Conns : mon'[c] = q.id /\ Fails(c)'
  BY DEF LogTellsTruth
<1>1. \A c \in Conns : Completes(c) => mon'[c] = mon[c] /\ Completes(c)'
  BY Decided DEF Completes
<1>2. \A c \in Conns : Cancels(c) => mon'[c] = mon[c] /\ Cancels(c)'
  BY Decided DEF Cancels
<1>3. \A c \in Conns : Fails(c) => mon'[c] = mon[c] /\ Fails(c)'
  BY Decided DEF Fails
<1>4. CASE Kept(q)
  BY <1>1, <1>2, <1>3, <1>4 DEF Kept, LogTellsTruth
<1>5. CASE Open(q)
  BY <1>5 DEF Open
<1>6. CASE Witnessed(q)
  BY <1>6 DEF Witnessed
<1> QED BY <1>4, <1>5, <1>6, RecordsStep, MonStep

(* A job that the page shows as completed, cancelled or failed really was, *)
(* for any number of workers, records and requests of one job, in any      *)
(* order of their responses.                                               *)
THEOREM JobPageTellsTruth == Safety => []LogTellsTruth
<1>1. Init => RecordUse /\ LogTellsTruth
  BY DEF Init, LogInit, RecordUse, LogTellsTruth
<1> QED
  BY <1>1, MonInit, MonStep, RecordUseStep, TruthStep, HandlerInvAlways, PTL DEF Safety

----------------------------------------------------------------------------
(* A record that says "sending" belongs to a request that carries a        *)
(* document: a cancellation in flight would not be enough, since it leaves *)
(* the record alone when the printer refuses it.                           *)

Sends(c) == req[c].op \in DocumentOps /\ (InFlight(c) \/ LengthRejected(c))

SendingInv ==
  \A r \in log : r.state = "SENDING" => \E c \in Conns : mon[c] = r.id /\ Sends(c)

(* The steps of another connection do not end it.                          *)
LEMMA SendsOn ==
  ASSUME HandlerInv, NEW c \in Conns, NEW d \in Conns \ {c}, Handler(c), Sends(d)
  PROVE  mon'[d] = mon[d] /\ Sends(d)'
<1> USE DEF HandlerInv, HandlerTypes
<1>1. req' = req
  BY DEF Handler, OpenRequest, ReceiveFails, ReceiveAttributes, PlanRejects,
     LengthRejects, OpenUpstream, OpenUpstreamFails, StreamPiece, StreamEnds, StreamFails,
     ResponseArrives, ResponseFails, TranslateResponse, TranslateFails
<1>2. pc'[d] = pc[d] /\ opened'[d] = opened[d]
  BY DEF Handler, OpenRequest, ReceiveFails, ReceiveAttributes, PlanRejects,
     LengthRejects, OpenUpstream, OpenUpstreamFails, Relayed, StreamPiece, StreamEnds, StreamFails,
     ResponseArrives, ResponseFails, TranslateResponse, TranslateFails, Answer
<1>3. mon'[d] = mon[d]
  <2>1. CASE ReceiveAttributes(c)
    <3>1. \E n : mon' = [mon EXCEPT ![c] = n]
      BY <2>1 DEF ReceiveAttributes, MonitorStart
    <3> QED BY <3>1
  <2> QED
    BY <2>1 DEF Handler, OpenRequest, ReceiveFails, PlanRejects,
       LengthRejects, OpenUpstream, OpenUpstreamFails, StreamPiece, StreamEnds, StreamFails,
       ResponseArrives, ResponseFails, TranslateResponse, TranslateFails
<1> QED BY <1>1, <1>2, <1>3 DEF Sends, InFlight, LengthRejected

(* A request that stops sending takes the record out of "sending".         *)
LEMMA StopsSending ==
  ASSUME MonInv, HandlerInv, NEW c \in Conns, Handler(c), Sends(c),
         NEW q \in log', q.state = "SENDING", q.id = mon[c]
  PROVE  mon'[c] = mon[c] /\ Sends(c)'
<1> USE DEF HandlerInv, HandlerTypes
<1>1. pc[c] \in {"plan", "stream", "await", "done"} /\ req[c].op \in DocumentOps
  BY DEF Sends, InFlight, LengthRejected
<1>2. req[c].op \in Submissions
  BY <1>1 DEF DocumentOps, Submissions
<1>3. ASSUME NEW state \in JobStates, state # "SENDING", log' = Updated(log, mon[c], state, now)
      PROVE  FALSE
  BY <1>3, UpdatedRecords DEF MonInv
<1>4. {"FAILED", "COMPLETED", "QUEUED", "CANCELLED"} \subseteq JobStates
  BY DEF JobStates
<1>5. ASSUME SubmissionFailed(c) PROVE FALSE
  BY <1>2, <1>3, <1>4, <1>5 DEF SubmissionFailed
<1>6. CASE LengthRejects(c)
  <2>1. pc[c] = "plan" /\ opened[c] = 0
    BY <1>6 DEF LengthRejects, Serving, Offered
  <2> QED
    BY <1>1, <1>6, <2>1 DEF LengthRejects, Answer, Sends, LengthRejected
<1>7. CASE OpenUpstream(c) \/ StreamPiece(c) \/ StreamEnds(c)
  BY <1>1, <1>7 DEF OpenUpstream, StreamPiece, StreamEnds, Relayed, Serving, Sends, InFlight
<1>8. CASE PlanRejects(c) \/ OpenUpstreamFails(c) \/ StreamFails(c) \/ ResponseFails(c)
  BY <1>5, <1>8 DEF PlanRejects, OpenUpstreamFails, StreamFails, ResponseFails
<1>9. CASE ResponseArrives(c)
  <2>1. MonitorOutcome(c)
    BY <1>9 DEF ResponseArrives
  <2>2. req[c].op # "Create-Job"
    BY <1>1 DEF DocumentOps
  <2> QED BY <1>1, <1>3, <1>4, <1>5, <2>1, <2>2, Outcomes
<1>10. ~OpenRequest(c) /\ ~ReceiveFails(c) /\ ~ReceiveAttributes(c) /\ ~TranslateResponse(c)
       /\ ~TranslateFails(c)
  BY <1>1 DEF OpenRequest, ReceiveFails, ReceiveAttributes, TranslateResponse, TranslateFails,
     Serving
<1> QED BY <1>6, <1>7, <1>8, <1>9, <1>10 DEF Handler

(* A record comes to say "sending" only by the request that begins to send.*)
LEMMA StartsSending ==
  ASSUME MonInv, HandlerInv, NEW c \in Conns, Handler(c), NEW q \in log', q.state = "SENDING"
  PROVE  Kept(q) \/ (mon'[c] = q.id /\ Sends(c)')
<1>1. CASE ReceiveAttributes(c)
  <2> DEFINE r == req[c]
             found == IF r.op \in {"Send-Document", "Cancel-Job"} THEN FindUpstream(log, r.job) ELSE 0
  <2>1. Sends(c)' <=> r.op \in DocumentOps
    BY <1>1 DEF ReceiveAttributes, Sends, InFlight, LengthRejected, HandlerInv, HandlerTypes
  <2>2. \/ /\ r.op \in DocumentOps /\ mon'[c] = lastId + 1
           /\ \E job : log' = Begun(log, lastId + 1, "SENDING", job, now)
        \/ \E job : log' = Begun(log, lastId + 1, "QUEUED", job, now)
        \/ /\ r.op = "Send-Document" /\ mon'[c] = found
           /\ log' = Updated(log, found, "SENDING", now)
        \/ log' = log
    BY <1>1 DEF ReceiveAttributes, MonitorStart, DocumentOps, MonInv
  <2> HIDE DEF found
  <2>3. CASE /\ r.op \in DocumentOps /\ mon'[c] = lastId + 1
             /\ \E job : log' = Begun(log, lastId + 1, "SENDING", job, now)
    <3>1. q \in log \/ q.id = lastId + 1
      BY <2>3, BegunRecords
    <3> QED BY <2>1, <2>3, <3>1 DEF Kept
  <2>4. CASE \E job : log' = Begun(log, lastId + 1, "QUEUED", job, now)
    <3>1. q \in log \/ q.state = "QUEUED"
      BY <2>4, BegunRecords
    <3> QED BY <3>1 DEF Kept
  <2>5. CASE /\ r.op = "Send-Document" /\ mon'[c] = found
             /\ log' = Updated(log, found, "SENDING", now)
    <3>1. "SENDING" \in JobStates
      BY DEF JobStates
    <3>2. q \in log \/ q.id = found
      BY <2>5, <3>1, UpdatedRecords DEF MonInv
    <3> QED BY <2>1, <2>5, <3>2 DEF Kept, DocumentOps
  <2>6. CASE log' = log
    BY <2>6 DEF Kept
  <2> QED BY <2>2, <2>3, <2>4, <2>5, <2>6
<1>2. ASSUME NEW state \in JobStates, state # "SENDING", log' = Updated(log, mon[c], state, now)
      PROVE  Kept(q)
  <2>1. q \in log
    BY <1>2, UpdatedRecords DEF MonInv
  <2> QED BY <2>1 DEF Kept
<1>3. ASSUME log' = log PROVE Kept(q)
  BY <1>3 DEF Kept
<1>4. {"FAILED", "COMPLETED", "QUEUED", "CANCELLED"} \subseteq JobStates
  BY DEF JobStates
<1>5. ASSUME SubmissionFailed(c) PROVE Kept(q)
  BY <1>2, <1>3, <1>4, <1>5 DEF SubmissionFailed
<1>6. CASE OpenRequest(c) \/ ReceiveFails(c) \/ LengthRejects(c) \/ OpenUpstream(c)
           \/ StreamPiece(c) \/ StreamEnds(c) \/ TranslateResponse(c)
  BY <1>3, <1>6 DEF OpenRequest, ReceiveFails, LengthRejects, OpenUpstream,
     StreamPiece, StreamEnds, TranslateResponse, logVars
<1>7. CASE PlanRejects(c) \/ OpenUpstreamFails(c) \/ StreamFails(c) \/ ResponseFails(c)
  BY <1>5, <1>7 DEF PlanRejects, OpenUpstreamFails, StreamFails, ResponseFails
<1>8. CASE ResponseArrives(c)
  <2>1. MonitorOutcome(c)
    BY <1>8 DEF ResponseArrives
  <2>2. ASSUME jobOf[c] \in UpJobs, log' = Attached(log, mon[c], jobOf[c], now) PROVE Kept(q)
    BY <2>2, AttachedRecords DEF MonInv, Kept
  <2> QED BY <1>2, <1>3, <1>4, <1>5, <2>1, <2>2, Outcomes
<1>9. CASE TranslateFails(c)
  BY <1>2, <1>3, <1>4, <1>9 DEF TranslateFails
<1> QED BY <1>1, <1>6, <1>7, <1>8, <1>9 DEF Handler

LEMMA SendingStep ==
  MonInv /\ HandlerInv /\ SendingInv /\ [Next]_vars => SendingInv'
<1> SUFFICES ASSUME MonInv, HandlerInv, SendingInv, [Next]_vars, NEW q \in log', q.state = "SENDING"
             PROVE  \E c \in Conns : mon'[c] = q.id /\ Sends(c)'
  BY DEF SendingInv
<1>1. ASSUME NEW c \in Conns, Handler(c)
      PROVE  \E d \in Conns : mon'[d] = q.id /\ Sends(d)'
  <2>1. CASE Kept(q)
    <3>1. PICK d \in Conns : mon[d] = q.id /\ Sends(d)
      BY <2>1 DEF Kept, SendingInv
    <3>2. mon'[d] = mon[d] /\ Sends(d)'
      BY <1>1, <3>1, SendsOn, StopsSending
    <3> QED BY <3>1, <3>2
  <2> QED BY <1>1, <2>1, StartsSending
<1>2. ASSUME log' \subseteq log, mon' = mon, opened' = opened,
             \A d \in Conns : pc[d] # "new" => pc'[d] = pc[d] /\ req'[d] = req[d]
      PROVE  \E d \in Conns : mon'[d] = q.id /\ Sends(d)'
  <2>1. PICK d \in Conns : mon[d] = q.id /\ Sends(d)
    BY <1>2 DEF SendingInv
  <2>2. pc[d] # "new"
    BY <2>1 DEF Sends, InFlight, LengthRejected
  <2> QED BY <1>2, <2>1, <2>2 DEF Sends, InFlight, LengthRejected
<1>3. ASSUME NEW c \in Conns, ClientConnects(c)
      PROVE  /\ log' = log /\ mon' = mon /\ opened' = opened
             /\ \A d \in Conns : pc[d] # "new" => pc'[d] = pc[d] /\ req'[d] = req[d]
  BY <1>3 DEF ClientConnects, logVars, HandlerInv, HandlerTypes
<1>4. ASSUME NEW c \in Conns, PrinterDecides(c) \/ WorkerCloses(c) \/ WorkerEnds(c)
      PROVE  UNCHANGED <<log, mon, opened, pc, req>>
  BY <1>4 DEF PrinterDecides, WorkerCloses, WorkerEnds, logVars, handlerVars
<1>5. CASE Accepting \/ UserSelects \/ Tick \/ UNCHANGED vars
  BY <1>2, <1>5 DEF Accepting, UserSelects, Tick, LogTick, vars, logVars, handlerVars
<1>6. CASE JobPage
  BY <1>2, <1>6 DEF JobPage, LogSnapshot, Pruned, handlerVars
<1> QED BY <1>1, <1>2, <1>3, <1>4, <1>5, <1>6 DEF Next

(* No failure on either side and no interleaving leaves a record behind as *)
(* "sending", with the one exception NoStuckRecord names.                  *)
THEOREM NoRecordStuck == Safety => []NoStuckRecord
<1>1. Init => SendingInv
  BY DEF Init, LogInit, SendingInv
<1>2. SendingInv => NoStuckRecord
  BY DEF SendingInv, Sends, NoStuckRecord
<1> QED
  BY <1>1, <1>2, MonInit, MonStep, SendingStep, HandlerInvAlways, PTL DEF Safety
=============================================================================
