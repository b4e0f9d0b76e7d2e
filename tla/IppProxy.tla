------------------------------ MODULE IppProxy -------------------------------
(***************************************************************************)
(* ESPresso's IPP proxy: the server of module IppServer with the request   *)
(* handler of main/ipp_proxy.c inside every worker, the job monitor it     *)
(* keeps (module JobLog), the selected printer it reads and refreshes, and *)
(* the legacy printer at the other end.                                    *)
(*                                                                         *)
(* A handler is cut into steps at the points where it blocks on a socket   *)
(* or takes a lock; between two such points nothing another task can see   *)
(* changes. A document is a number of pieces. Which requests the policy    *)
(* turns away is left open here, except where the length rules decide it;  *)
(* what matters is what the handler does in each case.                     *)
(***************************************************************************)
EXTENDS IppServer, JobLog

CONSTANTS
  Requests,   \* the requests clients may send
  Printers,   \* the printers that may be selected
  NoRequest,  \* "the client has not connected yet"
  NoTarget,   \* "no printer is selected"
  MaxNow      \* bound on the clock

Operations == {"Print-Job", "Create-Job", "Send-Document", "Cancel-Job",
               "Get-Printer-Attributes", "Other"}

(* job: the job-id attribute; last: last-document is absent or true;       *)
(* chunked: Transfer-Encoding; pwg: image/pwg-raster, which is converted   *)
(* to URF on the way; huge: Content-Length beyond INT32_MAX; doc: pieces   *)
(* of document data after the attributes.                                  *)
RequestType ==
  [op : Operations, job : UpJobs \cup {NoJob}, last : BOOLEAN, chunked : BOOLEAN,
   pwg : BOOLEAN, huge : BOOLEAN, doc : Nat]

ASSUME ProxyAssumption ==
  /\ Requests \subseteq RequestType
  /\ NoRequest \notin Requests
  /\ NoTarget \notin Printers
  /\ MaxNow \in Nat

VARIABLES
  req,      \* the request of each connection
  pc,       \* how far its handler is
  snap,     \* the target the handler copied when it started
  mon,      \* monitor_id: the job record of the request, 0 if none
  got,      \* document pieces taken from the client
  opened,   \* upstream HTTP requests opened for this client request
  sent,     \* document pieces written upstream
  ended,    \* the printer has seen the end of the request body
  verdict,  \* what the printer decided
  jobOf,    \* the job-id in the printer's response
  answer,   \* what the client was told
  target    \* app_state's selected printer

handlerVars == <<req, pc, snap, mon, got, opened, sent, ended, verdict, jobOf, answer>>
vars == <<serverVars, logVars, handlerVars, target>>

Submissions == {"Print-Job", "Create-Job", "Send-Document"}
DocumentOps == {"Print-Job", "Send-Document"}

Steps == {"new", "open", "receive", "plan", "stream", "await", "translate", "done"}

TypeOK ==
  /\ ServerTypeOK
  /\ LogTypeOK
  /\ req \in [Conns -> Requests \cup {NoRequest}]
  /\ pc \in [Conns -> Steps]
  /\ snap \in [Conns -> Printers \cup {NoTarget}]
  /\ mon \in [Conns -> Nat]
  /\ got \in [Conns -> Nat]
  /\ opened \in [Conns -> Nat]
  /\ sent \in [Conns -> Nat]
  /\ ended \in [Conns -> BOOLEAN]
  /\ verdict \in [Conns -> {"none", "accepted", "refused"}]
  /\ jobOf \in [Conns -> UpJobs \cup {NoJob}]
  /\ answer \in [Conns -> {"none", "error", "refused", "ok"}]
  /\ target \in Printers \cup {NoTarget}

Init ==
  /\ ServerInit
  /\ LogInit
  /\ req = [c \in Conns |-> NoRequest]
  /\ pc = [c \in Conns |-> "new"]
  /\ snap = [c \in Conns |-> NoTarget]
  /\ mon = [c \in Conns |-> 0]
  /\ got = [c \in Conns |-> 0]
  /\ opened = [c \in Conns |-> 0]
  /\ sent = [c \in Conns |-> 0]
  /\ ended = [c \in Conns |-> FALSE]
  /\ verdict = [c \in Conns |-> "none"]
  /\ jobOf = [c \in Conns |-> NoJob]
  /\ answer = [c \in Conns |-> "none"]
  /\ target \in Printers \cup {NoTarget}

----------------------------------------------------------------------------
(* The server's steps; a connection token carries one request.             *)

ClientConnects(c) ==
  /\ pc[c] = "new"
  /\ Connect(c)
  /\ \E r \in Requests : req' = [req EXCEPT ![c] = r]
  /\ pc' = [pc EXCEPT ![c] = "open"]
  /\ UNCHANGED <<logVars, snap, mon, got, opened, sent, ended, verdict, jobOf, answer, target>>

Accepting == AcceptTask /\ UNCHANGED <<logVars, handlerVars, target>>

Serving(c, step) == phase[c] = "serving" /\ pc[c] = step

(* Slips that the runs must notice: connections that got no answer are     *)
(* forgotten; a socket is closed and its slot never returned.              *)
WorkerClosesAnswered(c) ==
  /\ pc[c] = "done"
  /\ answer[c] # "none"
  /\ CloseConnection(c)
  /\ UNCHANGED <<logVars, handlerVars, target>>

WorkerEndsEarly(c) ==
  /\ Serving(c, "done")
  /\ phase' = [phase EXCEPT ![c] = "away"]
  /\ UNCHANGED <<slots, acceptor, chosen, held, queue, logVars, handlerVars, target>>

WorkerCloses(c) ==
  /\ pc[c] = "done"
  /\ CloseConnection(c)
  /\ UNCHANGED <<logVars, handlerVars, target>>

WorkerEnds(c) == GiveSlot(c) /\ UNCHANGED <<logVars, handlerVars, target>>

----------------------------------------------------------------------------
(* The job monitor                                                         *)

(* monitor_submission_failed                                               *)
SubmissionFailed(c) ==
  log' = IF req[c].op \in Submissions THEN Updated(log, mon[c], "FAILED", now) ELSE log

(* monitor_request_start: Print-Job and Create-Job open a record,          *)
(* Send-Document continues the record of its job or opens one, Cancel-Job  *)
(* only looks its record up.                                               *)
MonitorStart(c) ==
  LET r == req[c]
      found == IF r.op \in {"Send-Document", "Cancel-Job"} THEN FindUpstream(log, r.job) ELSE 0
      begins == r.op \in {"Print-Job", "Create-Job"} \/ (r.op = "Send-Document" /\ found = 0)
  IN  IF begins
      THEN /\ lastId' = lastId + 1
           /\ mon' = [mon EXCEPT ![c] = lastId + 1]
           /\ log' = Begun(log, lastId + 1,
                           IF r.op = "Create-Job" THEN "QUEUED" ELSE "SENDING",
                           IF r.op = "Send-Document" THEN r.job ELSE NoJob, now)
      ELSE /\ mon' = [mon EXCEPT ![c] = found]
           /\ log' = IF r.op = "Send-Document" THEN Updated(log, found, "SENDING", now) ELSE log
           /\ UNCHANGED lastId

(* A slip that a run must notice: the last response wins, also a refusal.  *)
MonitorOutcomeUnchecked(c) ==
  LET r == req[c]
  IN  log' = CASE r.op \in DocumentOps -> Updated(log, mon[c], "COMPLETED", now)
               [] r.op = "Cancel-Job" -> Updated(log, mon[c], "CANCELLED", now)
               [] OTHER -> log

(* What the monitor records once the printer's IPP status is known.        *)
MonitorOutcome(c) ==
  LET r == req[c]
  IN  CASE verdict[c] # "accepted" -> SubmissionFailed(c)
        [] verdict[c] = "accepted" /\ r.op = "Print-Job" ->
             log' = Updated(log, mon[c], "COMPLETED", now)
        [] verdict[c] = "accepted" /\ r.op = "Create-Job" ->
             log' = IF jobOf[c] = NoJob THEN log ELSE Attached(log, mon[c], jobOf[c], now)
        [] verdict[c] = "accepted" /\ r.op = "Send-Document" ->
             log' = Updated(log, mon[c], IF r.last THEN "COMPLETED" ELSE "QUEUED", now)
        [] verdict[c] = "accepted" /\ r.op = "Cancel-Job" ->
             log' = Updated(log, mon[c], "CANCELLED", now)
        [] OTHER -> log' = log

----------------------------------------------------------------------------
(* The handler. Every way out leaves with an answer to the client, and the *)
(* worker then closes the connection.                                      *)

Answer(c, a) ==
  /\ answer' = [answer EXCEPT ![c] = a]
  /\ pc' = [pc EXCEPT ![c] = "done"]

(* TLS handshake and HTTP request line and headers, then the copy of the   *)
(* selected target. A failed handshake gets no answer.                     *)
OpenRequest(c) ==
  /\ Serving(c, "open")
  /\ \/ /\ target # NoTarget
        /\ snap' = [snap EXCEPT ![c] = target]
        /\ pc' = [pc EXCEPT ![c] = "receive"]
        /\ UNCHANGED answer
     \/ \E a \in (IF c \in SecureConns THEN {"none", "error"} ELSE {"error"}) :
          Answer(c, a) /\ UNCHANGED snap
  /\ UNCHANGED <<serverVars, logVars, req, mon, got, opened, sent, ended, verdict, jobOf, target>>

(* Content-Length, Content-Type, 100-continue, attributes: any of them may *)
(* end the request, before anything is recorded.                           *)
ReceiveFails(c) ==
  /\ Serving(c, "receive")
  /\ \E a \in {"none", "error"} : Answer(c, a)
  /\ UNCHANGED <<serverVars, logVars, req, snap, mon, got, opened, sent, ended, verdict,
                 jobOf, target>>

(* The attributes are complete; some of the document may have come with    *)
(* them. A chunked body is read to its end unless it may carry a document, *)
(* and a chunked Print-Job is read once more to see whether it has one.    *)
PrefixPieces(r) ==
  CASE r.chunked /\ r.op \notin DocumentOps -> {r.doc}
    [] r.chunked /\ r.op = "Print-Job" /\ r.doc > 0 -> 1..r.doc
    [] OTHER -> 0..r.doc

ReceiveAttributes(c) ==
  /\ Serving(c, "receive")
  /\ \E k \in PrefixPieces(req[c]) : got' = [got EXCEPT ![c] = k]
  /\ MonitorStart(c)
  /\ pc' = [pc EXCEPT ![c] = "plan"]
  /\ UNCHANGED <<serverVars, now, req, snap, opened, sent, ended, verdict, jobOf, answer, target>>

(* Rejected by ipp_proxy_plan_request, by the transport, by the attribute  *)
(* rewriting, or for want of memory for the printer connection.            *)
PlanRejects(c) ==
  /\ Serving(c, "plan")
  /\ SubmissionFailed(c)
  /\ Answer(c, "error")
  /\ UNCHANGED <<serverVars, lastId, now, req, snap, mon, got, opened, sent, ended, verdict,
                 jobOf, target>>

(* The policy's length rules: Print-Job needs a document, the operations   *)
(* that cannot carry one must not.                                         *)
LengthsFit(r) ==
  /\ r.op = "Print-Job" => r.doc > 0
  /\ r.op \notin DocumentOps => r.doc = 0

Converting(r) == r.pwg /\ r.op \in DocumentOps
OutgoingChunked(r) == Converting(r) \/ (r.chunked /\ r.op \in DocumentOps)
OutgoingTooLong(r) == r.huge /\ ~OutgoingChunked(r)

(* The outgoing length does not fit: 400, with no word to the monitor.     *)
LengthRejects(c) ==
  /\ Serving(c, "plan")
  /\ LengthsFit(req[c])
  /\ OutgoingTooLong(req[c])
  /\ Answer(c, "error")
  /\ UNCHANGED <<serverVars, logVars, req, snap, mon, got, opened, sent, ended, verdict,
                 jobOf, target>>

(* esp_http_client_open and the rewritten attributes, with the document    *)
(* pieces received so far unless they go through the converter. With a     *)
(* Content-Length the printer knows the end when the last piece arrives.   *)
PrefixWritten(c) ==
  LET r == req[c]
  IN  /\ sent' = [sent EXCEPT ![c] = IF Converting(r) THEN 0 ELSE got[c]]
      /\ ended' = [ended EXCEPT ![c] = ~OutgoingChunked(r) /\ got[c] = r.doc]

Relayed(c) ==
  /\ Serving(c, "plan")
  /\ LengthsFit(req[c])
  /\ ~OutgoingTooLong(req[c])
  /\ opened' = [opened EXCEPT ![c] = @ + 1]

OpenUpstream(c) ==
  /\ Relayed(c)
  /\ PrefixWritten(c)
  /\ pc' = [pc EXCEPT ![c] = "stream"]
  /\ UNCHANGED <<serverVars, logVars, req, snap, mon, got, verdict, jobOf, answer, target>>

(* The connection or the write fails; what was written may have arrived.   *)
OpenUpstreamFails(c) ==
  /\ Relayed(c)
  /\ PrefixWritten(c) \/ UNCHANGED <<sent, ended>>
  /\ SubmissionFailed(c)
  /\ Answer(c, "error")
  /\ UNCHANGED <<serverVars, lastId, now, req, snap, mon, got, verdict, jobOf, target>>

(* One piece of the document goes through: from the prefix buffer while it *)
(* lasts, then from the client.                                            *)
PieceWritten(c) ==
  /\ sent[c] < req[c].doc
  /\ sent' = [sent EXCEPT ![c] = @ + 1]
  /\ got' = [got EXCEPT ![c] = IF @ > sent[c] THEN @ ELSE @ + 1]
  /\ ended' = [ended EXCEPT ![c] = ~OutgoingChunked(req[c]) /\ sent[c] + 1 = req[c].doc]

(* A slip that a run must notice: an end of the client's body that is a    *)
(* read error is passed on as the end of the document.                     *)
EndWrittenOnError(c) ==
  /\ ended' = [ended EXCEPT ![c] = TRUE]
  /\ UNCHANGED <<sent, got>>

(* The client's body is at its end: the terminating chunk, if chunks are   *)
(* used.                                                                   *)
EndWritten(c) ==
  /\ sent[c] = req[c].doc
  /\ ended' = [ended EXCEPT ![c] = TRUE]
  /\ UNCHANGED <<sent, got>>

StreamPiece(c) ==
  /\ Serving(c, "stream")
  /\ PieceWritten(c)
  /\ UNCHANGED <<serverVars, logVars, req, pc, snap, mon, opened, verdict, jobOf, answer, target>>

StreamEnds(c) ==
  /\ Serving(c, "stream")
  /\ EndWritten(c)
  /\ pc' = [pc EXCEPT ![c] = "await"]
  /\ UNCHANGED <<serverVars, logVars, req, snap, mon, opened, verdict, jobOf, answer, target>>

(* A slip that a run must notice: the early return of the converter leaves *)
(* the record alone.                                                       *)
StreamFailsUnrecorded(c) ==
  /\ Serving(c, "stream")
  /\ Answer(c, "error")
  /\ UNCHANGED <<serverVars, logVars, req, snap, mon, got, opened, sent, ended, verdict,
                 jobOf, target>>

(* The client stops or sends garbage, the converter refuses the document,  *)
(* or a write upstream fails (and may have arrived all the same).          *)
StreamFails(c) ==
  /\ Serving(c, "stream")
  /\ \/ UNCHANGED <<sent, got, ended>>
     \/ PieceWritten(c)
     \/ EndWritten(c)
  /\ SubmissionFailed(c)
  /\ Answer(c, "error")
  /\ UNCHANGED <<serverVars, lastId, now, req, snap, mon, opened, verdict, jobOf, target>>

(* The printer's response has been read: headers, then the body.           *)
ResponseArrives(c) ==
  /\ Serving(c, "await")
  /\ verdict[c] # "none"
  /\ MonitorOutcome(c)
  /\ pc' = [pc EXCEPT ![c] = "translate"]
  /\ UNCHANGED <<serverVars, lastId, now, req, snap, mon, got, opened, sent, ended, verdict,
                 jobOf, answer, target>>

(* A slip that a run must notice: a request without response is retried.   *)
ResponseFailsRetried(c) ==
  /\ Serving(c, "await")
  /\ pc' = [pc EXCEPT ![c] = "plan"]
  /\ UNCHANGED <<serverVars, logVars, req, snap, mon, got, opened, sent, ended, verdict,
                 jobOf, answer, target>>

(* No response, an HTTP error, three timeouts in a row, a response cut     *)
(* short or beyond RESPONSE_MAX: the printer may have taken the job.       *)
ResponseFails(c) ==
  /\ Serving(c, "await")
  /\ SubmissionFailed(c)
  /\ Answer(c, "error")
  /\ UNCHANGED <<serverVars, lastId, now, req, snap, mon, got, opened, sent, ended, verdict,
                 jobOf, target>>

(* A capability response that differs from the profile copied at the start *)
(* replaces the selected target in memory, whatever it is by now.          *)
RefreshTarget(c) ==
  \/ UNCHANGED target
  \/ req[c].op = "Get-Printer-Attributes" /\ target' = snap[c]

(* A slip that a run must notice: HTTP success is taken for IPP success.   *)
TranslateResponseAsSuccess(c) ==
  /\ Serving(c, "translate")
  /\ RefreshTarget(c)
  /\ Answer(c, "ok")
  /\ UNCHANGED <<serverVars, logVars, req, snap, mon, got, opened, sent, ended, verdict, jobOf>>

TranslateResponse(c) ==
  /\ Serving(c, "translate")
  /\ RefreshTarget(c)
  /\ Answer(c, IF verdict[c] = "accepted" THEN "ok" ELSE "refused")
  /\ UNCHANGED <<serverVars, logVars, req, snap, mon, got, opened, sent, ended, verdict, jobOf>>

TranslateFails(c) ==
  /\ Serving(c, "translate")
  /\ RefreshTarget(c)
  /\ log' = IF verdict[c] = "accepted" /\ req[c].op \notin (DocumentOps \cup {"Cancel-Job"})
            THEN Updated(log, mon[c], "FAILED", now)
            ELSE log
  /\ Answer(c, "error")
  /\ UNCHANGED <<serverVars, lastId, now, req, snap, mon, got, opened, sent, ended, verdict,
                 jobOf>>

Handler(c) ==
  \/ OpenRequest(c) \/ ReceiveFails(c) \/ ReceiveAttributes(c)
  \/ PlanRejects(c) \/ LengthRejects(c) \/ OpenUpstream(c) \/ OpenUpstreamFails(c)
  \/ StreamPiece(c) \/ StreamEnds(c) \/ StreamFails(c)
  \/ ResponseArrives(c) \/ ResponseFails(c)
  \/ TranslateResponse(c) \/ TranslateFails(c)

----------------------------------------------------------------------------
(* The surroundings: the legacy printer decides on a request it has seen   *)
(* to the end, also when nobody waits for its response any more; it gives  *)
(* the jobs it creates distinct ids. The user selects and clears printers  *)
(* and opens the job page; time passes.                                    *)

PrinterDecides(c) ==
  /\ ended[c]
  /\ verdict[c] = "none"
  /\ \/ /\ verdict' = [verdict EXCEPT ![c] = "accepted"]
        /\ \E j \in (IF req[c].op = "Create-Job"
                     THEN UpJobs \ {jobOf[d] : d \in {e \in Conns : snap[e] = snap[c]}}
                     ELSE {}) \cup {NoJob} :
             jobOf' = [jobOf EXCEPT ![c] = j]
     \/ verdict' = [verdict EXCEPT ![c] = "refused"] /\ UNCHANGED jobOf
  /\ UNCHANGED <<serverVars, logVars, req, pc, snap, mon, got, opened, sent, ended, answer, target>>

UserSelects ==
  /\ \E t \in Printers \cup {NoTarget} : target' = t
  /\ UNCHANGED <<serverVars, logVars, handlerVars>>

JobPage ==
  /\ LogSnapshot
  /\ UNCHANGED <<serverVars, handlerVars, target>>

Tick ==
  /\ now < MaxNow
  /\ LogTick
  /\ UNCHANGED <<serverVars, handlerVars, target>>

Next ==
  \/ \E c \in Conns : \/ ClientConnects(c) \/ Handler(c) \/ PrinterDecides(c)
                      \/ WorkerCloses(c) \/ WorkerEnds(c)
  \/ Accepting \/ UserSelects \/ JobPage \/ Tick

Safety == Init /\ [][Next]_vars

(* Where a handler waits for its client without limit: a TLS handshake or  *)
(* a read from a TLS connection (SO_RCVTIMEO does not end the select of    *)
(* mbedtls_net_recv_timeout, and no read timeout is configured), and a     *)
(* chunked document, which may come piece by piece without end.            *)
MayHold(c) ==
  \/ c \in SecureConns /\ pc[c] \in {"open", "receive", "stream"}
  \/ pc[c] = "stream" /\ req[c].chunked

(* A handler takes its next step wherever it does not depend on such a     *)
(* client: head, attributes and a document with a length are bounded in    *)
(* bytes, and a read from a plain connection in time (three times 40 s),   *)
(* as are writes (30 s) and the exchange with the printer (30 or 120 s).   *)
Fairness ==
  /\ WF_vars(TakeSlot /\ Accepting)
  /\ SF_vars(SelectReady /\ Accepting)
  /\ SF_vars(AcceptConnection /\ Accepting)
  /\ SF_vars(SpawnWorker /\ Accepting)
  /\ \A c \in Conns :
       /\ WF_vars(Handler(c) /\ ~MayHold(c))
       /\ WF_vars(WorkerCloses(c)) /\ WF_vars(WorkerEnds(c))

Spec == Safety /\ Fairness

----------------------------------------------------------------------------
(* "Non-idempotent document delivery is never retried" (ipp_proxy_core.h): *)
(* whatever fails, and however late, a client request is offered to the    *)
(* printer at most once, so a page is never printed twice.                 *)
DeliveredAtMostOnce == \A c \in Conns : opened[c] <= 1

(* The printer never takes a part of a document for the whole: it sees the *)
(* end of a request body only after every piece of the client's document   *)
(* has gone through, with Content-Length, with chunks and through the      *)
(* raster converter, also when a write that failed did arrive.             *)
NoTruncatedDocument ==
  \A c \in Conns :
    /\ ended[c] => sent[c] = req[c].doc /\ got[c] = req[c].doc
    /\ verdict[c] # "none" => ended[c]

(* A client is told that its request succeeded only if the printer it was  *)
(* meant for accepted the request with the complete document, in the only  *)
(* delivery of it.                                                         *)
SuccessIsReal ==
  \A c \in Conns : answer[c] = "ok" =>
    /\ verdict[c] = "accepted"
    /\ opened[c] = 1
    /\ sent[c] = req[c].doc
    /\ snap[c] \in Printers

(* The final states the job page shows are backed by what the printer did: *)
(* a job is completed because the printer accepted its last document,      *)
(* cancelled because the printer accepted a cancellation, failed because   *)
(* some request of it got no success. With several requests on one job,    *)
(* eviction of records and late responses, a record could easily get       *)
(* another job's outcome.                                                  *)
Completes(c) ==
  /\ verdict[c] = "accepted"
  /\ req[c].op = "Print-Job" \/ (req[c].op = "Send-Document" /\ req[c].last)

Cancels(c) == verdict[c] = "accepted" /\ req[c].op = "Cancel-Job"

Fails(c) ==
  /\ req[c].op \in Submissions
  /\ answer[c] = "error" \/ verdict[c] = "refused"

LogTellsTruth ==
  \A r \in log :
    /\ r.state = "COMPLETED" => \E c \in Conns : mon[c] = r.id /\ Completes(c)
    /\ r.state = "CANCELLED" => \E c \in Conns : mon[c] = r.id /\ Cancels(c)
    /\ r.state = "FAILED" => \E c \in Conns : mon[c] = r.id /\ Fails(c)

(* A record says "sending" only while a request for it is on its way. The  *)
(* one exception is the request whose length does not fit: its record      *)
(* stays "sending" until it expires.                                       *)
InFlight(c) == pc[c] \in {"plan", "stream", "await"}

LengthRejected(c) == pc[c] = "done" /\ opened[c] = 0 /\ OutgoingTooLong(req[c])

NoStuckRecord ==
  \A r \in log : r.state = "SENDING" =>
    \E c \in Conns : mon[c] = r.id /\ (InFlight(c) \/ LengthRejected(c))

(* Seen from the connections, the proxy is the server of IppServer: no     *)
(* path through the handler loses or doubles a worker slot or a socket.    *)
ImplementsServer == ServerSafety

Holding(c) == phase[c] = "serving" /\ MayHold(c)

(* Every client that got into the backlog is served and disconnected and   *)
(* its slot returned, whatever the printer does: silence, a late answer,   *)
(* failed handshakes and failed writes included. The exceptions are a      *)
(* client that itself keeps its worker waiting for ever, by silence on the *)
(* IPPS port or by a chunked document without end, and everyone once such  *)
(* clients hold all the slots.                                             *)
ClientsAreServed ==
  \/ <>[](Cardinality({d \in Conns : Holding(d)}) = WorkerSlots)
  \/ \A c \in Conns : <>[]Holding(c) \/ (phase[c] = "queued" ~> phase[c] = "away")
=============================================================================
