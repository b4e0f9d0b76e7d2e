----------------------------- MODULE MCIppProxy ------------------------------
(* Small instances of IppProxy.                                            *)
EXTENDS IppProxy

Request(op, job, last, chunked, pwg, doc) ==
  [op |-> op, job |-> job, last |-> last, chunked |-> chunked, pwg |-> pwg,
   huge |-> FALSE, doc |-> doc]

(* One request of every shape the handler treats differently: documents    *)
(* with a length, in chunks, converted, too long, missing and misplaced.   *)
DocumentRequests ==
  {Request("Print-Job", NoJob, TRUE, chunked, pwg, doc) :
     chunked \in BOOLEAN, pwg \in BOOLEAN, doc \in {0, 2}}
  \cup {[Request("Print-Job", NoJob, TRUE, FALSE, FALSE, 2) EXCEPT !.huge = TRUE]}
  \cup {Request("Other", NoJob, TRUE, chunked, FALSE, doc) :
          chunked \in {TRUE}, doc \in 0..1}

(* The requests of a multi-step job, which share its record.               *)
JobRequests ==
  {Request("Create-Job", NoJob, TRUE, FALSE, FALSE, 0),
   Request("Send-Document", 7, TRUE, FALSE, FALSE, 0),
   Request("Cancel-Job", 7, TRUE, FALSE, FALSE, 0)}

(* The same with a document that is not the last, an ordinary and a too    *)
(* long job, and the capability refresh.                                   *)
MixedRequests ==
  JobRequests
  \cup {Request("Send-Document", 7, FALSE, TRUE, FALSE, 1)}
  \cup {[Request("Print-Job", NoJob, TRUE, FALSE, FALSE, 1) EXCEPT !.huge = huge] :
           huge \in BOOLEAN}
  \cup {Request("Get-Printer-Attributes", NoJob, TRUE, FALSE, FALSE, 0)}
=============================================================================
