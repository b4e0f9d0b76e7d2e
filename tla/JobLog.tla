------------------------------- MODULE JobLog --------------------------------
(***************************************************************************)
(* What the job history promises its callers (main/job_history.h): a       *)
(* bounded log of recent jobs. A record is known by the id begin() gave    *)
(* it, ids grow with age, and a record is forgotten only because it has    *)
(* not been touched for TTL or because Capacity newer jobs need its place. *)
(*                                                                         *)
(* The log is a set: the position of a record in the C array is the order  *)
(* of the ids. JobHistory is the array itself, shown to implement this     *)
(* module; IppProxy calls these operations. Ids are natural numbers here,  *)
(* the 32-bit counter and its wrap are JobHistory's subject.               *)
(***************************************************************************)
EXTENDS Integers, FiniteSets

CONSTANTS
  Capacity,  \* ESPRESSO_JOB_HISTORY_CAPACITY
  TTL,       \* ESPRESSO_JOB_HISTORY_TTL_MS, in ticks of the clock
  UpJobs,    \* job-ids a printer may assign
  NoJob      \* "has_upstream_job_id is false"

ASSUME LogAssumption ==
  /\ Capacity \in Nat \ {0}
  /\ TTL \in Nat \ {0}
  /\ NoJob \notin UpJobs

JobStates == {"QUEUED", "SENDING", "COMPLETED", "FAILED", "CANCELLED"}

Records ==
  [id : Nat \ {0}, state : JobStates, updated : Nat, upstream : UpJobs \cup {NoJob}]

Expired(r, t) == t >= r.updated /\ t - r.updated >= TTL

Pruned(recs, t) == {r \in recs : ~Expired(r, t)}

Oldest(recs) == CHOOSE r \in recs : \A q \in recs : r.id <= q.id

Newest(recs) == CHOOSE r \in recs : \A q \in recs : r.id >= q.id

Evicted(recs) == IF Cardinality(recs) = Capacity THEN recs \ {Oldest(recs)} ELSE recs

Begun(recs, id, state, job, t) ==
  Evicted(Pruned(recs, t))
    \cup {[id |-> id, state |-> state, updated |-> t, upstream |-> job]}

(* 0 is what the C functions return for "no such record".                  *)
FindUpstream(recs, job) ==
  LET matches == {r \in recs : job # NoJob /\ r.upstream = job}
  IN  IF matches = {} THEN 0 ELSE Newest(matches).id

Updated(recs, id, state, t) ==
  {IF r.id = id THEN [r EXCEPT !.state = state, !.updated = t] ELSE r : r \in recs}

Attached(recs, id, job, t) ==
  {IF r.id = id THEN [r EXCEPT !.upstream = job, !.updated = t] ELSE r : r \in recs}

----------------------------------------------------------------------------
(* The log as a machine of its own.                                        *)
VARIABLES
  log,     \* the records
  lastId,  \* the id given last
  now      \* the monotonic clock

logVars == <<log, lastId, now>>

LogInit == log = {} /\ lastId = 0 /\ now = 0

LogBegin(state) ==
  /\ lastId' = lastId + 1
  /\ log' = Begun(log, lastId + 1, state, NoJob, now)
  /\ UNCHANGED now

LogUpdate(id, state) == log' = Updated(log, id, state, now) /\ UNCHANGED <<lastId, now>>

LogAttach(id, job) == log' = Attached(log, id, job, now) /\ UNCHANGED <<lastId, now>>

LogSnapshot == log' = Pruned(log, now) /\ UNCHANGED <<lastId, now>>

LogTick == now' = now + 1 /\ UNCHANGED <<log, lastId>>

LogNext ==
  \/ \E state \in JobStates : LogBegin(state)
  \/ \E id \in 1..lastId, state \in JobStates : LogUpdate(id, state)
  \/ \E id \in 1..lastId, job \in UpJobs : LogAttach(id, job)
  \/ LogSnapshot
  \/ LogTick

LogSpec == LogInit /\ [][LogNext]_logVars

----------------------------------------------------------------------------
LogTypeOK ==
  /\ log \subseteq Records
  /\ lastId \in Nat
  /\ now \in Nat

(* An id names one record, it was really issued, and the fixed array is    *)
(* never exceeded: what lets a request update its own record by id long    *)
(* after other requests have added and evicted records.                    *)
LogWellFormed ==
  /\ IsFiniteSet(log)
  /\ Cardinality(log) <= Capacity
  /\ \A r, q \in log : r.id = q.id => r = q
  /\ \A r \in log : r.id <= lastId /\ r.updated <= now
=============================================================================
