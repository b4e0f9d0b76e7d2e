----------------------------- MODULE JobHistory ------------------------------
(***************************************************************************)
(* The job history of main/job_history.c: an array of at most Capacity     *)
(* records, oldest first, and a 32-bit id counter that skips 0. The        *)
(* callers are the proxy's workers and the web server's job page, one at a *)
(* time (job_history_lock). Names, formats and byte counts are left out:   *)
(* no decision depends on them.                                            *)
(***************************************************************************)
EXTENDS Integers, Sequences, FiniteSetsExt

CONSTANTS
  Capacity,
  TTL,
  UpJobs,
  NoJob,
  MaxId,    \* UINT32_MAX: the counter wraps to 0 after it
  MaxJobs,  \* bound on the jobs begun: above MaxId, so that the counter wraps
  MaxNow    \* bound on the clock

(* While a record is kept, at most Capacity - 1 jobs begin in every TTL    *)
(* the device runs (LogSpan of JobLogProofs). The counter must have more   *)
(* ids than that, or it would come round to a record that is still there.  *)
(* With 2^32 ids, 16 records and an hour this is so for 30 000 years.      *)
ASSUME HistoryAssumption ==
  /\ Capacity \in Nat \ {0} /\ TTL \in Nat \ {0}
  /\ NoJob \notin UpJobs
  /\ MaxNow \in Nat /\ MaxJobs \in Nat
  /\ MaxId \in Nat /\ MaxId > (Capacity - 1) * (MaxNow \div TTL + 1)

VARIABLES
  records,  \* history->records[0 .. count-1]
  next_id,  \* history->next_id
  now,      \* monotonic_ms()
  shown,    \* what the last snapshot() copied out
  begun     \* history variable: how many jobs were begun

vars == <<records, next_id, now, shown, begun>>

(* The job an id stands for, over the wrap of the counter: next_id is the  *)
(* last of the begun jobs, and the ids run through 1..MaxId.               *)
JobOf(id) == begun - (IF id <= next_id THEN next_id - id ELSE next_id - id + MaxId)

Numbered(r) == [r EXCEPT !.id = JobOf(r.id)]

(* The abstract log the array stands for.                                  *)
Log == INSTANCE JobLog WITH
  log <- {Numbered(records[i]) : i \in 1..Len(records)}, lastId <- begun

TypeOK ==
  /\ records \in Seq(Log!Records) /\ Len(records) <= Capacity
  /\ next_id \in 0..MaxId
  /\ now \in 0..MaxNow
  /\ shown \in Seq(Log!Records)
  /\ begun \in 0..MaxJobs

Init == records = <<>> /\ next_id = 0 /\ now = 0 /\ shown = <<>> /\ begun = 0

----------------------------------------------------------------------------
(* prune(): the compaction loop keeps the order. A record that is kept     *)
(* moves to the place its number among the kept ones gives it.             *)
prune(recs, t) ==
  LET kept == {i \in 1..Len(recs) : ~Log!Expired(recs[i], t)}
      place(i) == Cardinality({j \in kept : j <= i})
  IN  [k \in 1..Cardinality(kept) |-> recs[CHOOSE i \in kept : place(i) = k]]

(* find_record(): index of the first record with this id, 0 if none.       *)
find_record(recs, id) ==
  LET matches == {i \in 1..Len(recs) : recs[i].id = id}
  IN  IF matches = {} THEN 0 ELSE Min(matches)

(* Slips that the runs must notice: a counter that forgets that 0 means    *)
(* "no record", eviction of the wrong record, a search from the wrong end, *)
(* a snapshot in the wrong order.                                          *)
increment_without_skip(id) == (id + 1) % (MaxId + 1)
evict_newest(recs) == IF Len(recs) = Capacity THEN SubSeq(recs, 1, Capacity - 1) ELSE recs
oldest_first(recs) == recs
find_upstream_oldest(job) ==
  LET matches == {i \in 1..Len(records) : records[i].upstream = job}
  IN  IF matches = {} THEN 0 ELSE records[Min(matches)].id

increment(id) ==
  LET next == (id + 1) % (MaxId + 1) IN IF next = 0 THEN next + 1 ELSE next

(* memmove() of records 1.. over record 0.                                 *)
evict(recs) == IF Len(recs) = Capacity THEN Tail(recs) ELSE recs

newest_first(recs) == [i \in 1..Len(recs) |-> recs[Len(recs) + 1 - i]]

----------------------------------------------------------------------------
begin(state) ==
  /\ begun < MaxJobs
  /\ begun' = begun + 1
  /\ next_id' = increment(next_id)
  /\ records' = Append(evict(prune(records, now)),
                       [id |-> next_id', state |-> state, updated |-> now, upstream |-> NoJob])
  /\ UNCHANGED <<now, shown>>

update(id, state) ==
  /\ LET i == find_record(records, id)
     IN  records' = IF i = 0 THEN records
                    ELSE [records EXCEPT ![i].state = state, ![i].updated = now]
  /\ UNCHANGED <<next_id, now, shown, begun>>

attach_upstream(id, job) ==
  /\ LET i == find_record(records, id)
     IN  records' = IF i = 0 THEN records
                    ELSE [records EXCEPT ![i].upstream = job, ![i].updated = now]
  /\ UNCHANGED <<next_id, now, shown, begun>>

(* find_upstream(): newest match first; a pure query.                      *)
find_upstream(job) ==
  LET matches == {i \in 1..Len(records) : records[i].upstream = job}
  IN  IF matches = {} THEN 0 ELSE records[Max(matches)].id

snapshot(room) ==
  /\ records' = prune(records, now)
  /\ shown' = LET all == newest_first(records') IN SubSeq(all, 1, Min({room, Len(all)}))
  /\ UNCHANGED <<next_id, now, begun>>

Tick ==
  /\ now < MaxNow
  /\ now' = now + 1
  /\ UNCHANGED <<records, next_id, shown, begun>>

(* Workers keep ids for as long as a request lasts, so any id ever issued  *)
(* may come back, also one whose record is gone or whose id has a new one. *)
Issued == 1..Min({begun, MaxId})

Next ==
  \/ \E state \in {"QUEUED", "SENDING"} : begin(state)
  \/ \E id \in Issued, state \in {"SENDING", "COMPLETED"} : update(id, state)
  \/ \E id \in Issued, job \in UpJobs : attach_upstream(id, job)
  \/ \E room \in 1..Capacity : snapshot(room)
  \/ Tick

Spec == Init /\ [][Next]_vars

----------------------------------------------------------------------------
(* The array with its in-place compaction, its memmove() eviction and its  *)
(* linear searches is the abstract log, also over the wrap of its counter: *)
(* records leave only by age or because they are the oldest of a full      *)
(* array, and an update by id touches the one record it has.               *)
ImplementsLog == Log!LogSpec

(* The newest record with a printer's job-id is the one found: a printer   *)
(* that restarts its numbering gives two jobs the same job-id, and         *)
(* Send-Document and Cancel-Job are about the later one.                   *)
FindsNewestUpstream ==
  \A job \in UpJobs :
    LET recs == {Numbered(records[i]) : i \in 1..Len(records)}
        id == find_upstream(job)
    IN  (IF id = 0 THEN 0 ELSE JobOf(id)) = Log!FindUpstream(recs, job)

(* The job page lists the newest jobs first, none of them expired, and     *)
(* leaves out only older ones when its buffer is too small.                *)
SnapshotShowsNewest ==
  [][shown' # shown =>
       /\ \A i \in 1..Len(shown') : ~Log!Expired(shown'[i], now)
       /\ \A i, j \in 1..Len(shown') : i < j => JobOf(shown'[i].id) > JobOf(shown'[j].id)
       /\ \A i \in 1..Len(records), j \in 1..Len(shown') :
            \/ Log!Expired(records[i], now)
            \/ \E k \in 1..Len(shown') : shown'[k] = records[i]
            \/ JobOf(records[i].id) < JobOf(shown'[j].id)]_vars

(* Callers read id 0 as "no record" and update records by id: over the     *)
(* wrap of the counter, the ids of the records kept stay distinct and      *)
(* differ from 0.                                                          *)
LiveIds ==
  \A i, j \in 1..Len(records) :
    records[i].id # 0 /\ (records[i].id = records[j].id => i = j)
=============================================================================
