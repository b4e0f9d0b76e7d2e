----------------------------- MODULE JobLogProofs -----------------------------
(***************************************************************************)
(* Proofs about JobLog, for any capacity, time to live and set of job-ids: *)
(* what each operation on the log preserves, and that the log stays well   *)
(* formed. IppProxyProofs cites the lemmas for the calls of the handlers.  *)
(***************************************************************************)
EXTENDS JobLog, FiniteSetTheorems, WellFoundedInduction, TLAPS

LogInv == LogTypeOK /\ LogWellFormed

(* A set of natural numbers that is not empty has a smallest element.      *)
LEMMA SmallestOfNaturals ==
  ASSUME NEW S \in SUBSET Nat, S # {}
  PROVE  \E n \in S : \A m \in S : n <= m
<1> DEFINE R == OpToRel(<, Nat)
<1>1. \A m, n \in Nat : <<m, n>> \in R <=> m < n
  BY DEF OpToRel
<1>2. IsWellFoundedOn(R, Nat)
  BY NatLessThanWellFounded
<1> HIDE DEF R
<1>3. PICK n \in S : \A m \in S : ~(<<m, n>> \in R)
  BY <1>2, WFMin
<1>4. ASSUME NEW m \in S PROVE n <= m
  <2>1. m \in Nat /\ n \in Nat /\ ~(<<m, n>> \in R)
    BY <1>3
  <2>2. ~(m < n)
    BY <1>1, <2>1, Zenon
  <2> QED BY <2>1, <2>2
<1> QED BY <1>4

(* Forgetting records keeps the log well formed.                           *)
LEMMA SmallerLog ==
  ASSUME LogInv, NEW recs \in SUBSET log
  PROVE  IsFiniteSet(recs) /\ Cardinality(recs) \in Nat /\ Cardinality(recs) <= Capacity
<1>1. IsFiniteSet(log)
  BY DEF LogInv, LogWellFormed
<1>2. IsFiniteSet(recs) /\ Cardinality(recs) <= Cardinality(log)
  BY <1>1, FS_Subset
<1>3. Cardinality(recs) \in Nat /\ Cardinality(log) \in Nat
  BY <1>1, <1>2, FS_CardinalityType
<1> QED BY <1>2, <1>3, LogAssumption DEF LogInv, LogWellFormed

LEMMA PruneLog ==
  ASSUME LogInv, LogSnapshot
  PROVE  LogInv'
<1>1. log' \in SUBSET log /\ lastId' = lastId /\ now' = now
  BY DEF LogSnapshot, Pruned
<1>2. IsFiniteSet(log') /\ Cardinality(log') <= Capacity
  BY <1>1, SmallerLog
<1> QED BY <1>1, <1>2 DEF LogInv, LogTypeOK, LogWellFormed

LEMMA OldestIsOldest ==
  ASSUME LogInv, NEW recs \in SUBSET log, recs # {}
  PROVE  Oldest(recs) \in recs /\ \A q \in recs : Oldest(recs).id <= q.id
<1> DEFINE ids == {r.id : r \in recs}
<1>1. ids \subseteq Nat /\ ids # {}
  BY DEF LogInv, LogTypeOK, Records
<1> HIDE DEF ids
<1>2. PICK n \in ids : \A m \in ids : n <= m
  BY <1>1, SmallestOfNaturals
<1>3. \E r \in recs : \A q \in recs : r.id <= q.id
  BY <1>2 DEF ids
<1> QED BY <1>3, Zenon DEF Oldest

(* Room is made for one record: at most Capacity - 1 remain. The oldest    *)
(* record of a full log exists because Capacity is not 0.                  *)
LEMMA RoomForOne ==
  ASSUME LogInv, NEW recs \in SUBSET log
  PROVE  /\ Evicted(recs) \subseteq recs
         /\ IsFiniteSet(Evicted(recs))
         /\ Cardinality(Evicted(recs)) \in Nat
         /\ Cardinality(Evicted(recs)) < Capacity
<1>1. IsFiniteSet(recs) /\ Cardinality(recs) \in Nat /\ Cardinality(recs) <= Capacity
  BY SmallerLog
<1>2. CASE Cardinality(recs) # Capacity
  BY <1>1, <1>2, LogAssumption DEF Evicted
<1>3. CASE Cardinality(recs) = Capacity
  <2>1. recs # {}
    BY <1>1, <1>3, FS_EmptySet, LogAssumption
  <2>3. Oldest(recs) \in recs
    BY <2>1, OldestIsOldest
  <2>4. IsFiniteSet(recs \ {Oldest(recs)}) /\ Cardinality(recs \ {Oldest(recs)}) = Cardinality(recs) - 1
    BY <1>1, <2>3, FS_RemoveElement
  <2> QED BY <1>1, <1>3, <2>4, LogAssumption DEF Evicted
<1> QED BY <1>2, <1>3

LEMMA BeginLog ==
  ASSUME LogInv, NEW state \in JobStates, NEW job \in UpJobs \cup {NoJob},
         log' = Begun(log, lastId + 1, state, job, now), lastId' = lastId + 1, now' = now
  PROVE  LogInv'
<1> DEFINE kept == Evicted(Pruned(log, now))
           new == [id |-> lastId + 1, state |-> state, updated |-> now, upstream |-> job]
<1>1. Pruned(log, now) \in SUBSET log
  BY DEF Pruned
<1>2. /\ kept \subseteq log
      /\ IsFiniteSet(kept) /\ Cardinality(kept) \in Nat /\ Cardinality(kept) < Capacity
  BY <1>1, RoomForOne
<1>3. log' = kept \cup {new}
  BY DEF Begun
<1> HIDE DEF kept
<1>4. new \in Records
  BY DEF LogInv, LogTypeOK, Records
<1>5. new \notin log
  BY DEF LogInv, LogTypeOK, LogWellFormed
<1>6. IsFiniteSet(log') /\ Cardinality(log') = Cardinality(kept) + 1
  BY <1>2, <1>3, <1>5, FS_AddElement
<1>7. Cardinality(log') <= Capacity
  BY <1>2, <1>6, LogAssumption
<1>8. LogTypeOK'
  BY <1>2, <1>3, <1>4 DEF LogInv, LogTypeOK
<1>9. \A r, q \in log' : r.id = q.id => r = q
  BY <1>2, <1>3, <1>4 DEF LogInv, LogTypeOK, LogWellFormed, Records
<1>10. \A r \in log' : r.id <= lastId' /\ r.updated <= now'
  BY <1>2, <1>3 DEF LogInv, LogTypeOK, LogWellFormed, Records
<1> QED BY <1>6, <1>7, <1>8, <1>9, <1>10 DEF LogInv, LogWellFormed

(* A function that keeps the id of every record and takes its time stamp   *)
(* from the clock or leaves it alone.                                      *)
LEMMA RewriteLog ==
  ASSUME LogInv, NEW f \in [log -> Records],
         \A r \in log : f[r].id = r.id /\ f[r].updated \in {r.updated, now},
         log' = {f[r] : r \in log}, lastId' = lastId, now' = now
  PROVE  LogInv'
<1>1. f \in Surjection(log, log')
  BY DEF Surjection
<1>2. IsFiniteSet(log') /\ Cardinality(log') <= Cardinality(log)
  BY <1>1, FS_Surjection DEF LogInv, LogWellFormed
<1>3. Cardinality(log') \in Nat /\ Cardinality(log) \in Nat
  BY <1>2, FS_CardinalityType DEF LogInv, LogWellFormed
<1>4. Cardinality(log') <= Capacity
  BY <1>2, <1>3, LogAssumption DEF LogInv, LogWellFormed
<1>5. LogTypeOK'
  BY DEF LogInv, LogTypeOK
<1>6. \A r, q \in log' : r.id = q.id => r = q
  BY DEF LogInv, LogWellFormed
<1>7. \A r \in log' : r.id <= lastId' /\ r.updated <= now'
  BY DEF LogInv, LogTypeOK, LogWellFormed
<1> QED BY <1>2, <1>4, <1>5, <1>6, <1>7 DEF LogInv, LogWellFormed

(* Both updates by id are such functions.                                  *)
Rewrites(f) ==
  /\ f \in [log -> Records]
  /\ \A r \in log : f[r].id = r.id /\ f[r].updated \in {r.updated, now}
  /\ log' = {f[r] : r \in log} /\ lastId' = lastId /\ now' = now

LEMMA UpdateRewrites ==
  ASSUME LogInv, NEW id, NEW state \in JobStates, LogUpdate(id, state)
  PROVE  \E f : Rewrites(f)
<1> DEFINE f == [r \in log |-> IF r.id = id THEN [r EXCEPT !.state = state, !.updated = now] ELSE r]
<1>1. f \in [log -> Records]
  BY DEF LogInv, LogTypeOK, Records
<1>2. \A r \in log : f[r].id = r.id /\ f[r].updated \in {r.updated, now}
  BY DEF LogInv, LogTypeOK, Records
<1>3. log' = {f[r] : r \in log} /\ lastId' = lastId /\ now' = now
  BY DEF LogUpdate, Updated
<1> HIDE DEF f
<1> QED BY <1>1, <1>2, <1>3 DEF Rewrites

LEMMA AttachRewrites ==
  ASSUME LogInv, NEW id, NEW job \in UpJobs, LogAttach(id, job)
  PROVE  \E f : Rewrites(f)
<1> DEFINE f == [r \in log |-> IF r.id = id THEN [r EXCEPT !.upstream = job, !.updated = now] ELSE r]
<1>1. f \in [log -> Records]
  BY DEF LogInv, LogTypeOK, Records
<1>2. \A r \in log : f[r].id = r.id /\ f[r].updated \in {r.updated, now}
  BY DEF LogInv, LogTypeOK, Records
<1>3. log' = {f[r] : r \in log} /\ lastId' = lastId /\ now' = now
  BY DEF LogAttach, Attached
<1> HIDE DEF f
<1> QED BY <1>1, <1>2, <1>3 DEF Rewrites

LEMMA UpdateLog ==
  ASSUME LogInv, NEW id, NEW state \in JobStates, LogUpdate(id, state)
  PROVE  LogInv'
  BY UpdateRewrites, RewriteLog DEF Rewrites

LEMMA AttachLog ==
  ASSUME LogInv, NEW id, NEW job \in UpJobs, LogAttach(id, job)
  PROVE  LogInv'
  BY AttachRewrites, RewriteLog DEF Rewrites

LEMMA TickLog ==
  ASSUME LogInv, LogTick
  PROVE  LogInv'
  BY DEF LogInv, LogTypeOK, LogWellFormed, LogTick, Records

(* What the records of a log are after an operation: the old ones, and the *)
(* ones it was about.                                                      *)
LEMMA UpdatedRecords ==
  ASSUME LogInv, NEW id, NEW state \in JobStates, NEW q \in Updated(log, id, state, now)
  PROVE  (q \in log /\ q.id # id) \/ (q.id = id /\ q.state = state)
  BY DEF LogInv, LogTypeOK, Records, Updated

LEMMA AttachedRecords ==
  ASSUME LogInv, NEW id, NEW job \in UpJobs, NEW q \in Attached(log, id, job, now)
  PROVE  \E r \in log : r.id = q.id /\ r.state = q.state
  BY DEF LogInv, LogTypeOK, Records, Attached

LEMMA BegunRecords ==
  ASSUME NEW id, NEW state, NEW job, NEW q \in Begun(log, id, state, job, now)
  PROVE  q \in log \/ (q.id = id /\ q.state = state)
  BY DEF Begun, Evicted, Pruned

(* The record found for a job-id has an id that was issued, or there is    *)
(* none and the answer is 0.                                               *)
LEMMA FoundIsId ==
  ASSUME LogInv, NEW job
  PROVE  FindUpstream(log, job) \in Nat
<1> DEFINE matches == {r \in log : job # NoJob /\ r.upstream = job}
<1>1. FindUpstream(log, job) = IF matches = {} THEN 0 ELSE Newest(matches).id
  BY DEF FindUpstream
<1>2. matches \subseteq log
  OBVIOUS
<1> HIDE DEF matches
<1>3. CASE matches # {}
  <2> DEFINE ages == {lastId - r.id : r \in matches}
  <2>1. \A r \in matches : r.id \in Nat /\ lastId - r.id \in Nat
    BY <1>2 DEF LogInv, LogTypeOK, LogWellFormed, Records
  <2>2. ages \in SUBSET Nat /\ ages # {}
    BY <1>3, <2>1
  <2> HIDE DEF ages
  <2>3. PICK n \in ages : \A m \in ages : n <= m
    BY <2>2, SmallestOfNaturals
  <2>4. PICK r \in matches : n = lastId - r.id
    BY <2>3 DEF ages
  <2>5. \A q \in matches : r.id >= q.id
    <3> SUFFICES ASSUME NEW q \in matches PROVE r.id >= q.id
      OBVIOUS
    <3>1. lastId - r.id <= lastId - q.id
      BY <2>3, <2>4 DEF ages
    <3> QED BY <2>1, <3>1 DEF LogInv, LogTypeOK
  <2>6. Newest(matches) \in matches
    BY <2>5, Zenon DEF Newest
  <2> QED BY <1>1, <1>3, <2>1, <2>6
<1> QED BY <1>1, <1>3

LEMMA LogInitInv == LogInit => LogInv
<1> SUFFICES ASSUME LogInit PROVE LogInv
  OBVIOUS
<1>1. IsFiniteSet(log) /\ Cardinality(log) = 0
  BY FS_EmptySet DEF LogInit
<1> QED BY <1>1, LogAssumption DEF LogInit, LogInv, LogTypeOK, LogWellFormed

----------------------------------------------------------------------------
(* How many jobs can begin while a record is kept. Cut time into windows   *)
(* of length TTL. A record touched in the current window is not expired,   *)
(* and it is not evicted before an older one, so the jobs begun in this    *)
(* window after a record r that is still there are all in the log beside   *)
(* r: at most Capacity - 1 of them.                                        *)
Recent(r) == {q \in log : q.id > r.id /\ q.updated \div TTL = now \div TTL}

SpanInv ==
  \A r \in log : lastId - r.id <= (Capacity - 1) * (now \div TTL) + Cardinality(Recent(r))

(* A record is outlived by at most Capacity - 1 jobs in every time to live *)
(* the device has run: what decides whether an id counter that wraps can   *)
(* give the id of a record that is still there a second time.              *)
LogSpan == \A r \in log : lastId - r.id <= (Capacity - 1) * (now \div TTL + 1)

LEMMA Windows ==
  ASSUME NEW t \in Nat
  PROVE  /\ t \div TTL \in Nat /\ (Capacity - 1) * (t \div TTL) \in Nat
         /\ (Capacity - 1) * (t \div TTL + 1) = (Capacity - 1) * (t \div TTL) + (Capacity - 1)
         /\ (t + 1) \div TTL \in {t \div TTL, t \div TTL + 1}
         /\ \A u \in Nat : u <= t /\ u \div TTL = t \div TTL => t - u < TTL
<1>1. TTL \in Nat \ {0} /\ Capacity \in Nat \ {0}
  BY LogAssumption
<1>2. /\ t \div TTL \in Nat
      /\ (t + 1) \div TTL \in {t \div TTL, t \div TTL + 1}
  BY <1>1
<1>3. \A u \in Nat : (u \div TTL) * TTL <= u /\ u < (u \div TTL + 1) * TTL
  BY <1>1
<1>4. \A w \in Nat : /\ w * TTL \in Nat /\ (w + 1) * TTL = w * TTL + TTL
                   /\ (Capacity - 1) * w \in Nat
                   /\ (Capacity - 1) * (w + 1) = (Capacity - 1) * w + (Capacity - 1)
  BY <1>1
<1>5. ASSUME NEW u \in Nat, u <= t, u \div TTL = t \div TTL PROVE t - u < TTL
  BY <1>1, <1>2, <1>3, <1>4, <1>5
<1> QED BY <1>2, <1>4, <1>5

(* Beside one record of the log there are at most Capacity - 1 others.     *)
LEMMA FewOthers ==
  ASSUME NEW recs, IsFiniteSet(recs), Cardinality(recs) <= Capacity,
         NEW r \in recs, NEW others \in SUBSET (recs \ {r})
  PROVE  /\ IsFiniteSet(others) /\ Cardinality(others) \in Nat
         /\ Cardinality(others) <= Capacity - 1
<1>1. IsFiniteSet(recs \ {r}) /\ Cardinality(recs \ {r}) = Cardinality(recs) - 1
  BY FS_RemoveElement
<1>2. IsFiniteSet(others) /\ Cardinality(others) <= Cardinality(recs \ {r})
  BY <1>1, FS_Subset
<1>3. Cardinality(others) \in Nat /\ Cardinality(recs) \in Nat
  BY <1>2, FS_CardinalityType
<1> QED BY <1>1, <1>2, <1>3, LogAssumption

LEMMA RecentIsFinite ==
  ASSUME LogInv, NEW r \in log
  PROVE  /\ IsFiniteSet(Recent(r)) /\ Cardinality(Recent(r)) \in Nat
         /\ Cardinality(Recent(r)) <= Capacity - 1
<1>1. IsFiniteSet(log) /\ Cardinality(log) <= Capacity
  BY DEF LogInv, LogWellFormed
<1>2. Recent(r) \in SUBSET (log \ {r})
  BY DEF Recent, LogInv, LogTypeOK, Records
<1> QED BY <1>1, <1>2, FewOthers

LEMMA RecentStaysFinite ==
  ASSUME LogInv', NEW r \in log'
  PROVE  IsFiniteSet(Recent(r)') /\ Cardinality(Recent(r)') \in Nat
<1>1. IsFiniteSet(log') /\ Cardinality(log') <= Capacity
  BY DEF LogInv, LogWellFormed
<1>2. Recent(r)' \in SUBSET (log' \ {r})
  BY DEF Recent, LogInv, LogTypeOK, Records
<1> QED BY <1>1, <1>2, FewOthers

LEMMA SpanFollows ==
  ASSUME LogInv, SpanInv
  PROVE  LogSpan
<1> SUFFICES ASSUME NEW r \in log
             PROVE  lastId - r.id <= (Capacity - 1) * (now \div TTL + 1)
  BY DEF LogSpan
<1>1. now \in Nat /\ lastId \in Nat /\ r.id \in Nat
  BY DEF LogInv, LogTypeOK, Records
<1>2. lastId - r.id <= (Capacity - 1) * (now \div TTL) + Cardinality(Recent(r))
  BY DEF SpanInv
<1> DEFINE past == (Capacity - 1) * (now \div TTL)
<1>3. past \in Nat /\ (Capacity - 1) * (now \div TTL + 1) = past + (Capacity - 1)
  BY <1>1, Windows
<1> HIDE DEF past
<1>4. Cardinality(Recent(r)) \in Nat /\ Cardinality(Recent(r)) <= Capacity - 1
  BY RecentIsFinite
<1>5. lastId - r.id <= past + Cardinality(Recent(r))
  BY <1>2 DEF past
<1> QED BY <1>1, <1>3, <1>4, <1>5, LogAssumption

(* A record of the current window is not expired.                          *)
LEMMA RecentIsKept ==
  ASSUME LogInv, NEW r \in log, NEW q \in Recent(r)
  PROVE  q \in Pruned(log, now)
<1>1. /\ q \in log /\ q.updated \in Nat /\ q.updated <= now /\ now \in Nat
      /\ q.updated \div TTL = now \div TTL
  BY DEF Recent, LogInv, LogTypeOK, LogWellFormed, Records
<1>2. now - q.updated < TTL
  BY <1>1, Windows
<1> QED BY <1>1, <1>2, LogAssumption DEF Pruned, Expired

LEMMA PruneSpan ==
  ASSUME LogInv, SpanInv, LogSnapshot
  PROVE  SpanInv'
<1> SUFFICES ASSUME NEW r \in log'
             PROVE  lastId' - r.id <= (Capacity - 1) * (now' \div TTL) + Cardinality(Recent(r)')
  BY DEF SpanInv
<1>1. r \in log /\ log' = Pruned(log, now) /\ lastId' = lastId /\ now' = now
  BY DEF LogSnapshot, Pruned
<1>2. Recent(r)' = Recent(r)
  <2>1. \A q \in Recent(r) : q \in log'
    BY <1>1, RecentIsKept
  <2>2. log' \subseteq log
    BY <1>1 DEF Pruned
  <2> QED BY <1>1, <2>1, <2>2 DEF Recent
<1> QED BY <1>1, <1>2 DEF SpanInv

(* Room is made by taking the oldest record, so it never takes a recent    *)
(* one from beside a record that is kept.                                  *)
LEMMA RecentStays ==
  ASSUME LogInv, NEW r \in Evicted(Pruned(log, now))
  PROVE  r \in log /\ Recent(r) \subseteq Evicted(Pruned(log, now))
<1> DEFINE recs == Pruned(log, now)
<1>1. r \in recs /\ recs \in SUBSET log
  BY DEF Evicted, Pruned
<1>2. r.id \in Nat
  BY <1>1 DEF LogInv, LogTypeOK, Records
<1>3. ASSUME NEW q \in Recent(r), q \notin Evicted(recs) PROVE FALSE
  <2>1. q \in recs /\ q \in log /\ q.id > r.id /\ q.id \in Nat
    BY <1>1, <1>3, RecentIsKept DEF Recent, LogInv, LogTypeOK, Records
  <2>2. q = Oldest(recs)
    BY <1>3, <2>1 DEF Evicted
  <2>3. Oldest(recs).id <= r.id
    BY <1>1, OldestIsOldest
  <2> QED BY <1>2, <2>1, <2>2, <2>3
<1> QED BY <1>1, <1>3

(* The bound holds for the records that stay when one more job begins.     *)
LEMMA KeptIsYoung ==
  ASSUME LogInv, SpanInv, NEW r \in Evicted(Pruned(log, now))
  PROVE  lastId + 1 - r.id <= (Capacity - 1) * (now \div TTL + 1)
<1> DEFINE kept == Evicted(Pruned(log, now))
<1>1. Pruned(log, now) \in SUBSET log
  BY DEF Pruned
<1>2. IsFiniteSet(kept) /\ Cardinality(kept) \in Nat /\ Cardinality(kept) < Capacity
  BY <1>1, RoomForOne
<1>3. r \in log /\ Recent(r) \subseteq kept
  BY RecentStays
<1>4. lastId \in Nat /\ now \in Nat /\ r.id \in Nat /\ r \notin Recent(r)
  BY <1>3 DEF Recent, LogInv, LogTypeOK, Records
<1>5. IsFiniteSet(kept \ {r}) /\ Cardinality(kept \ {r}) = Cardinality(kept) - 1
  BY <1>2, FS_RemoveElement
<1>6. Cardinality(Recent(r)) <= Cardinality(kept \ {r})
  BY <1>3, <1>4, <1>5, FS_Subset
<1>7. Cardinality(Recent(r)) \in Nat
  BY <1>3, RecentIsFinite
<1> DEFINE past == (Capacity - 1) * (now \div TTL)
<1>8. past \in Nat /\ (Capacity - 1) * (now \div TTL + 1) = past + (Capacity - 1)
  BY <1>4, Windows
<1>9. lastId - r.id <= past + Cardinality(Recent(r))
  BY <1>3 DEF SpanInv
<1> HIDE DEF past, kept
<1> QED BY <1>2, <1>4, <1>5, <1>6, <1>7, <1>8, <1>9, LogAssumption

LEMMA BeginSpan ==
  ASSUME LogInv, SpanInv, NEW state \in JobStates, NEW job \in UpJobs \cup {NoJob},
         log' = Begun(log, lastId + 1, state, job, now), lastId' = lastId + 1, now' = now
  PROVE  SpanInv'
<1> DEFINE kept == Evicted(Pruned(log, now))
           new == [id |-> lastId + 1, state |-> state, updated |-> now, upstream |-> job]
<1>1. LogInv'
  BY BeginLog
<1>2. log' = kept \cup {new} /\ kept \subseteq Pruned(log, now) /\ kept \subseteq log
  BY DEF Begun, Evicted, Pruned
<1>3. lastId \in Nat /\ now \in Nat /\ \A q \in log : q.id \in Nat /\ q.id <= lastId
  BY DEF LogInv, LogTypeOK, LogWellFormed, Records
<1>4. new.id = lastId + 1 /\ new.updated = now
  OBVIOUS
<1> SUFFICES ASSUME NEW r \in log'
             PROVE  lastId' - r.id <= (Capacity - 1) * (now \div TTL) + Cardinality(Recent(r)')
  BY DEF SpanInv
<1> DEFINE past == (Capacity - 1) * (now \div TTL)
<1>5. past \in Nat
  BY <1>3, Windows
<1>6. CASE r = new
  <2>1. Cardinality(Recent(r)') \in Nat
    BY <1>1, RecentStaysFinite
  <2>2. lastId' - r.id = 0
    BY <1>3, <1>4, <1>6
  <2> HIDE DEF past
  <2>3. 0 <= past + Cardinality(Recent(r)')
    BY <1>5, <2>1
  <2> QED BY <2>2, <2>3 DEF past
<1>7. CASE r \in kept
  <2>1. r \in log /\ r.id \in Nat
    BY <1>2, <1>3, <1>7
  <2>2. Recent(r) \subseteq kept
    BY <1>7, RecentStays
  <2>3. Recent(r)' = Recent(r) \cup {new}
    <3>1. new.id > r.id
      BY <1>3, <1>4, <2>1
    <3> HIDE DEF new, kept
    <3> QED BY <1>2, <1>4, <2>2, <3>1 DEF Recent
  <2>4. new \notin Recent(r)
    BY <1>3, <1>4 DEF Recent
  <2>5. IsFiniteSet(Recent(r)) /\ Cardinality(Recent(r)) \in Nat
    BY <2>1, RecentIsFinite
  <2>6. Cardinality(Recent(r)') = Cardinality(Recent(r)) + 1
    BY <2>3, <2>4, <2>5, FS_AddElement
  <2>7. lastId - r.id <= past + Cardinality(Recent(r))
    BY <2>1 DEF SpanInv
  <2> HIDE DEF past
  <2>8. lastId + 1 - r.id <= past + Cardinality(Recent(r)')
    BY <1>3, <1>5, <2>1, <2>5, <2>6, <2>7
  <2>9. lastId' - r.id <= past + Cardinality(Recent(r)')
    BY <1>3, <2>1, <2>8
  <2> QED BY <2>9, Zenon DEF past
<1> QED BY <1>2, <1>6, <1>7

LEMMA RewriteSpan ==
  ASSUME LogInv, SpanInv, NEW f \in [log -> Records],
         \A r \in log : f[r].id = r.id /\ f[r].updated \in {r.updated, now},
         log' = {f[r] : r \in log}, lastId' = lastId, now' = now
  PROVE  SpanInv'
<1> SUFFICES ASSUME NEW s \in log
             PROVE  lastId - f[s].id
                      <= (Capacity - 1) * (now \div TTL) + Cardinality(Recent(f[s])')
  BY DEF SpanInv
<1>1. LogInv'
  BY RewriteLog
<1>2. f[s] \in log'
  OBVIOUS
<1>3. IsFiniteSet(Recent(f[s])') /\ Cardinality(Recent(f[s])') \in Nat
  BY <1>1, <1>2, RecentStaysFinite
<1> DEFINE g == [q \in Recent(s) |-> f[q]]
<1>4. g \in Injection(Recent(s), Recent(f[s])')
  <2>1. \A q \in Recent(s) : f[q] \in Recent(f[s])'
    BY DEF Recent
  <2>2. \A q, p \in Recent(s) : f[q] = f[p] => q = p
    BY DEF Recent, LogInv, LogWellFormed
  <2> QED BY <2>1, <2>2 DEF Injection, IsInjective
<1>5. Cardinality(Recent(s)) <= Cardinality(Recent(f[s])')
  <2> HIDE DEF g
  <2> QED BY <1>3, <1>4, FS_Injection
<1>6. Cardinality(Recent(s)) \in Nat
  BY RecentIsFinite
<1>7. lastId - s.id <= (Capacity - 1) * (now \div TTL) + Cardinality(Recent(s))
  BY DEF SpanInv
<1> DEFINE past == (Capacity - 1) * (now \div TTL)
<1>8. past \in Nat /\ lastId \in Nat /\ s.id \in Nat /\ f[s].id = s.id
  BY Windows DEF LogInv, LogTypeOK, Records
<1>9. lastId - s.id <= past + Cardinality(Recent(s))
  BY <1>7
<1> HIDE DEF past
<1>10. lastId - f[s].id <= past + Cardinality(Recent(f[s])')
  BY <1>3, <1>5, <1>6, <1>8, <1>9
<1> QED BY <1>10 DEF past

LEMMA TickSpan ==
  ASSUME LogInv, SpanInv, LogTick
  PROVE  SpanInv'
<1>1. LogInv'
  BY TickLog
<1>2. now \in Nat /\ now' = now + 1 /\ log' = log /\ lastId' = lastId /\ lastId \in Nat
  BY DEF LogTick, LogInv, LogTypeOK
<1> SUFFICES ASSUME NEW r \in log
             PROVE  lastId - r.id <= (Capacity - 1) * (now' \div TTL) + Cardinality(Recent(r)')
  BY <1>2 DEF SpanInv
<1>3. Cardinality(Recent(r)') \in Nat /\ r.id \in Nat
  <2>1. Cardinality(Recent(r)') \in Nat
    BY <1>1, <1>2, RecentStaysFinite
  <2> QED BY <2>1 DEF LogInv, LogTypeOK, Records
<1>4. CASE now' \div TTL = now \div TTL
  <2>1. Recent(r)' = Recent(r)
    BY <1>2, <1>4 DEF Recent
  <2> QED BY <1>4, <2>1 DEF SpanInv
<1>5. CASE now' \div TTL = now \div TTL + 1
  <2> DEFINE past == (Capacity - 1) * (now \div TTL + 1)
  <2>1. lastId - r.id <= past
    BY SpanFollows DEF LogSpan
  <2>2. past \in Nat
    <3>1. now \div TTL + 1 \in Nat /\ Capacity - 1 \in Nat
      BY <1>2, Windows, LogAssumption
    <3> QED BY <3>1
  <2> HIDE DEF past
  <2>3. lastId - r.id <= past + Cardinality(Recent(r)')
    BY <1>2, <1>3, <2>1, <2>2
  <2> QED BY <1>5, <2>3 DEF past
<1> QED BY <1>2, <1>4, <1>5, Windows

(* The log keeps at most Capacity records and an id names at most one of   *)
(* them, whatever is begun, updated, attached and forgotten in any order.  *)
THEOREM LogCorrect == LogSpec => [](LogTypeOK /\ LogWellFormed)
<1>1. LogInv /\ [LogNext]_logVars => LogInv'
  <2> SUFFICES ASSUME LogInv, [LogNext]_logVars PROVE LogInv'
    OBVIOUS
  <2>1. ASSUME NEW state \in JobStates, LogBegin(state) PROVE LogInv'
    BY <2>1, BeginLog DEF LogBegin
  <2>2. ASSUME NEW id, NEW state \in JobStates, LogUpdate(id, state) PROVE LogInv'
    BY <2>2, UpdateLog
  <2>3. ASSUME NEW id, NEW job \in UpJobs, LogAttach(id, job) PROVE LogInv'
    BY <2>3, AttachLog
  <2>4. CASE LogSnapshot
    BY <2>4, PruneLog
  <2>5. CASE LogTick
    BY <2>5, TickLog
  <2>6. CASE UNCHANGED logVars
    BY <2>6 DEF logVars, LogInv, LogTypeOK, LogWellFormed
  <2> QED BY <2>1, <2>2, <2>3, <2>4, <2>5, <2>6 DEF LogNext
<1> QED BY <1>1, LogInitInv, PTL DEF LogSpec, LogInv

(* Every step keeps the bound on the age of the records as well.           *)
LEMMA LogStep ==
  ASSUME LogInv, SpanInv, [LogNext]_logVars
  PROVE  LogInv' /\ SpanInv'
<1>1. ASSUME NEW state \in JobStates, LogBegin(state) PROVE LogInv' /\ SpanInv'
  BY <1>1, BeginLog, BeginSpan DEF LogBegin
<1>2. ASSUME NEW id, NEW state \in JobStates, LogUpdate(id, state) PROVE LogInv' /\ SpanInv'
  BY <1>2, UpdateLog, UpdateRewrites, RewriteSpan DEF Rewrites
<1>3. ASSUME NEW id, NEW job \in UpJobs, LogAttach(id, job) PROVE LogInv' /\ SpanInv'
  BY <1>3, AttachLog, AttachRewrites, RewriteSpan DEF Rewrites
<1>4. CASE LogSnapshot
  BY <1>4, PruneLog, PruneSpan
<1>5. CASE LogTick
  BY <1>5, TickLog, TickSpan
<1>6. CASE UNCHANGED logVars
  BY <1>6 DEF logVars, LogInv, LogTypeOK, LogWellFormed, SpanInv, Recent
<1> QED BY <1>1, <1>2, <1>3, <1>4, <1>5, <1>6 DEF LogNext

(* A record of the job page is outlived by at most Capacity - 1 jobs in    *)
(* every time to live the device has run, whatever touches it meanwhile.   *)
THEOREM RecordsAreRecent == LogSpec => []LogSpan
<1>1. LogInit => LogInv /\ SpanInv
  BY LogInitInv DEF LogInit, SpanInv
<1>2. LogInv /\ SpanInv => LogSpan
  BY SpanFollows
<1>3. LogInv /\ SpanInv /\ [LogNext]_logVars => LogInv' /\ SpanInv'
  BY LogStep
<1> QED BY <1>1, <1>2, <1>3, PTL DEF LogSpec
=============================================================================
