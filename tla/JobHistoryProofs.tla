-------------------------- MODULE JobHistoryProofs --------------------------
(***************************************************************************)
(* Proofs about JobHistory: the array of job_history.c implements the log  *)
(* of JobLog, also over the wrap of its counter, and its queries answer    *)
(* from the newest records. The lemmas of JobLogProofs are used for the    *)
(* log that the array stands for.                                          *)
(***************************************************************************)
EXTENDS JobHistory, FiniteSetTheorems, SequenceTheorems, TLAPS

LogProof == INSTANCE JobLogProofs WITH
  log <- {Numbered(records[i]) : i \in 1..Len(records)}, lastId <- begun

----------------------------------------------------------------------------
(* The compaction loop.                                                    *)
Kept(s, t) == {i \in 1..Len(s) : ~Log!Expired(s[i], t)}

(* f says from where the k-th record of the shorter array comes.           *)
Compacts(f, s, p, t) ==
  /\ f \in [1..Len(p) -> Kept(s, t)]
  /\ \A k \in 1..Len(p) : p[k] = s[f[k]]
  /\ \A k, m \in 1..Len(p) : k < m => f[k] < f[m]
  /\ \A i \in Kept(s, t) : \E k \in 1..Len(p) : f[k] = i

LEMMA Compaction ==
  ASSUME NEW S, NEW s \in Seq(S), NEW t
  PROVE  /\ prune(s, t) \in Seq(S) /\ Len(prune(s, t)) <= Len(s)
         /\ \E f : Compacts(f, s, prune(s, t), t)
<1> DEFINE K == Kept(s, t)
           N == Cardinality(K)
           upto(i) == {j \in K : j <= i}
           place == [i \in K |-> Cardinality(upto(i))]
           f == [k \in 1..N |-> CHOOSE i \in K : Cardinality(upto(i)) = k]
<1>1. IsFiniteSet(1..Len(s)) /\ Cardinality(1..Len(s)) = Len(s) /\ Len(s) \in Nat
  <2>1. Len(s) \in Nat
    OBVIOUS
  <2> QED BY <2>1, FS_Interval
<1>2. K \subseteq 1..Len(s) /\ \A i \in K : i \in Nat /\ s[i] \in S
  BY DEF Kept
<1>3. IsFiniteSet(K) /\ N \in Nat /\ N <= Len(s)
  BY <1>1, <1>2, FS_Subset, FS_CardinalityType
<1>4. prune(s, t) = [k \in 1..N |-> s[CHOOSE i \in K : Cardinality(upto(i)) = k]]
  BY Zenon DEF prune, Kept
<1>5. ASSUME NEW i \in K
      PROVE  IsFiniteSet(upto(i)) /\ place[i] \in 1..N
  <2>1. IsFiniteSet(upto(i)) /\ Cardinality(upto(i)) <= N /\ Cardinality(upto(i)) \in Nat
    BY <1>3, FS_Subset, FS_CardinalityType
  <2>2. i \in upto(i)
    BY <1>2
  <2>3. Cardinality(upto(i)) # 0
    BY <2>1, <2>2, FS_EmptySet
  <2> HIDE DEF N, upto
  <2> QED BY <1>3, <2>1, <2>3
<1>6. ASSUME NEW i \in K, NEW j \in K, i < j
      PROVE  place[i] < place[j]
  <2>1. upto(i) \subseteq upto(j) /\ j \in upto(j) /\ j \notin upto(i)
    BY <1>2, <1>6
  <2>2. IsFiniteSet(upto(j)) /\ IsFiniteSet(upto(i)) /\ place[i] \in 1..N /\ place[j] \in 1..N
    BY <1>5
  <2>3. Cardinality(upto(i)) <= Cardinality(upto(j)) /\ Cardinality(upto(i)) # Cardinality(upto(j))
    BY <2>1, <2>2, FS_Subset
  <2>4. place[i] = Cardinality(upto(i)) /\ place[j] = Cardinality(upto(j))
    OBVIOUS
  <2> HIDE DEF N, upto, place
  <2> QED BY <1>3, <2>2, <2>3, <2>4
<1> HIDE DEF K, N, upto, place
<1>7. \A i, j \in K : i # j => place[i] # place[j]
  <2> SUFFICES ASSUME NEW i \in K, NEW j \in K, i # j PROVE place[i] # place[j]
    OBVIOUS
  <2>1. i < j \/ j < i
    BY <1>2
  <2> QED BY <1>3, <1>5, <1>6, <2>1
<1>8. place \in Injection(K, 1..N)
  BY <1>5, <1>7 DEF place, Injection, IsInjective
<1>9. place \in Surjection(K, 1..N)
  <2>1. IsFiniteSet(1..N) /\ Cardinality(1..N) = N
    BY <1>3, FS_Interval
  <2> QED BY <1>3, <1>8, <2>1, FS_Injection DEF N
<1>10. \A k \in 1..N : f[k] \in K /\ place[f[k]] = k
  <2>1. \A i \in K : place[i] = Cardinality(upto(i))
    BY DEF place
  <2>2. \A k \in 1..N : \E i \in K : Cardinality(upto(i)) = k
    BY <1>9, <2>1 DEF Surjection
  <2>3. \A k \in 1..N : f[k] \in K /\ Cardinality(upto(f[k])) = k
    BY <2>2, Zenon
  <2> HIDE DEF f
  <2> QED BY <2>1, <2>3
<1>11. prune(s, t) = [k \in 1..N |-> s[f[k]]]
  BY <1>4, Zenon
<1> HIDE DEF f
<1>12. prune(s, t) \in Seq(S) /\ Len(prune(s, t)) = N
  <2>1. \A k \in 1..N : s[f[k]] \in S
    BY <1>2, <1>10
  <2>2. prune(s, t) \in [1..N -> S]
    BY <1>11, <2>1
  <2> QED BY <1>3, <2>2
<1>13. \A k, m \in 1..N : k < m => f[k] < f[m]
  <2> SUFFICES ASSUME NEW k \in 1..N, NEW m \in 1..N, k < m PROVE f[k] < f[m]
    OBVIOUS
  <2>1. f[k] \in K /\ f[m] \in K /\ place[f[k]] = k /\ place[f[m]] = m
    BY <1>10
  <2>2. f[k] # f[m] /\ ~(f[m] < f[k])
    BY <1>3, <1>6, <2>1
  <2>3. f[k] \in Nat /\ f[m] \in Nat
    BY <1>2, <2>1
  <2> QED BY <2>2, <2>3
<1>14. \A i \in K : \E k \in 1..N : f[k] = i
  BY <1>5, <1>7, <1>10
<1>15. f \in [1..N -> K]
  BY <1>10 DEF f
<1>16. Compacts(f, s, prune(s, t), t)
  BY <1>11, <1>12, <1>13, <1>14, <1>15 DEF Compacts, K
<1> QED BY <1>3, <1>12, <1>16

----------------------------------------------------------------------------
(* Ids and the jobs they stand for.                                        *)
Entries ==
  [id : 1..MaxId, state : Log!JobStates, updated : Nat, upstream : UpJobs \cup {NoJob}]

Counter ==
  /\ begun \in 0..MaxJobs /\ next_id \in 0..MaxId
  /\ begun <= MaxId => next_id = begun
  /\ begun > MaxId => next_id # 0

Sorted(s) == \A i, j \in 1..Len(s) : i < j => JobOf(s[i].id) < JobOf(s[j].id)

Image(s) == {Numbered(s[i]) : i \in 1..Len(s)}

(* The instances have the notions of finite sets under names of their own. *)
LEMMA SameCardinality ==
  ASSUME NEW S
  PROVE  Log!Cardinality(S) = Cardinality(S) /\ LogProof!Cardinality(S) = Cardinality(S)
  BY Zenon DEF Log!Cardinality, LogProof!Cardinality, Cardinality

LEMMA SameOldest ==
  ASSUME NEW recs
  PROVE  Log!Oldest(recs) = LogProof!Oldest(recs)
  BY Zenon DEF Log!Oldest, LogProof!Oldest

LEMMA SameBegun ==
  ASSUME NEW recs, NEW t
  PROVE  /\ Log!Pruned(recs, t) = LogProof!Pruned(recs, t)
         /\ Log!Evicted(recs) = LogProof!Evicted(recs)
  BY SameOldest, SameCardinality
  DEF Log!Pruned, LogProof!Pruned, Log!Expired, LogProof!Expired, Log!Evicted, LogProof!Evicted

LEMMA Constants ==
  /\ Capacity \in Nat \ {0} /\ TTL \in Nat \ {0} /\ NoJob \notin UpJobs
  /\ MaxNow \in Nat /\ MaxJobs \in Nat /\ MaxId \in Nat
  BY HistoryAssumption

LEMMA SmallerOfTwo ==
  ASSUME NEW a \in Nat, NEW b \in Nat
  PROVE  Min({a, b}) \in Nat /\ Min({a, b}) <= a /\ Min({a, b}) <= b
<1>1. \E x \in {a, b} : \A y \in {a, b} : x <= y
  <2>1. CASE a <= b
    BY <2>1
  <2>2. CASE b <= a
    BY <2>2
  <2> QED BY <2>1, <2>2
<1>2. Min({a, b}) \in {a, b} /\ \A y \in {a, b} : Min({a, b}) <= y
  BY <1>1, Zenon DEF Min
<1> QED BY <1>2

(* The ids 1..MaxId stand for the last MaxId jobs, one each.               *)
LEMMA OneJobPerId ==
  ASSUME Counter, NEW i \in 1..MaxId, NEW j \in 1..MaxId
  PROVE  /\ JobOf(i) \in Int /\ JobOf(i) <= begun
         /\ JobOf(i) = JobOf(j) => i = j
         /\ i \in Issued => JobOf(i) \in 1..begun
<1>1. MaxId \in Nat /\ MaxJobs \in Nat /\ begun \in Nat /\ next_id \in Nat /\ next_id <= MaxId
  BY Constants DEF Counter
<1>2. i \in Issued => i <= begun
  <2>1. Min({begun, MaxId}) \in Nat /\ Min({begun, MaxId}) <= begun
    BY <1>1, SmallerOfTwo
  <2> QED BY <1>1, <2>1 DEF Issued
<1> QED BY <1>1, <1>2 DEF Counter, JobOf

LEMMA EntryOf ==
  ASSUME NEW s \in Seq(Entries), NEW i \in 1..Len(s)
  PROVE  s[i] \in Entries /\ s[i].id \in 1..MaxId
<1>1. s[i] \in Entries
  OBVIOUS
<1> QED BY <1>1 DEF Entries

LEMMA NumberedRecord ==
  ASSUME NEW r \in Entries
  PROVE  /\ Numbered(r).id = JobOf(r.id) /\ Numbered(r).state = r.state
         /\ Numbered(r).updated = r.updated /\ Numbered(r).upstream = r.upstream
         /\ \A t : Log!Expired(Numbered(r), t) <=> Log!Expired(r, t)
<1>1. /\ Numbered(r).id = JobOf(r.id) /\ Numbered(r).state = r.state
      /\ Numbered(r).updated = r.updated /\ Numbered(r).upstream = r.upstream
  BY DEF Numbered, Entries
<1> QED BY <1>1 DEF Log!Expired

(* The records of a sorted array are as many as the array is long.         *)
LEMMA SortedIsDistinct ==
  ASSUME Counter, NEW s \in Seq(Entries), Sorted(s),
         NEW i \in 1..Len(s), NEW j \in 1..Len(s)
  PROVE  /\ JobOf(s[i].id) \in Int /\ JobOf(s[j].id) \in Int
         /\ JobOf(s[i].id) = JobOf(s[j].id) => i = j
         /\ JobOf(s[i].id) < JobOf(s[j].id) => i < j
<1>1. s[i] \in Entries /\ s[j] \in Entries /\ i \in Int /\ j \in Int
  OBVIOUS
<1>2. s[i].id \in 1..MaxId /\ s[j].id \in 1..MaxId
  BY <1>1 DEF Entries
<1>3. JobOf(s[i].id) \in Int /\ JobOf(s[j].id) \in Int
  BY <1>2, OneJobPerId
<1>4. /\ i < j => JobOf(s[i].id) < JobOf(s[j].id)
      /\ j < i => JobOf(s[j].id) < JobOf(s[i].id)
  BY DEF Sorted
<1> QED BY <1>1, <1>3, <1>4

LEMMA ImageCount ==
  ASSUME Counter, NEW s \in Seq(Entries), Sorted(s)
  PROVE  IsFiniteSet(Image(s)) /\ Cardinality(Image(s)) = Len(s)
<1> DEFINE g == [i \in 1..Len(s) |-> Numbered(s[i])]
<1>1. Len(s) \in Nat
  OBVIOUS
<1>2. \A i, j \in 1..Len(s) : Numbered(s[i]) = Numbered(s[j]) => i = j
  <2> SUFFICES ASSUME NEW i \in 1..Len(s), NEW j \in 1..Len(s), Numbered(s[i]) = Numbered(s[j])
               PROVE  i = j
    OBVIOUS
  <2>1. s[i] \in Entries /\ s[j] \in Entries
    OBVIOUS
  <2>2. JobOf(s[i].id) = JobOf(s[j].id)
    BY <2>1, NumberedRecord
  <2> QED BY <2>2, SortedIsDistinct
<1>3. g \in Bijection(1..Len(s), Image(s))
  BY <1>2 DEF Image, Bijection, Injection, IsInjective, Surjection
<1>4. ExistsBijection(1..Len(s), Image(s))
  BY <1>3 DEF ExistsBijection
<1>5. IsFiniteSet(1..Len(s))
  BY <1>1, FS_Interval
<1> QED BY <1>1, <1>4, <1>5, FS_CountingElements, FS_Bijection

(* Compaction of a sorted array prunes the log and leaves it sorted.       *)
LEMMA PruneImage ==
  ASSUME NEW s \in Seq(Entries), Sorted(s), NEW t
  PROVE  /\ Image(prune(s, t)) = Log!Pruned(Image(s), t)
         /\ Sorted(prune(s, t))
<1> DEFINE p == prune(s, t)
<1>1. PICK f : Compacts(f, s, p, t)
  BY Compaction
<1>2. p \in Seq(Entries) /\ Len(p) \in Nat /\ Len(s) \in Nat
  BY Compaction
<1> HIDE DEF p
<1>3. \A k \in 1..Len(p) : f[k] \in 1..Len(s) /\ p[k] = s[f[k]] /\ ~Log!Expired(s[f[k]], t)
  BY <1>1 DEF Compacts, Kept
<1>4. \A i \in 1..Len(s) : ~Log!Expired(s[i], t) => \E k \in 1..Len(p) : f[k] = i
  BY <1>1 DEF Compacts, Kept
<1>5. \A i \in 1..Len(s) : Log!Expired(Numbered(s[i]), t) <=> Log!Expired(s[i], t)
  <2>1. \A i \in 1..Len(s) : s[i] \in Entries
    OBVIOUS
  <2> QED BY <2>1, NumberedRecord
<1>6. Image(p) = Log!Pruned(Image(s), t)
  BY <1>3, <1>4, <1>5 DEF Image, Log!Pruned
<1>7. Sorted(p)
  BY <1>1, <1>3 DEF Sorted, Compacts
<1> QED BY <1>6, <1>7 DEF p

(* The first record of a sorted array is the oldest of its log.            *)
LEMMA EvictImage ==
  ASSUME Counter, NEW s \in Seq(Entries), Sorted(s), Len(s) <= Capacity
  PROVE  /\ evict(s) \in Seq(Entries) /\ Len(evict(s)) < Capacity
         /\ Image(evict(s)) = Log!Evicted(Image(s))
         /\ Sorted(evict(s))
<1>1. IsFiniteSet(Image(s)) /\ Cardinality(Image(s)) = Len(s) /\ Len(s) \in Nat
  BY ImageCount
<1>2. CASE Len(s) # Capacity
  BY <1>1, <1>2, Constants, SameCardinality DEF evict, Log!Evicted
<1>3. CASE Len(s) = Capacity
  <2>1. s # <<>> /\ 1 \in 1..Len(s)
    BY <1>1, <1>3, Constants
  <2>2. /\ evict(s) = Tail(s) /\ Tail(s) \in Seq(Entries) /\ Len(Tail(s)) = Len(s) - 1
        /\ \A i \in 1..Len(Tail(s)) : Tail(s)[i] = s[i + 1] /\ i + 1 \in 1..Len(s)
    BY <1>3, <2>1 DEF evict
  <2>3. \A i \in 1..Len(s) : i # 1 => i - 1 \in 1..Len(Tail(s)) /\ Tail(s)[i - 1] = s[i]
    BY <1>1, <2>1, <2>2
  <2>4. \A i \in 1..Len(s) : Numbered(s[i]).id = JobOf(s[i].id) /\ JobOf(s[i].id) \in Int
    <3>1. \A i \in 1..Len(s) : s[i] \in Entries
      OBVIOUS
    <3> QED BY <3>1, NumberedRecord, SortedIsDistinct
  <2>5. \A i \in 1..Len(s) : i # 1 => JobOf(s[1].id) < JobOf(s[i].id)
    BY <2>1 DEF Sorted
  <2>6. Log!Oldest(Image(s)) = Numbered(s[1])
    <3>1. Numbered(s[1]) \in Image(s) /\ \A q \in Image(s) : Numbered(s[1]).id <= q.id
      BY <2>1, <2>4, <2>5 DEF Image
    <3>2. ASSUME NEW r \in Image(s), \A q \in Image(s) : r.id <= q.id
          PROVE  r = Numbered(s[1])
      <4>1. PICK i \in 1..Len(s) : r = Numbered(s[i])
        BY DEF Image
      <4>2. JobOf(s[i].id) <= JobOf(s[1].id)
        BY <2>1, <2>4, <3>1, <3>2, <4>1
      <4> QED BY <2>1, <2>4, <2>5, <4>1, <4>2
    <3> QED BY <3>1, <3>2, Zenon DEF Log!Oldest
  <2>7. \A i \in 1..Len(s) : i # 1 => Numbered(s[i]) # Numbered(s[1])
    BY <2>1, <2>4, <2>5
  <2>8. Image(Tail(s)) = Image(s) \ {Numbered(s[1])}
    <3>1. \A i \in 1..Len(Tail(s)) : Numbered(Tail(s)[i]) \in Image(s) \ {Numbered(s[1])}
      <4> SUFFICES ASSUME NEW i \in 1..Len(Tail(s))
                   PROVE  Numbered(s[i + 1]) \in Image(s) \ {Numbered(s[1])}
        BY <2>2
      <4>1. i + 1 \in 1..Len(s) /\ i + 1 # 1
        BY <2>2
      <4> QED BY <2>7, <4>1 DEF Image
    <3>2. \A i \in 1..Len(s) : i # 1 => Numbered(s[i]) \in Image(Tail(s))
      BY <2>3 DEF Image
    <3> QED BY <3>1, <3>2 DEF Image
  <2>9. Sorted(Tail(s))
    <3> SUFFICES ASSUME NEW i \in 1..Len(Tail(s)), NEW j \in 1..Len(Tail(s)), i < j
                 PROVE  JobOf(s[i + 1].id) < JobOf(s[j + 1].id)
      BY <2>2 DEF Sorted
    <3>1. i + 1 \in 1..Len(s) /\ j + 1 \in 1..Len(s) /\ i + 1 < j + 1
      BY <2>2
    <3> QED BY <3>1 DEF Sorted
  <2> QED BY <1>1, <1>3, <2>2, <2>6, <2>8, <2>9, Constants, SameCardinality DEF Log!Evicted
<1> QED BY <1>2, <1>3

----------------------------------------------------------------------------
HistoryTypes ==
  /\ records \in Seq(Entries) /\ Len(records) <= Capacity
  /\ now \in 0..MaxNow
  /\ shown \in Seq(Entries)

HistoryInv ==
  /\ HistoryTypes /\ Counter /\ Sorted(records)
  /\ LogProof!LogInv /\ LogProof!SpanInv

(* The id given to a new job is not that of a record that stays: such a    *)
(* record is younger than the number of ids. So no record that stays       *)
(* changes the job it stands for.                                          *)
LEMMA CounterStep ==
  ASSUME Counter, begun < MaxJobs, begun' = begun + 1, next_id' = increment(next_id)
  PROVE  /\ Counter' /\ next_id' \in 1..MaxId /\ JobOf(next_id)' = begun + 1
         /\ \A id \in 1..MaxId : begun + 1 - JobOf(id) < MaxId => JobOf(id)' = JobOf(id)
<1>1. MaxId \in Nat \ {0} /\ MaxJobs \in Nat /\ begun \in Nat /\ next_id \in 0..MaxId
  <2>1. MaxId > (Capacity - 1) * (MaxNow \div TTL + 1) /\ MaxId \in Nat
    BY HistoryAssumption
  <2>2. (Capacity - 1) * (MaxNow \div TTL + 1) \in Nat
    <3>1. Capacity - 1 \in Nat /\ MaxNow \div TTL + 1 \in Nat
      BY Constants
    <3> QED BY <3>1
  <2>3. MaxId # 0
    BY <2>1, <2>2
  <2> QED BY <2>1, <2>3, Constants DEF Counter
<1>2. next_id' = IF next_id = MaxId THEN 1 ELSE next_id + 1
  <2>1. (next_id + 1) % (MaxId + 1) = IF next_id = MaxId THEN 0 ELSE next_id + 1
    BY <1>1
  <2> QED BY <1>1, <2>1 DEF increment
<1>3. Counter' /\ next_id' \in 1..MaxId
  BY <1>1, <1>2 DEF Counter
<1>4. JobOf(next_id)' = begun + 1
  BY <1>1, <1>3 DEF JobOf
<1>5. ASSUME NEW id \in 1..MaxId, begun + 1 - JobOf(id) < MaxId
      PROVE  JobOf(id)' = JobOf(id)
  BY <1>1, <1>2, <1>5 DEF JobOf
<1> QED BY <1>3, <1>4, <1>5

LEMMA SpanFits ==
  ASSUME NEW t \in 0..MaxNow
  PROVE  (Capacity - 1) * (t \div TTL + 1) \in Nat /\ (Capacity - 1) * (t \div TTL + 1) < MaxId
<1> DEFINE c == Capacity - 1
           w == t \div TTL + 1
           m == MaxNow \div TTL + 1
<1>1. c \in Nat /\ w \in Nat /\ m \in Nat /\ w <= m
  BY Constants
<1>2. c * m < MaxId /\ MaxId \in Nat
  BY HistoryAssumption
<1> HIDE DEF c, w, m
<1>3. c * w \in Nat /\ c * m \in Nat /\ c * w <= c * m
  BY <1>1
<1>4. c * w < MaxId
  BY <1>2, <1>3
<1> QED BY <1>3, <1>4 DEF c, w

(* The log before a step is the image of the records.                      *)
LEMMA LogIsImage ==
  /\ Image(records) = {Numbered(records[i]) : i \in 1..Len(records)}
  /\ Image(records)' = {Numbered(records[i]) : i \in 1..Len(records)}'
  BY DEF Image

LEMMA KeptKeepsJob ==
  ASSUME HistoryInv, begun < MaxJobs, begun' = begun + 1, next_id' = increment(next_id),
         NEW r \in Entries, Numbered(r) \in Log!Evicted(Log!Pruned(Image(records), now))
  PROVE  JobOf(r.id)' = JobOf(r.id) /\ JobOf(r.id) <= begun
<1>1. Numbered(r) \in LogProof!Evicted(LogProof!Pruned(Image(records), now))
  BY SameBegun
<1>2. begun + 1 - Numbered(r).id <= (Capacity - 1) * (now \div TTL + 1)
  BY <1>1, LogIsImage, LogProof!KeptIsYoung, HistoryAssumption DEF HistoryInv
<1>3. Counter /\ now \in 0..MaxNow /\ begun \in Nat /\ r.id \in 1..MaxId /\ MaxId \in Nat
  BY Constants DEF HistoryInv, HistoryTypes, Counter, Entries
<1>4. JobOf(r.id) \in Int /\ JobOf(r.id) <= begun /\ Numbered(r).id = JobOf(r.id)
  BY <1>3, OneJobPerId, NumberedRecord
<1> DEFINE span == (Capacity - 1) * (now \div TTL + 1)
<1>5. span \in Nat /\ span < MaxId /\ begun + 1 - JobOf(r.id) <= span
  BY <1>2, <1>3, <1>4, SpanFits
<1> HIDE DEF span
<1>6. begun + 1 - JobOf(r.id) < MaxId
  BY <1>3, <1>4, <1>5
<1> QED BY <1>3, <1>4, <1>6, CounterStep

----------------------------------------------------------------------------
(* One lemma per operation: it keeps the array sorted, and it is the       *)
(* operation of the log.                                                   *)
ArrayInv == HistoryTypes /\ Counter /\ Sorted(records)

LEMMA BeginStep ==
  ASSUME HistoryInv, NEW state \in {"QUEUED", "SENDING"}, begin(state)
  PROVE  ArrayInv' /\ Log!LogBegin(state)
<1> DEFINE e == evict(prune(records, now))
           new == [id |-> next_id', state |-> state, updated |-> now, upstream |-> NoJob]
           kept == Log!Evicted(Log!Pruned(Image(records), now))
<1>1. /\ begun < MaxJobs /\ begun' = begun + 1 /\ next_id' = increment(next_id)
      /\ records' = Append(e, new) /\ now' = now /\ shown' = shown
  BY DEF begin
<1>2. /\ Counter /\ Sorted(records) /\ records \in Seq(Entries) /\ Len(records) <= Capacity
      /\ now \in 0..MaxNow /\ shown \in Seq(Entries) /\ begun \in Nat /\ MaxId \in Nat
  BY Constants DEF HistoryInv, HistoryTypes, Counter
<1>3. /\ Counter' /\ next_id' \in 1..MaxId /\ JobOf(next_id)' = begun + 1
  BY <1>1, <1>2, CounterStep
<1>4. /\ e \in Seq(Entries) /\ Len(e) < Capacity /\ Image(e) = kept /\ Sorted(e)
  <2>1. /\ prune(records, now) \in Seq(Entries) /\ Len(prune(records, now)) <= Len(records)
    BY <1>2, Compaction
  <2>2. /\ Image(prune(records, now)) = Log!Pruned(Image(records), now)
        /\ Sorted(prune(records, now))
    BY <1>2, PruneImage
  <2>3. Len(prune(records, now)) <= Capacity
    BY <1>2, <2>1, Constants
  <2> QED BY <1>2, <2>1, <2>2, <2>3, EvictImage
<1>5. new \in Entries
  BY <1>2, <1>3 DEF Entries, Log!JobStates
<1> HIDE DEF e, new
<1>6. /\ records' \in Seq(Entries) /\ Len(records') = Len(e) + 1 /\ Len(e) \in Nat
      /\ \A i \in 1..Len(e) : records'[i] = e[i]
      /\ records'[Len(e) + 1] = new
  BY <1>1, <1>4, <1>5
<1>7. \A i \in 1..Len(e) : e[i] \in Entries /\ e[i].id \in 1..MaxId /\ Numbered(e[i]) \in kept
  <2> SUFFICES ASSUME NEW i \in 1..Len(e)
               PROVE  e[i] \in Entries /\ e[i].id \in 1..MaxId /\ Numbered(e[i]) \in kept
    OBVIOUS
  <2>1. e[i] \in Entries
    BY <1>4
  <2> QED BY <1>4, <2>1 DEF Entries, Image
<1> DEFINE job == [id \in 1..MaxId |-> JobOf(id)']
           num == [r \in Entries |-> Numbered(r)']
<1>8. \A r \in Entries : Numbered(r) \in kept =>
        job[r.id] = JobOf(r.id) /\ JobOf(r.id) <= begun /\ JobOf(r.id) \in Int
  <2> SUFFICES ASSUME NEW r \in Entries, Numbered(r) \in kept
               PROVE  job[r.id] = JobOf(r.id) /\ JobOf(r.id) <= begun /\ JobOf(r.id) \in Int
    OBVIOUS
  <2>1. r.id \in 1..MaxId
    BY DEF Entries
  <2>2. JobOf(r.id)' = JobOf(r.id) /\ JobOf(r.id) <= begun
    BY <1>1, KeptKeepsJob
  <2> QED BY <1>2, <2>1, <2>2, OneJobPerId
<1>9. \A r \in Entries : num[r] = [r EXCEPT !.id = job[r.id]]
  BY DEF Numbered, Entries
<1>10. job[next_id'] = begun + 1
  <2>1. \A id \in 1..MaxId : id = next_id' => JobOf(id)' = begun + 1
    BY <1>3 DEF JobOf
  <2> QED BY <1>3, <2>1
<1>11. Image(records)' = {num[records'[i]] : i \in 1..Len(records')}
  <2>2. \A i \in 1..Len(records') : records'[i] \in Entries /\ records'[i].id \in 1..MaxId
    BY <1>6, EntryOf
  <2>3. \A i \in 1..Len(records') : job[records'[i].id] = JobOf(records[i].id)'
    BY <2>2 DEF JobOf
  <2> HIDE DEF job, num
  <2>4. \A i \in 1..Len(records') :
          num[records'[i]] = [records'[i] EXCEPT !.id = JobOf(records[i].id)']
    BY <1>9, <2>2, <2>3
  <2>5. \A i \in 1..Len(records') : num[records'[i]] = Numbered(records[i])'
    BY <2>4 DEF Numbered, JobOf
  <2> QED BY <2>5 DEF Image
<1>12. Sorted(records)' <=> \A i, j \in 1..Len(records') :
                              i < j => job[records'[i].id] < job[records'[j].id]
  <2>1. \A i \in 1..Len(records') : records'[i].id \in 1..MaxId
    BY <1>6, EntryOf
  <2>2. \A i \in 1..Len(records') : job[records'[i].id] = JobOf(records[i].id)'
    BY <2>1 DEF JobOf
  <2> HIDE DEF job
  <2> QED BY <2>2 DEF Sorted
<1> HIDE DEF job, num
<1>13. Sorted(records)'
  <2> SUFFICES ASSUME NEW i \in 1..Len(records'), NEW j \in 1..Len(records'), i < j
               PROVE  job[records'[i].id] < job[records'[j].id]
    BY <1>12
  <2>1. i \in 1..Len(e) /\ (j \in 1..Len(e) \/ j = Len(e) + 1)
    BY <1>6
  <2>2. records'[i] = e[i] /\ job[e[i].id] = JobOf(e[i].id) /\ JobOf(e[i].id) <= begun
        /\ JobOf(e[i].id) \in Int
    BY <1>6, <1>7, <1>8, <2>1
  <2>3. CASE j \in 1..Len(e)
    <3>1. records'[j] = e[j] /\ job[e[j].id] = JobOf(e[j].id)
      BY <1>6, <1>7, <1>8, <2>3
    <3> QED BY <1>4, <2>1, <2>2, <2>3, <3>1 DEF Sorted
  <2>4. CASE j = Len(e) + 1
    <3>1. job[records'[j].id] = begun + 1
      BY <1>6, <1>10, <2>4 DEF new
    <3> QED BY <1>2, <2>2, <3>1
  <2> QED BY <2>1, <2>3, <2>4
<1>14. Image(records)' = kept \cup {[id |-> begun + 1, state |-> state, updated |-> now, upstream |-> NoJob]}
  <2>1. num[new] = [id |-> begun + 1, state |-> state, updated |-> now, upstream |-> NoJob]
    BY <1>5, <1>9, <1>10 DEF new
  <2>2. \A i \in 1..Len(e) : num[e[i]] = Numbered(e[i])
    BY <1>7, <1>8, <1>9 DEF Numbered
  <2>3. {num[records'[i]] : i \in 1..Len(records')} = {num[e[i]] : i \in 1..Len(e)} \cup {num[new]}
    BY <1>6
  <2>4. {num[e[i]] : i \in 1..Len(e)} = kept
    BY <1>4, <2>2 DEF Image
  <2> QED BY <1>11, <2>1, <2>3, <2>4
<1>15. Log!LogBegin(state)
  BY <1>1, <1>14, LogIsImage DEF Log!LogBegin, Log!Begun
<1>16. HistoryTypes'
  BY <1>1, <1>2, <1>4, <1>6, Constants DEF HistoryTypes
<1> QED BY <1>3, <1>13, <1>15, <1>16 DEF ArrayInv

(* Steps that begin no job leave the jobs of all ids alone.                *)
LEMMA SameJobs ==
  ASSUME UNCHANGED <<begun, next_id>>
  PROVE  /\ Counter => Counter'
         /\ Sorted(records)' <=> \A i, j \in 1..Len(records') :
                                   i < j => JobOf(records'[i].id) < JobOf(records'[j].id)
         /\ Image(records)' = Image(records')
<1>1. \A id : JobOf(id)' = JobOf(id)
  BY DEF JobOf
<1>2. \A r : Numbered(r)' = Numbered(r)
  BY DEF JobOf, Numbered
<1>3. Sorted(records)' <=> \A i, j \in 1..Len(records') :
                                   i < j => JobOf(records'[i].id) < JobOf(records'[j].id)
  BY DEF Sorted, JobOf
<1>4. Image(records)' = Image(records')
  BY DEF Image, Numbered, JobOf
<1> QED BY <1>3, <1>4 DEF Counter

(* What a snapshot copies out: the last records, in reverse order.         *)
LEMMA Shown ==
  ASSUME NEW p \in Seq(Entries), NEW room \in Nat
  PROVE  LET n == Min({room, Len(newest_first(p))})
             out == SubSeq(newest_first(p), 1, n)
         IN  /\ n \in Nat /\ n <= Len(p) /\ out \in Seq(Entries) /\ Len(out) = n
             /\ \A k \in 1..n : out[k] = p[Len(p) + 1 - k]
<1> DEFINE all == newest_first(p)
           n == Min({room, Len(all)})
<1>1. Len(p) \in Nat
  OBVIOUS
<1>2. \A i \in 1..Len(p) : Len(p) + 1 - i \in 1..Len(p) /\ p[Len(p) + 1 - i] \in Entries
  BY <1>1
<1>3. all \in Seq(Entries) /\ Len(all) = Len(p) /\ \A i \in 1..Len(p) : all[i] = p[Len(p) + 1 - i]
  BY <1>1, <1>2 DEF newest_first
<1> HIDE DEF all
<1>4. n \in Nat /\ n <= Len(all)
  BY <1>1, <1>3, SmallerOfTwo
<1>5. n \in Nat /\ n <= Len(p)
  BY <1>1, <1>3, <1>4
<1> HIDE DEF n
<1>6. SubSeq(all, 1, n) \in Seq(Entries) /\ Len(SubSeq(all, 1, n)) = n
      /\ \A k \in 1..n : SubSeq(all, 1, n)[k] = all[k]
  BY <1>1, <1>3, <1>5
<1>7. \A k \in 1..n : SubSeq(all, 1, n)[k] = p[Len(p) + 1 - k]
  BY <1>1, <1>3, <1>5, <1>6
<1> QED BY <1>5, <1>6, <1>7 DEF all, n

LEMMA SnapshotStep ==
  ASSUME HistoryInv, NEW room \in 1..Capacity, snapshot(room)
  PROVE  ArrayInv' /\ Log!LogSnapshot
<1> DEFINE p == prune(records, now)
<1>1. /\ records' = p /\ UNCHANGED <<next_id, now, begun>>
      /\ shown' = SubSeq(newest_first(p), 1, Min({room, Len(newest_first(p))}))
  BY DEF snapshot
<1>2. /\ Counter /\ Sorted(records) /\ records \in Seq(Entries) /\ Len(records) <= Capacity
      /\ now \in 0..MaxNow /\ Capacity \in Nat /\ room \in Nat /\ Len(records) \in Nat
  BY Constants DEF HistoryInv, HistoryTypes
<1>3. /\ p \in Seq(Entries) /\ Len(p) <= Len(records) /\ Len(p) \in Nat
      /\ Image(p) = Log!Pruned(Image(records), now) /\ Sorted(p)
  BY <1>2, Compaction, PruneImage
<1> HIDE DEF p
<1>4. Sorted(records)' /\ Counter'
  BY <1>1, <1>2, <1>3, SameJobs DEF Sorted
<1>5. Log!LogSnapshot
  BY <1>1, <1>3, SameJobs, LogIsImage DEF Log!LogSnapshot
<1>6. shown' \in Seq(Entries)
  BY <1>1, <1>2, <1>3, Shown
<1>7. HistoryTypes'
  <2>1. records' \in Seq(Entries) /\ Len(records') <= Capacity /\ now' \in 0..MaxNow
    BY <1>1, <1>2, <1>3
  <2> QED BY <1>6, <2>1 DEF HistoryTypes
<1> QED BY <1>4, <1>5, <1>7 DEF ArrayInv

LEMMA TickStep ==
  ASSUME HistoryInv, Tick
  PROVE  ArrayInv' /\ Log!LogTick
<1>1. /\ now < MaxNow /\ now' = now + 1 /\ UNCHANGED <<records, next_id, shown, begun>>
  BY DEF Tick
<1>2. Sorted(records)' /\ Counter'
  BY <1>1, SameJobs DEF HistoryInv, Sorted
<1>3. HistoryTypes'
  BY <1>1, Constants DEF HistoryInv, HistoryTypes
<1>4. Log!LogTick
  BY <1>1, SameJobs, LogIsImage DEF Log!LogTick
<1> QED BY <1>2, <1>3, <1>4 DEF ArrayInv

LEMMA FoundInArray ==
  ASSUME NEW s \in Seq(Entries), NEW id, find_record(s, id) # 0
  PROVE  find_record(s, id) \in 1..Len(s) /\ s[find_record(s, id)] \in Entries
<1> DEFINE matches == {k \in 1..Len(s) : s[k].id = id}
<1>1. matches # {} /\ find_record(s, id) = Min(matches)
  BY DEF find_record
<1>2. matches \in SUBSET Nat
  OBVIOUS
<1> HIDE DEF matches
<1>3. \E k \in matches : \A m \in matches : k <= m
  BY <1>1, <1>2, LogProof!SmallestOfNaturals, HistoryAssumption
<1>4. Min(matches) \in matches
  BY <1>3, Zenon DEF Min
<1>5. Min(matches) \in 1..Len(s)
  BY <1>4 DEF matches
<1> QED BY <1>1, <1>5

(* An update by id: g changes the one record with that id, in its place.   *)
LEMMA RewriteStep ==
  ASSUME HistoryInv, NEW id \in 1..MaxId, NEW g \in [Entries -> Entries],
         \A r \in Entries : g[r].id = r.id,
         LET i == find_record(records, id)
         IN  records' = IF i = 0 THEN records ELSE [records EXCEPT ![i] = g[records[i]]],
         UNCHANGED <<next_id, now, shown, begun>>
  PROVE  /\ ArrayInv'
         /\ Image(records)' = {IF records[k].id = id THEN Numbered(g[records[k]])
                               ELSE Numbered(records[k]) : k \in 1..Len(records)}
<1> DEFINE matches == {k \in 1..Len(records) : records[k].id = id}
           i == find_record(records, id)
<1>1. /\ Counter /\ Sorted(records) /\ records \in Seq(Entries) /\ Len(records) <= Capacity
      /\ now \in 0..MaxNow /\ shown \in Seq(Entries) /\ Len(records) \in Nat
  BY DEF HistoryInv, HistoryTypes
<1>2. \A k, m \in matches : k = m
  BY <1>1, SortedIsDistinct
<1>3. i = IF matches = {} THEN 0 ELSE Min(matches)
  BY DEF find_record
<1>4. ASSUME NEW m \in matches PROVE i = m
  <2>1. Min(matches) \in matches
    <3>1. m <= m
      BY <1>1
    <3>2. \E k \in matches : \A y \in matches : k <= y
      BY <1>2, <3>1, Zenon
    <3> QED BY <3>2, Zenon DEF Min
  <2> QED BY <1>2, <1>3, <2>1
<1>5. /\ records' \in Seq(Entries) /\ Len(records') = Len(records)
      /\ \A k \in 1..Len(records) :
           records'[k] = IF records[k].id = id THEN g[records[k]] ELSE records[k]
  <2>1. CASE matches = {}
    BY <1>1, <1>3, <2>1
  <2>2. CASE matches # {}
    <3>1. PICK m \in matches : TRUE
      BY <2>2
    <3>2. i = m /\ m \in 1..Len(records) /\ m # 0 /\ records[m].id = id /\ records[m] \in Entries
      BY <1>1, <1>4, <3>1
    <3>3. \A k \in 1..Len(records) : records[k].id = id => k = m
      BY <1>2, <3>1
    <3>4. records' = [records EXCEPT ![m] = g[records[m]]]
      BY <3>2
    <3>5. g[records[m]] \in Entries
      BY <3>2
    <3> HIDE DEF matches, i
    <3>6. /\ records' \in Seq(Entries) /\ Len(records') = Len(records)
          /\ \A k \in 1..Len(records) : records'[k] = IF k = m THEN g[records[m]] ELSE records[k]
      <4> DEFINE u == [records EXCEPT ![m] = g[records[m]]]
      <4>1. /\ u \in Seq(Entries) /\ Len(u) = Len(records)
            /\ \A k \in 1..Len(records) : u[k] = IF k = m THEN g[records[m]] ELSE records[k]
        BY <1>1, <3>2, <3>5, ExceptSeq
      <4>2. records' = u
        BY <3>4
      <4> HIDE DEF u
      <4> QED BY <4>1, <4>2
    <3> QED BY <3>2, <3>3, <3>6
  <2> QED BY <2>1, <2>2
<1> HIDE DEF matches, i
<1>6. \A k \in 1..Len(records) : records[k] \in Entries /\ records'[k].id = records[k].id
  BY <1>1, <1>5
<1>7. Sorted(records)' /\ Counter'
  BY <1>1, <1>5, <1>6, SameJobs DEF Sorted
<1>8. HistoryTypes'
  BY <1>1, <1>5 DEF HistoryTypes
<1>9. Image(records') = {IF records[k].id = id THEN Numbered(g[records[k]])
                         ELSE Numbered(records[k]) : k \in 1..Len(records)}
  <2>1. \A k \in 1..Len(records) :
          Numbered(records'[k]) = IF records[k].id = id THEN Numbered(g[records[k]])
                                  ELSE Numbered(records[k])
    BY <1>5
  <2> QED BY <1>5, <2>1 DEF Image
<1> QED BY <1>7, <1>8, <1>9, SameJobs DEF ArrayInv

(* The id of a request that comes back stands for one of the jobs begun,   *)
(* and only the record with that id does.                                  *)
LEMMA IdOfJob ==
  ASSUME HistoryInv, NEW id \in Issued
  PROVE  /\ id \in 1..MaxId /\ JobOf(id) \in 1..begun
         /\ \A k \in 1..Len(records) :
              /\ records[k] \in Entries
              /\ Numbered(records[k]).id = JobOf(id) <=> records[k].id = id
<1>1. Counter /\ records \in Seq(Entries) /\ MaxId \in Nat /\ begun \in Nat
  BY Constants DEF HistoryInv, HistoryTypes, Counter
<1>2. id \in 1..MaxId
  <2>1. Min({begun, MaxId}) \in Nat /\ Min({begun, MaxId}) <= MaxId
    BY <1>1, SmallerOfTwo
  <2> QED BY <1>1, <2>1 DEF Issued
<1>3. \A k \in 1..Len(records) : records[k] \in Entries /\ records[k].id \in 1..MaxId
  BY <1>1, EntryOf
<1> QED BY <1>1, <1>2, <1>3, OneJobPerId, NumberedRecord

LEMMA UpdateStep ==
  ASSUME HistoryInv, NEW id \in Issued, NEW state \in {"SENDING", "COMPLETED"}, update(id, state)
  PROVE  ArrayInv' /\ JobOf(id) \in 1..begun /\ Log!LogUpdate(JobOf(id), state)
<1> DEFINE g == [r \in Entries |-> [r EXCEPT !.state = state, !.updated = now]]
<1>1. now \in Nat /\ records \in Seq(Entries)
  BY Constants DEF HistoryInv, HistoryTypes
<1>2. g \in [Entries -> Entries] /\ \A r \in Entries : g[r].id = r.id
  BY <1>1 DEF Entries, Log!JobStates
<1>3. /\ LET i == find_record(records, id)
         IN  records' = IF i = 0 THEN records
                        ELSE [records EXCEPT ![i].state = state, ![i].updated = now]
      /\ UNCHANGED <<next_id, now, shown, begun>>
  BY DEF update
<1> DEFINE i == find_record(records, id)
<1>4. i # 0 => i \in 1..Len(records) /\ records[i] \in Entries
  BY <1>1, FoundInArray
<1>5. i # 0 => [records EXCEPT ![i].state = state, ![i].updated = now] = [records EXCEPT ![i] = g[records[i]]]
  BY <1>1, <1>4
<1>6. records' = IF i = 0 THEN records ELSE [records EXCEPT ![i] = g[records[i]]]
  BY <1>3, <1>5
<1>7. id \in 1..MaxId /\ JobOf(id) \in 1..begun
  BY IdOfJob
<1> HIDE DEF g
<1>8. /\ ArrayInv'
      /\ Image(records)' = {IF records[k].id = id THEN Numbered(g[records[k]])
                            ELSE Numbered(records[k]) : k \in 1..Len(records)}
  BY <1>2, <1>3, <1>6, <1>7, RewriteStep
<1>9. \A k \in 1..Len(records) :
        (IF records[k].id = id THEN Numbered(g[records[k]]) ELSE Numbered(records[k]))
         = (IF Numbered(records[k]).id = JobOf(id)
            THEN [Numbered(records[k]) EXCEPT !.state = state, !.updated = now]
            ELSE Numbered(records[k]))
  <2> SUFFICES ASSUME NEW k \in 1..Len(records), records[k].id = id
               PROVE  Numbered(g[records[k]])
                        = [Numbered(records[k]) EXCEPT !.state = state, !.updated = now]
    BY IdOfJob
  <2>1. records[k] \in Entries
    BY <1>1
  <2> QED BY <2>1 DEF g, Numbered, Entries
<1>10. Image(records)' = Log!Updated(Image(records), JobOf(id), state, now)
  BY <1>8, <1>9 DEF Log!Updated, Image
<1> QED BY <1>3, <1>7, <1>8, <1>10, LogIsImage DEF Log!LogUpdate

LEMMA AttachStep ==
  ASSUME HistoryInv, NEW id \in Issued, NEW job \in UpJobs, attach_upstream(id, job)
  PROVE  ArrayInv' /\ JobOf(id) \in 1..begun /\ Log!LogAttach(JobOf(id), job)
<1> DEFINE g == [r \in Entries |-> [r EXCEPT !.upstream = job, !.updated = now]]
<1>1. now \in Nat /\ records \in Seq(Entries)
  BY Constants DEF HistoryInv, HistoryTypes
<1>2. g \in [Entries -> Entries] /\ \A r \in Entries : g[r].id = r.id
  BY <1>1 DEF Entries
<1>3. /\ LET i == find_record(records, id)
         IN  records' = IF i = 0 THEN records
                        ELSE [records EXCEPT ![i].upstream = job, ![i].updated = now]
      /\ UNCHANGED <<next_id, now, shown, begun>>
  BY DEF attach_upstream
<1> DEFINE i == find_record(records, id)
<1>4. i # 0 => i \in 1..Len(records) /\ records[i] \in Entries
  BY <1>1, FoundInArray
<1>5. i # 0 => [records EXCEPT ![i].upstream = job, ![i].updated = now] = [records EXCEPT ![i] = g[records[i]]]
  BY <1>1, <1>4
<1>6. records' = IF i = 0 THEN records ELSE [records EXCEPT ![i] = g[records[i]]]
  BY <1>3, <1>5
<1>7. id \in 1..MaxId /\ JobOf(id) \in 1..begun
  BY IdOfJob
<1> HIDE DEF g
<1>8. /\ ArrayInv'
      /\ Image(records)' = {IF records[k].id = id THEN Numbered(g[records[k]])
                            ELSE Numbered(records[k]) : k \in 1..Len(records)}
  BY <1>2, <1>3, <1>6, <1>7, RewriteStep
<1>9. \A k \in 1..Len(records) :
        (IF records[k].id = id THEN Numbered(g[records[k]]) ELSE Numbered(records[k]))
         = (IF Numbered(records[k]).id = JobOf(id)
            THEN [Numbered(records[k]) EXCEPT !.upstream = job, !.updated = now]
            ELSE Numbered(records[k]))
  <2> SUFFICES ASSUME NEW k \in 1..Len(records), records[k].id = id
               PROVE  Numbered(g[records[k]])
                        = [Numbered(records[k]) EXCEPT !.upstream = job, !.updated = now]
    BY IdOfJob
  <2>1. records[k] \in Entries
    BY <1>1
  <2> QED BY <2>1 DEF g, Numbered, Entries
<1>10. Image(records)' = Log!Attached(Image(records), JobOf(id), job, now)
  BY <1>8, <1>9 DEF Log!Attached, Image
<1> QED BY <1>3, <1>7, <1>8, <1>10, LogIsImage DEF Log!LogAttach

----------------------------------------------------------------------------
(* Every step of the array is a step of the log or leaves it alone.        *)
LEMMA ArrayStep ==
  ASSUME HistoryInv, [Next]_vars
  PROVE  ArrayInv' /\ [Log!LogNext]_Log!logVars
<1>1. ASSUME NEW state \in {"QUEUED", "SENDING"}, begin(state)
      PROVE  ArrayInv' /\ Log!LogNext
  BY <1>1, BeginStep DEF Log!LogNext, Log!JobStates
<1>2. ASSUME NEW id \in Issued, NEW state \in {"SENDING", "COMPLETED"}, update(id, state)
      PROVE  ArrayInv' /\ Log!LogNext
  BY <1>2, UpdateStep DEF Log!LogNext, Log!JobStates
<1>3. ASSUME NEW id \in Issued, NEW job \in UpJobs, attach_upstream(id, job)
      PROVE  ArrayInv' /\ Log!LogNext
  BY <1>3, AttachStep DEF Log!LogNext
<1>4. ASSUME NEW room \in 1..Capacity, snapshot(room)
      PROVE  ArrayInv' /\ Log!LogNext
  BY <1>4, SnapshotStep DEF Log!LogNext
<1>5. ASSUME Tick PROVE ArrayInv' /\ Log!LogNext
  BY <1>5, TickStep DEF Log!LogNext
<1>6. CASE UNCHANGED vars
  <2>1. UNCHANGED <<records, next_id, now, shown, begun>>
    BY <1>6 DEF vars
  <2>2. Sorted(records)' /\ Counter' /\ HistoryTypes'
    BY <2>1, SameJobs DEF HistoryInv, Sorted, HistoryTypes
  <2>3. UNCHANGED Log!logVars
    BY <2>1, SameJobs, LogIsImage DEF Log!logVars
  <2> QED BY <2>2, <2>3 DEF ArrayInv
<1> QED BY <1>1, <1>2, <1>3, <1>4, <1>5, <1>6 DEF Next

LEMMA HistoryStep == HistoryInv /\ [Next]_vars => HistoryInv'
<1> SUFFICES ASSUME HistoryInv, [Next]_vars PROVE HistoryInv'
  OBVIOUS
<1>1. ArrayInv' /\ [Log!LogNext]_Log!logVars
  BY ArrayStep
<1>2. [LogProof!LogNext]_LogProof!logVars
  BY <1>1, SameBegun
  DEF Log!LogNext, Log!logVars, Log!LogBegin, Log!LogUpdate, Log!LogAttach, Log!LogSnapshot,
      Log!LogTick, Log!Begun, Log!Updated, Log!Attached, Log!JobStates,
      LogProof!LogNext, LogProof!logVars, LogProof!LogBegin, LogProof!LogUpdate, LogProof!LogAttach,
      LogProof!LogSnapshot, LogProof!LogTick, LogProof!Begun, LogProof!Updated, LogProof!Attached,
      LogProof!JobStates
<1>3. LogProof!LogInv' /\ LogProof!SpanInv'
  BY <1>2, LogProof!LogStep, HistoryAssumption DEF HistoryInv
<1> QED BY <1>1, <1>3 DEF HistoryInv, ArrayInv

LEMMA HistoryStart == Init => HistoryInv /\ Log!LogInit
<1> SUFFICES ASSUME Init PROVE HistoryInv /\ Log!LogInit
  OBVIOUS
<1>1. records = <<>> /\ next_id = 0 /\ now = 0 /\ shown = <<>> /\ begun = 0
  BY DEF Init
<1>2. HistoryTypes /\ Counter /\ Sorted(records)
  BY <1>1, Constants DEF HistoryTypes, Counter, Sorted
<1>3. {Numbered(records[i]) : i \in 1..Len(records)} = {}
  BY <1>1
<1>4. LogProof!LogInit /\ Log!LogInit
  BY <1>1, <1>3 DEF LogProof!LogInit, Log!LogInit
<1>5. LogProof!LogInv
  BY <1>4, LogProof!LogInitInv, HistoryAssumption
<1>6. LogProof!SpanInv
  BY <1>3 DEF LogProof!SpanInv
<1> QED BY <1>2, <1>4, <1>5, <1>6 DEF HistoryInv

LEMMA HistoryAlways == Spec => []HistoryInv
<1>1. Init => HistoryInv
  BY HistoryStart
<1> QED BY <1>1, HistoryStep, PTL DEF Spec

----------------------------------------------------------------------------
LEMMA LargestIndex ==
  ASSUME NEW n \in Nat, NEW M \in SUBSET (1..n), M # {}
  PROVE  Max(M) \in M /\ \A i \in M : Max(M) >= i
<1> DEFINE far == {n - i : i \in M}
<1>1. far \in SUBSET Nat
  <2>1. \A i \in M : n - i \in Nat
    OBVIOUS
  <2> QED BY <2>1
<1>2. far # {}
  OBVIOUS
<1> HIDE DEF far
<1>3. PICK d \in far : \A c \in far : d <= c
  <2>1. \A S \in SUBSET Nat : S # {} => \E d \in S : \A c \in S : d <= c
    BY LogProof!SmallestOfNaturals, HistoryAssumption
  <2> QED BY <1>1, <1>2, <2>1
<1>4. PICK m \in M : d = n - m
  BY <1>3 DEF far
<1>5. ASSUME NEW i \in M PROVE m >= i
  <2>1. n - m <= n - i
    BY <1>3, <1>4 DEF far
  <2> QED BY <2>1
<1>6. \E x \in M : \A y \in M : x >= y
  BY <1>5
<1> QED BY <1>6, Zenon DEF Max

(* The newest record of a printer's job-id in the log is the last one of   *)
(* the array that has it.                                                  *)
LEMMA FindsNewest == HistoryInv => FindsNewestUpstream
<1> SUFFICES ASSUME HistoryInv, NEW job \in UpJobs
             PROVE  LET recs == {Numbered(records[i]) : i \in 1..Len(records)}
                        id == find_upstream(job)
                    IN  (IF id = 0 THEN 0 ELSE JobOf(id)) = Log!FindUpstream(recs, job)
  BY DEF FindsNewestUpstream
<1> DEFINE M == {i \in 1..Len(records) : records[i].upstream = job}
           ms == {r \in Image(records) : job # NoJob /\ r.upstream = job}
<1>1. /\ Counter /\ Sorted(records) /\ records \in Seq(Entries) /\ Len(records) \in Nat
      /\ job # NoJob
  BY Constants DEF HistoryInv, HistoryTypes
<1>2. \A i \in 1..Len(records) :
        /\ records[i].id \in 1..MaxId /\ JobOf(records[i].id) \in Int
        /\ Numbered(records[i]).id = JobOf(records[i].id)
        /\ Numbered(records[i]).upstream = records[i].upstream
  BY <1>1, EntryOf, NumberedRecord, OneJobPerId
<1>3. ms = {Numbered(records[i]) : i \in M}
  BY <1>1, <1>2 DEF Image
<1>4. Log!FindUpstream(Image(records), job) = IF ms = {} THEN 0 ELSE Log!Newest(ms).id
  BY DEF Log!FindUpstream
<1>5. find_upstream(job) = IF M = {} THEN 0 ELSE records[Max(M)].id
  BY DEF find_upstream
<1> HIDE DEF ms
<1>6. CASE M = {}
  BY <1>3, <1>4, <1>5, <1>6 DEF Image
<1>7. CASE M # {}
  <2> DEFINE m == Max(M)
  <2>1. m \in M /\ \A i \in M : m >= i
    BY <1>1, <1>7, LargestIndex
  <2> HIDE DEF m
  <2>2. m \in 1..Len(records) /\ records[m].id # 0
    BY <1>2, <2>1
  <2>3. \A i \in M : i # m => JobOf(records[i].id) < JobOf(records[m].id)
    BY <1>1, <2>1, <2>2 DEF Sorted
  <2>4. Numbered(records[m]) \in ms /\ \A q \in ms : Numbered(records[m]).id >= q.id
    BY <1>2, <1>3, <2>1, <2>2, <2>3
  <2>5. ASSUME NEW r \in ms, \A q \in ms : r.id >= q.id PROVE r = Numbered(records[m])
    <3>1. PICK i \in M : r = Numbered(records[i])
      BY <1>3
    <3>2. JobOf(records[i].id) >= JobOf(records[m].id)
      BY <1>2, <2>2, <2>4, <2>5, <3>1
    <3>3. i = m
      BY <1>2, <2>2, <2>3, <3>2
    <3> QED BY <3>1, <3>3
  <2>6. Log!Newest(ms) = Numbered(records[m])
    BY <2>4, <2>5, Zenon DEF Log!Newest
  <2>7. Log!FindUpstream(Image(records), job) = JobOf(records[m].id)
    BY <1>2, <1>4, <2>2, <2>4, <2>6
  <2>8. find_upstream(job) = records[m].id
    BY <1>5, <1>7 DEF m
  <2> QED BY <2>2, <2>7, <2>8 DEF Image
<1> QED BY <1>6, <1>7

(* What the job page gets: the last records of the pruned array, the last  *)
(* one first.                                                              *)
LEMMA ShowsNewest ==
  ASSUME HistoryInv, NEW room \in 1..Capacity, snapshot(room)
  PROVE  /\ \A i \in 1..Len(shown') : ~Log!Expired(shown'[i], now)
         /\ \A i, j \in 1..Len(shown') : i < j => JobOf(shown'[i].id) > JobOf(shown'[j].id)
         /\ \A i \in 1..Len(records), j \in 1..Len(shown') :
              \/ Log!Expired(records[i], now)
              \/ \E k \in 1..Len(shown') : shown'[k] = records[i]
              \/ JobOf(records[i].id) < JobOf(shown'[j].id)
<1> DEFINE p == prune(records, now)
           n == Min({room, Len(newest_first(p))})
<1>1. shown' = SubSeq(newest_first(p), 1, n)
  BY DEF snapshot
<1>2. /\ Counter /\ Sorted(records) /\ records \in Seq(Entries) /\ room \in Nat
  BY Constants DEF HistoryInv, HistoryTypes
<1>3. p \in Seq(Entries) /\ Len(p) \in Nat /\ Sorted(p)
  BY <1>2, Compaction, PruneImage
<1>4. PICK f : Compacts(f, records, p, now)
  BY <1>2, Compaction
<1> HIDE DEF p
<1>5. /\ n \in Nat /\ n <= Len(p) /\ Len(shown') = n
      /\ \A k \in 1..n : shown'[k] = p[Len(p) + 1 - k]
  BY <1>1, <1>2, <1>3, Shown
<1> HIDE DEF n
<1>6. \A k \in 1..n : Len(p) + 1 - k \in 1..Len(p)
  BY <1>3, <1>5
<1>7. \A k \in 1..Len(p) : p[k] = records[f[k]] /\ ~Log!Expired(p[k], now)
  BY <1>4 DEF Compacts, Kept
<1>8. \A i \in 1..n : ~Log!Expired(shown'[i], now)
  BY <1>5, <1>6, <1>7
<1>9. ASSUME NEW i \in 1..n, NEW j \in 1..n, i < j
      PROVE  JobOf(shown'[i].id) > JobOf(shown'[j].id)
  <2> DEFINE a == Len(p) + 1 - j
             b == Len(p) + 1 - i
  <2>1. a \in 1..Len(p) /\ b \in 1..Len(p) /\ a < b
    BY <1>3, <1>5, <1>6, <1>9
  <2>2. shown'[i] = p[b] /\ shown'[j] = p[a]
    BY <1>5
  <2> HIDE DEF a, b
  <2>3. JobOf(p[a].id) < JobOf(p[b].id)
    BY <1>3, <2>1 DEF Sorted
  <2>4. JobOf(p[a].id) \in Int /\ JobOf(p[b].id) \in Int
    BY <1>2, <1>3, <2>1, SortedIsDistinct
  <2> QED BY <2>2, <2>3, <2>4
<1>10. ASSUME NEW i \in 1..Len(records), NEW j \in 1..n,
              ~Log!Expired(records[i], now), ~\E k \in 1..n : shown'[k] = records[i]
       PROVE  JobOf(records[i].id) < JobOf(shown'[j].id)
  <2>1. PICK k \in 1..Len(p) : f[k] = i
    BY <1>4, <1>10 DEF Compacts, Kept
  <2>2. p[k] = records[i]
    BY <1>7, <2>1
  <2>3. Len(p) + 1 - k > n
    <3> SUFFICES ASSUME Len(p) + 1 - k <= n PROVE FALSE
      BY <1>3, <1>5
    <3> DEFINE c == Len(p) + 1 - k
    <3>1. c \in 1..n /\ Len(p) + 1 - c = k
      BY <1>3, <1>5
    <3>2. shown'[c] = p[k]
      BY <1>5, <3>1
    <3> QED BY <1>10, <2>2, <3>1, <3>2
  <2> DEFINE a == Len(p) + 1 - j
  <2>4. a \in 1..Len(p) /\ k < a /\ shown'[j] = p[a]
    BY <1>3, <1>5, <1>6, <2>3
  <2> HIDE DEF a
  <2> QED BY <1>3, <2>2, <2>4 DEF Sorted
<1> QED BY <1>5, <1>8, <1>9, <1>10

(* The array of job_history.c, with its compaction in place, its memmove() *)
(* and its searches by id, is the log its callers are promised, also after *)
(* the 32-bit counter has wrapped: for any capacity, time to live and      *)
(* uptime for which the counter has enough ids.                            *)
THEOREM HistoryImplementsLog == Spec => ImplementsLog
<1>1. Init => Log!LogInit
  BY HistoryStart
<1>2. HistoryInv /\ [Next]_vars => [Log!LogNext]_Log!logVars
  BY ArrayStep
<1> QED BY <1>1, <1>2, HistoryAlways, PTL DEF Spec, ImplementsLog, Log!LogSpec

(* No two records of the array have the same id, and none has the id 0     *)
(* that means "no record", over any number of wraps of next_id.            *)
THEOREM IdsStayDistinct == Spec => []LiveIds
<1>1. HistoryInv => LiveIds
  <2> SUFFICES ASSUME HistoryInv, NEW i \in 1..Len(records), NEW j \in 1..Len(records)
               PROVE  records[i].id # 0 /\ (records[i].id = records[j].id => i = j)
    BY DEF LiveIds
  <2>1. Counter /\ Sorted(records) /\ records \in Seq(Entries)
    BY DEF HistoryInv, HistoryTypes
  <2>2. records[i].id \in 1..MaxId
    BY <2>1, EntryOf
  <2> QED BY <2>1, <2>2, SortedIsDistinct
<1> QED BY <1>1, HistoryAlways, PTL

(* espresso_job_history_find_upstream() returns the newest of the records  *)
(* that have the printer's job-id, however often the printer uses it.      *)
THEOREM NewestIsFound == Spec => []FindsNewestUpstream
  BY FindsNewest, HistoryAlways, PTL

(* espresso_job_history_snapshot() copies out records that are not         *)
(* expired, newest first, and leaves out only older ones.                  *)
THEOREM NewestIsShown == Spec => SnapshotShowsNewest
<1> DEFINE Right ==
      shown' # shown =>
       /\ \A i \in 1..Len(shown') : ~Log!Expired(shown'[i], now)
       /\ \A i, j \in 1..Len(shown') : i < j => JobOf(shown'[i].id) > JobOf(shown'[j].id)
       /\ \A i \in 1..Len(records), j \in 1..Len(shown') :
            \/ Log!Expired(records[i], now)
            \/ \E k \in 1..Len(shown') : shown'[k] = records[i]
            \/ JobOf(records[i].id) < JobOf(shown'[j].id)
<1>1. ASSUME HistoryInv, [Next]_vars PROVE [Right]_vars
  <2>1. ASSUME NEW room \in 1..Capacity, snapshot(room) PROVE Right
    BY <1>1, <2>1, ShowsNewest
  <2>2. CASE shown' = shown
    BY <2>2
  <2>3. (\E room \in 1..Capacity : snapshot(room)) \/ shown' = shown
    BY <1>1 DEF Next, vars, begin, update, attach_upstream, Tick
  <2> QED BY <2>1, <2>2, <2>3
<1>2. [][Right]_vars => SnapshotShowsNewest
  BY DEF SnapshotShowsNewest
<1> HIDE DEF Right
<1>3. HistoryInv /\ [Next]_vars => [Right]_vars
  BY <1>1
<1> QED BY <1>2, <1>3, HistoryAlways, PTL DEF Spec
=============================================================================
