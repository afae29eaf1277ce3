------------------------- MODULE TranscriptPagesProofs -------------------------
(***************************************************************************)
(* Proofs about the cache and the pages of TranscriptPages, for any        *)
(* readers, row ids, events, deletions, page size and capacity: the cache  *)
(* has each key once and no more than its bound, an order in it is the one *)
(* its key stands for, unless the row of the Trace was deleted since it    *)
(* was read, and a load that gets its last page has the transcript that    *)
(* this page's snapshot shows.                                             *)
(***************************************************************************)
EXTENDS TranscriptPages, FiniteSetTheorems, SequenceTheorems, WellFoundedInduction, TLAPS

\* Row ids: the largest in a table is one of the table's, or 0.
LEMMA LastIsLargest ==
    ASSUME NEW N \in Nat, NEW ids, ids \subseteq 1..N
    PROVE  LastOf(ids) \in ids \cup {0} /\ \A m \in ids : m <= LastOf(ids)
<1> DEFINE above == {k \in Nat : \A m \in ids : m <= k}
           less == OpToRel(<, Nat)
<1>1. above \subseteq Nat /\ above # {}
  <2>1. N \in above
    OBVIOUS
  <2>. QED
    BY <2>1
<1>2. PICK k \in above : \A j \in above : <<j, k>> \notin less
  <2>1. IsWellFoundedOn(less, Nat)
    BY NatLessThanWellFounded
  <2>. HIDE DEF less, above
  <2>. QED
    BY <1>1, <2>1, WFMin
<1>3. k \in ids \cup {0}
  <2>1. SUFFICES ASSUME k \notin ids, k # 0 PROVE FALSE
    OBVIOUS
  <2>2. k - 1 \in above
    BY <2>1
  <2>3. <<k - 1, k>> \in less
    BY <2>1 DEF OpToRel
  <2>. QED
    BY <1>2, <2>2, <2>3
<1>. QED
  BY <1>3 DEF LastOf

LEMMA LastIsNat ==
    ASSUME NEW N \in Nat, NEW ids, ids \subseteq 1..N
    PROVE  LastOf(ids) \in Nat
<1>1. LastOf(ids) \in ids \cup {0}
  BY LastIsLargest
<1>2. ids \cup {0} \subseteq Nat
  OBVIOUS
<1>. QED
  BY <1>1, <1>2

LEMMA NextIsNew ==
    ASSUME NEW N \in Nat, NEW ids, ids \subseteq 1..N
    PROVE  /\ LastOf(ids) + 1 \in Nat \ ({0} \cup ids)
           /\ \A m \in ids : m < LastOf(ids) + 1
<1> DEFINE last == LastOf(ids)
<1>1. last \in Nat /\ \A m \in ids : m <= last
  BY LastIsLargest, LastIsNat
<1> HIDE DEF last
<1>2. \A m \in ids : m \in Nat
  OBVIOUS
<1>3. last + 1 \in Nat \ ({0} \cup ids) /\ \A m \in ids : m < last + 1
  BY <1>1, <1>2
<1>. QED
  BY <1>3 DEF last

-----------------------------------------------------------------------------
Rows ==
    /\ traces \subseteq TraceId
    /\ revisions \subseteq RevisionId \X TraceId
    /\ \A a, b \in revisions : a[1] = b[1] => a[2] = b[2]
    /\ runs \subseteq (1..MaxRun) \X RevisionId
    /\ deleted \in [TraceId -> Nat]
    /\ own = [r \in RevisionId |-> own[r]]
    /\ merged = [t \in TraceId |-> merged[t]]

\* What was read of view v at generation g, when the row of its Trace had been deleted
\* d times: as long as it has not been deleted again, the Revision is there, no earlier
\* generation comes back, and with the same generation the order is the same.
Reading(v, g, d, ids) ==
    /\ d <= deleted[v[1]]
    /\ d = deleted[v[1]] =>
          /\ v[2] # 0 => <<v[2], v[1]>> \in revisions
          /\ g <= Generation(v)
          /\ g = Generation(v) => ids = TranscriptOrder(v)

Filed(key, d, ids) ==
    /\ key \in TraceId \X (0..MaxRevision) \X Nat
    /\ d \in Nat
    /\ Reading(<<key[1], key[2]>>, key[3], d, ids)

Cache ==
    /\ \E entries : orders \in Seq(entries)
    /\ \A i \in 1..Len(orders) : Filed(orders[i].key, orders[i].deleted, orders[i].ids)

\* A request that has its snapshot will put into the cache what the snapshot shows.
Shot(shot) ==
    /\ "hit" \in DOMAIN shot /\ shot.hit \in BOOLEAN
    /\ ~shot.hit => Filed(shot.key, shot.deleted, shot.list)

Requests ==
    /\ stage \in [Reader -> {"none", "checked", "open", "ordered"}]
    /\ view \in [Reader -> View]
    /\ snapshot = [c \in Reader |-> snapshot[c]]
    /\ \A c \in Reader :
          /\ stage[c] = "open" => Shot(snapshot[c]) /\ snapshot[c].hit = FALSE
          /\ stage[c] = "ordered" => Shot(snapshot[c])

IInv == Rows /\ Cache /\ Requests /\ CacheConsistent

-----------------------------------------------------------------------------
(* Generations *)

Runs(v) ==
    {n \in 1..MaxRun : \E r \in RevisionsOf(v[1]) : <<n, r>> \in runs /\ (v[2] = 0 \/ v[2] = r)}

LEMMA GenerationIsLast ==
    ASSUME NEW v
    PROVE  Generation(v) \in Nat /\ Generation(v) \in Runs(v) \cup {0} /\ \A m \in Runs(v) : m <= Generation(v)
<1>1. Runs(v) \subseteq 1..MaxRun /\ MaxRun \in Nat
  BY PageConstants DEF Runs
<1>2. Generation(v) = LastOf(Runs(v))
  BY DEF Generation, Runs
<1>. QED
  BY <1>1, <1>2, LastIsLargest, LastIsNat

\* A run that is recorded has a larger id than all there are.
LEMMA RunIsNew ==
    ASSUME Rows, NEW r \in RevisionId, RecordRun(r)
    PROVE  \E n \in 1..MaxRun : /\ runs' = runs \cup {<<n, r>>}
                                /\ \A run \in runs : run[1] < n
<1> DEFINE ids == {run[1] : run \in runs}
           n == LastOf(ids) + 1
<1>1. ids \subseteq 1..MaxRun /\ MaxRun \in Nat
  BY PageConstants DEF Rows
<1>2. n \in Nat \ {0} /\ \A m \in ids : m < n
  BY <1>1, NextIsNew
<1>3. n <= MaxRun /\ runs' = runs \cup {<<n, r>>}
  BY DEF RecordRun
<1> HIDE DEF n
<1>4. n \in 1..MaxRun
  BY <1>1, <1>2, <1>3
<1>. QED
  BY <1>2, <1>3, <1>4

\* A transaction that records a run of Revision r changes no other order than that of r
\* and that of its Trace.
LEMMA RunKeeps ==
    ASSUME Rows, NEW t \in TraceId, NEW r \in RevisionId, RecordRun(r),
           revisions' = revisions \cup {<<r, t>>},
           \A row \in revisions : row[1] = r => row[2] = t,
           \A q \in RevisionId \ {r} : own'[q] = own[q],
           \A u \in TraceId \ {t} : merged'[u] = merged[u],
           deleted' = deleted,
           NEW v \in View, NEW g \in Nat, NEW d, NEW ids, Reading(v, g, d, ids)
    PROVE  Reading(v, g, d, ids)'
<1>1. PICK n \in 1..MaxRun : runs' = runs \cup {<<n, r>>} /\ \A run \in runs : run[1] < n
  BY RunIsNew
<1>2. v[1] \in TraceId /\ v[2] \in 0..MaxRevision
  BY DEF View
<1>3. SUFFICES ASSUME d = deleted[v[1]]
               PROVE  /\ v[2] # 0 => <<v[2], v[1]>> \in revisions'
                      /\ g <= Generation(v)'
                      /\ g = Generation(v)' => ids = TranscriptOrder(v)'
  BY DEF Reading
<1>4. /\ v[2] # 0 => <<v[2], v[1]>> \in revisions
      /\ g <= Generation(v)
      /\ g = Generation(v) => ids = TranscriptOrder(v)
  BY <1>3 DEF Reading
<1>5. /\ Generation(v) \in Nat /\ Generation(v) \in Runs(v) \cup {0}
      /\ Generation(v)' \in Nat /\ \A m \in Runs(v)' : m <= Generation(v)'
  <2>1. Generation(v) \in Nat /\ Generation(v) \in Runs(v) \cup {0} /\ \A m \in Runs(v) : m <= Generation(v)
    BY GenerationIsLast
  <2>2. (Generation(v) \in Nat /\ Generation(v) \in Runs(v) \cup {0} /\ \A m \in Runs(v) : m <= Generation(v))'
    BY GenerationIsLast, PTL
  <2>. QED
    BY <2>1, <2>2
<1>6. CASE v[1] = t /\ (v[2] = 0 \/ v[2] = r)
  <2>1. n \in Runs(v)'
    BY <1>1, <1>2, <1>6 DEF Runs, RevisionsOf
  <2>2. \A m \in Runs(v) : m < n
    BY <1>1 DEF Runs
  <2>3. Generation(v) < n
    BY <1>5, <2>2
  <2>4. g < Generation(v)'
    BY <1>4, <1>5, <2>1, <2>3
  <2>. QED
    BY <1>4, <1>5, <2>4
<1>7. CASE ~(v[1] = t /\ (v[2] = 0 \/ v[2] = r))
  <2>1. Runs(v)' = Runs(v)
    BY <1>1, <1>2, <1>7 DEF Runs, RevisionsOf, Rows
  <2>2. Generation(v)' = Generation(v)
    BY <2>1 DEF Generation, Runs
  <2>3. TranscriptOrder(v)' = TranscriptOrder(v)
    BY <1>2, <1>4, <1>7 DEF TranscriptOrder, RevisionId
  <2>. QED
    BY <1>4, <2>2, <2>3
<1>. QED
  BY <1>6, <1>7

LEMMA DeletionKeeps ==
    ASSUME Rows, NEW t \in TraceId, DeleteTrace(t),
           NEW v \in View, NEW g, NEW d \in Nat, NEW ids, Reading(v, g, d, ids)
    PROVE  Reading(v, g, d, ids)'
<1>1. v[1] \in TraceId /\ v[2] \in 0..MaxRevision
  BY DEF View
<1>2. CASE v[1] = t
  <2>1. deleted'[v[1]] = deleted[v[1]] + 1 /\ deleted[v[1]] \in Nat
    BY <1>1, <1>2 DEF DeleteTrace, Rows
  <2>2. d < deleted'[v[1]]
    BY <2>1 DEF Reading
  <2>. QED
    BY <2>1, <2>2 DEF Reading
<1>3. CASE v[1] # t
  <2>1. deleted'[v[1]] = deleted[v[1]] /\ merged'[v[1]] = merged[v[1]]
    BY <1>1, <1>3 DEF DeleteTrace, Rows
  <2>2. \A r \in RevisionId : <<r, v[1]>> \in revisions' <=> <<r, v[1]>> \in revisions
    BY <1>1, <1>3 DEF DeleteTrace
  <2>3. \A r \in RevisionsOf(v[1]) : r \notin RevisionsOf(t)
    BY <1>3 DEF RevisionsOf, Rows
  <2>4. RevisionsOf(v[1])' = RevisionsOf(v[1])
    BY <2>2 DEF RevisionsOf
  <2>5. \A r \in RevisionsOf(v[1]), n \in 1..MaxRun : <<n, r>> \in runs' <=> <<n, r>> \in runs
    BY <2>3 DEF DeleteTrace
  <2>6. Generation(v)' = Generation(v)
    BY <2>4, <2>5 DEF Generation
  <2>7. <<v[2], v[1]>> \in revisions => v[2] \in RevisionsOf(v[1])
    BY DEF RevisionsOf, Rows
  <2>8. v[2] # 0 /\ <<v[2], v[1]>> \in revisions => own'[v[2]] = own[v[2]] /\ <<v[2], v[1]>> \in revisions'
    BY <1>1, <2>2, <2>3, <2>7 DEF DeleteTrace, RevisionsOf
  <2>. QED
    BY <2>1, <2>6, <2>8 DEF Reading, TranscriptOrder
<1>. QED
  BY <1>2, <1>3

\* A new Revision has an id that no row has.
LEMMA RevisionIsNew ==
    ASSUME Rows, LastOf({row[1] : row \in revisions}) + 1 <= MaxRevision
    PROVE  /\ LastOf({row[1] : row \in revisions}) + 1 \in RevisionId
           /\ \A old \in revisions : old[1] # LastOf({row[1] : row \in revisions}) + 1
<1> DEFINE rowids == {row[1] : row \in revisions}
           r == LastOf(rowids) + 1
<1>1. rowids \subseteq 1..MaxRevision /\ MaxRevision \in Nat
  BY PageConstants DEF Rows, RevisionId
<1>2. r \in Nat \ ({0} \cup rowids)
  BY <1>1, NextIsNew
<1> HIDE DEF r
<1>3. r \in RevisionId
  BY <1>1, <1>2 DEF r, RevisionId
<1>4. \A row \in revisions : row[1] # r
  BY <1>2
<1>. QED
  BY <1>3, <1>4 DEF r

\* Every write keeps every reading, wherever it is held.
LEMMA WriteKeepsReading ==
    ASSUME Rows, Write, NEW v \in View, NEW g \in Nat, NEW d \in Nat, NEW ids, Reading(v, g, d, ids)
    PROVE  Reading(v, g, d, ids)'
<1>1. ASSUME NEW t \in TraceId, DeleteTrace(t) PROVE Reading(v, g, d, ids)'
  BY <1>1, DeletionKeeps
<1>2. ASSUME NEW t \in TraceId, NEW list \in NewLists(t), CommitRevision(t, list) PROVE Reading(v, g, d, ids)'
  <2> DEFINE r == LastOf({row[1] : row \in revisions}) + 1
  <2>1. r \in RevisionId /\ \A row \in revisions : row[1] # r
    BY <1>2, RevisionIsNew DEF CommitRevision
  <2>2. /\ revisions' = revisions \cup {<<r, t>>} /\ RecordRun(r) /\ deleted' = deleted
        /\ Normalized(t, r, list)
    BY <1>2 DEF CommitRevision
  <2> HIDE DEF r
  <2>3. /\ \A q \in RevisionId \ {r} : own'[q] = own[q]
        /\ \A u \in TraceId \ {t} : merged'[u] = merged[u]
    BY <2>1, <2>2 DEF Normalized, Rows
  <2>. QED
    BY <2>1, <2>2, <2>3, RunKeeps
<1>3. ASSUME NEW t \in TraceId, NEW list \in NewLists(t), NEW r \in RevisionId, ReplaceRevisionEvents(t, r, list)
      PROVE  Reading(v, g, d, ids)'
  <2>1. /\ <<r, t>> \in revisions /\ RecordRun(r) /\ UNCHANGED <<revisions, deleted>>
        /\ Normalized(t, r, list)
    BY <1>3 DEF ReplaceRevisionEvents
  <2>2. /\ \A q \in RevisionId \ {r} : own'[q] = own[q]
        /\ \A u \in TraceId \ {t} : merged'[u] = merged[u]
    BY <2>1 DEF Normalized, Rows
  <2>3. \A row \in revisions : row[1] = r => row[2] = t
    BY <2>1 DEF Rows
  <2>4. revisions' = revisions \cup {<<r, t>>}
    BY <2>1
  <2>. QED
    BY <2>1, <2>2, <2>3, <2>4, RunKeeps
<1>4. ASSUME NEW r \in RevisionId, RecordFailedRun(r) PROVE Reading(v, g, d, ids)'
  <2>1. PICK t \in traces : <<r, t>> \in revisions
    BY <1>4 DEF RecordFailedRun
  <2>2. RecordRun(r) /\ UNCHANGED <<revisions, deleted, own, merged>> /\ t \in TraceId
    BY <1>4 DEF RecordFailedRun, Rows
  <2>3. \A row \in revisions : row[1] = r => row[2] = t
    BY <2>1 DEF Rows
  <2>4. revisions' = revisions \cup {<<r, t>>}
    BY <2>1, <2>2
  <2>. QED
    BY <2>2, <2>3, <2>4, RunKeeps
<1>. QED
  BY <1>1, <1>2, <1>3, <1>4 DEF Write

LEMMA KeptFiled ==
    ASSUME Rows, Write \/ UNCHANGED rows, NEW key, NEW d, NEW ids, Filed(key, d, ids)
    PROVE  Filed(key, d, ids)'
<1> DEFINE v == <<key[1], key[2]>>
<1>1. key \in TraceId \X (0..MaxRevision) \X Nat /\ d \in Nat /\ Reading(v, key[3], d, ids)
  BY DEF Filed
<1>2. v \in View /\ key[3] \in Nat
  BY <1>1 DEF View
<1>3. Reading(v, key[3], d, ids)'
  <2>1. CASE Write
    BY <1>1, <1>2, <2>1, WriteKeepsReading
  <2>2. CASE UNCHANGED rows
    BY <1>1, <2>2 DEF rows, Reading, Generation, RevisionsOf, TranscriptOrder
  <2>. QED
    BY <2>1, <2>2
<1>. QED
  BY <1>1, <1>3 DEF Filed

LEMMA KeptShot ==
    ASSUME Rows, Write \/ UNCHANGED rows, NEW shot, Shot(shot)
    PROVE  Shot(shot)'
<1>1. ~shot.hit => Filed(shot.key, shot.deleted, shot.list)'
  BY KeptFiled DEF Shot
<1>. QED
  BY <1>1 DEF Shot

LEMMA KeptCache ==
    ASSUME Rows, Write \/ UNCHANGED rows, Cache, CacheConsistent, UNCHANGED orders
    PROVE  Cache' /\ CacheConsistent'
<1>1. \A i \in 1..Len(orders) : Filed(orders[i].key, orders[i].deleted, orders[i].ids)'
  BY KeptFiled DEF Cache
<1>2. Cache'
  BY <1>1 DEF Cache
<1>. QED
  BY <1>2 DEF CacheConsistent

-----------------------------------------------------------------------------
(* Writes *)

LEMMA KeptRows ==
    ASSUME Rows, Write \/ UNCHANGED rows
    PROVE  Rows'
<1>1. ASSUME NEW t \in TraceId, DeleteTrace(t) PROVE Rows'
  <2>1. deleted' = [deleted EXCEPT ![t] = @ + 1] /\ deleted' \in [TraceId -> Nat]
    BY <1>1 DEF DeleteTrace, Rows
  <2>2. traces' \subseteq TraceId /\ revisions' \subseteq revisions /\ runs' \subseteq runs
    BY <1>1 DEF DeleteTrace, Rows
  <2>3. own' = [r \in RevisionId |-> own'[r]] /\ merged' = [u \in TraceId |-> merged'[u]]
    BY <1>1 DEF DeleteTrace, Rows
  <2>. QED
    BY <2>1, <2>2, <2>3 DEF Rows
<1>2. ASSUME NEW t \in TraceId, NEW list \in NewLists(t), CommitRevision(t, list) PROVE Rows'
  <2> DEFINE r == LastOf({row[1] : row \in revisions}) + 1
  <2>1. r \in RevisionId /\ \A row \in revisions : row[1] # r
    BY <1>2, RevisionIsNew DEF CommitRevision
  <2>2. /\ revisions' = revisions \cup {<<r, t>>} /\ RecordRun(r) /\ deleted' = deleted
        /\ traces' = traces \cup {t} /\ Normalized(t, r, list)
    BY <1>2 DEF CommitRevision
  <2> HIDE DEF r
  <2>3. runs' \subseteq (1..MaxRun) \X RevisionId
    BY <2>1, <2>2, RunIsNew DEF Rows
  <2>4. own' = [q \in RevisionId |-> own'[q]] /\ merged' = [u \in TraceId |-> merged'[u]]
    BY <2>2 DEF Normalized, Rows
  <2>5. /\ revisions' \subseteq RevisionId \X TraceId
        /\ \A a, b \in revisions' : a[1] = b[1] => a[2] = b[2]
    BY <2>1, <2>2 DEF Rows
  <2>. QED
    BY <2>2, <2>3, <2>4, <2>5 DEF Rows
<1>3. ASSUME NEW t \in TraceId, NEW list \in NewLists(t), NEW r \in RevisionId, ReplaceRevisionEvents(t, r, list)
      PROVE  Rows'
  <2>1. RecordRun(r) /\ UNCHANGED <<traces, revisions, deleted>> /\ Normalized(t, r, list)
    BY <1>3 DEF ReplaceRevisionEvents
  <2>2. runs' \subseteq (1..MaxRun) \X RevisionId
    BY <2>1, RunIsNew DEF Rows
  <2>3. own' = [q \in RevisionId |-> own'[q]] /\ merged' = [u \in TraceId |-> merged'[u]]
    BY <2>1 DEF Normalized, Rows
  <2>. QED
    BY <2>1, <2>2, <2>3 DEF Rows
<1>4. ASSUME NEW r \in RevisionId, RecordFailedRun(r) PROVE Rows'
  <2>1. RecordRun(r) /\ UNCHANGED <<traces, revisions, deleted, own, merged>>
    BY <1>4 DEF RecordFailedRun
  <2>2. runs' \subseteq (1..MaxRun) \X RevisionId
    BY <2>1, RunIsNew DEF Rows
  <2>. QED
    BY <2>1, <2>2 DEF Rows
<1>5. CASE UNCHANGED rows
  BY <1>5 DEF rows, Rows
<1>. QED
  BY <1>1, <1>2, <1>3, <1>4, <1>5 DEF Write

LEMMA WriteKeeps ==
    ASSUME IInv, Write
    PROVE  IInv'
<1>1. UNCHANGED <<orders, readers>>
  BY DEF Write, DeleteTrace, CommitRevision, ReplaceRevisionEvents, RecordFailedRun
<1>2. Rows' /\ Cache' /\ CacheConsistent'
  BY <1>1, KeptRows, KeptCache DEF IInv
<1>3. Requests'
  BY <1>1, KeptShot DEF IInv, Requests, readers
<1>. QED
  BY <1>2, <1>3 DEF IInv

-----------------------------------------------------------------------------
(* Reads *)

\* A request that ends, or that only moves on without its snapshot.
LEMMA KeptRequests ==
    ASSUME IInv, UNCHANGED rows,
           view' \in [Reader -> View],
           snapshot' = [c \in Reader |-> snapshot'[c]],
           stage' \in [Reader -> {"none", "checked", "open", "ordered"}],
           \A c \in Reader : stage'[c] \in {"open", "ordered"} => stage'[c] = stage[c] /\ snapshot'[c] = snapshot[c]
    PROVE  Requests'
<1>1. \A c \in Reader : stage'[c] \in {"open", "ordered"} => (Shot(snapshot[c]) => Shot(snapshot[c])')
  <2>1. \A shot : Shot(shot) => Shot(shot)'
    BY KeptShot DEF IInv
  <2>. QED
    BY <2>1
<1>. QED
  BY <1>1 DEF IInv, Requests

LEMMA EndsKeep ==
    ASSUME IInv, UNCHANGED rows, NEW over, EndLoads(over)
    PROVE  Requests'
<1>1. <<1, 0>> \in View
  BY PageConstants DEF View, TraceId
<1>2. view' \in [Reader -> View]
  BY <1>1 DEF EndLoads, IInv, Requests
<1>3. stage' \in [Reader -> {"none", "checked", "open", "ordered"}]
  BY DEF EndLoads, IInv, Requests
<1>4. snapshot' = [c \in Reader |-> snapshot'[c]]
  BY DEF EndLoads
<1>5. \A c \in Reader : stage'[c] \in {"open", "ordered"} => stage'[c] = stage[c] /\ snapshot'[c] = snapshot[c]
  BY DEF EndLoads
<1>. QED
  BY <1>2, <1>3, <1>4, <1>5, KeptRequests

LEMMA RestartKeeps ==
    ASSUME IInv, Restart
    PROVE  IInv'
<1>1. Rows' /\ Requests'
  BY KeptRows, EndsKeep DEF IInv, Restart
<1>2. orders' = <<>> /\ <<>> \in Seq({}) /\ Len(<<>>) = 0
  BY DEF Restart
<1>3. Cache'
  BY <1>2 DEF Cache
<1>4. CacheConsistent'
  BY <1>2, PageConstants DEF CacheConsistent
<1>. QED
  BY <1>1, <1>3, <1>4 DEF IInv

LEMMA BeginKeeps ==
    ASSUME IInv, NEW c \in Reader, NEW v \in View, Begin(c, v)
    PROVE  IInv'
<1>1. UNCHANGED rows /\ UNCHANGED orders /\ UNCHANGED snapshot
  BY DEF Begin
<1>2. Rows' /\ Cache' /\ CacheConsistent'
  BY <1>1, KeptRows, KeptCache DEF IInv
<1>3. /\ stage' = [stage EXCEPT ![c] = "checked"] /\ view' = [view EXCEPT ![c] = v]
      /\ stage \in [Reader -> {"none", "checked", "open", "ordered"}] /\ view \in [Reader -> View]
      /\ snapshot = [d \in Reader |-> snapshot[d]]
  BY DEF Begin, IInv, Requests
<1>4. Requests'
  BY <1>1, <1>3, KeptRequests
<1>. QED
  BY <1>2, <1>4 DEF IInv

LEMMA ContinueKeeps ==
    ASSUME IInv, NEW c \in Reader, Continue(c)
    PROVE  IInv'
<1>1. UNCHANGED rows /\ UNCHANGED orders
  BY DEF Continue, Fail
<1>2. Rows' /\ Cache' /\ CacheConsistent'
  BY <1>1, KeptRows, KeptCache DEF IInv
<1>3. CASE view[c][1] \in traces
  <2>1. /\ stage' = [stage EXCEPT ![c] = "checked"] /\ view' = view /\ snapshot' = snapshot
        /\ stage \in [Reader -> {"none", "checked", "open", "ordered"}] /\ view \in [Reader -> View]
        /\ snapshot = [d \in Reader |-> snapshot[d]]
    BY <1>3 DEF Continue, IInv, Requests
  <2>2. Requests'
    BY <1>1, <2>1, KeptRequests
  <2>. QED
    BY <1>2, <2>2 DEF IInv
<1>4. CASE view[c][1] \notin traces
  BY <1>1, <1>2, <1>4, EndsKeep DEF Continue, Fail, IInv
<1>. QED
  BY <1>3, <1>4

\* A request goes on with a snapshot it may put into the cache.
LEMMA SnapshotKeeps ==
    ASSUME IInv, UNCHANGED rows, NEW c \in Reader, NEW shot, Shot(shot),
           NEW s \in {"open", "ordered"}, s = "open" => shot.hit = FALSE,
           stage' = [stage EXCEPT ![c] = s],
           snapshot' = [snapshot EXCEPT ![c] = shot],
           view' = view
    PROVE  Requests'
<1>1. \A x : Shot(x) => Shot(x)'
  BY KeptShot DEF IInv
<1>2. snapshot'[c] = shot /\ snapshot' = [d \in Reader |-> snapshot'[d]]
  BY DEF IInv, Requests
<1>3. Shot(snapshot[c])' /\ (s = "open" => snapshot'[c].hit = FALSE)
  BY <1>1, <1>2
<1>4. \A d \in Reader : d # c => snapshot'[d] = snapshot[d] /\ stage'[d] = stage[d]
  BY DEF IInv, Requests
<1>5. /\ stage'[c] = s /\ stage' \in [Reader -> {"none", "checked", "open", "ordered"}]
      /\ view' \in [Reader -> View]
  BY DEF IInv, Requests
<1>. QED
  BY <1>1, <1>2, <1>3, <1>4, <1>5 DEF IInv, Requests

\* What a request sees when its snapshot is taken is a reading.
LEMMA OpenKeeps ==
    ASSUME IInv, NEW c \in Reader, Open(c)
    PROVE  IInv'
<1> DEFINE v == view[c]
           g == Generation(v)
           shot == [key |-> <<v[1], v[2], g>>, order |-> TranscriptOrder(v),
                    events |-> UNION {EventsOf(t) : t \in TraceId}, deleted |-> deleted[v[1]],
                    list |-> TranscriptOrder(v), listSince |-> deleted[v[1]], hit |-> FALSE]
<1>1. UNCHANGED rows /\ UNCHANGED orders
  BY DEF Open, Fail
<1>2. Rows' /\ Cache' /\ CacheConsistent'
  BY <1>1, KeptRows, KeptCache DEF IInv
<1>3. CASE Fail(c)
  BY <1>2, <1>3, EndsKeep DEF Fail, IInv
<1>4. CASE /\ v[2] # 0 => <<v[2], v[1]>> \in revisions
           /\ stage' = [stage EXCEPT ![c] = "open"] /\ snapshot' = [snapshot EXCEPT ![c] = shot]
           /\ view' = view
  <2>1. v[1] \in TraceId /\ v[2] \in 0..MaxRevision
    BY DEF IInv, Requests, View
  <2>2. g \in Nat /\ deleted[v[1]] \in Nat
    BY <2>1, GenerationIsLast DEF IInv, Rows
  <2>3. Reading(<<v[1], v[2]>>, g, deleted[v[1]], TranscriptOrder(v))
    <3>1. v = <<v[1], v[2]>>
      BY DEF IInv, Requests, View
    <3>2. Reading(v, g, deleted[v[1]], TranscriptOrder(v))
      BY <1>4, <2>2 DEF Reading
    <3>. QED
      BY <3>1, <3>2
  <2>4. Filed(<<v[1], v[2], g>>, deleted[v[1]], TranscriptOrder(v))
    BY <2>1, <2>2, <2>3 DEF Filed
  <2>5. Shot(shot)
    BY <2>4 DEF Shot
  <2>6. shot.hit = FALSE
    OBVIOUS
  <2> HIDE DEF shot
  <2>7. Requests'
    BY <1>1, <1>4, <2>5, <2>6, SnapshotKeeps
  <2>. QED
    BY <1>2, <2>7 DEF IInv
<1>. QED
  BY <1>3, <1>4 DEF Open

LEMMA LookUpKeeps ==
    ASSUME IInv, NEW c \in Reader, LookUp(c)
    PROVE  IInv'
<1> DEFINE key == snapshot[c].key
<1>1. UNCHANGED rows /\ UNCHANGED orders /\ view' = view /\ stage[c] = "open"
  BY DEF LookUp
<1>2. Rows' /\ Cache' /\ CacheConsistent'
  BY <1>1, KeptRows, KeptCache DEF IInv
<1>3. Shot(snapshot[c])
  BY <1>1 DEF IInv, Requests
<1>4. stage' = [stage EXCEPT ![c] = "ordered"]
  BY DEF LookUp
<1>5. CASE Cached(key)
  <2> DEFINE found == CachedOrder(key)
             shot == [snapshot[c] EXCEPT !.list = found.ids, !.listSince = found.deleted, !.hit = TRUE]
  <2>1. snapshot' = [snapshot EXCEPT ![c] = shot]
    BY <1>5 DEF LookUp, IInv, Requests
  <2> HIDE DEF found
  <2>2. "hit" \in DOMAIN shot /\ shot.hit = TRUE
    BY <1>3 DEF Shot
  <2> HIDE DEF shot
  <2>3. Shot(shot)
    BY <2>2 DEF Shot
  <2>4. Requests'
    BY <1>1, <1>4, <2>1, <2>3, SnapshotKeeps
  <2>. QED
    BY <1>2, <2>4 DEF IInv
<1>6. CASE ~Cached(key)
  <2>1. snapshot' = [snapshot EXCEPT ![c] = snapshot[c]]
    BY <1>6 DEF LookUp, IInv, Requests
  <2>2. Requests'
    BY <1>1, <1>3, <1>4, <2>1, SnapshotKeeps
  <2>. QED
    BY <1>2, <2>2 DEF IInv
<1>. QED
  BY <1>5, <1>6

\* What Put leaves in the cache: no key twice, no more than fits, and nothing that was
\* not there but the order that is put.
LEMMA PutKeeps ==
    ASSUME Cache, CacheConsistent, NEW key, NEW ids, NEW d,
           orders' = Put(key, ids, d)
    PROVE  /\ \E entries : orders' \in Seq(entries)
           /\ CacheConsistent'
           /\ \A i \in 1..Len(orders') :
                 \/ \E j \in 1..Len(orders) : orders'[i] = orders[j]
                 \/ orders'[i].key = key /\ orders'[i].deleted = d /\ orders'[i].ids = ids
<1>1. CASE Cached(key)
  BY <1>1 DEF Put, Cache, CacheConsistent
<1>2. CASE ~Cached(key)
  <2> DEFINE entry == [key |-> key, ids |-> ids, deleted |-> d]
             base == IF Len(orders) = Capacity THEN Tail(orders) ELSE orders
  <2>1. PICK some : orders \in Seq(some)
    BY DEF Cache
  <2> DEFINE entries == some \cup {entry}
  <2>2. /\ orders \in Seq(entries) /\ Len(orders) \in Nat /\ DOMAIN orders = 1..Len(orders)
        /\ Capacity \in Nat \ {0} /\ Len(orders) <= Capacity
    BY <2>1, PageConstants DEF CacheConsistent
  <2> DEFINE n == IF Len(orders) = Capacity THEN 1 ELSE 0
  <2>3. base \in Seq(entries) /\ Len(base) + 1 <= Capacity
    <3>1. CASE Len(orders) = Capacity
      <4>1. base = Tail(orders) /\ orders # <<>>
        BY <2>2, <3>1
      <4>. QED
        BY <2>2, <3>1, <4>1
    <3>2. CASE Len(orders) # Capacity
      <4>1. base = orders
        BY <3>2
      <4> HIDE DEF base, entries
      <4>2. \A len, bound \in Nat : len <= bound /\ len # bound => len + 1 <= bound
        OBVIOUS
      <4>. QED
        BY <2>2, <3>2, <4>1, <4>2
    <3>. QED
      BY <3>1, <3>2
  <2>4. n \in Nat /\ \A i \in 1..Len(base) : i + n \in 1..Len(orders) /\ base[i] = orders[i + n]
    <3>1. CASE Len(orders) = Capacity
      <4>1. base = Tail(orders) /\ orders # <<>> /\ n = 1
        BY <2>2, <3>1
      <4>2. Len(Tail(orders)) = Len(orders) - 1 /\ \A i \in 1..Len(Tail(orders)) : Tail(orders)[i] = orders[i + 1]
        <5> HIDE DEF base, entries, entry
        <5>. QED
          BY <2>2, <4>1, HeadTailProperties
      <4> HIDE DEF n, base, entries, entry
      <4>. QED
        BY <2>2, <4>1, <4>2
    <3>2. CASE Len(orders) # Capacity
      <4>1. base = orders /\ n = 0
        BY <3>2
      <4> HIDE DEF n, base
      <4>. QED
        BY <2>2, <4>1
    <3>. QED
      BY <3>1, <3>2
  <2>5. entry \in entries /\ orders' = Append(base, entry)
    BY <1>2 DEF Put
  <2>6. entry.key = key /\ entry.ids = ids /\ entry.deleted = d
    OBVIOUS
  <2>7. \A i \in 1..Len(orders) : orders[i].key # key
    BY <1>2, <2>2 DEF Cached
  <2>8. \A i, j \in 1..Len(orders) : orders[i].key = orders[j].key => i = j
    BY <2>2 DEF CacheConsistent
  <2> HIDE DEF entry, base, entries, n
  <2>9. /\ orders' \in Seq(entries) /\ Len(orders') = Len(base) + 1
        /\ \A i \in 1..Len(base) : orders'[i] = base[i]
        /\ orders'[Len(base) + 1] = entry
    BY <2>3, <2>5
  <2>10. Len(base) \in Nat /\ DOMAIN orders' = 1..(Len(base) + 1)
    BY <2>3, <2>9
  <2>11. \A i \in 1..Len(orders') : i \in 1..Len(base) \/ i = Len(base) + 1
    BY <2>9, <2>10
  <2>12. \A i \in 1..Len(orders') :
            \/ \E j \in 1..Len(orders) : orders'[i] = orders[j]
            \/ orders'[i].key = key /\ orders'[i].deleted = d /\ orders'[i].ids = ids
    BY <2>4, <2>6, <2>9, <2>11
  <2>13. ASSUME NEW i \in 1..Len(orders'), NEW j \in 1..Len(orders'), orders'[i].key = orders'[j].key
         PROVE  i = j
    <3>1. CASE i = Len(base) + 1 /\ j = Len(base) + 1
      BY <3>1
    <3>2. CASE i = Len(base) + 1 /\ j \in 1..Len(base)
      BY <2>4, <2>6, <2>7, <2>9, <2>13, <3>2
    <3>3. CASE j = Len(base) + 1 /\ i \in 1..Len(base)
      BY <2>4, <2>6, <2>7, <2>9, <2>13, <3>3
    <3>4. CASE i \in 1..Len(base) /\ j \in 1..Len(base)
      <4>1. orders[i + n].key = orders[j + n].key /\ i + n \in 1..Len(orders) /\ j + n \in 1..Len(orders)
        BY <2>4, <2>9, <2>13, <3>4
      <4>2. i + n = j + n
        BY <2>8, <4>1
      <4>. QED
        BY <2>4, <2>10, <3>4, <4>2
    <3>. QED
      BY <2>11, <3>1, <3>2, <3>3, <3>4
  <2>14. CacheConsistent'
    BY <2>3, <2>9, <2>10, <2>13 DEF CacheConsistent
  <2>. QED
    BY <2>9, <2>12, <2>14
<1>. QED
  BY <1>1, <1>2

LEMMA ServeKeeps ==
    ASSUME IInv, NEW c \in Reader, Serve(c)
    PROVE  IInv'
<1> DEFINE shot == snapshot[c]
<1>1. UNCHANGED rows /\ stage[c] = "ordered"
  BY DEF Serve
<1>2. Rows'
  BY <1>1, KeptRows DEF IInv
<1>3. Shot(shot)
  BY <1>1 DEF IInv, Requests
<1>4. Cache' /\ CacheConsistent'
  <2>1. CASE shot.hit = TRUE
    <3>1. orders' = orders
      BY <2>1 DEF Serve
    <3>. QED
      BY <1>1, <3>1, KeptCache DEF IInv
  <2>2. CASE shot.hit = FALSE
    <3>1. orders' = Put(shot.key, shot.list, shot.deleted)
      BY <2>2 DEF Serve
    <3>2. Filed(shot.key, shot.deleted, shot.list)
      BY <1>3, <2>2 DEF Shot
    <3>3. /\ \E entries : orders' \in Seq(entries)
          /\ CacheConsistent'
          /\ \A i \in 1..Len(orders') : Filed(orders'[i].key, orders'[i].deleted, orders'[i].ids)
      BY <3>1, <3>2, PutKeeps DEF IInv, Cache
    <3>4. \A key, d, ids : Filed(key, d, ids) => Filed(key, d, ids)'
      BY <1>1, KeptFiled DEF IInv
    <3>5. Cache'
      BY <3>3, <3>4 DEF Cache
    <3>. QED
      BY <3>3, <3>5
  <2>3. shot.hit \in BOOLEAN
    BY <1>3 DEF Shot
  <2>. QED
    BY <2>1, <2>2, <2>3
<1>5. Requests'
  <2>1. CASE EndLoads({c})
    BY <1>1, <2>1, EndsKeep
  <2>2. CASE /\ stage' = [stage EXCEPT ![c] = "none"] /\ snapshot' = [snapshot EXCEPT ![c] = None]
             /\ view' = view
    <3>1. /\ stage \in [Reader -> {"none", "checked", "open", "ordered"}] /\ view \in [Reader -> View]
          /\ snapshot = [d \in Reader |-> snapshot[d]]
      BY DEF IInv, Requests
    <3>. QED
      BY <1>1, <2>2, <3>1, KeptRequests
  <2>. QED
    BY <2>1, <2>2 DEF Serve
<1>. QED
  BY <1>2, <1>4, <1>5 DEF IInv

-----------------------------------------------------------------------------
LEMMA Initial ==
    ASSUME Init
    PROVE  IInv
<1>1. <<1, 0>> \in View
  BY PageConstants DEF View, TraceId
<1>2. Rows
  BY DEF Init, Rows
<1>3. orders = <<>> /\ <<>> \in Seq({}) /\ Len(<<>>) = 0
  BY DEF Init
<1>4. Cache
  BY <1>3 DEF Cache
<1>5. CacheConsistent
  BY <1>3, PageConstants DEF CacheConsistent
<1>6. Requests
  BY <1>1 DEF Init, Requests
<1>. QED
  BY <1>2, <1>4, <1>5, <1>6 DEF IInv

LEMMA Step ==
    ASSUME IInv, [Next]_vars
    PROVE  IInv'
<1>1. CASE UNCHANGED vars
  <2>1. UNCHANGED rows /\ UNCHANGED orders /\ UNCHANGED <<stage, view, snapshot>>
    BY <1>1 DEF vars, readers
  <2>2. Rows' /\ Cache' /\ CacheConsistent'
    BY <2>1, KeptRows, KeptCache DEF IInv
  <2>3. stage \in [Reader -> {"none", "checked", "open", "ordered"}] /\ view \in [Reader -> View]
        /\ snapshot = [c \in Reader |-> snapshot[c]]
    BY DEF IInv, Requests
  <2>4. Requests'
    BY <2>1, <2>3, KeptRequests
  <2>. QED
    BY <2>2, <2>4 DEF IInv
<1>2. ASSUME NEW c \in Reader, Read(c) PROVE IInv'
  BY <1>2, BeginKeeps, ContinueKeeps, OpenKeeps, LookUpKeeps, ServeKeeps DEF Read
<1>. QED
  BY <1>1, <1>2, WriteKeeps, RestartKeeps DEF Next

LEMMA Invariant == Spec => []IInv
<1>1. Init => IInv
  BY Initial
<1>2. IInv /\ [Next]_vars => IInv'
  BY Step
<1>. QED
  BY <1>1, <1>2, PTL DEF Spec

\* The cache of transcript orders never holds a key twice and never more keys than its
\* capacity, however many requests compute the same order at once (transcriptOrders.put).
THEOREM CacheIsConsistent == Spec => []CacheConsistent
<1>1. IInv => CacheConsistent
  BY DEF IInv
<1>. QED
  BY <1>1, Invariant, PTL

\* An order in the cache whose key is that of a current request is the order the view has
\* now, unless the row of its Trace was deleted after it was read: a normalizer run that
\* changes a transcript always has a newer generation (transcriptOrder in transcript.go).
THEOREM CacheIsFresh == Spec => []CacheFresh
<1>1. ASSUME IInv PROVE CacheFresh
  <2>1. SUFFICES ASSUME NEW i \in DOMAIN orders, orders[i].deleted = deleted[orders[i].key[1]]
                 PROVE  Fresh(orders[i])
    BY DEF CacheFresh
  <2>2. DOMAIN orders = 1..Len(orders)
    BY <1>1 DEF IInv, Cache
  <2>3. Filed(orders[i].key, orders[i].deleted, orders[i].ids)
    BY <1>1, <2>1, <2>2 DEF IInv, Cache
  <2>. QED
    BY <2>1, <2>3 DEF Filed, Reading, Fresh
<1>. QED
  BY <1>1, Invariant, PTL

-----------------------------------------------------------------------------
(***************************************************************************)
(* The pages of a load.  Above is what a row's deletion does not touch.    *)
(* Here deletions count: an order from before one has no event that is     *)
(* still there, because event ids do not come back, so a page of it is     *)
(* refused.                                                                *)
(***************************************************************************)

At(c) == stage[c] \in {"open", "ordered"}

Lists ==
    /\ lastEvent \in Nat
    /\ own \in [RevisionId -> Seq(1..lastEvent)]
    /\ merged \in [TraceId -> Seq(1..lastEvent)]
    /\ \A row \in revisions : Elements(own[row[1]]) \subseteq EventsOf(row[2])
    /\ \A t, u \in TraceId : t # u => EventsOf(t) \cap EventsOf(u) = {}

\* An order that was read: its events are those of one Trace, and none is left once the
\* row of that Trace was deleted.
Known(key, d, ids) ==
    /\ Filed(key, d, ids)
    /\ ids \in Seq(1..lastEvent)
    /\ \A u \in TraceId : u # key[1] \/ d < deleted[key[1]] => Elements(ids) \cap EventsOf(u) = {}

-----------------------------------------------------------------------------
(* The lists that a normalizer run makes *)

LEMMA ArrangementHasAll ==
    ASSUME NEW N \in Nat, NEW ids, ids \subseteq 1..N, NEW list \in Arrangements(ids)
    PROVE  list \in Seq(ids) /\ Elements(list) = ids
<1>1. IsFiniteSet(1..N)
  BY FS_Interval
<1>2. IsFiniteSet(ids) /\ Cardinality(ids) \in Nat
  BY <1>1, FS_Subset, FS_CardinalityType
<1>3. /\ list \in [1..Cardinality(ids) -> ids]
      /\ \A i, j \in 1..Cardinality(ids) : list[i] = list[j] => i = j
  BY DEF Arrangements
<1>4. list \in Seq(ids) /\ Len(list) = Cardinality(ids)
  BY <1>2, <1>3
<1>5. list \in Injection(1..Cardinality(ids), ids)
  BY <1>3 DEF Injection, IsInjective
<1>6. Cardinality(1..Cardinality(ids)) = Cardinality(ids)
  BY <1>2, FS_Interval
<1>7. list \in Surjection(1..Cardinality(ids), ids)
  BY <1>2, <1>5, <1>6, FS_Injection
<1>8. \A e \in ids : \E i \in 1..Len(list) : list[i] = e
  BY <1>4, <1>7 DEF Surjection
<1>9. \A i \in 1..Len(list) : list[i] \in ids
  BY <1>4
<1>. QED
  BY <1>4, <1>8, <1>9 DEF Elements

\* A transaction that normalizes Revision r of Trace t leaves the events of the other
\* Revisions where they are, and adds none that was ever used.
LEMMA NormalizedLists ==
    ASSUME Rows, Lists, NEW t \in TraceId, NEW r \in RevisionId, NEW list \in NewLists(t),
           Normalized(t, r, list)
    PROVE  /\ lastEvent' \in Nat /\ lastEvent <= lastEvent'
           /\ own' \in [RevisionId -> Seq(1..lastEvent')]
           /\ merged' \in [TraceId -> Seq(1..lastEvent')]
           /\ own' = [own EXCEPT ![r] = list]
           /\ \A u \in TraceId \ {t} : merged'[u] = merged[u]
           /\ Elements(list) \subseteq EventsOf(t)'
           /\ \A q \in RevisionsOf(t) \ {r} : Elements(own[q]) \subseteq EventsOf(t)'
           /\ EventsOf(t)' \subseteq EventsOf(t) \cup ((lastEvent + 1)..lastEvent')
<1> DEFINE others == UNION {Elements(own[q]) : q \in RevisionsOf(t) \ {r}}
           fresh == Elements(list) \ EventsOf(t)
           all == others \cup Elements(list)
<1>1. lastEvent \in Nat /\ EventsOf(t) \subseteq 1..lastEvent
  BY DEF Lists, EventsOf, Elements
<1>2. PICK ids : ids \subseteq EventsOf(t) \cup ((lastEvent + 1)..(lastEvent + 2)) /\ list \in Arrangements(ids)
  <2>1. PICK ids \in SUBSET (EventsOf(t) \cup ((lastEvent + 1)..(IF lastEvent + 2 < MaxEvent THEN lastEvent + 2 ELSE MaxEvent))) :
             list \in Arrangements(ids)
    BY DEF NewLists
  <2>2. (lastEvent + 1)..(IF lastEvent + 2 < MaxEvent THEN lastEvent + 2 ELSE MaxEvent) \subseteq (lastEvent + 1)..(lastEvent + 2)
    BY <1>1, PageConstants
  <2>. QED
    BY <2>1, <2>2
<1>3. ids \subseteq 1..(lastEvent + 2) /\ lastEvent + 2 \in Nat
  BY <1>1, <1>2
<1>4. list \in Seq(ids) /\ Elements(list) = ids
  BY <1>2, <1>3, ArrangementHasAll
<1>5. Cardinality(fresh) \in Nat
  <2>1. IsFiniteSet(1..(lastEvent + 2))
    BY <1>1, FS_Interval
  <2>2. IsFiniteSet(fresh)
    BY <1>3, <1>4, <2>1, FS_Subset
  <2>. QED
    BY <2>2, FS_CardinalityType
<1>6. /\ own' = [own EXCEPT ![r] = list]
      /\ fresh = (lastEvent + 1)..(lastEvent + Cardinality(fresh))
      /\ lastEvent' = lastEvent + Cardinality(fresh)
  BY DEF Normalized
<1>7. PICK order \in IF others = {} THEN {list} ELSE Arrangements(all) : merged' = [merged EXCEPT ![t] = order]
  BY DEF Normalized
<1> HIDE DEF fresh
<1>8. lastEvent' \in Nat /\ lastEvent <= lastEvent' /\ fresh = (lastEvent + 1)..lastEvent'
  BY <1>1, <1>5, <1>6
<1>9. Elements(list) \subseteq EventsOf(t) \cup ((lastEvent + 1)..lastEvent')
  BY <1>8 DEF fresh
<1>10. others \subseteq EventsOf(t)
  <2>1. ASSUME NEW q \in RevisionsOf(t) PROVE Elements(own[q]) \subseteq EventsOf(t)
    <3>1. <<q, t>> \in revisions /\ <<q, t>>[1] = q /\ <<q, t>>[2] = t
      BY DEF RevisionsOf
    <3>. QED
      BY <3>1 DEF Lists
  <2>. QED
    BY <2>1
<1>11. all \subseteq EventsOf(t) \cup ((lastEvent + 1)..lastEvent') /\ all \subseteq 1..lastEvent'
  BY <1>1, <1>8, <1>9, <1>10
<1>12. order \in Seq(all) /\ Elements(order) = all
  <2>1. CASE others = {}
    BY <1>4, <1>7, <2>1
  <2>2. CASE others # {}
    BY <1>7, <1>8, <1>11, <2>2, ArrangementHasAll
  <2>. QED
    BY <2>1, <2>2
<1>13. EventsOf(t)' = all
  <2>1. merged'[t] = order
    BY <1>7 DEF Lists
  <2>2. Elements(merged'[t]) = all
    BY <1>12, <2>1
  <2>. QED
    BY <2>2 DEF EventsOf, Elements
<1>14. \A q \in RevisionsOf(t) \ {r} : Elements(own[q]) \subseteq others
  OBVIOUS
<1>15. order \in Seq(1..lastEvent') /\ list \in Seq(1..lastEvent')
  BY <1>4, <1>11, <1>12, SeqMonotonic
<1>16. /\ \A q \in RevisionId : own[q] \in Seq(1..lastEvent')
       /\ \A u \in TraceId : merged[u] \in Seq(1..lastEvent')
  <2>1. 1..lastEvent \subseteq 1..lastEvent'
    BY <1>1, <1>8
  <2>. QED
    BY <2>1, SeqMonotonic DEF Lists
<1> HIDE DEF others
<1>17. own' \in [RevisionId -> Seq(1..lastEvent')]
  BY <1>6, <1>15, <1>16 DEF Lists
<1>18. merged' \in [TraceId -> Seq(1..lastEvent')] /\ \A u \in TraceId \ {t} : merged'[u] = merged[u]
  BY <1>7, <1>15, <1>16 DEF Lists
<1>. QED
  BY <1>6, <1>8, <1>11, <1>13, <1>14, <1>17, <1>18

-----------------------------------------------------------------------------
\* What is true of the events after a write: a row of a Trace that is there gets events
\* never used before, a row that is deleted loses all of them.
Grown ==
    /\ lastEvent' \in Nat /\ lastEvent <= lastEvent'
    /\ \A u \in TraceId :
          /\ EventsOf(u)' \subseteq EventsOf(u) \cup ((lastEvent + 1)..lastEvent')
          /\ deleted'[u] # deleted[u] => EventsOf(u)' = {}

LEMMA NormalizedKeeps ==
    ASSUME Rows, Lists, NEW t \in TraceId, NEW r \in RevisionId, NEW list \in NewLists(t),
           Normalized(t, r, list), revisions' = revisions \cup {<<r, t>>},
           \A row \in revisions : row[1] = r => row[2] = t,
           deleted' = deleted
    PROVE  Lists' /\ Grown
<1>1. /\ lastEvent' \in Nat /\ lastEvent <= lastEvent'
      /\ own' \in [RevisionId -> Seq(1..lastEvent')]
      /\ merged' \in [TraceId -> Seq(1..lastEvent')]
      /\ own' = [own EXCEPT ![r] = list]
      /\ \A u \in TraceId \ {t} : merged'[u] = merged[u]
      /\ Elements(list) \subseteq EventsOf(t)'
      /\ \A q \in RevisionsOf(t) \ {r} : Elements(own[q]) \subseteq EventsOf(t)'
      /\ EventsOf(t)' \subseteq EventsOf(t) \cup ((lastEvent + 1)..lastEvent')
  BY NormalizedLists
<1>2. \A u \in TraceId : EventsOf(u) \subseteq 1..lastEvent
  BY DEF Lists, EventsOf, Elements
<1>3. \A u \in TraceId \ {t} : EventsOf(u)' = EventsOf(u)
  BY <1>1 DEF EventsOf, Elements
<1>4. Grown
  BY <1>1, <1>3 DEF Grown
<1>5. \A u \in TraceId \ {t} : EventsOf(t)' \cap EventsOf(u)' = {}
  <2>1. TAKE u \in TraceId \ {t}
  <2>2. EventsOf(t) \cap EventsOf(u) = {} /\ EventsOf(u) \subseteq 1..lastEvent /\ lastEvent \in Nat
    BY <1>2 DEF Lists
  <2>3. ((lastEvent + 1)..lastEvent') \cap (1..lastEvent) = {}
    BY <1>1, <2>2
  <2>. QED
    BY <1>1, <1>3, <2>2, <2>3
<1>6. \A u, w \in TraceId : u # w => EventsOf(u)' \cap EventsOf(w)' = {}
  <2>1. TAKE u, w \in TraceId
  <2>2. EventsOf(u) \cap EventsOf(w) = {} \/ u = w
    BY DEF Lists
  <2>3. CASE u = t
    BY <1>5, <2>3
  <2>4. CASE w = t
    BY <1>5, <2>4
  <2>5. CASE u # t /\ w # t
    BY <1>3, <2>2, <2>5
  <2>. QED
    BY <2>3, <2>4, <2>5
<1>7. \A row \in revisions' : Elements(own[row[1]])' \subseteq EventsOf(row[2])'
  <2>1. TAKE row \in revisions'
  <2>2. row[1] \in RevisionId /\ row[2] \in TraceId /\ row = <<row[1], row[2]>>
    BY DEF Rows
  <2>3. CASE row[1] = r
    <3>1. row[2] = t
      <4>1. row \in revisions \/ row = <<r, t>>
        OBVIOUS
      <4>. QED
        BY <2>3, <4>1
    <3>4. own'[r] = list
      BY <1>1 DEF Lists
    <3>2. Elements(own'[row[1]]) = Elements(list)
      BY <2>3, <3>4
    <3>3. Elements(own[row[1]])' = Elements(own'[row[1]])
      BY DEF Elements
    <3>. QED
      BY <1>1, <3>1, <3>2, <3>3
  <2>4. CASE row[1] # r
    <3>1. row \in revisions /\ own'[row[1]] = own[row[1]]
      BY <1>1, <2>2, <2>4 DEF Lists
    <3>2. Elements(own[row[1]])' = Elements(own[row[1]])
      BY <3>1 DEF Elements
    <3>3. CASE row[2] = t
      <4>1. row[1] \in RevisionsOf(t) \ {r}
        BY <2>2, <2>4, <3>1, <3>3 DEF RevisionsOf
      <4>. QED
        BY <1>1, <3>2, <3>3, <4>1
    <3>4. CASE row[2] # t
      <4>1. Elements(own[row[1]]) \subseteq EventsOf(row[2])
        BY <3>1 DEF Lists
      <4>2. EventsOf(row[2])' = EventsOf(row[2])
        BY <1>3, <2>2, <3>4
      <4>. QED
        BY <3>2, <4>1, <4>2
    <3>. QED
      BY <3>3, <3>4
  <2>. QED
    BY <2>3, <2>4
<1>8. Lists'
  BY <1>1, <1>6, <1>7 DEF Lists
<1>. QED
  BY <1>4, <1>8

LEMMA KeptLists ==
    ASSUME Rows, Lists, Write \/ UNCHANGED rows
    PROVE  Lists' /\ Grown
<1>1. ASSUME NEW t \in TraceId, DeleteTrace(t) PROVE Lists' /\ Grown
  <2>1. /\ lastEvent' = lastEvent
        /\ revisions' = {row \in revisions : row[2] # t}
        /\ own' = [r \in RevisionId |-> IF r \in RevisionsOf(t) THEN <<>> ELSE own[r]]
        /\ merged' = [merged EXCEPT ![t] = <<>>]
        /\ deleted' = [deleted EXCEPT ![t] = @ + 1]
    BY <1>1 DEF DeleteTrace
  <2>2. <<>> \in Seq(1..lastEvent)
    OBVIOUS
  <2>3. merged'[t] = <<>> /\ EventsOf(t)' = {}
    <3>1. merged'[t] = <<>>
      BY <2>1 DEF Lists
    <3>. QED
      BY <3>1 DEF EventsOf, Elements
  <2>4. \A u \in TraceId \ {t} : EventsOf(u)' = EventsOf(u) /\ deleted'[u] = deleted[u]
    BY <2>1 DEF EventsOf, Elements, Lists, Rows
  <2>5. /\ own' \in [RevisionId -> Seq(1..lastEvent')]
        /\ merged' \in [TraceId -> Seq(1..lastEvent')]
    BY <2>1, <2>2 DEF Lists
  <2>6. \A row \in revisions' : Elements(own[row[1]])' \subseteq EventsOf(row[2])'
    <3>1. TAKE row \in revisions'
    <3>2. row \in revisions /\ row[1] \in RevisionId /\ row[2] \in TraceId \ {t}
      BY <2>1 DEF Rows
    <3>3. row[1] \notin RevisionsOf(t)
      BY <3>2 DEF RevisionsOf, Rows
    <3>4. own'[row[1]] = own[row[1]]
      BY <2>1, <3>2, <3>3
    <3>5. Elements(own[row[1]])' = Elements(own[row[1]])
      BY <3>4 DEF Elements
    <3>. QED
      <4>1. Elements(own[row[1]]) \subseteq EventsOf(row[2])
        BY <3>2 DEF Lists
      <4>2. EventsOf(row[2])' = EventsOf(row[2])
        BY <2>4, <3>2
      <4>. QED
        BY <3>5, <4>1, <4>2
  <2>7. \A u, w \in TraceId : u # w => EventsOf(u)' \cap EventsOf(w)' = {}
    BY <2>3, <2>4 DEF Lists
  <2>8. Lists'
    BY <2>1, <2>5, <2>6, <2>7 DEF Lists
  <2>9. Grown
    BY <2>1, <2>3, <2>4 DEF Grown, Lists
  <2>. QED
    BY <2>8, <2>9
<1>2. ASSUME NEW t \in TraceId, NEW list \in NewLists(t), CommitRevision(t, list) PROVE Lists' /\ Grown
  <2> DEFINE r == LastOf({row[1] : row \in revisions}) + 1
  <2>1. r \in RevisionId /\ \A row \in revisions : row[1] # r
    BY <1>2, RevisionIsNew DEF CommitRevision
  <2>2. revisions' = revisions \cup {<<r, t>>} /\ deleted' = deleted /\ Normalized(t, r, list)
    BY <1>2 DEF CommitRevision
  <2> HIDE DEF r
  <2>. QED
    BY <2>1, <2>2, NormalizedKeeps
<1>3. ASSUME NEW t \in TraceId, NEW list \in NewLists(t), NEW r \in RevisionId, ReplaceRevisionEvents(t, r, list)
      PROVE  Lists' /\ Grown
  <2>1. <<r, t>> \in revisions /\ UNCHANGED <<revisions, deleted>> /\ Normalized(t, r, list)
    BY <1>3 DEF ReplaceRevisionEvents
  <2>2. \A row \in revisions : row[1] = r => row[2] = t
    BY <2>1 DEF Rows
  <2>3. revisions' = revisions \cup {<<r, t>>}
    BY <2>1
  <2>. QED
    BY <2>1, <2>2, <2>3, NormalizedKeeps
<1>4. ASSUME UNCHANGED <<revisions, own, merged, lastEvent, deleted>> PROVE Lists' /\ Grown
  <2>1. \A u \in TraceId : EventsOf(u)' = EventsOf(u)
    BY <1>4 DEF EventsOf, Elements
  <2>2. \A row \in revisions : Elements(own[row[1]])' = Elements(own[row[1]])
    BY <1>4 DEF Elements
  <2>3. lastEvent' \in Nat /\ lastEvent <= lastEvent'
    BY <1>4 DEF Lists
  <2>4. Grown
    BY <1>4, <2>1, <2>3 DEF Grown
  <2>5. /\ lastEvent' \in Nat
        /\ own' \in [RevisionId -> Seq(1..lastEvent')]
        /\ merged' \in [TraceId -> Seq(1..lastEvent')]
    BY <1>4 DEF Lists
  <2>6. \A row \in revisions' : Elements(own[row[1]])' \subseteq EventsOf(row[2])'
    <3>1. TAKE row \in revisions'
    <3>2. row \in revisions /\ row[2] \in TraceId
      BY <1>4 DEF Rows
    <3>3. Elements(own[row[1]]) \subseteq EventsOf(row[2])
      BY <3>2 DEF Lists
    <3>. QED
      BY <2>1, <2>2, <3>2, <3>3
  <2>7. \A t, u \in TraceId : t # u => EventsOf(t) \cap EventsOf(u) = {}
    BY DEF Lists
  <2>8. \A t, u \in TraceId : t # u => EventsOf(t)' \cap EventsOf(u)' = {}
    BY <2>1, <2>7
  <2>. QED
    BY <2>4, <2>5, <2>6, <2>8 DEF Lists
<1>5. ASSUME NEW r \in RevisionId, RecordFailedRun(r) PROVE Lists' /\ Grown
  BY <1>4, <1>5 DEF RecordFailedRun
<1>6. CASE UNCHANGED rows
  BY <1>4, <1>6 DEF rows
<1>. QED
  BY <1>1, <1>2, <1>3, <1>5, <1>6 DEF Write

LEMMA KeptKnown ==
    ASSUME Rows, Lists, Write \/ UNCHANGED rows, NEW key, NEW d, NEW ids, Known(key, d, ids)
    PROVE  Known(key, d, ids)'
<1>1. Grown /\ lastEvent \in Nat
  BY KeptLists DEF Lists
<1>2. Filed(key, d, ids)'
  BY KeptFiled DEF Known
<1>3. ids \in Seq(1..lastEvent) /\ ids \in Seq(1..lastEvent')
  <2>1. 1..lastEvent \subseteq 1..lastEvent'
    BY <1>1 DEF Grown
  <2>. QED
    BY <2>1, SeqMonotonic DEF Known
<1>4. Elements(ids) \subseteq 1..lastEvent
  <2>1. \A i \in 1..Len(ids) : ids[i] \in 1..lastEvent
    BY <1>3, ElementOfSeq
  <2>. QED
    BY <2>1 DEF Elements
<1>5. key[1] \in TraceId /\ d \in Nat /\ deleted[key[1]] \in Nat
  BY DEF Known, Filed, Rows
<1>6. ASSUME NEW u \in TraceId, u # key[1] \/ d < deleted'[key[1]]
      PROVE  Elements(ids) \cap EventsOf(u)' = {}
  <2>1. CASE u # key[1] \/ d < deleted[key[1]]
    <3>1. Elements(ids) \cap EventsOf(u) = {}
      BY <2>1 DEF Known
    <3>2. ((lastEvent + 1)..lastEvent') \cap (1..lastEvent) = {}
      BY <1>1 DEF Grown
    <3>. QED
      BY <1>1, <1>4, <3>1, <3>2 DEF Grown
  <2>2. CASE u = key[1] /\ deleted'[u] # deleted[u]
    BY <1>1, <2>2 DEF Grown
  <2>. QED
    BY <1>5, <1>6, <2>1, <2>2
<1>7. Elements(ids)' = Elements(ids)
  BY DEF Elements
<1>. QED
  BY <1>2, <1>3, <1>6, <1>7 DEF Known

\* The deletions of a row are counted up.
LEMMA DeletedGrows ==
    ASSUME Rows, Write \/ UNCHANGED rows
    PROVE  \A t \in TraceId : deleted[t] \in Nat /\ deleted'[t] \in Nat /\ deleted[t] <= deleted'[t]
<1>1. ASSUME NEW t \in TraceId, DeleteTrace(t)
      PROVE  \A u \in TraceId : deleted[u] \in Nat /\ deleted'[u] \in Nat /\ deleted[u] <= deleted'[u]
  BY <1>1 DEF DeleteTrace, Rows
<1>2. ASSUME deleted' = deleted
      PROVE  \A u \in TraceId : deleted[u] \in Nat /\ deleted'[u] \in Nat /\ deleted[u] <= deleted'[u]
  BY <1>2 DEF Rows
<1>. QED
  BY <1>1, <1>2 DEF Write, CommitRevision, ReplaceRevisionEvents, RecordFailedRun, rows

-----------------------------------------------------------------------------(* Cached orders, and what a request has of its snapshot and of the cache *)

\* What request s has is the order its snapshot shows, or one from the cache: that one is
\* the same, or was read before or after a deletion that the snapshot does not show.
Taken(s) ==
    /\ {"key", "order", "events", "deleted", "list", "listSince", "hit"} \subseteq DOMAIN s /\ s.hit \in BOOLEAN
    /\ Known(s.key, s.deleted, s.order)
    /\ Elements(s.order) \subseteq s.events
    /\ Known(s.key, s.listSince, s.list)
    /\ s.listSince = s.deleted => s.list = s.order
    /\ s.listSince < s.deleted => Elements(s.list) \cap s.events = {}
    /\ ~s.hit => s.list = s.order /\ s.listSince = s.deleted

\* An order of the same key as that of request s.
Agrees(s, key, d, ids) ==
    key = s.key =>
        /\ d = s.deleted => ids = s.order
        /\ d < s.deleted => Elements(ids) \cap s.events = {}

Held ==
    /\ \A i \in 1..Len(orders) : Known(orders[i].key, orders[i].deleted, orders[i].ids)
    /\ \A c \in Reader : At(c) => Taken(snapshot[c])

Agreement ==
    \A c \in Reader : At(c) =>
        /\ \A i \in 1..Len(orders) : Agrees(snapshot[c], orders[i].key, orders[i].deleted, orders[i].ids)
        /\ \A b \in Reader : At(b) => Agrees(snapshot[c], snapshot[b].key, snapshot[b].deleted, snapshot[b].order)

LEMMA KeptTaken ==
    ASSUME Rows, Lists, Write \/ UNCHANGED rows, NEW s, Taken(s)
    PROVE  Taken(s)'
<1>1. Known(s.key, s.deleted, s.order)' /\ Known(s.key, s.listSince, s.list)'
  BY KeptKnown DEF Taken
<1>2. Elements(s.order)' = Elements(s.order) /\ Elements(s.list)' = Elements(s.list)
  BY DEF Elements
<1>. QED
  BY <1>1, <1>2 DEF Taken

\* A step that leaves the cache alone, and the snapshots of the requests that have one.
LEMMA KeptHeld ==
    ASSUME Rows, Lists, Held, Agreement, Write \/ UNCHANGED rows, UNCHANGED orders,
           \A c \in Reader : At(c)' => At(c) /\ snapshot'[c] = snapshot[c]
    PROVE  Held' /\ Agreement'
<1>1. \A i \in 1..Len(orders) : Known(orders[i].key, orders[i].deleted, orders[i].ids)'
  BY KeptKnown DEF Held
<1>2. \A s : Taken(s) => Taken(s)'
  BY KeptTaken
<1>3. \A c \in Reader : At(c)' => Taken(snapshot[c])'
  BY <1>2 DEF Held
<1>4. Held'
  BY <1>1, <1>3 DEF Held
<1>5. Agreement'
  BY DEF Agreement, Agrees, Elements
<1>. QED
  BY <1>4, <1>5

\* An order of the key that a request gets now was read before the row was deleted, or is
\* the order the request sees.
LEMMA KnownNow ==
    ASSUME Rows, NEW v \in View, NEW d, NEW ids, Known(<<v[1], v[2], Generation(v)>>, d, ids)
    PROVE  /\ d <= deleted[v[1]]
           /\ d = deleted[v[1]] => ids = TranscriptOrder(v)
           /\ d < deleted[v[1]] => Elements(ids) \cap UNION {EventsOf(t) : t \in TraceId} = {}
<1> DEFINE key == <<v[1], v[2], Generation(v)>>
<1>1. key[1] = v[1] /\ key[2] = v[2] /\ key[3] = Generation(v) /\ v = <<v[1], v[2]>>
  BY DEF View
<1>2. Filed(key, d, ids) /\ \A u \in TraceId : d < deleted[key[1]] => Elements(ids) \cap EventsOf(u) = {}
  BY DEF Known
<1> HIDE DEF key
<1>3. Reading(v, Generation(v), d, ids)
  BY <1>1, <1>2 DEF Filed
<1>. QED
  BY <1>1, <1>2, <1>3 DEF Reading

\* What a request sees is an order like those in the cache.
LEMMA SeenIsKnown ==
    ASSUME Rows, Lists, NEW v \in View, v[2] # 0 => <<v[2], v[1]>> \in revisions
    PROVE  /\ Known(<<v[1], v[2], Generation(v)>>, deleted[v[1]], TranscriptOrder(v))
           /\ Elements(TranscriptOrder(v)) \subseteq UNION {EventsOf(t) : t \in TraceId}
<1> DEFINE key == <<v[1], v[2], Generation(v)>>
<1>1. key[1] = v[1] /\ key[2] = v[2] /\ key[3] = Generation(v) /\ v = <<v[1], v[2]>>
      /\ v[1] \in TraceId /\ v[2] \in 0..MaxRevision
  BY DEF View
<1>2. Generation(v) \in Nat /\ deleted[v[1]] \in Nat
  BY <1>1, GenerationIsLast DEF Rows
<1>3. Reading(v, Generation(v), deleted[v[1]], TranscriptOrder(v))
  BY <1>2 DEF Reading
<1>4. TranscriptOrder(v) \in Seq(1..lastEvent) /\ Elements(TranscriptOrder(v)) \subseteq EventsOf(v[1])
  <2>1. CASE v[2] = 0
    BY <1>1, <2>1 DEF TranscriptOrder, EventsOf, Lists
  <2>2. CASE v[2] # 0
    <3>1. <<v[2], v[1]>> \in revisions /\ <<v[2], v[1]>>[1] = v[2] /\ <<v[2], v[1]>>[2] = v[1]
      BY <2>2
    <3>2. Elements(own[v[2]]) \subseteq EventsOf(v[1])
      BY <3>1 DEF Lists
    <3>3. v[2] \in RevisionId
      BY <3>1 DEF Rows
    <3>. QED
      BY <2>2, <3>2, <3>3 DEF TranscriptOrder, Lists
  <2>. QED
    BY <2>1, <2>2
<1>5. \A u \in TraceId \ {v[1]} : Elements(TranscriptOrder(v)) \cap EventsOf(u) = {}
  <2>1. \A u \in TraceId \ {v[1]} : EventsOf(v[1]) \cap EventsOf(u) = {}
    BY <1>1 DEF Lists
  <2>. QED
    BY <1>4, <2>1
<1>6. Filed(key, deleted[v[1]], TranscriptOrder(v))
  <2>1. key \in TraceId \X (0..MaxRevision) \X Nat
    BY <1>1, <1>2
  <2> HIDE DEF key
  <2>. QED
    BY <1>1, <1>2, <1>3, <2>1 DEF Filed
<1>7. ~(deleted[v[1]] < deleted[v[1]])
  BY <1>2
<1> HIDE DEF key
<1>8. Known(key, deleted[v[1]], TranscriptOrder(v))
  BY <1>1, <1>4, <1>5, <1>6, <1>7 DEF Known
<1>. QED
  BY <1>1, <1>4, <1>8 DEF key

-----------------------------------------------------------------------------
LEMMA OpenHeld ==
    ASSUME IInv, Lists, Held, Agreement, NEW c \in Reader, Open(c)
    PROVE  Held' /\ Agreement'
<1> DEFINE v == view[c]
           g == Generation(v)
           shot == [key |-> <<v[1], v[2], g>>, order |-> TranscriptOrder(v),
                    events |-> UNION {EventsOf(t) : t \in TraceId}, deleted |-> deleted[v[1]],
                    list |-> TranscriptOrder(v), listSince |-> deleted[v[1]], hit |-> FALSE]
<1>1. UNCHANGED rows /\ UNCHANGED orders /\ Rows
  BY DEF Open, Fail, IInv
<1>2. CASE EndLoads({c})
  <2>1. \A b \in Reader : At(b)' => At(b) /\ snapshot'[b] = snapshot[b]
    BY <1>2 DEF EndLoads, At
  <2>. QED
    BY <1>1, <2>1, KeptHeld
<1>3. CASE /\ v[2] # 0 => <<v[2], v[1]>> \in revisions
           /\ stage' = [stage EXCEPT ![c] = "open"] /\ snapshot' = [snapshot EXCEPT ![c] = shot]
  <2>1. v \in View /\ v[1] \in TraceId /\ deleted[v[1]] \in Nat
    BY DEF IInv, Requests, View, Rows
  <2>2. /\ Known(<<v[1], v[2], g>>, deleted[v[1]], TranscriptOrder(v))
        /\ Elements(TranscriptOrder(v)) \subseteq UNION {EventsOf(t) : t \in TraceId}
    BY <1>1, <1>3, <2>1, SeenIsKnown
  <2>3. /\ {"key", "order", "events", "deleted", "list", "listSince", "hit"} \subseteq DOMAIN shot
        /\ shot.hit = FALSE /\ shot.key = <<v[1], v[2], g>>
        /\ shot.deleted = deleted[v[1]] /\ shot.listSince = deleted[v[1]]
        /\ shot.order = TranscriptOrder(v) /\ shot.list = TranscriptOrder(v)
        /\ shot.events = UNION {EventsOf(t) : t \in TraceId}
    OBVIOUS
  <2> HIDE DEF shot
  <2>4. snapshot'[c] = shot /\ \A b \in Reader \ {c} : snapshot'[b] = snapshot[b] /\ (At(b)' <=> At(b))
    BY <1>3 DEF IInv, Requests, At
  <2>5. Taken(shot)
    <3>1. Known(shot.key, shot.deleted, shot.order) /\ Elements(shot.order) \subseteq shot.events
      BY <2>2, <2>3
    <3>2. shot.listSince = shot.deleted /\ shot.list = shot.order /\ ~(shot.listSince < shot.deleted)
      BY <2>1, <2>3
    <3>. QED
      BY <2>3, <3>1, <3>2 DEF Taken
  <2>6. \A s : Taken(s) => Taken(s)'
    BY <1>1, KeptTaken
  <2>7. \A i \in 1..Len(orders) : Known(orders[i].key, orders[i].deleted, orders[i].ids)'
    BY <1>1, KeptKnown DEF Held
  <2>8. \A b \in Reader : At(b)' => Taken(snapshot[b])'
    BY <2>4, <2>5, <2>6 DEF Held
  <2>9. Held'
    BY <1>1, <2>7, <2>8 DEF Held
  <2>10. ASSUME NEW key, NEW d, NEW ids, Known(key, d, ids)
         PROVE  /\ Agrees(shot, key, d, ids)
                /\ key = shot.key => d <= shot.deleted
    BY <1>1, <2>1, <2>3, <2>10, KnownNow DEF Agrees
  <2>11. \A i \in 1..Len(orders) : Agrees(shot, orders[i].key, orders[i].deleted, orders[i].ids)
    BY <2>10 DEF Held
  <2>12. Agrees(shot, shot.key, shot.deleted, shot.order)
    BY <2>1, <2>3 DEF Agrees
  <2>13. ASSUME NEW b \in Reader \ {c}, At(b)
         PROVE  /\ Agrees(shot, snapshot[b].key, snapshot[b].deleted, snapshot[b].order)
                /\ Agrees(snapshot[b], shot.key, shot.deleted, shot.order)
    <3>1. Known(snapshot[b].key, snapshot[b].deleted, snapshot[b].order)
      BY <2>13 DEF Held, Taken
    <3>2. /\ Agrees(shot, snapshot[b].key, snapshot[b].deleted, snapshot[b].order)
          /\ snapshot[b].key = shot.key => snapshot[b].deleted <= shot.deleted
      BY <2>10, <3>1
    <3>3. snapshot[b].deleted \in Nat /\ shot.deleted \in Nat
      BY <2>1, <2>3, <3>1 DEF Known, Filed
    <3>4. Agrees(snapshot[b], shot.key, shot.deleted, shot.order)
      BY <3>2, <3>3 DEF Agrees
    <3>. QED
      BY <3>2, <3>4
  <2>14. Agreement'
    BY <1>1, <2>4, <2>11, <2>12, <2>13 DEF Agreement
  <2>. QED
    BY <2>9, <2>14
<1>. QED
  BY <1>2, <1>3 DEF Open, Fail

LEMMA LookUpHeld ==
    ASSUME IInv, Lists, Held, Agreement, NEW c \in Reader, LookUp(c)
    PROVE  /\ Held' /\ Agreement'
           /\ snapshot'[c].key = snapshot[c].key /\ snapshot'[c].deleted = snapshot[c].deleted
           /\ snapshot'[c].order = snapshot[c].order
<1> DEFINE s == snapshot[c]
           key == s.key
<1>1. UNCHANGED rows /\ UNCHANGED orders /\ Rows /\ At(c)
  BY DEF LookUp, IInv, At
<1>2. Taken(s)
  BY <1>1 DEF Held
<1>3. stage' = [stage EXCEPT ![c] = "ordered"]
  BY DEF LookUp
<1>4. \A b \in Reader \ {c} : snapshot'[b] = snapshot[b] /\ (At(b)' <=> At(b))
  BY <1>3 DEF LookUp, IInv, Requests, At
<1>5. /\ snapshot'[c].key = key /\ snapshot'[c].deleted = s.deleted
      /\ snapshot'[c].order = s.order /\ snapshot'[c].events = s.events
      /\ Taken(snapshot'[c])
  <2>1. CASE Cached(key)
    <3>1. DOMAIN orders = 1..Len(orders)
      BY DEF IInv, Cache
    <3>2. PICK i \in 1..Len(orders) : orders[i].key = key /\ CachedOrder(key) = orders[i]
      BY <2>1, <3>1 DEF Cached, CachedOrder
    <3> DEFINE ids == orders[i].ids
               at == orders[i].deleted
               shot == [s EXCEPT !.list = ids, !.listSince = at, !.hit = TRUE]
    <3>3. snapshot'[c] = shot
      BY <2>1, <3>2 DEF LookUp, IInv, Requests
    <3>4. Known(key, at, ids) /\ Agrees(s, key, at, ids)
      BY <1>1, <3>2 DEF Held, Agreement
    <3> HIDE DEF ids, at
    <3>5. /\ {"key", "order", "events", "deleted", "list", "listSince", "hit"} \subseteq DOMAIN shot
          /\ shot.hit = TRUE /\ shot.key = key /\ shot.deleted = s.deleted /\ shot.order = s.order
          /\ shot.events = s.events /\ shot.list = ids /\ shot.listSince = at
      BY <1>2 DEF Taken
    <3> HIDE DEF shot
    <3>6. Taken(shot)
      BY <1>2, <3>4, <3>5 DEF Taken, Agrees
    <3>. QED
      BY <3>3, <3>5, <3>6
  <2>2. CASE ~Cached(key)
    <3>1. snapshot'[c] = s
      BY <2>2 DEF LookUp, IInv, Requests
    <3>. QED
      BY <1>2, <3>1
  <2>. QED
    BY <2>1, <2>2
<1>6. \A b \in Reader : /\ At(b)' => At(b)
                        /\ snapshot'[b].key = snapshot[b].key /\ snapshot'[b].deleted = snapshot[b].deleted
                        /\ snapshot'[b].order = snapshot[b].order /\ snapshot'[b].events = snapshot[b].events
  BY <1>1, <1>4, <1>5
<1>7. Agreement'
  BY <1>1, <1>6 DEF Agreement, Agrees
<1>8. \A x : Taken(x) => Taken(x)'
  BY <1>1, KeptTaken
<1>9. \A b \in Reader : At(b)' => Taken(snapshot[b])'
  BY <1>4, <1>5, <1>8 DEF Held
<1>10. \A i \in 1..Len(orders) : Known(orders[i].key, orders[i].deleted, orders[i].ids)'
  BY <1>1, KeptKnown DEF Held
<1>11. Held'
  BY <1>1, <1>9, <1>10 DEF Held
<1>. QED
  BY <1>5, <1>7, <1>11

LEMMA ServeHeld ==
    ASSUME IInv, Lists, Held, Agreement, NEW c \in Reader, Serve(c)
    PROVE  Held' /\ Agreement'
<1> DEFINE s == snapshot[c]
<1>1. UNCHANGED rows /\ Rows /\ At(c) /\ Taken(s)
  BY DEF Serve, IInv, At, Held
<1>2. \A b \in Reader : At(b)' => At(b) /\ snapshot'[b] = snapshot[b]
  BY DEF Serve, EndLoads, IInv, Requests, At
<1>3. \A i \in 1..Len(orders') :
         \/ \E j \in 1..Len(orders) : orders'[i] = orders[j]
         \/ orders'[i].key = s.key /\ orders'[i].deleted = s.deleted /\ orders'[i].ids = s.order
  <2>1. CASE s.hit = TRUE
    BY <2>1 DEF Serve
  <2>2. CASE s.hit = FALSE
    <3>1. orders' = Put(s.key, s.order, s.deleted)
      BY <1>1, <2>2 DEF Serve, Taken
    <3>. QED
      BY <3>1, PutKeeps DEF IInv
  <2>. QED
    BY <1>1, <2>1, <2>2 DEF Taken
<1>4. \A i \in 1..Len(orders') : Known(orders'[i].key, orders'[i].deleted, orders'[i].ids)
  BY <1>1, <1>3 DEF Held, Taken
<1>5. \A key, d, ids : Known(key, d, ids) => Known(key, d, ids)'
  BY <1>1, KeptKnown
<1>6. \A x : Taken(x) => Taken(x)'
  BY <1>1, KeptTaken
<1>7. \A b \in Reader : At(b)' => Taken(snapshot[b])'
  BY <1>2, <1>6 DEF Held
<1>8. Held'
  BY <1>4, <1>5, <1>7 DEF Held
<1>9. \A b \in Reader : At(b) =>
         \A i \in 1..Len(orders') : Agrees(snapshot[b], orders'[i].key, orders'[i].deleted, orders'[i].ids)
  BY <1>1, <1>3 DEF Agreement
<1>10. Agreement'
  BY <1>2, <1>9 DEF Agreement, Agrees
<1>. QED
  BY <1>8, <1>10

LEMMA StepHeld ==
    ASSUME IInv, Lists, Held, Agreement, [Next]_vars
    PROVE  Lists' /\ Held' /\ Agreement'
<1>1. CASE Write
  <2>1. UNCHANGED <<orders, readers>>
    BY <1>1 DEF Write, DeleteTrace, CommitRevision, ReplaceRevisionEvents, RecordFailedRun
  <2>2. \A b \in Reader : At(b)' => At(b) /\ snapshot'[b] = snapshot[b]
    BY <2>1 DEF readers, At
  <2>. QED
    BY <1>1, <2>1, <2>2, KeptLists, KeptHeld DEF IInv
<1>2. CASE Restart
  <2>1. UNCHANGED rows /\ orders' = <<>> /\ \A b \in Reader : ~At(b)'
    BY <1>2 DEF Restart, EndLoads, At
  <2>2. Held' /\ Agreement'
    BY <2>1 DEF Held, Agreement
  <2>. QED
    BY <2>1, <2>2, KeptLists DEF IInv
<1>3. ASSUME NEW c \in Reader, (\E v \in View : Begin(c, v)) \/ Continue(c)
      PROVE  Lists' /\ Held' /\ Agreement'
  <2>1. UNCHANGED rows /\ UNCHANGED orders
    BY <1>3 DEF Begin, Continue, Fail
  <2>2. \A b \in Reader : At(b)' => At(b) /\ snapshot'[b] = snapshot[b]
    BY <1>3 DEF Begin, Continue, Fail, EndLoads, At, IInv, Requests
  <2>. QED
    BY <2>1, <2>2, KeptLists, KeptHeld DEF IInv
<1>4. ASSUME NEW c \in Reader, Open(c) PROVE Lists' /\ Held' /\ Agreement'
  BY <1>4, OpenHeld, KeptLists DEF IInv, Open, Fail
<1>5. ASSUME NEW c \in Reader, LookUp(c) PROVE Lists' /\ Held' /\ Agreement'
  BY <1>5, LookUpHeld, KeptLists DEF IInv, LookUp
<1>6. ASSUME NEW c \in Reader, Serve(c) PROVE Lists' /\ Held' /\ Agreement'
  BY <1>6, ServeHeld, KeptLists DEF IInv, Serve
<1>7. CASE UNCHANGED vars
  <2>1. UNCHANGED rows /\ UNCHANGED orders /\ UNCHANGED <<stage, snapshot>>
    BY <1>7 DEF vars, readers
  <2>2. \A b \in Reader : At(b)' => At(b) /\ snapshot'[b] = snapshot[b]
    BY <2>1 DEF At
  <2>. QED
    BY <2>1, <2>2, KeptLists, KeptHeld DEF IInv
<1>. QED
  BY <1>1, <1>2, <1>3, <1>4, <1>5, <1>6, <1>7 DEF Next, Read

\* Every event of an order still exists when a page of it is read, if the row of the Trace
\* was not deleted on the way (transcriptRows in transcript.go).
LEMMA HeldPagesFound ==
    ASSUME Held
    PROVE  PagesFound
<1>1. SUFFICES ASSUME NEW c \in Reader, stage[c] = "ordered", SameRow(c)
               PROVE  Elements(snapshot[c].list) \subseteq snapshot[c].events
  BY DEF PagesFound
<1>. QED
  BY <1>1 DEF Held, Taken, SameRow, At

-----------------------------------------------------------------------------(* Loads *)

LoadTypes ==
    /\ cursor \in [Reader -> {None} \cup [offset : Nat, generation : Nat]]
    /\ pages = [c \in Reader |-> pages[c]]
    /\ loading \in [Reader -> BOOLEAN]
    /\ since \in [Reader -> Nat]

\* The row of the Trace has not been deleted since the load began, or not before the
\* snapshot of its request was taken.
Undeleted(c) ==
    \/ since[c] = deleted[view[c][1]]
    \/ At(c) /\ snapshot[c].deleted = since[c]

\* A load has the part of list that is before its cursor, and its request sees the same.
Behind(c, list) ==
    /\ Filed(<<view[c][1], view[c][2], cursor[c].generation>>, since[c], list)
    /\ list \in Seq(Nat)
    /\ Undeleted(c) => pages[c] = SubSeq(list, 1, cursor[c].offset) /\ cursor[c].offset < Len(list)
    /\ At(c) /\ snapshot[c].deleted = since[c] => snapshot[c].order = list

Load(c) ==
    /\ ~loading[c] => stage[c] = "none" /\ cursor[c] = None
    /\ since[c] <= deleted[view[c][1]]
    /\ cursor[c] = None => pages[c] = <<>>
    /\ cursor[c] # None => \E list : Behind(c, list)
    /\ At(c) =>
          /\ snapshot[c].key[1] = view[c][1] /\ snapshot[c].key[2] = view[c][2]
          /\ cursor[c] # None => snapshot[c].key[3] = cursor[c].generation
          /\ since[c] <= snapshot[c].deleted

Loads == LoadTypes /\ \A c \in Reader : Load(c)

\* With its last page a load has the whole transcript of that page's snapshot.
LEMMA LoadsAreWhole ==
    ASSUME Held, Loads
    PROVE  WholeTranscript
<1>1. SUFFICES ASSUME NEW c \in Reader, LastPage(c), SameRow(c)
               PROVE  pages[c] \o Page(c) = snapshot[c].order
  BY DEF WholeTranscript, Whole
<1> DEFINE list == snapshot[c].list
<1>2. At(c) /\ stage[c] = "ordered"
  BY <1>1 DEF LastPage, At
<1>3. list = snapshot[c].order /\ list \in Seq(1..lastEvent) /\ snapshot[c].deleted = since[c]
  BY <1>1, <1>2 DEF Held, Taken, SameRow, Known
<1> HIDE DEF list
<1>4. PageSize \in Nat \ {0} /\ Len(list) \in Nat
  BY <1>3, PageConstants
<1>5. CASE cursor[c] = None
  <2>1. Offset(c) = 0 /\ pages[c] = <<>>
    BY <1>5 DEF Offset, Loads, Load
  <2>2. Page(c) = SubSeq(list, 1, Len(list))
    BY <1>1, <1>4, <2>1 DEF LastPage, More, Page, list
  <2>3. SubSeq(list, 1, Len(list)) = list /\ <<>> \o list = list
    BY <1>3, SubSeqFull
  <2>. QED
    BY <1>3, <2>1, <2>2, <2>3
<1>6. CASE cursor[c] # None
  <2>1. PICK l : Behind(c, l)
    BY <1>6 DEF Loads, Load
  <2>2. l = list /\ pages[c] = SubSeq(list, 1, Offset(c)) /\ Offset(c) < Len(list)
    BY <1>2, <1>3, <1>6, <2>1 DEF Behind, Undeleted, Offset
  <2>3. Offset(c) \in Nat
    BY <1>6 DEF Loads, LoadTypes, Offset
  <2>4. Page(c) = SubSeq(list, Offset(c) + 1, Len(list))
    BY <1>1, <1>4, <2>3 DEF LastPage, More, Page, list
  <2>5. SubSeq(list, 1, Offset(c)) \o SubSeq(list, Offset(c) + 1, Len(list)) = SubSeq(list, 1, Len(list))
    <3> DEFINE k == Offset(c)
               n == Len(list)
    <3>1. 1 \in 1..Len(list) + 1 /\ k \in (1 - 1)..Len(list) /\ n \in k..Len(list)
      BY <1>4, <2>2, <2>3
    <3> HIDE DEF k, n
    <3>2. SubSeq(list, 1, k) \o SubSeq(list, k + 1, n) = SubSeq(list, 1, n)
      BY <1>3, <3>1, ConcatAdjacentSubSeq
    <3>. QED
      BY <3>2 DEF k, n
  <2>6. SubSeq(list, 1, Len(list)) = list
    BY <1>3, SubSeqFull
  <2>. QED
    BY <1>3, <2>2, <2>4, <2>5, <2>6
<1>. QED
  BY <1>5, <1>6

\* What a step leaves of a load that it does not move.
LEMMA KeptLoad ==
    ASSUME Rows, Write \/ UNCHANGED rows, LoadTypes, NEW c \in Reader, view[c] \in View, Load(c),
           view'[c] = view[c], cursor'[c] = cursor[c], pages'[c] = pages[c],
           loading'[c] = loading[c], since'[c] = since[c],
           ~loading[c] => stage'[c] = "none",
           At(c)' => /\ At(c) /\ snapshot'[c].key = snapshot[c].key
                     /\ snapshot'[c].deleted = snapshot[c].deleted /\ snapshot'[c].order = snapshot[c].order
    PROVE  Load(c)'
<1>1. view[c][1] \in TraceId /\ since[c] \in Nat /\ since[c] <= deleted[view[c][1]]
  BY DEF View, LoadTypes, Load
<1>2. deleted[view[c][1]] \in Nat /\ deleted'[view[c][1]] \in Nat /\ deleted[view[c][1]] <= deleted'[view[c][1]]
  BY <1>1, DeletedGrows
<1>3. Undeleted(c)' => Undeleted(c)
  <2>1. CASE since[c] = deleted'[view[c][1]]
    <3>1. since[c] = deleted[view[c][1]]
      BY <1>1, <1>2, <2>1
    <3>2. Undeleted(c)
      BY <3>1 DEF Undeleted
    <3>. QED
      BY <3>2
  <2>2. CASE At(c)' /\ snapshot'[c].deleted = since[c]
    BY <2>2 DEF Undeleted
  <2>. QED
    BY <2>1, <2>2 DEF Undeleted
<1>4. ASSUME NEW list, Behind(c, list) PROVE Behind(c, list)'
  <2>1. Filed(<<view[c][1], view[c][2], cursor[c].generation>>, since[c], list)'
    <3> DEFINE key == <<view[c][1], view[c][2], cursor[c].generation>>
               d == since[c]
    <3>1. key' = key /\ d' = d
      OBVIOUS
    <3>2. Filed(key, d, list)
      BY <1>4 DEF Behind
    <3>3. \A k, n : Filed(k, n, list) => Filed(k, n, list)'
      BY KeptFiled
    <3>. QED
      BY <3>1, <3>2, <3>3
  <2>. QED
    BY <1>3, <1>4, <2>1 DEF Behind
<1>. QED
  BY <1>1, <1>2, <1>4 DEF Load

LEMMA EndsLoads ==
    ASSUME IInv, Loads, UNCHANGED rows, NEW over, EndLoads(over)
    PROVE  Loads'
<1>1. Rows /\ LoadTypes /\ view \in [Reader -> View]
  BY DEF IInv, Requests, Loads
<1>2. LoadTypes'
  BY <1>1 DEF EndLoads, LoadTypes
<1>3. ASSUME NEW c \in Reader, c \notin over PROVE Load(c)'
  <2>1. /\ view'[c] = view[c] /\ cursor'[c] = cursor[c] /\ pages'[c] = pages[c]
        /\ loading'[c] = loading[c] /\ since'[c] = since[c] /\ stage'[c] = stage[c] /\ snapshot'[c] = snapshot[c]
    BY <1>1, <1>3 DEF EndLoads, LoadTypes
  <2>2. Load(c) /\ view[c] \in View
    BY <1>1 DEF Loads
  <2>. QED
    BY <1>1, <2>1, <2>2, KeptLoad DEF At, Load
<1>4. ASSUME NEW c \in Reader, c \in over PROVE Load(c)'
  <2>1. 1 \in TraceId /\ <<1, 0>>[1] = 1
    BY PageConstants DEF TraceId
  <2>2. view'[c] = <<1, 0>> /\ cursor'[c] = None /\ pages'[c] = <<>> /\ since'[c] = 0 /\ stage'[c] = "none"
    BY <1>4 DEF EndLoads
  <2>3. since'[c] <= deleted'[view'[c][1]]
    <3>1. deleted'[1] \in Nat
      BY <1>1, <2>1 DEF rows, Rows
    <3>. QED
      BY <2>1, <2>2, <3>1
  <2>. QED
    BY <2>2, <2>3 DEF Load, At
<1>. QED
  BY <1>2, <1>3, <1>4 DEF Loads

LEMMA BeginLoads ==
    ASSUME IInv, Loads, NEW c \in Reader, NEW v \in View, Begin(c, v)
    PROVE  Loads'
<1>1. Rows /\ LoadTypes /\ view \in [Reader -> View] /\ stage = [b \in Reader |-> stage[b]] /\ UNCHANGED rows
  BY DEF IInv, Requests, Loads, Begin
<1>2. v[1] \in TraceId /\ deleted[v[1]] \in Nat /\ deleted' = deleted
  BY <1>1 DEF View, Rows, rows
<1>3. LoadTypes'
  BY <1>1, <1>2 DEF Begin, LoadTypes
<1>4. ASSUME NEW b \in Reader, b # c PROVE Load(b)'
  <2>1. /\ view'[b] = view[b] /\ cursor'[b] = cursor[b] /\ pages'[b] = pages[b]
        /\ loading'[b] = loading[b] /\ since'[b] = since[b] /\ stage'[b] = stage[b] /\ snapshot'[b] = snapshot[b]
    BY <1>1, <1>4 DEF Begin, LoadTypes
  <2>2. Load(b) /\ view[b] \in View
    BY <1>1 DEF Loads
  <2>. QED
    BY <1>1, <2>1, <2>2, KeptLoad DEF At, Load
<1>5. Load(c)'
  <2>1. /\ view'[c] = v /\ cursor'[c] = None /\ pages'[c] = <<>> /\ since'[c] = deleted[v[1]]
        /\ loading'[c] = TRUE /\ stage'[c] = "checked"
    BY <1>1 DEF Begin, LoadTypes, Loads, Load
  <2>. QED
    BY <1>2, <2>1 DEF Load, At
<1>. QED
  BY <1>3, <1>4, <1>5 DEF Loads

\* A step of a request that leaves what the reader has.
LEMMA MovesLoads ==
    ASSUME IInv, Loads, UNCHANGED rows, UNCHANGED <<view, cursor, pages, loading, since>>, NEW c \in Reader,
           \A b \in Reader \ {c} : stage'[b] = stage[b] /\ snapshot'[b] = snapshot[b],
           Load(c)'
    PROVE  Loads'
<1>1. Rows /\ LoadTypes /\ view \in [Reader -> View]
  BY DEF IInv, Requests, Loads
<1>2. ASSUME NEW b \in Reader \ {c} PROVE Load(b)'
  <2>1. Load(b) /\ view[b] \in View /\ stage'[b] = stage[b] /\ snapshot'[b] = snapshot[b]
    BY <1>1 DEF Loads
  <2>. QED
    BY <1>1, <2>1, KeptLoad DEF At, Load
<1>3. LoadTypes'
  BY <1>1 DEF LoadTypes
<1>. QED
  BY <1>2, <1>3 DEF Loads

LEMMA ContinueLoads ==
    ASSUME IInv, Loads, NEW c \in Reader, Continue(c)
    PROVE  Loads'
<1>1. CASE Fail(c)
  BY <1>1, EndsLoads DEF Fail
<1>2. CASE /\ stage' = [stage EXCEPT ![c] = "checked"]
           /\ UNCHANGED <<rows, orders, view, cursor, snapshot, pages, loading, since>>
  <2>1. Rows /\ LoadTypes /\ view[c] \in View /\ Load(c) /\ loading[c]
    BY DEF IInv, Requests, Loads, Continue
  <2>2. stage'[c] = "checked" /\ \A b \in Reader \ {c} : stage'[b] = stage[b]
    BY <1>2 DEF IInv, Requests
  <2>3. Load(c)'
    BY <1>2, <2>1, <2>2, KeptLoad DEF At
  <2>. QED
    BY <1>2, <2>2, <2>3, MovesLoads
<1>. QED
  BY <1>1, <1>2 DEF Continue

LEMMA OpenLoads ==
    ASSUME IInv, Loads, NEW c \in Reader, Open(c)
    PROVE  Loads'
<1> DEFINE v == view[c]
           g == Generation(v)
           shot == [key |-> <<v[1], v[2], g>>, order |-> TranscriptOrder(v),
                    events |-> UNION {EventsOf(t) : t \in TraceId}, deleted |-> deleted[v[1]],
                    list |-> TranscriptOrder(v), listSince |-> deleted[v[1]], hit |-> FALSE]
<1>1. CASE Fail(c)
  BY <1>1, EndsLoads DEF Fail
<1>2. CASE /\ cursor[c] # None => cursor[c].generation = g
           /\ stage' = [stage EXCEPT ![c] = "open"] /\ snapshot' = [snapshot EXCEPT ![c] = shot]
           /\ UNCHANGED <<rows, orders, view, cursor, pages, loading, since>>
  <2>1. shot.key[1] = v[1] /\ shot.key[2] = v[2] /\ shot.key[3] = g
        /\ shot.deleted = deleted[v[1]] /\ shot.order = TranscriptOrder(v)
    OBVIOUS
  <2> HIDE DEF shot
  <2>2. Rows /\ LoadTypes /\ v \in View /\ Load(c) /\ stage[c] = "checked" /\ UNCHANGED rows
    BY <1>2 DEF IInv, Requests, Loads, Open
  <2>3. /\ stage'[c] = "open" /\ snapshot'[c] = shot
        /\ \A b \in Reader \ {c} : stage'[b] = stage[b] /\ snapshot'[b] = snapshot[b]
    BY <1>2 DEF IInv, Requests
  <2>4. deleted' = deleted /\ since[c] <= deleted[v[1]]
    BY <2>2 DEF rows, Load
  <2>5. ASSUME NEW list, Behind(c, list), cursor[c] # None PROVE Behind(c, list)'
    <3> DEFINE key == <<v[1], v[2], cursor[c].generation>>
               d == since[c]
    <3>1. Filed(key, d, list)
      BY <2>5 DEF Behind
    <3>2. key' = key /\ d' = d
      BY <1>2
    <3>3. Filed(key, d, list)'
      <4>1. \A k, n : Filed(k, n, list) => Filed(k, n, list)'
        BY <2>2, KeptFiled
      <4>. QED
        BY <3>1, <3>2, <4>1
    <3>4. Undeleted(c)' => Undeleted(c)
      <4>1. view'[c] = v /\ since'[c] = since[c]
        BY <1>2
      <4>2. Undeleted(c)' => since[c] = deleted[v[1]]
        BY <2>1, <2>3, <2>4, <4>1 DEF Undeleted
      <4>. QED
        BY <4>2 DEF Undeleted
    <3>5. ASSUME shot.deleted = since[c] PROVE shot.order = list
      <4>1. key[1] = v[1] /\ key[2] = v[2] /\ key[3] = g /\ v = <<v[1], v[2]>>
        BY <1>2, <2>2, <2>5 DEF View
      <4> HIDE DEF key
      <4>2. Reading(v, g, d, list)
        BY <3>1, <4>1 DEF Filed
      <4>. QED
        BY <2>1, <3>5, <4>2 DEF Reading
    <3>. QED
      BY <1>2, <2>3, <2>5, <3>3, <3>4, <3>5 DEF Behind
  <2>6. Load(c)'
    BY <1>2, <2>1, <2>2, <2>3, <2>4, <2>5 DEF Load
  <2>. QED
    BY <1>2, <2>3, <2>6, MovesLoads
<1>. QED
  BY <1>1, <1>2 DEF Open

LEMMA LookUpLoads ==
    ASSUME IInv, Lists, Held, Agreement, Loads, NEW c \in Reader, LookUp(c)
    PROVE  Loads'
<1>1. /\ snapshot'[c].key = snapshot[c].key /\ snapshot'[c].deleted = snapshot[c].deleted
      /\ snapshot'[c].order = snapshot[c].order
  BY LookUpHeld
<1>2. Rows /\ LoadTypes /\ view[c] \in View /\ Load(c) /\ At(c) /\ loading[c]
  BY DEF IInv, Requests, Loads, Load, LookUp, At
<1>3. UNCHANGED rows /\ UNCHANGED <<view, cursor, pages, loading, since>>
  BY DEF LookUp
<1>4. Load(c)'
  BY <1>1, <1>2, <1>3, KeptLoad
<1>5. \A b \in Reader \ {c} : stage'[b] = stage[b] /\ snapshot'[b] = snapshot[b]
  BY DEF LookUp, IInv, Requests
<1>. QED
  BY <1>3, <1>4, <1>5, MovesLoads

\* The pages grow by what comes next in the same order: one from before a deletion that the
\* snapshot shows has no event left and would have been refused.
LEMMA ServeLoads ==
    ASSUME IInv, Held, Loads, NEW c \in Reader, Serve(c)
    PROVE  Loads'
<1>0. PICK s, v, since0 : s = snapshot[c] /\ v = view[c] /\ since0 = since[c]
  OBVIOUS
<1> DEFINE next == [offset |-> Offset(c) + PageSize, generation |-> s.key[3]]
<1>1. /\ UNCHANGED rows /\ Rows /\ LoadTypes /\ view \in [Reader -> View]
      /\ At(c) /\ Taken(s) /\ Load(c) /\ loading[c] /\ stage = [b \in Reader |-> stage[b]]
      /\ snapshot = [b \in Reader |-> snapshot[b]]
  BY <1>0 DEF Serve, IInv, Requests, At, Held, Loads, Load
<1>2. CASE EndLoads({c})
  BY <1>1, <1>2, EndsLoads
<1>3. CASE /\ Elements(Page(c)) \subseteq s.events /\ More(c)
           /\ pages' = [pages EXCEPT ![c] = @ \o Page(c)]
           /\ cursor' = [cursor EXCEPT ![c] = next]
           /\ stage' = [stage EXCEPT ![c] = "none"]
           /\ snapshot' = [snapshot EXCEPT ![c] = None]
           /\ UNCHANGED <<view, loading, since>>
  <2>1. /\ Offset(c) \in Nat /\ PageSize \in Nat \ {0} /\ s.key[3] \in Nat
        /\ s.key \in TraceId \X (0..MaxRevision) \X Nat
        /\ s.deleted \in Nat /\ s.listSince \in Nat
    BY <1>0, <1>1, PageConstants DEF Offset, LoadTypes, Taken, Known, Filed
  <2>2. next.offset = Offset(c) + PageSize /\ next.generation = s.key[3]
    OBVIOUS
  <2>3. next \in [offset : Nat, generation : Nat] /\ next # None
    BY <2>1, PageConstants
  <2> HIDE DEF next
  <2>4. /\ stage'[c] = "none" /\ cursor'[c] = next /\ pages'[c] = pages[c] \o Page(c)
        /\ view' = view /\ since' = since /\ loading' = loading /\ deleted' = deleted
    BY <1>1, <1>3 DEF LoadTypes, rows
  <2>5. LoadTypes'
    BY <1>1, <1>3, <2>3, <2>4 DEF LoadTypes
  <2>6. ASSUME NEW b \in Reader \ {c} PROVE Load(b)'
    <3>1. /\ view'[b] = view[b] /\ cursor'[b] = cursor[b] /\ pages'[b] = pages[b]
          /\ loading'[b] = loading[b] /\ since'[b] = since[b] /\ stage'[b] = stage[b] /\ snapshot'[b] = snapshot[b]
      BY <1>1, <1>3 DEF LoadTypes
    <3>2. Load(b) /\ view[b] \in View
      BY <1>1 DEF Loads
    <3>. QED
      BY <1>1, <3>1, <3>2, KeptLoad DEF At, Load
  <2>7. /\ v[1] \in TraceId /\ s.key = <<v[1], v[2], s.key[3]>> /\ s.key[1] = v[1]
        /\ since0 \in Nat /\ deleted[v[1]] \in Nat /\ since0 <= s.deleted /\ since0 <= deleted[v[1]]
    BY <1>0, <1>1, <2>1 DEF Load, View, LoadTypes, Rows
  <2>8. s.deleted <= deleted[v[1]] /\ s.listSince <= deleted[v[1]]
    <3>1. <<s.key[1], s.key[2]>>[1] = s.key[1]
      OBVIOUS
    <3>. QED
      BY <1>1, <2>7, <3>1 DEF Taken, Known, Filed, Reading
  <2>9. ~At(c)' /\ (Undeleted(c)' => since0 = deleted[v[1]])
    BY <1>0, <2>4 DEF At, Undeleted
  <2>10. \E list : Behind(c, list)'
    <3>1. CASE since0 # deleted[v[1]]
      <4>1. Filed(s.key, since0, <<>>)'
        <5>1. <<s.key[1], s.key[2]>>[1] = s.key[1]
          OBVIOUS
        <5>. QED
          BY <2>1, <2>4, <2>7, <3>1, <5>1 DEF Filed, Reading
      <4>2. Behind(c, <<>>)'
        <5>1. <<view'[c][1], view'[c][2], cursor'[c].generation>> = s.key /\ since'[c] = since0
          BY <1>0, <2>2, <2>4, <2>7
        <5>2. <<>> \in Seq(Nat)
          OBVIOUS
        <5>. QED
          BY <2>9, <3>1, <4>1, <5>1, <5>2 DEF Behind
      <4>. QED
        BY <4>2
    <3>2. CASE since0 = deleted[v[1]]
      <4> DEFINE list == s.order
                 k == Offset(c)
                 n == Offset(c) + PageSize
      <4>1. s.deleted = since0
        BY <2>1, <2>7, <2>8, <3>2
      <4>2. More(c) /\ Page(c) = SubSeq(s.list, k + 1, n) /\ n < Len(s.list) /\ k + 1 \in 1..Len(s.list)
        <5>1. s.list \in Seq(1..lastEvent) /\ Len(s.list) \in Nat
          BY <1>1 DEF Taken, Known
        <5>2. n < Len(s.list)
          BY <1>0, <1>3 DEF More
        <5>3. Page(c) = SubSeq(s.list, k + 1, n)
          BY <1>0, <5>2 DEF Page
        <5> HIDE DEF k
        <5>4. k + 1 \in 1..Len(s.list)
          BY <2>1, <5>1, <5>2 DEF k
        <5>. QED
          BY <1>3, <5>2, <5>3, <5>4
      <4>3. s.list[k + 1] \in Elements(Page(c))
        <5>1. s.list \in Seq(1..lastEvent)
          BY <1>1 DEF Taken, Known
        <5> DEFINE l == s.list
                   page == SubSeq(l, k + 1, n)
        <5>2. \A i \in (k + 1)..n : l[i] \in 1..lastEvent
          <6>1. Len(l) \in Nat /\ k \in Nat /\ n \in Nat /\ n < Len(l)
            BY <2>1, <4>2, <5>1, SMTT(30)
          <6> HIDE DEF l, k, n
          <6>2. \A i \in (k + 1)..n : i \in 1..Len(l)
            BY <6>1
          <6>. QED
            BY <5>1, <6>2, ElementOfSeq DEF l
        <5>3. k + 1 \in Int /\ n \in Int /\ k + 1 <= n /\ n - (k + 1) + 1 = PageSize
          BY <2>1
        <5> HIDE DEF l, k, n
        <5>4. Len(page) = PageSize /\ page[1] = l[(k + 1) + 1 - 1]
          BY <2>1, <5>2, <5>3, SubSeqProperties
        <5>5. (k + 1) + 1 - 1 = k + 1 /\ 1 \in 1..PageSize
          BY <2>1, <5>3 DEF k
        <5>. QED
          BY <4>2, <5>4, <5>5 DEF Elements, l, n
      <4>4. ~(s.listSince < s.deleted)
        <5>1. s.list[k + 1] \in Elements(s.list)
          BY <4>2 DEF Elements
        <5>. QED
          BY <1>1, <1>3, <4>3, <5>1 DEF Taken
      <4>5. s.list = list
        BY <1>1, <2>1, <2>8, <3>2, <4>1, <4>4 DEF Taken
      <4>6. list \in Seq(1..lastEvent) /\ Filed(s.key, s.deleted, list)
        BY <1>1 DEF Taken, Known
      <4>7. Filed(s.key, since0, list)'
        <5>1. \A key, d, ids : Filed(key, d, ids) => Filed(key, d, ids)'
          BY <1>1, KeptFiled
        <5>. QED
          BY <4>1, <4>6, <5>1
      <4>8. list \in Seq(Nat)
        <5>1. 1..lastEvent \subseteq Nat
          OBVIOUS
        <5>. QED
          BY <4>6, <5>1, SeqMonotonic
      <4>9. pages[c] \o Page(c) = SubSeq(list, 1, n)
        <5> HIDE DEF list
        <5>1. CASE cursor[c] = None
          <6>1. pages[c] = <<>> /\ k = 0
            BY <1>1, <5>1 DEF Load, Offset
          <6>2. Page(c) = SubSeq(list, 1, n) /\ Page(c) \in Seq(Nat)
            BY <2>1, <4>2, <4>5, <4>8, <6>1
          <6>. QED
            BY <6>1, <6>2
        <5>2. CASE cursor[c] # None
          <6>1. PICK l : Behind(c, l)
            BY <1>1, <5>2 DEF Load
          <6>2. pages[c] = SubSeq(list, 1, k)
            BY <1>0, <1>1, <4>1, <5>2, <6>1 DEF Behind, Undeleted, Offset, list
          <6>3. 1 \in 1..Len(list) + 1 /\ k \in (1 - 1)..Len(list) /\ n \in k..Len(list)
            <7>1. n < Len(list) /\ k \in Nat /\ n = k + PageSize /\ Len(list) \in Nat
              BY <2>1, <4>2, <4>5, <4>8
            <7> HIDE DEF k, n
            <7>. QED
              BY <2>1, <7>1
          <6> HIDE DEF k, n
          <6>4. SubSeq(list, 1, k) \o SubSeq(list, k + 1, n) = SubSeq(list, 1, n)
            BY <4>8, <6>3, ConcatAdjacentSubSeq
          <6>. QED
            BY <4>2, <4>5, <6>2, <6>4
        <5>. QED
          BY <5>1, <5>2
      <4>10. n < Len(list)
        BY <4>2, <4>5
      <4> HIDE DEF list
      <4>. QED
        BY <1>0, <2>2, <2>4, <2>7, <2>9, <4>7, <4>8, <4>9, <4>10 DEF Behind
    <3>. QED
      BY <3>1, <3>2
  <2>11. Load(c)'
    BY <1>0, <1>1, <2>3, <2>4, <2>7, <2>9, <2>10 DEF Load
  <2>. QED
    BY <2>5, <2>6, <2>11 DEF Loads
<1>. QED
  BY <1>0, <1>2, <1>3 DEF Serve

LEMMA StepLoads ==
    ASSUME IInv, Lists, Held, Agreement, Loads, [Next]_vars
    PROVE  Loads'
<1>1. CASE Write \/ UNCHANGED vars
  <2>1. UNCHANGED readers /\ (Write \/ UNCHANGED rows)
    BY <1>1 DEF Write, DeleteTrace, CommitRevision, ReplaceRevisionEvents, RecordFailedRun, vars
  <2>2. Rows /\ LoadTypes /\ view \in [Reader -> View]
    BY DEF IInv, Requests, Loads
  <2>3. LoadTypes'
    BY <2>1, <2>2 DEF LoadTypes, readers
  <2>4. ASSUME NEW c \in Reader PROVE Load(c)'
    <3>1. /\ view'[c] = view[c] /\ cursor'[c] = cursor[c] /\ pages'[c] = pages[c]
          /\ loading'[c] = loading[c] /\ since'[c] = since[c] /\ stage'[c] = stage[c] /\ snapshot'[c] = snapshot[c]
      BY <2>1 DEF readers
    <3>2. Load(c) /\ view[c] \in View
      BY <2>2 DEF Loads
    <3>. QED
      BY <2>1, <2>2, <3>1, <3>2, KeptLoad DEF At, Load
  <2>. QED
    BY <2>3, <2>4 DEF Loads
<1>2. CASE Restart
  BY <1>2, EndsLoads DEF Restart
<1>3. ASSUME NEW c \in Reader, Read(c) PROVE Loads'
  BY <1>3, BeginLoads, ContinueLoads, OpenLoads, LookUpLoads, ServeLoads DEF Read
<1>. QED
  BY <1>1, <1>2, <1>3 DEF Next

-----------------------------------------------------------------------------
LoadInv == Lists /\ Held /\ Agreement /\ Loads

LEMMA InitialLoads ==
    ASSUME Init
    PROVE  LoadInv
<1>1. <<1, 0>> \in View /\ 1 \in TraceId /\ <<1, 0>>[1] = 1
  BY PageConstants DEF View, TraceId
<1>2. <<>> \in Seq(1..0) /\ Elements(<<>>) = {} /\ Len(<<>>) = 0
  BY DEF Elements
<1>3. /\ own = [r \in RevisionId |-> <<>>] /\ merged = [t \in TraceId |-> <<>>]
      /\ lastEvent = 0 /\ revisions = {}
  BY DEF Init
<1>4. \A t \in TraceId : EventsOf(t) = {}
  BY <1>2, <1>3 DEF EventsOf
<1>5. Lists
  BY <1>2, <1>3, <1>4 DEF Lists
<1>6. orders = <<>> /\ \A c \in Reader : ~At(c)
  BY DEF Init, At
<1>7. Held /\ Agreement
  BY <1>2, <1>6 DEF Held, Agreement
<1>8. LoadTypes
  BY DEF Init, LoadTypes
<1>9. ASSUME NEW c \in Reader PROVE Load(c)
  <2>1. /\ stage[c] = "none" /\ cursor[c] = None /\ pages[c] = <<>> /\ since[c] = 0
        /\ view[c] = <<1, 0>> /\ deleted[1] = 0
    BY <1>1 DEF Init
  <2>. QED
    BY <1>1, <1>6, <2>1 DEF Load
<1>. QED
  BY <1>5, <1>7, <1>8, <1>9 DEF LoadInv, Loads

LEMMA LoadInvariant == Spec => []LoadInv
<1>1. Init => LoadInv
  BY InitialLoads
<1>2. IInv /\ LoadInv /\ [Next]_vars => LoadInv'
  BY StepHeld, StepLoads DEF LoadInv
<1>. QED
  BY <1>1, <1>2, Invariant, PTL DEF Spec

\* The error "transcript page found %d of %d events" does not happen to a request whose
\* Trace keeps its row while it runs and whose order was read since: what the list names
\* exists in the snapshot that the rows of the page are read from (transcriptRows).
THEOREM PagesAreFound == Spec => []PagesFound
<1>1. LoadInv => PagesFound
  BY HeldPagesFound DEF LoadInv
<1>. QED
  BY <1>1, LoadInvariant, PTL

\* A load that gets its last page has, page after page, the transcript as the snapshot of
\* that page shows it, whatever imports, rebuilds, restarts, evictions and other readers
\* fall between the pages (loadTranscriptSession in load.ts, TranscriptEvents).
THEOREM TranscriptIsWhole == Spec => []WholeTranscript
<1>1. LoadInv => WholeTranscript
  BY LoadsAreWhole DEF LoadInv
<1>. QED
  BY <1>1, LoadInvariant, PTL
=============================================================================
