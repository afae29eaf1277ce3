--------------------------- MODULE TranscriptPages ---------------------------
(***************************************************************************)
(* Reading a transcript page by page while its Trace is imported, rebuilt  *)
(* and deleted (internal/store/transcript.go, and the loop of load.ts that *)
(* asks for the pages).                                                    *)
(*                                                                         *)
(* A page is cut from the list of event ids in transcript order.  The list *)
(* is computed once and kept in Store.orders, a cache of bounded size,     *)
(* under the key <<trace, revision, generation>>; the generation, the      *)
(* newest normalizer run of what is read, is also in the cursor.  Rows of  *)
(* traces, trace_revisions and normalizer_runs have plain SQLite row ids:  *)
(* a new row gets the largest id plus one, so the id of a deleted row can  *)
(* come back.  Event ids are AUTOINCREMENT and never do.                   *)
(*                                                                         *)
(* Of an event only its id matters; what a normalizer run does to the      *)
(* events of a Trace is any change of its lists (TraceEvents says which).  *)
(***************************************************************************)
EXTENDS FiniteSets, Integers, Sequences

CONSTANTS
    Reader,       \* browsers that load a transcript
    MaxTrace,     \* row ids of traces are 1..MaxTrace
    MaxRevision,  \* row ids of trace_revisions
    MaxRun,       \* row ids of normalizer_runs
    MaxEvent,     \* event ids
    MaxDelete,    \* deletions
    PageSize,     \* limit of a page (200 in load.ts)
    Capacity,     \* transcriptOrderCapacity (8)
    None          \* no value

ASSUME PageConstants ==
    /\ {MaxTrace, MaxRevision, MaxRun, MaxEvent, PageSize, Capacity} \subseteq Nat \ {0}
    /\ MaxDelete \in Nat
    /\ None \notin Nat /\ None \notin [offset : Nat, generation : Nat]

VARIABLES
    traces,      \* ids of traces
    revisions,   \* <<revision id, trace id>>
    runs,        \* <<run id, revision id>>
    own,         \* own[r]: event ids of revision r in transcript order
    merged,      \* merged[t]: event ids of trace t by their preferred observations
    lastEvent,   \* largest event id ever used
    orders,      \* Store.orders: cached [key, ids], oldest first, with what deleted[t]
                 \* was when ids was read (history)
    stage,       \* where a reader's request is: "none", "checked", "open" or "ordered"
    view,        \* what it reads: <<trace id, revision id or 0>>
    cursor,      \* [offset, generation] of its next page, or None for the first
    snapshot,    \* what its database snapshot shows of the view, and the list it uses
    pages,       \* event ids of the pages it has
    loading,     \* whether its load is under way
    deleted,     \* deleted[t]: how often row t of traces was deleted (history)
    since        \* deleted[t] when a reader's load began (history)

rows == <<traces, revisions, runs, own, merged, lastEvent, deleted>>
readers == <<stage, view, cursor, snapshot, pages, loading, since>>
vars == <<rows, orders, readers>>

TraceId == 1..MaxTrace
RevisionId == 1..MaxRevision
View == TraceId \X (0..MaxRevision)
Key == TraceId \X (0..MaxRevision) \X (0..MaxRun)

RevisionsOf(t) == {r \in RevisionId : <<r, t>> \in revisions}
LastOf(ids) == CHOOSE n \in ids \cup {0} : \A m \in ids : m <= n
Elements(list) == {list[i] : i \in 1..Len(list)}
EventsOf(t) == Elements(merged[t])

\* The lists that have each of these elements once.
Arrangements(ids) ==
    {list \in [1..Cardinality(ids) -> ids] : \A i, j \in DOMAIN list : list[i] = list[j] => i = j}

\* MAX(normalizer_runs.id) of what is read.
Generation(v) ==
    LastOf({n \in 1..MaxRun :
        \E r \in RevisionsOf(v[1]) : <<n, r>> \in runs /\ (v[2] = 0 \/ v[2] = r)})

TranscriptOrder(v) == IF v[2] = 0 THEN merged[v[1]] ELSE own[v[2]]

Init ==
    /\ traces = {} /\ revisions = {} /\ runs = {}
    /\ own = [r \in RevisionId |-> <<>>]
    /\ merged = [t \in TraceId |-> <<>>]
    /\ lastEvent = 0
    /\ orders = <<>>
    /\ stage = [c \in Reader |-> "none"]
    /\ view = [c \in Reader |-> <<1, 0>>]
    /\ cursor = [c \in Reader |-> None]
    /\ snapshot = [c \in Reader |-> None]
    /\ pages = [c \in Reader |-> <<>>]
    /\ loading = [c \in Reader |-> FALSE]
    /\ deleted = [t \in TraceId |-> 0]
    /\ since = [c \in Reader |-> 0]

-----------------------------------------------------------------------------
(* Writes: one transaction each, under Store.writer *)

\* Revision r of trace t is normalized: its events are now those of list, some
\* kept and some new, the other Revisions keep theirs, and the merged order is
\* whatever the preferred observations give: those of r if it is alone.
Normalized(t, r, list) ==
    LET others == UNION {Elements(own[q]) : q \in RevisionsOf(t) \ {r}}
        fresh == Elements(list) \ EventsOf(t)
    IN
    /\ own' = [own EXCEPT ![r] = list]
    /\ \E order \in IF others = {} THEN {list} ELSE Arrangements(others \cup Elements(list)) :
          merged' = [merged EXCEPT ![t] = order]
    /\ fresh = (lastEvent + 1)..(lastEvent + Cardinality(fresh))
    /\ lastEvent' = lastEvent + Cardinality(fresh)

\* Lists a run can give a Revision of t: events of t and up to two new ones.
NewLists(t) ==
    UNION {Arrangements(ids) :
        ids \in SUBSET (EventsOf(t) \cup ((lastEvent + 1)..(IF lastEvent + 2 < MaxEvent THEN lastEvent + 2 ELSE MaxEvent)))}

RecordRun(r) ==
    LET n == LastOf({run[1] : run \in runs}) + 1 IN
    /\ n <= MaxRun
    /\ runs' = runs \cup {<<n, r>>}

\* Mutant: the run is recorded only for a Revision that is parsed again.
CommitRevision_NoRun(t, list) ==
    LET r == LastOf({row[1] : row \in revisions}) + 1 IN
    /\ r <= MaxRevision /\ list # <<>>
    /\ t \in traces \/ t = LastOf(traces) + 1
    /\ traces' = traces \cup {t}
    /\ revisions' = revisions \cup {<<r, t>>}
    /\ Normalized(t, r, list)
    /\ UNCHANGED runs
    /\ UNCHANGED <<deleted, orders, readers>>

\* commitRevision: a new Revision of a stored Trace or of a new one.
CommitRevision(t, list) ==
    LET r == LastOf({row[1] : row \in revisions}) + 1 IN
    /\ r <= MaxRevision /\ list # <<>>
    /\ t \in traces \/ t = LastOf(traces) + 1
    /\ traces' = traces \cup {t}
    /\ revisions' = revisions \cup {<<r, t>>}
    /\ Normalized(t, r, list)
    /\ RecordRun(r)
    /\ UNCHANGED <<deleted, orders, readers>>

\* Mutant: the run is not part of the transaction that replaces the events.
ReplaceRevisionEvents_NoRun(t, r, list) ==
    /\ <<r, t>> \in revisions /\ list # <<>>
    /\ Normalized(t, r, list)
    /\ UNCHANGED <<traces, revisions, runs, deleted, orders, readers>>

\* replaceRevisionEvents: the events of a stored Revision are replaced.
ReplaceRevisionEvents(t, r, list) ==
    /\ <<r, t>> \in revisions /\ list # <<>>
    /\ Normalized(t, r, list)
    /\ RecordRun(r)
    /\ UNCHANGED <<traces, revisions, deleted, orders, readers>>

\* recordRun of a parse that failed: a run and no change.
RecordFailedRun(r) ==
    /\ \E t \in traces : <<r, t>> \in revisions
    /\ RecordRun(r)
    /\ UNCHANGED <<traces, revisions, own, merged, lastEvent, deleted, orders, readers>>

\* DELETE FROM traces and what refers to it; Store.orders is not told.
DeleteTrace(t) ==
    LET gone == RevisionsOf(t) IN
    /\ t \in traces /\ deleted[t] < MaxDelete
    /\ traces' = traces \ {t}
    /\ revisions' = {row \in revisions : row[2] # t}
    /\ runs' = {run \in runs : run[2] \notin gone}
    /\ own' = [r \in RevisionId |-> IF r \in gone THEN <<>> ELSE own[r]]
    /\ merged' = [merged EXCEPT ![t] = <<>>]
    /\ deleted' = [deleted EXCEPT ![t] = @ + 1]
    /\ UNCHANGED <<lastEvent, orders, readers>>

\* A load is over: the page is complete, or the browser shows an error and its
\* reader has to start again.
EndLoads(over) ==
    /\ stage' = [c \in Reader |-> IF c \in over THEN "none" ELSE stage[c]]
    /\ view' = [c \in Reader |-> IF c \in over THEN <<1, 0>> ELSE view[c]]
    /\ cursor' = [c \in Reader |-> IF c \in over THEN None ELSE cursor[c]]
    /\ snapshot' = [c \in Reader |-> IF c \in over THEN None ELSE snapshot[c]]
    /\ pages' = [c \in Reader |-> IF c \in over THEN <<>> ELSE pages[c]]
    /\ loading' = [c \in Reader |-> loading[c] /\ c \notin over]
    /\ since' = [c \in Reader |-> IF c \in over THEN 0 ELSE since[c]]

\* The server starts again with an empty cache.  Browsers keep their cursors; a
\* request under way fails.
Restart ==
    /\ orders' = <<>>
    /\ EndLoads({c \in Reader : stage[c] # "none"})
    /\ UNCHANGED rows

-----------------------------------------------------------------------------
(* Reads *)

Fail(c) == EndLoads({c}) /\ UNCHANGED <<rows, orders>>

\* loadTranscriptSession asks for the first page; requireTrace finds the Trace.  The loads
\* are of amp's Traces: those of other harnesses read /events, which checks no generation.
Begin(c, v) ==
    /\ ~loading[c]
    /\ v[1] \in traces
    /\ stage' = [stage EXCEPT ![c] = "checked"]
    /\ view' = [view EXCEPT ![c] = v]
    /\ loading' = [loading EXCEPT ![c] = TRUE]
    /\ since' = [since EXCEPT ![c] = deleted[v[1]]]
    /\ UNCHANGED <<rows, orders, cursor, snapshot, pages>>

\* It asks for the next page.
Continue(c) ==
    /\ loading[c] /\ stage[c] = "none"
    /\ IF view[c][1] \in traces
       THEN /\ stage' = [stage EXCEPT ![c] = "checked"]
            /\ UNCHANGED <<rows, orders, view, cursor, snapshot, pages, loading, since>>
       ELSE Fail(c)

\* Mutant: the cursor's generation is not compared.
Open_AnyGeneration(c) ==
    LET v == view[c]
        generation == Generation(v)
    IN
    /\ stage[c] = "checked"
    /\ IF v[2] # 0 /\ <<v[2], v[1]>> \notin revisions
       THEN Fail(c)
       ELSE
            /\ stage' = [stage EXCEPT ![c] = "open"]
            /\ snapshot' = [snapshot EXCEPT ![c] =
                   [key |-> <<v[1], v[2], generation>>, order |-> TranscriptOrder(v),
                    events |-> UNION {EventsOf(t) : t \in TraceId}, deleted |-> deleted[v[1]],
                    list |-> TranscriptOrder(v), listSince |-> deleted[v[1]], hit |-> FALSE]]
            /\ UNCHANGED <<rows, orders, view, cursor, pages, loading, since>>

\* The transaction's first statement fixes what it reads: the Revision must be
\* there and the cursor of the same generation.
Open(c) ==
    LET v == view[c]
        generation == Generation(v)
    IN
    /\ stage[c] = "checked"
    /\ IF v[2] # 0 /\ <<v[2], v[1]>> \notin revisions
       THEN Fail(c)
       ELSE IF cursor[c] # None /\ cursor[c].generation # generation
       THEN Fail(c)
       ELSE
            /\ stage' = [stage EXCEPT ![c] = "open"]
            /\ snapshot' = [snapshot EXCEPT ![c] =
                   [key |-> <<v[1], v[2], generation>>, order |-> TranscriptOrder(v),
                    events |-> UNION {EventsOf(t) : t \in TraceId}, deleted |-> deleted[v[1]],
                    list |-> TranscriptOrder(v), listSince |-> deleted[v[1]], hit |-> FALSE]]
            /\ UNCHANGED <<rows, orders, view, cursor, pages, loading, since>>

Cached(key) == \E i \in DOMAIN orders : orders[i].key = key
CachedOrder(key) == orders[CHOOSE i \in DOMAIN orders : orders[i].key = key]

\* transcriptOrder asks the cache first.
LookUp(c) ==
    LET key == snapshot[c].key IN
    /\ stage[c] = "open"
    /\ stage' = [stage EXCEPT ![c] = "ordered"]
    /\ snapshot' = [snapshot EXCEPT ![c] =
           IF Cached(key)
           THEN [@ EXCEPT !.list = CachedOrder(key).ids, !.listSince = CachedOrder(key).deleted, !.hit = TRUE]
           ELSE @]
    /\ UNCHANGED <<rows, orders, view, cursor, pages, loading, since>>

\* Mutant: put does not look whether the key has been put in the meantime.
Put_Twice(key, ids, at) ==
    Append(IF Len(orders) = Capacity THEN Tail(orders) ELSE orders, [key |-> key, ids |-> ids, deleted |-> at])

\* transcriptOrders.put: another request may have put the key in the meantime;
\* a full cache forgets its oldest key.
Put(key, ids, at) ==
    IF Cached(key) THEN orders
    ELSE Append(IF Len(orders) = Capacity THEN Tail(orders) ELSE orders, [key |-> key, ids |-> ids, deleted |-> at])

Offset(c) == IF cursor[c] = None THEN 0 ELSE cursor[c].offset
\* The ids of the page a request asks for, and whether others follow.
Page(c) ==
    LET length == Len(snapshot[c].list) IN
    SubSeq(snapshot[c].list, Offset(c) + 1, IF Offset(c) + PageSize < length THEN Offset(c) + PageSize ELSE length)
More(c) == Offset(c) + PageSize < Len(snapshot[c].list)

\* A list that was not cached is put into the cache; the rows of the page are
\* read, all of them or none, and its cursor leads to the next one.
Serve(c) ==
    LET shot == snapshot[c] IN
    /\ stage[c] = "ordered"
    /\ orders' = IF shot.hit THEN orders ELSE Put(shot.key, shot.list, shot.deleted)
    /\ IF Elements(Page(c)) \subseteq shot.events /\ More(c)
       THEN /\ pages' = [pages EXCEPT ![c] = @ \o Page(c)]
            /\ cursor' = [cursor EXCEPT ![c] =
                   [offset |-> Offset(c) + PageSize, generation |-> shot.key[3]]]
            /\ stage' = [stage EXCEPT ![c] = "none"]
            /\ snapshot' = [snapshot EXCEPT ![c] = None]
            /\ UNCHANGED <<view, loading, since>>
       ELSE EndLoads({c})
    /\ UNCHANGED rows

Write ==
    \/ \E t \in TraceId :
          \/ DeleteTrace(t)
          \/ \E list \in NewLists(t) :
                \/ CommitRevision(t, list)
                \/ \E r \in RevisionId : ReplaceRevisionEvents(t, r, list)
    \/ \E r \in RevisionId : RecordFailedRun(r)

Read(c) ==
    \/ \E v \in View : Begin(c, v)
    \/ Continue(c)
    \/ Open(c)
    \/ LookUp(c)
    \/ Serve(c)

Next == Write \/ Restart \/ \E c \in Reader : Read(c)

Spec == Init /\ [][Next]_vars

-----------------------------------------------------------------------------
TypeOK ==
    /\ traces \subseteq TraceId
    /\ revisions \subseteq RevisionId \X traces
    /\ runs \subseteq (1..MaxRun) \X RevisionId
    /\ \A r \in RevisionId : Elements(own[r]) \subseteq 1..lastEvent
    /\ \A t \in TraceId : Elements(merged[t]) \subseteq 1..lastEvent
    /\ lastEvent \in 0..MaxEvent
    /\ \A i \in DOMAIN orders : orders[i].key \in Key
    /\ stage \in [Reader -> {"none", "checked", "open", "ordered"}]
    /\ view \in [Reader -> View]
    /\ \A c \in Reader :
          /\ stage[c] \in {"open", "ordered"} <=> snapshot[c] # None
          /\ stage[c] # "none" => loading[c]

\* Two requests that compute the same order at once leave one entry, and the
\* cache keeps its bound, whatever else is evicted in between: a key that stood
\* in transcriptOrders.keys twice would lose its item with the first of them.
CacheConsistent ==
    /\ Len(orders) <= Capacity
    /\ \A i, j \in DOMAIN orders : orders[i].key = orders[j].key => i = j

\* The order that the key of a current request finds in the cache is the order
\* the view has now (the comment at transcript.go:27).
Fresh(entry) ==
    LET v == <<entry.key[1], entry.key[2]>> IN
    /\ v[1] \in traces
    /\ v[2] # 0 => <<v[2], v[1]>> \in revisions
    /\ entry.key[3] = Generation(v)
    => entry.ids = TranscriptOrder(v)

CacheNeverStale == \A i \in DOMAIN orders : Fresh(orders[i])

\* The same of the orders read since the row of their Trace was last deleted.
CacheFresh ==
    \A i \in DOMAIN orders : orders[i].deleted = deleted[orders[i].key[1]] => Fresh(orders[i])

\* The request uses nothing from before the row of its Trace was last deleted.
SameRow(c) == since[c] = snapshot[c].deleted /\ snapshot[c].listSince = snapshot[c].deleted

\* Every event of an order still exists when a page of it is read: the error
\* "transcript page found %d of %d events" does not happen.
PagesFound ==
    \A c \in Reader : stage[c] = "ordered" /\ SameRow(c) =>
        Elements(snapshot[c].list) \subseteq snapshot[c].events

\* With its last page a load has the transcript as the snapshot of that page
\* shows it: no event is missing, twice or from another version, however
\* imports, rebuilds, restarts and evictions fall between the pages.
Whole(c) == pages[c] \o Page(c) = snapshot[c].order
LastPage(c) ==
    stage[c] = "ordered" /\ Elements(Page(c)) \subseteq snapshot[c].events /\ ~More(c)
WholeTranscript == \A c \in Reader : LastPage(c) /\ SameRow(c) => Whole(c)

\* The same without the exception for reused row ids: "If an import or rebuild
\* changes history between pages, the viewer requests a reload rather than
\* claiming that the incomplete history is fully loaded" (transcript-viewer.md).
NeverClaimsWhole == \A c \in Reader : LastPage(c) => Whole(c)
=============================================================================
