------------------------------- MODULE EventPages -------------------------------
(***************************************************************************)
(* Lists that are read page by page while the tables go on changing: the   *)
(* events of a Trace in chronological order, the imports and the results   *)
(* of a search newest first (internal/store/read.go, search.go).  Nothing  *)
(* of a reader is kept on the server: a cursor carries the position and    *)
(* the largest row id there was when it began.                             *)
(*                                                                         *)
(* A row of `events` has its place in the order of its Trace and the       *)
(* observations a search can find it by.  A search reads it in several     *)
(* statements, each of which sees the database as it is then.              *)
(***************************************************************************)
EXTENDS FiniteSetsExt, Integers, Sequences, SortedSets, NoValue

CONSTANTS
    MaxId,       \* rows are given the ids 1..MaxId, and no id twice (AUTOINCREMENT)
    MaxTime,     \* timestamps are 1..MaxTime
    Content,     \* what an event can be observed as: sets of observations
    Limit,       \* rows of a page
    BatchSize,   \* events of one search statement
    Selective,   \* index entries up to which a search reads all its candidates at once
    Lists        \* what a reader may read: "trace", "imports", "search", "indexed"

\* An observation as one query sees it: its filters let it through, its chunks are
\* among the candidates of the index, its text matches.
Observation == [kept : BOOLEAN, candidate : BOOLEAN, match : BOOLEAN]

\* A row of events, one of a page, and where a page begins: a place of a Trace, or below an id.
Event == [time : 1..MaxTime, key : 1..MaxId, rows : Content]
TraceRow == [time : 1..MaxTime, key : 1..MaxId, id : 1..MaxId]
SearchRow == [id : 1..MaxId]
TraceCursor == [max : 0..MaxId, time : 0..MaxTime, key : 0..MaxId, id : 0..MaxId + 1]
SearchCursor == [last : 0..MaxId + 1, max : 0..MaxId]

ASSUME ListConstants ==
    /\ {MaxId, MaxTime, Limit, Selective} \subseteq Nat \ {0}
    /\ BatchSize \in Nat /\ BatchSize >= 2 * Limit
    /\ Content \subseteq SUBSET Observation
    /\ \A rows \in Content : \A o \in rows : o.match => o.candidate
    /\ None \notin 1..MaxId \cup TraceCursor \cup SearchCursor
    /\ Lists \subseteq {"trace", "imports", "search", "indexed"}

VARIABLES
    list,     \* the list that is read; "indexed" is a search an index can narrow
    events,   \* the table: id -> [time, key, rows]
    lastId,   \* the last id given
    phase,    \* "ready", "position", "read" of a request; "done" with the last page
    cursor,   \* where the next page begins, or None
    broad,    \* the index has more than Selective candidates
    before,   \* events below this id are still to be searched for this page
    page,     \* ids found for it
    given,    \* rows of the pages so far, in their order (history)
    due       \* ids that were to be read when the reader began, and still are (history)

listVars == <<list, events, lastId, phase, cursor, broad, before, page, given, due>>
request == <<phase, cursor, broad, before, page, given>>

ListTypeOK ==
    /\ list \in Lists
    /\ lastId \in 0..MaxId /\ DOMAIN events \subseteq 1..lastId
    /\ events \in [DOMAIN events -> Event]
    /\ phase \in {"ready", "position", "read", "done"}
    /\ cursor \in (IF list = "trace" THEN TraceCursor ELSE SearchCursor) \cup {None}
    /\ cursor # None => cursor.max <= lastId
    /\ broad \in BOOLEAN /\ before \in 0..MaxId + 1
    /\ page \subseteq 1..lastId /\ Cardinality(page) <= Limit
    /\ given \in Seq(IF list = "trace" THEN TraceRow ELSE SearchRow)
    /\ \A i \in DOMAIN given : given[i].id <= lastId
    /\ due \subseteq DOMAIN events

ListInit ==
    /\ list \in Lists
    /\ events = [e \in {} |-> None] /\ lastId = 0
    /\ phase = "ready" /\ cursor = None
    /\ broad = FALSE /\ before = 0 /\ page = {}
    /\ given = <<>> /\ due = {}

Largest(ids) == Max(ids \cup {0})

-----------------------------------------------------------------------------
(* Which events a search finds *)

\* The observations a statement returns.
ReturnedRows(rows) == {o \in rows : o.kept /\ (list = "indexed" => o.candidate)}

\* searchMatches.
Matches(rows) == list = "imports" \/ \E o \in ReturnedRows(rows) : o.match

-----------------------------------------------------------------------------
(* Imports and the rebuild *)

\* An event nobody has observed before.  Its place is that of its first observation.
Insert(time, key, rows) ==
    /\ lastId < MaxId
    /\ \A e \in DOMAIN events : events[e].key # key
    /\ events' = [e \in DOMAIN events \cup {lastId + 1} |->
                  IF e \in DOMAIN events THEN events[e] ELSE [time |-> time, key |-> key, rows |-> rows]]
    /\ lastId' = lastId + 1
    /\ UNCHANGED <<list, request, due>>

Observed(e, rows, time) ==
    /\ e \in DOMAIN events /\ list # "imports"
    /\ events' = [events EXCEPT ![e].rows = rows, ![e].time = time]
    /\ due' = IF list = "trace" \/ Matches(rows) THEN due ELSE due \ {e}
    /\ UNCHANGED <<list, lastId, request>>

\* Mutant: the event moves to the time of the new observation.
Observe_Moves(e, rows, time) == Observed(e, rows, time)

\* Its key is imported again with another timestamp, or parsed anew.  INSERT OR
\* IGNORE leaves its sort_time as it is.
Observe(e, rows, time) == Observed(e, rows, events[e].time)

\* The Trace is deleted, or a newer normalizer does not produce the key any more.
\* Imports are never deleted.
Delete(e) ==
    /\ e \in DOMAIN events /\ list # "imports"
    /\ events' = [other \in DOMAIN events \ {e} |-> events[other]]
    /\ due' = due \ {e}
    /\ UNCHANGED <<list, lastId, request>>

-----------------------------------------------------------------------------
(* The events of a Trace *)

\* eventPosition: an event to begin at, or the beginning.
Open(e) ==
    /\ list = "trace" /\ phase = "ready" /\ cursor = None
    /\ e \in DOMAIN events \cup {None}
    /\ cursor' = IF e = None THEN [max |-> 0, time |-> 0, key |-> 0, id |-> 0]
                 ELSE [max |-> 0, time |-> events[e].time, key |-> events[e].key, id |-> e]
    /\ phase' = "position"
    /\ UNCHANGED <<list, events, lastId, broad, before, page, given, due>>

Reached(e, at) ==
    \/ events[e].time > at.time
    \/ events[e].time = at.time /\ events[e].key > at.key
    \/ events[e].time = at.time /\ events[e].key = at.key /\ e >= at.id

\* The largest id, in a statement of its own.
Bound ==
    /\ list = "trace" /\ phase = "position"
    /\ cursor' = [cursor EXCEPT !.max = Largest(DOMAIN events)]
    /\ due' = {e \in DOMAIN events : Reached(e, cursor)}
    /\ phase' = "read"
    /\ UNCHANGED <<list, events, lastId, broad, before, page, given>>

Continue ==
    /\ list = "trace" /\ phase = "ready" /\ cursor # None
    /\ phase' = "read"
    /\ UNCHANGED <<list, events, lastId, cursor, broad, before, page, given, due>>

Sooner(e, f) ==
    \/ events[e].time < events[f].time
    \/ events[e].time = events[f].time /\ events[e].key < events[f].key

Place(e) == [time |-> events[e].time, key |-> events[e].key, id |-> e]

Chronological(ids) == LET order == Sorted(ids, Sooner) IN [i \in DOMAIN order |-> Place(order[i])]

\* Mutant: the next page begins at the time of the last event, whatever its key.
After_Time(last) == [max |-> cursor.max, time |-> last.time, key |-> 0, id |-> last.id + 1]

\* The place right after the last event of a page.
After(last) == [max |-> cursor.max, time |-> last.time, key |-> last.key, id |-> last.id + 1]

\* eventsAt.
ReadTrace ==
    /\ list = "trace" /\ phase = "read"
    /\ LET rows == Chronological({e \in DOMAIN events : e <= cursor.max /\ Reached(e, cursor)})
           more == Len(rows) > Limit
       IN /\ given' = given \o SubSeq(rows, 1, IF more THEN Limit ELSE Len(rows))
          /\ cursor' = IF more THEN After(rows[Limit]) ELSE cursor
          /\ phase' = IF more THEN "ready" ELSE "done"
    /\ UNCHANGED <<list, events, lastId, broad, before, page, due>>

-----------------------------------------------------------------------------
(* Imports and searches, newest first *)

\* decodeCursor, and the request's own loop begins.
Prepare ==
    /\ list # "trace" /\ phase = "ready"
    /\ LET max == Largest(DOMAIN events) IN
       cursor' = IF cursor = None THEN [last |-> max + 1, max |-> max] ELSE cursor
    /\ due' = IF cursor = None THEN {e \in DOMAIN events : Matches(events[e].rows)} ELSE due
    /\ before' = cursor'.last
    /\ page' = {}
    /\ phase' = IF list = "indexed" THEN "position" ELSE "read"
    /\ UNCHANGED <<list, events, lastId, broad, given>>

Candidates == {row \in (DOMAIN events) \X Observation : row[2] \in events[row[1]].rows /\ row[2].candidate}

\* candidateIsBroad.
Judge ==
    /\ list = "indexed" /\ phase = "position"
    /\ broad' = (Cardinality(Candidates) > Selective)
    /\ phase' = "read"
    /\ UNCHANGED <<list, events, lastId, cursor, before, page, given, due>>

Newest(ids, n) == {e \in ids : Cardinality({other \in ids : other > e}) < n}

Descending(ids) == LET order == Downward(ids) IN [i \in DOMAIN order |-> [id |-> order[i]]]

Readable == {e \in DOMAIN events : e <= cursor.max /\ e < before /\ (list # "imports" => ReturnedRows(events[e].rows) # {})}

\* searchStatement: all candidates at once, or the newest BatchSize events that have
\* an observation the filters let through.
Batch == IF list = "imports" \/ (list = "indexed" /\ ~broad) THEN Readable ELSE Newest(Readable, BatchSize)

Reply(found, last, more) ==
    /\ given' = given \o Descending(found)
    /\ cursor' = IF more THEN [cursor EXCEPT !.last = last] ELSE cursor
    /\ phase' = IF more THEN "ready" ELSE "done"
    /\ page' = {}
    /\ UNCHANGED before

ReadOn(batch, found) == page' = found /\ before' = Min(batch) /\ UNCHANGED <<phase, cursor, given>>

\* Mutant: a search that is out of time goes on below what it has found.
Searched_BelowFound(found, batch, late) ==
    IF Cardinality(found) > Limit
    THEN LET kept == Newest(found, Limit) IN Reply(kept, Min(kept), TRUE)
    ELSE IF list = "imports" \/ Cardinality(batch) < BatchSize THEN Reply(found, 0, FALSE)
    ELSE IF late THEN Reply(found, Min(found \cup {before}), TRUE)
    ELSE ReadOn(batch, found)

\* The page is full, or there was no full batch and it is the last one, or its time
\* is up and the next page begins below this batch, or another batch is read.
Searched(found, batch, late) ==
    IF Cardinality(found) > Limit
    THEN LET kept == Newest(found, Limit) IN Reply(kept, Min(kept), TRUE)
    ELSE IF list = "imports" \/ Cardinality(batch) < BatchSize THEN Reply(found, 0, FALSE)
    ELSE IF late THEN Reply(found, Min(batch), TRUE)
    ELSE ReadOn(batch, found)

\* collectSearchBatch, and what collectSearch does with it; Imports.
ReadBatch(late) ==
    /\ list # "trace" /\ phase = "read"
    /\ Searched(page \cup {e \in Batch : Matches(events[e].rows)}, Batch, late)
    /\ UNCHANGED <<list, events, lastId, broad, due>>

-----------------------------------------------------------------------------
Read ==
    \/ Open(None) \/ Bound \/ Continue \/ ReadTrace
    \/ Prepare \/ Judge \/ \E late \in BOOLEAN : ReadBatch(late)

\* What tells the rows of a list apart: their places in a Trace, or else what they match.
Distinct(time, key, rows) ==
    IF list = "trace" THEN rows = CHOOSE other \in Content : TRUE ELSE time = 1 /\ key = lastId + 1

ListNext ==
    \/ \E time \in 1..MaxTime, key \in 1..MaxId, rows \in Content :
          Distinct(time, key, rows) /\ Insert(time, key, rows)
    \/ \E e \in DOMAIN events, rows \in Content, time \in 1..MaxTime :
          Distinct(time, lastId + 1, rows) /\ Observe(e, rows, time)
    \/ \E e \in DOMAIN events : Open(e) \/ Delete(e)
    \/ Read

ListSpec == ListInit /\ [][ListNext]_listVars

\* The client asks for the next page as long as there is one.
ListFairness == WF_listVars(Read)

FairListSpec == ListSpec /\ ListFairness

-----------------------------------------------------------------------------
GivenIds == {given[i].id : i \in DOMAIN given}

\* Nothing is given twice, and each page goes on where the one before it ended, in
\* the order of the whole list: whatever is imported, deleted or parsed again
\* between two pages or two statements of one, and wherever the time runs out.
PagesOrdered ==
    \A i, j \in DOMAIN given : i < j =>
        /\ given[i].id # given[j].id
        /\ IF list = "trace"
           THEN \/ given[i].time < given[j].time
                \/ given[i].time = given[j].time /\ given[i].key < given[j].key
           ELSE given[i].id > given[j].id

\* A reader that is told there is no further page has been given every row that was
\* there when it began and is there still; a search, every event that has matched
\* all the time, however the statements were chosen and cut off.
PagesWhole == phase = "done" => due \subseteq GivenIds

\* A list ends: each page, also one whose time was up at once, brings the next one
\* nearer to its end.
PagesEnd == phase # "ready" ~> phase = "done"
=============================================================================
