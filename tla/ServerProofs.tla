------------------------------ MODULE ServerProofs ------------------------------
(***************************************************************************)
(* Proofs about what the server answers, for any number of requests, rows  *)
(* and records: the status counts exactly the imports that were            *)
(* interrupted; the pages of a Trace, of the imports, of a search and of   *)
(* the log are in order and leave nothing out.                             *)
(***************************************************************************)
EXTENDS ImportRequests, EventPages, LogBuffer, SortedSetsProofs, SequenceTheorems, TLAPS

-----------------------------------------------------------------------------
(* ImportRequests *)

Station == {"idle", "receive", "wait", "begin", "mark", "commit", "traces", "finish", "unmark",
          "total", "lock", "count", "rest", "write", "written"}

\* An upload has the writer from Acquire on, and a row that is marked from Commit on.
Writing == {"begin", "mark", "commit", "traces", "finish", "unmark"}
Marked == {"traces", "finish", "unmark"}

Stationed ==
    /\ at \in [Request -> Station]
    /\ id \in [Upload -> Nat]
    /\ running \in Nat

\* Rows of imports are numbered from 1 and never deleted.
RowsNumbered == \E n \in Nat : DOMAIN reported = 1..n

OneWriter ==
    /\ \A u \in Upload : at[u] \in Writing => writer = u
    /\ \A o \in Other : at[o] \in {"write", "written"} => writer = o

\* The mark is the row of the only import that has one.
MarkIsCurrent ==
    /\ \A u \in Upload :
          /\ at[u] \in Marked => id[u] = running
          /\ at[u] \notin Marked => id[u] = 0
    /\ running # 0 <=> \E u \in Upload : at[u] \in Marked

Holding == Stationed /\ RowsNumbered /\ OneWriter /\ MarkIsCurrent

RequestIInv == Holding /\ IncompleteWereInterrupted

-----------------------------------------------------------------------------
LEMMA NewRowIsPositive == ASSUME RowsNumbered PROVE NewRow \in Nat \ {0}
<1>1. PICK n \in Nat : DOMAIN reported = 1..n
  BY DEF RowsNumbered
<1>2. Cardinality(1..n) \in Nat
  BY FS_Interval
<1>. QED
  BY <1>1, <1>2 DEF NewRow

\* With no upload that has the writer, none has a row, and there is no mark.
LEMMA WriterIsFree ==
    ASSUME Holding, NEW v \in Upload, \A u \in Upload \ {v} : writer # u, at[v] \notin Marked
    PROVE  running = 0 /\ \A u \in Upload : id[u] = 0 /\ at[u] \notin Marked
BY DEF Holding, OneWriter, MarkIsCurrent, Writing, Marked, Station, RowsNumbered

\* With importMu held, what is unreported and not marked has nobody at work on it.
LEMMA CountIsRight ==
    ASSUME Holding
    PROVE  Unreported \ {running} = Interrupted
<1>1. PICK n \in Nat : DOMAIN reported = 1..n
  BY DEF Holding, RowsNumbered
<1>2. \A i \in Unreported : i # 0
  BY <1>1 DEF Unreported
<1>3. ASSUME NEW i \in Unreported PROVE i = running <=> \E u \in Upload : id[u] = i
  BY <1>2, <1>3 DEF Holding, MarkIsCurrent
<1>. QED
  BY <1>3 DEF Interrupted, Unreported

-----------------------------------------------------------------------------
LEMMA UploadKeeps ==
    ASSUME Holding, NEW u \in Upload,
           \/ Accept(u) \/ Refuse(u) \/ AbortBegin(u) \/ UploadStep(u)
    PROVE  Holding' /\ UNCHANGED answer
<1> USE DEF Holding, Stationed, OneWriter, MarkIsCurrent, Writing, Marked, Station, RowsNumbered
<1>0. u \in Request \ Other /\ Upload \cup Other \subseteq Request /\ None \notin Request
  BY RequestConstants DEF Request
<1>1. CASE Accept(u)
  BY <1>0, <1>1 DEF Accept, Go
<1>2. CASE Refuse(u)
  BY <1>0, <1>2 DEF Refuse, Returned
<1>3. CASE AbortBegin(u)
  BY <1>0, <1>3 DEF AbortBegin, Returned
<1>4. CASE Receive(u)
  BY <1>0, <1>4 DEF Receive, Go
<1>5. CASE Acquire(u)
  BY <1>0, <1>5 DEF Acquire, Go
<1>6. CASE Begin(u)
  BY <1>0, <1>6 DEF Begin, Go
<1>7. CASE Commit(u)
  <2> DEFINE i == NewRow
  <2>1. i \in Nat \ {0}
    BY NewRowIsPositive
  <2>2. /\ at[u] = "commit" /\ at' = [at EXCEPT ![u] = "traces"]
        /\ DOMAIN reported' = 1..i
        /\ id' = [id EXCEPT ![u] = i] /\ running' = i
        /\ UNCHANGED <<writer, answer>>
    BY <1>7 DEF Commit, Go
  <2> HIDE DEF i
  <2>3. \A v \in Upload : id[v] = 0 /\ at[v] \notin Marked
    BY <1>0, <2>2, WriterIsFree
  <2>4. Stationed'
    BY <1>0, <2>1, <2>2
  <2>5. OneWriter'
    BY <1>0, <2>2
  <2>6. at'[u] = "traces" /\ id'[u] = i /\ \A v \in Upload \ {u} : at'[v] = at[v] /\ id'[v] = id[v]
    BY <1>0, <2>1, <2>2
  <2>7. MarkIsCurrent'
    BY <2>1, <2>2, <2>3, <2>6
  <2>. QED
    BY <2>2, <2>4, <2>5, <2>7
<1>8. CASE Finish(u)
  <2>1. /\ at[u] = "unmark" /\ at' = [at EXCEPT ![u] = "idle"]
        /\ id' = [id EXCEPT ![u] = 0] /\ running' = 0
        /\ UNCHANGED <<reported, answer>>
    BY <1>8 DEF Finish, Returned
  <2>2. \A v \in Upload \ {u} : at[v] \notin Writing
    BY <2>1
  <2>. QED
    BY <1>0, <2>1, <2>2
<1>9. ASSUME NEW stored \in BOOLEAN, EndTraces(u, stored) PROVE Holding' /\ UNCHANGED answer
  <2>1. /\ at[u] = "traces" /\ at' = [at EXCEPT ![u] = "finish"]
        /\ DOMAIN reported' = DOMAIN reported
        /\ UNCHANGED <<id, running, writer, answer>>
    BY <1>9 DEF EndTraces, Go
  <2>. QED
    BY <1>0, <2>1
<1>. QED
  BY <1>1, <1>2, <1>3, <1>4, <1>5, <1>6, <1>7, <1>8, <1>9 DEF UploadStep

LEMMA LockKeeps ==
    ASSUME Holding, NEW r \in Request, Lock(r)
    PROVE  Holding' /\ UNCHANGED answer
<1>1. Upload \cup Other \subseteq Request /\ Upload \cap Other = {}
  BY RequestConstants DEF Request
<1>2. /\ \E p \in {<<"mark", "commit">>, <<"finish", "unmark">>, <<"lock", "count">>} :
             at[r] = p[1] /\ at' = [at EXCEPT ![r] = p[2]]
      /\ UNCHANGED <<reported, writer, running, id, answer>>
  BY DEF Lock, Go
<1>. QED
  BY <1>1, <1>2 DEF Holding, Stationed, OneWriter, MarkIsCurrent, Writing, Marked, Station, RowsNumbered

\* A step of a request that does not upload changes neither rows nor mark.
LEMMA ReaderKeeps ==
    ASSUME RequestIInv, NEW r \in Reader, AskMachines(r) \/ ReaderStep(r) \/ FailStatus(r)
    PROVE  RequestIInv'
<1>1. r \in Request \ (Upload \cup Other) /\ Upload \cup Other \subseteq Request
  BY RequestConstants DEF Request
<1>2. /\ \E p \in Station : at' = [at EXCEPT ![r] = p]
      /\ UNCHANGED <<reported, writer, running, id>>
  BY DEF AskMachines, ReaderStep, FailStatus, AskTotal, Count, AskRest, Go, Station
<1>3. Holding'
  BY <1>1, <1>2 DEF RequestIInv, Holding, Stationed, OneWriter, MarkIsCurrent, Writing, Marked, Station, RowsNumbered
<1>4. \/ UNCHANGED answer
      \/ answer' = [counted |-> Unreported \ {running}, interrupted |-> Interrupted]
  BY DEF AskMachines, ReaderStep, FailStatus, AskTotal, Count, AskRest
<1>5. IncompleteWereInterrupted'
  BY <1>4, CountIsRight DEF RequestIInv, IncompleteWereInterrupted
<1>. QED
  BY <1>3, <1>5 DEF RequestIInv

LEMMA OtherKeeps ==
    ASSUME Holding, NEW o \in Other, TakeWriter(o) \/ OtherStep(o)
    PROVE  Holding' /\ UNCHANGED answer
<1>1. o \in Request \ Upload /\ Upload \cup Other \subseteq Request /\ None \notin Request
  BY RequestConstants DEF Request
<1>2. CASE TakeWriter(o)
  BY <1>1, <1>2 DEF TakeWriter, Go, Holding, Stationed, OneWriter, MarkIsCurrent, Writing, Marked, Station, RowsNumbered
<1>3. CASE Write(o)
  BY <1>1, <1>3 DEF Write, Go, Holding, Stationed, OneWriter, MarkIsCurrent, Writing, Marked, Station, RowsNumbered
<1>4. CASE Written(o)
  BY <1>1, <1>4 DEF Written, Go, Holding, Stationed, OneWriter, MarkIsCurrent, Writing, Marked, Station, RowsNumbered
<1>. QED
  BY <1>2, <1>3, <1>4 DEF OtherStep

LEMMA ServerKeeps ==
    ASSUME Holding, Signal \/ Exit \/ Kill \/ Start
    PROVE  Holding' /\ UNCHANGED answer
<1>1. Upload \cup Other \subseteq Request
  BY DEF Request
<1>2. CASE Signal \/ Start
  BY <1>2 DEF Signal, Start, handlers, Holding, Stationed, OneWriter, MarkIsCurrent, Writing, Marked, Station, RowsNumbered
<1>3. CASE Exit \/ Kill
  <2>1. at' = Idle /\ id' = [u \in Upload |-> 0] /\ running' = 0 /\ UNCHANGED <<reported, answer>>
    BY <1>3 DEF Exit, Kill, Gone
  <2>. QED
    BY <1>1, <2>1 DEF Idle, Holding, Stationed, OneWriter, MarkIsCurrent, Writing, Marked, Station, RowsNumbered
<1>. QED
  BY <1>2, <1>3

-----------------------------------------------------------------------------
LEMMA RequestsBegin == Init => RequestIInv
<1> SUFFICES ASSUME Init PROVE RequestIInv
  OBVIOUS
<1>1. DOMAIN reported = 1..0
  BY DEF Init
<1>2. Upload \cup Other \subseteq Request
  BY DEF Request
<1>. QED
  BY <1>1, <1>2 DEF Init, Idle, RequestIInv, Holding, Stationed, OneWriter, MarkIsCurrent, Writing, Marked, Station, RowsNumbered,
     IncompleteWereInterrupted

LEMMA RequestsGoOn == ASSUME RequestIInv, [Next]_vars PROVE RequestIInv'
<1>1. ASSUME Holding' /\ UNCHANGED answer PROVE RequestIInv'
  BY <1>1 DEF RequestIInv, IncompleteWereInterrupted
<1>2. CASE UNCHANGED vars
  BY <1>2 DEF vars, handlers, RequestIInv, Holding, Stationed, OneWriter, MarkIsCurrent, RowsNumbered, IncompleteWereInterrupted
<1>3. Holding
  BY DEF RequestIInv
<1>. QED
  BY <1>1, <1>2, <1>3, UploadKeeps, LockKeeps, ReaderKeeps, OtherKeeps, ServerKeeps DEF Next

\* What the status calls incomplete (Store.Status, beginImport, Import's deferred calls)
\* are the imports that ended without a report, whoever else imports, asks, waits or is
\* killed meanwhile.
THEOREM StatusCountsInterrupted == Spec => []IncompleteWereInterrupted
<1>1. Init => RequestIInv
  BY RequestsBegin
<1>2. RequestIInv /\ [Next]_vars => RequestIInv'
  BY RequestsGoOn
<1>3. RequestIInv => IncompleteWereInterrupted
  BY DEF RequestIInv
<1>. QED
  BY <1>1, <1>2, <1>3, PTL DEF Spec

-----------------------------------------------------------------------------
(* EventPages *)

\* What has a place before the cursor of a Trace.
Passed(p) ==
    \/ p.time < cursor.time
    \/ p.time = cursor.time /\ p.key < cursor.key
    \/ p.time = cursor.time /\ p.key = cursor.key /\ p.id < cursor.id

\* A Trace: what was given is before the cursor, what is due and was not is after it, and
\* no other row comes to a place that was given.
TracePaged ==
    list = "trace" =>
        /\ \A e, f \in DOMAIN events : events[e].key = events[f].key => e = f
        /\ cursor = None => given = <<>> /\ phase = "ready"
        /\ phase = "position" => given = <<>>
        /\ \A i \in DOMAIN given, e \in DOMAIN events :
              given[i].id = e \/ (e <= cursor.max /\ events[e].key = given[i].key) => given[i] = Place(e)
        /\ phase \in {"ready", "read"} /\ cursor # None =>
              /\ \A i \in DOMAIN given : Passed(given[i])
              /\ \A e \in due : e \in GivenIds \/ (e <= cursor.max /\ Reached(e, cursor))

\* Imports and searches: what was given is not below the cursor, what was found not below
\* the next batch, and what is due and in neither is below.
SearchPaged ==
    list # "trace" =>
        /\ \A e \in due : Matches(events[e].rows)
        /\ cursor = None => given = <<>> /\ phase = "ready" /\ due = {}
        /\ cursor # None => \A e \in due : e <= cursor.max
        /\ cursor # None /\ phase # "done" => \A i \in DOMAIN given : given[i].id >= cursor.last
        /\ cursor # None /\ phase = "ready" => \A e \in due : e \in GivenIds \/ e < cursor.last
        /\ phase \in {"position", "read"} =>
              /\ before <= cursor.last
              /\ \A e \in page : before <= e /\ e < cursor.last
              /\ \A e \in due : e \in GivenIds \cup page \/ e < before

ListIInv == ListTypeOK /\ TracePaged /\ SearchPaged /\ PagesOrdered /\ PagesWhole

LEMMA ListNumbers ==
    /\ MaxId \in Nat \ {0} /\ MaxTime \in Nat \ {0} /\ Limit \in Nat \ {0} /\ Selective \in Nat \ {0}
    /\ BatchSize \in Nat /\ BatchSize >= 2 /\ BatchSize >= Limit
    /\ None \notin 1..MaxId /\ None \notin TraceCursor /\ None \notin SearchCursor
    /\ Lists \subseteq {"trace", "imports", "search", "indexed"}
<1>1. Limit \in Nat \ {0} /\ BatchSize \in Nat /\ BatchSize >= 2 * Limit
  BY ListConstants
<1>2. BatchSize >= 2 /\ BatchSize >= Limit
  BY <1>1
<1>. QED
  BY <1>2, ListConstants

LEMMA NoPages == \A T : <<>> \in Seq(T) /\ Len(<<>>) = 0 /\ DOMAIN <<>> = {}
BY EmptySeq

\* The pages so far and a new one, the first k of m.
LEMMA PagesAppend ==
    ASSUME NEW T, NEW s \in Seq(T), NEW m \in Seq(T), NEW k \in 0..Len(m)
    PROVE  LET added == SubSeq(m, 1, k)
           IN /\ s \o added \in Seq(T) /\ Len(s \o added) = Len(s) + k
              /\ \A i \in 1..Len(s) : (s \o added)[i] = s[i]
              /\ \A i \in Len(s) + 1..Len(s) + k : (s \o added)[i] = m[i - Len(s)]
              /\ DOMAIN (s \o added) = 1..Len(s) + k
<1> DEFINE added == SubSeq(m, 1, k)
<1>1. Len(s) \in Nat /\ Len(m) \in Nat /\ k \in Nat
  BY LenProperties
<1>2. added \in Seq(T) /\ Len(added) = k /\ \A i \in 1..k : added[i] = m[i]
  <2>1. \A i \in 1..k : i \in 1..Len(m) /\ 1 + i - 1 = i
    BY <1>1
  <2>. QED
    BY <1>1, <2>1, SubSeqProperties
<1>. HIDE DEF added
<1>3. /\ s \o added \in Seq(T) /\ Len(s \o added) = Len(s) + Len(added)
      /\ \A i \in 1..Len(s) + Len(added) : (s \o added)[i] = IF i <= Len(s) THEN s[i] ELSE added[i - Len(s)]
  BY <1>2, ConcatProperties
<1>4. DOMAIN (s \o added) = 1..Len(s) + k
  BY <1>2, <1>3, LenProperties
<1>5. \A i \in Len(s) + 1..Len(s) + k : i - Len(s) \in 1..k /\ ~(i <= Len(s)) /\ i \in 1..Len(s) + k
  BY <1>1
<1>6. \A i \in 1..Len(s) : i \in 1..Len(s) + k /\ i <= Len(s)
  BY <1>1
<1>. QED
  BY <1>2, <1>3, <1>4, <1>5, <1>6 DEF added

LEMMA GivenTypes ==
    ASSUME ListTypeOK
    PROVE  /\ DOMAIN given = 1..Len(given) /\ Len(given) \in Nat
           /\ \A i \in DOMAIN given : given[i].id \in 1..MaxId /\ given[i].id <= lastId
           /\ list = "trace" => given \in Seq(TraceRow) /\ \A i \in DOMAIN given : given[i] \in TraceRow
           /\ list # "trace" => given \in Seq(SearchRow) /\ \A i \in DOMAIN given : given[i] \in SearchRow
<1>1. CASE list = "trace"
  <2>1. given \in Seq(TraceRow)
    BY <1>1 DEF ListTypeOK
  <2>2. DOMAIN given = 1..Len(given) /\ Len(given) \in Nat /\ \A i \in DOMAIN given : given[i] \in TraceRow
    BY <2>1, ElementOfSeq, LenProperties
  <2>3. \A i \in DOMAIN given : given[i].id \in 1..MaxId
    BY <2>2 DEF TraceRow
  <2>. QED
    BY <1>1, <2>1, <2>2, <2>3 DEF ListTypeOK
<1>2. CASE list # "trace"
  <2>1. given \in Seq(SearchRow)
    BY <1>2 DEF ListTypeOK
  <2>2. DOMAIN given = 1..Len(given) /\ Len(given) \in Nat /\ \A i \in DOMAIN given : given[i] \in SearchRow
    BY <2>1, ElementOfSeq, LenProperties
  <2>3. \A i \in DOMAIN given : given[i].id \in 1..MaxId
    BY <2>2 DEF SearchRow
  <2>. QED
    BY <1>2, <2>1, <2>2, <2>3 DEF ListTypeOK
<1>. QED
  BY <1>1, <1>2

LEMMA ListInitInvariant == ListInit => ListIInv
<1> SUFFICES ASSUME ListInit PROVE ListIInv
  OBVIOUS
<1>1. DOMAIN events = {} /\ given = <<>> /\ cursor = None /\ phase = "ready" /\ due = {} /\ page = {}
  BY DEF ListInit
<1>2. Cardinality({}) = 0
  BY FS_EmptySet
<1>3. ListTypeOK
  <2>1. events \in [DOMAIN events -> Event]
    <3>1. events = [e \in {} |-> None]
      BY DEF ListInit
    <3>. QED
      BY <3>1
  <2>2. given \in Seq(IF list = "trace" THEN TraceRow ELSE SearchRow) /\ DOMAIN given = {}
    BY <1>1, NoPages
  <2>3. list \in Lists /\ lastId = 0 /\ broad = FALSE /\ before = 0 /\ 0 \in 0..MaxId /\ 0 \in 0..MaxId + 1 /\ 0 <= Limit
    BY ListNumbers DEF ListInit
  <2>. QED
    BY <1>1, <1>2, <2>1, <2>2, <2>3 DEF ListTypeOK
<1>4. \A i \in DOMAIN given : FALSE
  BY <1>1, NoPages
<1>. QED
  BY <1>1, <1>3, <1>4 DEF ListIInv, TracePaged, SearchPaged, PagesOrdered, PagesWhole

-----------------------------------------------------------------------------
(* Imports and the rebuild *)

LEMMA TableKeeps ==
    ASSUME ListIInv, UNCHANGED <<list, request>>,
           lastId' \in lastId..MaxId, DOMAIN events' \subseteq 1..lastId', events' \in [DOMAIN events' -> Event],
           \A e \in DOMAIN events' :
              \/ e > lastId
              \/ e \in DOMAIN events /\ events'[e].time = events[e].time /\ events'[e].key = events[e].key,
           due' \subseteq due, due' \subseteq DOMAIN events',
           list = "trace" => \A e, f \in DOMAIN events' : events'[e].key = events'[f].key => e = f,
           list # "trace" => \A e \in due' : Matches(events[e].rows)'
    PROVE  ListIInv'
<1>1. /\ UNCHANGED <<list, phase, cursor, broad, before, page, given>>
      /\ lastId \in Nat /\ lastId <= lastId' /\ lastId' \in 0..MaxId /\ 1..lastId \subseteq 1..lastId'
  BY ListNumbers DEF request, ListIInv, ListTypeOK
<1>2. ListTypeOK'
  <2>1. \A i \in DOMAIN given : given[i].id <= lastId'
    <3>1. \A i \in DOMAIN given : given[i].id \in Int /\ given[i].id <= lastId
      BY GivenTypes DEF ListIInv
    <3>. QED
      BY <1>1, <3>1
  <2>2. cursor # None => cursor.max \in Int /\ cursor.max <= lastId'
    <3>1. cursor # None => cursor.max \in Int /\ cursor.max <= lastId
      BY DEF ListIInv, ListTypeOK, TraceCursor, SearchCursor
    <3>. QED
      BY <1>1, <3>1
  <2>3. page \subseteq 1..lastId'
    BY <1>1 DEF ListIInv, ListTypeOK
  <2>. QED
    BY <1>1, <2>1, <2>2, <2>3 DEF ListIInv, ListTypeOK
<1>3. GivenIds' = GivenIds
  BY <1>1 DEF GivenIds
<1>4. TracePaged'
  <2> SUFFICES ASSUME list = "trace" PROVE TracePaged'
    BY <1>1 DEF TracePaged
  <2>1. \A i \in DOMAIN given : given[i].id <= lastId /\ given[i].id \in Int /\ cursor # None /\ cursor.max <= lastId /\ cursor.max \in Int
    <3>1. DOMAIN given # {} => cursor # None
      BY NoPages DEF ListIInv, TracePaged
    <3>2. cursor # None => cursor.max <= lastId /\ cursor.max \in Int
      BY DEF ListIInv, ListTypeOK, TraceCursor
    <3>. QED
      BY <3>1, <3>2, GivenTypes DEF ListIInv
  <2>2. \A e \in DOMAIN events' : e \in Int /\ (e > lastId \/ Place(e)' = Place(e))
    BY DEF Place
  <2>3. \A i \in DOMAIN given, e \in DOMAIN events' :
           given[i].id = e \/ (e <= cursor.max /\ events'[e].key = given[i].key) => given[i] = Place(e)'
    <3>. SUFFICES ASSUME NEW i \in DOMAIN given, NEW e \in DOMAIN events',
                         given[i].id = e \/ (e <= cursor.max /\ events'[e].key = given[i].key)
                  PROVE  given[i] = Place(e)'
      OBVIOUS
    <3>1. ~(e > lastId)
      BY <1>1, <2>1, <2>2
    <3>2. e \in DOMAIN events /\ events'[e].key = events[e].key /\ Place(e)' = Place(e)
      BY <2>2, <3>1
    <3>. QED
      BY <3>2 DEF ListIInv, TracePaged
  <2>4. \A e \in due' : e \in due /\ (Reached(e, cursor) => Reached(e, cursor)')
    <3>. SUFFICES ASSUME NEW e \in due', Reached(e, cursor) PROVE e \in due /\ Reached(e, cursor)'
      OBVIOUS
    <3>1. e \in DOMAIN events /\ e \in DOMAIN events' /\ ~(e > lastId)
      BY <1>1 DEF ListIInv, ListTypeOK
    <3>. QED
      BY <1>1, <3>1 DEF Reached
  <2>. QED
    BY <1>1, <1>3, <2>3, <2>4 DEF ListIInv, TracePaged, Passed
<1>5. SearchPaged'
  BY <1>1, <1>3 DEF ListIInv, SearchPaged
<1>6. PagesOrdered' /\ PagesWhole'
  BY <1>1, <1>3 DEF ListIInv, PagesOrdered, PagesWhole
<1>. QED
  BY <1>2, <1>4, <1>5, <1>6 DEF ListIInv

LEMMA InsertKeeps ==
    ASSUME ListIInv, NEW time \in 1..MaxTime, NEW key \in 1..MaxId, NEW rows \in Content, Insert(time, key, rows)
    PROVE  ListIInv'
<1> DEFINE new == [time |-> time, key |-> key, rows |-> rows]
<1>1. /\ lastId' = lastId + 1 /\ lastId \in Nat /\ lastId < MaxId /\ UNCHANGED <<list, request, due>>
      /\ events' = [e \in DOMAIN events \cup {lastId + 1} |-> IF e \in DOMAIN events THEN events[e] ELSE new]
      /\ \A e \in DOMAIN events : events[e].key # key
  BY DEF Insert, ListIInv, ListTypeOK
<1>2. new \in Event /\ new.key = key
  BY DEF Event
<1>. HIDE DEF new
<1>3. /\ DOMAIN events \subseteq 1..lastId /\ DOMAIN events' = DOMAIN events \cup {lastId + 1}
      /\ lastId' \in lastId..MaxId /\ DOMAIN events' \subseteq 1..lastId' /\ lastId + 1 \notin DOMAIN events
  BY <1>1, ListNumbers DEF ListIInv, ListTypeOK
<1>4. events'[lastId + 1] = new /\ \A e \in DOMAIN events : events'[e] = events[e]
  BY <1>1, <1>3
<1>5. events' \in [DOMAIN events' -> Event]
  BY <1>1, <1>2, <1>3 DEF ListIInv, ListTypeOK
<1>6. \A e \in DOMAIN events' :
         \/ e > lastId
         \/ e \in DOMAIN events /\ events'[e].time = events[e].time /\ events'[e].key = events[e].key
  BY <1>1, <1>3, <1>4
<1>7. due' \subseteq due /\ due' \subseteq DOMAIN events' /\ due \subseteq DOMAIN events
  BY <1>1, <1>3 DEF ListIInv, ListTypeOK
<1>8. list = "trace" => \A e, f \in DOMAIN events' : events'[e].key = events'[f].key => e = f
  BY <1>1, <1>2, <1>3, <1>4 DEF ListIInv, TracePaged
<1>9. list # "trace" => \A e \in due' : Matches(events[e].rows)'
  BY <1>1, <1>4, <1>7 DEF ListIInv, SearchPaged, Matches, ReturnedRows
<1>. QED
  BY <1>1, <1>3, <1>5, <1>6, <1>7, <1>8, <1>9, TableKeeps

LEMMA ObserveKeeps ==
    ASSUME ListIInv, NEW e \in DOMAIN events, NEW rows \in Content, NEW time, Observe(e, rows, time)
    PROVE  ListIInv'
<1>1. /\ events' = [events EXCEPT ![e].rows = rows, ![e].time = events[e].time]
      /\ due' = IF list = "trace" \/ Matches(rows) THEN due ELSE due \ {e}
      /\ UNCHANGED <<list, lastId, request>>
  BY DEF Observe, Observed
<1>2. lastId \in Nat /\ lastId \in 0..MaxId /\ events \in [DOMAIN events -> Event] /\ due \subseteq DOMAIN events
  BY DEF ListIInv, ListTypeOK
<1>3. /\ DOMAIN events' = DOMAIN events
      /\ \A f \in DOMAIN events : events'[f].time = events[f].time /\ events'[f].key = events[f].key
      /\ events'[e].rows = rows /\ \A f \in DOMAIN events \ {e} : events'[f] = events[f]
      /\ events' \in [DOMAIN events -> Event]
  BY <1>1, <1>2 DEF Event
<1>4. lastId' \in lastId..MaxId
  BY <1>1, <1>2, ListNumbers
<1>5. list # "trace" => \A f \in due' : Matches(events[f].rows)'
  <2>. SUFFICES ASSUME list # "trace", NEW f \in due' PROVE Matches(events'[f].rows)
    BY <1>1 DEF Matches, ReturnedRows
  <2>1. f \in due /\ Matches(events[f].rows)
    BY <1>1 DEF ListIInv, SearchPaged
  <2>2. CASE f = e
    BY <1>1, <1>3, <2>2
  <2>3. CASE f # e
    BY <1>2, <1>3, <2>1, <2>3
  <2>. QED
    BY <2>2, <2>3
<1>6. list = "trace" => \A f, g \in DOMAIN events' : events'[f].key = events'[g].key => f = g
  BY <1>3 DEF ListIInv, TracePaged
<1>7. due' \subseteq due /\ due' \subseteq DOMAIN events' /\ DOMAIN events' \subseteq 1..lastId'
  BY <1>1, <1>2, <1>3 DEF ListIInv, ListTypeOK
<1>. QED
  BY <1>1, <1>3, <1>4, <1>5, <1>6, <1>7, TableKeeps

LEMMA DeleteKeeps ==
    ASSUME ListIInv, NEW e \in DOMAIN events, Delete(e)
    PROVE  ListIInv'
<1>1. /\ events' = [other \in DOMAIN events \ {e} |-> events[other]]
      /\ due' = due \ {e} /\ UNCHANGED <<list, lastId, request>>
  BY DEF Delete
<1>2. lastId \in 0..MaxId /\ events \in [DOMAIN events -> Event] /\ due \subseteq DOMAIN events /\ DOMAIN events \subseteq 1..lastId
  BY DEF ListIInv, ListTypeOK
<1>3. /\ DOMAIN events' = DOMAIN events \ {e} /\ \A f \in DOMAIN events' : events'[f] = events[f]
      /\ events' \in [DOMAIN events' -> Event]
  BY <1>1, <1>2
<1>4. lastId' \in lastId..MaxId
  BY <1>1, <1>2, ListNumbers
<1>5. list # "trace" => \A f \in due' : Matches(events[f].rows)'
  BY <1>1, <1>2, <1>3 DEF ListIInv, SearchPaged, Matches, ReturnedRows
<1>6. list = "trace" => \A f, g \in DOMAIN events' : events'[f].key = events'[g].key => f = g
  BY <1>3 DEF ListIInv, TracePaged
<1>7. due' \subseteq due /\ due' \subseteq DOMAIN events' /\ DOMAIN events' \subseteq 1..lastId'
  BY <1>1, <1>2, <1>3
<1>. QED
  BY <1>1, <1>3, <1>4, <1>5, <1>6, <1>7, TableKeeps

LEMMA MaxOf ==
    ASSUME NEW S, IsFiniteSet(S), S \subseteq Int, S # {}
    PROVE  Max(S) \in S /\ \A x \in S : x <= Max(S)
<1>1. /\ Cardinality(S) \in Nat /\ Downward(S) \in [1..Cardinality(S) -> S]
      /\ \A x \in S : \E k \in 1..Cardinality(S) : Downward(S)[k] = x
      /\ \A j, k \in 1..Cardinality(S) : j < k <=> Downward(S)[j] > Downward(S)[k]
  BY DownwardSorts
<1>2. 1 \in 1..Cardinality(S)
  <2>1. PICK k \in 1..Cardinality(S) : TRUE
    BY <1>1
  <2>. QED
    BY <1>1, <2>1
<1>3. PICK m \in S : m = Downward(S)[1]
  BY <1>1, <1>2
<1>4. \A x \in S : m >= x
  BY <1>1, <1>2, <1>3
<1>. QED
  BY <1>4 DEF Max

LEMMA MinOf ==
    ASSUME NEW S, IsFiniteSet(S), S \subseteq Int, S # {}
    PROVE  Min(S) \in S /\ \A x \in S : Min(S) <= x
<1>1. /\ Cardinality(S) \in Nat /\ Upward(S) \in [1..Cardinality(S) -> S]
      /\ \A x \in S : \E k \in 1..Cardinality(S) : Upward(S)[k] = x
      /\ \A j, k \in 1..Cardinality(S) : j < k <=> Upward(S)[j] < Upward(S)[k]
  BY UpwardSorts
<1>2. 1 \in 1..Cardinality(S)
  <2>1. PICK k \in 1..Cardinality(S) : TRUE
    BY <1>1
  <2>. QED
    BY <1>1, <2>1
<1>3. PICK m \in S : m = Upward(S)[1]
  BY <1>1, <1>2
<1>4. \A x \in S : m <= x
  BY <1>1, <1>2, <1>3
<1>. QED
  BY <1>4 DEF Min

\* Ids of rows are few and are numbers.
LEMMA RowIds ==
    ASSUME ListTypeOK, NEW S \in SUBSET (DOMAIN events)
    PROVE  IsFiniteSet(S) /\ S \subseteq Int /\ S \subseteq 1..lastId /\ S \subseteq 1..MaxId /\ lastId \in Nat /\ lastId <= MaxId
<1>1. lastId \in Nat /\ lastId <= MaxId /\ S \subseteq 1..lastId
  BY ListNumbers DEF ListTypeOK
<1>2. 1 \in Int /\ lastId \in Int
  BY <1>1
<1>3. IsFiniteSet(1..lastId)
  BY <1>2, FS_Interval
<1>4. S \subseteq Int /\ S \subseteq 1..MaxId
  BY <1>1, ListNumbers
<1>. QED
  BY <1>1, <1>3, <1>4, FS_Subset

LEMMA LargestId ==
    ASSUME ListTypeOK
    PROVE  /\ Largest(DOMAIN events) \in 0..MaxId /\ Largest(DOMAIN events) <= lastId
           /\ \A e \in DOMAIN events : e <= Largest(DOMAIN events)
<1> DEFINE S == DOMAIN events \cup {0}
<1>1. DOMAIN events \in SUBSET (DOMAIN events)
  OBVIOUS
<1>2. /\ IsFiniteSet(DOMAIN events) /\ DOMAIN events \subseteq 1..lastId /\ lastId \in Nat /\ lastId <= MaxId
      /\ DOMAIN events \subseteq 1..MaxId
  BY <1>1, RowIds
<1>3. S \subseteq 0..lastId /\ S \subseteq Int /\ S \subseteq 0..MaxId /\ S # {}
  BY <1>2, ListNumbers
<1>4. IsFiniteSet(S)
  BY <1>2, FS_AddElement
<1>5. DOMAIN events \subseteq S
  OBVIOUS
<1>6. Largest(DOMAIN events) = Max(S)
  BY DEF Largest
<1>. HIDE DEF S
<1>7. Max(S) \in S /\ \A x \in S : x <= Max(S)
  BY <1>3, <1>4, MaxOf
<1>8. PICK m : m = Max(S)
  OBVIOUS
<1>9. m \in 0..MaxId /\ m <= lastId /\ \A e \in DOMAIN events : e <= m
  <2>1. m \in S /\ m \in 0..lastId /\ m \in 0..MaxId
    BY <1>3, <1>7, <1>8
  <2>2. \A e \in DOMAIN events : e <= m
    BY <1>5, <1>7, <1>8
  <2>. QED
    BY <1>2, <2>1, <2>2
<1>. QED
  BY <1>6, <1>8, <1>9

-----------------------------------------------------------------------------
(* The events of a Trace *)

LEMMA OpenKeeps ==
    ASSUME ListIInv, NEW e, Open(e)
    PROVE  ListIInv'
<1>1. /\ list = "trace" /\ phase' = "position" /\ cursor = None /\ given = <<>>
      /\ UNCHANGED <<list, events, lastId, broad, before, page, given, due>>
  BY DEF Open, ListIInv, TracePaged
<1>2. cursor' \in TraceCursor /\ cursor'.max = 0
  <2>1. CASE e = None
    <3>1. cursor' = [max |-> 0, time |-> 0, key |-> 0, id |-> 0]
      BY <2>1 DEF Open
    <3>. QED
      BY <3>1, ListNumbers DEF TraceCursor
  <2>2. CASE e # None
    <3>1. e \in DOMAIN events /\ cursor' = [max |-> 0, time |-> events[e].time, key |-> events[e].key, id |-> e]
      BY <2>2 DEF Open
    <3>2. events[e] \in Event /\ e \in 1..lastId /\ lastId \in 0..MaxId
      BY <3>1 DEF ListIInv, ListTypeOK
    <3>3. events[e].time \in 0..MaxTime /\ events[e].key \in 0..MaxId /\ e \in 0..MaxId + 1 /\ 0 \in 0..MaxId
      BY <3>2, ListNumbers DEF Event
    <3>. QED
      BY <3>1, <3>3 DEF TraceCursor
  <2>. QED
    BY <2>1, <2>2
<1>3. cursor' # None /\ cursor'.max <= lastId
  BY <1>2, ListNumbers DEF ListIInv, ListTypeOK
<1>4. \A i \in DOMAIN given : FALSE
  BY <1>1, NoPages
<1>. QED
  BY <1>1, <1>2, <1>3, <1>4 DEF ListIInv, ListTypeOK, TracePaged, SearchPaged, PagesOrdered, PagesWhole

LEMMA BoundKeeps ==
    ASSUME ListIInv, Bound
    PROVE  ListIInv'
<1> DEFINE largest == Largest(DOMAIN events)
<1>1. /\ list = "trace" /\ phase = "position" /\ phase' = "read" /\ cursor # None /\ given = <<>>
      /\ cursor' = [cursor EXCEPT !.max = largest]
      /\ due' = {e \in DOMAIN events : Reached(e, cursor)}
      /\ UNCHANGED <<list, events, lastId, broad, before, page, given>>
  BY DEF Bound, ListIInv, TracePaged
<1>2. largest \in 0..MaxId /\ largest <= lastId /\ \A e \in DOMAIN events : e <= largest
  BY LargestId DEF ListIInv
<1>. HIDE DEF largest
<1>3. cursor \in TraceCursor
  BY <1>1 DEF ListIInv, ListTypeOK
<1>4. /\ cursor' \in TraceCursor /\ cursor'.max = largest
      /\ cursor'.time = cursor.time /\ cursor'.key = cursor.key /\ cursor'.id = cursor.id
  BY <1>1, <1>2, <1>3 DEF TraceCursor
<1>5. cursor' # None
  BY <1>4, ListNumbers
<1>6. \A i \in DOMAIN given : FALSE
  BY <1>1, NoPages
<1>7. \A e \in due' : e \in DOMAIN events /\ e <= cursor'.max /\ Reached(e, cursor)'
  BY <1>1, <1>2, <1>4 DEF Reached
<1>. QED
  BY <1>1, <1>2, <1>4, <1>5, <1>6, <1>7 DEF ListIInv, ListTypeOK, TracePaged, SearchPaged, PagesOrdered, PagesWhole

LEMMA ContinueKeeps ==
    ASSUME ListIInv, Continue
    PROVE  ListIInv'
<1>1. /\ list = "trace" /\ phase = "ready" /\ phase' = "read" /\ cursor # None
      /\ UNCHANGED <<list, events, lastId, cursor, broad, before, page, given, due>>
  BY DEF Continue
<1>2. GivenIds' = GivenIds /\ \A e \in due : Reached(e, cursor)' <=> Reached(e, cursor)
  BY <1>1 DEF GivenIds, Reached
<1>3. TracePaged'
  BY <1>1, <1>2 DEF ListIInv, TracePaged, Passed, Place
<1>. QED
  BY <1>1, <1>3 DEF ListIInv, ListTypeOK, SearchPaged, PagesOrdered, PagesWhole

\* The rows of a Trace in their order.
LEMMA TraceRows ==
    ASSUME ListIInv, list = "trace", cursor # None
    PROVE  LET S == {e \in DOMAIN events : e <= cursor.max /\ Reached(e, cursor)}
               rows == Chronological(S)
           IN /\ rows \in Seq(TraceRow) /\ DOMAIN rows = 1..Len(rows) /\ Len(rows) \in Nat
              /\ \A k \in 1..Len(rows) : rows[k].id \in S /\ rows[k] = Place(rows[k].id)
              /\ \A e \in S : \E k \in 1..Len(rows) : rows[k].id = e
              /\ \A j, k \in 1..Len(rows) : j < k => Sooner(rows[j].id, rows[k].id)
<1> DEFINE S == {e \in DOMAIN events : e <= cursor.max /\ Reached(e, cursor)}
           below == [e \in S |-> {f \in S : Sooner(f, e)}]
           order == Sorted(S, Sooner)
           rows == [i \in DOMAIN order |-> Place(order[i])]
           n == Cardinality(S)
<1>1. IsFiniteSet(S) /\ S \subseteq 1..MaxId /\ S \subseteq DOMAIN events
  <2>1. S \in SUBSET (DOMAIN events)
    OBVIOUS
  <2>. HIDE DEF S
  <2>. QED
    BY <2>1, RowIds DEF ListIInv
<1>2. \A e \in DOMAIN events : events[e].time \in Int /\ events[e].key \in Int /\ events[e] \in Event
  BY DEF ListIInv, ListTypeOK, Event
<1>3. \A e, f \in S : events[e].key = events[f].key => e = f
  BY DEF ListIInv, TracePaged
<1>4. Ordered(S, below)
  <2>1. below \in [S -> SUBSET S]
    OBVIOUS
  <2>2. \A e, f \in S : e \in below[f] <=> Sooner(e, f)
    OBVIOUS
  <2>3. \A e, f \in S : events[e].time \in Int /\ events[e].key \in Int
    BY <1>2
  <2>. HIDE DEF S
  <2>4. \A e \in S : ~Sooner(e, e)
    BY <2>3 DEF Sooner
  <2>5. \A e, f \in S : e # f => Sooner(e, f) \/ Sooner(f, e)
    BY <1>3, <2>3 DEF Sooner
  <2>6. \A e, f, g \in S : Sooner(g, e) /\ Sooner(e, f) => Sooner(g, f)
    BY <2>3 DEF Sooner
  <2>. HIDE DEF below
  <2>. QED
    BY <2>1, <2>2, <2>4, <2>5, <2>6 DEF Ordered
<1>5. \A e \in S : below[e] = {f \in S : Sooner(f, e)}
  OBVIOUS
<1>6. \A e, f \in S : e \in below[f] <=> Sooner(e, f)
  OBVIOUS
<1>7. Ranks(order, S, below)
  <2> DEFINE pick(k) == CHOOSE x \in S : Cardinality({y \in S : Sooner(y, x)}) = k - 1
  <2>1. order = [k \in 1..n |-> pick(k)]
    BY Zenon DEF Sorted
  <2>. HIDE DEF order, pick, n
  <2>2. DOMAIN order = 1..n /\ \A k \in 1..n : order[k] = pick(k)
    BY <2>1
  <2>3. \A k \in 1..n : order[k] = CHOOSE x \in S : Cardinality({y \in S : Sooner(y, x)}) = k - 1
    BY <2>2 DEF pick
  <2>. HIDE DEF S, below
  <2>4. \A k \in 1..n : (\E x \in S : Cardinality(below[x]) = k - 1) => order[k] \in S /\ Cardinality(below[order[k]]) = k - 1
    BY <1>5, <2>3
  <2>. QED
    BY <2>2, <2>4 DEF Ranks, n
<1>8. rows = Chronological(S)
  BY DEF Chronological
<1>. HIDE DEF S, below, order
<1>9. /\ n \in Nat /\ DOMAIN order = 1..n
      /\ \A k \in 1..n : order[k] \in S
      /\ \A x \in S : \E k \in 1..n : order[k] = x
      /\ \A j, k \in 1..n : j < k <=> order[j] \in below[order[k]]
  BY <1>1, <1>4, <1>7, SortedIsOrdered
<1>10. \A e \in S : Place(e) \in TraceRow /\ Place(e).id = e
  BY <1>1, <1>2 DEF Place, TraceRow, Event
<1>. HIDE DEF n
<1>11. rows \in [1..n -> TraceRow] /\ \A k \in 1..n : rows[k] = Place(order[k])
  BY <1>9, <1>10
<1>. HIDE DEF rows
<1>12. rows \in Seq(TraceRow) /\ DOMAIN rows = 1..n /\ Len(rows) = n
  <2>1. rows \in Seq(TraceRow) /\ DOMAIN rows = 1..n
    BY <1>9, <1>11, SeqDef
  <2>2. Len(rows) \in Nat /\ DOMAIN rows = 1..Len(rows)
    BY <2>1, LenProperties
  <2>. QED
    BY <1>9, <2>1, <2>2
<1>13. \A k \in 1..n : rows[k].id \in S /\ rows[k].id = order[k] /\ rows[k] = Place(rows[k].id)
  BY <1>9, <1>10, <1>11
<1>14. \A j, k \in 1..n : j < k => Sooner(rows[j].id, rows[k].id)
  BY <1>6, <1>9, <1>13
<1>15. \A e \in S : \E k \in 1..n : rows[k].id = e
  BY <1>9, <1>13
<1>. QED
  BY <1>8, <1>9, <1>12, <1>13, <1>14, <1>15 DEF S

InOrder(p, q) == p.id # q.id /\ (p.time < q.time \/ (p.time = q.time /\ p.key < q.key))

\* A page goes on after the one before it, and the next one after its last row.
LEMMA ReadTraceKeeps ==
    ASSUME ListIInv, ReadTrace
    PROVE  ListIInv'
<1> DEFINE S == {e \in DOMAIN events : e <= cursor.max /\ Reached(e, cursor)}
           rows == Chronological(S)
           more == Len(rows) > Limit
           k == IF more THEN Limit ELSE Len(rows)
           n == Len(given)
<1>1. /\ list = "trace" /\ phase = "read" /\ cursor # None
      /\ given' = given \o SubSeq(rows, 1, k)
      /\ cursor' = IF more THEN After(rows[Limit]) ELSE cursor
      /\ phase' = IF more THEN "ready" ELSE "done"
      /\ UNCHANGED <<list, events, lastId, broad, before, page, due>>
  BY DEF ReadTrace, ListIInv, TracePaged
<1>2. /\ rows \in Seq(TraceRow) /\ DOMAIN rows = 1..Len(rows) /\ Len(rows) \in Nat
      /\ \A i \in 1..Len(rows) : rows[i].id \in S /\ rows[i] = Place(rows[i].id)
      /\ \A e \in S : \E i \in 1..Len(rows) : rows[i].id = e
      /\ \A i, j \in 1..Len(rows) : i < j => Sooner(rows[i].id, rows[j].id)
  BY <1>1, TraceRows
<1>3. /\ \A e \in S : e \in DOMAIN events /\ e <= cursor.max /\ Reached(e, cursor)
      /\ \A e \in DOMAIN events : e <= cursor.max /\ Reached(e, cursor) => e \in S
  OBVIOUS
<1>. HIDE DEF S, rows
<1>4. Limit \in Nat /\ Limit >= 1
  BY ListNumbers
<1>5. k \in 0..Len(rows) /\ (more => k = Limit /\ k \in 1..Len(rows)) /\ (~more => k = Len(rows))
  <2>1. Len(rows) \in Nat
    BY <1>2
  <2>. QED
    BY <1>4, <2>1
<1>. HIDE DEF k, more
<1>6. given \in Seq(TraceRow) /\ DOMAIN given = 1..n /\ n \in Nat /\ \A i \in 1..n : given[i] \in TraceRow
  BY <1>1, GivenTypes DEF ListIInv
<1>7. /\ given' \in Seq(TraceRow) /\ DOMAIN given' = 1..n + k
      /\ \A i \in 1..n : given'[i] = given[i]
      /\ \A i \in n + 1..n + k : given'[i] = rows[i - n]
  <2>1. given \in Seq(TraceRow) /\ rows \in Seq(TraceRow) /\ k \in 0..Len(rows)
    BY <1>2, <1>5, <1>6
  <2>2. given' = given \o SubSeq(rows, 1, k)
    BY <1>1
  <2>. QED
    BY <2>1, <2>2, PagesAppend
<1>. HIDE DEF n
<1>8. \A i \in 1..n + k : i \in 1..n \/ (i \in n + 1..n + k /\ i - n \in 1..k /\ i - n \in 1..Len(rows))
  <2>1. Len(rows) \in Nat /\ k \in 0..Len(rows) /\ n \in Nat
    BY <1>2, <1>5, <1>6
  <2>. QED
    BY <2>1
<1>9. \A e \in DOMAIN events :
         /\ e \in 1..MaxId /\ e <= lastId
         /\ events[e].time \in 1..MaxTime /\ events[e].key \in 1..MaxId
         /\ Place(e).time = events[e].time /\ Place(e).key = events[e].key /\ Place(e).id = e
  <2>1. \A e \in DOMAIN events : events[e] \in Event /\ e \in 1..lastId
    BY DEF ListIInv, ListTypeOK
  <2>2. lastId \in 0..MaxId
    BY DEF ListIInv, ListTypeOK
  <2>. QED
    BY <2>1, <2>2, ListNumbers DEF Event, Place
<1>10. \A i \in 1..Len(rows) :
          /\ rows[i].id \in DOMAIN events /\ rows[i].id <= cursor.max /\ Reached(rows[i].id, cursor)
          /\ rows[i].time = events[rows[i].id].time /\ rows[i].key = events[rows[i].id].key
          /\ rows[i].time \in 1..MaxTime /\ rows[i].key \in 1..MaxId /\ rows[i].id \in 1..MaxId /\ rows[i].id <= lastId
  BY <1>2, <1>3, <1>9
<1>11. cursor \in TraceCursor /\ cursor.time \in Int /\ cursor.key \in Int /\ cursor.id \in Int /\ cursor.max \in 0..MaxId
  BY <1>1 DEF ListIInv, ListTypeOK, TraceCursor
<1>12. \A i \in 1..n :
          /\ Passed(given[i])
          /\ given[i].time \in Int /\ given[i].key \in Int /\ given[i].id \in Int
          /\ \A e \in DOMAIN events :
                given[i].id = e \/ (e <= cursor.max /\ events[e].key = given[i].key) => given[i] = Place(e)
  <2>1. \A i \in 1..n : given[i].time \in Int /\ given[i].key \in Int /\ given[i].id \in Int
    BY <1>6 DEF TraceRow
  <2>. QED
    BY <1>1, <1>6, <2>1 DEF ListIInv, TracePaged
<1>13. ASSUME NEW i \in 1..n, NEW j \in 1..Len(rows)
       PROVE  InOrder(given[i], rows[j])
  <2>1. PICK e \in DOMAIN events : e = rows[j].id
    BY <1>10
  <2>2. /\ e <= cursor.max /\ Reached(e, cursor) /\ rows[j].time = events[e].time /\ rows[j].key = events[e].key
        /\ events[e].time \in Int /\ events[e].key \in Int /\ e \in Int
    BY <1>9, <1>10, <2>1
  <2>3. given[i].id = e \/ events[e].key = given[i].key =>
           given[i].time = events[e].time /\ given[i].key = events[e].key /\ given[i].id = e
    BY <1>9, <1>12, <2>2
  <2>4. Passed(given[i]) /\ given[i].time \in Int /\ given[i].key \in Int /\ given[i].id \in Int
    BY <1>12
  <2>5. given[i].id # e
    BY <1>11, <2>2, <2>3, <2>4 DEF Passed, Reached
  <2>6. given[i].time < events[e].time \/ (given[i].time = events[e].time /\ given[i].key < events[e].key)
    BY <1>11, <2>2, <2>3, <2>4, <2>5, SMTT(30) DEF Passed, Reached
  <2>. QED
    BY <2>1, <2>2, <2>5, <2>6 DEF InOrder
<1>14. ASSUME NEW i \in 1..Len(rows), NEW j \in 1..Len(rows), i < j
       PROVE  InOrder(rows[i], rows[j])
  <2>1. Sooner(rows[i].id, rows[j].id)
    BY <1>2, <1>14
  <2>2. rows[i].id # rows[j].id
    BY <1>10, <2>1 DEF Sooner
  <2>. QED
    BY <1>10, <2>1, <2>2 DEF InOrder, Sooner
<1>15. ASSUME NEW i \in DOMAIN given', NEW j \in DOMAIN given', i < j
       PROVE  InOrder(given'[i], given'[j])
  <2>1. i \in 1..n + k /\ j \in 1..n + k
    BY <1>7
  <2>2. CASE j \in 1..n
    <3>1. i \in 1..n
      BY <1>5, <1>6, <1>15, <2>1, <2>2
    <3>. QED
      BY <1>1, <1>6, <1>7, <1>15, <2>2, <3>1 DEF ListIInv, PagesOrdered, InOrder
  <2>3. CASE i \in 1..n /\ j \notin 1..n
    BY <1>7, <1>8, <1>13, <2>1, <2>3
  <2>4. CASE i \notin 1..n /\ j \notin 1..n
    <3>1. /\ i - n \in 1..Len(rows) /\ given'[i] = rows[i - n]
          /\ j - n \in 1..Len(rows) /\ given'[j] = rows[j - n]
      BY <1>7, <1>8, <2>1, <2>4
    <3>2. i - n < j - n
      BY <1>5, <1>6, <1>15, <2>1
    <3>. QED
      BY <1>14, <3>1, <3>2
  <2>. QED
    BY <2>2, <2>3, <2>4
<1>16. PagesOrdered'
  BY <1>1, <1>15, ZenonT(30) DEF PagesOrdered, InOrder
<1>17. \A j \in 1..k : rows[j].id \in GivenIds'
  <2>. SUFFICES ASSUME NEW j \in 1..k PROVE rows[j].id \in GivenIds'
    OBVIOUS
  <2>1. PICK i : i = n + j
    OBVIOUS
  <2>2. i \in n + 1..n + k /\ i \in 1..n + k /\ i - n = j
    BY <1>5, <1>6, <2>1
  <2>3. i \in DOMAIN given' /\ given'[i] = rows[j]
    BY <1>7, <2>2
  <2>. QED
    BY <2>3 DEF GivenIds
<1>18. GivenIds \subseteq GivenIds'
  <2>1. \A i \in 1..n : i \in 1..n + k
    BY <1>5, <1>6
  <2>. QED
    BY <1>6, <1>7, <2>1 DEF GivenIds
<1>19. \A i \in DOMAIN given', e \in DOMAIN events :
          given'[i].id = e \/ (e <= cursor.max /\ events[e].key = given'[i].key) => given'[i] = Place(e)
  <2>. SUFFICES ASSUME NEW i \in DOMAIN given', NEW e \in DOMAIN events,
                       given'[i].id = e \/ (e <= cursor.max /\ events[e].key = given'[i].key)
                PROVE  given'[i] = Place(e)
    OBVIOUS
  <2>1. CASE i \in 1..n
    BY <1>7, <1>12, <2>1
  <2>2. CASE i \notin 1..n
    <3>1. PICK j \in 1..Len(rows) : given'[i] = rows[j]
      BY <1>7, <1>8, <2>2
    <3>2. rows[j].id \in DOMAIN events /\ rows[j].key = events[rows[j].id].key /\ rows[j] = Place(rows[j].id)
      BY <1>2, <1>10
    <3>3. rows[j].id = e
      BY <1>1, <3>1, <3>2 DEF ListIInv, TracePaged
    <3>. QED
      BY <3>1, <3>2, <3>3
  <2>. QED
    BY <2>1, <2>2
<1>20. \A e \in due : e \in DOMAIN events /\ (e \in GivenIds \/ \E j \in 1..Len(rows) : rows[j].id = e)
  <2>1. \A e \in due : e \in DOMAIN events /\ (e \in GivenIds \/ (e <= cursor.max /\ Reached(e, cursor)))
    BY <1>1 DEF ListIInv, ListTypeOK, TracePaged
  <2>. QED
    BY <1>2, <1>3, <2>1
<1>21. \A i \in DOMAIN given' : given'[i].id <= lastId
  <2>. SUFFICES ASSUME NEW i \in DOMAIN given' PROVE given'[i].id <= lastId
    OBVIOUS
  <2>1. CASE i \in 1..n
    BY <1>6, <1>7, <2>1, GivenTypes DEF ListIInv
  <2>2. CASE i \notin 1..n
    BY <1>7, <1>8, <1>10, <2>2
  <2>. QED
    BY <2>1, <2>2
<1>22. CASE more
  <2> DEFINE l == rows[k]
  <2>1. cursor' = [max |-> cursor.max, time |-> l.time, key |-> l.key, id |-> l.id + 1] /\ phase' = "ready"
    BY <1>1, <1>5, <1>22 DEF After
  <2>2. l.time \in 1..MaxTime /\ l.key \in 1..MaxId /\ l.id \in 1..MaxId
    BY <1>5, <1>10, <1>22
  <2>3. /\ cursor' \in TraceCursor /\ cursor'.max = cursor.max /\ cursor'.time = l.time
        /\ cursor'.key = l.key /\ cursor'.id = l.id + 1
    BY <1>11, <2>1, <2>2, ListNumbers DEF TraceCursor
  <2>4. cursor' # None /\ cursor.max <= lastId
    BY <1>1, <2>3, ListNumbers DEF ListIInv, ListTypeOK
  <2>. HIDE DEF l
  <2>5. \A i \in DOMAIN given' : Passed(given[i])'
    <3>. SUFFICES ASSUME NEW i \in DOMAIN given' PROVE Passed(given[i])'
      OBVIOUS
    <3>1. PICK m : m = n + k
      OBVIOUS
    <3>2. m \in n + 1..n + k /\ m \in 1..n + k /\ m - n = k
      BY <1>5, <1>6, <1>22, <3>1
    <3>3. m \in DOMAIN given' /\ given'[m] = l
      BY <1>7, <3>2 DEF l
    <3>4. i = m \/ i < m
      <4>1. i \in 1..n + k /\ n \in Nat /\ k \in Nat
        BY <1>5, <1>6, <1>7
      <4>. QED
        BY <3>1, <4>1
    <3>5. i = m => given'[i].id < l.id + 1
      BY <2>2, <3>3
    <3>6. i < m => InOrder(given'[i], l)
      BY <1>15, <3>3
    <3>. QED
      BY <2>3, <3>3, <3>4, <3>5, <3>6 DEF Passed, InOrder
  <2>6. \A e \in due : e \in GivenIds' \/ (e <= cursor.max /\ Reached(e, cursor)')
    <3>. SUFFICES ASSUME NEW e \in due, e \notin GivenIds' PROVE e <= cursor.max /\ Reached(e, cursor)'
      OBVIOUS
    <3>1. PICK j \in 1..Len(rows) : rows[j].id = e
      BY <1>18, <1>20
    <3>2. j \notin 1..k
      BY <1>17, <3>1
    <3>3. k < j /\ k \in 1..Len(rows)
      BY <1>2, <1>5, <1>22, <3>2
    <3>4. InOrder(l, rows[j])
      BY <1>14, <3>3 DEF l
    <3>5. e <= cursor.max /\ rows[j].time = events[e].time /\ rows[j].key = events[e].key
      BY <1>10, <3>1
    <3>. QED
      BY <1>1, <2>3, <3>4, <3>5 DEF Reached, InOrder
  <2>7. TracePaged'
    BY <1>1, <1>19, <2>1, <2>3, <2>4, <2>5, <2>6 DEF ListIInv, TracePaged, Place
  <2>8. ListTypeOK'
    BY <1>1, <1>7, <1>21, <2>1, <2>3, <2>4 DEF ListIInv, ListTypeOK
  <2>. QED
    BY <1>1, <1>16, <2>1, <2>7, <2>8 DEF ListIInv, SearchPaged, PagesWhole
<1>23. CASE ~more
  <2>1. cursor' = cursor /\ phase' = "done" /\ k = Len(rows)
    BY <1>1, <1>5, <1>23
  <2>2. PagesWhole'
    BY <1>1, <1>17, <1>18, <1>20, <2>1 DEF PagesWhole
  <2>3. TracePaged'
    BY <1>1, <1>19, <2>1 DEF ListIInv, TracePaged, Place
  <2>4. ListTypeOK'
    BY <1>1, <1>7, <1>21, <2>1 DEF ListIInv, ListTypeOK
  <2>. QED
    BY <1>1, <1>16, <2>2, <2>3, <2>4 DEF ListIInv, SearchPaged
<1>. QED
  BY <1>22, <1>23

-----------------------------------------------------------------------------
(* Imports and searches, newest first *)

LEMMA SearchTypes ==
    ASSUME ListIInv, list # "trace"
    PROVE  /\ lastId \in 0..MaxId /\ before \in Int /\ given \in Seq(SearchRow)
           /\ DOMAIN given = 1..Len(given) /\ Len(given) \in Nat
           /\ \A i \in DOMAIN given : given[i].id \in 1..MaxId /\ given[i].id <= lastId
           /\ phase # "ready" => cursor # None
           /\ cursor # None => cursor \in SearchCursor /\ cursor.last \in 0..MaxId + 1 /\ cursor.max \in 0..MaxId
                               /\ cursor.max <= lastId
<1>1. cursor # None => cursor \in SearchCursor
  BY DEF ListIInv, ListTypeOK
<1>2. cursor # None => cursor.last \in 0..MaxId + 1 /\ cursor.max \in 0..MaxId
  BY <1>1 DEF SearchCursor
<1>3. phase # "ready" => cursor # None
  BY DEF ListIInv, SearchPaged
<1>4. before \in Int
  BY ListNumbers DEF ListIInv, ListTypeOK
<1>. QED
  BY <1>1, <1>2, <1>3, <1>4, GivenTypes DEF ListIInv, ListTypeOK

LEMMA PrepareKeeps ==
    ASSUME ListIInv, Prepare
    PROVE  ListIInv'
<1> DEFINE largest == Largest(DOMAIN events)
<1>1. /\ list # "trace" /\ phase = "ready" /\ phase' \in {"position", "read"}
      /\ cursor' = IF cursor = None THEN [last |-> largest + 1, max |-> largest] ELSE cursor
      /\ due' = IF cursor = None THEN {e \in DOMAIN events : Matches(events[e].rows)} ELSE due
      /\ before' = cursor'.last /\ page' = {}
      /\ UNCHANGED <<list, events, lastId, broad, given>>
  BY DEF Prepare
<1>2. largest \in 0..MaxId /\ largest <= lastId /\ \A e \in DOMAIN events : e <= largest
  BY LargestId DEF ListIInv
<1>. HIDE DEF largest
<1>3. \A e \in DOMAIN events : e \in Int
  BY RowIds DEF ListIInv
<1>4. Cardinality({}) = 0 /\ 0 <= Limit
  BY FS_EmptySet, ListNumbers
<1>5. GivenIds' = GivenIds /\ \A e \in DOMAIN events : Matches(events[e].rows)' <=> Matches(events[e].rows)
  BY <1>1 DEF GivenIds, Matches, ReturnedRows
<1>6. CASE cursor = None
  <2>1. cursor' = [last |-> largest + 1, max |-> largest] /\ due' = {e \in DOMAIN events : Matches(events[e].rows)}
    BY <1>1, <1>6
  <2>2. cursor' \in SearchCursor /\ cursor'.last = largest + 1 /\ cursor'.max = largest
    BY <1>2, <2>1, ListNumbers DEF SearchCursor
  <2>3. cursor' # None /\ before' \in 0..MaxId + 1 /\ before' = largest + 1
    BY <1>1, <1>2, <2>2, ListNumbers
  <2>4. given = <<>> /\ \A i \in DOMAIN given : FALSE
    BY <1>1, <1>6, NoPages DEF ListIInv, SearchPaged
  <2>5. \A e \in due' : e \in DOMAIN events /\ Matches(events[e].rows) /\ e < largest + 1 /\ e <= largest
    BY <1>2, <1>3, <2>1
  <2>6. ListTypeOK'
    BY <1>1, <1>2, <1>4, <2>2, <2>3, <2>4, <2>5 DEF ListIInv, ListTypeOK
  <2>7. SearchPaged'
    BY <1>1, <1>2, <1>5, <2>2, <2>3, <2>4, <2>5 DEF SearchPaged
  <2>. QED
    BY <1>1, <2>4, <2>6, <2>7 DEF ListIInv, TracePaged, PagesOrdered, PagesWhole
<1>7. CASE cursor # None
  <2>1. cursor' = cursor /\ due' = due /\ before' = cursor.last
    BY <1>1, <1>7
  <2>2. cursor.last \in 0..MaxId + 1
    BY <1>1, <1>7, SearchTypes
  <2>3. before' <= cursor'.last /\ before' \in 0..MaxId + 1
    BY <2>1, <2>2, ListNumbers
  <2>4. ListTypeOK'
    BY <1>1, <1>4, <2>1, <2>3 DEF ListIInv, ListTypeOK
  <2>5. due \subseteq DOMAIN events
    BY DEF ListIInv, ListTypeOK
  <2>6. SearchPaged'
    BY <1>1, <1>5, <1>7, <2>1, <2>3, <2>5 DEF ListIInv, SearchPaged
  <2>. QED
    BY <1>1, <2>1, <2>4, <2>6 DEF ListIInv, TracePaged, PagesOrdered, PagesWhole
<1>. QED
  BY <1>6, <1>7

LEMMA JudgeKeeps ==
    ASSUME ListIInv, Judge
    PROVE  ListIInv'
<1>1. /\ list = "indexed" /\ phase = "position" /\ phase' = "read" /\ broad' \in BOOLEAN
      /\ UNCHANGED <<list, events, lastId, cursor, before, page, given, due>>
  BY DEF Judge
<1>2. GivenIds' = GivenIds /\ \A e \in due : Matches(events[e].rows)' <=> Matches(events[e].rows)
  BY <1>1 DEF GivenIds, Matches, ReturnedRows
<1>. QED
  BY <1>1, <1>2 DEF ListIInv, ListTypeOK, TracePaged, SearchPaged, PagesOrdered, PagesWhole

\* A page, the newest first.
LEMMA PageRows ==
    ASSUME NEW S, IsFiniteSet(S), S \subseteq 1..MaxId
    PROVE  LET rows == Descending(S)
           IN /\ rows \in Seq(SearchRow) /\ DOMAIN rows = 1..Len(rows) /\ Len(rows) \in Nat
              /\ \A k \in 1..Len(rows) : rows[k].id \in S
              /\ \A e \in S : \E k \in 1..Len(rows) : rows[k].id = e
              /\ \A j, k \in 1..Len(rows) : j < k => rows[j].id > rows[k].id
<1> DEFINE order == Downward(S)
           n == Cardinality(S)
           rows == [i \in DOMAIN order |-> [id |-> order[i]]]
<1>1. S \subseteq Int
  BY ListNumbers
<1>2. /\ n \in Nat /\ order \in [1..n -> S]
      /\ \A x \in S : \E k \in 1..n : order[k] = x
      /\ \A j, k \in 1..n : j < k <=> order[j] > order[k]
  BY <1>1, DownwardSorts
<1>3. rows = Descending(S)
  BY DEF Descending
<1>. HIDE DEF order, n
<1>4. DOMAIN order = 1..n /\ \A k \in 1..n : order[k] \in S /\ [id |-> order[k]] \in SearchRow
  BY <1>2 DEF SearchRow
<1>5. rows \in [1..n -> SearchRow] /\ \A k \in 1..n : rows[k].id = order[k]
  BY <1>4
<1>. HIDE DEF rows
<1>6. rows \in Seq(SearchRow) /\ Len(rows) = n
  <2>1. rows \in Seq(SearchRow) /\ DOMAIN rows = 1..n
    BY <1>2, <1>5, SeqDef
  <2>2. Len(rows) \in Nat /\ DOMAIN rows = 1..Len(rows)
    BY <2>1, LenProperties
  <2>. QED
    BY <1>2, <2>1, <2>2
<1>7. DOMAIN rows = 1..n
  BY <1>5
<1>8. \A e \in S : \E k \in 1..n : rows[k].id = e
  BY <1>2, <1>5
<1>9. \A k \in 1..n : rows[k].id \in S
  BY <1>4, <1>5
<1>10. \A j, k \in 1..n : j < k => rows[j].id > rows[k].id
  BY <1>2, <1>5
<1>. QED
  BY <1>2, <1>3, <1>6, <1>7, <1>8, <1>9, <1>10

\* A page of what was found above end, with all of it that is due.
LEMMA ReplyKeeps ==
    ASSUME ListIInv, list # "trace", phase = "read", UNCHANGED <<list, events, lastId, broad, due>>,
           NEW found, NEW end, NEW more \in BOOLEAN, Reply(found, end, more),
           IsFiniteSet(found), found \subseteq 1..lastId, \A e \in found : e < cursor.last,
           more => /\ end \in 0..MaxId + 1 /\ end <= cursor.last
                   /\ \A e \in found : end <= e
                   /\ \A e \in due : e \in GivenIds \cup found \/ e < end,
           ~more => due \subseteq GivenIds \cup found
    PROVE  ListIInv'
<1> DEFINE rows == Descending(found)
           n == Len(given)
           k == Len(rows)
<1>1. /\ given' = given \o rows /\ cursor' = (IF more THEN [cursor EXCEPT !.last = end] ELSE cursor)
      /\ phase' = (IF more THEN "ready" ELSE "done") /\ page' = {} /\ before' = before
  BY DEF Reply
<1>2. /\ lastId \in 0..MaxId /\ given \in Seq(SearchRow) /\ DOMAIN given = 1..n /\ n \in Nat
      /\ \A i \in DOMAIN given : given[i].id \in 1..MaxId /\ given[i].id <= lastId
      /\ cursor # None /\ cursor \in SearchCursor /\ cursor.last \in 0..MaxId + 1 /\ cursor.max <= lastId
  BY SearchTypes
<1>3. found \subseteq 1..MaxId /\ \A e \in found : e <= lastId
  <2>1. lastId \in Int /\ lastId <= MaxId /\ MaxId \in Int
    BY <1>2, ListNumbers
  <2>2. \A e \in found : e \in 1..lastId
    OBVIOUS
  <2>. QED
    BY <2>1, <2>2
<1>4. /\ rows \in Seq(SearchRow) /\ DOMAIN rows = 1..k /\ k \in Nat
      /\ \A j \in 1..k : rows[j].id \in found
      /\ \A e \in found : \E j \in 1..k : rows[j].id = e
      /\ \A i, j \in 1..k : i < j => rows[i].id > rows[j].id
  BY <1>3, PageRows
<1>. HIDE DEF rows, n, k
<1>5. /\ given' \in Seq(SearchRow) /\ DOMAIN given' = 1..n + k
      /\ \A i \in 1..n : given'[i] = given[i]
      /\ \A i \in n + 1..n + k : given'[i] = rows[i - n]
  <2>1. given' \in Seq(SearchRow) /\ Len(given') = n + k
        /\ \A i \in 1..n + k : given'[i] = IF i <= n THEN given[i] ELSE rows[i - n]
    BY <1>1, <1>2, <1>4, ConcatProperties DEF n, k
  <2>2. DOMAIN given' = 1..n + k
    BY <2>1, LenProperties
  <2>3. \A i \in n + 1..n + k : i \in 1..n + k /\ ~(i <= n)
    BY <1>2, <1>4
  <2>4. \A i \in 1..n : i \in 1..n + k /\ i <= n
    BY <1>2, <1>4
  <2>. QED
    BY <2>1, <2>2, <2>3, <2>4
<1>6. \A i \in 1..n + k : i \in 1..n \/ (i \in n + 1..n + k /\ i - n \in 1..k)
  BY <1>2, <1>4
<1>7. \A i \in 1..n : given'[i].id \in 1..MaxId /\ given'[i].id <= lastId /\ given'[i].id >= cursor.last
  BY <1>2, <1>5 DEF ListIInv, SearchPaged
<1>8. \A i \in 1..n + k : i \notin 1..n => i - n \in 1..k /\ given'[i].id = rows[i - n].id /\ given'[i].id \in found
  BY <1>4, <1>5, <1>6
<1>9. \A i \in DOMAIN given' : given'[i].id <= lastId
  BY <1>3, <1>5, <1>7, <1>8
<1>10. ASSUME NEW i \in DOMAIN given', NEW j \in DOMAIN given', i < j
       PROVE  given'[i].id > given'[j].id /\ given'[i].id # given'[j].id
  <2>1. i \in 1..n + k /\ j \in 1..n + k
    BY <1>5
  <2>2. \A e \in found : e \in Int /\ e < cursor.last
    BY <1>3, ListNumbers
  <2>3. given'[i].id > given'[j].id
    <3>1. CASE j \in 1..n
      <4>1. i \in 1..n
        BY <1>2, <1>4, <1>10, <2>1, <3>1
      <4>2. given[i].id > given[j].id
        BY <1>2, <1>10, <3>1, <4>1 DEF ListIInv, PagesOrdered
      <4>. QED
        BY <1>5, <3>1, <4>1, <4>2
    <3>2. CASE i \in 1..n /\ j \notin 1..n
      <4>1. given'[i].id >= cursor.last /\ given'[i].id \in Int
        BY <1>7, <3>2, ListNumbers
      <4>2. given'[j].id \in Int /\ given'[j].id < cursor.last
        BY <1>8, <2>1, <2>2, <3>2
      <4>3. cursor.last \in Int
        BY <1>2
      <4>. QED
        BY <4>1, <4>2, <4>3
    <3>3. CASE i \notin 1..n /\ j \notin 1..n
      <4>1. i - n < j - n
        BY <1>2, <1>4, <1>10, <2>1
      <4>. QED
        BY <1>4, <1>8, <2>1, <3>3, <4>1
    <3>. QED
      BY <3>1, <3>2, <3>3
  <2>4. \A m \in 1..n + k : given'[m].id \in Int
    <3>. SUFFICES ASSUME NEW m \in 1..n + k PROVE given'[m].id \in Int
      OBVIOUS
    <3>1. CASE m \in 1..n
      BY <1>7, <3>1, ListNumbers
    <3>2. CASE m \notin 1..n
      BY <1>8, <2>2, <3>2
    <3>. QED
      BY <3>1, <3>2
  <2>. QED
    BY <2>1, <2>3, <2>4
<1>11. PagesOrdered'
  BY <1>10 DEF PagesOrdered
<1>12. GivenIds \cup found \subseteq GivenIds'
  <2>1. GivenIds \subseteq GivenIds'
    <3>1. \A i \in 1..n : i \in 1..n + k
      BY <1>2, <1>4
    <3>. QED
      BY <1>2, <1>5, <3>1 DEF GivenIds
  <2>2. ASSUME NEW e \in found PROVE e \in GivenIds'
    <3>1. PICK j \in 1..k : rows[j].id = e
      BY <1>4
    <3>2. PICK i : i = n + j
      OBVIOUS
    <3>3. i \in n + 1..n + k /\ i \in 1..n + k /\ i - n = j
      BY <1>2, <1>4, <3>2
    <3>4. i \in DOMAIN given' /\ given'[i].id = e
      BY <1>5, <3>1, <3>3
    <3>. QED
      BY <3>4 DEF GivenIds
  <2>. QED
    BY <2>1, <2>2
<1>13. Cardinality({}) = 0 /\ 0 <= Limit
  BY FS_EmptySet, ListNumbers
<1>14. /\ cursor' \in SearchCursor /\ cursor'.max = cursor.max
       /\ more => cursor'.last = end
  <2>1. cursor \in [last : 0..MaxId + 1, max : 0..MaxId]
    BY <1>2 DEF SearchCursor
  <2>2. CASE more
    <3>1. cursor' = [cursor EXCEPT !.last = end] /\ end \in 0..MaxId + 1
      BY <1>1, <2>2
    <3>2. cursor' \in [last : 0..MaxId + 1, max : 0..MaxId] /\ cursor'.max = cursor.max /\ cursor'.last = end
      BY <2>1, <3>1
    <3>. QED
      BY <3>2 DEF SearchCursor
  <2>3. CASE ~more
    BY <1>1, <1>2, <2>3
  <2>. QED
    BY <2>2, <2>3
<1>15. cursor' # None
  BY <1>14, ListNumbers
<1>16. ListTypeOK'
  BY <1>1, <1>2, <1>5, <1>9, <1>13, <1>14, <1>15 DEF ListIInv, ListTypeOK
<1>17. \A e \in due : Matches(events[e].rows)'
  BY DEF ListIInv, SearchPaged, Matches, ReturnedRows
<1>18. \A e \in due : e <= cursor'.max
  BY <1>2, <1>14 DEF ListIInv, SearchPaged
<1>19. CASE more
  <2>1. \A i \in DOMAIN given' : given'[i].id >= end
    <3>1. \A i \in 1..n : given'[i].id >= end
      <4>1. end \in Int /\ end <= cursor.last /\ cursor.last \in Int
        BY <1>2, <1>19
      <4>2. \A i \in 1..n : given'[i].id \in Int /\ given'[i].id >= cursor.last
        BY <1>7
      <4>. QED
        BY <4>1, <4>2
    <3>2. \A e \in found : e >= end
      BY <1>3, <1>19
    <3>. QED
      BY <1>5, <1>8, <3>1, <3>2
  <2>2. \A e \in due : e \in GivenIds' \/ e < end
    BY <1>12, <1>19
  <2>3. phase' = "ready" /\ cursor'.last = end
    BY <1>1, <1>14, <1>19
  <2>4. SearchPaged'
    BY <1>15, <1>17, <1>18, <2>1, <2>2, <2>3 DEF SearchPaged
  <2>. QED
    BY <1>11, <1>16, <2>3, <2>4 DEF ListIInv, TracePaged, PagesWhole
<1>20. CASE ~more
  <2>1. phase' = "done"
    BY <1>1, <1>20
  <2>2. PagesWhole'
    BY <1>12, <1>20, <2>1 DEF PagesWhole
  <2>3. SearchPaged'
    BY <1>15, <1>17, <1>18, <2>1 DEF SearchPaged
  <2>. QED
    BY <1>11, <1>16, <2>2, <2>3 DEF ListIInv, TracePaged
<1>. QED
  BY <1>19, <1>20

\* A statement returns all that is below the position, or a full batch of the largest ids.
LEMMA BatchRows ==
    ASSUME ListIInv, list # "trace"
    PROVE  /\ IsFiniteSet(Batch) /\ Cardinality(Batch) \in Nat /\ Batch \subseteq 1..lastId /\ Batch \subseteq DOMAIN events
           /\ \A e \in Batch : e < before
           /\ list = "imports" \/ Cardinality(Batch) < BatchSize => Batch = Readable
           /\ Cardinality(Batch) >= BatchSize => Batch # {}
           /\ \A e \in Readable \ Batch : \A f \in Batch : e < f
<1>1. Readable \in SUBSET (DOMAIN events) /\ \A e \in Readable : e < before
  BY DEF Readable
<1>2. IsFiniteSet(Readable) /\ Readable \subseteq Int /\ Readable \subseteq 1..lastId
  BY <1>1, RowIds DEF ListIInv
<1>3. BatchSize \in Nat /\ BatchSize >= 2
  BY ListNumbers
<1> DEFINE top == Newest(Readable, BatchSize)
<1>4. top \subseteq Readable
  BY DEF Newest
<1>5. /\ IsFiniteSet(top)
      /\ Cardinality(top) < BatchSize => top = Readable
      /\ \A e \in Readable \ top : \A f \in top : e < f
  <2>1. top = {x \in Readable : Cardinality({y \in Readable : y > x}) < BatchSize}
    BY DEF Newest
  <2>. HIDE DEF top
  <2>. QED
    BY <1>2, <1>3, <2>1, LargestOnes
<1>6. Batch = Readable \/ (list # "imports" /\ Batch = top)
  BY DEF Batch
<1>. HIDE DEF top
<1>7. IsFiniteSet(Batch) /\ Batch \subseteq Readable /\ Cardinality(Batch) \in Nat
  BY <1>2, <1>4, <1>5, <1>6, FS_CardinalityType
<1>8. Cardinality(Batch) >= BatchSize => Batch # {}
  <2>1. Cardinality({}) = 0
    BY FS_EmptySet
  <2>. QED
    BY <1>3, <2>1
<1>9. Batch = Readable \/ (list # "imports" /\ (Cardinality(Batch) < BatchSize => Batch = Readable))
  BY <1>5, <1>6
<1>. QED
  BY <1>1, <1>2, <1>5, <1>6, <1>7, <1>8, <1>9

\* What a batch adds leaves nothing out above its end, whichever way the search goes on.
LEMMA ReadBatchKeeps ==
    ASSUME ListIInv, NEW late \in BOOLEAN, ReadBatch(late)
    PROVE  ListIInv'
<1> DEFINE batch == Batch
           found == page \cup {e \in batch : Matches(events[e].rows)}
           low == Min(batch)
<1>1. /\ list # "trace" /\ phase = "read" /\ Searched(found, batch, late)
      /\ UNCHANGED <<list, events, lastId, broad, due>>
  BY DEF ReadBatch
<1>2. /\ lastId \in 0..MaxId /\ before \in Int /\ cursor # None /\ cursor.last \in 0..MaxId + 1 /\ cursor.max \in 0..MaxId
  BY <1>1, SearchTypes
<1>3. /\ IsFiniteSet(batch) /\ Cardinality(batch) \in Nat /\ batch \subseteq 1..lastId /\ batch \subseteq DOMAIN events
      /\ \A e \in batch : e < before
      /\ list = "imports" \/ Cardinality(batch) < BatchSize => batch = Readable
      /\ Cardinality(batch) >= BatchSize => batch # {}
      /\ \A e \in Readable \ batch : \A f \in batch : e < f
  BY <1>1, BatchRows
<1>4. /\ before <= cursor.last
      /\ \A e \in page : before <= e /\ e < cursor.last
      /\ \A e \in due : e \in GivenIds \cup page \/ e < before
      /\ \A e \in due : e <= cursor.max /\ e \in DOMAIN events /\ Matches(events[e].rows)
  BY <1>1, <1>2 DEF ListIInv, ListTypeOK, SearchPaged
<1>5. page \subseteq 1..lastId
  BY DEF ListIInv, ListTypeOK
<1>6. \A e \in found : e \in page \/ e \in batch
  OBVIOUS
<1>7. \A e \in batch : Matches(events[e].rows) => e \in found
  OBVIOUS
<1>8. \A e \in DOMAIN events : e <= cursor.max /\ e < before /\ Matches(events[e].rows) => e \in Readable
  BY DEF Readable, Matches
<1>9. page \subseteq found
  OBVIOUS
<1>10. IsFiniteSet(found) /\ found \subseteq 1..lastId
  <2>1. found \subseteq 1..lastId
    BY <1>3, <1>5
  <2>2. IsFiniteSet(1..lastId)
    <3>1. 1 \in Int /\ lastId \in Int
      BY <1>2
    <3>. QED
      BY <3>1, FS_Interval
  <2>. QED
    BY <2>1, <2>2, FS_Subset
<1>. HIDE DEF found, batch
<1>11. Cardinality(found) \in Nat /\ found \subseteq Int /\ batch \subseteq Int /\ found \subseteq 1..MaxId
  BY <1>2, <1>3, <1>10, FS_CardinalityType, ListNumbers
<1>12. \A e \in found : e < cursor.last
  <2>1. \A e \in batch : e < cursor.last
    <3>1. before \in Int /\ cursor.last \in Int /\ before <= cursor.last
      BY <1>2, <1>4
    <3>2. \A e \in batch : e \in Int /\ e < before
      BY <1>3, <1>11
    <3>. QED
      BY <3>1, <3>2
  <2>. QED
    BY <1>4, <1>6, <2>1
<1>13. \A e \in due : e \in GivenIds \cup found \/ (e < before /\ e \in Readable \ batch)
  BY <1>4, <1>7, <1>8, <1>9
<1>14. batch # {} => low \in batch /\ low \in Int /\ \A e \in batch : low <= e
  <2>1. batch # {} => Min(batch) \in batch /\ \A e \in batch : Min(batch) <= e
    BY <1>3, <1>11, MinOf
  <2>. QED
    BY <1>11, <2>1
<1>. HIDE DEF low
<1>15. ASSUME Cardinality(found) > Limit PROVE ListIInv'
  <2> DEFINE kept == Newest(found, Limit)
             end == Min(kept)
  <2>1. Reply(kept, end, TRUE)
    BY <1>1, <1>15 DEF Searched
  <2>2. kept \subseteq found
    BY DEF Newest
  <2>3. Limit \in Nat /\ Limit >= 1
    BY ListNumbers
  <2>4. /\ IsFiniteSet(kept) /\ Cardinality(kept) <= Limit
        /\ Cardinality(kept) < Limit => kept = found
        /\ \A e \in found \ kept : \A f \in kept : e < f
    <3>1. kept = {x \in found : Cardinality({y \in found : y > x}) < Limit}
      BY DEF Newest
    <3>. HIDE DEF kept
    <3>. QED
      BY <1>10, <1>11, <2>3, <3>1, LargestOnes
  <2>5. kept # {}
    <3>1. Cardinality({}) = 0
      BY FS_EmptySet
    <3>2. found # {}
      BY <1>15, <2>3, <3>1
    <3>. HIDE DEF kept
    <3>. QED
      BY <2>3, <2>4, <3>1, <3>2
  <2>. HIDE DEF kept
  <2>6. end \in kept /\ \A e \in kept : end <= e
    <3>1. kept \subseteq Int
      BY <1>11, <2>2
    <3>. QED
      BY <2>4, <2>5, <3>1, MinOf
  <2>. HIDE DEF end
  <2>7. end \in 1..MaxId /\ end < cursor.last /\ end \in Int
    BY <1>11, <1>12, <2>2, <2>6
  <2>8. end \in 0..MaxId + 1 /\ end <= cursor.last
    BY <1>2, <2>7, ListNumbers
  <2>9. \A e \in due : e \in GivenIds \cup kept \/ e < end
    <3>. SUFFICES ASSUME NEW e \in due, e \notin GivenIds \cup kept PROVE e < end
      OBVIOUS
    <3>1. CASE e \in found
      BY <2>4, <2>6, <3>1
    <3>2. CASE e \notin found
      <4>1. e < before /\ e \in Readable \ batch /\ e \in Int
        <5>1. e \in DOMAIN events
          BY <1>4
        <5>2. \A x \in DOMAIN events : x \in Int
          BY RowIds DEF ListIInv
        <5>. QED
          BY <1>13, <3>2, <5>1, <5>2
      <4>2. end \in page \/ end \in batch
        BY <1>6, <2>2, <2>6
      <4>3. end \in page => before <= end
        BY <1>4
      <4>. QED
        BY <1>2, <1>3, <2>7, <4>1, <4>2, <4>3
    <3>. QED
      BY <3>1, <3>2
  <2>10. kept \subseteq 1..lastId /\ \A e \in kept : e < cursor.last
    BY <1>10, <1>12, <2>2
  <2>. QED
    BY <1>1, <2>1, <2>4, <2>6, <2>8, <2>9, <2>10, ReplyKeeps
<1>16. ASSUME ~(Cardinality(found) > Limit), list = "imports" \/ Cardinality(batch) < BatchSize PROVE ListIInv'
  <2>1. Reply(found, 0, FALSE)
    BY <1>1, <1>16 DEF Searched
  <2>2. due \subseteq GivenIds \cup found
    BY <1>3, <1>13, <1>16
  <2>. QED
    BY <1>1, <1>10, <1>12, <2>1, <2>2, ReplyKeeps
<1>17. ASSUME ~(Cardinality(found) > Limit), ~(list = "imports" \/ Cardinality(batch) < BatchSize) PROVE ListIInv'
  <2>1. batch # {}
    <3>1. BatchSize \in Nat /\ ~(Cardinality(batch) < BatchSize)
      BY <1>17, ListNumbers
    <3>. QED
      BY <1>3, <3>1
  <2>2. low \in batch /\ low \in Int /\ \A e \in batch : low <= e
    BY <1>14, <2>1
  <2>3. low < before /\ low < cursor.last /\ low \in 0..MaxId + 1
    <3>1. low < before /\ low \in 1..lastId
      BY <1>3, <2>2
    <3>. QED
      BY <1>2, <1>4, <2>2, <3>1, ListNumbers
  <2>4. \A e \in found : low <= e
    <3>1. \A e \in page : low <= e
      BY <1>2, <1>4, <1>9, <1>11, <2>2, <2>3
    <3>. QED
      BY <1>6, <2>2, <3>1
  <2>5. \A e \in due : e \in GivenIds \cup found \/ e < low
    BY <1>3, <1>13, <2>2
  <2>6. low <= cursor.last
    BY <1>2, <2>2, <2>3
  <2>7. CASE late
    <3>1. Reply(found, low, TRUE)
      BY <1>1, <1>17, <2>7 DEF Searched, low
    <3>. QED
      BY <1>1, <1>10, <1>12, <2>3, <2>4, <2>5, <2>6, <3>1, ReplyKeeps
  <2>8. CASE ~late
    <3>1. page' = found /\ before' = low /\ UNCHANGED <<phase, cursor, given>>
      BY <1>1, <1>17, <2>8 DEF Searched, ReadOn, low
    <3>2. Cardinality(found) <= Limit
      BY <1>11, <1>17, ListNumbers
    <3>3. ListTypeOK'
      BY <1>1, <1>10, <2>3, <3>1, <3>2 DEF ListIInv, ListTypeOK
    <3>4. GivenIds' = GivenIds /\ \A e \in due : Matches(events[e].rows)'
      BY <1>1, <3>1 DEF GivenIds, ListIInv, SearchPaged, Matches, ReturnedRows
    <3>5. SearchPaged'
      BY <1>1, <1>12, <2>4, <2>5, <2>6, <3>1, <3>4 DEF ListIInv, SearchPaged
    <3>. QED
      BY <1>1, <3>1, <3>3, <3>5 DEF ListIInv, TracePaged, PagesOrdered, PagesWhole
  <2>. QED
    BY <2>7, <2>8
<1>. QED
  BY <1>15, <1>16, <1>17

-----------------------------------------------------------------------------
LEMMA ListInvariant == ListSpec => []ListIInv
<1>1. ListInit => ListIInv
  BY ListInitInvariant
<1>2. ListIInv /\ [ListNext]_listVars => ListIInv'
  <2> SUFFICES ASSUME ListIInv, [ListNext]_listVars PROVE ListIInv'
    OBVIOUS
  <2>1. ASSUME NEW time \in 1..MaxTime, NEW key \in 1..MaxId, NEW rows \in Content, Insert(time, key, rows) PROVE ListIInv'
    BY <2>1, InsertKeeps
  <2>2. ASSUME NEW e \in DOMAIN events, NEW rows \in Content, NEW time \in 1..MaxTime, Observe(e, rows, time) PROVE ListIInv'
    BY <2>2, ObserveKeeps
  <2>3. ASSUME NEW e \in DOMAIN events, Delete(e) PROVE ListIInv'
    BY <2>3, DeleteKeeps
  <2>4. ASSUME NEW e, Open(e) PROVE ListIInv'
    BY <2>4, OpenKeeps
  <2>5. CASE Read
    BY <2>4, <2>5, BoundKeeps, ContinueKeeps, ReadTraceKeeps, PrepareKeeps, JudgeKeeps, ReadBatchKeeps DEF Read
  <2>6. CASE UNCHANGED listVars
    BY <2>6 DEF listVars, ListIInv, ListTypeOK, TracePaged, SearchPaged, PagesOrdered, PagesWhole,
                GivenIds, Passed, Reached, Place, Matches, ReturnedRows
  <2>. QED
    BY <2>1, <2>2, <2>3, <2>4, <2>5, <2>6 DEF ListNext
<1>. QED
  BY <1>1, <1>2, PTL DEF ListSpec

\* Pages are in the order of the list and repeat nothing, whatever its tables go through.
THEOREM PagesAreOrdered == ListSpec => []PagesOrdered
BY ListInvariant, PTL DEF ListIInv

\* A list that has ended has left out no row that was there all the time.
THEOREM PagesAreWhole == ListSpec => []PagesWhole
BY ListInvariant, PTL DEF ListIInv

-----------------------------------------------------------------------------
(* LogBuffer *)

LEMMA LogNumbers ==
    /\ LogCapacity \in Nat \ {0} /\ MaxSeq \in Nat \ {0}
    /\ MaxProcess \in Nat \ {0} /\ PageLimit \in Nat \ {0}
BY LogConstants

\* The buffer is in the order of its numbers and of this process.
Buffered ==
    /\ \A i \in DOMAIN records : records[i].process = instance /\ records[i].seq <= last
    /\ \A i, j \in DOMAIN records : i < j => records[i].seq < records[j].seq

\* The reader's next page is below what it was given, and has what it was not.
Paged ==
    /\ reading \in {"no", "first"} => position = None /\ shown = <<>>
    /\ reading = "next" =>
          /\ position # None
          /\ \A i \in DOMAIN shown : shown[i].process = position.instance /\ shown[i].seq >= position.before
          /\ \A r \in wanted : r.seq < position.before \/ r \in ToSet(shown)
    /\ \A r \in wanted : r.match

LogIInv == LogTypeOK /\ Buffered /\ Paged /\ LogPagesWhole

LEMMA LogInitInvariant == LogInit => LogIInv
<1> SUFFICES ASSUME LogInit PROVE LogIInv
  OBVIOUS
<1>1. <<>> \in Seq(Record) /\ Len(<<>>) = 0 /\ DOMAIN <<>> = {}
  BY EmptySeq
<1>. QED
  BY <1>1, LogNumbers DEF LogInit, LogIInv, LogTypeOK, Buffered, Paged, LogPagesWhole, ToSet

\* A record comes to the newest end, and the oldest may leave.
LEMMA AddKeeps ==
    ASSUME LogTypeOK, Buffered, NEW match \in BOOLEAN, Add(match)
    PROVE  /\ last' \in 0..MaxSeq /\ records' \in Seq(Record) /\ Len(records') <= LogCapacity
           /\ \A i \in DOMAIN records' : records'[i].process = instance /\ records'[i].seq <= last'
           /\ \A i, j \in DOMAIN records' : i < j => records'[i].seq < records'[j].seq
           /\ wanted' \subseteq wanted /\ wanted' \subseteq ToSet(records')
<1> DEFINE new == [seq |-> last + 1, process |-> instance, match |-> match]
           room == IF Len(records) = LogCapacity THEN Tail(records) ELSE records
<1>1. new \in Record /\ new.seq = last + 1 /\ new.process = instance /\ last + 1 \in 1..MaxSeq /\ last' = last + 1
  BY LogNumbers DEF Add, LogTypeOK, Record
<1>2. records' = Append(room, new)
  BY DEF Add, Kept
<1>3. /\ room \in Seq(Record) /\ Len(room) \in Nat /\ Len(room) < LogCapacity
      /\ \A i \in 1..Len(room) : room[i].process = instance /\ room[i].seq <= last
      /\ \A i, j \in 1..Len(room) : i < j => room[i].seq < room[j].seq
  <2>1. records \in Seq(Record) /\ Len(records) \in Nat /\ DOMAIN records = 1..Len(records) /\ Len(records) <= LogCapacity
    BY LenProperties DEF LogTypeOK
  <2>2. CASE Len(records) = LogCapacity
    <3>1. records # <<>>
      BY <2>1, <2>2, LogNumbers, EmptySeq
    <3>2. /\ room \in Seq(Record) /\ Len(room) = Len(records) - 1
          /\ \A i \in 1..Len(room) : room[i] = records[i + 1]
      BY <2>1, <2>2, <3>1, HeadTailProperties
    <3>. HIDE DEF room
    <3>3. \A i \in 1..Len(room) : i + 1 \in 1..Len(records)
      BY <2>1, <3>2
    <3>4. \A i \in 1..Len(room) : room[i].process = instance /\ room[i].seq <= last
      BY <2>1, <3>2, <3>3 DEF Buffered
    <3>5. \A i, j \in 1..Len(room) : i < j => room[i].seq < room[j].seq
      <4>. SUFFICES ASSUME NEW i \in 1..Len(room), NEW j \in 1..Len(room), i < j PROVE room[i].seq < room[j].seq
        OBVIOUS
      <4>1. i + 1 \in DOMAIN records /\ j + 1 \in DOMAIN records /\ i + 1 < j + 1
        BY <2>1, <3>3
      <4>. QED
        BY <3>2, <4>1 DEF Buffered
    <3>6. Len(room) \in Nat /\ Len(room) < LogCapacity
      BY <2>1, <2>2, <3>2, LogNumbers
    <3>. QED
      BY <3>2, <3>4, <3>5, <3>6
  <2>3. CASE Len(records) # LogCapacity
    <3>1. room = records
      BY <2>3
    <3>. HIDE DEF room
    <3>2. Len(records) < LogCapacity
      <4>1. Len(records) \in Nat /\ LogCapacity \in Nat /\ Len(records) <= LogCapacity
        BY <2>1, LogNumbers
      <4>. QED
        BY <2>3, <4>1
    <3>. QED
      BY <2>1, <3>1, <3>2 DEF Buffered
  <2>. QED
    BY <2>2, <2>3
<1>. HIDE DEF room, new
<1>4. /\ records' \in Seq(Record) /\ Len(records') = Len(room) + 1 /\ DOMAIN records' = 1..Len(room) + 1
      /\ \A i \in 1..Len(room) : records'[i] = room[i]
      /\ records'[Len(room) + 1] = new
  BY <1>1, <1>2, <1>3, AppendProperties
<1>5. \A i \in DOMAIN records' : i \in 1..Len(room) \/ i = Len(room) + 1
  BY <1>3, <1>4
<1>6. last' \in 0..MaxSeq /\ Len(records') <= LogCapacity
  BY <1>1, <1>3, <1>4, LogNumbers
<1>7. \A i \in DOMAIN records' : records'[i].process = instance /\ records'[i].seq <= last'
  <2>1. \A i \in 1..Len(room) : room[i] \in Record
    BY <1>3, ElementOfSeq
  <2>2. \A i \in 1..Len(room) : room[i].seq <= last + 1
    BY <1>3, <2>1, LogNumbers DEF Record, LogTypeOK
  <2>3. records'[Len(room) + 1].seq <= last'
    BY <1>1, <1>4
  <2>. QED
    BY <1>1, <1>3, <1>4, <1>5, <2>2, <2>3
<1>8. \A i, j \in DOMAIN records' : i < j => records'[i].seq < records'[j].seq
  <2>. SUFFICES ASSUME NEW i \in DOMAIN records', NEW j \in DOMAIN records', i < j
                PROVE  records'[i].seq < records'[j].seq
    OBVIOUS
  <2>1. i \in 1..Len(room)
    BY <1>3, <1>4, <1>5
  <2>2. room[i] \in Record
    BY <1>3, <2>1, ElementOfSeq
  <2>3. room[i].seq < last + 1
    BY <1>3, <2>1, <2>2, LogNumbers DEF Record, LogTypeOK
  <2>4. CASE j \in 1..Len(room)
    BY <1>3, <1>4, <2>1, <2>4
  <2>5. CASE j = Len(room) + 1
    BY <1>1, <1>4, <2>1, <2>3, <2>5
  <2>. QED
    BY <1>5, <2>4, <2>5
<1>9. wanted' \subseteq wanted /\ wanted' \subseteq ToSet(records')
  BY DEF Add
<1>. QED
  BY <1>4, <1>6, <1>7, <1>8, <1>9

\* Records come, or the process starts anew: what the reader was given stays as it is.
LEMMA LogMoves ==
    ASSUME LogIInv, UNCHANGED <<position, reading, shown>>, LogTypeOK', Buffered', wanted' \subseteq wanted
    PROVE  LogIInv'
BY DEF LogIInv, Paged, LogPagesWhole, ToSet

LEMMA LogKeeps ==
    ASSUME LogIInv, NEW match \in BOOLEAN, Log(match)
    PROVE  LogIInv'
<1>1. LogTypeOK' /\ Buffered' /\ wanted' \subseteq wanted
  BY AddKeeps DEF LogIInv, LogTypeOK, Buffered, Log
<1>. QED
  BY <1>1, LogMoves DEF Log

LEMMA RestartLeavesLog ==
    ASSUME LogIInv, LogRestart
    PROVE  LogIInv'
<1>1. <<>> \in Seq(Record) /\ Len(<<>>) = 0 /\ DOMAIN <<>> = {}
  BY EmptySeq
<1>2. instance' \in 1..MaxProcess
  BY LogNumbers DEF LogIInv, LogTypeOK, LogRestart
<1>3. LogTypeOK' /\ Buffered' /\ wanted' \subseteq wanted
  BY <1>1, <1>2, LogNumbers DEF LogIInv, LogTypeOK, Buffered, LogRestart
<1>. QED
  BY <1>3, LogMoves DEF LogRestart

LEMMA BeginKeeps ==
    ASSUME LogIInv, BeginPages
    PROVE  LogIInv'
BY DEF LogIInv, LogTypeOK, Buffered, Paged, LogPagesWhole, BeginPages

LEMMA RefuseCursorKeeps ==
    ASSUME LogIInv, NEW match \in BOOLEAN, RefuseCursor(match)
    PROVE  LogIInv'
<1>1. /\ last' \in 0..MaxSeq /\ records' \in Seq(Record) /\ Len(records') <= LogCapacity
      /\ \A i \in DOMAIN records' : records'[i].process = instance /\ records'[i].seq <= last'
      /\ \A i, j \in DOMAIN records' : i < j => records'[i].seq < records'[j].seq
      /\ wanted' \subseteq wanted /\ wanted' \subseteq ToSet(records')
  BY AddKeeps DEF LogIInv, RefuseCursor
<1>. QED
  BY <1>1 DEF LogIInv, LogTypeOK, Buffered, Paged, LogPagesWhole, RefuseCursor

\* The places of a page, newest first, are those of the records it may show.
LEMMA Matching ==
    ASSUME LogIInv
    PROVE  LET open == {i \in DOMAIN records : records[i].match /\ Below(records[i])}
               places == Downward(open)
               matching == [k \in DOMAIN places |-> records[places[k]]]
           IN /\ matching \in Seq(Record)
              /\ \A k \in 1..Len(matching) : matching[k].process = instance /\ Below(matching[k])
              /\ \A j, k \in 1..Len(matching) : j < k => matching[j].seq > matching[k].seq
              /\ \A i \in open : \E k \in 1..Len(matching) : matching[k] = records[i]
<1> DEFINE open == {i \in DOMAIN records : records[i].match /\ Below(records[i])}
           places == Downward(open)
           n == Cardinality(open)
           matching == [k \in DOMAIN places |-> records[places[k]]]
<1>1. records \in Seq(Record) /\ Len(records) \in Nat /\ DOMAIN records = 1..Len(records)
  BY LenProperties DEF LogIInv, LogTypeOK
<1>2. IsFiniteSet(open) /\ open \subseteq Int
  <2>1. open \subseteq 1..Len(records)
    BY <1>1
  <2>. HIDE DEF open
  <2>2. IsFiniteSet(1..Len(records))
    <3>1. 1 \in Int /\ Len(records) \in Int
      BY <1>1
    <3>. QED
      BY <3>1, FS_Interval
  <2>3. open \subseteq Int
    BY <2>1
  <2>4. IsFiniteSet(open)
    BY <2>1, <2>2, FS_Subset
  <2>. QED
    BY <2>3, <2>4
<1>3. open \subseteq DOMAIN records /\ \A i \in open : Below(records[i])
  OBVIOUS
<1>4. /\ n \in Nat /\ places \in [1..n -> open]
      /\ \A x \in open : \E k \in 1..n : places[k] = x
      /\ \A j, k \in 1..n : j < k <=> places[j] > places[k]
  <2>. HIDE DEF open
  <2>. QED
    BY <1>2, DownwardSorts
<1>. HIDE DEF open, places, n
<1>5. matching \in [1..n -> Record]
  BY <1>1, <1>3, <1>4, ElementOfSeq
<1>6. matching \in Seq(Record) /\ Len(matching) = n /\ \A k \in 1..n : matching[k] = records[places[k]]
  <2>1. DOMAIN matching = 1..n /\ \A k \in 1..n : matching[k] = records[places[k]]
    BY <1>4
  <2>. HIDE DEF matching
  <2>2. matching \in Seq(Record)
    BY <1>4, <1>5, SeqDef
  <2>3. Len(matching) \in Nat /\ DOMAIN matching = 1..Len(matching)
    BY <2>2, LenProperties
  <2>. QED
    BY <1>4, <2>1, <2>2, <2>3
<1>. HIDE DEF matching
<1>7. \A k \in 1..n : matching[k].process = instance /\ Below(matching[k])
  BY <1>3, <1>4, <1>6 DEF LogIInv, Buffered
<1>8. \A j, k \in 1..n : j < k => matching[j].seq > matching[k].seq
  <2>. SUFFICES ASSUME NEW j \in 1..n, NEW k \in 1..n, j < k PROVE matching[j].seq > matching[k].seq
    OBVIOUS
  <2>1. places[j] > places[k] /\ places[j] \in DOMAIN records /\ places[k] \in DOMAIN records
    BY <1>3, <1>4
  <2>2. places[k] < places[j]
    BY <1>1, <2>1
  <2>3. records[places[k]].seq < records[places[j]].seq
    BY <2>1, <2>2 DEF LogIInv, Buffered
  <2>4. matching[j] \in Record /\ matching[k] \in Record
    BY <1>5
  <2>. QED
    BY <1>6, <2>3, <2>4 DEF Record
<1>9. \A i \in open : \E k \in 1..n : matching[k] = records[i]
  BY <1>4, <1>6
<1>. QED
  BY <1>6, <1>7, <1>8, <1>9 DEF matching, places, open

\* A page goes on below the one before it, and a cursor leaves nothing out.
LEMMA ReadPageKeeps ==
    ASSUME LogIInv, NEW match \in BOOLEAN, ReadPage(match)
    PROVE  LogIInv'
<1> DEFINE open == {i \in DOMAIN records : records[i].match /\ Below(records[i])}
           places == Downward(open)
           matching == [k \in DOMAIN places |-> records[places[k]]]
           more == Len(matching) > PageLimit
           k == IF more THEN PageLimit ELSE Len(matching)
<1>1. /\ last' \in 0..MaxSeq /\ records' \in Seq(Record) /\ Len(records') <= LogCapacity
      /\ \A i \in DOMAIN records' : records'[i].process = instance /\ records'[i].seq <= last'
      /\ \A i, j \in DOMAIN records' : i < j => records'[i].seq < records'[j].seq
      /\ wanted' \subseteq wanted /\ wanted' \subseteq ToSet(records')
  BY AddKeeps DEF LogIInv, ReadPage
<1>2. /\ matching \in Seq(Record)
      /\ \A i \in 1..Len(matching) : matching[i].process = instance /\ Below(matching[i])
      /\ \A i, j \in 1..Len(matching) : i < j => matching[i].seq > matching[j].seq
      /\ \A i \in open : \E j \in 1..Len(matching) : matching[j] = records[i]
  BY Matching
<1>3. /\ reading \in {"first", "next"} /\ ~Refused /\ instance' = instance
      /\ shown' = shown \o SubSeq(matching, 1, k)
      /\ position' = IF more THEN [instance |-> instance, before |-> LastOf(matching)] ELSE position
      /\ reading' = IF more THEN "next" ELSE "all"
  BY DEF ReadPage
<1>4. \A i \in DOMAIN records : records[i].match /\ Below(records[i]) => i \in open
  OBVIOUS
<1>. HIDE DEF matching, open
<1>4a. \A r \in wanted : Below(r) => \E j \in 1..Len(matching) : matching[j] = r
  <2>1. \A r \in wanted : r.match /\ \E i \in DOMAIN records : records[i] = r
    BY DEF LogIInv, LogTypeOK, Paged, ToSet
  <2>. QED
    BY <1>2, <1>4, <2>1
<1>5. /\ shown \in Seq(Record) /\ Len(shown) \in Nat /\ DOMAIN shown = 1..Len(shown)
      /\ Len(matching) \in Nat /\ PageLimit \in Nat /\ PageLimit >= 1
  BY <1>2, LogNumbers, LenProperties DEF LogIInv, LogTypeOK
<1>6. k \in 0..Len(matching) /\ (more => k = PageLimit /\ k \in 1..Len(matching)) /\ (~more => k = Len(matching))
  BY <1>5
<1>. HIDE DEF k, more
<1>7. /\ shown' \in Seq(Record) /\ DOMAIN shown' = 1..Len(shown) + k
      /\ \A i \in 1..Len(shown) : shown'[i] = shown[i]
      /\ \A i \in Len(shown) + 1..Len(shown) + k : shown'[i] = matching[i - Len(shown)]
  BY <1>2, <1>3, <1>5, <1>6, PagesAppend
<1>8. \A i \in 1..Len(matching) : matching[i] \in Record /\ matching[i].seq \in Int
  <2>1. \A i \in 1..Len(matching) : matching[i] \in Record
    BY <1>2, ElementOfSeq
  <2>. QED
    BY <2>1 DEF Record
<1>9. \A i \in 1..Len(shown) :
          /\ shown[i] \in Record /\ position # None
          /\ shown[i].process = instance /\ shown[i].seq >= position.before
  <2>1. \A i \in 1..Len(shown) : shown[i] \in Record
    BY <1>5, ElementOfSeq
  <2>2. CASE reading = "first"
    <3>1. shown = <<>> /\ Len(<<>>) = 0
      BY <2>2 DEF LogIInv, Paged
    <3>. QED
      BY <3>1
  <2>3. CASE reading = "next"
    BY <1>3, <1>5, <2>1, <2>3 DEF LogIInv, Paged, Refused
  <2>. QED
    BY <1>3, <2>2, <2>3
<1>10. \A i \in 1..Len(shown) + k : i \in 1..Len(shown) \/ (i \in Len(shown) + 1..Len(shown) + k /\ i - Len(shown) \in 1..k /\ i - Len(shown) \in 1..Len(matching))
  BY <1>5, <1>6
<1>11. ASSUME NEW i \in DOMAIN shown', NEW j \in DOMAIN shown', i < j
       PROVE  shown'[i].process = shown'[j].process /\ shown'[i].seq > shown'[j].seq
  <2>1. i \in 1..Len(shown) + k /\ j \in 1..Len(shown) + k
    BY <1>7
  <2>2. CASE j \in 1..Len(shown)
    <3>1. i \in 1..Len(shown)
      BY <1>5, <1>11, <2>1, <2>2
    <3>. QED
      BY <1>5, <1>7, <1>11, <2>2, <3>1 DEF LogIInv, LogPagesWhole
  <2>3. CASE i \in 1..Len(shown) /\ j \notin 1..Len(shown)
    <3>1. j - Len(shown) \in 1..Len(matching) /\ shown'[j] = matching[j - Len(shown)]
      BY <1>7, <1>10, <2>1, <2>3
    <3>2. /\ matching[j - Len(shown)].process = instance /\ Below(matching[j - Len(shown)])
          /\ matching[j - Len(shown)].seq \in Int
      BY <1>2, <1>8, <3>1
    <3>3. /\ shown'[i] = shown[i] /\ position # None
          /\ shown[i].process = instance /\ shown[i].seq >= position.before /\ shown[i].seq \in Int
      BY <1>7, <1>9, <2>3 DEF Record
    <3>4. position.before \in Int
      BY <3>3 DEF LogIInv, LogTypeOK, Position
    <3>5. matching[j - Len(shown)].seq < position.before
      BY <3>2, <3>3 DEF Below
    <3>. QED
      BY <3>1, <3>2, <3>3, <3>4, <3>5
  <2>4. CASE i \notin 1..Len(shown) /\ j \notin 1..Len(shown)
    <3>1. /\ i - Len(shown) \in 1..Len(matching) /\ shown'[i] = matching[i - Len(shown)]
          /\ j - Len(shown) \in 1..Len(matching) /\ shown'[j] = matching[j - Len(shown)]
      BY <1>7, <1>10, <2>1, <2>4
    <3>2. i - Len(shown) < j - Len(shown)
      BY <1>5, <1>11, <2>1
    <3>. QED
      BY <1>2, <3>1, <3>2
  <2>5. j \notin 1..Len(shown) => i \in 1..Len(shown) \/ i \notin 1..Len(shown)
    OBVIOUS
  <2>. QED
    BY <2>2, <2>3, <2>4, <2>5
<1>12. \A j \in 1..k : matching[j] \in ToSet(shown')
  <2>. SUFFICES ASSUME NEW j \in 1..k PROVE matching[j] \in ToSet(shown')
    OBVIOUS
  <2>1. Len(shown) + j \in Len(shown) + 1..Len(shown) + k /\ Len(shown) + j \in 1..Len(shown) + k /\ Len(shown) + j - Len(shown) = j
    BY <1>5, <1>6
  <2>. QED
    BY <1>7, <2>1 DEF ToSet
<1>13. \A r \in ToSet(shown) : r \in ToSet(shown')
  <2>1. \A i \in 1..Len(shown) : i \in 1..Len(shown) + k
    BY <1>5, <1>6
  <2>. QED
    BY <1>5, <1>7, <2>1 DEF ToSet
<1>14. \A r \in wanted : r \in ToSet(shown) \/ \E j \in 1..Len(matching) : matching[j] = r
  <2>1. CASE reading = "first"
    BY <1>4a, <2>1 DEF LogIInv, Paged, Below
  <2>2. CASE reading = "next"
    BY <1>4a, <2>2 DEF LogIInv, Paged, Below
  <2>. QED
    BY <1>3, <2>1, <2>2
<1>15. CASE more
  <2>1. position' = [instance |-> instance, before |-> matching[k].seq] /\ reading' = "next"
    BY <1>3, <1>6, <1>15 DEF LastOf
  <2>2. matching[k].seq \in 1..MaxSeq /\ instance \in 1..MaxProcess
    BY <1>6, <1>8, <1>15 DEF Record, LogIInv, LogTypeOK
  <2>3. position' \in Position /\ position' # None /\ position'.before = matching[k].seq /\ position'.instance = instance
    BY <2>1, <2>2, LogConstants DEF Position
  <2>4. LogTypeOK'
    BY <1>1, <1>3, <1>7, <2>1, <2>3 DEF LogIInv, LogTypeOK
  <2>5. \A j \in 1..Len(matching) : j \in 1..k \/ matching[j].seq < matching[k].seq
    <3>. SUFFICES ASSUME NEW j \in 1..Len(matching), j \notin 1..k PROVE matching[j].seq < matching[k].seq
      OBVIOUS
    <3>1. k < j /\ k \in 1..Len(matching)
      BY <1>5, <1>6, <1>15
    <3>. QED
      BY <1>2, <1>8, <3>1
  <2>6. ASSUME NEW i \in DOMAIN shown'
        PROVE  shown'[i].process = instance /\ shown'[i].seq >= matching[k].seq
    <3>1. Len(shown) + k \in DOMAIN shown' /\ shown'[Len(shown) + k] = matching[k]
      <4>1. PICK l : l = Len(shown) + k
        OBVIOUS
      <4>2. l \in Len(shown) + 1..Len(shown) + k /\ l \in 1..Len(shown) + k /\ l - Len(shown) = k
        BY <1>5, <1>6, <1>15, <4>1
      <4>3. shown'[l] = matching[l - Len(shown)]
        BY <1>7, <4>2
      <4>. QED
        BY <1>7, <4>1, <4>2, <4>3
    <3>2. i = Len(shown) + k \/ i < Len(shown) + k
      BY <1>5, <1>6, <1>7, <2>6
    <3>3. matching[k].process = instance /\ matching[k].seq \in Int
      BY <1>2, <1>6, <1>8, <1>15
    <3>4. shown'[i].seq \in Int
      <4>1. shown'[i] \in Record
        BY <1>7, ElementOfSeq, LenProperties
      <4>. QED
        BY <4>1 DEF Record
    <3>. QED
      BY <1>11, <3>1, <3>2, <3>3, <3>4
  <2>7. \A r \in wanted' : r.seq < matching[k].seq \/ r \in ToSet(shown')
    BY <1>1, <1>12, <1>13, <1>14, <2>5
  <2>8. \A r \in wanted' : r.match
    BY <1>1 DEF LogIInv, Paged
  <2>. QED
    BY <1>1, <1>3, <1>11, <2>1, <2>3, <2>4, <2>6, <2>7, <2>8 DEF LogIInv, Buffered, Paged, LogPagesWhole
<1>16. CASE ~more
  <2>1. position' = position /\ reading' = "all" /\ k = Len(matching)
    BY <1>3, <1>6, <1>16
  <2>2. LogTypeOK'
    BY <1>1, <1>3, <1>7, <2>1 DEF LogIInv, LogTypeOK
  <2>3. \A r \in wanted' : r \in ToSet(shown')
    BY <1>1, <1>12, <1>13, <1>14, <2>1
  <2>4. \A r \in wanted' : r.match
    BY <1>1 DEF LogIInv, Paged
  <2>. QED
    BY <1>1, <1>3, <1>11, <2>1, <2>2, <2>3, <2>4 DEF LogIInv, Buffered, Paged, LogPagesWhole
<1>. QED
  BY <1>15, <1>16

LEMMA LogInvariant == LogSpec => []LogIInv
<1>1. LogIInv /\ [LogNext]_logVars => LogIInv'
  <2>. SUFFICES ASSUME LogIInv, [LogNext]_logVars PROVE LogIInv'
    OBVIOUS
  <2>1. CASE UNCHANGED logVars
    BY <2>1 DEF logVars, LogIInv, LogTypeOK, Buffered, Paged, LogPagesWhole
  <2>2. CASE LogNext
    BY <2>2, LogKeeps, RestartLeavesLog, BeginKeeps, RefuseCursorKeeps, ReadPageKeeps DEF LogNext
  <2>. QED
    BY <2>1, <2>2
<1>. QED
  BY <1>1, LogInitInvariant, PTL DEF LogSpec

\* The pages of the log are in order, of one process, and leave no record out that is
\* there all the time.
THEOREM LogIsWhole == LogSpec => []LogPagesWhole
<1>1. LogIInv => LogPagesWhole
  BY DEF LogIInv
<1>. QED
  BY <1>1, LogInvariant, PTL
=============================================================================
