------------------------------- MODULE LogBuffer -------------------------------
(***************************************************************************)
(* The newest log records of the server process, and GET /api/v1/logs,     *)
(* which reads them page by page, newest first, while records are added    *)
(* and the oldest leave (internal/server/logs.go, diagnostics.go).  Every  *)
(* request adds a record when it ends, so reading moves the buffer too.    *)
(***************************************************************************)
EXTENDS Integers, Sequences, SequencesExt, SortedSets, NoValue

CONSTANTS
    LogCapacity,  \* records kept
    MaxSeq,       \* records of one process
    MaxProcess,   \* starts of the server
    PageLimit     \* records of a page

\* A record, and a cursor.
Record == [seq : 1..MaxSeq, process : 1..MaxProcess, match : BOOLEAN]
Position == [instance : 1..MaxProcess, before : 1..MaxSeq]

ASSUME LogConstants ==
    /\ {LogCapacity, MaxSeq, MaxProcess, PageLimit} \subseteq Nat \ {0}
    /\ None \notin Position

VARIABLES
    instance,   \* this process's; the cursors of another are refused
    last,       \* the last sequence number given
    records,    \* the buffer, oldest first: [seq, process, match]
    position,   \* the cursor of a reader: [instance, before], or None
    reading,    \* "no", "first", "next", "all" (was told there is no more), "refused"
    shown,      \* records it was given (history)
    wanted      \* records that were there when it began and have not left (history)

logVars == <<instance, last, records, position, reading, shown, wanted>>
reader == <<position, reading, shown, wanted>>

LogTypeOK ==
    /\ instance \in 1..MaxProcess /\ last \in 0..MaxSeq
    /\ records \in Seq(Record) /\ Len(records) <= LogCapacity
    /\ position \in Position \cup {None}
    /\ reading \in {"no", "first", "next", "all", "refused"}
    /\ shown \in Seq(Record) /\ wanted \subseteq ToSet(records)

LogInit ==
    /\ instance = 1 /\ last = 0 /\ records = <<>>
    /\ position = None /\ reading = "no" /\ shown = <<>> /\ wanted = {}

Kept(match) ==
    LET room == IF Len(records) = LogCapacity THEN Tail(records) ELSE records
    IN Append(room, [seq |-> last + 1, process |-> instance, match |-> match])

\* logBuffer.add, from logHandler.Handle: a record that passes the reader's level and
\* time or does not.  MaxSeq bounds the numbers of a process.
Add(match) ==
    /\ last < MaxSeq
    /\ last' = last + 1
    /\ records' = Kept(match)
    /\ wanted' = wanted \cap ToSet(records')

Log(match) == Add(match) /\ UNCHANGED <<instance, position, reading, shown>>

\* The process ends and another starts, with an empty buffer and numbers from 1.
LogRestart ==
    /\ instance < MaxProcess
    /\ instance' = instance + 1
    /\ last' = 0 /\ records' = <<>> /\ wanted' = {}
    /\ UNCHANGED <<position, reading, shown>>

BeginPages ==
    /\ reading = "no"
    /\ reading' = "first"
    /\ wanted' = {r \in ToSet(records) : r.match}
    /\ UNCHANGED <<instance, last, records, position, shown>>

\* Strictly below the last record of the page before.
Below(r) == position = None \/ r.seq < position.before

\* A cursor of an earlier process.
Refused == position # None /\ position.instance # instance

\* Mutant: the cursor is the first record that was left out.
Last_LeftOut(matching) == matching[PageLimit + 1].seq

\* The cursor is the last record of the page.
LastOf(matching) == matching[PageLimit].seq

\* page: the newest PageLimit records that match, and a cursor if there is one more.
\* The handler's own record comes after it.
ReadPage(match) ==
    /\ reading \in {"first", "next"} /\ ~Refused
    /\ LET places == Downward({i \in DOMAIN records : records[i].match /\ Below(records[i])})
           matching == [k \in DOMAIN places |-> records[places[k]]]
           more == Len(matching) > PageLimit
           page == SubSeq(matching, 1, IF more THEN PageLimit ELSE Len(matching))
       IN /\ shown' = shown \o page
          /\ position' = IF more THEN [instance |-> instance, before |-> LastOf(matching)] ELSE position
          /\ reading' = IF more THEN "next" ELSE "all"
    /\ Add(match)
    /\ UNCHANGED instance

RefuseCursor(match) ==
    /\ reading = "next" /\ Refused
    /\ reading' = "refused"
    /\ Add(match)
    /\ UNCHANGED <<instance, position, shown>>

LogNext ==
    \/ \E match \in BOOLEAN : Log(match) \/ ReadPage(match) \/ RefuseCursor(match)
    \/ LogRestart \/ BeginPages

LogSpec == LogInit /\ [][LogNext]_logVars

-----------------------------------------------------------------------------
\* Pages go on below one another: no record is given twice, and none of another process
\* among them (logs.go:27: cursors of an earlier process are invalid instead of
\* wrong), whatever was added, has left or was started anew between two pages; and a
\* reader who is told there is no more has every record that matches, was there
\* when it began and has not left the buffer since.
LogPagesWhole ==
    /\ \A i, j \in DOMAIN shown : i < j =>
          shown[i].process = shown[j].process /\ shown[i].seq > shown[j].seq
    /\ reading = "all" => wanted \subseteq ToSet(shown)
=============================================================================
