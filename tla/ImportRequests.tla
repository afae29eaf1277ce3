----------------------------- MODULE ImportRequests -----------------------------
(***************************************************************************)
(* The requests that import a Trace ZIP, those that ask for the status,    *)
(* and the start and end of the server (internal/server/http_server.go,    *)
(* routes.go, internal/store/store.go, status.go).  What an import does    *)
(* with its Traces is the subject of ObjectStore and TraceEvents; here it  *)
(* holds the upload slot, the writer, connections of the database pool and *)
(* importMu, and leaves a row of `imports` that has a report or not.       *)
(***************************************************************************)
EXTENDS FiniteSets, Integers, NoValue

CONSTANTS
    Upload,      \* requests that import
    Reader,      \* requests that ask for the status
    Other,       \* GC and the rebuild, which take the writer as well
    Pool,        \* connections of the database (SetMaxOpenConns)
    MaxImport,   \* rows of imports
    MaxStart     \* starts of the server

Request == Upload \cup Reader \cup Other

ASSUME RequestConstants ==
    /\ {Pool, MaxImport, MaxStart} \subseteq Nat \ {0}
    /\ Upload \cap Reader = {} /\ (Upload \cup Reader) \cap Other = {}
    /\ None \notin Request

VARIABLES
    reported,  \* the table: import id -> its row has a report
    server,    \* "up", "stopping" (Shutdown waits for the handlers), "down"
    starts,    \* times it was started
    slot,      \* the upload that holds app.uploads
    writer,    \* who holds Store.writer
    mutex,     \* who holds importMu
    conns,     \* the connections each request holds
    running,   \* Store.runningImport, or 0
    at,        \* where each request is; "idle" when there is none
    id,        \* the row of an upload, or 0
    answer     \* the last status: the rows it counted as incomplete, and those that
               \* were interrupted then (history), or None

handlers == <<slot, writer, mutex, conns, running, at, id>>
vars == <<reported, server, starts, handlers, answer>>

Idle == [r \in Request |-> "idle"]

Init ==
    /\ reported = <<>>
    /\ server = "up" /\ starts = 1
    /\ slot = None /\ writer = None /\ mutex = None
    /\ conns = [r \in Request |-> 0]
    /\ running = 0
    /\ at = Idle
    /\ id = [u \in Upload |-> 0]
    /\ answer = None

TypeOK ==
    /\ \E n \in 0..MaxImport : reported \in [1..n -> BOOLEAN]
    /\ slot \in Upload \cup {None} /\ writer \in Request \cup {None} /\ mutex \in Request \cup {None}
    /\ \A r \in Request : conns[r] \in 0..Pool
    /\ running \in {0} \cup DOMAIN reported
    /\ \A u \in Upload : (at[u] = "idle" => id[u] = 0 /\ slot # u /\ conns[u] = 0) /\ (writer = u => slot = u)

Go(r, from, to) == at[r] = from /\ at' = [at EXCEPT ![r] = to]

InUse == LET of[S \in SUBSET Request] ==
                IF S = {} THEN 0 ELSE LET r == CHOOSE r \in S : TRUE IN conns[r] + of[S \ {r}]
         IN of[Request]

\* A statement that ends at once needs a connection while it runs.
Free == InUse < Pool
Connect(r) == Free /\ conns' = [conns EXCEPT ![r] = @ + 1]
Disconnect(r) == conns' = [conns EXCEPT ![r] = @ - 1]

-----------------------------------------------------------------------------
(* POST /api/v1/imports *)

\* The slot is taken before anything is read; if another upload has it the answer is
\* 503, at once.  MaxImport bounds the imports.
Accept(u) ==
    /\ Cardinality(DOMAIN reported) < MaxImport
    /\ server = "up" /\ slot = None /\ Go(u, "idle", "receive")
    /\ slot' = u
    /\ UNCHANGED <<reported, server, starts, writer, mutex, conns, running, id, answer>>

\* The handler returns: its deferred calls let go of all it has.
Returned(u) ==
    /\ at' = [at EXCEPT ![u] = "idle"]
    /\ slot' = None
    /\ writer' = IF writer = u THEN None ELSE writer
    /\ id' = [id EXCEPT ![u] = 0]
    /\ conns' = [conns EXCEPT ![u] = 0]

\* Mutant: a ZIP that is cut off or refused leaves the slot taken.
Refuse_KeepsSlot(u) ==
    /\ at[u] \in {"receive", "wait"}
    /\ at' = [at EXCEPT ![u] = "idle"]
    /\ UNCHANGED <<reported, server, starts, slot, writer, mutex, conns, running, id, answer>>

\* The body is cut off or too large, the ZIP is not valid, or the client is gone
\* before the writer is free.
Refuse(u) ==
    /\ at[u] \in {"receive", "wait"}
    /\ Returned(u)
    /\ UNCHANGED <<reported, server, starts, mutex, running, answer>>

\* io.Copy and archive.Validate.
Receive(u) ==
    /\ Go(u, "receive", "wait")
    /\ UNCHANGED <<reported, server, starts, slot, writer, mutex, conns, running, id, answer>>

\* Store.Import.
Acquire(u) ==
    /\ writer = None /\ Go(u, "wait", "begin")
    /\ writer' = u
    /\ UNCHANGED <<reported, server, starts, slot, mutex, conns, running, id, answer>>

\* beginImport: its transaction, with the row that no one else can see yet.
Begin(u) ==
    /\ Connect(u) /\ Go(u, "begin", "mark")
    /\ UNCHANGED <<reported, server, starts, slot, writer, mutex, running, id, answer>>

\* importMu, in beginImport and when Import returns.
Lock(r) ==
    /\ mutex = None
    /\ \/ Go(r, "mark", "commit")
       \/ Go(r, "finish", "unmark")
       \/ Go(r, "lock", "count")
    /\ mutex' = r
    /\ UNCHANGED <<reported, server, starts, slot, writer, conns, running, id, answer>>

NewRow == Cardinality(DOMAIN reported) + 1

\* Mutant: the row is there before the mark.
Commit_RowFirst(u) ==
    \/ /\ Go(u, "mark", "commit")
       /\ reported' = [i \in 1..NewRow |-> IF i = NewRow THEN FALSE ELSE reported[i]]
       /\ id' = [id EXCEPT ![u] = NewRow]
       /\ Disconnect(u)
       /\ UNCHANGED <<server, starts, slot, writer, mutex, running, answer>>
    \/ /\ mutex = None /\ Go(u, "commit", "traces")
       /\ running' = id[u]
       /\ UNCHANGED <<reported, server, starts, slot, writer, mutex, conns, id, answer>>

\* The row is committed and marked as the running one.
Commit(u) ==
    /\ mutex = u /\ Go(u, "commit", "traces")
    /\ reported' = [i \in 1..NewRow |-> IF i = NewRow THEN FALSE ELSE reported[i]]
    /\ id' = [id EXCEPT ![u] = NewRow]
    /\ running' = NewRow
    /\ Disconnect(u)
    /\ mutex' = None
    /\ UNCHANGED <<server, starts, slot, writer, answer>>

\* The transaction fails, or the request's context is done; nothing was marked.
AbortBegin(u) ==
    /\ at[u] \in {"begin", "commit"}
    /\ mutex' = IF mutex = u THEN None ELSE mutex
    /\ Returned(u)
    /\ UNCHANGED <<reported, server, starts, running, answer>>

\* All Traces have an outcome, and report and summary are stored in one transaction;
\* or the client is gone, its context cancelled, and the row stays without a report.
EndTraces(u, stored) ==
    /\ Free /\ Go(u, "traces", "finish")
    /\ reported' = [reported EXCEPT ![id[u]] = stored]
    /\ UNCHANGED <<server, starts, slot, writer, mutex, conns, running, id, answer>>

\* Import's deferred calls, and then those of the handler.
Finish(u) ==
    /\ mutex = u /\ at[u] = "unmark"
    /\ running' = 0
    /\ mutex' = None
    /\ Returned(u)
    /\ UNCHANGED <<reported, server, starts, answer>>

-----------------------------------------------------------------------------
(* GET /api/v1/status *)

\* The newest import of each machine; its rows are closed before the next query, or
\* two requests of this kind could wait for each other's connection.
AskMachines(r) ==
    /\ server = "up" /\ Free /\ Go(r, "idle", "total")
    /\ UNCHANGED <<reported, server, starts, slot, writer, mutex, conns, running, id, answer>>

AskTotal(r) ==
    /\ Free /\ Go(r, "total", "lock")
    /\ UNCHANGED <<reported, server, starts, slot, writer, mutex, conns, running, id, answer>>

Unreported == {i \in DOMAIN reported : ~reported[i]}

\* Imports that ended without a report: nobody is at work on them.
Interrupted == {i \in Unreported : \A u \in Upload : id[u] # i}

\* With importMu held: the mark, and the rows without a report but that one.
Count(r) ==
    /\ mutex = r /\ Free /\ Go(r, "count", "rest")
    /\ answer' = [counted |-> Unreported \ {running}, interrupted |-> Interrupted]
    /\ mutex' = None
    /\ UNCHANGED <<reported, server, starts, slot, writer, conns, running, id>>

\* Numbers of Traces and events, and the answer.
AskRest(r) ==
    /\ Free /\ Go(r, "rest", "idle")
    /\ conns' = [conns EXCEPT ![r] = 0]
    /\ UNCHANGED <<reported, server, starts, slot, writer, mutex, running, id, answer>>

\* A query fails or its client is gone; importMu is unlocked before the error is looked at.
FailStatus(r) ==
    /\ at[r] \in {"total", "count", "rest"} /\ Go(r, at[r], "idle")
    /\ mutex' = IF mutex = r THEN None ELSE mutex
    /\ conns' = [conns EXCEPT ![r] = 0]
    /\ UNCHANGED <<reported, server, starts, slot, writer, running, id, answer>>

-----------------------------------------------------------------------------
(* GC and the rebuild *)

TakeWriter(o) ==
    /\ server = "up" /\ writer = None /\ Go(o, "idle", "write")
    /\ writer' = o
    /\ UNCHANGED <<reported, server, starts, slot, mutex, conns, running, id, answer>>

Write(o) ==
    /\ Connect(o) /\ Go(o, "write", "written")
    /\ UNCHANGED <<reported, server, starts, slot, writer, mutex, running, id, answer>>

Written(o) ==
    /\ Disconnect(o) /\ Go(o, "written", "idle")
    /\ writer' = None
    /\ UNCHANGED <<reported, server, starts, slot, mutex, running, id, answer>>

-----------------------------------------------------------------------------
(* RunHTTPServer *)

\* A signal cancels the context of every request and worker; no request is accepted.
Signal ==
    /\ server = "up"
    /\ server' = "stopping"
    /\ UNCHANGED <<reported, starts, handlers, answer>>

Gone ==
    /\ slot' = None /\ writer' = None /\ mutex' = None
    /\ conns' = [r \in Request |-> 0]
    /\ running' = 0
    /\ at' = Idle
    /\ id' = [u \in Upload |-> 0]

\* Shutdown has seen all handlers return, or waited for shutdownTimeout; the workers
\* have ended; the database is closed and the process ends.
Exit ==
    /\ server = "stopping" /\ \A o \in Other : at[o] = "idle"
    /\ server' = "down"
    /\ Gone
    /\ UNCHANGED <<reported, starts, answer>>

\* The process is killed.
Kill ==
    /\ server # "down"
    /\ server' = "down"
    /\ Gone
    /\ UNCHANGED <<reported, starts, answer>>

\* Opening the store changes no row of imports.
Start ==
    /\ server = "down" /\ starts < MaxStart
    /\ server' = "up" /\ starts' = starts + 1
    /\ UNCHANGED <<reported, handlers, answer>>

-----------------------------------------------------------------------------
UploadStep(u) ==
    \/ Receive(u) \/ Acquire(u) \/ Begin(u) \/ Commit(u) \/ Finish(u)
    \/ \E stored \in BOOLEAN : EndTraces(u, stored)

ReaderStep(r) == AskTotal(r) \/ Count(r) \/ AskRest(r)

OtherStep(o) == Write(o) \/ Written(o)

Next ==
    \/ \E u \in Upload : Accept(u) \/ Refuse(u) \/ AbortBegin(u) \/ UploadStep(u)
    \/ \E r \in Request : Lock(r)
    \/ \E r \in Reader : AskMachines(r) \/ ReaderStep(r) \/ FailStatus(r)
    \/ \E o \in Other : TakeWriter(o) \/ OtherStep(o)
    \/ Signal \/ Exit \/ Kill \/ Start

Spec == Init /\ [][Next]_vars

\* A goroutine that can go on does; one that waits for the writer, the mutex or a
\* connection, all of which serve in order of arrival, gets it if it is free again
\* and again.  Only one upload is past the slot.
Fairness ==
    /\ SF_vars(\E u \in Upload : UploadStep(u) \/ Lock(u))
    /\ SF_vars(\E r \in Reader : ReaderStep(r) \/ Lock(r))
    /\ SF_vars(\E o \in Other : OtherStep(o))
    /\ WF_vars(Exit)

FairSpec == Spec /\ Fairness

-----------------------------------------------------------------------------
\* status.go:35: what the status calls incomplete are the imports that were
\* interrupted, in this process or an earlier one, and never the one that is at work:
\* whichever import starts or ends between two queries of the status.
IncompleteWereInterrupted == answer # None => answer.counted = answer.interrupted

\* Every request ends, though uploads, workers and the status wait for the writer,
\* importMu and a connection in different orders and may fail anywhere between; and
\* the upload slot is free again, whichever way its handler took.
RequestsEnd ==
    /\ \A r \in Request : at[r] # "idle" ~> at[r] = "idle"
    /\ slot # None ~> slot = None
=============================================================================
