----------------------------- MODULE ObjectStore -----------------------------
(***************************************************************************)
(* The content-addressed object store of internal/store: the files under   *)
(* objects/sha256, the source_objects rows that name them and the          *)
(* revision_objects rows that need them, as the imports, deletions and     *)
(* garbage collections of concurrent requests change them.                 *)
(*                                                                         *)
(* A file and a row cannot change together.  Every operation that changes  *)
(* either holds the one-slot channel Store.writer; a step of this module   *)
(* is one file operation or one SQLite transaction, and the process can be *)
(* killed between any two of them.                                         *)
(*                                                                         *)
(* A Trace row exists exactly when one of its Revisions does: both are     *)
(* inserted by commitRevision's transaction and both go with the Trace.    *)
(***************************************************************************)
EXTENDS FiniteSets, Integers

CONSTANTS
    Trace,       \* Traces
    Revision,    \* Trace Revisions an archive can hold
    Digest,      \* SHA-256 digests of source files
    OwnerOf,     \* the Trace of each Revision
    ObjectsOf,   \* the digests of each Revision's source files
    Client,      \* goroutines that serve requests
    Boot,        \* the goroutine RunHTTPServer starts for the startup GC
    BatchSize,   \* LIMIT of gc's query (100 in the code)
    None         \* no value

Worker == Client \cup {Boot}

ASSUME ConstantsAssumption ==
    /\ OwnerOf \in [Revision -> Trace]
    /\ ObjectsOf \in [Revision -> SUBSET Digest]
    /\ Boot \notin Client
    /\ None \notin Worker
    /\ None \notin Revision
    /\ None \notin Digest
    /\ BatchSize \in Nat \ {0}

VARIABLES
    objects,          \* digests with a file under objects/sha256
    source_objects,   \* digests with a source_objects row
    trace_revisions,  \* Revisions with rows in trace_revisions and revision_objects
    writer,           \* the holder of Store.writer, or None
    pc,               \* where each goroutine is
    todo,             \* descriptors of the manifest still to import
    current,          \* the descriptor importTrace is working on
    need,             \* its files storeObjects has not stored yet
    batch,            \* rows gc selected and has not deleted yet
    full,             \* the selected batch was as large as its LIMIT
    file              \* the object gc removed and whose row it deletes next

disk == <<objects, source_objects, trace_revisions>>
importLocals == <<todo, current, need>>
gcLocals == <<batch, full, file>>
vars == <<disk, writer, pc, importLocals, gcLocals>>

Waiting == {"wait_import", "wait_delete", "wait_gc"}
Importing == {"manifest", "files"}
Collecting == {"gc_select", "gc_remove", "gc_row", "gc_walk", "gc_done"}
Holding == Importing \cup Collecting \cup {"delete"}
Stage == {"idle"} \cup Waiting \cup Holding

Referenced == UNION {ObjectsOf[r] : r \in trace_revisions}
Unused == source_objects \ Referenced

Init ==
    /\ objects = {} /\ source_objects = {} /\ trace_revisions = {}
    /\ writer = None
    /\ pc = [w \in Worker |-> IF w = Boot THEN "wait_gc" ELSE "idle"]
    /\ todo = [w \in Worker |-> {}]
    /\ current = [w \in Worker |-> None]
    /\ need = [w \in Worker |-> {}]
    /\ batch = [w \in Worker |-> {}]
    /\ full = [w \in Worker |-> FALSE]
    /\ file = [w \in Worker |-> None]

Goto(w, stage) == pc' = [pc EXCEPT ![w] = stage]
Release(w) == Goto(w, "idle") /\ writer' = None

-----------------------------------------------------------------------------
(* Requests and the writer lock *)

\* An upload or a deletion reaches the Store and blocks on the channel.
Request(c, stage) ==
    /\ pc[c] = "idle"
    /\ stage \in {"wait_import", "wait_delete"}
    /\ Goto(c, stage)
    /\ UNCHANGED <<disk, writer, importLocals, gcLocals>>

\* Its context is cancelled before the channel takes it.
GiveUp(w) ==
    /\ pc[w] \in Waiting
    /\ Goto(w, "idle")
    /\ UNCHANGED <<disk, writer, importLocals, gcLocals>>

\* The empty manifest also stands for a beginImport that fails.
AcquireForImport(w, manifest) ==
    /\ pc[w] = "wait_import" /\ writer = None
    /\ writer' = w
    /\ Goto(w, "manifest")
    /\ todo' = [todo EXCEPT ![w] = manifest]
    /\ UNCHANGED <<disk, current, need, gcLocals>>

\* Mutant: DeleteTrace does not take the writer.
AcquireForDelete_NoLock(w) ==
    /\ pc[w] = "wait_delete"
    /\ Goto(w, "delete")
    /\ UNCHANGED <<disk, writer, importLocals, gcLocals>>

AcquireForDelete(w) ==
    /\ pc[w] = "wait_delete" /\ writer = None
    /\ writer' = w
    /\ Goto(w, "delete")
    /\ UNCHANGED <<disk, importLocals, gcLocals>>

\* Mutant: the startup collection does not wait for a running import.
AcquireForGC_NoLock(w) ==
    /\ pc[w] = "wait_gc"
    /\ Goto(w, "gc_select")
    /\ UNCHANGED <<disk, writer, importLocals, gcLocals>>

AcquireForGC(w) ==
    /\ pc[w] = "wait_gc" /\ writer = None
    /\ writer' = w
    /\ Goto(w, "gc_select")
    /\ UNCHANGED <<disk, importLocals, gcLocals>>

-----------------------------------------------------------------------------
(* Import *)

\* The loop of Import takes the next descriptor.
NextTrace(w, r) ==
    /\ pc[w] = "manifest" /\ r \in todo[w]
    /\ current' = [current EXCEPT ![w] = r]
    /\ need' = [need EXCEPT ![w] = ObjectsOf[r]]
    /\ Goto(w, "files")
    /\ UNCHANGED <<disk, writer, todo, gcLocals>>

\* Mutant: the object's row is taken as proof of its file.
KeepObject_TrustsRow(w, d) ==
    /\ pc[w] = "files" /\ d \in need[w] /\ d \in source_objects
    /\ need' = [need EXCEPT ![w] = @ \ {d}]
    /\ UNCHANGED <<disk, writer, pc, todo, current, gcLocals>>

\* writeObject finds a file of that name and leaves it.
KeepObject(w, d) ==
    /\ pc[w] = "files" /\ d \in need[w] /\ d \in objects
    /\ need' = [need EXCEPT ![w] = @ \ {d}]
    /\ UNCHANGED <<disk, writer, pc, todo, current, gcLocals>>

\* writeObject copies to a temporary file, verifies it and renames it into place.
WriteObject(w, d) ==
    /\ pc[w] = "files" /\ d \in need[w] /\ d \notin objects
    /\ objects' = objects \cup {d}
    /\ need' = [need EXCEPT ![w] = @ \ {d}]
    /\ UNCHANGED <<source_objects, trace_revisions, writer, pc, todo, current, gcLocals>>

\* importTrace returns to the loop, whatever the outcome.
TraceDone(w) ==
    /\ Goto(w, "manifest")
    /\ todo' = [todo EXCEPT ![w] = @ \ {current[w]}]
    /\ current' = [current EXCEPT ![w] = None]
    /\ need' = [need EXCEPT ![w] = {}]
    /\ UNCHANGED <<writer, gcLocals>>

\* The revision is there already: no object row changes.
KeepRevision(w) ==
    /\ pc[w] = "files" /\ need[w] = {} /\ current[w] \in trace_revisions
    /\ TraceDone(w)
    /\ UNCHANGED disk

\* commitRevision's transaction: the object rows and the revision together.
CommitRevision(w) ==
    /\ pc[w] = "files" /\ need[w] = {} /\ current[w] \notin trace_revisions
    /\ source_objects' = source_objects \cup ObjectsOf[current[w]]
    /\ trace_revisions' = trace_revisions \cup {current[w]}
    /\ TraceDone(w)
    /\ UNCHANGED objects

\* A file, the context or the transaction failed: the trace's outcome is
\* "failed", files already in place stay, the import goes on with the next.
FailTrace(w) ==
    /\ pc[w] = "files"
    /\ TraceDone(w)
    /\ UNCHANGED disk

FinishImport(w) ==
    /\ pc[w] = "manifest" /\ todo[w] = {}
    /\ Release(w)
    /\ UNCHANGED <<disk, importLocals, gcLocals>>

-----------------------------------------------------------------------------
(* Deletion and garbage collection *)

\* DELETE FROM traces, which cascades to the revisions and their object rows.
DeleteTrace(w, t) ==
    /\ pc[w] = "delete"
    /\ \E r \in trace_revisions : OwnerOf[r] = t
    /\ trace_revisions' = {r \in trace_revisions : OwnerOf[r] # t}
    /\ Goto(w, "gc_select")
    /\ UNCHANGED <<objects, source_objects, writer, importLocals, gcLocals>>

\* Mutant: the early return of DeleteTrace keeps the writer.
FailDelete_KeepsWriter(w) ==
    /\ pc[w] = "delete"
    /\ Goto(w, "idle")
    /\ UNCHANGED <<disk, writer, importLocals, gcLocals>>

\* No such trace, or the context was cancelled: nothing was deleted.
FailDelete(w) ==
    /\ pc[w] = "delete"
    /\ Release(w)
    /\ UNCHANGED <<disk, importLocals, gcLocals>>

\* gc's query: some unused rows, at most BatchSize of them.
SelectUnused(w) ==
    /\ pc[w] = "gc_select"
    /\ \/ /\ Cardinality(Unused) < BatchSize
          /\ batch' = [batch EXCEPT ![w] = Unused]
          /\ full' = [full EXCEPT ![w] = FALSE]
       \/ \E some \in SUBSET Unused :
            /\ Cardinality(some) = BatchSize
            /\ batch' = [batch EXCEPT ![w] = some]
            /\ full' = [full EXCEPT ![w] = TRUE]
    /\ Goto(w, "gc_remove")
    /\ UNCHANGED <<disk, writer, importLocals, file>>

\* os.Remove of one selected object; a file that is already gone is no error.
RemoveObject(w, d) ==
    /\ pc[w] = "gc_remove" /\ d \in batch[w]
    /\ objects' = objects \ {d}
    /\ file' = [file EXCEPT ![w] = d]
    /\ Goto(w, "gc_row")
    /\ UNCHANGED <<source_objects, trace_revisions, writer, importLocals, batch, full>>

\* DELETE of its row, if it is still unreferenced.
DeleteRow(w) ==
    /\ pc[w] = "gc_row"
    /\ source_objects' = source_objects \ ({file[w]} \ Referenced)
    /\ batch' = [batch EXCEPT ![w] = @ \ {file[w]}]
    /\ file' = [file EXCEPT ![w] = None]
    /\ Goto(w, "gc_remove")
    /\ UNCHANGED <<objects, trace_revisions, writer, importLocals, full>>

\* Mutant: gc stops selecting after its first batch.
BatchDone_OnlyOnce(w) ==
    /\ pc[w] = "gc_remove" /\ batch[w] = {}
    /\ Goto(w, "gc_walk")
    /\ UNCHANGED <<disk, writer, importLocals, gcLocals>>

\* After a full batch the query runs again; after a short one gc walks the files.
BatchDone(w) ==
    /\ pc[w] = "gc_remove" /\ batch[w] = {}
    /\ Goto(w, IF full[w] THEN "gc_select" ELSE "gc_walk")
    /\ UNCHANGED <<disk, writer, importLocals, gcLocals>>

\* WalkDir meets a file that no row names.
SweepFile(w, d) ==
    /\ pc[w] = "gc_walk" /\ d \in objects /\ d \notin source_objects
    /\ objects' = objects \ {d}
    /\ UNCHANGED <<source_objects, trace_revisions, writer, pc, importLocals, gcLocals>>

\* WalkDir has visited every file.
WalkDone(w) ==
    /\ pc[w] = "gc_walk" /\ objects \subseteq source_objects
    /\ Goto(w, "gc_done")
    /\ UNCHANGED <<disk, writer, importLocals, gcLocals>>

FinishGC(w) ==
    /\ pc[w] = "gc_done"
    /\ Release(w)
    /\ UNCHANGED <<disk, importLocals, gcLocals>>

\* A query, a removal or a cancelled context ends gc with an error.
FailGC(w) ==
    /\ pc[w] \in Collecting \ {"gc_done"}
    /\ Release(w)
    /\ batch' = [batch EXCEPT ![w] = {}]
    /\ full' = [full EXCEPT ![w] = FALSE]
    /\ file' = [file EXCEPT ![w] = None]
    /\ UNCHANGED <<disk, importLocals>>

-----------------------------------------------------------------------------
\* The process is killed and started again: files and committed rows stay,
\* the startup goroutine asks for a collection.
Restart ==
    /\ writer' = None
    /\ pc' = [w \in Worker |-> IF w = Boot THEN "wait_gc" ELSE "idle"]
    /\ todo' = [w \in Worker |-> {}]
    /\ current' = [w \in Worker |-> None]
    /\ need' = [w \in Worker |-> {}]
    /\ batch' = [w \in Worker |-> {}]
    /\ full' = [w \in Worker |-> FALSE]
    /\ file' = [w \in Worker |-> None]
    /\ UNCHANGED disk

Acquire(w) ==
    \/ \E manifest \in SUBSET Revision : AcquireForImport(w, manifest)
    \/ AcquireForDelete(w)
    \/ AcquireForGC(w)

\* A step a goroutine that holds the writer takes without waiting for anyone.
Proceed(w) ==
    \/ \E r \in Revision : NextTrace(w, r)
    \/ \E d \in Digest : KeepObject(w, d) \/ WriteObject(w, d)
    \/ KeepRevision(w)
    \/ CommitRevision(w)
    \/ FailTrace(w)
    \/ FinishImport(w)
    \/ \E t \in Trace : DeleteTrace(w, t)
    \/ FailDelete(w)
    \/ SelectUnused(w)
    \/ \E d \in Digest : RemoveObject(w, d)
    \/ DeleteRow(w)
    \/ BatchDone(w)
    \/ \E d \in Digest : SweepFile(w, d)
    \/ WalkDone(w)
    \/ FinishGC(w)
    \/ FailGC(w)

Next ==
    \/ \E c \in Client, stage \in Waiting : Request(c, stage)
    \/ \E w \in Worker : GiveUp(w) \/ Acquire(w) \/ Proceed(w)
    \/ Restart

Spec == Init /\ [][Next]_vars

\* A goroutine is scheduled; the channel serves its senders in the order they
\* arrived, so one that keeps waiting is not passed over for ever.
FairSpec ==
    /\ Spec
    /\ \A w \in Worker : WF_vars(Proceed(w)) /\ SF_vars(Acquire(w))

-----------------------------------------------------------------------------
TypeOK ==
    /\ objects \subseteq Digest
    /\ source_objects \subseteq Digest
    /\ trace_revisions \subseteq Revision
    /\ writer \in Worker \cup {None}
    /\ pc \in [Worker -> Stage]
    /\ todo \in [Worker -> SUBSET Revision]
    /\ current \in [Worker -> Revision \cup {None}]
    /\ need \in [Worker -> SUBSET Digest]
    /\ batch \in [Worker -> SUBSET Digest]
    /\ full \in [Worker -> BOOLEAN]
    /\ file \in [Worker -> Digest \cup {None}]

\* Every source file of a stored Revision has its row and its file, whatever
\* import failed, collection was cut short or process killed before: OpenSource
\* and Renormalize find what the database names, and a file shared by two
\* Traces survives the deletion of one.
ReferencedPresent ==
    \A r \in trace_revisions :
        /\ ObjectsOf[r] \subseteq source_objects
        /\ ObjectsOf[r] \subseteq objects

\* The goroutine past the channel send is the one the channel holds.
WriterExclusive ==
    \A w \in Worker : pc[w] \in Holding <=> writer = w

\* While importTrace stores files, those it has passed are in place.
StoredSoFar ==
    \A w \in Worker : pc[w] = "files" =>
        /\ current[w] \in Revision
        /\ ObjectsOf[current[w]] \ need[w] \subseteq objects

\* While gc works through a batch nothing in it comes into use, and a short
\* batch holds every unused row.
BatchUnused ==
    \A w \in Worker :
        /\ pc[w] \in {"gc_remove", "gc_row"} =>
              /\ batch[w] \subseteq Unused
              /\ ~full[w] => Unused \subseteq batch[w]
        /\ pc[w] = "gc_row" => file[w] \in batch[w]
        /\ pc[w] \in {"gc_walk", "gc_done"} => Unused = {}
        /\ pc[w] = "gc_done" => objects \subseteq source_objects

\* The inductive invariant behind the two safety properties: who holds the
\* writer, and what the holder's local variables say of the files and rows.
IInv ==
    /\ TypeOK
    /\ WriterExclusive
    /\ ReferencedPresent
    /\ StoredSoFar
    /\ BatchUnused

\* A collection that ends without an error leaves neither an unused row nor a
\* file without a use, those of interrupted imports and collections included.
CollectionComplete ==
    \A w \in Worker : pc[w] = "gc_done" =>
        /\ source_objects = Referenced
        /\ objects = Referenced

\* The Revisions whose source files can all be opened behave as TraceLibrary says.
Openable == {r \in trace_revisions : ObjectsOf[r] \subseteq objects}
Library == INSTANCE TraceLibrary WITH library <- Openable
ImplementsLibrary == Library!Spec

\* An upload, a deletion or a collection that waits for the writer is served or
\* gives up: no early return of another one keeps the channel's slot.
WaitersServed ==
    \A w \in Worker : pc[w] \in Waiting ~> pc[w] \notin Waiting
=============================================================================
