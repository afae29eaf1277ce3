-------------------------- MODULE ObjectStoreProofs --------------------------
(***************************************************************************)
(* Proofs about ObjectStore for every set of Traces, Revisions, digests    *)
(* and goroutines and every batch size.  IInv is inductive; the two safety *)
(* properties and the refinement of TraceLibrary follow from it.           *)
(***************************************************************************)
EXTENDS ObjectStore, TLAPS, FiniteSetTheorems

\* The inductive invariant holds before the startup collection runs.
LEMMA InitInvariant == Init => IInv
<1>. SUFFICES ASSUME Init PROVE IInv
  OBVIOUS
<1>. USE ConstantsAssumption DEF Init
<1>1. TypeOK
  BY DEF TypeOK, Stage, Waiting, Worker
<1>2. WriterExclusive
  BY DEF WriterExclusive, Holding, Importing, Collecting, Worker
<1>3. ReferencedPresent
  BY DEF ReferencedPresent
<1>4. StoredSoFar
  BY DEF StoredSoFar, Worker
<1>5. BatchUnused
  BY DEF BatchUnused, Worker
<1>. QED
  BY <1>1, <1>2, <1>3, <1>4, <1>5 DEF IInv

\* Every operation, failure and restart preserves it.  The writer's exclusivity
\* does the work: a step that removes files or rows is taken when no import is
\* between storing its files and committing them.
LEMMA StepInvariant == IInv /\ [Next]_vars => IInv'
<1>. SUFFICES ASSUME IInv, [Next]_vars PROVE IInv'
  OBVIOUS
<1>. USE ConstantsAssumption DEF IInv, vars, disk, importLocals, gcLocals
<1>1. ASSUME NEW c \in Client, NEW stage \in Waiting, Request(c, stage)
      PROVE  IInv'
  <2>1. TypeOK'
    BY <1>1 DEF TypeOK, Request, Goto, Stage, Waiting, Holding, Importing, Collecting, Worker
  <2>2. WriterExclusive'
    BY <1>1 DEF TypeOK, WriterExclusive, Request, Goto, Stage, Waiting, Holding, Importing, Collecting, Worker
  <2>3. ReferencedPresent'
    BY <1>1 DEF TypeOK, ReferencedPresent, Request, Goto
  <2>4. StoredSoFar'
    BY <1>1 DEF TypeOK, StoredSoFar, Request, Goto, Worker, WriterExclusive, Holding, Importing
  <2>5. BatchUnused'
    BY <1>1 DEF TypeOK, BatchUnused, Unused, Referenced, Request, Goto, Worker
  <2>. QED
    BY <2>1, <2>2, <2>3, <2>4, <2>5
<1>2. ASSUME NEW w \in Worker, GiveUp(w)
      PROVE  IInv'
  <2>1. TypeOK'
    BY <1>2 DEF TypeOK, GiveUp, Goto, Stage, Waiting, Holding, Importing, Collecting, Worker
  <2>2. WriterExclusive'
    BY <1>2 DEF TypeOK, WriterExclusive, GiveUp, Goto, Stage, Waiting, Holding, Importing, Collecting, Worker
  <2>3. ReferencedPresent'
    BY <1>2 DEF TypeOK, ReferencedPresent, GiveUp, Goto
  <2>4. StoredSoFar'
    BY <1>2 DEF TypeOK, StoredSoFar, GiveUp, Goto, Worker, WriterExclusive, Holding, Importing
  <2>5. BatchUnused'
    BY <1>2 DEF TypeOK, BatchUnused, Unused, Referenced, GiveUp, Goto, Worker
  <2>. QED
    BY <2>1, <2>2, <2>3, <2>4, <2>5
<1>3. ASSUME NEW w \in Worker, NEW manifest \in SUBSET Revision, AcquireForImport(w, manifest)
      PROVE  IInv'
  <2>1. TypeOK'
    BY <1>3 DEF TypeOK, AcquireForImport, Goto, Stage, Waiting, Holding, Importing, Collecting, Worker
  <2>2. WriterExclusive'
    BY <1>3 DEF TypeOK, WriterExclusive, AcquireForImport, Goto, Stage, Waiting, Holding, Importing, Collecting, Worker
  <2>3. ReferencedPresent'
    BY <1>3 DEF TypeOK, ReferencedPresent, AcquireForImport, Goto
  <2>4. StoredSoFar'
    BY <1>3 DEF TypeOK, StoredSoFar, AcquireForImport, Goto, Worker, WriterExclusive, Holding, Importing
  <2>5. BatchUnused'
    BY <1>3 DEF TypeOK, BatchUnused, Unused, Referenced, AcquireForImport, Goto, Worker
  <2>. QED
    BY <2>1, <2>2, <2>3, <2>4, <2>5
<1>4. ASSUME NEW w \in Worker, AcquireForDelete(w)
      PROVE  IInv'
  <2>1. TypeOK'
    BY <1>4 DEF TypeOK, AcquireForDelete, Goto, Stage, Waiting, Holding, Importing, Collecting, Worker
  <2>2. WriterExclusive'
    BY <1>4 DEF TypeOK, WriterExclusive, AcquireForDelete, Goto, Stage, Waiting, Holding, Importing, Collecting, Worker
  <2>3. ReferencedPresent'
    BY <1>4 DEF TypeOK, ReferencedPresent, AcquireForDelete, Goto
  <2>4. StoredSoFar'
    BY <1>4 DEF TypeOK, StoredSoFar, AcquireForDelete, Goto, Worker, WriterExclusive, Holding, Importing
  <2>5. BatchUnused'
    BY <1>4 DEF TypeOK, BatchUnused, Unused, Referenced, AcquireForDelete, Goto, Worker
  <2>. QED
    BY <2>1, <2>2, <2>3, <2>4, <2>5
<1>5. ASSUME NEW w \in Worker, AcquireForGC(w)
      PROVE  IInv'
  <2>1. TypeOK'
    BY <1>5 DEF TypeOK, AcquireForGC, Goto, Stage, Waiting, Holding, Importing, Collecting, Worker
  <2>2. WriterExclusive'
    BY <1>5 DEF TypeOK, WriterExclusive, AcquireForGC, Goto, Stage, Waiting, Holding, Importing, Collecting, Worker
  <2>3. ReferencedPresent'
    BY <1>5 DEF TypeOK, ReferencedPresent, AcquireForGC, Goto
  <2>4. StoredSoFar'
    BY <1>5 DEF TypeOK, StoredSoFar, AcquireForGC, Goto, Worker, WriterExclusive, Holding, Importing
  <2>5. BatchUnused'
    BY <1>5 DEF TypeOK, BatchUnused, Unused, Referenced, AcquireForGC, Goto, Worker
  <2>. QED
    BY <2>1, <2>2, <2>3, <2>4, <2>5
<1>6. ASSUME NEW w \in Worker, NEW r \in Revision, NextTrace(w, r)
      PROVE  IInv'
  <2>1. TypeOK'
    BY <1>6 DEF TypeOK, NextTrace, Goto, Stage, Waiting, Holding, Importing, Collecting, Worker
  <2>2. WriterExclusive'
    BY <1>6 DEF TypeOK, WriterExclusive, NextTrace, Goto, Stage, Waiting, Holding, Importing, Collecting, Worker
  <2>3. ReferencedPresent'
    BY <1>6 DEF TypeOK, ReferencedPresent, NextTrace, Goto
  <2>4. StoredSoFar'
    BY <1>6 DEF TypeOK, StoredSoFar, NextTrace, Goto, Worker, WriterExclusive, Holding, Importing
  <2>5. BatchUnused'
    BY <1>6 DEF TypeOK, BatchUnused, Unused, Referenced, NextTrace, Goto, Worker
  <2>. QED
    BY <2>1, <2>2, <2>3, <2>4, <2>5
<1>7. ASSUME NEW w \in Worker, NEW d \in Digest, KeepObject(w, d)
      PROVE  IInv'
  <2>1. TypeOK'
    BY <1>7 DEF TypeOK, KeepObject, Stage, Waiting, Holding, Importing, Collecting, Worker
  <2>2. WriterExclusive'
    BY <1>7 DEF TypeOK, WriterExclusive, KeepObject, Stage, Waiting, Holding, Importing, Collecting, Worker
  <2>3. ReferencedPresent'
    BY <1>7 DEF TypeOK, ReferencedPresent, KeepObject
  <2>4. StoredSoFar'
    BY <1>7 DEF TypeOK, StoredSoFar, KeepObject, Worker, WriterExclusive, Holding, Importing
  <2>5. BatchUnused'
    BY <1>7 DEF TypeOK, BatchUnused, Unused, Referenced, KeepObject, Worker
  <2>. QED
    BY <2>1, <2>2, <2>3, <2>4, <2>5
<1>8. ASSUME NEW w \in Worker, NEW d \in Digest, WriteObject(w, d)
      PROVE  IInv'
  <2>1. TypeOK'
    BY <1>8 DEF TypeOK, WriteObject, Stage, Waiting, Holding, Importing, Collecting, Worker
  <2>2. WriterExclusive'
    BY <1>8 DEF TypeOK, WriterExclusive, WriteObject, Stage, Waiting, Holding, Importing, Collecting, Worker
  <2>3. ReferencedPresent'
    BY <1>8 DEF TypeOK, ReferencedPresent, WriteObject
  <2>4. StoredSoFar'
    BY <1>8 DEF TypeOK, StoredSoFar, WriteObject, Worker, WriterExclusive, Holding, Importing
  <2>5. BatchUnused'
    BY <1>8 DEF TypeOK, BatchUnused, Unused, Referenced, WriteObject, WriterExclusive,
                Holding, Importing, Collecting, Worker
  <2>. QED
    BY <2>1, <2>2, <2>3, <2>4, <2>5
<1>9. ASSUME NEW w \in Worker, KeepRevision(w)
      PROVE  IInv'
  <2>1. TypeOK'
    BY <1>9 DEF TypeOK, KeepRevision, TraceDone, Goto, Stage, Waiting, Holding, Importing, Collecting, Worker
  <2>2. WriterExclusive'
    BY <1>9 DEF TypeOK, WriterExclusive, KeepRevision, TraceDone, Goto, Stage, Waiting, Holding, Importing, Collecting, Worker
  <2>3. ReferencedPresent'
    BY <1>9 DEF TypeOK, ReferencedPresent, KeepRevision, TraceDone, Goto
  <2>4. StoredSoFar'
    BY <1>9 DEF TypeOK, StoredSoFar, KeepRevision, TraceDone, Goto, Worker, WriterExclusive, Holding, Importing
  <2>5. BatchUnused'
    BY <1>9 DEF TypeOK, BatchUnused, Unused, Referenced, KeepRevision, TraceDone, Goto, Worker
  <2>. QED
    BY <2>1, <2>2, <2>3, <2>4, <2>5
<1>10. ASSUME NEW w \in Worker, CommitRevision(w)
      PROVE  IInv'
  <2>1. TypeOK'
    <3>1. current[w] \in Revision /\ ObjectsOf[current[w]] \subseteq Digest
      BY <1>10 DEF StoredSoFar, CommitRevision
    <3>2. /\ source_objects' \subseteq Digest
          /\ trace_revisions' \subseteq Revision
      BY <1>10, <3>1 DEF TypeOK, CommitRevision
    <3>. QED
      BY <1>10, <3>2 DEF TypeOK, CommitRevision, TraceDone, Goto, Stage, Holding, Importing
  <2>2. WriterExclusive'
    BY <1>10 DEF TypeOK, WriterExclusive, CommitRevision, TraceDone, Goto, Stage, Waiting, Holding, Importing, Collecting, Worker
  <2>3. ReferencedPresent'
    <3>1. ObjectsOf[current[w]] \subseteq objects
      BY <1>10 DEF StoredSoFar, CommitRevision
    <3>. QED
      BY <1>10, <3>1 DEF ReferencedPresent, CommitRevision
  <2>4. StoredSoFar'
    BY <1>10 DEF TypeOK, StoredSoFar, CommitRevision, TraceDone, Goto, Worker, WriterExclusive, Holding, Importing
  <2>5. BatchUnused'
    <3>1. ASSUME NEW v \in Worker
          PROVE  pc'[v] \notin Collecting
      BY <1>10 DEF TypeOK, WriterExclusive, CommitRevision, TraceDone, Goto, Holding, Importing, Collecting
    <3>. QED
      BY <3>1 DEF BatchUnused, Collecting
  <2>. QED
    BY <2>1, <2>2, <2>3, <2>4, <2>5
<1>11. ASSUME NEW w \in Worker, FailTrace(w)
      PROVE  IInv'
  <2>1. TypeOK'
    BY <1>11 DEF TypeOK, FailTrace, TraceDone, Goto, Stage, Waiting, Holding, Importing, Collecting, Worker
  <2>2. WriterExclusive'
    BY <1>11 DEF TypeOK, WriterExclusive, FailTrace, TraceDone, Goto, Stage, Waiting, Holding, Importing, Collecting, Worker
  <2>3. ReferencedPresent'
    BY <1>11 DEF TypeOK, ReferencedPresent, FailTrace, TraceDone, Goto
  <2>4. StoredSoFar'
    BY <1>11 DEF TypeOK, StoredSoFar, FailTrace, TraceDone, Goto, Worker, WriterExclusive, Holding, Importing
  <2>5. BatchUnused'
    BY <1>11 DEF TypeOK, BatchUnused, Unused, Referenced, FailTrace, TraceDone, Goto, Worker
  <2>. QED
    BY <2>1, <2>2, <2>3, <2>4, <2>5
<1>12. ASSUME NEW w \in Worker, FinishImport(w)
      PROVE  IInv'
  <2>1. TypeOK'
    BY <1>12 DEF TypeOK, FinishImport, Release, Goto, Stage, Waiting, Holding, Importing, Collecting, Worker
  <2>2. WriterExclusive'
    BY <1>12 DEF TypeOK, WriterExclusive, FinishImport, Release, Goto, Stage, Waiting, Holding, Importing, Collecting, Worker
  <2>3. ReferencedPresent'
    BY <1>12 DEF TypeOK, ReferencedPresent, FinishImport, Release, Goto
  <2>4. StoredSoFar'
    BY <1>12 DEF TypeOK, StoredSoFar, FinishImport, Release, Goto, Worker, WriterExclusive, Holding, Importing
  <2>5. BatchUnused'
    BY <1>12 DEF TypeOK, BatchUnused, Unused, Referenced, FinishImport, Release, Goto, Worker
  <2>. QED
    BY <2>1, <2>2, <2>3, <2>4, <2>5
<1>13. ASSUME NEW w \in Worker, NEW t \in Trace, DeleteTrace(w, t)
      PROVE  IInv'
  <2>1. TypeOK'
    BY <1>13 DEF TypeOK, DeleteTrace, Goto, Stage, Waiting, Holding, Importing, Collecting, Worker
  <2>2. WriterExclusive'
    BY <1>13 DEF TypeOK, WriterExclusive, DeleteTrace, Goto, Stage, Waiting, Holding, Importing, Collecting, Worker
  <2>3. ReferencedPresent'
    BY <1>13 DEF TypeOK, ReferencedPresent, DeleteTrace, Goto
  <2>4. StoredSoFar'
    BY <1>13 DEF TypeOK, StoredSoFar, DeleteTrace, Goto, Worker, WriterExclusive, Holding, Importing
  <2>5. BatchUnused'
    <3>1. ASSUME NEW v \in Worker
          PROVE  pc'[v] \notin Collecting \ {"gc_select"}
      BY <1>13 DEF TypeOK, WriterExclusive, DeleteTrace, Goto, Holding, Importing, Collecting
    <3>. QED
      BY <3>1 DEF BatchUnused, Collecting
  <2>. QED
    BY <2>1, <2>2, <2>3, <2>4, <2>5
<1>14. ASSUME NEW w \in Worker, FailDelete(w)
      PROVE  IInv'
  <2>1. TypeOK'
    BY <1>14 DEF TypeOK, FailDelete, Release, Goto, Stage, Waiting, Holding, Importing, Collecting, Worker
  <2>2. WriterExclusive'
    BY <1>14 DEF TypeOK, WriterExclusive, FailDelete, Release, Goto, Stage, Waiting, Holding, Importing, Collecting, Worker
  <2>3. ReferencedPresent'
    BY <1>14 DEF TypeOK, ReferencedPresent, FailDelete, Release, Goto
  <2>4. StoredSoFar'
    BY <1>14 DEF TypeOK, StoredSoFar, FailDelete, Release, Goto, Worker, WriterExclusive, Holding, Importing
  <2>5. BatchUnused'
    BY <1>14 DEF TypeOK, BatchUnused, Unused, Referenced, FailDelete, Release, Goto, Worker
  <2>. QED
    BY <2>1, <2>2, <2>3, <2>4, <2>5
<1>15. ASSUME NEW w \in Worker, SelectUnused(w)
      PROVE  IInv'
  <2>1. TypeOK'
    <3>1. Unused \subseteq Digest
      BY DEF TypeOK, Unused
    <3>2. /\ batch' \in [Worker -> SUBSET Digest]
          /\ full' \in [Worker -> BOOLEAN]
      <4>1. CASE batch' = [batch EXCEPT ![w] = Unused] /\ full' = [full EXCEPT ![w] = FALSE]
        BY <3>1, <4>1 DEF TypeOK
      <4>2. ASSUME NEW some \in SUBSET Unused,
                   batch' = [batch EXCEPT ![w] = some], full' = [full EXCEPT ![w] = TRUE]
            PROVE  /\ batch' \in [Worker -> SUBSET Digest]
                   /\ full' \in [Worker -> BOOLEAN]
        BY <3>1, <4>2 DEF TypeOK
      <4>. QED
        BY <1>15, <4>1, <4>2 DEF SelectUnused
    <3>3. pc' \in [Worker -> Stage]
      BY <1>15 DEF TypeOK, SelectUnused, Goto, Stage, Holding, Collecting
    <3>. QED
      BY <1>15, <3>2, <3>3 DEF TypeOK, SelectUnused
  <2>2. WriterExclusive'
    BY <1>15 DEF TypeOK, WriterExclusive, SelectUnused, Goto, Stage, Waiting, Holding, Importing, Collecting, Worker
  <2>3. ReferencedPresent'
    BY <1>15 DEF TypeOK, ReferencedPresent, SelectUnused, Goto
  <2>4. StoredSoFar'
    BY <1>15 DEF TypeOK, StoredSoFar, SelectUnused, Goto, Worker, WriterExclusive, Holding, Importing
  <2>5. BatchUnused'
    BY <1>15 DEF TypeOK, BatchUnused, Unused, Referenced, SelectUnused, Goto, Worker
  <2>. QED
    BY <2>1, <2>2, <2>3, <2>4, <2>5
<1>16. ASSUME NEW w \in Worker, NEW d \in Digest, RemoveObject(w, d)
      PROVE  IInv'
  <2>1. TypeOK'
    BY <1>16 DEF TypeOK, RemoveObject, Goto, Stage, Waiting, Holding, Importing, Collecting, Worker
  <2>2. WriterExclusive'
    BY <1>16 DEF TypeOK, WriterExclusive, RemoveObject, Goto, Stage, Waiting, Holding, Importing, Collecting, Worker
  <2>3. ReferencedPresent'
    <3>1. d \notin Referenced
      BY <1>16 DEF BatchUnused, Unused, RemoveObject
    <3>. QED
      BY <1>16, <3>1 DEF ReferencedPresent, Referenced, RemoveObject
  <2>4. StoredSoFar'
    <3>1. ASSUME NEW v \in Worker
          PROVE  pc'[v] \notin Importing
      BY <1>16 DEF TypeOK, WriterExclusive, RemoveObject, Goto, Holding, Importing, Collecting
    <3>. QED
      BY <3>1 DEF StoredSoFar, Importing
  <2>5. BatchUnused'
    BY <1>16 DEF TypeOK, BatchUnused, Unused, Referenced, RemoveObject, Goto, Worker
  <2>. QED
    BY <2>1, <2>2, <2>3, <2>4, <2>5
<1>17. ASSUME NEW w \in Worker, DeleteRow(w)
      PROVE  IInv'
  <2>1. TypeOK'
    BY <1>17 DEF TypeOK, DeleteRow, Goto, Stage, Waiting, Holding, Importing, Collecting, Worker
  <2>2. WriterExclusive'
    BY <1>17 DEF TypeOK, WriterExclusive, DeleteRow, Goto, Stage, Waiting, Holding, Importing, Collecting, Worker
  <2>3. ReferencedPresent'
    <3>1. \A r \in trace_revisions : ObjectsOf[r] \subseteq Referenced
      BY DEF Referenced
    <3>. QED
      BY <1>17, <3>1 DEF ReferencedPresent, DeleteRow
  <2>4. StoredSoFar'
    BY <1>17 DEF TypeOK, StoredSoFar, DeleteRow, Goto, Worker, WriterExclusive, Holding, Importing
  <2>5. BatchUnused'
    <3>1. ASSUME NEW v \in Worker, v # w
          PROVE  pc'[v] \notin Collecting
      BY <1>17, <3>1 DEF TypeOK, WriterExclusive, DeleteRow, Goto, Holding, Importing, Collecting
    <3>2. pc'[w] = "gc_remove" /\ full'[w] = full[w] /\ batch'[w] = batch[w] \ {file[w]}
      BY <1>17 DEF TypeOK, DeleteRow, Goto
    <3>3. file[w] \in Unused
      BY <1>17 DEF BatchUnused, DeleteRow
    <3>4. Referenced' = Referenced /\ Unused' = Unused \ {file[w]}
      BY <1>17, <3>3 DEF Unused, Referenced, DeleteRow
    <3>5. batch[w] \subseteq Unused /\ (~full[w] => Unused \subseteq batch[w])
      BY <1>17 DEF BatchUnused, DeleteRow
    <3>. QED
      BY <3>1, <3>2, <3>4, <3>5 DEF BatchUnused, Collecting
  <2>. QED
    BY <2>1, <2>2, <2>3, <2>4, <2>5
<1>18. ASSUME NEW w \in Worker, BatchDone(w)
      PROVE  IInv'
  <2>1. TypeOK'
    BY <1>18 DEF TypeOK, BatchDone, Goto, Stage, Waiting, Holding, Importing, Collecting, Worker
  <2>2. WriterExclusive'
    BY <1>18 DEF TypeOK, WriterExclusive, BatchDone, Goto, Stage, Waiting, Holding, Importing, Collecting, Worker
  <2>3. ReferencedPresent'
    BY <1>18 DEF TypeOK, ReferencedPresent, BatchDone, Goto
  <2>4. StoredSoFar'
    BY <1>18 DEF TypeOK, StoredSoFar, BatchDone, Goto, Worker, WriterExclusive, Holding, Importing
  <2>5. BatchUnused'
    BY <1>18 DEF TypeOK, BatchUnused, Unused, Referenced, BatchDone, Goto, Worker
  <2>. QED
    BY <2>1, <2>2, <2>3, <2>4, <2>5
<1>19. ASSUME NEW w \in Worker, NEW d \in Digest, SweepFile(w, d)
      PROVE  IInv'
  <2>1. TypeOK'
    BY <1>19 DEF TypeOK, SweepFile, Stage, Waiting, Holding, Importing, Collecting, Worker
  <2>2. WriterExclusive'
    BY <1>19 DEF TypeOK, WriterExclusive, SweepFile, Stage, Waiting, Holding, Importing, Collecting, Worker
  <2>3. ReferencedPresent'
    BY <1>19 DEF TypeOK, ReferencedPresent, SweepFile
  <2>4. StoredSoFar'
    <3>1. ASSUME NEW v \in Worker
          PROVE  pc'[v] \notin Importing
      BY <1>19 DEF TypeOK, WriterExclusive, SweepFile, Holding, Importing, Collecting
    <3>. QED
      BY <3>1 DEF StoredSoFar, Importing
  <2>5. BatchUnused'
    BY <1>19 DEF TypeOK, BatchUnused, Unused, Referenced, SweepFile, Worker
  <2>. QED
    BY <2>1, <2>2, <2>3, <2>4, <2>5
<1>20. ASSUME NEW w \in Worker, WalkDone(w)
      PROVE  IInv'
  <2>1. TypeOK'
    BY <1>20 DEF TypeOK, WalkDone, Goto, Stage, Waiting, Holding, Importing, Collecting, Worker
  <2>2. WriterExclusive'
    BY <1>20 DEF TypeOK, WriterExclusive, WalkDone, Goto, Stage, Waiting, Holding, Importing, Collecting, Worker
  <2>3. ReferencedPresent'
    BY <1>20 DEF TypeOK, ReferencedPresent, WalkDone, Goto
  <2>4. StoredSoFar'
    BY <1>20 DEF TypeOK, StoredSoFar, WalkDone, Goto, Worker, WriterExclusive, Holding, Importing
  <2>5. BatchUnused'
    BY <1>20 DEF TypeOK, BatchUnused, Unused, Referenced, WalkDone, Goto, Worker
  <2>. QED
    BY <2>1, <2>2, <2>3, <2>4, <2>5
<1>21. ASSUME NEW w \in Worker, FinishGC(w)
      PROVE  IInv'
  <2>1. TypeOK'
    BY <1>21 DEF TypeOK, FinishGC, Release, Goto, Stage, Waiting, Holding, Importing, Collecting, Worker
  <2>2. WriterExclusive'
    BY <1>21 DEF TypeOK, WriterExclusive, FinishGC, Release, Goto, Stage, Waiting, Holding, Importing, Collecting, Worker
  <2>3. ReferencedPresent'
    BY <1>21 DEF TypeOK, ReferencedPresent, FinishGC, Release, Goto
  <2>4. StoredSoFar'
    BY <1>21 DEF TypeOK, StoredSoFar, FinishGC, Release, Goto, Worker, WriterExclusive, Holding, Importing
  <2>5. BatchUnused'
    BY <1>21 DEF TypeOK, BatchUnused, Unused, Referenced, FinishGC, Release, Goto, Worker
  <2>. QED
    BY <2>1, <2>2, <2>3, <2>4, <2>5
<1>22. ASSUME NEW w \in Worker, FailGC(w)
      PROVE  IInv'
  <2>1. TypeOK'
    BY <1>22 DEF TypeOK, FailGC, Release, Goto, Stage, Waiting, Holding, Importing, Collecting, Worker
  <2>2. WriterExclusive'
    BY <1>22 DEF TypeOK, WriterExclusive, FailGC, Release, Goto, Stage, Waiting, Holding, Importing, Collecting, Worker
  <2>3. ReferencedPresent'
    BY <1>22 DEF TypeOK, ReferencedPresent, FailGC, Release, Goto
  <2>4. StoredSoFar'
    BY <1>22 DEF TypeOK, StoredSoFar, FailGC, Release, Goto, Worker, WriterExclusive, Holding, Importing
  <2>5. BatchUnused'
    BY <1>22 DEF TypeOK, BatchUnused, Unused, Referenced, FailGC, Release, Goto, Worker
  <2>. QED
    BY <2>1, <2>2, <2>3, <2>4, <2>5
<1>23. CASE Restart
  <2>1. TypeOK'
    BY <1>23 DEF TypeOK, Restart, Stage, Waiting, Worker
  <2>2. WriterExclusive'
    BY <1>23 DEF WriterExclusive, Restart, Holding, Importing, Collecting, Worker
  <2>3. ReferencedPresent'
    BY <1>23 DEF ReferencedPresent, Restart
  <2>4. StoredSoFar'
    BY <1>23 DEF StoredSoFar, Restart, Worker
  <2>5. BatchUnused'
    BY <1>23 DEF BatchUnused, Restart, Worker
  <2>. QED
    BY <2>1, <2>2, <2>3, <2>4, <2>5
<1>24. CASE UNCHANGED vars
  BY <1>24 DEF TypeOK, WriterExclusive, ReferencedPresent, StoredSoFar, BatchUnused,
                  Unused, Referenced
<1>. QED
  BY <1>1, <1>2, <1>3, <1>4, <1>5, <1>6, <1>7, <1>8, <1>9, <1>10, <1>11, <1>12, <1>13, <1>14, <1>15, <1>16, <1>17, <1>18, <1>19, <1>20, <1>21, <1>22, <1>23, <1>24 DEF Next, Acquire, Proceed

\* What imports and the collection of unused objects rely on between their steps (IInv)
\* holds in every reachable state.
THEOREM Invariant == Spec => []IInv
<1>. QED
  BY InitInvariant, StepInvariant, PTL DEF Spec

\* Type correctness, from the inductive invariant.
THEOREM TypeCorrect == Spec => []TypeOK
<1>1. IInv => TypeOK
  BY DEF IInv
<1>. QED
  BY <1>1, Invariant, PTL

\* What importTrace, gc and DeleteTrace keep between them: every source file a
\* stored Revision names has its row and its file.
THEOREM SourcesPresent == Spec => []ReferencedPresent
<1>1. IInv => ReferencedPresent
  BY DEF IInv
<1>. QED
  BY <1>1, Invariant, PTL

\* A gc that returns nil has left exactly the objects in use, whatever was
\* interrupted before it and however its rows fell into batches.
THEOREM NothingUnusedLeft == Spec => []CollectionComplete
<1>1. IInv => CollectionComplete
  <2>. SUFFICES ASSUME IInv, NEW w \in Worker, pc[w] = "gc_done"
                PROVE  source_objects = Referenced /\ objects = Referenced
    BY DEF CollectionComplete
  <2>1. Unused = {} /\ objects \subseteq source_objects
    BY DEF IInv, BatchUnused
  <2>2. Referenced \subseteq source_objects /\ Referenced \subseteq objects
    BY DEF IInv, ReferencedPresent, Referenced
  <2>. QED
    BY <2>1, <2>2 DEF Unused
<1>. QED
  BY <1>1, Invariant, PTL

-----------------------------------------------------------------------------
(* The refinement of TraceLibrary *)

\* In a reachable state the Revisions that can be opened are the stored ones.
LEMMA OpenableIsStored == IInv => Openable = trace_revisions
BY DEF IInv, ReferencedPresent, Openable

\* A step of the Store commits one Revision, removes one Trace, or is not seen.
LEMMA StepRefines ==
  ASSUME IInv, IInv', [Next]_vars
  PROVE  [Library!Next]_Openable
<1>1. Openable = trace_revisions /\ Openable' = trace_revisions'
  <2>1. Openable' = trace_revisions'
    BY DEF IInv, ReferencedPresent, Openable
  <2>. QED
    BY <2>1, OpenableIsStored
<1>2. CASE UNCHANGED trace_revisions
  BY <1>1, <1>2
<1>3. ASSUME NEW w \in Worker, CommitRevision(w)
      PROVE  Library!Next
  <2>1. current[w] \in Revision
    BY <1>3 DEF IInv, StoredSoFar, CommitRevision
  <2>2. Library!Commit(current[w])
    BY <1>1, <1>3 DEF Library!Commit, CommitRevision
  <2>. QED
    BY <2>1, <2>2 DEF Library!Next
<1>4. ASSUME NEW w \in Worker, NEW t \in Trace, DeleteTrace(w, t)
      PROVE  Library!Next
  <2>1. Library!Remove(t)
    BY <1>1, <1>4 DEF Library!Remove, DeleteTrace
  <2>. QED
    BY <2>1 DEF Library!Next
<1>5. \/ UNCHANGED trace_revisions
      \/ \E w \in Worker : CommitRevision(w)
      \/ \E w \in Worker, t \in Trace : DeleteTrace(w, t)
  BY DEF Next, Acquire, Proceed, vars, disk, Request, GiveUp, AcquireForImport,
         AcquireForDelete, AcquireForGC, NextTrace, KeepObject, WriteObject,
         KeepRevision, FailTrace, FinishImport, FailDelete, SelectUnused,
         RemoveObject, DeleteRow, BatchDone, SweepFile, WalkDone, FinishGC,
         FailGC, Restart
<1>. QED
  BY <1>2, <1>3, <1>4, <1>5

\* The object store implements the library: a Revision once committed stays
\* fully readable until a deletion of its Trace, through every failure and restart.
THEOREM StoreImplementsLibrary == Spec => ImplementsLibrary
<1>1. Init => Library!Init
  BY DEF Init, Library!Init, Openable
<1>2. IInv /\ IInv' /\ [Next]_vars => [Library!Next]_Openable
  BY StepRefines
<1>. QED
  BY <1>1, <1>2, Invariant, PTL DEF Spec, ImplementsLibrary, Library!Spec
=============================================================================
