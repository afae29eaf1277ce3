-------------------------- MODULE RebuildRowsProofs --------------------------
(***************************************************************************)
(* Proofs about RebuildRows for any Traces, files, row ids and versions:   *)
(* whatever rows are deleted and given their ids again while the rebuild   *)
(* has them in its batch, no Revision is credited with the events of       *)
(* another one's files; and until an item of the batch was rebuilt in rows *)
(* it was not read from, no Trace has another one's.                       *)
(***************************************************************************)
EXTENDS RebuildRows, WellFoundedInduction, TLAPS

\* Row ids: the largest in a table is one of the table's, or 0.
LEMMA LastIsLargest ==
    ASSUME NEW N \in Nat, NEW ids, ids \subseteq 1..N
    PROVE  LastOf(ids) \in ids \cup {0} /\ \A m \in ids : m <= LastOf(ids)
<1> DEFINE above == {k \in Nat : \A m \in ids : m <= k}
           less == OpToRel(<, Nat)
<1>1. above \subseteq Nat /\ above # {}
  <2>1. N \in above
    OBVIOUS
  <2>. QED
    BY <2>1
<1>2. PICK k \in above : \A j \in above : <<j, k>> \notin less
  <2>1. IsWellFoundedOn(less, Nat)
    BY NatLessThanWellFounded
  <2>. HIDE DEF less, above
  <2>. QED
    BY <1>1, <2>1, WFMin
<1>3. k \in ids \cup {0}
  <2>1. SUFFICES ASSUME k \notin ids, k # 0 PROVE FALSE
    OBVIOUS
  <2>2. k - 1 \in above
    BY <2>1
  <2>3. <<k - 1, k>> \in less
    BY <2>1 DEF OpToRel
  <2>. QED
    BY <1>2, <2>2, <2>3
<1>. QED
  BY <1>3 DEF LastOf

\* The id after it is in none of them.
LEMMA NextIsNew ==
    ASSUME NEW N \in Nat, NEW ids, ids \subseteq 1..N
    PROVE  LastOf(ids) + 1 \in Nat \ ({0} \cup ids)
<1> DEFINE last == LastOf(ids)
<1>1. last \in ids \cup {0} /\ \A m \in ids : m <= last
  BY LastIsLargest
<1> HIDE DEF last
<1>2. ids \cup {0} \subseteq Nat
  OBVIOUS
<1>3. last \in Nat
  BY <1>1, <1>2
<1>4. last + 1 \notin ids
  BY <1>1, <1>3
<1>5. last + 1 \in Nat \ ({0} \cup ids)
  BY <1>3, <1>4
<1>. QED
  BY <1>5 DEF last

-----------------------------------------------------------------------------
Typed ==
    /\ version \in 1..MaxVersion
    /\ traces \in [TraceId -> Native \cup {None}]
    /\ revisions \in [RevisionId -> Row \cup {None}]
    /\ observed \subseteq TraceId \X RevisionId \X Files

\* What refers to a row goes with it, so a row that is inserted has nothing yet.
Referenced ==
    /\ \A r \in RevisionRows : revisions[r].trace \in TraceRows
    /\ \A o \in observed : o[1] \in TraceRows /\ o[2] \in RevisionRows

\* A Revision is of the Trace its files are of.
Owned == \A r \in RevisionRows : traces[revisions[r].trace] = OwnerOf[revisions[r].files]

IInv == Typed /\ Referenced /\ Owned /\ MadeFromOwnFiles /\ OwnUnlessMisled

LEMMA Initial == Init => IInv
BY RowConstants DEF Init, IInv, Typed, Referenced, Owned, MadeFromOwnFiles, OwnUnlessMisled, InOwnTrace,
   TraceRows, RevisionRows

\* The id of an inserted row is not in the table.
LEMMA NewIds ==
    ASSUME Typed
    PROVE  /\ LastOf(TraceRows) + 1 \in Nat \ ({0} \cup TraceRows)
           /\ LastOf(RevisionRows) + 1 \in Nat \ ({0} \cup RevisionRows)
<1>1. TraceRows \subseteq 1..MaxTrace /\ MaxTrace \in Nat
  BY RowConstants DEF TraceRows, TraceId
<1>2. RevisionRows \subseteq 1..MaxRevision /\ MaxRevision \in Nat
  BY RowConstants DEF RevisionRows, RevisionId
<1>. QED
  BY <1>1, <1>2, NextIsNew

\* The row of a Trace is its own, or a new one.
LEMMA RowForOwn ==
    ASSUME Typed, NEW n \in Native
    PROVE  /\ RowFor(n) \in Nat \ {0}
           /\ RowFor(n) \in TraceRows => traces[RowFor(n)] = n
<1>1. CASE \E t \in TraceRows : traces[t] = n
  <2>1. RowFor(n) \in TraceRows /\ traces[RowFor(n)] = n
    BY <1>1 DEF RowFor
  <2>. QED
    BY <2>1 DEF TraceRows, TraceId
<1>2. CASE ~\E t \in TraceRows : traces[t] = n
  BY <1>2, NewIds DEF RowFor
<1>. QED
  BY <1>1, <1>2

-----------------------------------------------------------------------------
LEMMA CommitKeeps ==
    ASSUME IInv, NEW files \in Files, NEW status \in Status, CommitRevision(files, status)
    PROVE  IInv'
<1> DEFINE n == OwnerOf[files]
           t == RowFor(n)
           r == LastOf(RevisionRows) + 1
           row == [trace |-> t, files |-> files, status |-> status, version |-> version]
           mine == Inserted(t, r, files, status)
<1>1. n \in Native
  BY RowConstants
<1>2. t \in TraceId /\ (t \in TraceRows => traces[t] = n)
  BY <1>1, RowForOwn DEF IInv, CommitRevision, TraceId
<1>3. r \in RevisionId /\ r \notin RevisionRows
  BY NewIds DEF IInv, CommitRevision, RevisionId
<1>4. row \in Row
  BY <1>2 DEF IInv, Typed, Row
<1>5. /\ traces' = [traces EXCEPT ![t] = n]
      /\ revisions' = [revisions EXCEPT ![r] = row]
      /\ observed' = observed \cup mine
      /\ UNCHANGED <<version, misled>>
  BY DEF CommitRevision
<1>6. mine \subseteq {<<t, r, files>>}
  BY DEF Inserted
<1> HIDE DEF n, t, r, row, mine
<1>7. Typed'
  BY <1>1, <1>2, <1>3, <1>4, <1>5, <1>6 DEF IInv, Typed
<1>8. TraceRows' = TraceRows \cup {t} /\ RevisionRows' = RevisionRows \cup {r}
  BY <1>1, <1>2, <1>3, <1>4, <1>5, RowConstants DEF IInv, Typed, TraceRows, RevisionRows
<1>9. \A q \in RevisionRows : revisions'[q] = revisions[q]
  BY <1>3, <1>5 DEF IInv, Typed, RevisionRows
<1>10. \A s \in TraceRows : traces'[s] = traces[s]
  BY <1>2, <1>5 DEF IInv, Typed, TraceRows
<1>11. revisions'[r] = row /\ traces'[t] = n
  BY <1>2, <1>3, <1>5 DEF IInv, Typed
<1>12. row.trace = t /\ row.files = files
  BY DEF row
<1>13. \A o \in mine : o[1] = t /\ o[2] = r /\ o[3] = files
  BY <1>6
<1>14. Referenced'
  BY <1>5, <1>8, <1>9, <1>11, <1>12, <1>13 DEF IInv, Referenced
<1>15. Owned'
  BY <1>8, <1>9, <1>10, <1>11, <1>12 DEF IInv, Owned, Referenced, n
<1>16. MadeFromOwnFiles'
  BY <1>5, <1>9, <1>11, <1>12, <1>13 DEF IInv, Referenced, MadeFromOwnFiles
<1>17. OwnUnlessMisled'
  BY <1>5, <1>10, <1>11, <1>13 DEF IInv, Referenced, OwnUnlessMisled, InOwnTrace, n
<1>. QED
  BY <1>7, <1>14, <1>15, <1>16, <1>17 DEF IInv

\* The events of a stored Revision replaced in a Trace that is there: as they are made
\* of the Revision's files, only the Trace can be the wrong one.
LEMMA ReplaceKeeps ==
    ASSUME IInv, NEW t \in TraceRows, NEW r \in RevisionRows, NEW status \in Status,
           ReplaceRevisionEvents(t, r, revisions[r].files, status),
           UNCHANGED <<version, traces>>
    PROVE  /\ Typed' /\ Referenced' /\ Owned' /\ MadeFromOwnFiles'
           /\ InOwnTrace /\ t = revisions[r].trace => InOwnTrace'
<1> DEFINE files == revisions[r].files
<1>1. r \in RevisionId /\ t \in TraceId /\ revisions[r] \in Row
  BY DEF IInv, Typed, RevisionRows, TraceRows
<1>2. files \in Files
  BY <1>1 DEF Row
<1>3. /\ observed' = {o \in observed : o[2] # r} \cup {<<t, r, files>>}
      /\ revisions' = [revisions EXCEPT ![r] = [@ EXCEPT !.status = status, !.version = version]]
  BY DEF ReplaceRevisionEvents
<1>4. /\ revisions'[r] \in Row
      /\ revisions'[r].trace = revisions[r].trace /\ revisions'[r].files = files
  BY <1>1, <1>3 DEF IInv, Typed, Row
<1>5. \A q \in RevisionId \ {r} : revisions'[q] = revisions[q]
  BY <1>1, <1>3 DEF IInv, Typed
<1>6. \A q \in RevisionRows : revisions'[q].trace = revisions[q].trace /\ revisions'[q].files = revisions[q].files
  BY <1>4, <1>5 DEF RevisionRows
<1>7. Typed'
  BY <1>1, <1>2, <1>3, <1>4 DEF IInv, Typed
<1>8. TraceRows' = TraceRows /\ RevisionRows' = RevisionRows
  BY <1>1, <1>4, <1>5, RowConstants DEF TraceRows, RevisionRows
<1>9. Referenced'
  BY <1>3, <1>6, <1>8 DEF IInv, Referenced
<1>10. Owned'
  BY <1>6, <1>8 DEF IInv, Owned
<1>11. MadeFromOwnFiles'
  BY <1>3, <1>6 DEF IInv, Referenced, MadeFromOwnFiles
<1>12. ASSUME InOwnTrace, t = revisions[r].trace PROVE InOwnTrace'
  BY <1>3, <1>12 DEF IInv, Owned, InOwnTrace
<1>. QED
  BY <1>7, <1>9, <1>10, <1>11, <1>12

LEMMA ReimportKeeps ==
    ASSUME IInv, NEW r \in RevisionId, NEW status \in Status, Reimport(r, status)
    PROVE  IInv'
<1>1. r \in RevisionRows /\ revisions[r].trace \in TraceRows
  BY DEF IInv, Referenced, Reimport
<1>2. ReplaceRevisionEvents(revisions[r].trace, r, revisions[r].files, status) /\ UNCHANGED <<version, traces, misled>>
  BY DEF Reimport
<1>3. /\ Typed' /\ Referenced' /\ Owned' /\ MadeFromOwnFiles'
      /\ InOwnTrace => InOwnTrace'
  BY <1>1, <1>2, ReplaceKeeps
<1>. QED
  BY <1>2, <1>3 DEF IInv, OwnUnlessMisled

LEMMA RebuildKeeps ==
    ASSUME IInv, NEW item \in batch, NEW status \in Status, Rebuild(item, status)
    PROVE  IInv'
<1> DEFINE r == item.revision
<1>1. r \in RevisionRows /\ UNCHANGED <<version, traces>>
  BY DEF Rebuild
<1>2. CASE status = "failed"
  BY <1>1, <1>2 DEF Rebuild, IInv, Typed, Referenced, Owned, MadeFromOwnFiles, OwnUnlessMisled, InOwnTrace,
     TraceRows, RevisionRows
<1>3. CASE status # "failed"
  <2>1. /\ item.trace \in TraceRows
        /\ ReplaceRevisionEvents(item.trace, r, revisions[r].files, status)
        /\ misled' = (misled \/ ~AsRead(item))
    BY <1>3 DEF Rebuild
  <2>2. /\ Typed' /\ Referenced' /\ Owned' /\ MadeFromOwnFiles'
        /\ InOwnTrace /\ item.trace = revisions[r].trace => InOwnTrace'
    BY <1>1, <2>1, ReplaceKeeps
  <2>3. OwnUnlessMisled'
    BY <2>1, <2>2 DEF IInv, OwnUnlessMisled, AsRead
  <2>. QED
    BY <2>2, <2>3 DEF IInv
<1>. QED
  BY <1>2, <1>3

LEMMA DeleteKeeps ==
    ASSUME IInv, NEW t \in TraceId, DeleteTrace(t)
    PROVE  IInv'
<1> DEFINE gone == {r \in RevisionRows : revisions[r].trace = t}
<1>1. /\ traces' = [traces EXCEPT ![t] = None]
      /\ revisions' = [r \in RevisionId |-> IF r \in gone THEN None ELSE revisions[r]]
      /\ observed' = {o \in observed : o[1] # t /\ o[2] \notin gone}
      /\ UNCHANGED <<version, misled>>
  BY DEF DeleteTrace
<1>2. Typed'
  BY <1>1 DEF IInv, Typed
<1>3. TraceRows' = TraceRows \ {t} /\ RevisionRows' = RevisionRows \ gone
  BY <1>1 DEF IInv, Typed, TraceRows, RevisionRows
<1>4. /\ \A q \in RevisionRows \ gone : revisions'[q] = revisions[q] /\ revisions[q].trace # t
      /\ \A s \in TraceRows \ {t} : traces'[s] = traces[s]
  BY <1>1 DEF IInv, Typed, TraceRows, RevisionRows
<1> HIDE DEF gone
<1>5. Referenced'
  BY <1>1, <1>3, <1>4 DEF IInv, Referenced
<1>6. Owned'
  BY <1>3, <1>4 DEF IInv, Referenced, Owned
<1>7. MadeFromOwnFiles'
  BY <1>1, <1>4 DEF IInv, Referenced, MadeFromOwnFiles
<1>8. OwnUnlessMisled'
  BY <1>1, <1>4 DEF IInv, Referenced, OwnUnlessMisled, InOwnTrace
<1>. QED
  BY <1>2, <1>5, <1>6, <1>7, <1>8 DEF IInv

LEMMA StepKeeps == IInv /\ [Next]_vars => IInv'
<1> USE DEF IInv, Typed, Referenced, Owned, MadeFromOwnFiles, OwnUnlessMisled, InOwnTrace, TraceRows, RevisionRows
<1> SUFFICES ASSUME IInv, [Next]_vars PROVE IInv'
  OBVIOUS
<1>1. ASSUME NEW files \in Files, NEW status \in Status, CommitRevision(files, status) PROVE IInv'
  BY <1>1, CommitKeeps
<1>2. ASSUME NEW r \in RevisionId, NEW status \in Status, Reimport(r, status) PROVE IInv'
  BY <1>2, ReimportKeeps
<1>3. ASSUME NEW t \in TraceId, DeleteTrace(t) PROVE IInv'
  BY <1>3, DeleteKeeps
<1>4. ASSUME NEW v \in 1..MaxVersion, Restart(v) PROVE IInv'
  BY <1>4, RowConstants DEF Restart
<1>5. ASSUME NEW item \in batch, NEW status \in Status, Rebuild(item, status) PROVE IInv'
  BY <1>5, RebuildKeeps
<1>6. ASSUME NEW item \in batch, Abort(item) PROVE IInv'
  BY <1>6 DEF Abort
<1>7. CASE Finish
  BY <1>7 DEF Finish
<1>8. CASE UNCHANGED vars
  BY <1>8 DEF vars
<1>. QED
  BY <1>1, <1>2, <1>3, <1>4, <1>5, <1>6, <1>7, <1>8 DEF Next

\* What a stored Revision is credited with was made from its own files (Renormalize,
\* replaceRevisionEvents), whatever was given its row ids since the batch was read.
THEOREM OwnFilesOnly == Spec => []MadeFromOwnFiles
<1>1. IInv => MadeFromOwnFiles
  BY DEF IInv
<1>. QED
  BY Initial, StepKeeps, <1>1, PTL DEF Spec

\* Until the rebuild has met reused rows, no event is in the history of another Trace.
THEOREM OwnTraceUnlessMisled == Spec => []OwnUnlessMisled
<1>1. IInv => OwnUnlessMisled
  BY DEF IInv
<1>. QED
  BY Initial, StepKeeps, <1>1, PTL DEF Spec
=============================================================================
