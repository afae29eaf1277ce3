--------------------------- MODULE TraceTitlesProofs ---------------------------
(***************************************************************************)
(* Proofs about TraceTitles for any Traces, titles, normalizations, row    *)
(* ids, times and batch sizes: what imports never write into the search    *)
(* text is in it nevertheless, and which imports may replace a title.      *)
(***************************************************************************)
EXTENDS TraceTitles, SortedSetsProofs, SequenceTheorems, WellFoundedInduction, TLAPS

\* Row ids: the largest in a table is one of the table's, or 0.
LEMMA LastIsLargest ==
    ASSUME NEW N \in Nat, NEW ids, ids \subseteq 1..N
    PROVE  LastOf(ids) \in ids \cup {0} /\ \A m \in ids : m <= LastOf(ids)
<1> DEFINE above == {k \in Nat : \A m \in ids : m <= k}
           less == OpToRel(<, Nat)
<1>1. above \subseteq Nat /\ above # {}
  <2>1. N \in above
    OBVIOUS
  <2>. QED
    BY <2>1
<1>2. PICK k \in above : \A j \in above : <<j, k>> \notin less
  <2>1. IsWellFoundedOn(less, Nat)
    BY NatLessThanWellFounded
  <2>. HIDE DEF less, above
  <2>. QED
    BY <1>1, <2>1, WFMin
<1>3. k \in ids \cup {0}
  <2>1. SUFFICES ASSUME k \notin ids, k # 0 PROVE FALSE
    OBVIOUS
  <2>2. k - 1 \in above
    BY <2>1
  <2>3. <<k - 1, k>> \in less
    BY <2>1 DEF OpToRel
  <2>. QED
    BY <1>2, <2>2, <2>3
<1>. QED
  BY <1>3 DEF LastOf

\* The tables are within their bounds.
LEMMA Tables ==
    /\ MaxTrace \in Nat \ {0} /\ MaxRevision \in Nat \ {0} /\ MaxTime \in Nat \ {0}
    /\ TraceRows \subseteq 1..MaxTrace /\ RevisionRows \subseteq 1..MaxRevision
    /\ \A t : RevisionsOf(t) \subseteq RevisionRows
BY TitleConstants DEF TraceRows, TraceId, RevisionRows, RevisionId, RevisionsOf

\* The id of an inserted row is not in the table.
LEMMA NewIds ==
    /\ LastOf(TraceRows) + 1 \in Nat \ ({0} \cup TraceRows)
    /\ LastOf(RevisionRows) + 1 \in Nat \ ({0} \cup RevisionRows)
<1>1. ASSUME NEW N \in Nat, NEW ids, ids \subseteq 1..N
      PROVE  LastOf(ids) + 1 \in Nat \ ({0} \cup ids)
  <2> DEFINE last == LastOf(ids)
  <2>1. last \in ids \cup {0} /\ \A m \in ids : m <= last
    BY <1>1, LastIsLargest
  <2> HIDE DEF last
  <2>2. last \in Nat
    BY <1>1, <2>1
  <2>3. last + 1 \notin ids
    BY <2>1, <2>2
  <2>4. last + 1 \in Nat \ ({0} \cup ids)
    BY <2>2, <2>3
  <2>. QED
    BY <2>4 DEF last
<1>2. TraceRows \subseteq 1..MaxTrace /\ MaxTrace \in Nat /\ RevisionRows \subseteq 1..MaxRevision /\ MaxRevision \in Nat
  BY Tables
<1>. QED
  BY <1>1, <1>2

LEMMA LastRevision ==
    ASSUME NEW t
    PROVE  LastOf(RevisionsOf(t)) \in 0..MaxRevision
<1>1. MaxRevision \in Nat /\ RevisionsOf(t) \subseteq 1..MaxRevision
  BY Tables
<1>2. LastOf(RevisionsOf(t)) \in RevisionsOf(t) \cup {0}
  BY <1>1, LastIsLargest
<1>. QED
  BY <1>1, <1>2

-----------------------------------------------------------------------------
\* The row of a Trace: its own, or a new one.
LEMMA RowForOwn ==
    ASSUME TypeOK, NEW n \in Native
    PROVE  /\ RowFor(n) \in Nat \ {0}
           /\ RowFor(n) \in TraceRows => traces[RowFor(n)].native = n
           /\ RowFor(n) \notin TraceRows => \A t \in TraceRows : traces[t].native # n
<1>1. CASE \E t \in TraceRows : traces[t].native = n
  <2>1. RowFor(n) \in TraceRows /\ traces[RowFor(n)].native = n
    BY <1>1 DEF RowFor
  <2>2. RowFor(n) \in 1..MaxTrace
    BY <2>1 DEF TraceRows, TraceId
  <2>. HIDE DEF RowFor
  <2>3. RowFor(n) \in Nat \ {0}
    BY <2>2, Tables
  <2>. QED
    BY <2>1, <2>3
<1>2. CASE ~\E t \in TraceRows : traces[t].native = n
  BY <1>2, NewIds DEF RowFor
<1>. QED
  BY <1>1, <1>2

\* Rows by their fields.
LEMMA RowFields ==
    ASSUME TypeOK
    PROVE  /\ \A t \in TraceRows : traces[t] \in Trace /\ t \in TraceId
           /\ \A r \in RevisionRows : revisions[r] \in Revision /\ r \in RevisionId
           /\ None \notin Trace /\ None \notin Revision /\ None \notin Title
BY TitleConstants DEF TypeOK, TraceRows, RevisionRows

LEMMA LabelsAreTitles ==
    ASSUME NEW trace \in Trace
    PROVE  CurrentSearchLabels(trace) \subseteq Title
BY DEF Trace, CurrentSearchLabels, SearchLabels, Title

LEMMA NormalizationType ==
    ASSUME NEW norm \in Normalizations
    PROVE  norm.status \in Status /\ norm.found \in Found /\ norm.title \in Collected \cup {None}
BY TitleConstants

-----------------------------------------------------------------------------
\* The titles no import writes are in the text.
IInv == TypeOK /\ RowsAgree /\ StoredTitlesIndexed

LEMMA InitInvariant == Init => IInv
<1> SUFFICES ASSUME Init PROVE IInv
  OBVIOUS
<1>1. TraceRows = {} /\ RevisionRows = {}
  BY DEF Init, TraceRows, RevisionRows
<1>2. TypeOK
  BY DEF Init, TypeOK
<1>. QED
  BY <1>1, <1>2 DEF IInv, RowsAgree, StoredTitlesIndexed, Init

\* A title is replaced only by a Revision that is new and as recent as the others.
TitleStep ==
    \A t \in TraceRows \cap TraceRows' :
        traces[t].title \notin {None, traces'[t].title} =>
            \E r \in RevisionRows' \ RevisionRows :
                /\ revisions'[r].trace = t
                /\ revisions'[r].updated >= traces[t].updated

\* The two rows that a commit writes.
LEMMA CommitKeeps ==
    ASSUME IInv, NEW n \in Native, NEW updated \in 1..MaxTime, NEW title \in Collected \cup {None},
           NEW norm \in Normalizations, CommitRevision(n, updated, title, norm)
    PROVE  IInv' /\ TitleStep
<1>0. PICK t, r : t = RowFor(n) /\ r = LastOf(RevisionRows) + 1
  OBVIOUS
<1> DEFINE trace == IF t \in TraceRows THEN traces[t]
                    ELSE [native |-> n, title |-> title, override |-> None,
                          generated |-> None, generatedFor |-> 0, updated |-> updated]
           newest == updated >= trace.updated
           collected == IF newest THEN title ELSE trace.title
           text == Indexed(norm.found, SearchLabels({title, trace.override, trace.generated}))
<1>1. TypeOK /\ RowsAgree /\ StoredTitlesIndexed
  BY DEF IInv
<1>2. /\ t \in TraceId /\ r \in RevisionId /\ r \notin RevisionRows
      /\ t \in TraceRows => traces[t].native = n
      /\ t \notin TraceRows => \A u \in TraceRows : traces[u].native # n
  <2>1. t <= MaxTrace /\ r <= MaxRevision
    BY <1>0 DEF CommitRevision
  <2>2. /\ t \in Nat \ {0}
        /\ t \in TraceRows => traces[t].native = n
        /\ t \notin TraceRows => \A u \in TraceRows : traces[u].native # n
    BY <1>0, <1>1, RowForOwn
  <2>3. r \in Nat \ {0} /\ r \notin RevisionRows
    BY <1>0, NewIds
  <2>. QED
    BY <2>1, <2>2, <2>3, Tables DEF TraceId, RevisionId
<1>3. /\ revisions' = [revisions EXCEPT ![r] =
             [trace |-> t, updated |-> updated, status |-> norm.status, found |-> norm.found, text |-> text]]
      /\ traces' = [traces EXCEPT ![t] =
             [trace EXCEPT !.title = IF collected = None THEN norm.title ELSE collected,
                           !.updated = IF newest THEN updated ELSE @]]
      /\ UNCHANGED <<read, queue, job>>
  BY <1>0 DEF CommitRevision, worker
<1>4. norm.status \in Status /\ norm.found \in Found /\ norm.title \in Collected \cup {None}
  BY NormalizationType
<1>5. trace \in Trace /\ trace.native = n
  <2>1. CASE t \in TraceRows
    BY <1>1, <1>2, <2>1, RowFields
  <2>2. CASE t \notin TraceRows
    BY <1>1, <2>2, Tables DEF Trace
  <2>. QED
    BY <2>1, <2>2
<1> DEFINE new == [trace EXCEPT !.title = IF collected = None THEN norm.title ELSE collected,
                                !.updated = IF newest THEN updated ELSE @]
           row == [trace |-> t, updated |-> updated, status |-> norm.status, found |-> norm.found, text |-> text]
<1>6. /\ new \in Trace /\ new.native = n /\ new.updated >= updated /\ new.updated >= trace.updated
      /\ new.override = trace.override /\ new.generated = trace.generated
  <2>1. trace.updated \in 1..MaxTime /\ MaxTime \in Nat /\ updated \in 1..MaxTime /\ trace.title \in Collected \cup {None}
    BY <1>5, Tables DEF Trace
  <2>2. collected \in Collected \cup {None}
    BY <2>1
  <2>. HIDE DEF trace, collected
  <2>3. new \in Trace /\ new.native = n /\ new.override = trace.override /\ new.generated = trace.generated
    BY <1>4, <1>5, <2>1, <2>2 DEF Trace
  <2>4. new.updated = IF newest THEN updated ELSE trace.updated
    BY <1>5 DEF Trace
  <2>. HIDE DEF new
  <2>. QED
    BY <2>1, <2>3, <2>4
<1>7. row \in Revision
  <2>1. text \subseteq Title
    BY <1>5 DEF Trace, Indexed, SearchLabels, Title
  <2>. QED
    BY <1>2, <1>4, <2>1 DEF Revision, TraceId
<1>8. /\ traces' = [traces EXCEPT ![t] = new] /\ revisions' = [revisions EXCEPT ![r] = row]
      /\ row.trace = t /\ row.updated = updated /\ row.found = norm.found /\ row.text = text
  BY <1>3
<1>9. new.title # trace.title => newest \/ trace.title = None
  BY <1>5 DEF Trace
<1>10. t \in TraceRows => trace = traces[t]
  OBVIOUS
<1>11. norm.found # "nothing" => SearchLabels({trace.override, trace.generated}) \subseteq text
  BY DEF Indexed, SearchLabels
<1> HIDE DEF new, row, trace, text, collected
<1>12. TypeOK'
  BY <1>1, <1>2, <1>3, <1>6, <1>7, <1>8 DEF TypeOK
<1>13. /\ TraceRows' = TraceRows \cup {t} /\ traces'[t] = new /\ \A u \in TraceRows \ {t} : traces'[u] = traces[u]
       /\ RevisionRows' = RevisionRows \cup {r} /\ revisions'[r] = row /\ \A q \in RevisionRows : revisions'[q] = revisions[q]
  BY <1>1, <1>2, <1>6, <1>7, <1>8, TitleConstants DEF TypeOK, TraceRows, RevisionRows
<1>14. RowsAgree'
  <2>1. \A u \in TraceRows' : RevisionsOf(u)' # {}
    <3>1. r \in RevisionsOf(t)'
      BY <1>8, <1>13 DEF RevisionsOf
    <3>2. \A u \in TraceRows : RevisionsOf(u) \subseteq RevisionsOf(u)'
      BY <1>13 DEF RevisionsOf
    <3>. QED
      BY <1>1, <1>13, <3>1, <3>2 DEF RowsAgree
  <2>2. \A u, v \in TraceRows' : traces'[u].native = traces'[v].native => u = v
    BY <1>1, <1>2, <1>6, <1>13 DEF RowsAgree
  <2>3. ASSUME NEW q \in RevisionRows'
        PROVE  revisions'[q].trace \in TraceRows' /\ revisions'[q].updated <= traces'[revisions'[q].trace].updated
    <3>1. CASE q = r
      BY <1>6, <1>8, <1>13, <3>1, Tables DEF Trace
    <3>2. CASE q # r
      <4>1. q \in RevisionRows /\ revisions'[q] = revisions[q] /\ revisions[q].trace \in TraceRows
            /\ revisions[q].updated <= traces[revisions[q].trace].updated
        BY <1>1, <1>13, <3>2 DEF RowsAgree
      <4>2. CASE revisions[q].trace = t
        <5>1. traces[t].updated <= new.updated
          BY <1>6, <1>10, <4>1, <4>2
        <5>2. revisions[q].updated \in Nat /\ traces[t].updated \in Nat /\ new.updated \in Nat
          BY <1>1, <1>6, <4>1, <4>2, RowFields, Tables DEF Trace, Revision
        <5>. QED
          BY <1>13, <4>1, <4>2, <5>1, <5>2
      <4>. QED
        BY <1>13, <4>1, <4>2
    <3>. QED
      BY <3>1, <3>2
  <2>4. \A q \in RevisionId : read'[q] # None => q \in RevisionRows'
    BY <1>1, <1>3, <1>13 DEF RowsAgree
  <2>. QED
    BY <2>1, <2>2, <2>3, <2>4 DEF RowsAgree
<1>15. StoredTitlesIndexed'
  <2> SUFFICES ASSUME NEW q \in RevisionRows', revisions'[q].found # "nothing"
               PROVE  SearchLabels({traces'[revisions'[q].trace].override, traces'[revisions'[q].trace].generated})
                          \subseteq revisions'[q].text
    BY DEF StoredTitlesIndexed
  <2>1. CASE q = r
    BY <1>6, <1>8, <1>11, <1>13, <2>1
  <2>2. CASE q # r
    <3>1. q \in RevisionRows /\ revisions'[q] = revisions[q] /\ revisions[q].trace \in TraceRows
          /\ SearchLabels({traces[revisions[q].trace].override, traces[revisions[q].trace].generated}) \subseteq revisions[q].text
      BY <1>1, <1>13, <2>2 DEF RowsAgree, StoredTitlesIndexed
    <3>. QED
      BY <1>6, <1>10, <1>13, <3>1
  <2>. QED
    BY <2>1, <2>2
<1>16. TitleStep
  <2> SUFFICES ASSUME NEW u \in TraceRows \cap TraceRows', traces[u].title \notin {None, traces'[u].title}
               PROVE  \E q \in RevisionRows' \ RevisionRows :
                          revisions'[q].trace = u /\ revisions'[q].updated >= traces[u].updated
    BY DEF TitleStep
  <2>1. u = t
    BY <1>13
  <2>2. updated >= traces[t].updated
    BY <1>9, <1>10, <1>13, <2>1
  <2>. QED
    BY <1>2, <1>8, <1>13, <2>1, <2>2
<1>. QED
  BY <1>12, <1>14, <1>15, <1>16 DEF IInv

-----------------------------------------------------------------------------
\* Steps that insert and delete nothing.
SameRows ==
    /\ TraceRows' = TraceRows /\ RevisionRows' = RevisionRows
    /\ \A t \in TraceRows : traces'[t].native = traces[t].native /\ traces'[t].updated = traces[t].updated
    /\ \A r \in RevisionRows : revisions'[r].trace = revisions[r].trace /\ revisions'[r].updated = revisions[r].updated
    /\ \A r \in RevisionId : read'[r] # None => r \in RevisionRows

LEMMA SameRowsAgree ==
    ASSUME RowsAgree, SameRows
    PROVE  RowsAgree'
<1>1. \A t \in TraceRows : RevisionsOf(t)' # {}
  <2> TAKE t \in TraceRows
  <2>1. RevisionsOf(t)' = RevisionsOf(t)
    BY DEF SameRows, RevisionsOf
  <2>. QED
    BY <2>1 DEF RowsAgree
<1>. QED
  BY <1>1 DEF RowsAgree, SameRows

\* One row of each table written anew, with the fields it is known by left alone.
LEMMA RowsWritten ==
    ASSUME IInv, NEW r \in RevisionRows, NEW row \in Revision,
           row.trace = revisions[r].trace, row.updated = revisions[r].updated,
           NEW new \in Trace, new.native = traces[row.trace].native, new.updated = traces[row.trace].updated,
           new.override = traces[row.trace].override, new.generated = traces[row.trace].generated,
           row.found # "nothing" => SearchLabels({new.override, new.generated}) \subseteq row.text,
           new.title = traces[row.trace].title \/ traces[row.trace].title = None,
           traces' = [traces EXCEPT ![row.trace] = new], revisions' = [revisions EXCEPT ![r] = row],
           read' \in [RevisionId -> (SUBSET Title) \cup {None}],
           \A q \in RevisionId : read'[q] # None => q \in RevisionRows,
           UNCHANGED <<queue, job>>
    PROVE  IInv' /\ TitleStep
<1>1. TypeOK /\ RowsAgree /\ StoredTitlesIndexed /\ row.trace \in TraceRows
  BY DEF IInv, RowsAgree
<1>2. row.trace \in TraceId /\ r \in RevisionId
  BY <1>1, RowFields
<1>3. TypeOK'
  BY <1>1, <1>2 DEF TypeOK
<1>4. /\ traces'[row.trace] = new /\ \A u \in TraceRows \ {row.trace} : traces'[u] = traces[u]
      /\ revisions'[r] = row /\ \A q \in RevisionRows \ {r} : revisions'[q] = revisions[q]
      /\ TraceRows' = TraceRows /\ RevisionRows' = RevisionRows
  BY <1>1, <1>2, TitleConstants DEF TypeOK, TraceRows, RevisionRows
<1>5. RowsAgree'
  BY <1>1, <1>4, SameRowsAgree DEF SameRows
<1>6. StoredTitlesIndexed'
  <2> SUFFICES ASSUME NEW q \in RevisionRows', revisions'[q].found # "nothing"
               PROVE  SearchLabels({traces'[revisions'[q].trace].override, traces'[revisions'[q].trace].generated})
                          \subseteq revisions'[q].text
    BY DEF StoredTitlesIndexed
  <2>1. CASE q = r
    BY <1>4, <2>1
  <2>2. CASE q # r
    <3>1. q \in RevisionRows /\ revisions'[q] = revisions[q] /\ revisions[q].trace \in TraceRows
          /\ SearchLabels({traces[revisions[q].trace].override, traces[revisions[q].trace].generated}) \subseteq revisions[q].text
      BY <1>1, <1>4, <2>2 DEF RowsAgree, StoredTitlesIndexed
    <3>. QED
      BY <1>4, <3>1
  <2>. QED
    BY <2>1, <2>2
<1>7. TitleStep
  BY <1>1, <1>4 DEF TitleStep
<1>. QED
  BY <1>3, <1>5, <1>6, <1>7 DEF IInv

\* Events that are replaced: the caller's labels have what is stored.
LEMMA ReplaceKeeps ==
    ASSUME IInv, NEW r \in RevisionRows, NEW collected \in Collected \cup {None}, NEW labels \in SUBSET Title,
           NEW norm \in Normalizations, ReplaceEvents(r, collected, labels, norm),
           LET trace == traces[revisions[r].trace] IN
               /\ SearchLabels({trace.override, trace.generated}) \subseteq labels
               /\ collected = trace.title \/ trace.title = None,
           read' \in [RevisionId -> (SUBSET Title) \cup {None}],
           \A q \in RevisionId : read'[q] # None => q \in RevisionRows,
           UNCHANGED <<queue, job>>
    PROVE  IInv' /\ TitleStep
<1>1. PICK t : t = revisions[r].trace
  OBVIOUS
<1> DEFINE new == [traces[t] EXCEPT !.title = IF collected = None THEN norm.title ELSE collected,
                                    !.generatedFor = IF traces[t].generated = None THEN 0 ELSE traces[t].generatedFor]
           row == [revisions[r] EXCEPT !.status = norm.status, !.found = norm.found,
                                       !.text = Indexed(norm.found, labels)]
<1>2. TypeOK /\ t \in TraceRows /\ t \in TraceId /\ traces[t] \in Trace /\ revisions[r] \in Revision /\ r \in RevisionId
  BY <1>1, RowFields DEF IInv, RowsAgree
<1>3. norm.status \in Status /\ norm.found \in Found /\ norm.title \in Collected \cup {None}
  BY NormalizationType
<1>4. traces' = [traces EXCEPT ![t] = new] /\ revisions' = [revisions EXCEPT ![r] = row]
  BY <1>1 DEF ReplaceEvents
<1>5. /\ new \in Trace /\ new.native = traces[t].native /\ new.updated = traces[t].updated
      /\ new.override = traces[t].override /\ new.generated = traces[t].generated
      /\ new.title = IF collected = None THEN norm.title ELSE collected
  <2>1. (IF collected = None THEN norm.title ELSE collected) \in Collected \cup {None}
    BY <1>3
  <2>2. (IF traces[t].generated = None THEN 0 ELSE traces[t].generatedFor) \in 0..MaxRevision
    BY <1>2, Tables DEF Trace
  <2>. QED
    BY <1>2, <2>1, <2>2 DEF Trace
<1>6. /\ row \in Revision /\ row.trace = t /\ row.updated = revisions[r].updated
      /\ row.found = norm.found /\ row.text = Indexed(norm.found, labels)
  <2>1. Indexed(norm.found, labels) \in SUBSET Title
    BY DEF Indexed
  <2>. QED
    BY <1>1, <1>2, <1>3, <2>1 DEF Revision
<1>7. new.title = traces[t].title \/ traces[t].title = None
  BY <1>1, <1>5
<1>8. row.found # "nothing" => SearchLabels({new.override, new.generated}) \subseteq row.text
  BY <1>1, <1>5, <1>6 DEF Indexed
<1> HIDE DEF new, row
<1>. QED
  BY <1>1, <1>4, <1>5, <1>6, <1>7, <1>8, RowsWritten

LEMMA ReimportKeeps ==
    ASSUME IInv, NEW r \in RevisionId, NEW updated \in 1..MaxTime, NEW title \in Collected \cup {None},
           NEW norm \in Normalizations, Reimport(r, updated, title, norm)
    PROVE  IInv' /\ TitleStep
<1>1. PICK t : t = revisions[r].trace
  OBVIOUS
<1> DEFINE collected == IF Backfilled(r, updated, title) THEN title ELSE traces[t].title
           labels == SearchLabels({title, traces[t].override, traces[t].generated})
<1>2. /\ TypeOK /\ r \in RevisionRows /\ t \in TraceRows /\ t \in TraceId
      /\ traces[t] \in Trace /\ revisions[r] \in Revision
  BY <1>1, RowFields DEF IInv, RowsAgree, Reimport
<1>3. /\ read' \in [RevisionId -> (SUBSET Title) \cup {None}] /\ UNCHANGED <<queue, job>>
      /\ \A q \in RevisionId : read'[q] # None => q \in RevisionRows
  BY DEF Reimport, worker, IInv, TypeOK, RowsAgree
<1>4. CASE revisions[r].status = "normalized" \/ norm.status = "failed"
  <2> DEFINE new == [traces[t] EXCEPT !.title = title]
             row == [revisions[r] EXCEPT !.text = Indexed(revisions[r].found, revisions[r].text \cup {title})]
  <2>1. /\ title # None /\ traces[t].title = None
        /\ traces' = [traces EXCEPT ![t] = new] /\ revisions' = [revisions EXCEPT ![r] = row]
    BY <1>1, <1>2, <1>4 DEF Reimport, Backfilled, TypeOK
  <2>2. /\ new \in Trace /\ new.native = traces[t].native /\ new.updated = traces[t].updated
        /\ new.override = traces[t].override /\ new.generated = traces[t].generated
    BY <1>2 DEF Trace
  <2>3. /\ row \in Revision /\ row.trace = t /\ row.updated = revisions[r].updated
        /\ row.found = revisions[r].found /\ row.text = Indexed(revisions[r].found, revisions[r].text \cup {title})
    <3>1. Indexed(revisions[r].found, revisions[r].text \cup {title}) \in SUBSET Title
      BY <1>2, <2>1 DEF Indexed, Revision, Title
    <3>. QED
      BY <1>1, <1>2, <3>1 DEF Revision
  <2>4. row.found # "nothing" => SearchLabels({new.override, new.generated}) \subseteq row.text
    <3>1. revisions[r].found # "nothing" =>
             SearchLabels({traces[t].override, traces[t].generated}) \subseteq revisions[r].text
      BY <1>1, <1>2 DEF IInv, StoredTitlesIndexed
    <3>. HIDE DEF new, row
    <3>. QED
      BY <2>2, <2>3, <3>1 DEF Indexed
  <2>. HIDE DEF new, row
  <2>. QED
    BY <1>1, <1>2, <1>3, <2>1, <2>2, <2>3, <2>4, RowsWritten
<1>5. CASE ~(revisions[r].status = "normalized" \/ norm.status = "failed")
  <2>1. ReplaceEvents(r, collected, labels, norm)
    BY <1>1, <1>5 DEF Reimport
  <2>2. /\ collected \in Collected \cup {None} /\ labels \in SUBSET Title
        /\ collected = traces[t].title \/ traces[t].title = None
        /\ SearchLabels({traces[t].override, traces[t].generated}) \subseteq labels
    BY <1>1, <1>2 DEF Trace, Backfilled, SearchLabels, Title
  <2>. HIDE DEF collected, labels
  <2>. QED
    BY <1>1, <1>2, <1>3, <2>1, <2>2, ReplaceKeeps
<1>. QED
  BY <1>4, <1>5

LEMMA RebuildKeeps ==
    ASSUME IInv, NEW r \in RevisionId, NEW norm \in Normalizations, Rebuild(r, norm)
    PROVE  IInv' /\ TitleStep
<1>1. PICK t : t = revisions[r].trace
  OBVIOUS
<1>2. /\ TypeOK /\ r \in RevisionRows /\ t \in TraceRows /\ traces[t] \in Trace
  BY <1>1, RowFields DEF IInv, RowsAgree, Rebuild
<1>3. /\ read' \in [RevisionId -> (SUBSET Title) \cup {None}] /\ UNCHANGED <<queue, job>>
      /\ \A q \in RevisionId : read'[q] # None => q \in RevisionRows
  BY DEF Rebuild, worker, IInv, TypeOK, RowsAgree
<1>4. CASE norm.status = "failed"
  <2>1. UNCHANGED <<traces, revisions>>
    BY <1>4 DEF Rebuild, rows
  <2>2. TypeOK' /\ SameRows /\ StoredTitlesIndexed' /\ TitleStep
    BY <1>2, <1>3, <2>1 DEF IInv, TypeOK, SameRows, StoredTitlesIndexed, TitleStep, TraceRows, RevisionRows
  <2>. QED
    BY <2>2, SameRowsAgree DEF IInv
<1>5. CASE norm.status # "failed"
  <2>1. ReplaceEvents(r, traces[t].title, CurrentSearchLabels(traces[t]), norm)
    BY <1>1, <1>5 DEF Rebuild
  <2>2. /\ traces[t].title \in Collected \cup {None} /\ CurrentSearchLabels(traces[t]) \in SUBSET Title
        /\ SearchLabels({traces[t].override, traces[t].generated}) \subseteq CurrentSearchLabels(traces[t])
    BY <1>2, LabelsAreTitles DEF Trace, CurrentSearchLabels, SearchLabels
  <2>. QED
    BY <1>1, <1>2, <1>3, <2>1, <2>2, ReplaceKeeps
<1>. QED
  BY <1>4, <1>5

-----------------------------------------------------------------------------
\* A Trace's titles are written, and all its Revisions indexed with them again.
LEMMA ReindexKeeps ==
    ASSUME IInv, NEW t \in TraceRows, NEW new \in Trace,
           new.native = traces[t].native, new.updated = traces[t].updated, new.title = traces[t].title,
           traces' = [traces EXCEPT ![t] = new], ReindexTraceSearch(t, new), UNCHANGED read,
           queue' \in Seq(TraceId \X (0..MaxRevision)),
           job' # None => queue' # <<>> /\ Head(queue') = <<job'.trace, job'.revision>>
    PROVE  IInv' /\ TitleStep
<1>1. TypeOK /\ RowsAgree /\ StoredTitlesIndexed /\ t \in TraceId
  BY RowFields DEF IInv
<1> DEFINE Row(r) == [revisions[r] EXCEPT !.text = Indexed(revisions[r].found, CurrentSearchLabels(new))]
<1>2. \A r \in RevisionRows :
         /\ Row(r) \in Revision /\ Row(r).trace = revisions[r].trace /\ Row(r).updated = revisions[r].updated
         /\ Row(r).found = revisions[r].found
         /\ Row(r).text = Indexed(revisions[r].found, CurrentSearchLabels(new))
  <2> TAKE r \in RevisionRows
  <2>1. revisions[r] \in Revision /\ Indexed(revisions[r].found, CurrentSearchLabels(new)) \in SUBSET Title
    BY <1>1, RowFields, LabelsAreTitles DEF Indexed
  <2>. QED
    BY <2>1 DEF Revision
<1>3. \A r \in RevisionId : revisions'[r] = IF r \in RevisionsOf(t) THEN Row(r) ELSE revisions[r]
  BY DEF ReindexTraceSearch
<1>4. \A r : r \in RevisionsOf(t) <=> r \in RevisionRows /\ revisions[r].trace = t
  BY DEF RevisionsOf
<1>5. DOMAIN revisions' = RevisionId /\ revisions' = [r \in RevisionId |-> revisions'[r]]
  BY DEF ReindexTraceSearch
<1> HIDE DEF Row
<1>6. TypeOK'
  <2>1. revisions' \in [RevisionId -> Revision \cup {None}]
    BY <1>1, <1>2, <1>3, <1>4, <1>5 DEF TypeOK
  <2>. QED
    BY <1>1, <2>1 DEF TypeOK
<1>7. /\ traces'[t] = new /\ \A u \in TraceRows \ {t} : traces'[u] = traces[u]
      /\ TraceRows' = TraceRows
  BY <1>1, TitleConstants DEF TypeOK, TraceRows
<1>8. RevisionRows' = RevisionRows
  BY <1>1, <1>2, <1>3, <1>4, TitleConstants DEF TypeOK, RevisionRows
<1>9. \A r \in RevisionRows : revisions'[r].trace = revisions[r].trace /\ revisions'[r].updated = revisions[r].updated
                                /\ revisions'[r].found = revisions[r].found
  BY <1>1, <1>2, <1>3, RowFields
<1>10. RowsAgree'
  BY <1>1, <1>7, <1>8, <1>9, SameRowsAgree DEF SameRows, RowsAgree
<1>11. StoredTitlesIndexed'
  <2> SUFFICES ASSUME NEW r \in RevisionRows, revisions[r].found # "nothing"
               PROVE  SearchLabels({traces'[revisions[r].trace].override, traces'[revisions[r].trace].generated})
                          \subseteq revisions'[r].text
    BY <1>8, <1>9 DEF StoredTitlesIndexed
  <2>1. revisions[r].trace \in TraceRows /\ r \in RevisionId
    BY <1>1, RowFields DEF RowsAgree
  <2>2. CASE revisions[r].trace = t
    <3>1. revisions'[r].text = CurrentSearchLabels(new)
      BY <1>2, <1>3, <1>4, <2>1, <2>2 DEF Indexed
    <3>. QED
      BY <1>7, <2>2, <3>1 DEF CurrentSearchLabels, SearchLabels
  <2>3. CASE revisions[r].trace # t
    BY <1>1, <1>3, <1>4, <1>7, <2>1, <2>3 DEF StoredTitlesIndexed
  <2>. QED
    BY <2>2, <2>3
<1>12. TitleStep
  BY <1>7 DEF TitleStep
<1>. QED
  BY <1>6, <1>10, <1>11, <1>12 DEF IInv

LEMMA OverrideKeeps ==
    ASSUME IInv, NEW t \in TraceId, NEW title \in Manual \cup {None}, SetTitleOverride(t, title)
    PROVE  IInv' /\ TitleStep
<1> DEFINE new == [traces[t] EXCEPT !.override = title]
<1>1. /\ t \in TraceRows /\ traces' = [traces EXCEPT ![t] = new] /\ ReindexTraceSearch(t, new)
      /\ UNCHANGED <<read, queue, job>>
  BY DEF SetTitleOverride, worker
<1>2. TypeOK /\ traces[t] \in Trace
  BY <1>1, RowFields DEF IInv
<1>3. /\ new \in Trace /\ new.native = traces[t].native /\ new.updated = traces[t].updated
      /\ new.title = traces[t].title
  BY <1>2 DEF Trace
<1>4. /\ queue' \in Seq(TraceId \X (0..MaxRevision))
      /\ job' # None => queue' # <<>> /\ Head(queue') = <<job'.trace, job'.revision>>
  BY <1>1, <1>2 DEF TypeOK
<1> HIDE DEF new
<1>. QED
  BY <1>1, <1>3, <1>4, ReindexKeeps

LEMMA DeleteKeeps ==
    ASSUME IInv, NEW t \in TraceId, DeleteTrace(t)
    PROVE  IInv' /\ TitleStep
<1>1. TypeOK /\ RowsAgree /\ StoredTitlesIndexed
  BY DEF IInv
<1>2. /\ traces' = [traces EXCEPT ![t] = None]
      /\ revisions' = [r \in RevisionId |-> IF r \in RevisionsOf(t) THEN None ELSE revisions[r]]
      /\ read' = [r \in RevisionId |-> IF r \in RevisionsOf(t) THEN None ELSE read[r]]
      /\ UNCHANGED <<queue, job>>
  BY DEF DeleteTrace, worker
<1>3. TypeOK'
  BY <1>1, <1>2 DEF TypeOK
<1>4. /\ TraceRows' = TraceRows \ {t} /\ \A u \in TraceRows' : traces'[u] = traces[u]
      /\ RevisionRows' = RevisionRows \ RevisionsOf(t) /\ \A r \in RevisionRows' : revisions'[r] = revisions[r]
  BY <1>1, <1>2 DEF TypeOK, TraceRows, RevisionRows
<1>5. \A r \in RevisionRows' : r \in RevisionRows /\ revisions[r].trace # t /\ revisions[r].trace \in TraceRows'
  BY <1>1, <1>4 DEF RevisionsOf, RowsAgree
<1>6. RowsAgree'
  <2>1. ASSUME NEW u \in TraceRows' PROVE RevisionsOf(u)' # {}
    <3>1. RevisionsOf(u)' = RevisionsOf(u)
      BY <1>4, <2>1 DEF RevisionsOf
    <3>. QED
      BY <1>1, <1>4, <3>1 DEF RowsAgree
  <2>2. \A r \in RevisionId : read'[r] # None => r \in RevisionRows'
    BY <1>1, <1>2, <1>4 DEF RowsAgree, TypeOK
  <2>. QED
    BY <1>1, <1>4, <1>5, <2>1, <2>2 DEF RowsAgree
<1>7. StoredTitlesIndexed' /\ TitleStep
  BY <1>1, <1>4, <1>5, ZenonT(30) DEF StoredTitlesIndexed, TitleStep
<1>. QED
  BY <1>3, <1>6, <1>7 DEF IInv

-----------------------------------------------------------------------------
\* Steps of the worker that write no row.
LEMMA NothingWritten ==
    ASSUME IInv, UNCHANGED rows, read' \in [RevisionId -> (SUBSET Title) \cup {None}],
           \A r \in RevisionId : read'[r] # None => r \in RevisionRows,
           queue' \in Seq(TraceId \X (0..MaxRevision)),
           job' # None => queue' # <<>> /\ Head(queue') = <<job'.trace, job'.revision>>
    PROVE  IInv' /\ TitleStep
<1>1. TypeOK' /\ SameRows /\ StoredTitlesIndexed' /\ TitleStep
  BY DEF rows, IInv, TypeOK, SameRows, StoredTitlesIndexed, TitleStep, TraceRows, RevisionRows
<1>. QED
  BY <1>1, SameRowsAgree DEF IInv

LEMMA EmptyQueue == <<>> \in Seq(TraceId \X (0..MaxRevision))
BY EmptySeq

LEMMA RestartKeeps ==
    ASSUME IInv, NEW batch \in SUBSET RevisionRows, Restart(batch)
    PROVE  IInv' /\ TitleStep
<1>1. \A r \in batch : r \in RevisionRows /\ CurrentSearchLabels(traces[revisions[r].trace]) \subseteq Title
  BY RowFields, LabelsAreTitles DEF IInv, RowsAgree
<1>2. /\ read' \in [RevisionId -> (SUBSET Title) \cup {None}]
      /\ \A r \in RevisionId : read'[r] # None => r \in RevisionRows
      /\ UNCHANGED rows /\ queue' = <<>> /\ job' = None
  BY <1>1 DEF Restart
<1>. QED
  BY <1>2, EmptyQueue, NothingWritten

\* The Traces offered, by the time of their update and then their id, are in order.
LEMMA CandidatesAreRows ==
    ASSUME TypeOK
    PROVE  TitleCandidates \in Seq(TraceId \X (0..MaxRevision))
<1> DEFINE S == {t \in TraceRows : Offered(t)}
           below == [t \in S |-> {u \in S : Before(u, t)}]
           offered == Sorted(S, Before)
           size == IF Len(offered) < BatchSize THEN Len(offered) ELSE BatchSize
           first == SubSeq(offered, 1, size)
<1>1. IsFiniteSet(S) /\ S \subseteq 1..MaxTrace
  <2>1. S \subseteq TraceRows
    OBVIOUS
  <2>. HIDE DEF S
  <2>2. S \subseteq 1..MaxTrace /\ MaxTrace \in Int
    BY <2>1, Tables
  <2>3. IsFiniteSet(1..MaxTrace)
    BY <2>2, FS_Interval
  <2>. QED
    BY <2>2, <2>3, FS_Subset
<1>2. \A t \in S : traces[t].updated \in Int /\ t \in Int
  <2>1. \A t \in TraceRows : traces[t] \in Trace /\ t \in TraceId
    BY RowFields
  <2>. QED
    BY <2>1, Tables DEF Trace, TraceId
<1>3. Ordered(S, below)
  BY <1>2 DEF Ordered, Before
<1>4. DOMAIN offered = 1..Cardinality(S)
  BY DEF Sorted
<1>5. ASSUME NEW k \in 1..Cardinality(S), \E x \in S : Cardinality(below[x]) = k - 1
      PROVE  offered[k] \in S /\ Cardinality(below[offered[k]]) = k - 1
  <2>1. \A x \in S : below[x] = {y \in S : Before(y, x)}
    OBVIOUS
  <2>2. offered[k] = CHOOSE x \in S : Cardinality({y \in S : Before(y, x)}) = k - 1
    BY DEF Sorted
  <2>. HIDE DEF S, below, offered
  <2>. QED
    BY <1>5, <2>1, <2>2
<1>6. Cardinality(S) \in Nat /\ \A k \in 1..Cardinality(S) : offered[k] \in S
  <2>. HIDE DEF S, below, offered
  <2>1. Ranks(offered, S, below)
    BY <1>4, <1>5 DEF Ranks
  <2>2. IsFiniteSet(S)
    BY <1>1
  <2>. QED
    BY <1>3, <2>1, <2>2, SortedIsOrdered
<1>7. offered \in Seq(TraceId) /\ Len(offered) = Cardinality(S)
  <2>1. offered \in [1..Cardinality(S) -> TraceId]
    BY <1>1, <1>6 DEF TraceId, Sorted
  <2>. HIDE DEF S, offered
  <2>. QED
    BY <1>6, <2>1, SeqDef, LenProperties
<1>8. size \in 0..Len(offered)
  BY <1>6, <1>7, TitleConstants
<1>9. first \in Seq(TraceId) /\ DOMAIN first = 1..Len(first) /\ Len(first) \in Nat
  <2>. HIDE DEF offered, size
  <2>1. \A i \in 1..size : i \in 1..Len(offered)
    BY <1>6, <1>7, <1>8
  <2>2. first \in Seq(TraceId)
    BY <1>6, <1>7, <1>8, <2>1, SubSeqProperties
  <2>. HIDE DEF first
  <2>. QED
    BY <2>2, LenProperties
<1>10. TitleCandidates = [i \in 1..Len(first) |-> <<first[i], LastOf(RevisionsOf(first[i]))>>]
  BY <1>9 DEF TitleCandidates
<1>11. \A i \in 1..Len(first) : first[i] \in TraceId /\ LastOf(RevisionsOf(first[i])) \in 0..MaxRevision
  <2>. HIDE DEF first
  <2>. QED
    BY <1>9, LastRevision
<1>12. TitleCandidates \in [1..Len(first) -> TraceId \X (0..MaxRevision)]
  <2>. HIDE DEF first
  <2>. QED
    BY <1>10, <1>11
<1>. QED
  <2>. HIDE DEF first
  <2>. QED
    BY <1>9, <1>12, SeqDef

\* SetGeneratedTitle takes up the candidate at the head of the queue.
LEMMA RecordKeeps ==
    ASSUME IInv, NEW title \in Native \cup {None}, job # None, Record(title), UNCHANGED read
    PROVE  IInv' /\ TitleStep
<1>1. PICK t : t = job.trace
  OBVIOUS
<1> DEFINE new == [traces[t] EXCEPT !.generated = title, !.generatedFor = job.revision]
<1>2. TypeOK /\ queue \in Seq(TraceId \X (0..MaxRevision)) /\ queue # <<>> /\ Head(queue) = <<t, job.revision>>
  BY <1>1 DEF IInv, TypeOK
<1>3. t \in TraceId /\ job.revision \in 0..MaxRevision /\ Tail(queue) \in Seq(TraceId \X (0..MaxRevision))
  <2>1. Head(queue) \in TraceId \X (0..MaxRevision) /\ Tail(queue) \in Seq(TraceId \X (0..MaxRevision))
    BY <1>2, HeadTailProperties
  <2>. QED
    BY <1>2, <2>1
<1>4. /\ read' \in [RevisionId -> (SUBSET Title) \cup {None}]
      /\ \A r \in RevisionId : read'[r] # None => r \in RevisionRows
  BY DEF IInv, TypeOK, RowsAgree
<1>5. CASE t \notin TraceRows
  BY <1>1, <1>4, <1>5, EmptyQueue, NothingWritten DEF Record, Backoff
<1>6. CASE t \in TraceRows /\ ~(traces[t].generatedFor < job.revision)
  BY <1>1, <1>3, <1>4, <1>6, NothingWritten DEF Record
<1>7. CASE t \in TraceRows /\ traces[t].generatedFor < job.revision
  <2>1. /\ traces' = [traces EXCEPT ![t] = new] /\ queue' = Tail(queue) /\ job' = None
        /\ IF title # traces[t].generated THEN ReindexTraceSearch(t, new) ELSE UNCHANGED revisions
    BY <1>1, <1>7 DEF Record
  <2>2. traces[t] \in Trace
    BY <1>2, <1>7, RowFields
  <2>3. /\ new \in Trace /\ new.native = traces[t].native /\ new.updated = traces[t].updated
        /\ new.title = traces[t].title /\ new.override = traces[t].override /\ new.generated = title
    BY <1>3, <2>2 DEF Trace
  <2>. HIDE DEF new
  <2>4. CASE title # traces[t].generated
    BY <1>3, <1>7, <2>1, <2>3, <2>4, ReindexKeeps
  <2>5. CASE title = traces[t].generated
    <3>1. TypeOK'
      BY <1>2, <1>3, <1>4, <2>1, <2>3, <2>5 DEF TypeOK
    <3>2. /\ traces'[t] = new /\ \A u \in TraceRows \ {t} : traces'[u] = traces[u]
          /\ TraceRows' = TraceRows /\ RevisionRows' = RevisionRows /\ UNCHANGED revisions
      BY <1>2, <1>3, <1>7, <2>1, <2>3, <2>5, TitleConstants DEF TypeOK, TraceRows, RevisionRows
    <3>3. SameRows /\ StoredTitlesIndexed' /\ TitleStep
      BY <1>4, <2>3, <2>5, <3>2 DEF IInv, RowsAgree, SameRows, StoredTitlesIndexed, TitleStep
    <3>. QED
      BY <3>1, <3>3, SameRowsAgree DEF IInv
  <2>. QED
    BY <2>4, <2>5
<1>. QED
  BY <1>5, <1>6, <1>7

LEMMA WorkerKeeps ==
    ASSUME IInv, \/ Poll \/ TitleSource \/ NothingToName \/ Failed
                 \/ \E t \in TraceId : Replied(t)
    PROVE  IInv' /\ TitleStep
<1>1. /\ UNCHANGED read =>
            /\ read' \in [RevisionId -> (SUBSET Title) \cup {None}]
            /\ \A r \in RevisionId : read'[r] # None => r \in RevisionRows
      /\ TypeOK
  BY DEF IInv, TypeOK, RowsAgree
<1>2. CASE Poll
  <2>1. job = None
    BY <1>1, <1>2 DEF Poll, TypeOK
  <2>. QED
    BY <1>1, <1>2, <2>1, CandidatesAreRows, NothingWritten DEF Poll
<1>3. CASE TitleSource
  <2>1. /\ UNCHANGED rows /\ UNCHANGED read
        /\ \/ queue' = <<>> /\ job' = None
           \/ UNCHANGED queue /\ queue # <<>> /\ job'.trace = Head(queue)[1] /\ job'.revision = Head(queue)[2]
    BY <1>3 DEF TitleSource, Backoff
  <2>2. queue # <<>> => Head(queue) = <<Head(queue)[1], Head(queue)[2]>>
    BY <1>1, HeadTailProperties DEF TypeOK
  <2>3. queue' \in Seq(TraceId \X (0..MaxRevision))
    BY <1>1, <2>1, EmptyQueue DEF TypeOK
  <2>. QED
    BY <1>1, <2>1, <2>2, <2>3, NothingWritten
<1>4. CASE NothingToName
  BY <1>4, RecordKeeps DEF NothingToName
<1>5. CASE Failed
  BY <1>1, <1>5, EmptyQueue, NothingWritten DEF Failed, Backoff
<1>6. ASSUME NEW t \in TraceId, NEW title \in Native \cup {None}, Reply(t, title)
      PROVE  IInv' /\ TitleStep
  BY <1>6, RecordKeeps DEF Reply
<1>7. ASSUME NEW t \in TraceId, Rejected(t)
      PROVE  IInv' /\ TitleStep
  <2>1. CASE accepted
    BY <1>7, <2>1, RecordKeeps DEF Rejected
  <2>2. CASE ~accepted
    BY <1>1, <1>7, <2>2, EmptyQueue, NothingWritten DEF Rejected, Backoff
  <2>. QED
    BY <2>1, <2>2
<1>. QED
  BY <1>2, <1>3, <1>4, <1>5, <1>6, <1>7 DEF Replied

-----------------------------------------------------------------------------
LEMMA StepKeeps == IInv /\ [Next]_vars => IInv' /\ (TitleStep \/ UNCHANGED vars)
<1> SUFFICES ASSUME IInv, [Next]_vars PROVE IInv' /\ (TitleStep \/ UNCHANGED vars)
  OBVIOUS
<1>1. CASE UNCHANGED vars
  BY <1>1 DEF vars, rows, worker, IInv, TypeOK, RowsAgree, StoredTitlesIndexed, TraceRows, RevisionRows, RevisionsOf
<1>2. CASE Next
  BY <1>2, CommitKeeps, ReimportKeeps, RebuildKeeps, DeleteKeeps, OverrideKeeps, RestartKeeps, WorkerKeeps DEF Next
<1>. QED
  BY <1>1, <1>2

\* Rows, batch, queue and job have their types, and the tables agree with one another.
THEOREM TablesAgree == Spec => [](TypeOK /\ RowsAgree)
<1>1. IInv => TypeOK /\ RowsAgree
  BY DEF IInv
<1>. QED
  BY <1>1, InitInvariant, StepKeeps, PTL DEF Spec

\* The manual and the generated title of a Trace are in the search text of each of its
\* Revisions that has events, whether an import, a repeated import, the rebuild or a
\* rename wrote it last.
THEOREM TitlesAreIndexed == Spec => []StoredTitlesIndexed
<1>1. IInv => StoredTitlesIndexed
  BY DEF IInv
<1>. QED
  BY <1>1, InitInvariant, StepKeeps, PTL DEF Spec

\* No step replaces a collected title by another but the import of a Revision that is
\* new and as recent as all that are there.
THEOREM CollectedTitlesKept == Spec => CollectedTitleKept
<1>1. IInv /\ [Next]_vars =>
          [\A t \in TraceRows \cap TraceRows' :
              traces[t].title \notin {None, traces'[t].title} =>
                  \E r \in RevisionRows' \ RevisionRows :
                      /\ revisions'[r].trace = t
                      /\ revisions'[r].updated >= traces[t].updated]_vars
  BY StepKeeps DEF TitleStep
<1>2. IInv /\ [Next]_vars => IInv'
  BY StepKeeps
<1>. QED
  BY <1>1, <1>2, InitInvariant, PTL DEF Spec, CollectedTitleKept
=============================================================================
