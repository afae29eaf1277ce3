------------------------------ MODULE RebuildRows ------------------------------
(***************************************************************************)
(* The startup rebuild by row ids (Renormalize, internal/store/            *)
(* maintenance.go).  It reads a batch of <<revision id, trace id>> without *)
(* the writer and takes the writer for one of them at a time.  The ids of  *)
(* deleted rows of traces and trace_revisions come back, so an item of the *)
(* batch may by then name rows it was not read from.                       *)
(*                                                                         *)
(* TraceEvents has the same pass with rows that keep their identity, and   *)
(* what is inside a Revision's events; here they are known by the source   *)
(* files they were made from.  All Traces are of one harness; with two, a  *)
(* reused row is moreover parsed by the wrong normalizer.                  *)
(***************************************************************************)
EXTENDS FiniteSets, Integers

CONSTANTS
    Native,        \* Traces, by harness and native id
    Files,         \* the source files of a Revision, by digest
    OwnerOf,       \* the Trace the files are of
    MaxTrace,      \* row ids of traces are 1..MaxTrace
    MaxRevision,   \* row ids of trace_revisions
    MaxVersion,    \* normalizer versions are 1..MaxVersion
    None           \* no row

TraceId == 1..MaxTrace
RevisionId == 1..MaxRevision
Status == {"normalized", "partially_parsed", "failed"}

\* A row of trace_revisions.
Row == [trace : TraceId, files : Files, status : Status, version : 1..MaxVersion]

ASSUME RowConstants ==
    /\ OwnerOf \in [Files -> Native]
    /\ {MaxTrace, MaxRevision, MaxVersion} \subseteq Nat \ {0}
    /\ None \notin Native \cup Row

VARIABLES
    version,      \* of the running server's normalizers
    traces,       \* traces[t]: a Trace or None
    revisions,    \* revisions[r]: None or a Row
    observed,     \* <<t, r, files>>: observation_revisions whose event is of trace t
    shown,        \* <<t, files>>: event_observations whose event is of trace t
    batch,        \* [revision, trace, files] of the rebuild, files as they were when read
    pass,         \* "running" or "over"
    misled        \* an item of the batch was rebuilt in rows it was not read from (history)

vars == <<version, traces, revisions, observed, shown, batch, pass, misled>>

TraceRows == {t \in TraceId : traces[t] # None}
RevisionRows == {r \in RevisionId : revisions[r] # None}
LastOf(ids) == CHOOSE n \in ids \cup {0} : \A m \in ids : m <= n

Init ==
    /\ version = 1
    /\ traces = [t \in TraceId |-> None]
    /\ revisions = [r \in RevisionId |-> None]
    /\ observed = {} /\ shown = {}
    /\ batch = {} /\ pass = "over" /\ misled = FALSE

RowFor(n) ==
    IF \E t \in TraceRows : traces[t] = n
    THEN CHOOSE t \in TraceRows : traces[t] = n
    ELSE LastOf(TraceRows) + 1

\* insertEvents of what a parse with this result finds in the files.
Inserted(t, r, files, status) == IF status = "failed" THEN {} ELSE {<<t, r, files>>}

\* commitRevision: a new row of trace_revisions, and of traces for a new Trace.
CommitRevision(files, status) ==
    LET t == RowFor(OwnerOf[files])
        r == LastOf(RevisionRows) + 1
        mine == Inserted(t, r, files, status)
    IN
    /\ \A q \in RevisionRows : revisions[q].files # files
    /\ t <= MaxTrace /\ r <= MaxRevision
    /\ traces' = [traces EXCEPT ![t] = OwnerOf[files]]
    /\ revisions' = [revisions EXCEPT ![r] =
           [trace |-> t, files |-> files, status |-> status, version |-> version]]
    /\ observed' = observed \cup mine
    /\ shown' = shown \cup {<<o[1], o[3]>> : o \in mine}
    /\ UNCHANGED <<version, batch, pass, misled>>

\* replaceRevisionEvents by the ids it is given: it takes revision r's observations
\* away wherever they are, clears trace t of those nobody makes any more, and
\* inserts the new ones into t.  Nothing in the schema asks that r be one of t's.
ReplaceRevisionEvents(t, r, files, status) ==
    LET others == {o \in observed : o[2] # r} IN
    /\ observed' = others \cup {<<t, r, files>>}
    /\ shown' = {s \in shown : s[1] = t => \E o \in others : <<o[1], o[3]>> = s} \cup {<<t, files>>}
    /\ revisions' = [revisions EXCEPT ![r] = [@ EXCEPT !.status = status, !.version = version]]

\* importTrace of a Revision that did not parse completely, under the writer.
Reimport(r, status) ==
    /\ r \in RevisionRows
    /\ revisions[r].status # "normalized" /\ status # "failed"
    /\ ReplaceRevisionEvents(revisions[r].trace, r, revisions[r].files, status)
    /\ UNCHANGED <<version, traces, batch, pass, misled>>

\* Mutant: the Trace goes, its Revisions and what they observed stay.
DeleteTrace_KeepsRevisions(t) ==
    /\ t \in TraceRows
    /\ traces' = [traces EXCEPT ![t] = None]
    /\ UNCHANGED <<version, revisions, observed, shown, batch, pass, misled>>

\* DELETE FROM traces: its Revisions, its events and all they observed go with it.
DeleteTrace(t) ==
    LET gone == {r \in RevisionRows : revisions[r].trace = t} IN
    /\ t \in TraceRows
    /\ traces' = [traces EXCEPT ![t] = None]
    /\ revisions' = [r \in RevisionId |-> IF r \in gone THEN None ELSE revisions[r]]
    /\ observed' = {o \in observed : o[1] # t /\ o[2] \notin gone}
    /\ shown' = {s \in shown : s[1] # t}
    /\ UNCHANGED <<version, batch, pass, misled>>

\* The server starts, with newer normalizers or the same, and the pass begins.
\* Later batches are like the first.
Restart(v) ==
    /\ v \in version..MaxVersion
    /\ version' = v
    /\ batch' = {[revision |-> r, trace |-> revisions[r].trace, files |-> revisions[r].files] :
                     r \in {q \in RevisionRows : revisions[q].version < v}}
    /\ pass' = "running"
    /\ UNCHANGED <<traces, revisions, observed, shown, misled>>

\* The batch is worked through in the order of its revision ids.
NextItem(item) ==
    /\ pass = "running" /\ item \in batch
    /\ \A other \in batch : item.revision <= other.revision

AsRead(item) ==
    /\ item.revision \in RevisionRows
    /\ revisions[item.revision].trace = item.trace
    /\ revisions[item.revision].files = item.files

\* Mutant: the files are those of the batch, not looked up under the writer.
Rebuild_BatchFiles(item, status) ==
    LET r == item.revision IN
    /\ NextItem(item)
    /\ r \in RevisionRows
    /\ item.trace \in TraceRows /\ status # "failed"
    /\ ReplaceRevisionEvents(item.trace, r, item.files, status)
    /\ misled' = (misled \/ ~AsRead(item))
    /\ batch' = batch \ {item}
    /\ UNCHANGED <<version, traces, pass>>

\* One item under the writer: the files revision_objects names for its revision id
\* now, the labels of its trace id now.  A parse that fails is only recorded.
Rebuild(item, status) ==
    LET r == item.revision IN
    /\ NextItem(item)
    /\ r \in RevisionRows
    /\ IF status = "failed"
       THEN UNCHANGED <<revisions, observed, shown, misled>>
       ELSE /\ item.trace \in TraceRows
            /\ ReplaceRevisionEvents(item.trace, r, revisions[r].files, status)
            /\ misled' = (misled \/ ~AsRead(item))
    /\ batch' = batch \ {item}
    /\ UNCHANGED <<version, traces, pass>>

\* A file, a row the item names (a foreign key, currentSearchLabels) or the
\* transaction fails, and Renormalize returns.
Abort(item) ==
    /\ NextItem(item)
    /\ batch' = {} /\ pass' = "over"
    /\ UNCHANGED <<version, traces, revisions, observed, shown, misled>>

Finish ==
    /\ pass = "running" /\ batch = {}
    /\ pass' = "over"
    /\ UNCHANGED <<version, traces, revisions, observed, shown, batch, misled>>

Next ==
    \/ \E files \in Files, status \in Status : CommitRevision(files, status)
    \/ \E r \in RevisionId, status \in Status : Reimport(r, status)
    \/ \E t \in TraceId : DeleteTrace(t)
    \/ \E v \in 1..MaxVersion : Restart(v)
    \/ \E item \in batch : Abort(item) \/ \E status \in Status : Rebuild(item, status)
    \/ Finish

Spec == Init /\ [][Next]_vars

-----------------------------------------------------------------------------
TypeOK ==
    /\ version \in 1..MaxVersion
    /\ traces \in [TraceId -> Native \cup {None}]
    /\ \A r \in RevisionRows :
          /\ revisions[r].trace \in TraceRows
          /\ revisions[r].files \in Files
          /\ revisions[r].status \in Status
          /\ revisions[r].version \in 1..version
    /\ observed \subseteq TraceRows \X RevisionRows \X Files
    /\ shown \subseteq TraceRows \X Files
    /\ \A item \in batch : item.revision \in RevisionId /\ item.trace \in TraceId
    /\ batch # {} => pass = "running"

\* What a stored Revision is credited with was made from the files it has, whatever
\* was deleted and given its row ids since the batch was read: source inspection
\* (Sources) opens the files an observation is of.
MadeFromOwnFiles ==
    \A o \in observed : revisions[o[2]].files = o[3]

\* Events observed across the Revisions of a Trace merge into that Trace, as each
\* Revision is of it: none is listed in another one's history.
InOwnTrace == \A o \in observed : traces[o[1]] = OwnerOf[o[3]]

\* As long as the rebuild has not met reused rows, that is so whatever else ran.
OwnUnlessMisled == misled \/ InOwnTrace

\* docs/operations.md:120: a successful rebuild replaces that Revision's observations.
\* A Revision that parsed has its observations in its own Trace.
KeptInOwnTrace ==
    \A r \in RevisionRows :
        revisions[r].status # "failed" => <<revisions[r].trace, r, revisions[r].files>> \in observed
=============================================================================
