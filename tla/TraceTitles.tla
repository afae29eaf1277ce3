------------------------------ MODULE TraceTitles ------------------------------
(***************************************************************************)
(* The three titles of a Trace and the search text that carries them       *)
(* (internal/store/titles.go and the title columns the imports of store.go *)
(* and the rebuild of maintenance.go write), with the worker that asks a   *)
(* model for missing titles (internal/titles/worker.go).                   *)
(*                                                                         *)
(* An operation of the Store is one action: it is one transaction under    *)
(* Store.writer.  What is read before the writer is taken is kept: the     *)
(* rebuild's batch, the worker's candidates and the messages it has read.  *)
(* Row ids of traces and trace_revisions come back after a deletion.       *)
(*                                                                         *)
(* Of a Revision's events only this counts: whether there are any, and     *)
(* whether a message is among them.  Its search text is the set of titles  *)
(* its events can be found by.  A generated title is named by the Trace    *)
(* whose messages it was made from.  Every Trace has been idle for long.   *)
(***************************************************************************)
EXTENDS FiniteSets, Integers, Sequences, SortedSets

CONSTANTS
    Native,          \* Traces, by harness and native id; also the titles made from them
    Collected,       \* titles collectors and normalizers find
    Manual,          \* titles given by hand
    Normalizations,  \* [status, found, title]: what a normalizer can return
    MaxTrace,        \* row ids of traces are 1..MaxTrace
    MaxRevision,     \* row ids of trace_revisions
    MaxTime,         \* native update times are 1..MaxTime
    MaxDelete,       \* deletions
    BatchSize,       \* limit of TitleCandidates (20 in the code)
    None             \* an empty title, or no row

Found == {"nothing", "events", "messages"}
Status == {"normalized", "partially_parsed", "failed"}
Title == Native \cup Collected \cup Manual

\* A row of traces, and one of trace_revisions with the text its events can be found by.
Trace ==
    [native : Native, title : Collected \cup {None}, override : Manual \cup {None},
     generated : Native \cup {None}, generatedFor : 0..MaxRevision, updated : 1..MaxTime]
Revision == [trace : 1..MaxTrace, updated : 1..MaxTime, status : Status, found : Found, text : SUBSET Title]

ASSUME TitleConstants ==
    /\ {MaxTrace, MaxRevision, MaxTime, BatchSize} \subseteq Nat \ {0}
    /\ MaxDelete \in Nat
    /\ None \notin Title \cup Trace \cup Revision
    /\ \A norm \in Normalizations :
          /\ norm.status \in Status
          /\ norm.found \in Found
          /\ norm.title \in Collected \cup {None}
          /\ norm.status = "failed" => norm.found = "nothing" /\ norm.title = None

VARIABLES
    traces,      \* traces[t]: a Trace or None
    revisions,   \* revisions[r]: a Revision or None
    read,        \* read[r]: the labels of a Revision in the rebuild's batch when it was
                 \* read, or None
    queue,       \* <<t, r>>: the rest of the worker's candidates
    job,         \* the first of them with what TitleSource returned, or None
    accepted,    \* Worker.accepted
    tried,       \* tried[t]: what the last recorded attempt had to go by (history)
    deletions    \* deletions so far

rows == <<traces, revisions>>
worker == <<queue, job, accepted>>
vars == <<rows, read, worker, tried, deletions>>

TraceId == 1..MaxTrace
RevisionId == 1..MaxRevision
TraceRows == {t \in TraceId : traces[t] # None}
RevisionRows == {r \in RevisionId : revisions[r] # None}
RevisionsOf(t) == {r \in RevisionRows : revisions[r].trace = t}
LastOf(ids) == CHOOSE n \in ids \cup {0} : \A m \in ids : m <= n

\* searchLabels: titles that are not empty.
SearchLabels(titles) == titles \ {None}
CurrentSearchLabels(trace) == SearchLabels({trace.title, trace.override, trace.generated})
\* A Revision without events has no row to put labels into.
Indexed(found, labels) == IF found = "nothing" THEN {} ELSE labels

HasMessages(t) == \E r \in RevisionsOf(t) : revisions[r].found = "messages"
Untitled(trace) == trace.title = None /\ trace.override = None

\* A candidate of the worker: no title, and a Revision later than the one tried.
Offered(t) ==
    /\ t \in TraceRows /\ Untitled(traces[t])
    /\ LastOf(RevisionsOf(t)) > traces[t].generatedFor

Init ==
    /\ traces = [t \in TraceId |-> None]
    /\ revisions = [r \in RevisionId |-> None]
    /\ read = [r \in RevisionId |-> None]
    /\ queue = <<>> /\ job = None /\ accepted = FALSE
    /\ tried = [t \in TraceId |-> None]
    /\ deletions = 0

-----------------------------------------------------------------------------
(* Imports *)

\* The traces row of n, the stored one or the one inserted for it.
RowFor(n) ==
    IF \E t \in TraceRows : traces[t].native = n
    THEN CHOOSE t \in TraceRows : traces[t].native = n
    ELSE LastOf(TraceRows) + 1

\* Mutant: an older Revision replaces the title of a newer one.
CommitRevision_AnyTime(n, updated, title, norm) ==
    LET t == RowFor(n)
        r == LastOf(RevisionRows) + 1
        trace == IF t \in TraceRows THEN traces[t]
                 ELSE [native |-> n, title |-> title, override |-> None,
                       generated |-> None, generatedFor |-> 0, updated |-> updated]
    IN
    /\ t <= MaxTrace /\ r <= MaxRevision
    /\ revisions' = [revisions EXCEPT ![r] =
           [trace |-> t, updated |-> updated, status |-> norm.status, found |-> norm.found,
            text |-> Indexed(norm.found, SearchLabels({title, trace.override, trace.generated}))]]
    /\ traces' = [traces EXCEPT ![t] =
           [trace EXCEPT !.title = IF title = None THEN norm.title ELSE title,
                         !.updated = IF updated >= trace.updated THEN updated ELSE @]]
    /\ UNCHANGED <<read, worker, tried, deletions>>

\* commitRevision: the newest Revision's title is the Trace's, the events are
\* indexed with the descriptor's title and the stored ones, and then an empty
\* title is filled in from the normalizer.
CommitRevision(n, updated, title, norm) ==
    LET t == RowFor(n)
        r == LastOf(RevisionRows) + 1
        trace == IF t \in TraceRows THEN traces[t]
                 ELSE [native |-> n, title |-> title, override |-> None,
                       generated |-> None, generatedFor |-> 0, updated |-> updated]
        newest == updated >= trace.updated
        collected == IF newest THEN title ELSE trace.title
    IN
    /\ t <= MaxTrace /\ r <= MaxRevision
    /\ revisions' = [revisions EXCEPT ![r] =
           [trace |-> t, updated |-> updated, status |-> norm.status, found |-> norm.found,
            text |-> Indexed(norm.found, SearchLabels({title, trace.override, trace.generated}))]]
    /\ traces' = [traces EXCEPT ![t] =
           [trace EXCEPT !.title = IF collected = None THEN norm.title ELSE collected,
                         !.updated = IF newest THEN updated ELSE @]]
    /\ UNCHANGED <<read, worker, tried, deletions>>

\* backfillMissingTraceMetadata: a title collected later, with a descriptor that is
\* not older than the Trace's newest Revision, and added to this Revision's text alone.
Backfilled(r, updated, title) ==
    LET t == revisions[r].trace IN
    title # None /\ traces[t].title = None /\ traces[t].updated <= updated

\* What replaceRevisionEvents makes of the rows: an empty result is offered again,
\* an empty title is filled in, the events are indexed with the labels given.
ReplaceEvents(r, collected, labels, norm) ==
    LET t == revisions[r].trace IN
    /\ traces' = [traces EXCEPT ![t] =
           [traces[t] EXCEPT !.title = IF collected = None THEN norm.title ELSE collected,
                             !.generatedFor = IF traces[t].generated = None THEN 0 ELSE traces[t].generatedFor]]
    /\ revisions' = [revisions EXCEPT ![r] =
           [revisions[r] EXCEPT !.status = norm.status, !.found = norm.found,
                                !.text = Indexed(norm.found, labels)]]

\* importTrace of a Revision the Store has.  Its time and title can be others than
\* before: the digest covers the files alone.  The events of a Revision that did
\* not parse completely are replaced unless the parse fails.
Reimport(r, updated, title, norm) ==
    LET t == revisions[r].trace
        filled == Backfilled(r, updated, title)
        collected == IF filled THEN title ELSE traces[t].title
    IN
    /\ r \in RevisionRows
    /\ IF revisions[r].status = "normalized" \/ norm.status = "failed"
       THEN /\ filled
            /\ traces' = [traces EXCEPT ![t].title = title]
            /\ revisions' = [revisions EXCEPT ![r].text = Indexed(revisions[r].found, @ \cup {title})]
       ELSE ReplaceEvents(r, collected, SearchLabels({title, traces[t].override, traces[t].generated}), norm)
    /\ UNCHANGED <<read, worker, tried, deletions>>

-----------------------------------------------------------------------------
(* Renaming, deletion and the rebuild *)

\* Mutant: only the newest Revision is indexed again.
ReindexTraceSearch_LastOnly(t, trace) ==
    revisions' = [r \in RevisionId |->
        IF r \in RevisionsOf(t) /\ r = LastOf(RevisionsOf(t))
        THEN [revisions[r] EXCEPT !.text = Indexed(revisions[r].found, CurrentSearchLabels(trace))]
        ELSE revisions[r]]

ReindexTraceSearch(t, trace) ==
    revisions' = [r \in RevisionId |->
        IF r \in RevisionsOf(t)
        THEN [revisions[r] EXCEPT !.text = Indexed(revisions[r].found, CurrentSearchLabels(trace))]
        ELSE revisions[r]]

SetTitleOverride(t, title) ==
    LET trace == [traces[t] EXCEPT !.override = title] IN
    /\ t \in TraceRows
    /\ traces' = [traces EXCEPT ![t] = trace]
    /\ ReindexTraceSearch(t, trace)
    /\ UNCHANGED <<read, worker, tried, deletions>>

\* DELETE FROM traces.  A Revision of the batch that goes with it ends the
\* rebuild when its turn comes, so it is as good as taken out.
DeleteTrace(t) ==
    /\ t \in TraceRows /\ deletions < MaxDelete
    /\ traces' = [traces EXCEPT ![t] = None]
    /\ revisions' = [r \in RevisionId |-> IF r \in RevisionsOf(t) THEN None ELSE revisions[r]]
    /\ read' = [r \in RevisionId |-> IF r \in RevisionsOf(t) THEN None ELSE read[r]]
    /\ tried' = [tried EXCEPT ![t] = None]
    /\ deletions' = deletions + 1
    /\ UNCHANGED worker

\* The server starts again, perhaps with newer normalizers: Renormalize reads the
\* Revisions of older ones.  The worker starts anew.
Restart(batch) ==
    /\ read' = [r \in RevisionId |->
           IF r \in batch THEN CurrentSearchLabels(traces[revisions[r].trace]) ELSE None]
    /\ queue' = <<>> /\ job' = None /\ accepted' = FALSE
    /\ UNCHANGED <<rows, tried, deletions>>

\* Mutant: the labels are those of the batch.
Rebuild_BatchLabels(r, norm) ==
    /\ read[r] # None
    /\ read' = [read EXCEPT ![r] = None]
    /\ IF norm.status = "failed"
       THEN UNCHANGED rows
       ELSE ReplaceEvents(r, traces[revisions[r].trace].title, read[r], norm)
    /\ UNCHANGED <<worker, tried, deletions>>

\* One Revision of the batch, parsed again under the writer; the labels are read
\* again first, for a rename may have landed since.
Rebuild(r, norm) ==
    /\ read[r] # None
    /\ read' = [read EXCEPT ![r] = None]
    /\ IF norm.status = "failed"
       THEN UNCHANGED rows
       ELSE LET trace == traces[revisions[r].trace] IN
            ReplaceEvents(r, trace.title, CurrentSearchLabels(trace), norm)
    /\ UNCHANGED <<worker, tried, deletions>>

-----------------------------------------------------------------------------
(* The worker *)

\* ORDER BY updated_at DESC, id DESC
Before(t, u) ==
    \/ traces[t].updated > traces[u].updated
    \/ traces[t].updated = traces[u].updated /\ t > u

\* TitleCandidates: the newest Traces that need a title.
TitleCandidates ==
    LET offered == Sorted({t \in TraceRows : Offered(t)}, Before)
        first == SubSeq(offered, 1, IF Len(offered) < BatchSize THEN Len(offered) ELSE BatchSize)
    IN  [i \in DOMAIN first |-> <<first[i], LastOf(RevisionsOf(first[i]))>>]

Poll ==
    /\ queue = <<>>
    /\ queue' = TitleCandidates
    /\ queue' # <<>>
    /\ UNCHANGED <<rows, read, job, accepted, tried, deletions>>

\* RunOnce returns an error: the rest of the batch is dropped, and after a wait
\* the worker asks for candidates again.
Backoff == queue' = <<>> /\ job' = None

\* TitleSource of the next candidate.
TitleSource ==
    /\ queue # <<>> /\ job = None
    /\ LET t == Head(queue)[1] IN
       IF t \in TraceRows
       THEN /\ job' = [trace |-> t, revision |-> Head(queue)[2],
                       of |-> traces[t].native, messages |-> HasMessages(t)]
            /\ UNCHANGED queue
       ELSE Backoff
    /\ UNCHANGED <<rows, read, accepted, tried, deletions>>

\* SetGeneratedTitle for the job, and on to the next candidate.  A result for a
\* Revision that is not later than the recorded one is ignored.
Record(title) ==
    LET t == job.trace
        trace == [traces[t] EXCEPT !.generated = title, !.generatedFor = job.revision]
    IN
    IF t \notin TraceRows
    THEN Backoff /\ UNCHANGED <<rows, tried>>
    ELSE
        /\ queue' = Tail(queue) /\ job' = None
        /\ IF traces[t].generatedFor < job.revision
           THEN /\ traces' = [traces EXCEPT ![t] = trace]
                /\ tried' = [tried EXCEPT ![t] = IF job.messages THEN "messages" ELSE "nothing"]
                /\ IF title # traces[t].generated
                   THEN ReindexTraceSearch(t, trace)
                   ELSE UNCHANGED revisions
           ELSE UNCHANGED <<rows, tried>>

\* There is nothing to name: the prompt is empty and no one is asked.
NothingToName ==
    /\ job # None /\ ~job.messages
    /\ Record(None)
    /\ UNCHANGED <<read, accepted, deletions>>

\* The model replies with a title, or with nothing usable twice.
Reply(t, title) ==
    /\ job # None /\ job.messages /\ job.trace = t
    /\ title \in {job.of, None}
    /\ accepted' = TRUE
    /\ Record(title)
    /\ UNCHANGED <<read, deletions>>

\* Mutant: a rejection is an error like any other.
Rejected_Retried(t) ==
    /\ job # None /\ job.messages /\ job.trace = t
    /\ Backoff
    /\ UNCHANGED <<rows, read, accepted, tried, deletions>>

\* The API refuses this request.  Once it has answered another, that is the
\* Trace's fault and is recorded.
Rejected(t) ==
    /\ job # None /\ job.messages /\ job.trace = t
    /\ IF accepted THEN Record(None) ELSE Backoff /\ UNCHANGED <<rows, tried>>
    /\ UNCHANGED <<read, accepted, deletions>>

\* Network, authentication, rate limit or server error.
Failed ==
    /\ job # None /\ job.messages
    /\ Backoff
    /\ UNCHANGED <<rows, read, accepted, tried, deletions>>

Replied(t) == Rejected(t) \/ \E title \in Native \cup {None} : Reply(t, title)

Next ==
    \/ \E n \in Native, updated \in 1..MaxTime, title \in Collected \cup {None}, norm \in Normalizations :
          CommitRevision(n, updated, title, norm)
    \/ \E r \in RevisionId, norm \in Normalizations :
          \/ Rebuild(r, norm)
          \/ \E updated \in 1..MaxTime, title \in Collected \cup {None} : Reimport(r, updated, title, norm)
    \/ \E t \in TraceId :
          DeleteTrace(t) \/ Replied(t) \/ \E title \in Manual \cup {None} : SetTitleOverride(t, title)
    \/ \E batch \in SUBSET RevisionRows : Restart(batch)
    \/ Poll \/ TitleSource \/ NothingToName \/ Failed

Spec == Init /\ [][Next]_vars

\* The worker goes on after every wait, and the provider does not fail for ever
\* on any one Trace: it titles it, finds no title or rejects it.
FairSpec ==
    /\ Spec
    /\ WF_vars(Poll) /\ WF_vars(TitleSource) /\ WF_vars(NothingToName)
    /\ \A t \in TraceId : SF_vars(Replied(t))

-----------------------------------------------------------------------------
TypeOK ==
    /\ traces \in [TraceId -> Trace \cup {None}]
    /\ revisions \in [RevisionId -> Revision \cup {None}]
    /\ read \in [RevisionId -> (SUBSET Title) \cup {None}]
    /\ queue \in Seq(TraceId \X (0..MaxRevision))
    /\ job # None => queue # <<>> /\ Head(queue) = <<job.trace, job.revision>>

\* What the foreign keys and the unique index of traces say, and that a Trace is as
\* recent as the newest of its Revisions.
RowsAgree ==
    /\ \A t \in TraceRows : RevisionsOf(t) # {}
    /\ \A t, u \in TraceRows : traces[t].native = traces[u].native => t = u
    /\ \A r \in RevisionRows :
          /\ revisions[r].trace \in TraceRows
          /\ revisions[r].updated <= traces[revisions[r].trace].updated
    /\ \A r \in RevisionId : read[r] # None => r \in RevisionRows

\* The titles imports never write reach every Event: the manual and the generated
\* title are in the search text of all Revisions, those imported, parsed again or
\* rebuilt while the title was given included.
StoredTitlesIndexed ==
    \A r \in RevisionRows :
        revisions[r].found # "nothing" =>
            LET trace == traces[revisions[r].trace] IN
            SearchLabels({trace.override, trace.generated}) \subseteq revisions[r].text

\* A collected title gives way only to a Revision that arrives and is as recent as
\* all that are there: an old upload, a repeated one, the normalizer and the
\* rebuild fill a title in at most.
CollectedTitleKept ==
    [][\A t \in TraceRows \cap TraceRows' :
          traces[t].title \notin {None, traces'[t].title} =>
              \E r \in RevisionRows' \ RevisionRows :
                  /\ revisions'[r].trace = t
                  /\ revisions'[r].updated >= traces[t].updated]_vars

\* titles.go:28: every title a Trace has stays searchable, whichever one is
\* displayed: if the Trace has Events at all, one of them is found by it.
TitlesSearchable ==
    \A t \in TraceRows :
        (\E r \in RevisionsOf(t) : revisions[r].found # "nothing") =>
            CurrentSearchLabels(traces[t]) \subseteq UNION {revisions[r].text : r \in RevisionsOf(t)}

\* migrations.go:21: a generated title was generated from this Trace.
GeneratedFromOwn ==
    \A t \in TraceRows : traces[t].generated \in {None, traces[t].native}

\* maintenance.go:241: new events may give a Trace that produced no title something
\* to name.  If all the worker has found is that there are no messages, and now
\* there are, the Trace is offered to it, or it is about to try it.
NothingMissed ==
    \A t \in TraceRows :
        Untitled(traces[t]) /\ tried[t] = "nothing" /\ HasMessages(t) =>
            Offered(t) \/ \E i \in DOMAIN queue : queue[i][1] = t

\* Once the API has answered, each Trace the worker is offered gets its attempt,
\* whatever the replies for the others, or a restart comes between.
EveryTraceTried ==
    \A t \in TraceId : (accepted /\ Offered(t)) ~> (~Offered(t) \/ ~accepted)
=============================================================================
