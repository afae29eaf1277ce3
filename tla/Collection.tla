------------------------------- MODULE Collection -------------------------------
(***************************************************************************)
(* One Source Machine: `traicr collect` reads native sessions that go on   *)
(* being written and packs the new ones into Trace ZIPs, `traicr upload`   *)
(* sends ZIPs and records what the server acknowledged (internal/          *)
(* collector, internal/config).  They run as separate processes, any       *)
(* number of uploads at a time, and each writes whole files back.          *)
(*                                                                         *)
(* A source is one session of one harness.  What it holds is a content     *)
(* number; the digest of a copy is the pair of the two.  Its stamp (device,*)
(* inode, size, modification time) changes with its content.  Of the       *)
(* server there are the revisions of this machine it has parsed completely *)
(* and its report; ObjectStore and TraceEvents say what it does with them. *)
(***************************************************************************)
EXTENDS NoValue, FiniteSets, Integers

CONSTANTS
    LastSource,   \* sources are 1..LastSource, in the order they are read
    Stamped,      \* those read from local files; harness commands have no stamp
    TraceOf,      \* the Trace a source is of, numbered in the order of a manifest
    MaxContent,   \* contents of a source are 1..MaxContent
    Foreign,      \* ZIPs this program made on another Source Machine, as sets of digests
    Uploader,     \* upload processes
    MaxArchive,   \* ZIPs in the output directory
    MaxStop       \* collections that are interrupted

Source == 1..LastSource
Trace == {TraceOf[s] : s \in Source}
Digest == Source \X (1..MaxContent)
Archive == [own : BOOLEAN, revisions : SUBSET Digest]

OneOfEach(revisions) == \A d, e \in revisions : TraceOf[d[1]] = TraceOf[e[1]] => d = e

ASSUME CollectionConstants ==
    /\ {LastSource, MaxContent, MaxArchive} \subseteq Nat \ {0}
    /\ MaxStop \in Nat
    /\ Stamped \subseteq Source
    /\ DOMAIN TraceOf = Source /\ Trace \subseteq Nat
    /\ Foreign \subseteq SUBSET Digest /\ \A revisions \in Foreign : OneOfEach(revisions)
    /\ None \notin Digest \cup [source : Source, copy : 0..MaxContent]

VARIABLES
    content,     \* what is in each source now
    state,       \* Collection State on disk: the acknowledged digest of a Trace
    stamps,      \* source_stamps.json: [stamp, digest] of a source
    archives,    \* Trace ZIPs
    stored,      \* revisions of this machine the server has parsed completely
    all,         \* collect --all
    todo,        \* sources a running collection has still to look at
    busy,        \* [source, copy] of the one it is reading, or None
    acknowledged,\* the Collection State it loaded
    marks,       \* its stamps, loaded and updated
    inputs,      \* digests it will pack
    collected,   \* Traces it has described
    stage,       \* where it is: "idle", "reading", "packing"
    config,      \* the Collection State of an upload, or None when it does not run
    sending,     \* the archive it is sending, or None
    report,      \* the digests its report acknowledges, or None
    stops,       \* interrupted collections so far
    left         \* what was in a source, and the digest of its last copy, when it
                 \* was last left out: [content, digest] or None (history)

files == <<state, stamps, archives>>
collect == <<all, todo, busy, acknowledged, marks, inputs, collected, stage>>
upload == <<config, sending, report>>
vars == <<content, files, stored, collect, upload, stops, left>>

Unknown == [n \in Trace |-> None]

Init ==
    /\ content = [s \in Source |-> 1]
    /\ state = Unknown
    /\ stamps = [s \in Source |-> None]
    /\ archives = [own : {FALSE}, revisions : Foreign]
    /\ stored = {}
    /\ all = FALSE /\ todo = {} /\ busy = None /\ inputs = {} /\ collected = {}
    /\ acknowledged = Unknown /\ marks = stamps
    /\ stage = "idle"
    /\ config = [u \in Uploader |-> None]
    /\ sending = [u \in Uploader |-> None]
    /\ report = [u \in Uploader |-> None]
    /\ stops = 0
    /\ left = [s \in Source |-> None]

\* The harness writes.
Write(s) ==
    /\ content[s] < MaxContent
    /\ content' = [content EXCEPT ![s] = @ + 1]
    /\ UNCHANGED <<files, stored, collect, upload, stops, left>>

-----------------------------------------------------------------------------
(* traicr collect *)

\* LoadCollector and LoadSourceStamps.
StartCollect(every) ==
    /\ stage = "idle"
    /\ all' = every
    /\ acknowledged' = state
    /\ marks' = stamps
    /\ todo' = Source /\ inputs' = {} /\ collected' = {} /\ busy' = None
    /\ stage' = "reading"
    /\ UNCHANGED <<content, files, stored, upload, stops, left>>

First(s) == s \in todo /\ \A other \in todo : s <= other

Unmoved(s) == s \in Stamped /\ marks[s] # None /\ marks[s].stamp = content[s]

\* Mutant: an unchanged stamp is enough.
Skippable_ByStamp(s) == ~all /\ Unmoved(s)

\* skip: the stamp is the recorded one and its digest the acknowledged one.
Skippable(s) == ~all /\ Unmoved(s) /\ acknowledged[TraceOf[s]] = marks[s].digest

\* A source is left out without being read, or its reading begins.
Look(s) ==
    /\ stage = "reading" /\ busy = None /\ First(s)
    /\ IF Skippable(s)
       THEN /\ todo' = todo \ {s}
            /\ left' = [left EXCEPT ![s] = [content |-> content[s], digest |-> marks[s].digest]]
            /\ UNCHANGED busy
       ELSE /\ busy' = [source |-> s, copy |-> 0]
            /\ UNCHANGED <<todo, left>>
    /\ UNCHANGED <<content, files, stored, all, acknowledged, marks, inputs, collected, stage, upload, stops>>

\* snapshotCompleteLines, copySessionDirectory, an export.
Copy(s) ==
    /\ busy = [source |-> s, copy |-> 0]
    /\ busy' = [busy EXCEPT !.copy = content[s]]
    /\ UNCHANGED <<content, files, stored, all, todo, acknowledged, marks, inputs, collected, stage, upload, stops, left>>

\* The source or its copy cannot be read: a warning, and the next one.
Unreadable ==
    /\ busy # None
    /\ busy' = None
    /\ todo' = todo \ {busy.source}
    /\ UNCHANGED <<content, files, stored, all, acknowledged, marks, inputs, collected, stage, upload, stops, left>>

Described(s, copy, dropped) ==
    LET digest == <<s, copy>> IN
    /\ busy = [source |-> s, copy |-> copy] /\ copy # 0
    /\ marks' = IF s \in Stamped
                THEN [marks EXCEPT ![s] = [stamp |-> content[s], digest |-> digest]]
                ELSE marks
    /\ collected' = collected \cup {TraceOf[s]}
    /\ inputs' = IF dropped THEN inputs ELSE inputs \cup {digest}
    /\ busy' = None
    /\ todo' = todo \ {s}
    /\ UNCHANGED <<content, files, stored, all, acknowledged, stage, upload, stops, left>>

Acked(s, copy) == ~all /\ acknowledged[TraceOf[s]] = <<s, copy>>

\* Mutant: a Trace that was described before is packed again.
Describe_Again(s, copy) == Described(s, copy, Acked(s, copy))

\* Mutant: what was read is packed, acknowledged or not.
Describe_Acked(s, copy) == Described(s, copy, TraceOf[s] \in collected)

\* The stamp is taken again after the copy and recorded with the copy's digest.  A
\* Trace described before is dropped; so is a revision that is acknowledged.
Describe(s, copy) == Described(s, copy, TraceOf[s] \in collected \/ Acked(s, copy))

\* SaveSourceStamps, before there is an archive; if it fails there is a warning.
SaveStamps(saved) ==
    /\ stage = "reading" /\ todo = {} /\ busy = None
    /\ stamps' = IF saved THEN marks ELSE stamps
    /\ stage' = "packing"
    /\ UNCHANGED <<content, state, archives, stored, all, todo, busy, acknowledged, marks, inputs, collected, upload, stops, left>>

EndCollect ==
    /\ stage' = "idle"
    /\ all' = FALSE /\ todo' = {} /\ busy' = None /\ inputs' = {} /\ collected' = {}
    /\ acknowledged' = Unknown
    /\ marks' = [s \in Source |-> None]

\* archive.Write: a ZIP of the inputs, or none.
Pack ==
    /\ stage = "packing"
    /\ archives' = archives \cup [own : {TRUE}, revisions : {inputs} \ {{}}]
    /\ Cardinality(archives') <= MaxArchive
    /\ EndCollect
    /\ UNCHANGED <<content, state, stamps, stored, upload, stops, left>>

\* A signal, an adapter fails, or the ZIP cannot be written.
Stop ==
    /\ stage # "idle" /\ stops < MaxStop
    /\ stops' = stops + 1
    /\ EndCollect
    /\ UNCHANGED <<content, files, stored, upload, left>>

\* A ZIP is deleted, uploaded or not.
RemoveArchive(archive) ==
    /\ archive \in archives
    /\ archives' = archives \ {archive}
    /\ UNCHANGED <<content, state, stamps, stored, collect, upload, stops, left>>

-----------------------------------------------------------------------------
(* traicr upload ARCHIVE.zip ... *)

\* LoadCollector, once for all its archives.
StartUpload(u) ==
    /\ config[u] = None
    /\ config' = [config EXCEPT ![u] = state]
    /\ UNCHANGED <<content, files, stored, collect, sending, report, stops, left>>

Send(u, archive) ==
    /\ config[u] # None /\ sending[u] = None /\ archive \in archives
    /\ sending' = [sending EXCEPT ![u] = archive]
    /\ UNCHANGED <<content, files, stored, collect, config, report, stops, left>>

\* The revisions in good parse completely, and they belong to the archive's machine.
Stores(u, good) ==
    /\ good \subseteq sending[u].revisions
    /\ stored' = IF sending[u].own THEN stored \cup good ELSE stored

\* The server imports the archive.  It reports as imported, updated or unchanged
\* what it has parsed completely now or before; the rest is partial or has failed.
Import(u, good) ==
    /\ sending[u] # None /\ report[u] = None
    /\ Stores(u, good)
    /\ report' = [report EXCEPT ![u] =
           IF sending[u].own THEN sending[u].revisions \cap stored' ELSE good]
    /\ UNCHANGED <<content, files, collect, config, sending, stops, left>>

With(base, digests) ==
    [n \in Trace |-> IF \E d \in digests : TraceOf[d[1]] = n
                     THEN CHOOSE d \in digests : TraceOf[d[1]] = n
                     ELSE base[n]]

Answered(u, digests) ==
    /\ report[u] # None
    /\ IF sending[u].own
       THEN /\ config' = [config EXCEPT ![u] = With(@, digests)]
            /\ state' = config'[u]
       ELSE UNCHANGED <<config, state>>
    /\ sending' = [sending EXCEPT ![u] = None]
    /\ report' = [report EXCEPT ![u] = None]
    /\ UNCHANGED <<content, stamps, archives, stored, collect, stops, left>>

\* Mutant: every revision sent is acknowledged, whatever its outcome.
Acknowledge_All(u) == Answered(u, sending[u].revisions)

\* acknowledge and SaveCollector: the outcomes that count are entered in this
\* process's Collection State, which replaces the one on disk.
Acknowledge(u) == Answered(u, report[u])

Over(u, good) ==
    /\ config[u] # None
    /\ IF sending[u] # None /\ report[u] = None THEN Stores(u, good) ELSE good = {} /\ UNCHANGED stored
    /\ config' = [config EXCEPT ![u] = None]
    /\ sending' = [sending EXCEPT ![u] = None]
    /\ UNCHANGED <<content, files, collect, stops, left>>

\* The upload ends: after its last archive, or killed, or the server is busy, or
\* the connection breaks before or after the report.  An import cut short keeps
\* what it has.
EndUpload(u, good) == Over(u, good) /\ report' = [report EXCEPT ![u] = None]

-----------------------------------------------------------------------------
DescribeAny == \E s \in Source, copy \in 1..MaxContent : Describe(s, copy)

Next ==
    \/ \E s \in Source : Write(s) \/ Look(s) \/ Copy(s)
    \/ \E every \in BOOLEAN : StartCollect(every)
    \/ Unreadable \/ DescribeAny
    \/ \E saved \in BOOLEAN : SaveStamps(saved)
    \/ Pack \/ Stop
    \/ \E archive \in archives : RemoveArchive(archive)
    \/ \E u \in Uploader :
          \/ StartUpload(u)
          \/ \E archive \in archives : Send(u, archive)
          \/ \E good \in SUBSET Digest : Import(u, good) \/ EndUpload(u, good)
          \/ Acknowledge(u)

Spec == Init /\ [][Next]_vars

\* A collection that runs goes on.
CollectStep ==
    \/ \E s \in Source : Look(s) \/ Copy(s)
    \/ DescribeAny \/ SaveStamps(TRUE) \/ Pack

Archived(d) == \E archive \in archives : archive.own /\ d \in archive.revisions
Sent(u, d) == sending[u] # None /\ sending[u].own /\ d \in sending[u].revisions

\* The user goes on collecting and uploading.  What can be read, described and
\* packed every so often is, at some time, without an error; a last revision there
\* is a ZIP of again and again is sent, and not every time in vain.
FairSpec ==
    /\ Spec
    /\ WF_vars(StartCollect(FALSE) \/ CollectStep)
    /\ SF_vars(SaveStamps(TRUE))
    /\ \A u \in Uploader : WF_vars(Acknowledge(u))
    /\ \A s \in Source : SF_vars(Copy(s)) /\ SF_vars(\E copy \in 1..MaxContent : Describe(s, copy))
    /\ \A s \in Source : LET d == <<s, MaxContent>> IN
          /\ []<>Archived(d) => []<>(\E u \in Uploader : Sent(u, d))
          /\ SF_vars(\E u \in Uploader : Sent(u, d) /\ Import(u, sending[u].revisions))

-----------------------------------------------------------------------------
StateType == [Trace -> Digest \cup {None}]
Marked(s, m) == m # None => m.digest \in Digest /\ m.digest[1] = s /\ m.stamp \in m.digest[2]..content[s]

TypeOK ==
    /\ content \in [Source -> 1..MaxContent]
    /\ state \in StateType /\ acknowledged \in StateType
    /\ \A s \in Source : Marked(s, stamps[s]) /\ Marked(s, marks[s])
    /\ archives \subseteq Archive
    /\ stored \subseteq Digest
    /\ todo \subseteq Source /\ inputs \subseteq Digest /\ collected \subseteq Trace
    /\ busy # None => busy.source \in todo /\ busy.copy \in 0..content[busy.source]
    /\ stage \in {"idle", "reading", "packing"}
    /\ \A u \in Uploader :
          /\ config[u] # None => config[u] \in StateType
          /\ sending[u] # None => config[u] # None /\ sending[u] \in Archive
          /\ report[u] # None => sending[u] # None /\ report[u] \subseteq sending[u].revisions
    /\ \A s \in Source : left[s] # None => left[s].digest \in Digest /\ left[s].content <= content[s]

\* What Collection State takes for uploaded has been parsed by the server, and
\* completely: no partial outcome, lost report, ZIP of another machine or second
\* upload that writes its own copy over the file makes it say otherwise.
AcknowledgedIsStored ==
    \A n \in Trace : state[n] # None => state[n] \in stored /\ TraceOf[state[n][1]] = n

\* A Trace ZIP holds a Trace once, though two sources may be of one Trace; a ZIP
\* with two revisions of it fails validation and none of its Traces is imported.
OneRevisionEach == \A archive \in archives : OneOfEach(archive.revisions)

\* The last copy of a source that is left out unread is stored: stamps that are
\* saved without an archive, and archives that are lost, hide nothing.
LeftOutIsStored == \A s \in Source : left[s] # None => left[s].digest \in stored

\* docs/design.md:101: collect includes Traces that are new or changed since their
\* last successful upload.  A source that is left out is stored as it is now.
NothingLeftBehind == \A s \in Source : left[s] # None => <<s, left[s].content>> \in stored

LeftWithOlder(s) == left[s] # None /\ left[s].content = MaxContent /\ left[s].digest # <<s, MaxContent>>

\* The last content of a session gets to the server, however many collections are
\* interrupted and uploads fail, are partial or are lost, unless it was written while
\* it was copied and is left out with the mark of the older copy (LiveStamp).
EverythingArrives ==
    \A s \in Source : content[s] = MaxContent ~> (<<s, MaxContent>> \in stored \/ LeftWithOlder(s))

\* docs/design.md:101 again: a Trace is not packed while what was acknowledged for it
\* is what one of its sources still holds and the source to be packed was not written.
OnlyNewOrChanged ==
    ~all => \A d \in inputs : \A s \in Source :
                TraceOf[s] = TraceOf[d[1]] /\ (s = d[1] \/ content[d[1]] = 1)
                    => acknowledged[TraceOf[s]] # <<s, content[s]>>
=============================================================================
