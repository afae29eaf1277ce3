----------------------------- MODULE TraceEvents -----------------------------
(***************************************************************************)
(* How the Revisions of a Trace merge into one list of Events: imports     *)
(* (commitRevision, insertEvents), repeated imports, the rebuild after a   *)
(* normalizer upgrade (Renormalize, replaceRevisionEvents) and deletion.   *)
(*                                                                         *)
(* Each action is one operation under Store.writer, whose event changes    *)
(* are one transaction; ObjectStore shows what can be interrupted outside  *)
(* it.  The rebuild reads its candidates in batches without the writer and *)
(* takes the writer for one candidate at a time, so every other operation  *)
(* can come between.                                                       *)
(*                                                                         *)
(* An observation is what one Revision says of one event key.  Of its      *)
(* content only the order that picks the preferred one matters: event      *)
(* time, then archived attachments, then digest, taken together as one     *)
(* rank.                                                                   *)
(***************************************************************************)
EXTENDS FiniteSets, Integers

CONSTANTS
    Trace,        \* Traces
    Revision,     \* Revisions an archive can hold
    Key,          \* event keys
    Rank,         \* observations of a key, by rank
    OwnerOf,      \* the Trace of each Revision
    UpdatedAt,    \* native_updated_at of each Revision
    MaxVersion,   \* normalizer versions are 1..MaxVersion
    Parse,        \* Parse[r][v]: what version v of the normalizer makes of r
    BatchSize,    \* LIMIT of Renormalize's query (100 in the code)
    None          \* no value

Version == 1..MaxVersion
Status == {"normalized", "partially_parsed", "unsupported", "failed"}

\* A normalization has a status, gives each of its keys an observation and lists
\* the keys earlier versions gave the same record.
ASSUME EventConstants ==
    /\ OwnerOf \in [Revision -> Trace]
    /\ UpdatedAt \in [Revision -> Nat]
    /\ Rank \subseteq Nat
    /\ MaxVersion \in Nat \ {0}
    /\ BatchSize \in Nat \ {0}
    /\ \A r \in Revision, v \in Version :
          /\ Parse[r][v].status \in Status
          /\ DOMAIN Parse[r][v].event \subseteq Key
          /\ \A k \in DOMAIN Parse[r][v].event :
                /\ Parse[r][v].event[k] \in Rank
                /\ Parse[r][v].legacy[k] \subseteq Key
    /\ None \notin Key /\ None \notin Rank

VARIABLES
    version,      \* of the running server's normalizers
    revisions,    \* rows of trace_revisions
    status,       \* their status
    parsed,       \* their normalizer_version
    observed,     \* <<r, k, rank>>: observation_revisions joined with its event
    events,       \* <<t, k>>: rows of events
    preferred,    \* their preferred_observation_id
    alias,        \* event_aliases: alias[<<t, old key>>] is a key of t, or None
    visited,      \* <<t, k>> a reader may hold a link to (history)
    unread,       \* the rebuild's Revisions with an id <= maximum still to be read
    candidates,   \* the batch it has read and not rebuilt yet
    stale,        \* those of them whose Trace was deleted since
    rebuild       \* "idle", "running", "complete" or "aborted"

content == <<revisions, status, parsed, observed, events, preferred, alias>>
pass == <<unread, candidates, stale, rebuild>>
vars == <<version, content, visited, pass>>

Slot == Trace \X Key

\* The observations of one event key of a Trace among those in obs.
ObservationsOf(obs, e) == {o \in obs : OwnerOf[o[1]] = e[1] /\ o[2] = e[2]}

\* Mutant: the archive decides by content alone.
Better_IgnoresUpdate(o, p) == o[3] >= p[3]

\* ORDER BY native_updated_at DESC, event_time DESC, attachments DESC, digest DESC LIMIT 1
Better(o, p) ==
    \/ UpdatedAt[o[1]] > UpdatedAt[p[1]]
    \/ UpdatedAt[o[1]] = UpdatedAt[p[1]] /\ o[3] >= p[3]
Best(obs) == (CHOOSE o \in obs : \A p \in obs : Better(o, p))[3]

EventsIn(obs) == {<<OwnerOf[o[1]], o[2]>> : o \in obs}

Observations(r, norm) == {<<r, k, norm.event[k]>> : k \in DOMAIN norm.event}

Successful(s) == s = "normalized"
Rejected(s) == s \in {"failed", "unsupported"}

Init ==
    /\ version = 1
    /\ revisions = {} /\ observed = {} /\ events = {} /\ visited = {}
    /\ status = [r \in Revision |-> None]
    /\ parsed = [r \in Revision |-> 0]
    /\ preferred = [e \in Slot |-> None]
    /\ alias = [e \in Slot |-> None]
    /\ unread = {} /\ candidates = {} /\ stale = {}
    /\ rebuild = "idle"

Visit == visited' = visited \cup events'

-----------------------------------------------------------------------------
(* Imports *)

\* Mutant: an event that is there already keeps its preferred observation.
InsertEvents_KeepsPreferred(r, norm) ==
    LET mine == Observations(r, norm) IN
    /\ observed' = observed \cup mine
    /\ events' = events \cup EventsIn(mine)
    /\ preferred' = [e \in Slot |->
           IF e \in events' \ events THEN Best(ObservationsOf(observed', e)) ELSE preferred[e]]

\* insertEvents: the Revision's observations join those of their keys, and only
\* these keys choose their preferred observation again.
InsertEvents(r, norm) ==
    LET mine == Observations(r, norm) IN
    /\ observed' = observed \cup mine
    /\ events' = events \cup EventsIn(mine)
    /\ preferred' = [e \in Slot |->
           IF e \in EventsIn(mine) THEN Best(ObservationsOf(observed', e)) ELSE preferred[e]]

\* importTrace of a Revision the store does not have.
ImportNew(r) ==
    LET norm == Parse[r][version] IN
    /\ r \notin revisions
    /\ revisions' = revisions \cup {r}
    /\ status' = [status EXCEPT ![r] = norm.status]
    /\ parsed' = [parsed EXCEPT ![r] = version]
    /\ InsertEvents(r, norm)
    /\ Visit
    /\ UNCHANGED <<version, alias, pass>>

\* Mutant: the new keys get a preferred observation, those left behind keep theirs.
ReplaceRevisionEvents_PrefersNewOnly(r, norm) ==
    LET t == OwnerOf[r]
        mine == Observations(r, norm)
    IN
    /\ status' = [status EXCEPT ![r] = norm.status]
    /\ parsed' = [parsed EXCEPT ![r] = version]
    /\ observed' = {o \in observed : o[1] # r} \cup mine
    /\ events' = {e \in events : e[1] # t} \cup {e \in EventsIn(observed') : e[1] = t}
    /\ preferred' = [e \in Slot |->
           IF e \in EventsIn(mine) THEN Best(ObservationsOf(observed', e))
           ELSE IF e \in events' THEN preferred[e] ELSE None]
    /\ Visit
    /\ UNCHANGED <<version, revisions, alias>>

\* Mutant: aliases are recorded after the old events are gone.
ReplaceRevisionEvents_AliasesLast(r, norm) ==
    LET t == OwnerOf[r]
        renamed(l) == {k \in DOMAIN norm.event : l \in norm.legacy[k]}
    IN
    /\ status' = [status EXCEPT ![r] = norm.status]
    /\ parsed' = [parsed EXCEPT ![r] = version]
    /\ observed' = {o \in observed : o[1] # r} \cup Observations(r, norm)
    /\ events' = {e \in events : e[1] # t} \cup {e \in EventsIn(observed') : e[1] = t}
    /\ alias' = [e \in Slot |->
           IF e[1] = t /\ e \in events' /\ renamed(e[2]) # {}
           THEN CHOOSE k \in renamed(e[2]) : TRUE
           ELSE alias[e]]
    /\ preferred' = [e \in Slot |->
           IF e[1] # t THEN preferred[e]
           ELSE IF e \in events' THEN Best(ObservationsOf(observed', e)) ELSE None]
    /\ Visit
    /\ UNCHANGED <<version, revisions>>

\* replaceRevisionEvents: aliases from the keys the Trace has now, the old
\* observations out, the new ones in, every preferred observation of the Trace
\* chosen again, events without an observation out.  Of several events that list
\* the same earlier key one gets the alias (in the code the last in their order).
ReplaceRevisionEvents(r, norm) ==
    LET t == OwnerOf[r]
        renamed(l) == {k \in DOMAIN norm.event : l \in norm.legacy[k]}
    IN
    /\ alias' = [e \in Slot |->
           IF e[1] = t /\ e \in events /\ renamed(e[2]) # {}
           THEN CHOOSE k \in renamed(e[2]) : TRUE
           ELSE alias[e]]
    /\ status' = [status EXCEPT ![r] = norm.status]
    /\ parsed' = [parsed EXCEPT ![r] = version]
    /\ observed' = {o \in observed : o[1] # r} \cup Observations(r, norm)
    /\ events' = {e \in events : e[1] # t} \cup {e \in EventsIn(observed') : e[1] = t}
    /\ preferred' = [e \in Slot |->
           IF e[1] # t THEN preferred[e]
           ELSE IF e \in events' THEN Best(ObservationsOf(observed', e)) ELSE None]
    /\ Visit
    /\ UNCHANGED <<version, revisions>>

\* importTrace of a Revision it has: one that parsed completely is left alone,
\* another is parsed again, and a parse that fails changes nothing.
Reimport(r) ==
    LET norm == Parse[r][version] IN
    /\ r \in revisions
    /\ ~Successful(status[r])
    /\ ~Rejected(norm.status)
    /\ ReplaceRevisionEvents(r, norm)
    /\ UNCHANGED pass

\* DELETE FROM traces; a candidate of the rebuild does not know.
DeleteTrace(t) ==
    LET gone == {r \in revisions : OwnerOf[r] = t} IN
    /\ gone # {}
    /\ revisions' = revisions \ gone
    /\ status' = [r \in Revision |-> IF r \in gone THEN None ELSE status[r]]
    /\ parsed' = [r \in Revision |-> IF r \in gone THEN 0 ELSE parsed[r]]
    /\ observed' = {o \in observed : o[1] \notin gone}
    /\ events' = {e \in events : e[1] # t}
    /\ preferred' = [e \in Slot |-> IF e[1] = t THEN None ELSE preferred[e]]
    /\ alias' = [e \in Slot |-> IF e[1] = t THEN None ELSE alias[e]]
    /\ visited' = {e \in visited : e[1] # t}
    /\ unread' = unread \ gone
    /\ stale' = stale \cup (candidates \cap gone)
    /\ UNCHANGED <<version, candidates, rebuild>>

-----------------------------------------------------------------------------
(* The rebuild *)

\* A restart of the server, with newer normalizers or the same: the startup
\* goroutine begins a pass over the Revisions that are there.
Restart(v) ==
    /\ v \in version..MaxVersion
    /\ version' = v
    /\ rebuild' = "running"
    /\ unread' = revisions
    /\ candidates' = {} /\ stale' = {}
    /\ UNCHANGED <<content, visited>>

\* Mutant: a batch without a candidate is taken for the last one.
ReadBatch_StopsEarly(batch) ==
    /\ rebuild = "running" /\ candidates = {}
    /\ batch # {} /\ batch \subseteq unread
    /\ Cardinality(batch) <= BatchSize
    /\ candidates' = {r \in batch : parsed[r] < version}
    /\ unread' = IF candidates' = {} THEN {} ELSE unread \ batch
    /\ UNCHANGED <<version, content, visited, stale, rebuild>>

\* A batch of rows read without the writer; those of an older version are kept.
ReadBatch(batch) ==
    /\ rebuild = "running" /\ candidates = {}
    /\ batch # {} /\ batch \subseteq unread
    /\ Cardinality(batch) <= BatchSize
    /\ unread' = unread \ batch
    /\ candidates' = {r \in batch : parsed[r] < version}
    /\ UNCHANGED <<version, content, visited, stale, rebuild>>

\* Mutant: what a failed parse returns replaces the events.
Rebuild_KeepsFailure(r) ==
    LET norm == Parse[r][version] IN
    /\ rebuild = "running" /\ r \in candidates \ stale
    /\ candidates' = candidates \ {r}
    /\ ReplaceRevisionEvents(r, norm)
    /\ UNCHANGED <<unread, stale, rebuild>>

\* One candidate, under the writer.  The version it was read with is not read
\* again, so one that an import has parsed in between is parsed once more.
Rebuild(r) ==
    LET norm == Parse[r][version] IN
    /\ rebuild = "running" /\ r \in candidates \ stale
    /\ candidates' = candidates \ {r}
    /\ IF Rejected(norm.status)
       THEN UNCHANGED <<version, content, visited>>
       ELSE ReplaceRevisionEvents(r, norm)
    /\ UNCHANGED <<unread, stale, rebuild>>

\* The candidate's rows are gone: recordRun fails on the foreign key, or
\* currentSearchLabels finds no trace.  Renormalize returns the error.
AbortRebuild ==
    /\ rebuild = "running" /\ stale # {}
    /\ rebuild' = "aborted"
    /\ unread' = {} /\ candidates' = {} /\ stale' = {}
    /\ UNCHANGED <<version, content, visited>>

FinishRebuild ==
    /\ rebuild = "running" /\ unread = {} /\ candidates = {}
    /\ rebuild' = "complete"
    /\ UNCHANGED <<version, content, visited, unread, candidates, stale>>

Next ==
    \/ \E r \in Revision : ImportNew(r) \/ Reimport(r) \/ Rebuild(r)
    \/ \E t \in Trace : DeleteTrace(t)
    \/ \E v \in Version : Restart(v)
    \/ \E batch \in SUBSET unread : ReadBatch(batch)
    \/ AbortRebuild
    \/ FinishRebuild

Spec == Init /\ [][Next]_vars

-----------------------------------------------------------------------------
TypeOK ==
    /\ version \in Version
    /\ revisions \subseteq Revision
    /\ status \in [Revision -> Status \cup {None}]
    /\ parsed \in [Revision -> 0..MaxVersion]
    /\ observed \subseteq Revision \X Key \X Rank
    /\ events \subseteq Slot
    /\ visited \subseteq Slot
    /\ DOMAIN preferred = Slot  \* EventsDetermined says of its values what they are
    /\ alias \in [Slot -> Key \cup {None}]
    /\ unread \subseteq Revision
    /\ candidates \subseteq Revision
    /\ stale \subseteq candidates
    /\ rebuild \in {"idle", "running", "complete", "aborted"}

\* What versions p of the normalizer make of the Revisions in revs.
ObservationsOfAll(revs, p) == UNION {Observations(r, Parse[r][p[r]]) : r \in revs}

\* What a reader sees of a Trace depends on the Revisions it has and the version
\* each was parsed with, on nothing else: not on the order they were imported
\* in, on what was rebuilt, failed or deleted in between.  No event outlives its
\* last observation and every preferred observation is the best there is.
EventsDetermined ==
    /\ observed = ObservationsOfAll(revisions, parsed)
    /\ events = EventsIn(observed)
    /\ \A e \in Slot :
          preferred[e] = IF e \in events THEN Best(ObservationsOf(observed, e)) ELSE None

\* An import only adds: no event leaves, and an event shows another observation
\* only if the imported Revision is at least as recent as all that had it.
StaleImportKeeps ==
    [][\A r \in revisions' \ revisions :
          /\ events \subseteq events'
          /\ \A e \in events : preferred'[e] # preferred[e] =>
                \A o \in ObservationsOf(observed, e) : UpdatedAt[o[1]] <= UpdatedAt[r]]_vars

Current(r) == parsed[r] = version \/ Rejected(Parse[r][version].status)

\* The rows a pass has still to look at are there, and those it has dealt with
\* are as the running version makes them.
PassProgress ==
    /\ unread \subseteq revisions
    /\ candidates \ stale \subseteq revisions
    /\ rebuild # "running" => unread = {} /\ candidates = {}
    /\ rebuild \in {"running", "complete"} =>
          \A r \in revisions \ (unread \cup (candidates \ stale)) : Current(r)

\* The inductive invariant behind EventsDetermined and RebuildCovers.
IInv ==
    /\ TypeOK
    /\ \A r \in revisions : parsed[r] \in 1..version
    /\ EventsDetermined
    /\ PassProgress

\* A parse that fails never takes the place of one that worked: whatever the
\* rebuild or a repeated import does, a stored Revision does not turn into a
\* failed or unsupported one and so keeps its observations.
FailedParseKeeps ==
    [][\A r \in revisions \cap revisions' :
          Rejected(status'[r]) => status'[r] = status[r] /\ parsed'[r] = parsed[r]]_vars

\* A rebuild that ends without an error has left no Revision to an older
\* version, except those the new version cannot parse; Revisions imported,
\* parsed again or deleted while it ran do not make it miss one.
RebuildCovers ==
    rebuild = "complete" => \A r \in revisions : Current(r)

\* The upgrade notes (docs/operations.md:120) say a restart rebuilds the Revisions
\* older normalizers produced: once the rebuild has ended, none is left.
RebuildReachesAll ==
    rebuild \in {"complete", "aborted"} => \A r \in revisions : Current(r)

\* A link to an event key opens while the key names an event, or is an alias of
\* a key that does (eventPosition, Sources).
Opens(e) == e \in events \/ (alias[e] # None /\ <<e[1], alias[e]>> \in events)

\* Old links open (docs/transcript-viewer.md:202): a key a reader has seen, and
\* which a stored Revision's normalization still gives or lists as an earlier
\* key, resolves to an event.
LinksOpen ==
    \A e \in visited :
        (\E r \in revisions :
            /\ OwnerOf[r] = e[1]
            /\ LET norm == Parse[r][parsed[r]] IN
               \E k \in DOMAIN norm.event : e[2] = k \/ e[2] \in norm.legacy[k])
        => Opens(e)

\* What any version calls an event of a Trace that had the key l.
NamesOf(t, l) ==
    {k \in Key : \E r \in Revision, v \in Version :
        OwnerOf[r] = t /\ k \in DOMAIN Parse[r][v].event /\ l \in Parse[r][v].legacy[k]}

\* No key is renamed twice: a key that is renamed gets one name, and a version that
\* drops it from a Revision names its successor.
RenamedOnce ==
    \A t \in Trace, l \in Key :
        /\ \A k, m \in NamesOf(t, l) : k = m
        /\ NamesOf(t, l) # {} =>
              \A r \in Revision, v, w \in Version :
                  OwnerOf[r] = t /\ v < w /\ l \in DOMAIN Parse[r][v].event
                  /\ ~Rejected(Parse[r][w].status) =>
                      \/ l \in DOMAIN Parse[r][w].event
                      \/ \E k \in DOMAIN Parse[r][w].event : l \in Parse[r][w].legacy[k]
=============================================================================
