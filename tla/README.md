# Traicr in TLA+

Traicr collects the traces of AI coding tools on Source Machines, packs them into
Trace ZIPs, uploads these to a server that stores the files and merges what
normalizers make of them, and shows the result in a web viewer. This directory holds
models of the parts where order, failure and concurrency decide whether the archive
is right, TLC runs that check them on small instances, and proofs that TLAPS checks
for every instance. Line references are to the repository this is kept beside.

## Running

    tlc -config ObjectStore.cfg MCObjectStore.tla     # any row of "Runs"
    tlapm ObjectStoreProofs.tla                       # and the other *Proofs.tla

`PROJECT.json` lists the runs, for each property a mutation of the model that breaks
it (the operators whose comment says *Mutant*), and the source lines of every
definition.

## Inventory

| Component | State | Operations | Hard because | Right when |
|---|---|---|---|---|
| Object store (`internal/store/store.go`, `maintenance.go`) | files under `objects/sha256`, `source_objects`, `revision_objects`, `Store.writer` | import, delete, GC | files and rows cannot change together; kills, failures, cancelled requests; one writer for all | what the database names can be read; a completed GC leaves nothing unused; the writer is always given back |
| Event merging (`store.go`, `maintenance.go`, `read.go`) | revisions, observations, events, preferred observation, aliases | import, repeated import, delete, rebuild after an upgrade | archives arrive in any order and again; parses fail; the rebuild works in batches among requests | events are a function of what is stored; a failed parse loses nothing; a rebuild misses nothing; old links open |
| Row ids (`maintenance.go`, `titles.go`, `transcript.go`) | ids of SQLite tables without AUTOINCREMENT | delete, insert | ids held across a wait come back for other rows | nobody takes another trace's row for the one it read |
| Titles (`titles.go`, `store.go`, `maintenance.go`) | `traces.title`, `title_override`, `generated_title`, search text of each revision | import, backfill, rename, generated title, rebuild | four writers, an index that copies the titles, seconds between question and answer | every title is searchable; only newer uploads replace a collected one |
| Naming worker (`internal/titles`) | queue, `accepted`, backoff | poll, request, record | outages, rejections, deleted traces | every trace gets its attempt |
| Transcript (`transcript.go`, `server/transcript.go`, `load.ts`) | cache of orders, cursors, pages loaded so far | open, continue, cache lookup and put, retry | history changes between pages; concurrent misses; eviction | a load that says it is whole is whole |
| Event pages, search (`read.go`, `search.go`) | cursors only: position and largest id | page, batches of a search | rows change between pages and between the statements of one search; a time budget | what is there all along is given once, in order |
| Import records, status (`store.go`, `status.go`, `routes.go`) | `imports`, `runningImport`, `importMu`, upload slot, pool of connections | begin, finish, status, reject, shut down | a row and a mark change in two places; four things to wait for; a request ends anywhere | what status calls interrupted was; every request ends |
| Log buffer (`server/logs.go`) | ring of records, sequence, instance | add, page, restart | records leave while they are paged; numbers begin again | a page is contiguous; no record twice, none missed in silence |
| Server lifecycle (`server/http_server.go`) | worker goroutines, listener | start, shut down | a timeout of the shutdown among open requests | workers have ended before the database closes |
| Collection (`internal/collector`, adapters, `config/stamps.go`) | `source_stamps.json`, copies, inputs | look, copy, describe, save, pack | sources are written meanwhile; interruption between the two files it writes | what is not stored is not left out |
| Upload (`collector/upload.go`, `config/collector.go`) | Collection State | send, acknowledge, save | partial outcomes, lost answers, processes that overwrite each other's file | what is acknowledged is stored |
| Copies (`adapters/files.go`, `native_dirs.go`) | files of a session, their stamps | stamp, stat, read in chunks, check | files are appended to, overwritten, replaced and removed meanwhile | a copy without a warning is of one moment; complete lines |
| Exports (`adapters/commands.go`) | slots, warnings, first error | list by pages, start, export, inspect, cancel | processes end in any order; lists overlap; failure and cancellation meet | every trace of the list has an input or a warning; it ends |
| Archives (`internal/archive`) | ZIPs | describe, split, write, validate | files change after they were described; the writer knows none of the validator's limits; untrusted and truncated input | one revision of a trace each; all or nothing; nothing but a limit refuses what was written |
| Normalizers (`internal/normalize`) | none | parse | formats of eight tools; parents missing, late, repeated, or in a cycle | stable keys; events below those their records name; one conversation in one line |
| Web turns and tree (`web/app/src/lib/transcript`) | none | build | branches, repeated and missing parents | every event is shown once |
| Authentication, pages, assets, CLI, client, domain types, settings | session cookie, settings | request handling | nothing that lasts | |

How they interact: `traicr collect` writes ZIPs and stamps, `traicr upload` sends a
ZIP to `POST /api/v1/imports`; the handler takes the one upload slot, validates the
ZIP and calls `Store.Import`, which takes `Store.writer` and, for each trace, stores
files, calls the normalizer and commits a revision. Requests that delete or rename,
the startup goroutine (GC, then the rebuild) and the naming worker share the same
database; the first two use the same writer. Readers do not take it: the transcript
handler opens a snapshot per page and shares the cache of orders.

## Modules

| Module | Models | State in the code | Actions in the code |
|---|---|---|---|
| `TraceLibrary` | what the store promises: a revision stays readable until its trace is deleted | | |
| `ObjectStore` | object files, rows and the writer | `objects`: the directory; `source_objects`, `trace_revisions`: tables; `writer`: the channel; `pc`, `todo`, `need`, `batch`, `file`: locals of `Import`, `DeleteTrace`, `gc` | one per file operation or transaction; `Restart` is a kill between any two |
| `ObjectStoreProofs` | theorems about it | | |
| `TraceEvents` | merging and the rebuild | `observed`: `event_observations` with `observation_revisions`; `preferred`, `alias`: columns and table; `unread`, `candidates`, `stale`: the progress of `Renormalize` | one per transaction: `ImportNew`, `Reimport`, `DeleteTrace`, `ReadBatch`, `Rebuild`, ... |
| `TraceEventsProofs` | theorems about it and about `ClaudeTree` | | |
| `RebuildRows` | row ids under the rebuild | tables as functions of row ids, the batch as pairs of ids | imports and deletions that reuse ids, `Rebuild` of an item |
| `RebuildRowsProofs` | theorems about it | | |
| `TraceTitles` | titles, index, worker | `traces`, `revisions` by row id; `queue`, `job`, `accepted` of the worker | each title writer, `Poll` ... `Replied` |
| `TraceTitlesProofs` | a theorem about it | | |
| `TranscriptPages` | cache, pages and loader | lists of event ids for each view, `orders` (the cache), per reader the view, cursor, snapshot and pages | writers of the order; `Open`, `LookUp`, `Put`, `Serve` of a request |
| `TranscriptPagesProofs` | theorems about its cache and about a whole load | | |
| `Collection` | collect and upload | the two files of the configuration directory, the ZIPs, locals of each process | one per read or write of a file that others see |
| `EventPages` | lists by pages: a trace's events, imports, both kinds of search | `events`: the table with what each event is observed as; `cursor`, `broad`, `before`, `page`: cursor and locals of one request | `Insert`, `Observe`, `Delete` by writers; `Open`, `Bound`, `ReadTrace`, `Prepare`, `Judge`, `ReadBatch` are the statements of a request |
| `LogBuffer` | the ring of log records and its pages | `records`, `last`, `instance`; `position` is the reader's cursor | a record of each request, a page, a restart |
| `ImportRequests` | upload slot, writer, `importMu`, connections, rows of `imports`, status, shutdown | one variable for each; `at` is where a handler is | one per statement that waits or that others see; every handler may fail or lose its client anywhere; `Signal`, `Exit`, `Kill`, `Start` |
| `MCServer` | the three before, one behaviour about each | | |
| `ServerProofs` | theorems about the three | | |
| `SourceCopies` | a JSONL file with its companion, or a directory of both, copied while it is written | `source`: the files; `stamp`, `before`, `remaining`, `copied`: locals of the copy | one per call of the operating system |
| `ExportPool` | traces exported by a command | `listed`, `job`, `kept`, `skipped`, `fatal`, `ended`: locals of `Collect` and its goroutines | a page of the list, a slot, the end of a process, a cancellation |
| `TraceArchive` | describing, splitting, writing and validating ZIPs | `disk`, `described`, `partial`, `zip`, `outputs` | one per file that is read or written; the validator is an operator over every ZIP, whole or with one entry damaged, and its limits: `Bounded` is what it asks of sizes, numbers and depths, `Intact` all the rest |
| `ClaudeTree` | where events of Claude Code records are put | `line`, `keys`, `made`, `head`, `late`: locals of `normalizeClaude` | one per record of the file, then the late results |
| `PiEntries` | order and models of Pi entries | `stack`, `ordered`, `model`: locals of `orderPiEntries` | one per round of its loops |
| `EventChain` | the line of Cursor Agent and Codex events | `chain`, `linked`, `parents` of `chainInFileOrder` | one per record, one per event |
| `MCSources` | the six before, one behaviour about each | | |
| `SourcesProofs` | theorems about `Collection`, `SourceCopies`, `ExportPool`, `EventChain`, `PiEntries`, `TraceArchive` | | |
| `NoValue` | the constant `None`: a column that is NULL, a file that is not there, an error | | |
| `SortedSets` | a finite set of numbers in order, its first so many, pages of it (`ORDER BY`, `LIMIT`, `sort.Slice`) | | |
| `SortedSetsProofs` | what these return | | |

`TraceLibrary` is the abstract specification; `ObjectStore` implements it with the
revisions whose files can all be opened as the library (`ImplementsLibrary`).
`TraceEvents` assumes what `ObjectStore` proves: the rebuild finds the files of every
stored revision. `Collection` knows of the server only that a revision is parsed
completely or not, and takes a copy for what `SourceCopies` says of it: the file at one
moment. `ImportRequests` has of an import only what it holds while it runs; `ObjectStore`
has what it does with the files. `TraceEvents`, `TraceTitles`, `TranscriptPages`,
`EventPages` and `RebuildRows` look at the same transactions with different columns;
they are kept apart because their product is far beyond TLC, and each action takes
every write of its transaction to the columns its module has.

Transactions are one step: SQLite runs one writing transaction at a time, and a reader
sees a snapshot. Row ids are the largest in the table plus one, as SQLite gives them
to an `INTEGER PRIMARY KEY`. Normalizers are a constant (`Parse`) or a choice at each
use; messages, titles and files are model values.

## Runs

| Run | Asks | Instance and why it is enough |
|---|---|---|
| `ObjectStore` | are files present, GCs complete, the library implemented, every waiter served, in every interleaving with crashes | two requests and the startup GC contend for the writer; three revisions in two traces that share a file, so a deletion frees some files of a revision and not others; `BatchSize` 2 of three files, so full, short and empty batches occur |
| `TraceEvents` | are events determined, rebuilds complete, failures harmless, links open | four revisions: an older and a newer that disagree, a tie, another trace; one of them fails with version 2, one was unsupported with version 1 |
| `RebuildRows` | are revisions credited with their own files | three traces in two rows, four revisions in three |
| `TraceTitles` | are titles indexed, collected titles kept | one row used by successive imports of a trace, two revisions, two times, all four kinds of title |
| `TitleWorker` | is each trace tried | two traces, untitled, batches of one or two |
| `TitleSearch` | (violated) is every title searchable | one row |
| `TranscriptPages` | fresh and consistent cache, pages found, whole transcript | two readers, two traces whose views compete for two places, two pages each, two revisions and a second normalizer run, one deletion |
| `StaleOrder` | (violated) the cache after a deletion | one row used twice |
| `Collection` | is what is acknowledged or left out stored, a trace once in a ZIP | two sources of one trace, two upload processes, a ZIP of another machine: the state file can be overwritten by an older one and ZIPs sent out of order |
| `CollectArrives` | does the last content arrive, is nothing unchanged packed again | one session file, two contents, one interruption: it can be written before, during and after each copy and upload |
| `Server` | are lists whole and in order though rows come, change and go, logs whole, interrupted imports counted right; does every request end | 56,000 states: three rows and two times, pages of one and batches of two, searches with and without an index; a ring of four with seven records and a restart; two uploads, a status and a worker with two connections, three imports, a restart |
| `Sources` | are copies of one moment, exports accounted for, ZIPs whole, accepted if they fit the limits, refused if damaged, events where their records put them; do exports end | 451,000 states: three bytes and two writes of the harness at any point of a copy; three traces in two slots, pages of two in any order; three inputs of up to two files, some empty, one too deep for the validator, ZIPs of one to three Traces that exceed each limit and that do not, one file changed meanwhile, and each ZIP with one entry lost, doubled, exchanged or altered; every file of three or four records with any parents, and one conversation of six |

Bounds: `MaxTrace`, `MaxRevision`, `MaxRun`, `MaxEvent` end a table's growth,
`MaxTime` and `MaxContent` the age of uploads and sessions, `MaxDelete` and `MaxStop`
the number of deletions and interruptions, `MaxVersion` upgrades, `MaxArchive` ZIPs at a
time (in `CollectArrives` all there can be), `Capacity` and `PageSize` stand for the
cache's 8 orders and a page's limit; `MaxId`, `MaxSeq` and `MaxImport` end the rows of a
table, `MaxProcess` and `MaxStart` restarts, `MaxClock` and `MaxChange` the writes to
files that are copied or packed; `Limit`, `BatchSize`, `LogCapacity`, `Slots`, `SplitSize`,
`WriteDepth`, `DefaultLimits`, `ServerLimits` and `Pool` stand for the limits of the code.
The validator's are reached and exceeded by ZIPs of the run; the depth the writer allows (32
in the code) is more than the one it asks of a source path (30). `MaxClimb` is 1000 in the
code; here it is 10, longer than any file. Hazards here need two of a kind and at most one
reuse of a row; the runs have these and one more where it is affordable.

### What fails

Two runs must end in a violation; each states what a comment says.

- `StaleOrder`: the cache answers with the order of a deleted trace (`transcript.go:30`).
- `TitleSearch`: a title found by the normalizer is shown and not searchable
  (`titles.go:28`).

Ten more configurations, which are not among the runs, end in a violation of the one
property they check. Each is the exception of a property that is otherwise claimed (of
`ArchivesWhole` in `ConfiguredLimits.cfg`, that the uploader and the server may differ).

- `EventLinks.cfg` (`MCTraceEvents`): an alias is written only while an event has the old
  key, so a link made two upgrades ago no longer opens (`docs/transcript-viewer.md:202`).
- `LiveStamp.cfg` (`MCCollection`): lines written between a copy and its stamp are left out
  once the copy is acknowledged (`docs/design.md:101`).
- `LateParents.cfg` (`MCSources`): a record whose parent without events is written after it
  begins a branch of its own (`claude_cursor_agent.go:75`).
- `ConfiguredLimits.cfg` (`MCSources`): the three upload limits are to be configured for the
  largest trace (`docs/operations.md:92`), but the collector does not send what exceeds the
  defaults (`upload.go:94`).
- `RebuildAbort.cfg` (`MCTraceEvents`): a trace deleted while the rebuild holds it ends
  the rebuild until the next restart (`maintenance.go:168`).
- `RebuildReuse.cfg` (`MCRebuildRows`): if the ids of an item were reused meanwhile, a
  revision's events move to another trace (`maintenance.go:171`).
- `MixedPages.cfg` (`TranscriptPages`): a load ends with pages of two traces of which
  the second has the ids of the first (`transcript.go:87`).
- `TitleReuse.cfg` (`MCTraceTitles`): a generated title is recorded for the trace that
  has the row now (`titles.go:287`).
- `TitleMissed.cfg` (`MCTraceTitles`): a trace is not offered again although it now has
  messages (`maintenance.go:242`).
- `CollectRepeats.cfg` (`MCCollection`): two unchanged sources of one trace are uploaded
  in turn, for ever (`collector.go:144`).

Where a claim holds except in such a case, a passing run checks it with the exception
made explicit: `CacheFresh` and `WholeTranscript` (no reused row), `OwnUnlessMisled`
(the rebuild met no reused row), `LeftOutIsStored` (the copy, not the live file),
`EverythingArrives` (no mark of an older copy), `AncestryKept` (parents that do not go in a
circle: events whose records do would be above themselves; a parent written later counts if
no other of the event's ancestors was found at first).

A module's type invariant `TypeOK` says what its variables hold; `ObjectStore` and
`TraceEvents` check theirs as a part of `IInv`, and the others hold in the same
configurations when they are added to the INVARIANTS.

## Fairness

- `ObjectStore`: a goroutine that can go on without waiting does (WF of `Proceed`):
  the Go scheduler. One that waits for the writer gets it if it is free again and
  again (SF of `Acquire`): a channel serves its senders in the order they came.
- `TraceTitles`: the worker's waits end, after 30 minutes at most (WF of its steps),
  and the provider answers for a trace that is asked about again and again (SF of
  `Replied`): title, no title or rejection. `EveryTraceTried` is claimed once a request
  has been accepted; before, the code takes a rejection for an outage. With batches of
  one it does not hold: a newer trace that is uploaded again and again as an unfinished
  parse is offered first each time. With two in a batch the second one has its turn.
- `Collection`: the user collects and uploads again and again and a collection that runs
  comes to its end (WF of `StartCollect(FALSE) \/ CollectStep` and of `Acknowledge`); what
  is tried again and again succeeds once (SF of `Copy`, `Describe` and `SaveStamps`, and, for
  the last content, of `Import`), and a revision that is in a ZIP of the output directory
  again and again is sent again and again. Nothing is assumed of any one attempt; ZIPs are those
  that fit the limits (`Fits` of `TraceArchive`), since others are refused each time. The run
  has one source; what is left out with the mark of an older copy is the exception
  `LiveStamp` shows.
- `EventPages`: a reader asks for its next page and a request reads on (WF of `Read`).
  `LogBuffer` states no fairness and no liveness.
- `ImportRequests`: a handler that can go on does; one that waits for the writer, `importMu`
  or a connection gets it if it is free again and again (SF of the steps of uploads, of
  readers and of the others). The channel and the mutex serve in the order of arrival;
  `database/sql` gives a connection to any of those who wait, but one that is given back
  again and again comes to each of them in the end. The server
  exits once it may (WF of `Exit`): the shutdown has its timeout.
- `ExportPool`: `Collect` goes on (WF of `CollectExports`), and each process ends, if only
  by its timeout (WF of `JobStep`).

## Proofs

`ObjectStoreProofs`, for any traces, revisions, digests, clients and batch size, from
`ConstantsAssumption` alone:

- `TypeCorrect`, `SourcesPresent` (`ReferencedPresent`), `NothingUnusedLeft`
  (`CollectionComplete`) and `StoreImplementsLibrary` (`ImplementsLibrary`).
- The invariant `IInv`. `ReferencedPresent` is not inductive: a commit needs the files
  written before it to be there still (`StoredSoFar`), a removal needs its digest to be
  unused still (`BatchUnused`), and both hold across steps of others only because no one
  else is past the writer (`WriterExclusive`). `CollectionComplete` follows at the stage
  `gc_done` from what `BatchUnused` says of short batches and of the walk.
- Refinement: under `IInv` the readable revisions are the stored ones, a commit is
  `Commit`, a deletion `Remove`, and every other step leaves them as they are.

`TraceEventsProofs`, for any revisions, keys, ranks and versions and any `Parse`:

- `EventsAreDetermined` (`EventsDetermined`), `RebuildIsComplete` (`RebuildCovers`),
  `FailuresKeep` (`FailedParseKeeps`), and `IInv` itself (`Invariant`).
- `IInv` adds to them that a revision was parsed with a version up to the running one,
  and `PassProgress`: what the rebuild has dealt with is current and what it has yet to
  look at is there. The lemmas `InsertDerives` and `ReplaceDerives` show that the
  incremental updates of events and preferences give what the definition over all
  observations gives; one lemma per operation carries them over.
- `StaleImportsKeep` (`StaleImportKeeps`): an import takes no event away, and shows another
  observation of one only if no revision that has it was updated after the imported one. It
  needs that the observations of an event, which are finitely many (`FewObservations`), have a best one
  (`BestIsBest`, from the largest of a finite set of numbers, `HasLargest`).
- `LinksStayOpen`: `LinksOpen` under `RenamedOnce`, a condition on `Parse` alone: a key that
  is renamed gets one name, and a version that drops it from a revision lists it there as an
  earlier key. Without the condition it is false (`EventLinks.cfg`); the assumption
  `UpgradesOnce` of `MCTraceEvents` lets TLC confirm that the passing run satisfies the
  condition and `EventLinks.cfg` does not. The invariant `Aliased`: aliases are names the key
  has got, and a link whose event is gone has one, since the parse that took the last
  observation of the old key (`EventsParsed`) found the event still there.
- `ConversationIsOneBranch` (`OneBranch`), for any file of records, from `TreeConstants`:
  however calls run in parallel, results are written in any order after them and prompts
  without a UUID stand between, the events of one conversation follow one another. It needs
  that no result stands more than `MaxClimb` events below its call (`ResultsNear`), since
  `isAncestor` looks no further up. The invariant `BranchSoFar` is that the events so far are
  in one line and that what was put behind an event is the next in it, all the way from the
  head's event to the last: so the head resolves to the last event (`HeadResolves`), any other
  record to its own or a later one (`NamedResolves`), which is above the last
  (`LineAbove`). The loops that follow parents are recursive functions over their steps, of
  which only what each step preserves is used, by counting up to the last step (`CountUp`).
- `AncestryIsKept` (`AncestryKept`), for any file in which parents do not go in a circle
  (`Acyclic`), any kinds of records, named before or after those that name them. What was
  put behind an event is below it (`InsertedBelow`), so an event that is put in between
  stays below what its record names. What a record's way up leads to changes only when the
  record at its end is read (`EventedKept`). That a late parent cannot close a circle is the
  hard part, since a record read later may be put far below events that were there: all
  events that hang from one without a parent have one grade, which is no larger than the
  distance of any of their records from the end of its way up (`DepthOf`, `GradesFit`). An
  event whose parent is not read yet begins a new part, with its own record's distance as
  grade (`LateFit`); its parent's record is nearer to the end, so each late link goes to a
  smaller grade, and no way up meets itself (`NoneAboveItself`). What is above an event is
  taken there as what every set closed under parents contains (`Reaches`), apart from the
  loops and their limit `MaxClimb` (`AboveIsReached`, `ReachedIsAbove`).

`RebuildRowsProofs`, for any traces, files, row ids and versions, from `RowConstants`:

- `OwnFilesOnly` (`MadeFromOwnFiles`) and `OwnTraceUnlessMisled` (`OwnUnlessMisled`).
- Neither is inductive: a row that is inserted gets an id that was used before, so it must
  be known that nothing refers to a row that is gone (`Referenced`, what ON DELETE CASCADE
  is for) and that a revision is of the trace its files are of (`Owned`). That an inserted
  id is in no row follows from the largest id of a bounded table (`LastIsLargest`, by the
  well-foundedness of the numbers).

`TraceTitlesProofs`, for any traces, titles, limits and batches, from `TitleConstants`:

- `TitlesAreIndexed` (`StoredTitlesIndexed`), `CollectedTitlesKept` (`CollectedTitleKept`)
  and `TablesAgree`.
- Each of the writers copies titles into the text of the Revisions it found in the tables,
  so `RowsAgree` must say what SQLite's keys do: traces are unique, revisions are of rows
  that are there, and what the batch, the queue and the job hold was in them. A row that is
  inserted has an id no row has (`NewIds`, from the largest id of a bounded table).

`ServerProofs`, about the modules of `MCServer`:

- `StatusCountsInterrupted` (`IncompleteWereInterrupted`), for any uploads, status requests,
  workers, connections and starts, from `RequestConstants`. Its invariant `Holding` says that
  whoever is between `Acquire` and `Finish` has the writer, hence that at most one upload
  has a row, and that the mark is that row from the commit on until the deferred call.
- `PagesAreOrdered` (`PagesOrdered`) and `PagesAreWhole` (`PagesWhole`), for any rows, times,
  limits and batches, from `ListConstants`. `ListIInv` says what the cursor and the batch in
  work mean for rows that were there all the time: given, in the batch, or still to come
  (`TracePaged`, `SearchPaged`). A page is a part of a sorted set, so the lemmas of
  `SortedSetsProofs` about its first and last elements carry it over.
- `LogIsWhole` (`LogPagesWhole`), for any capacity and page, from `LogConstants`: `Buffered`
  says that the ring is in the order of its numbers and of this process, `Paged` what was
  shown and what was not as of the cursor.

`SortedSetsProofs`, for any finite set of numbers: `Upward` and `Downward` exist, have each
element once and are in order, and the first so many of one are below the rest. They rest on
counting: in a finite strict order no two elements have as many below them, so each number of
elements below is that of one element (`RankGrows`, `RankTaken`). That a set that is not empty
has a largest and a smallest element (`HasLargest`, `HasSmallest`) follows: the first of
each. Where an induction over the positions of a sequence is needed, it is the argument about
the first position that is wrong. So it is for functions that count up to a number, each value
from the one before it (`CountUp`, `Iterates`): the ways up of Claude Code events and of Pi
entries are of that kind.

`SourcesProofs`, about `Collection` and five other modules of `MCSources`:

- `AcknowledgedStored` (`AcknowledgedIsStored`), `LeftOutStored` (`LeftOutIsStored`) and
  `OneRevisionOfEach` (`OneRevisionEach`), for any sources, traces, contents, ZIPs,
  interruptions and upload processes, from `CollectionConstants`, which asks of the ZIPs of
  another machine that they were made by this program. The invariant is `Truthful`: not
  only the file, but each copy of Collection State that a process has loaded, and each
  report it will enter in it, names nothing that is not stored. So it does not matter which
  process writes last, and a collection that leaves a source out relies on no more than the
  copy it loaded. `Dropping` ties the inputs of a collection to the traces it has described.
- `OnlyNewPacked` (`OnlyNewOrChanged`), if no two sources are of one trace. With two the
  property is false (`CollectRepeats.cfg`). What is described, left out, stored or sent was
  copied, and a source was written since if what it has is not that (`Copied`, `Newer`).
- `CopiesOfOneMoment` (`CopyOfOneMoment`), for any session, size of a read and number of
  writes, from `CopyConstants`. `CInv` follows what a write of the harness ends: that a file
  is like what was taken of it (`Same`), or, for records that only grow, that it begins like
  it (`Still`). While that holds, what was read so far is the beginning of that moment, and a
  copy that was made is all of it; the Stat that finds nothing changed says that it still
  does, and from then on the copy does not depend on the file (`Vouched`).
- `ExportsAreAccounted` (`ExportsAccounted`), for any traces, pages and slots, from
  `ExportConstants`: `JobsCounted` follows each trace that was started to its end,
  `ListCounted` the entries that were seen twice, so that a list that came to its end without
  a warning has all (`FS_Bijection`).
- `EventsInOneLine` (`OneLine`), for any transcripts, from `ChainConstants`: `Taken` relates
  the first event of a key to the first record that has it, `Linked` says which parents have
  been given.
- `BranchesAreInherited` (`BranchesInherit`), for any sessions, from `PiConstants`, which asks
  only that a session is a sequence of entries. `EndsInCycles` says that an entry which was put
  before its parent is in a cycle, and that no other entry of that cycle was; `Warned` that the
  warnings are one for each of these; `Passed` that the model of an entry is that of the
  nearest change above it. `Line`, which counts up from an entry, is taken as the least set
  with the entry that is closed under its parents, so two ways up that meet go on as one.
- `ZIPsAreWhole` (`ArchivesWhole`) and `DamageIsRefused` (`DamageRefused`), for any Traces,
  files, sizes, depths, limits and changes, from `ArchiveConstants`, which asks that a
  collection has one input of a Trace (`OneRevisionOfEach`) and that limits are positive.
  `Write` looks at none of the limits, so not every ZIP it finishes is accepted; those are
  that fit (`Fits`, what limits ask of the traces, files and sizes of a ZIP), and only those:
  files that are gone, changed or described twice, or names that clash, never refuse one. `ArchiveIInv` says that descriptions do not change
  once writing has begun, that the ZIP in work has its manifest, its descriptors and nothing
  but files as they were described (`Begun`), and that a finished one lacks none of them
  (`Whole`) and begins after the one before it. `IntactIsSound` says what `Validate` accepts,
  limits apart, in terms of names and values, and `BoundedIsFits` that in a whole ZIP each
  entry a limit is asked of is one that `Fits` names, and the reverse; the damage is refused by cases: an entry that is missing is
  not found, one too many is named twice or not listed, and files may be exchanged only for
  files of the same bytes (`DamageIsSeen`), whatever the limits. Sizes of inputs are a fold, of which nothing is
  used but that the last input that fits is the last one; those of manifests, descriptors
  and ZIPs are constants, any function of what is in them.

`TranscriptPagesProofs`, for any readers, row ids, events,
deletions, page size and capacity, from `PageConstants`:

- `CacheIsConsistent` (`CacheConsistent`) and `CacheIsFresh` (`CacheFresh`), then
  `PagesAreFound` (`PagesFound`) and `TranscriptIsWhole` (`WholeTranscript`).
- What has been read of a view at a generation (`Reading`) stays right until the row of the
  trace is deleted: a run has a larger id than all there are, so each change of an order
  that is kept makes a newer generation (`RunKeeps`), and no earlier one comes back.
  Entries of the cache and snapshots of requests are such readings (`Filed`).
- After a deletion the row ids, and with them generations, come back. A load is still
  whole because event ids do not: an order from before the deletion has no event that is
  there now (`Known`), a page of it is refused, and orders of one key between the same
  deletions agree (`Agreement`). `Behind` says what the cursor means: the pages so far are
  the part before it of the order its generation stands for.

Only model-checked: liveness (`WaitersServed` and the others under "Fairness"), which the
prover does not reach, and the two properties that are shown to fail.

## Not modelled

- Power failure: a file that was renamed and whose directory was synced is taken to be
  there, and one of the right size to be the right one, as `writeObject` takes it.
- Warnings, repositories, source references, models and tools, counts and statistics;
  activity and cards, which are computed from one snapshot.
- The lengths of waits, timeouts and budgets.
- Contents of formats: how normalizers translate each record (`Parse` is a constant in
  `TraceEvents`), adapters that read databases and configuration of a tool, ZIP encoding,
  HTML. An export of `cursor_sqlite.go` that ends early because `rows.Err` is not asked is
  among them.
- `TraceArchive` leaves out what `checkDirectorySize` asks of the directory's own bytes (its
  count is the number of entries), the encoding of paths and manifests that lack a machine.
  `Describe` reads a file in one step: one that changes during it is an error there or
  (`DescribeFile`) is compared again when it is packed.
- `ExportPool` has one set of threads while the list is read: a thread that is deleted
  between two pages moves the ones after it up, and the first of the next page is then in
  neither, without the repeat `listAmp` would warn of.
- `TranscriptPages` is about the transcript route, which `load.ts` uses for amp. Loads of
  other harnesses read `/events`, which checks no generation; `EventPages` has its pages.
- `ClaudeTree` takes the UUIDs of a file to be unique; `SourceCopies` takes two writes to
  have different times, as the file system's clock gives them, and has no companion's
  metadata.
- Another Source Machine except as the origin of a ZIP.
- `collected` across several harnesses: `Collection` has one, and saves stamps once.
- Sign-in, pages, command line, client, settings, the web application except its loader:
  they keep no state that a later step depends on.

## Plan

1. Web tree and turns as operators over the histories `ClaudeTree` makes: every event
   once, no cycle.
2. Companions in `Collection`, whose mark is recorded although a companion was not copied.
3. Threads that come and go while `ExportPool` lists them.
