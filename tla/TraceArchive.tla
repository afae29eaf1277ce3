----------------------------- MODULE TraceArchive -----------------------------
(***************************************************************************)
(* Trace ZIP archives (internal/archive): Write describes the files of     *)
(* each Trace, puts the Traces into ZIPs of about SplitSize, reads every   *)
(* file a second time and compares it with its description; Validate       *)
(* decides what an import may read, within Limits that Write does not      *)
(* look at.  The files may change at any moment in between.                *)
(*                                                                         *)
(* A digest stands for the bytes it was made of: a file's description is   *)
(* its content, and a Revision's digest the description of all its files.  *)
(***************************************************************************)
EXTENDS NoValue, Integers, FiniteSets, Sequences, SequencesExt, Functions

CONSTANTS
    Inputs,       \* the Traces to pack, a sequence
    SourcePath,   \* valid paths under source/
    Slashes,      \* path -> how many slashes it has
    Start,        \* what may be on the disk at first
    Bytes,        \* contents of files
    SizeOf,       \* content -> its size
    ManifestSize(_),   \* Traces of a manifest -> its size
    DescriptorSize(_), \* descriptor -> its size
    ZIPSize(_),   \* entries of a ZIP -> size of the ZIP, as it is compressed
    SplitSize,    \* splitBytes
    WriteDepth,   \* depth of a path that Describe accepts (32)
    DefaultLimits,\* Limits the uploader checks with
    ServerLimits, \* Limits of the server
    MaxChange     \* times a file changes

\* A collection has one input of a Trace (OneRevisionEach of Collection).
ASSUME ArchiveConstants ==
    /\ Inputs \in Seq(Range(Inputs)) /\ Inputs # <<>> /\ IsInjective(Inputs)
    /\ None \notin Bytes /\ SizeOf \in [Bytes -> Nat]
    /\ Slashes \in [SourcePath -> Nat]
    /\ {SplitSize, WriteDepth, MaxChange} \subseteq Nat
    /\ {DefaultLimits, ServerLimits} \subseteq
          [{"ArchiveBytes", "ExpandedBytes", "FileBytes", "Files", "Depth", "MetadataBytes"} -> Nat \ {0}]
    /\ Start \subseteq [DOMAIN Inputs -> [SourcePath -> Bytes \cup {None}]]

VARIABLES
    disk,      \* the files of each input: path -> content or None
    changes,   \* how often one has changed
    phase,     \* "describe", "write", "done", "failed"
    described, \* descriptor.Files of the inputs so far: a sequence of path -> content
    walk,      \* files the walk of Describe still has to read
    partial,   \* those of this Trace it has read: path -> content
    zip,       \* entries of the ZIP that is being written: [name, value]
    outputs    \* the ZIPs that are finished

archiveVars == <<disk, changes, phase, described, walk, partial, zip, outputs>>

NoFiles == [p \in {} |-> None]

NothingPacked ==
    /\ changes = 0
    /\ phase = "describe" /\ described = <<>> /\ walk = {} /\ partial = NoFiles
    /\ zip = <<>> /\ outputs = <<>>

ArchiveInit == disk \in Start /\ NothingPacked

\* A file of an input is written, added or removed.
ChangeFile(t, p, content) ==
    /\ changes < MaxChange /\ disk[t][p] # content
    /\ changes' = changes + 1
    /\ disk' = [disk EXCEPT ![t][p] = content]
    /\ UNCHANGED <<phase, described, walk, partial, zip, outputs>>

FilesOf(t) == {p \in SourcePath : disk[t][p] # None}

-----------------------------------------------------------------------------
(* Describe *)

Describing == Len(described) + 1

\* The walk sees the files there are when it begins.
BeginDescribe ==
    /\ phase = "describe" /\ walk = {} /\ partial = NoFiles
    /\ walk' = FilesOf(Describing)
    /\ phase' = IF walk' = {} THEN "failed" ELSE phase
    /\ UNCHANGED <<disk, changes, described, partial, zip, outputs>>

\* A file that has gone meanwhile or is too deep ends it; one that changes while it is read
\* does so here, or is found when it is read again.
DescribeFile(p) ==
    /\ phase = "describe" /\ p \in walk
    /\ IF p \in FilesOf(Describing) /\ Slashes[p] < WriteDepth
       THEN /\ partial' = [q \in DOMAIN partial \cup {p} |-> IF q = p THEN disk[Describing][p] ELSE partial[q]]
            /\ UNCHANGED phase
       ELSE phase' = "failed" /\ UNCHANGED partial
    /\ walk' = walk \ {p}
    /\ UNCHANGED <<disk, changes, described, zip, outputs>>

EndDescribe ==
    /\ phase = "describe" /\ walk = {} /\ partial # NoFiles
    /\ described' = Append(described, partial)
    /\ partial' = NoFiles
    /\ phase' = IF Describing = Len(Inputs) THEN "write" ELSE phase
    /\ UNCHANGED <<disk, changes, walk, zip, outputs>>

-----------------------------------------------------------------------------
(* Write *)

Total(files) == FoldFunction(LAMBDA content, sum : SizeOf[content] + sum, 0, files)

SizeFrom(inputs, first, last) == FoldSeq(LAMBDA files, sum : Total(files) + sum, 0, SubSeq(inputs, first, last))

Descriptor(t) == [trace |-> Inputs[t], path |-> t, digest |-> described[t], files |-> described[t]]

\* The manifest's Traces.
Listed(z) ==
    LET at == {i \in DOMAIN z : z[i].name = <<"manifest">>}
    IN IF at = {} THEN <<>> ELSE z[Min(at)].value

\* The input after the last one of the first so many ZIPs.
NextInput(ready) ==
    IF ready = 0 THEN 1 ELSE LET traces == Listed(outputs[ready]) IN traces[Len(traces)].path + 1

\* The first input no finished ZIP has.
FirstTrace == NextInput(Len(outputs))

\* The last input of this ZIP: one in any case, and more as long as they fit.
LastTrace == Max({t \in FirstTrace..Len(Inputs) : t = FirstTrace \/ SizeFrom(described, FirstTrace, t) <= SplitSize})

Entry(name, value) == [name |-> name, value |-> value]
SourceFile(t, p) == <<"source", t, p>>
Description(t) == <<"descriptor", t>>

\* The manifest and the descriptors come first.
BeginZIP ==
    /\ phase = "write" /\ zip = <<>>
    /\ zip' = <<Entry(<<"manifest">>, [i \in 1..(LastTrace - FirstTrace + 1) |-> Descriptor(FirstTrace + i - 1)])>>
              \o [i \in 1..(LastTrace - FirstTrace + 1) |-> Entry(Description(FirstTrace + i - 1), Descriptor(FirstTrace + i - 1))]
    /\ UNCHANGED <<disk, changes, phase, described, walk, partial, outputs>>

\* Files of an input that are not in the ZIP yet.
Missing(t) == {p \in DOMAIN described[t] : \A i \in DOMAIN zip : zip[i].name # SourceFile(t, p)}

\* Mutant: only the size is compared.
AsDescribed_BySize(t, p) == disk[t][p] # None /\ SizeOf[disk[t][p]] = SizeOf[described[t][p]]

\* Size and digest of what went into the ZIP.
AsDescribed(t, p) == disk[t][p] = described[t][p]

\* writeSource.
WriteFile(t, p) ==
    /\ phase = "write" /\ zip # <<>> /\ t \in FirstTrace..LastTrace /\ p \in Missing(t)
    /\ \A u \in FirstTrace..t - 1 : Missing(u) = {}
    /\ IF AsDescribed(t, p)
       THEN zip' = Append(zip, Entry(SourceFile(t, p), disk[t][p])) /\ UNCHANGED phase
       ELSE phase' = "failed" /\ zip' = <<>>
    /\ UNCHANGED <<disk, changes, described, walk, partial, outputs>>

\* The ZIP gets its name.
EndZIP ==
    /\ phase = "write" /\ zip # <<>> /\ \A t \in FirstTrace..LastTrace : Missing(t) = {}
    /\ outputs' = Append(outputs, zip)
    /\ phase' = IF LastTrace = Len(Inputs) THEN "done" ELSE phase
    /\ zip' = <<>>
    /\ UNCHANGED <<disk, changes, described, walk, partial>>

ArchiveNext ==
    \/ \E t \in DOMAIN Inputs, p \in SourcePath, content \in Bytes \cup {None} : ChangeFile(t, p, content)
    \/ \E p \in SourcePath : DescribeFile(p)
    \/ BeginDescribe \/ EndDescribe \/ BeginZIP \/ EndZIP
    \/ \E t \in DOMAIN Inputs, p \in SourcePath : WriteFile(t, p)

ArchiveSpec == ArchiveInit /\ [][ArchiveNext]_archiveVars

-----------------------------------------------------------------------------
(* Validate *)

Names(z) == {z[i].name : i \in DOMAIN z}
Holds(z, name, value) == \E i \in DOMAIN z : z[i].name = name /\ z[i].value = value

EntrySize(e) ==
    CASE e.name[1] = "manifest" -> ManifestSize(e.value)
      [] e.name[1] = "descriptor" -> DescriptorSize(e.value)
      [] e.name[1] = "source" -> SizeOf[e.value]

\* A Trace's directory is traces/ and a number.
EntrySlashes(e) ==
    CASE e.name[1] = "manifest" -> 0
      [] e.name[1] = "descriptor" -> 2
      [] e.name[1] = "source" -> Slashes[e.name[3]] + 2

ExpandedSize(z) == FoldSeq(LAMBDA e, sum : EntrySize(e) + sum, 0, z)

\* What Validate asks of sizes, numbers and depths, of entries and descriptions.
Bounded(z, limits) ==
    /\ ZIPSize(z) <= limits.ArchiveBytes /\ Len(z) <= limits.Files
    /\ ExpandedSize(z) <= limits.ExpandedBytes
    /\ \A i \in DOMAIN z : EntrySlashes(z[i]) < limits.Depth /\ EntrySize(z[i]) <= limits.FileBytes
    /\ ManifestSize(Listed(z)) <= limits.MetadataBytes
    /\ \A d \in ToSet(Listed(z)) :
          /\ DescriptorSize(d) <= limits.MetadataBytes
          /\ \A p \in DOMAIN d.files : Slashes[p] < limits.Depth - 2 /\ SizeOf[d.files[p]] <= limits.FileBytes

\* validateTrace.
ValidTrace(z, d) ==
    /\ DOMAIN d.files # {}
    /\ Holds(z, Description(d.path), d)
    /\ d.digest = d.files
    /\ \A p \in DOMAIN d.files : Holds(z, SourceFile(d.path, p), d.files[p])

\* Mutant: files that no descriptor lists are let through.
Unlisted_Allowed(z) == {}

\* Entries no descriptor lists.
Unlisted(z) ==
    LET listed == {<<"manifest">>} \cup {Description(d.path) : d \in ToSet(Listed(z))}
                  \cup UNION {{SourceFile(d.path, p) : p \in DOMAIN d.files} : d \in ToSet(Listed(z))}
    IN Names(z) \ listed

\* What it asks of everything else.
Intact(z) ==
    /\ Cardinality(Names(z)) = Len(z)
    /\ <<"manifest">> \in Names(z) /\ Listed(z) # <<>>
    /\ \A d \in ToSet(Listed(z)) : ValidTrace(z, d)
    /\ \A i, j \in DOMAIN Listed(z) : i # j =>
          /\ Listed(z)[i].path # Listed(z)[j].path
          /\ Listed(z)[i].trace # Listed(z)[j].trace
    /\ Unlisted(z) = {}

Valid(z, limits) == Bounded(z, limits) /\ Intact(z)

\* uploadOne asks with limits of its own, then the server with those it is configured with.
Importable(z) == Valid(z, DefaultLimits) /\ Valid(z, ServerLimits)

-----------------------------------------------------------------------------
\* What limits ask of a finished ZIP and of each Trace in it, its entry in the manifest and
\* its files: no source path of two slashes less than Depth, for one.
Fits(z, limits) ==
    /\ ZIPSize(z) <= limits.ArchiveBytes /\ Len(z) <= limits.Files
    /\ ExpandedSize(z) <= limits.ExpandedBytes
    /\ limits.Depth > 2
    /\ ManifestSize(Listed(z)) <= limits.MetadataBytes /\ ManifestSize(Listed(z)) <= limits.FileBytes
    /\ \A d \in ToSet(Listed(z)) :
          /\ DescriptorSize(d) <= limits.MetadataBytes /\ DescriptorSize(d) <= limits.FileBytes
          /\ \A p \in DOMAIN d.files : Slashes[p] + 2 < limits.Depth /\ SizeOf[d.files[p]] <= limits.FileBytes

\* Write looks at no limits: each ZIP that is finished is accepted exactly if it fits, and
\* has the files as they were described though they may have changed since; the ZIPs have
\* all inputs in their order, each once, and only a ZIP of one Trace is larger than SplitSize.
ArchivesWhole ==
    /\ \A i \in DOMAIN outputs : LET traces == Listed(outputs[i]) IN
          /\ \A limits \in {DefaultLimits, ServerLimits} : Valid(outputs[i], limits) <=> Fits(outputs[i], limits)
          /\ \A k \in DOMAIN traces : traces[k] = Descriptor(NextInput(i - 1) + k - 1)
          /\ Len(traces) > 1 => SizeFrom(described, traces[1].path, traces[Len(traces)].path) <= SplitSize
    /\ phase = "done" => FirstTrace = Len(Inputs) + 1

\* docs/operations.md:92: a server is configured for the largest trusted Trace by its upload
\* limits: a ZIP that fits them can be imported.
LargestTraceImportable == \A i \in DOMAIN outputs : Fits(outputs[i], ServerLimits) => Importable(outputs[i])

\* What becomes of a ZIP of which one entry is lost, doubled, altered or mixed up with
\* another, or whose manifest lists a Trace twice or not at all.
Altered(z, i, content) == [z EXCEPT ![i] = Entry(z[i].name, content)]

Exchanged(z, i, j) ==
    [z EXCEPT ![i] = Entry(z[j].name, z[i].value), ![j] = Entry(z[i].name, z[j].value)]

Lost(z) == {RemoveAt(z, i) : i \in DOMAIN z}
Doubled(z) == {Append(z, z[i]) : i \in DOMAIN z}
Added(z) == {Append(z, Entry(SourceFile(t, p), c)) : t \in DOMAIN Inputs, p \in SourcePath, c \in Bytes}
Rewritten(z) == {Altered(z, i, c) : i \in {j \in DOMAIN z : z[j].name[1] = "source"}, c \in Bytes}
MixedUp(z) == UNION {{Exchanged(z, i, j) : j \in {k \in DOMAIN z : z[k].name[1] = z[i].name[1]}} : i \in DOMAIN z}
Relisted(z) == {Altered(z, 1, Append(Listed(z), Head(Listed(z)))), Altered(z, 1, Tail(Listed(z)))}

Damaged(z) == Lost(z) \cup Doubled(z) \cup Added(z) \cup Rewritten(z) \cup MixedUp(z) \cup Relisted(z)

\* The files of each Trace an import would read from a ZIP.
Content(z) == [d \in ToSet(Listed(z)) |->
                 [p \in DOMAIN d.files |-> {z[i].value : i \in {j \in DOMAIN z : z[j].name = SourceFile(d.path, p)}}]]

\* A ZIP that was damaged is refused whatever the limits are, or every file of every Trace
\* is still there, once, with the bytes its Revision's digest was made of, and the server is
\* given nothing else.
DamageRefused ==
    \A i \in DOMAIN outputs : \A z \in Damaged(outputs[i]) :
        Intact(z) => Content(z) = Content(outputs[i]) /\ Names(z) = Names(outputs[i])
=============================================================================
