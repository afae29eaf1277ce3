------------------------------ MODULE MCSources ------------------------------
(* What becomes of a trace between its harness and the archive, each part apart *)
(* from the others: copies of sessions (SourceCopies), exports by commands      *)
(* (ExportPool), ZIPs (TraceArchive), and the order and the parents of events   *)
(* (ClaudeTree, PiEntries, EventChain).                                         *)
EXTENDS ExportPool, SourceCopies, EventChain, ClaudeTree, PiEntries, TraceArchive, TLC

CONSTANTS t1, t2, t3, pa, pb, pc, b1, b2, b3

VARIABLE subject   \* which of the six a behaviour is about

MCByte(newline) == [time |-> 0, newline |-> newline]
MCSession == <<MCByte(FALSE), MCByte(TRUE), MCByte(FALSE)>>

\* The first trace has two files or one, and b3 is an empty one; the others have one.  The
\* path pc is deep enough to be refused, though not by Write.
MCBytes == {b1, b2, b3}
MCOne(content) == (pa :> content) @@ (pb :> None) @@ (pc :> None)
MCStart ==
    {<<x @@ (pc :> None), MCOne(b1), MCOne(c)>> : x \in [{pa, pb} -> {b1, b3, None}], c \in {b1, b3}}
    \cup {<<(pa :> None) @@ (pb :> b1) @@ (pc :> b1), MCOne(b1), MCOne(b1)>>}

MCInputs == <<t1, t2, t3>>
MCSizeOf == [b \in MCBytes |-> IF b = b3 THEN 0 ELSE 1]
MCSlashes == [p \in {pa, pb, pc} |-> IF p = pc THEN 3 ELSE 1]

\* A descriptor has its files, a manifest its descriptors, and nothing is compressed.
MCDescriptorSize(d) == Cardinality(DOMAIN d.files)
MCManifestSize(traces) == FoldSeq(LAMBDA d, sum : MCDescriptorSize(d) + sum, 0, traces)
MCZIPSize(z) == ExpandedSize(z) + 1

\* The server is configured to take larger ZIPs than the defaults.
MCLimits(size, largest) ==
    [ArchiveBytes |-> size + 1, ExpandedBytes |-> size, FileBytes |-> largest,
     Files |-> 6, Depth |-> 5, MetadataBytes |-> 2]
MCDefaultLimits == MCLimits(5, 2)
MCServerLimits == MCLimits(6, 3)

MCRecord(kind, parent) == [kind |-> kind, parent |-> parent]

\* Any records, in any order.
MCAny ==
    {f \in [1..4 -> [kind : {"quiet", "text", "result"}, parent : 0..4] \cup {MCRecord("prompt", 0)}] : Acyclic(f)}
    \cup {f \in [1..3 -> [kind : {"quiet", "text", "effort", "note"}, parent : 0..3] \cup {MCRecord("prompt", 0)}] :
             Acyclic(f)}

\* One record more of a conversation.
MCHead(f) == CHOOSE j \in DOMAIN f : f[j].kind # "prompt" /\ \A l \in j + 1..Len(f) : f[l].kind = "prompt"

MCMore(files) ==
    UNION {{Append(f, r) :
              r \in {MCRecord(kind, MCHead(f)) : kind \in {"text", "effort", "quiet"}} \cup {MCRecord("prompt", 0)}
                    \cup {MCRecord("result", j) : j \in {k \in DOMAIN f : f[k].kind \in {"text", "effort"}}}} :
           f \in files}

MCTalk == MCMore(MCMore(MCMore(MCMore(MCMore({<<MCRecord("text", 0)>>})))))
MCFiles == MCAny \cup MCTalk

\* Entries in the order of their IDs, and some with repeated IDs and without events.
MCSessions ==
    {[i \in 1..4 |-> [id |-> i, parent |-> p[i], kind |-> IF i \in c THEN "model" ELSE "text"]] :
        p \in [1..4 -> 0..4], c \in SUBSET (1..3)}
    \cup [1..3 -> [id : 1..2, parent : 0..3, kind : {"model", "unknown"}]]

\* Records of one or two events, some of them written again.
MCTranscripts ==
    [1..4 -> [keys : {<<1>>, <<2>>, <<3, 4>>}, parent : 0..2]]
    \cup [1..3 -> [keys : {<<>>, <<1>>, <<2>>, <<1, 2>>}, parent : 0..2]]

MCInit ==
    /\ subject \in {"copies", "exports", "archives", "tree", "pi", "chain"}
    /\ CopyInit /\ (subject # "copies" => directory /\ source["meta.json"] = None)
    /\ ExportInit /\ (subject # "exports" => paged)
    /\ IF subject = "archives" THEN ArchiveInit ELSE disk = <<>> /\ NothingPacked
    /\ IF subject = "tree" THEN TreeInit ELSE file = <<>> /\ NothingRead
    /\ IF subject = "pi" THEN PiInit ELSE session = <<>> /\ NothingVisited
    /\ IF subject = "chain" THEN ChainInit ELSE transcript = <<>> /\ NothingTaken

MCNext ==
    \/ subject = "copies" /\ CopyNext /\ UNCHANGED <<exportVars, archiveVars, treeVars, piVars, chainVars>>
    \/ subject = "exports" /\ ExportNext /\ UNCHANGED <<copyVars, archiveVars, treeVars, piVars, chainVars>>
    \/ subject = "archives" /\ ArchiveNext /\ UNCHANGED <<copyVars, exportVars, treeVars, piVars, chainVars>>
    \/ subject = "tree" /\ TreeNext /\ UNCHANGED <<copyVars, exportVars, archiveVars, piVars, chainVars>>
    \/ subject = "pi" /\ PiNext /\ UNCHANGED <<copyVars, exportVars, archiveVars, treeVars, chainVars>>
    \/ subject = "chain" /\ ChainNext /\ UNCHANGED <<copyVars, exportVars, archiveVars, treeVars, piVars>>

\* Fairness and CommandsEnd are about behaviours whose subject is the exports.
MCSpec ==
    /\ MCInit /\ [][MCNext /\ UNCHANGED subject]_<<copyVars, exportVars, archiveVars, treeVars, piVars, chainVars, subject>>
    /\ ExportFairness

\* Of ExportPool: a collection ends, also one that is cancelled.
CommandsEnd == subject = "exports" => ExportsEnd
=============================================================================
