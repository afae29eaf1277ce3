----------------------------- MODULE SourceCopies -----------------------------
(***************************************************************************)
(* How the files of a session are copied while its harness goes on writing *)
(* them (internal/collector/adapters/files.go, native_dirs.go): a JSONL    *)
(* file with a companion next to it, or a directory of both.  Records are  *)
(* copied up to the last complete line of what the file had when the copy  *)
(* began; whatever moved meanwhile is told by size and time of the file.   *)
(***************************************************************************)
EXTENDS NoValue, FiniteSets, Integers, Sequences, SequencesExt

CONSTANTS
    Session,    \* records at first: a sequence of bytes
    MaxClock,   \* writes of the harness
    ChunkSize   \* bytes one read may return

ByteType == [time : Nat, newline : BOOLEAN]
FileType == [inode : Nat, time : Nat, bytes : Seq(ByteType)]
StampType == [size : Nat, time : Nat]

ASSUME CopyConstants ==
    /\ {MaxClock, ChunkSize} \subseteq Nat
    /\ Session \in Seq(ByteType)
    /\ None \notin FileType \cup StampType \cup Seq(ByteType)

VARIABLES
    directory, \* a session directory, or else a JSONL file with its companion
    source,    \* path -> [inode, time, bytes] or None
    clock,     \* times are in order, and no two writes have the same
    doing,     \* "stamp", "stat", "open", "read", "check", "verify", "done" or "failed"
    path,      \* the file that is next or in work
    stamp,     \* of a directory: path -> size and time, or None
    before,    \* size and time at the Stat before a copy: path -> or None
    moment,    \* path -> its bytes when the first of these was taken (history)
    grown,     \* paths that were only appended to since (history)
    together,  \* all files of a directory were like that at one time (history)
    handle,    \* the open file: [inode, bytes once it is replaced]
    remaining, \* bytes still to be read
    copied,    \* bytes read
    snapshot,  \* path -> its copy
    warned     \* paths with live_source_changed or metadata_copy_failed, and the directory

copyVars == <<directory, source, clock, doing, path, stamp, before, moment, grown, together, handle,
              remaining, copied, snapshot, warned>>
history == <<stamp, before, moment, grown, together>>
reading == <<handle, remaining, copied, snapshot>>

Records == "records.jsonl"
Companion == "meta.json"
Path == {Records, Companion}

\* In a directory the companion has the lesser name.
FirstPath == IF directory THEN Companion ELSE Records

Byte(time, newline) == [time |-> time, newline |-> newline]

FileOf(bytes) == [inode |-> 0, time |-> 0, bytes |-> bytes]

CopyInit ==
    /\ directory \in BOOLEAN
    /\ \E companion \in {None, FileOf(<<Byte(0, FALSE), Byte(0, FALSE)>>)} :
          source = [p \in Path |-> IF p = Records THEN FileOf(Session) ELSE companion]
    /\ clock = 0
    /\ doing = (IF directory THEN "stamp" ELSE "stat") /\ path = FirstPath
    /\ stamp = [p \in Path |-> None] /\ before = stamp /\ moment = stamp /\ grown = {} /\ together = FALSE
    /\ handle = [inode |-> 0, bytes |-> <<>>] /\ remaining = 0 /\ copied = <<>>
    /\ snapshot = [p \in Path |-> <<>>] /\ warned = {}

-----------------------------------------------------------------------------
(* The harness *)

Written(p, file) ==
    /\ clock < MaxClock /\ doing \notin {"done", "failed"}
    /\ clock' = clock + 1
    /\ source' = [source EXCEPT ![p] = file]
    /\ UNCHANGED <<directory, doing, path, stamp, before, moment, together, remaining, copied, snapshot, warned>>

\* A byte is added, the last of a line or not.
AppendTo(p, newline) ==
    /\ source[p] # None
    /\ Written(p, [source[p] EXCEPT !.time = clock + 1, !.bytes = Append(@, Byte(clock + 1, newline))])
    /\ UNCHANGED <<grown, handle>>

NewBytes(n) == [i \in 1..n |-> Byte(clock + 1, i = n)]

\* It is written again in place, with n bytes that end a line.
Overwrite(p, n) ==
    /\ source[p] # None
    /\ Written(p, [source[p] EXCEPT !.time = clock + 1, !.bytes = NewBytes(n)])
    /\ grown' = grown \ {p}
    /\ UNCHANGED handle

\* Another file takes its name, or none; who has it open goes on reading the old one.
Replace(p, n) ==
    /\ Written(p, IF n = 0 THEN None ELSE [inode |-> clock + 1, time |-> clock + 1, bytes |-> NewBytes(n)])
    /\ grown' = grown \ {p}
    /\ handle' = IF p = path /\ source[p] # None /\ doing = "read" /\ source[p].inode = handle.inode
                 THEN [handle EXCEPT !.bytes = source[p].bytes] ELSE handle

-----------------------------------------------------------------------------
(* The copy *)

\* Mutant: only the size is compared.
StatOf_Size(p) == IF source[p] = None THEN None ELSE [size |-> Len(source[p].bytes), time |-> 0]

StatOf(p) == IF source[p] = None THEN None ELSE [size |-> Len(source[p].bytes), time |-> source[p].time]

BytesOf(p) == IF source[p] = None THEN None ELSE source[p].bytes

Remember(p) ==
    /\ moment' = [moment EXCEPT ![p] = BytesOf(p)]
    /\ grown' = grown \cup {p}

\* directoryStamp, file by file; one that has gone between the listing and its Stat
\* ends the copy of the directory, one that is not listed does not.
StampFile ==
    /\ doing = "stamp"
    /\ stamp' = [stamp EXCEPT ![path] = StatOf(path)]
    /\ Remember(path)
    /\ together' = (path = Records /\ moment[Companion] \in {None, BytesOf(Companion)})
    /\ \/ doing' = IF path = Companion THEN "stamp" ELSE "open"
       \/ source[path] = None /\ doing' = "failed"
    /\ path' = IF path = Companion THEN Records ELSE Companion
    /\ UNCHANGED <<directory, source, clock, before, reading, warned>>

\* The walk through a directory does not list the file.
Absent ==
    /\ directory /\ source[path] = None
    /\ \/ doing = "open" /\ path = Companion /\ path' = Records /\ doing' = "stat"
       \/ doing = "stat" /\ path' = Companion /\ doing' = "verify"
    /\ UNCHANGED <<directory, source, clock, history, reading, warned>>

\* The Stat before a copy.  Without records there is no input; a companion that is not
\* there is not copied (its listing and its Stat are one step).
Stat ==
    /\ doing = "stat"
    /\ before' = [before EXCEPT ![path] = StatOf(path)]
    /\ IF directory THEN UNCHANGED <<moment, grown>> ELSE Remember(path)
    /\ doing' = IF source[path] # None THEN "open" ELSE IF path = Records THEN "failed" ELSE "done"
    /\ UNCHANGED <<directory, source, clock, path, stamp, together, reading, warned>>

\* What does not come to its end is a warning about a companion, and the end of the
\* others.
GiveUp ==
    IF ~directory /\ path = Companion
    THEN doing' = "done" /\ warned' = warned \cup {path}
    ELSE doing' = "failed" /\ UNCHANGED warned

\* Records are read up to their size at the Stat, a companion up to its own when opened.
Open ==
    /\ doing = "open"
    /\ IF source[path] = None THEN GiveUp /\ UNCHANGED <<handle, remaining>>
       ELSE /\ doing' = "read"
            /\ handle' = [inode |-> source[path].inode, bytes |-> <<>>]
            /\ remaining' = IF path = Records THEN before[path].size ELSE Len(source[path].bytes)
            /\ UNCHANGED warned
    /\ copied' = <<>>
    /\ UNCHANGED <<directory, source, clock, path, history, snapshot>>

Opened ==
    IF source[path] # None /\ source[path].inode = handle.inode THEN source[path].bytes ELSE handle.bytes

\* A read that comes to the end of a file that has become shorter ends the records,
\* and is an error of a companion.
ReadChunk(n) ==
    /\ doing = "read" /\ remaining >= n
    /\ LET from == Len(copied)
           chunk == SubSeq(Opened, from + 1, IF from + n < Len(Opened) THEN from + n ELSE Len(Opened))
       IN /\ copied' = copied \o chunk
          /\ IF chunk # <<>> THEN remaining' = remaining - Len(chunk) /\ UNCHANGED <<doing, warned>>
             ELSE /\ remaining' = 0
                  /\ IF path = Records THEN UNCHANGED <<doing, warned>> ELSE GiveUp
    /\ UNCHANGED <<directory, source, clock, path, history, handle, snapshot>>

CompleteLines(bytes) == SubSeq(bytes, 1, SelectLastInSeq(bytes, LAMBDA b : b.newline))

EndRead ==
    /\ doing = "read" /\ remaining = 0
    /\ snapshot' = [snapshot EXCEPT ![path] = IF path = Records THEN CompleteLines(copied) ELSE copied]
    /\ IF directory /\ path = Companion
       THEN path' = Records /\ doing' = "stat"
       ELSE doing' = "check" /\ UNCHANGED path
    /\ UNCHANGED <<directory, source, clock, history, handle, remaining, copied, warned>>

\* The Stat after a copy.
Check ==
    /\ doing = "check"
    /\ warned' = IF StatOf(path) # before[path] THEN warned \cup {path} ELSE warned
    /\ doing' = IF directory THEN "verify" ELSE IF path = Records THEN "stat" ELSE "done"
    /\ path' = Companion
    /\ UNCHANGED <<directory, source, clock, history, reading>>

\* The stamp of the directory once more.
Verify ==
    /\ doing = "verify"
    /\ warned' = IF StatOf(path) # stamp[path] THEN warned \cup {"directory"} ELSE warned
    /\ doing' = IF path = Companion THEN "verify" ELSE "done"
    /\ path' = Records
    /\ UNCHANGED <<directory, source, clock, history, reading>>

CopyNext ==
    \/ \E p \in Path : (\E newline \in BOOLEAN : AppendTo(p, newline))
                       \/ (\E n \in 0..3 : Overwrite(p, n) \/ Replace(p, n))
    \/ StampFile \/ Absent \/ Stat \/ Open \/ (\E n \in 1..ChunkSize : ReadChunk(n)) \/ EndRead \/ Check \/ Verify

CopySpec == CopyInit /\ [][CopyNext]_copyVars

-----------------------------------------------------------------------------
CopyOf(p, bytes) == IF p = Records THEN CompleteLines(bytes) ELSE bytes

\* A copy without a warning is the file as it was at one moment, the records up to
\* their last complete line, and that of a directory has all its files as they were
\* together, and no other but what came and went in between; records the harness
\* has only appended to are copied as they were at the Stat, warned or not.
CopyOfOneMoment ==
    doing = "done" =>
        IF directory
        THEN "directory" \notin warned =>
                together /\ \A p \in Path : moment[p] # None => snapshot[p] = CopyOf(p, moment[p])
        ELSE /\ \A p \in Path \ warned : before[p] # None => snapshot[p] = CopyOf(p, moment[p])
             /\ Records \in grown => snapshot[Records] = CompleteLines(moment[Records])
=============================================================================
