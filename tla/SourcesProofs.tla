----------------------------- MODULE SourcesProofs -----------------------------
(***************************************************************************)
(* Proofs about what becomes of a Trace before the store has it: what      *)
(* collections leave out (Collection), what the copy of a session is       *)
(* (SourceCopies), what becomes of the exports of a command (ExportPool),  *)
(* that events follow each other in one line (EventChain), that those of a *)
(* Pi session come after their parents with the model of their own branch  *)
(* (PiEntries), and that the ZIPs are whole and damage to them is refused  *)
(* (TraceArchive), for any sources, sessions, Traces, workers, transcripts *)
(* and files.                                                              *)
(***************************************************************************)
EXTENDS Collection, ExportPool, SourceCopies, EventChain, PiEntries, TraceArchive, SortedSetsProofs, SequenceTheorems, TLAPS

-----------------------------------------------------------------------------
(* What Collection State takes for uploaded, and what a collection leaves  *)
(* out, is stored, and no ZIP has two revisions of a Trace (Collection)    *)

Mark == [stamp : 1..MaxContent, digest : Digest]
Left == [content : 1..MaxContent, digest : Digest]

Typed ==
    /\ content \in [Source -> 1..MaxContent]
    /\ stamps \in [Source -> Mark \cup {None}]
    /\ marks \in [Source -> Mark \cup {None}]
    /\ left \in [Source -> Left \cup {None}]
    /\ inputs \subseteq Digest
    /\ archives \subseteq Archive
    /\ config \in [Uploader -> StateType \cup {None}]
    /\ sending \in [Uploader -> Archive \cup {None}]
    /\ report \in [Uploader -> (SUBSET Digest) \cup {None}]

\* A Collection State that names nothing but what is in `revisions`.
Claims(f, revisions) ==
    /\ f \in StateType
    /\ \A n \in Trace : f[n] # None => f[n] \in revisions /\ TraceOf[f[n][1]] = n

\* The file is true, and so are the copies of it that processes work with and write
\* back, and the reports they will enter in them.
Truthful ==
    /\ Claims(state, stored) /\ Claims(acknowledged, stored)
    /\ \A u \in Uploader :
          /\ config[u] # None \/ sending[u] # None => Claims(config[u], stored)
          /\ report[u] # None => sending[u] # None /\ (sending[u].own => report[u] \subseteq stored)

\* A Trace that has an input has been described.
Dropping == OneOfEach(inputs) /\ \A d \in inputs : TraceOf[d[1]] \in collected

IInv == Typed /\ Truthful /\ Dropping /\ LeftOutIsStored /\ OneRevisionEach

-----------------------------------------------------------------------------
LEMMA NothingClaimed == Claims(Unknown, stored)
BY DEF Claims, Unknown, StateType

LEMMA ClaimsMore ==
    ASSUME NEW f, NEW A, NEW B, A \subseteq B, Claims(f, A)
    PROVE  Claims(f, B)
BY DEF Claims

\* acknowledge: entering a report that is true leaves a Collection State true.
LEMMA WithClaims ==
    ASSUME NEW base, NEW revisions, Claims(base, revisions),
           NEW digests, digests \subseteq Digest \cap revisions
    PROVE  Claims(With(base, digests), revisions)
<1> DEFINE f == With(base, digests)
<1>1. ASSUME NEW n \in Trace
      PROVE  /\ f[n] \in Digest \cup {None}
             /\ f[n] # None => f[n] \in revisions /\ TraceOf[f[n][1]] = n
  <2>1. CASE \E d \in digests : TraceOf[d[1]] = n
    <3>1. f[n] \in digests /\ TraceOf[f[n][1]] = n
      BY <2>1 DEF With
    <3>. QED
      BY <3>1
  <2>2. CASE ~\E d \in digests : TraceOf[d[1]] = n
    <3>1. f[n] = base[n]
      BY <2>2 DEF With
    <3>. QED
      BY <3>1 DEF Claims, StateType
  <2>. QED
    BY <2>1, <2>2
<1>2. f \in StateType
  BY <1>1 DEF With, StateType
<1>. QED
  BY <1>1, <1>2 DEF Claims

\* More may be stored while no process loads, sends, gets or writes anything.
LEMMA TruthStays ==
    ASSUME Truthful, stored \subseteq stored', UNCHANGED <<state, acknowledged, upload>>
    PROVE  Truthful'
BY ClaimsMore DEF Truthful, upload

-----------------------------------------------------------------------------
(* traicr collect *)

\* A source is left out only if its last digest is what the loaded state claims.
LEMMA LookKeeps ==
    ASSUME IInv, NEW s \in Source, Look(s)
    PROVE  IInv'
<1>1. UNCHANGED <<content, stamps, marks, inputs, archives, upload, state, acknowledged, stored, collected>>
  BY DEF Look, files, upload
<1>2. Truthful'
  BY <1>1, TruthStays DEF IInv
<1>3. CASE ~Skippable(s)
  <2>1. UNCHANGED left
    BY <1>3 DEF Look
  <2>. QED
    BY <1>1, <1>2, <2>1 DEF IInv, Typed, Dropping, OneOfEach, LeftOutIsStored, OneRevisionEach, upload
<1>4. CASE Skippable(s)
  <2> DEFINE out == [content |-> content[s], digest |-> marks[s].digest]
  <2>1. left' = [left EXCEPT ![s] = out]
    BY <1>4 DEF Look
  <2>2. marks[s] \in Mark /\ acknowledged[TraceOf[s]] = marks[s].digest
    BY <1>4 DEF Skippable, Unmoved, IInv, Typed
  <2>3. marks[s].digest \in Digest /\ marks[s].digest # None
    BY <2>2, CollectionConstants DEF Mark
  <2>4. marks[s].digest \in stored
    <3>1. TraceOf[s] \in Trace
      BY DEF Trace
    <3>. QED
      BY <2>2, <2>3, <3>1 DEF IInv, Truthful, Claims
  <2>5. out \in Left /\ out.digest \in stored
    BY <2>3, <2>4 DEF IInv, Typed, Left
  <2> HIDE DEF out
  <2>6. left' \in [Source -> Left \cup {None}]
    BY <2>1, <2>5 DEF IInv, Typed
  <2>7. LeftOutIsStored'
    BY <1>1, <2>1, <2>5 DEF IInv, Typed, LeftOutIsStored
  <2>. QED
    BY <1>1, <1>2, <2>6, <2>7 DEF IInv, Typed, Dropping, OneOfEach, OneRevisionEach, upload
<1>. QED
  BY <1>3, <1>4

LEMMA DescribeKeeps ==
    ASSUME IInv, NEW s \in Source, NEW copy \in 1..MaxContent, Describe(s, copy)
    PROVE  IInv'
<1> DEFINE digest == <<s, copy>>
           mark == [stamp |-> content[s], digest |-> digest]
<1>1. /\ UNCHANGED <<content, stamps, archives, left, upload, state, acknowledged, stored>>
      /\ marks' = marks \/ marks' = [marks EXCEPT ![s] = mark]
      /\ collected' = collected \cup {TraceOf[s]}
      /\ inputs' = inputs \/ (inputs' = inputs \cup {digest} /\ TraceOf[s] \notin collected)
  BY DEF Describe, Described, files, upload
<1>2. digest \in Digest /\ digest[1] = s
  BY DEF Digest
<1>3. mark \in Mark
  BY <1>2 DEF IInv, Typed, Mark
<1> HIDE DEF digest, mark
<1>4. Truthful'
  BY <1>1, TruthStays DEF IInv
<1>5. Typed'
  BY <1>1, <1>2, <1>3 DEF IInv, Typed, upload
<1>6. Dropping'
  BY <1>1, <1>2 DEF IInv, Dropping, OneOfEach
<1>. QED
  BY <1>1, <1>4, <1>5, <1>6 DEF IInv, LeftOutIsStored, OneRevisionEach, OneOfEach

\* The end of a collection, with a ZIP of its inputs or without.
LEMMA EndKeeps ==
    ASSUME IInv, Pack \/ Stop
    PROVE  IInv'
<1>1. /\ UNCHANGED <<content, state, stamps, stored, upload, left>>
      /\ inputs' = {} /\ collected' = {} /\ acknowledged' = Unknown
      /\ marks' = [s \in Source |-> None]
  BY DEF Pack, Stop, EndCollect, files
<1>2. \A a \in archives' : a \in archives \/ (a.revisions = inputs /\ a \in Archive)
  <2>1. CASE Stop
    BY <2>1 DEF Stop, files
  <2>2. CASE Pack
    BY <2>2 DEF Pack, IInv, Typed, Archive
  <2>. QED
    BY <2>1, <2>2
<1>3. Truthful'
  BY <1>1, NothingClaimed DEF IInv, Truthful, upload
<1>4. Typed'
  BY <1>1, <1>2 DEF IInv, Typed, upload
<1>5. OneRevisionEach'
  BY <1>1, <1>2 DEF IInv, OneRevisionEach, Dropping, OneOfEach
<1>. QED
  BY <1>1, <1>3, <1>4, <1>5 DEF IInv, Dropping, OneOfEach, LeftOutIsStored

LEMMA CollectKeeps ==
    ASSUME IInv,
           \/ \E s \in Source : Write(s) \/ Copy(s)
           \/ \E every \in BOOLEAN : StartCollect(every)
           \/ Unreadable
           \/ \E saved \in BOOLEAN : SaveStamps(saved)
           \/ \E archive \in archives : RemoveArchive(archive)
    PROVE  IInv'
<1> USE DEF IInv, Typed, Dropping, OneOfEach, LeftOutIsStored, OneRevisionEach
<1>1. ASSUME NEW s \in Source, Write(s) PROVE IInv'
  <2>1. Truthful'
    BY <1>1, TruthStays DEF Write, files, collect, upload
  <2>2. content' \in [Source -> 1..MaxContent]
    BY <1>1, CollectionConstants DEF Write
  <2>. QED
    BY <1>1, <2>1, <2>2 DEF Write, files, collect, upload
<1>2. ASSUME NEW s \in Source, Copy(s) PROVE IInv'
  <2>1. Truthful'
    BY <1>2, TruthStays DEF Copy, files, upload
  <2>. QED
    BY <1>2, <2>1 DEF Copy, files, upload
<1>3. ASSUME NEW every \in BOOLEAN, StartCollect(every) PROVE IInv'
  <2>1. Truthful'
    BY <1>3 DEF StartCollect, files, upload, Truthful
  <2>. QED
    BY <1>3, <2>1 DEF StartCollect, files, upload
<1>4. CASE Unreadable
  <2>1. Truthful'
    BY <1>4, TruthStays DEF Unreadable, files, upload
  <2>. QED
    BY <1>4, <2>1 DEF Unreadable, files, upload
<1>5. ASSUME NEW saved \in BOOLEAN, SaveStamps(saved) PROVE IInv'
  <2>1. Truthful'
    BY <1>5, TruthStays DEF SaveStamps, upload
  <2>. QED
    BY <1>5, <2>1 DEF SaveStamps, upload
<1>6. ASSUME NEW archive \in archives, RemoveArchive(archive) PROVE IInv'
  <2>1. Truthful'
    BY <1>6, TruthStays DEF RemoveArchive, collect, upload
  <2>. QED
    BY <1>6, <2>1 DEF RemoveArchive, collect, upload
<1>. QED
  BY <1>1, <1>2, <1>3, <1>4, <1>5, <1>6

-----------------------------------------------------------------------------
(* traicr upload *)

\* An upload leaves the inputs, the marks and the sources alone, and more is stored.
LEMMA UploadKeeps ==
    ASSUME IInv, NEW u \in Uploader,
           UNCHANGED <<content, stamps, archives, collect, left>>, stored \subseteq stored',
           config' \in [Uploader -> StateType \cup {None}],
           sending' \in [Uploader -> Archive \cup {None}],
           report' \in [Uploader -> (SUBSET Digest) \cup {None}],
           Claims(state', stored'),
           \A v \in Uploader \ {u} : config'[v] = config[v] /\ sending'[v] = sending[v] /\ report'[v] = report[v],
           config'[u] # None \/ sending'[u] # None => Claims(config'[u], stored'),
           report'[u] # None => sending'[u] # None /\ (sending'[u].own => report'[u] \subseteq stored')
    PROVE  IInv'
<1>1. Typed' /\ Dropping' /\ OneRevisionEach'
  BY DEF IInv, Typed, Dropping, OneOfEach, OneRevisionEach, collect
<1>2. LeftOutIsStored'
  BY DEF IInv, LeftOutIsStored
<1>3. Claims(acknowledged', stored')
  BY ClaimsMore DEF IInv, Truthful, collect
<1>4. ASSUME NEW v \in Uploader
      PROVE  /\ config'[v] # None \/ sending'[v] # None => Claims(config'[v], stored')
             /\ report'[v] # None => sending'[v] # None /\ (sending'[v].own => report'[v] \subseteq stored')
  <2>1. CASE v = u
    BY <2>1
  <2>2. CASE v # u
    <3>1. config'[v] = config[v] /\ sending'[v] = sending[v] /\ report'[v] = report[v]
      BY <2>2
    <3>2. config[v] # None \/ sending[v] # None => Claims(config[v], stored')
      BY ClaimsMore DEF IInv, Truthful
    <3>. QED
      BY <3>1, <3>2 DEF IInv, Truthful
  <2>. QED
    BY <2>1, <2>2
<1>5. Truthful'
  BY <1>3, <1>4 DEF Truthful
<1>. QED
  BY <1>1, <1>2, <1>5 DEF IInv

LEMMA StartUploadKeeps ==
    ASSUME IInv, NEW u \in Uploader, StartUpload(u)
    PROVE  IInv'
<1>1. /\ config' = [config EXCEPT ![u] = state] /\ state \in StateType
      /\ UNCHANGED <<content, state, stamps, archives, stored, collect, sending, report, left>>
  BY DEF StartUpload, files, IInv, Truthful, Claims
<1>2. config' \in [Uploader -> StateType \cup {None}] /\ config'[u] = state
      /\ \A v \in Uploader \ {u} : config'[v] = config[v]
  BY <1>1 DEF IInv, Typed
<1>3. Claims(state, stored)
  BY DEF IInv, Truthful
<1>4. report[u] # None => sending[u] # None /\ (sending[u].own => report[u] \subseteq stored)
  BY DEF IInv, Truthful
<1>. QED
  BY <1>1, <1>2, <1>3, <1>4, UploadKeeps DEF IInv, Typed

LEMMA SendKeeps ==
    ASSUME IInv, NEW u \in Uploader, NEW archive \in archives, Send(u, archive)
    PROVE  IInv'
<1>1. /\ config[u] # None /\ sending[u] = None /\ archive \in Archive
      /\ sending' = [sending EXCEPT ![u] = archive]
      /\ UNCHANGED <<content, state, stamps, archives, stored, collect, config, report, left>>
  BY DEF Send, files, IInv, Typed
<1>2. sending' \in [Uploader -> Archive \cup {None}]
      /\ \A v \in Uploader \ {u} : sending'[v] = sending[v]
  BY <1>1 DEF IInv, Typed
<1>3. Claims(state, stored) /\ Claims(config[u], stored) /\ report[u] = None
  BY <1>1 DEF IInv, Truthful
<1>. QED
  BY <1>1, <1>2, <1>3, UploadKeeps DEF IInv, Typed

\* What is reported of an own archive has been stored, now or before.
LEMMA ImportKeeps ==
    ASSUME IInv, NEW u \in Uploader, NEW good \in SUBSET Digest, Import(u, good)
    PROVE  IInv'
<1> DEFINE answer == IF sending[u].own THEN sending[u].revisions \cap stored' ELSE good
<1>1. /\ sending[u] # None /\ sending[u] \in Archive
      /\ stored \subseteq stored'
      /\ report' = [report EXCEPT ![u] = answer]
      /\ UNCHANGED <<content, state, stamps, archives, collect, config, sending, left>>
  BY DEF Import, Stores, files, IInv, Typed
<1>2. answer \in SUBSET Digest /\ (sending[u].own => answer \subseteq stored')
  BY <1>1 DEF Archive
<1> HIDE DEF answer
<1>3. report' \in [Uploader -> (SUBSET Digest) \cup {None}] /\ report'[u] = answer
      /\ \A v \in Uploader \ {u} : report'[v] = report[v]
  BY <1>1, <1>2 DEF IInv, Typed
<1>4. Claims(state, stored') /\ Claims(config[u], stored')
  BY <1>1, ClaimsMore DEF IInv, Truthful
<1>. QED
  BY <1>1, <1>2, <1>3, <1>4, UploadKeeps DEF IInv, Typed

\* acknowledge and SaveCollector.
LEMMA AcknowledgeKeeps ==
    ASSUME IInv, NEW u \in Uploader, Acknowledge(u)
    PROVE  IInv'
<1> DEFINE f == With(config[u], report[u])
<1>1. /\ report[u] # None /\ sending[u] # None
      /\ report[u] \subseteq Digest /\ (sending[u].own => report[u] \subseteq stored)
      /\ Claims(config[u], stored) /\ Claims(state, stored)
  BY DEF Acknowledge, Answered, IInv, Typed, Truthful
<1>2. /\ sending' = [sending EXCEPT ![u] = None] /\ report' = [report EXCEPT ![u] = None]
      /\ UNCHANGED <<content, stamps, archives, stored, collect, left>>
  BY DEF Acknowledge, Answered
<1>3. /\ sending' \in [Uploader -> Archive \cup {None}] /\ sending'[u] = None
      /\ report' \in [Uploader -> (SUBSET Digest) \cup {None}] /\ report'[u] = None
      /\ \A v \in Uploader \ {u} : sending'[v] = sending[v] /\ report'[v] = report[v]
  BY <1>2 DEF IInv, Typed
<1>4. /\ config' \in [Uploader -> StateType \cup {None}]
      /\ \A v \in Uploader \ {u} : config'[v] = config[v]
      /\ Claims(state', stored) /\ Claims(config'[u], stored)
  <2>1. CASE sending[u].own
    <3>1. Claims(f, stored)
      BY <1>1, <2>1, WithClaims
    <3>2. f \in StateType
      BY <3>1 DEF Claims
    <3>3. config' = [config EXCEPT ![u] = f] /\ state' = config'[u]
      BY <2>1 DEF Acknowledge, Answered
    <3> HIDE DEF f
    <3>. QED
      BY <3>1, <3>2, <3>3 DEF IInv, Typed
  <2>2. CASE ~sending[u].own
    BY <1>1, <2>2 DEF Acknowledge, Answered, IInv, Typed
  <2>. QED
    BY <2>1, <2>2
<1>. QED
  BY <1>2, <1>3, <1>4, UploadKeeps

\* However an upload ends, the server keeps what it has.
LEMMA EndUploadKeeps ==
    ASSUME IInv, NEW u \in Uploader, NEW good \in SUBSET Digest, EndUpload(u, good)
    PROVE  IInv'
<1>1. /\ stored \subseteq stored'
      /\ config' = [config EXCEPT ![u] = None]
      /\ sending' = [sending EXCEPT ![u] = None] /\ report' = [report EXCEPT ![u] = None]
      /\ UNCHANGED <<content, state, stamps, archives, collect, left>>
  BY DEF EndUpload, Over, Stores, files
<1>2. /\ config' \in [Uploader -> StateType \cup {None}] /\ config'[u] = None
      /\ sending' \in [Uploader -> Archive \cup {None}] /\ sending'[u] = None
      /\ report' \in [Uploader -> (SUBSET Digest) \cup {None}] /\ report'[u] = None
      /\ \A v \in Uploader \ {u} : config'[v] = config[v] /\ sending'[v] = sending[v] /\ report'[v] = report[v]
  BY <1>1 DEF IInv, Typed
<1>3. Claims(state, stored')
  BY <1>1, ClaimsMore DEF IInv, Truthful
<1>. QED
  BY <1>1, <1>2, <1>3, UploadKeeps

-----------------------------------------------------------------------------
LEMMA Initial == Init => IInv
<1> SUFFICES ASSUME Init PROVE IInv
  OBVIOUS
<1>1. \A a \in archives : a \in Archive /\ a.revisions \in Foreign
  <2>1. Foreign \subseteq SUBSET Digest
    BY CollectionConstants
  <2>2. ASSUME NEW a \in archives PROVE a \in [own : {FALSE}, revisions : Foreign]
    BY DEF Init
  <2>3. ASSUME NEW a \in [own : {FALSE}, revisions : Foreign] PROVE a.revisions \in Foreign
    OBVIOUS
  <2>4. [own : {FALSE}, revisions : Foreign] \subseteq Archive
    BY <2>1 DEF Archive
  <2>. QED
    BY <2>2, <2>3, <2>4
<1>2. Typed
  <2>1. archives \subseteq Archive
    BY <1>1
  <2>2. content \in [Source -> 1..MaxContent]
    BY CollectionConstants DEF Init
  <2>3. stamps = [s \in Source |-> None] /\ marks = stamps /\ left = stamps /\ inputs = {}
    BY DEF Init
  <2>4. /\ config = [u \in Uploader |-> None] /\ sending = [u \in Uploader |-> None]
        /\ report = [u \in Uploader |-> None]
    BY DEF Init
  <2>. QED
    BY <2>1, <2>2, <2>3, <2>4 DEF Typed
<1>3. Truthful
  BY NothingClaimed DEF Init, Truthful
<1>4. OneRevisionEach
  BY <1>1, CollectionConstants DEF OneRevisionEach
<1>. QED
  BY <1>2, <1>3, <1>4 DEF Init, IInv, Dropping, OneOfEach, LeftOutIsStored

LEMMA StepKeeps == IInv /\ [Next]_vars => IInv'
<1> SUFFICES ASSUME IInv, [Next]_vars PROVE IInv'
  OBVIOUS
<1>1. CASE UNCHANGED vars
  <2>1. UNCHANGED <<content, state, stamps, archives, stored, acknowledged, marks, inputs, collected, upload, left>>
    BY <1>1 DEF vars, files, collect
  <2>2. Truthful'
    BY <2>1, TruthStays DEF IInv
  <2>. QED
    BY <2>1, <2>2 DEF upload, IInv, Typed, Dropping, OneOfEach, LeftOutIsStored, OneRevisionEach
<1>2. ASSUME NEW u \in Uploader,
             \/ StartUpload(u) \/ Acknowledge(u)
             \/ \E archive \in archives : Send(u, archive)
             \/ \E good \in SUBSET Digest : Import(u, good) \/ EndUpload(u, good)
      PROVE  IInv'
  BY <1>2, StartUploadKeeps, SendKeeps, ImportKeeps, AcknowledgeKeeps, EndUploadKeeps
<1>3. CASE DescribeAny
  BY <1>3, DescribeKeeps DEF DescribeAny
<1>. QED
  BY <1>1, <1>2, <1>3, CollectKeeps, LookKeeps, EndKeeps DEF Next

\* Collection State (acknowledge, SaveCollector) claims nothing the server has not
\* parsed completely, for any number of uploads that write it over one another.
THEOREM AcknowledgedStored == Spec => []AcknowledgedIsStored
<1>1. IInv => AcknowledgedIsStored
  BY DEF IInv, Truthful, Claims, AcknowledgedIsStored
<1>. QED
  BY Initial, StepKeeps, <1>1, PTL DEF Spec

\* The last copy of a source that is left out unread (skip) is stored.
THEOREM LeftOutStored == Spec => []LeftOutIsStored
<1>1. IInv => LeftOutIsStored
  BY DEF IInv
<1>. QED
  BY Initial, StepKeeps, <1>1, PTL DEF Spec

\* No ZIP (collect, archive.Write) has two revisions of a Trace.
THEOREM OneRevisionOfEach == Spec => []OneRevisionEach
<1>1. IInv => OneRevisionEach
  BY DEF IInv
<1>. QED
  BY Initial, StepKeeps, <1>1, PTL DEF Spec

-----------------------------------------------------------------------------
(* What is packed is new or changed *)

\* A copy is of what its source held at some time.
Past(d) == d \in Digest /\ d[2] <= content[d[1]]

\* Every copy that is anywhere on this machine, or came from it to the server.
Copied ==
    /\ \A d \in stored \cup inputs : Past(d)
    /\ \A a \in archives : a.own => \A d \in a.revisions : Past(d)
    /\ \A u \in Uploader : sending[u] # None /\ sending[u].own => \A d \in sending[u].revisions : Past(d)

\* What the loaded state has for a source is older than the copy to be packed, and no
\* newer than the copy in progress, which was made after it was loaded.
Newer ==
    /\ ~all => \A d \in inputs : \A k \in 1..MaxContent : acknowledged[TraceOf[d[1]]] = <<d[1], k>> => k < d[2]
    /\ \/ busy = None
       \/ \E s \in Source : busy = [source |-> s, copy |-> 0]
       \/ \E s \in Source, c \in 1..MaxContent :
             /\ busy = [source |-> s, copy |-> c] /\ c <= content[s]
             /\ \A k \in 1..MaxContent : acknowledged[TraceOf[s]] = <<s, k>> => k <= c

NInv == IInv /\ Copied /\ Newer

\* What any Collection State claims for a source was in it.
LEMMA ClaimedWasThere ==
    ASSUME IInv, Copied, NEW f, Claims(f, stored), NEW s \in Source, NEW k \in 1..MaxContent,
           f[TraceOf[s]] = <<s, k>>
    PROVE  k <= content[s]
<1>1. TraceOf[s] \in Trace /\ <<s, k>> # None
  BY CollectionConstants DEF Trace, Digest
<1>2. <<s, k>> \in stored
  BY <1>1 DEF Claims
<1>. QED
  BY <1>2 DEF Copied, Past

\* Sources only change to what they did not hold before.
LEMMA StillPast ==
    ASSUME IInv, \A s \in Source : content'[s] \in Int /\ content[s] <= content'[s], NEW d, Past(d)
    PROVE  d \in Digest /\ d[2] <= content'[d[1]]
<1>1. d[1] \in Source /\ d[2] \in Int /\ content[d[1]] \in Int
  BY DEF Past, Digest, IInv, Typed
<1>. QED
  BY <1>1 DEF Past

LEMMA CopiedStays ==
    ASSUME IInv, Copied, UNCHANGED content,
           \A d \in stored' \cup inputs' : d \in stored \cup inputs \/ Past(d),
           \A a \in archives' : a.own => a \in archives \/ \A d \in a.revisions : Past(d),
           \A u \in Uploader : sending'[u] # None /\ sending'[u].own =>
               sending'[u] = sending[u] \/ sending'[u] \in archives
    PROVE  Copied'
BY DEF Copied, Past

LEMMA WriteNewer ==
    ASSUME NInv, NEW s \in Source, Write(s)
    PROVE  Copied' /\ Newer'
<1>1. /\ UNCHANGED <<archives, stored, all, busy, acknowledged, inputs, sending>>
      /\ \A x \in Source : content'[x] \in Int /\ content[x] \in Int /\ content[x] <= content'[x]
  BY DEF Write, files, collect, upload, NInv, IInv, Typed
<1>2. \A d : Past(d) => d \in Digest /\ d[2] <= content'[d[1]]
  BY <1>1, StillPast DEF NInv
<1>3. Copied'
  BY <1>1, <1>2 DEF Copied, Past, NInv
<1>4. Newer'
  <2>1. \A x \in Source, c \in 1..MaxContent : c <= content[x] => c <= content'[x]
    BY <1>1
  <2>. QED
    BY <1>1, <2>1 DEF NInv, Newer
<1>. QED
  BY <1>3, <1>4

LEMMA StartNewer ==
    ASSUME NInv, NEW every \in BOOLEAN, StartCollect(every)
    PROVE  Copied' /\ Newer'
<1>1. UNCHANGED <<content, archives, stored, sending>> /\ inputs' = {} /\ busy' = None
  BY DEF StartCollect, files, upload
<1>2. Copied'
  BY <1>1, CopiedStays DEF NInv
<1>. QED
  BY <1>1, <1>2 DEF Newer

\* A copy that begins is at least as new as what is claimed already.
LEMMA CopyNewer ==
    ASSUME NInv, NEW s \in Source, Copy(s)
    PROVE  Copied' /\ Newer'
<1>1. /\ UNCHANGED <<content, archives, stored, sending, inputs, all, acknowledged>>
      /\ busy' = [source |-> s, copy |-> content[s]]
  BY DEF Copy, files, upload
<1>2. Copied'
  BY <1>1, CopiedStays DEF NInv
<1>3. content[s] \in 1..MaxContent /\ content[s] <= content[s]
  BY DEF NInv, IInv, Typed
<1>4. \A k \in 1..MaxContent : acknowledged[TraceOf[s]] = <<s, k>> => k <= content[s]
  BY ClaimedWasThere DEF NInv, IInv, Truthful
<1>5. Newer'
  BY <1>1, <1>3, <1>4 DEF Newer, NInv
<1>. QED
  BY <1>2, <1>5

LEMMA LookNewer ==
    ASSUME NInv, NEW s \in Source, Look(s)
    PROVE  Copied' /\ Newer'
<1>1. /\ UNCHANGED <<content, archives, stored, sending, inputs, all, acknowledged>>
      /\ busy = None /\ (busy' = busy \/ busy' = [source |-> s, copy |-> 0])
  BY DEF Look, files, upload
<1>2. Copied'
  BY <1>1, CopiedStays DEF NInv
<1>. QED
  BY <1>1, <1>2 DEF Newer, NInv

\* What is packed is not what is claimed, so what is claimed is older.
LEMMA DescribeNewer ==
    ASSUME NInv, NEW s \in Source, NEW copy \in 1..MaxContent, Describe(s, copy)
    PROVE  Copied' /\ Newer'
<1> DEFINE digest == <<s, copy>>
<1>1. /\ UNCHANGED <<content, archives, stored, sending, all, acknowledged>>
      /\ busy = [source |-> s, copy |-> copy] /\ copy # 0 /\ busy' = None
      /\ inputs' = inputs \/ (inputs' = inputs \cup {digest} /\ ~Acked(s, copy))
  BY DEF Describe, Described, files, upload
<1>2. /\ copy <= content[s]
      /\ \A k \in 1..MaxContent : acknowledged[TraceOf[s]] = <<s, k>> => k <= copy
  <2>1. busy # None
    BY <1>1, CollectionConstants
  <2>. QED
    BY <1>1, <2>1 DEF NInv, Newer
<1>3. Past(digest)
  BY <1>2 DEF Past, Digest
<1>4. Copied'
  BY <1>1, <1>3, CopiedStays DEF NInv
<1>5. ~all => \A k \in 1..MaxContent : ~Acked(s, copy) /\ acknowledged[TraceOf[s]] = <<s, k>> => k < copy
  BY <1>2 DEF Acked
<1>6. Newer'
  BY <1>1, <1>5 DEF Newer, NInv
<1>. QED
  BY <1>4, <1>6

\* The rest of `collect` reads nothing new.
LEMMA EndNewer ==
    ASSUME NInv,
           \/ Unreadable \/ Pack \/ Stop
           \/ \E saved \in BOOLEAN : SaveStamps(saved)
           \/ \E archive \in archives : RemoveArchive(archive)
    PROVE  Copied' /\ Newer'
<1>1. UNCHANGED <<content, stored, sending>>
  <2>1. CASE Unreadable \/ Pack \/ Stop
    BY <2>1 DEF Unreadable, Pack, Stop, files, upload
  <2>2. CASE (\E saved \in BOOLEAN : SaveStamps(saved)) \/ \E archive \in archives : RemoveArchive(archive)
    BY <2>2 DEF SaveStamps, RemoveArchive, upload
  <2>. QED
    BY <2>1, <2>2
<1>2. \A a \in archives' : a \in archives \/ a.revisions = inputs
  <2>1. CASE Pack
    BY <2>1 DEF Pack
  <2>2. CASE Unreadable \/ Stop
    BY <2>2 DEF Unreadable, Stop, files
  <2>3. CASE (\E saved \in BOOLEAN : SaveStamps(saved)) \/ \E archive \in archives : RemoveArchive(archive)
    BY <2>3 DEF SaveStamps, RemoveArchive
  <2>. QED
    BY <2>1, <2>2, <2>3
<1>3. \/ inputs' = {} /\ busy' = None
      \/ UNCHANGED <<inputs, all, acknowledged>> /\ (busy' = busy \/ busy' = None)
  BY DEF Unreadable, Pack, Stop, SaveStamps, RemoveArchive, EndCollect, collect
<1>4. Copied'
  BY <1>1, <1>2, <1>3, CopiedStays DEF NInv, Copied
<1>5. Newer'
  BY <1>1, <1>3 DEF Newer, NInv
<1>. QED
  BY <1>4, <1>5

\* An upload sends what is in a ZIP and the server stores what is sent.
LEMMA UploadNewer ==
    ASSUME NInv, NEW u \in Uploader,
           \/ StartUpload(u) \/ Acknowledge(u)
           \/ \E archive \in archives : Send(u, archive)
           \/ \E good \in SUBSET Digest : Import(u, good) \/ EndUpload(u, good)
    PROVE  Copied' /\ Newer'
<1>1. UNCHANGED <<content, archives, inputs, all, busy, acknowledged>>
  BY DEF StartUpload, Acknowledge, Answered, Send, Import, EndUpload, Over, files, collect
<1>2. \A d \in stored' : d \in stored \/ (sending[u] # None /\ sending[u].own /\ d \in sending[u].revisions)
  BY DEF StartUpload, Acknowledge, Answered, Send, Import, EndUpload, Over, Stores, files
<1>3. \/ sending' = sending
      \/ sending' = [sending EXCEPT ![u] = None]
      \/ \E archive \in archives : sending' = [sending EXCEPT ![u] = archive]
  BY DEF StartUpload, Acknowledge, Answered, Send, Import, EndUpload, Over
<1>4. \A v \in Uploader : sending'[v] # None => sending'[v] = sending[v] \/ sending'[v] \in archives
  BY <1>3 DEF NInv, IInv, Typed
<1>5. Copied'
  BY <1>1, <1>2, <1>4, CopiedStays DEF NInv, Copied
<1>. QED
  BY <1>1, <1>5 DEF Newer, NInv

LEMMA StepNewer == NInv /\ [Next]_vars => NInv'
<1> SUFFICES ASSUME NInv, [Next]_vars PROVE Copied' /\ Newer'
  BY StepKeeps DEF NInv
<1>1. CASE UNCHANGED vars
  <2>1. UNCHANGED <<content, archives, stored, all, busy, acknowledged, inputs, sending>>
    BY <1>1 DEF vars, files, collect, upload
  <2>. QED
    BY <2>1 DEF NInv, Copied, Past, Newer
<1>2. CASE DescribeAny
  BY <1>2, DescribeNewer DEF DescribeAny
<1>. QED
  BY <1>1, <1>2, WriteNewer, StartNewer, CopyNewer, LookNewer, EndNewer, UploadNewer DEF Next

\* If no two sources are of one Trace, collect (Acknowledged in packTrace) never packs
\* one that holds what was acknowledged for it, though it is written while the
\* collection runs and the state was loaded long before.  With two sources of a Trace
\* it does (the run CollectRepeats).
THEOREM OnlyNewPacked ==
    ASSUME \A s, t \in Source : TraceOf[s] = TraceOf[t] => s = t
    PROVE  Spec => []OnlyNewOrChanged
<1>1. Init => NInv
  <2> SUFFICES ASSUME Init PROVE Copied /\ Newer
    BY Initial DEF NInv
  <2>1. \A a \in archives : ~a.own
    BY DEF Init
  <2>2. stored = {} /\ inputs = {} /\ busy = None /\ \A u \in Uploader : sending[u] = None
    BY DEF Init
  <2>. QED
    BY <2>1, <2>2 DEF Copied, Newer
<1>2. NInv => OnlyNewOrChanged
  <2> SUFFICES ASSUME NInv, ~all, NEW d \in inputs, NEW s \in Source, TraceOf[s] = TraceOf[d[1]],
                      acknowledged[TraceOf[s]] = <<s, content[s]>>
               PROVE  FALSE
    BY DEF OnlyNewOrChanged
  <2>1. d[1] \in Source /\ d[2] \in 1..MaxContent /\ content[s] \in 1..MaxContent
    BY DEF NInv, IInv, Typed, Digest
  <2>2. s = d[1]
    BY <2>1
  <2>3. content[s] < d[2]
    BY <2>1, <2>2 DEF NInv, Newer
  <2>4. d[2] <= content[s]
    BY <2>2 DEF NInv, Copied, Past
  <2>. QED
    BY <2>1, <2>3, <2>4
<1>3. Spec => []NInv
  BY <1>1, StepNewer, PTL DEF Spec
<1>. QED
  BY <1>2, <1>3, PTL

-----------------------------------------------------------------------------
(* Exports by commands (ExportPool) *)

Threads == Cardinality(Thread)

\* No Trace twice.
Once(s) == \A j, k \in DOMAIN s : s[j] = s[k] => j = k

Positions(page) == {i \in DOMAIN page : page[i] \notin Range(listed)}

ExportTyped ==
    /\ paged \in BOOLEAN
    /\ step \in {"list", "next", "slot", "wait", "returned"}
    /\ listed \in Seq(Thread) /\ Once(listed)
    /\ offset \in Nat /\ repeats \in Nat /\ notice \in BOOLEAN
    /\ launched \in 0..Len(listed) /\ Len(listed) <= Threads
    /\ job \in [1..Threads -> {"none", "export", "inspect", "ended"}]
    /\ kept \subseteq 1..launched /\ skipped \subseteq 1..launched
    /\ fatal \in BOOLEAN /\ ended \in BOOLEAN

\* The pages so far had `offset` entries, `repeats` of them twice; the last one makes
\* them as many as there are Traces.
ListCounted ==
    /\ step = "list" => /\ Len(listed) + repeats = offset /\ offset <= Threads
                        /\ ~paged => offset = 0
                        /\ launched = 0
    /\ step # "list" => notice \/ Len(listed) = Threads

\* Every Trace that was started is at work or has ended one way or another.
JobsCounted ==
    /\ step = "slot" => launched < Len(listed)
    /\ \A i \in 1..Threads : job[i] # "none" => i <= launched
    /\ \A i \in 1..launched : job[i] # "none"
    /\ \A i \in kept \cup skipped : job[i] = "ended"
    /\ ~fatal => /\ \A i \in 1..launched : job[i] = "ended" => i \in kept \cup skipped
                 /\ dirs = Running \cup kept
                 /\ step \in {"wait", "returned"} => launched = Len(listed)
    /\ kept \cap skipped = {}

Delivered ==
    step = "returned" =>
        /\ Running = {}
        /\ IF fatal THEN returned = None /\ dirs = {} ELSE returned = Upward(kept)

EInv == ExportTyped /\ ListCounted /\ JobsCounted /\ Delivered

LEMMA FewThreads == IsFiniteSet(Thread) /\ Threads \in Nat /\ PageSize \in Nat /\ PageSize > 0
<1>1. IsFiniteSet(Thread) /\ PageSize \in Nat /\ PageSize > 0
  BY ExportConstants
<1>. QED
  BY <1>1, FS_CardinalityType DEF Threads

\* What a page has that no page had before.
LEMMA UnseenIsNew ==
    ASSUME NEW page \in Seq(Thread), Once(page)
    PROVE  /\ Unseen(page) \in Seq(Thread) /\ Once(Unseen(page))
           /\ \A k \in DOMAIN Unseen(page) : Unseen(page)[k] \notin Range(listed)
           /\ Len(Unseen(page)) \in Nat /\ Len(Unseen(page)) <= Len(page)
           /\ listed = <<>> => Len(Unseen(page)) = Len(page)
<1> DEFINE S == Positions(page)
           new == Upward(S)
           n == Cardinality(S)
<1>1. Len(page) \in Nat /\ DOMAIN page = 1..Len(page)
  OBVIOUS
<1>2. IsFiniteSet(1..Len(page)) /\ Cardinality(1..Len(page)) = Len(page)
  <2>1. 1 \in Int /\ Len(page) \in Int
    BY <1>1
  <2>. QED
    BY <1>1, <2>1, FS_Interval
<1>3. S \in SUBSET (1..Len(page))
  BY <1>1 DEF Positions
<1>4. IsFiniteSet(S) /\ n <= Len(page) /\ S \subseteq Int
  <2>1. \A x \in S : x \in Int
    BY <1>1, <1>3
  <2>. HIDE DEF S
  <2>. QED
    BY <1>2, <1>3, <2>1, FS_Subset
<1>5. /\ n \in Nat /\ new \in [1..n -> S]
      /\ \A j, k \in 1..n : j < k <=> new[j] < new[k]
  <2>. HIDE DEF S
  <2>. QED
    BY <1>4, UpwardSorts
<1>6. Unseen(page) = [k \in 1..n |-> page[new[k]]]
  <2>1. DOMAIN new = 1..n
    <3>. HIDE DEF new, n
    <3>. QED
      BY <1>5
  <2>2. Unseen(page) = [k \in DOMAIN new |-> page[new[k]]]
    BY DEF Unseen, Positions
  <2>. QED
    BY <2>1, <2>2
<1>7. \A k \in 1..n : new[k] \in 1..Len(page) /\ page[new[k]] \in Thread /\ page[new[k]] \notin Range(listed)
  <2>. SUFFICES ASSUME NEW k \in 1..n
                PROVE  new[k] \in 1..Len(page) /\ page[new[k]] \in Thread /\ page[new[k]] \notin Range(listed)
    OBVIOUS
  <2>1. new[k] \in S
    <3>. HIDE DEF new, S, n
    <3>. QED
      BY <1>5
  <2>2. \A i \in S : i \in 1..Len(page) /\ page[i] \in Thread /\ page[i] \notin Range(listed)
    BY <1>1 DEF Positions
  <2>. HIDE DEF new, S
  <2>. QED
    BY <2>1, <2>2
<1>8. Once([k \in 1..n |-> page[new[k]]])
  <2>. SUFFICES ASSUME NEW j \in 1..n, NEW k \in 1..n, page[new[j]] = page[new[k]]
                PROVE  j = k
    BY DEF Once
  <2>1. new[j] = new[k]
    <3>. HIDE DEF new, n
    <3>. QED
      BY <1>1, <1>7 DEF Once
  <2>. HIDE DEF new, n
  <2>2. new[j] \in Int /\ new[k] \in Int
    BY <1>1, <1>7
  <2>. QED
    BY <1>5, <2>1, <2>2
<1>9. listed = <<>> => n = Len(page)
  <2>. SUFFICES ASSUME listed = <<>> PROVE S = 1..Len(page)
    BY <1>2
  <2>1. Range(listed) = {}
    BY DEF Range
  <2>. QED
    BY <1>1, <2>1 DEF Positions
<1>10. /\ [k \in 1..n |-> page[new[k]]] \in Seq(Thread)
       /\ Len([k \in 1..n |-> page[new[k]]]) = n
  <2>. HIDE DEF new, n
  <2>. QED
    BY <1>5, <1>7
<1>. HIDE DEF new, S, n
<1>. QED
  BY <1>4, <1>5, <1>6, <1>7, <1>8, <1>9, <1>10

\* A page is some of the list as it is at that time: all from the offset on, or as many
\* as a page has.
LEMMA PageIsPart ==
    ASSUME NEW order \in Orders, offset \in 0..Threads, ~paged => offset = 0
    PROVE  /\ Page(order) \in Seq(Thread) /\ Once(Page(order)) /\ Len(Page(order)) \in Nat
           /\ paged /\ Len(Page(order)) = PageSize => offset + PageSize <= Threads
           /\ ~(paged /\ Len(Page(order)) = PageSize) => Len(Page(order)) = Threads - offset
           /\ ~paged => Page(order) = order
<1>1. Threads \in Nat /\ PageSize \in Nat /\ PageSize > 0 /\ offset \in Nat /\ offset <= Threads
  BY FewThreads
<1>2. order \in [1..Threads -> Thread] /\ \A j, k \in 1..Threads : order[j] = order[k] => j = k
  BY DEF Orders, IsInjective, Threads
<1>3. order \in Seq(Thread) /\ Len(order) = Threads /\ DOMAIN order = 1..Threads
  BY <1>1, <1>2
<1>4. CASE ~paged
  BY <1>1, <1>2, <1>3, <1>4 DEF Page, Once
<1>5. CASE paged
  <2> DEFINE last == IF offset + PageSize < Threads THEN offset + PageSize ELSE Threads
             page == SubSeq(order, offset + 1, last)
  <2>1. Page(order) = page
    BY <1>3, <1>5 DEF Page
  <2>2. last \in Nat /\ offset <= last /\ last <= Threads /\ last - offset \in Nat
    BY <1>1
  <2>3. page = [i \in 1..last - offset |-> order[offset + i]]
    <3>. HIDE DEF last
    <3>. QED
      BY <1>1, <1>3, <2>2
  <2>4. \A i \in 1..last - offset : offset + i \in 1..Threads
    <3>. HIDE DEF last
    <3>. QED
      BY <1>1, <2>2
  <2>5. page \in Seq(Thread) /\ Len(page) = last - offset
    <3>1. \A i \in 1..last - offset : order[offset + i] \in Thread
      <4>. HIDE DEF last
      <4>. QED
        BY <1>2, <2>4
    <3>. HIDE DEF last, page
    <3>. QED
      BY <2>2, <2>3, <3>1
  <2>6. Once(page)
    <3>. SUFFICES ASSUME NEW j \in 1..last - offset, NEW k \in 1..last - offset,
                         order[offset + j] = order[offset + k]
                  PROVE  j = k
      <4>. HIDE DEF last, page
      <4>. QED
        BY <2>3 DEF Once
    <3>1. offset + j = offset + k
      <4>. HIDE DEF last
      <4>. QED
        BY <1>2, <2>4
    <3>. HIDE DEF last
    <3>. QED
      BY <1>1, <2>2, <3>1
  <2>7. last - offset = PageSize => offset + PageSize <= Threads
    BY <1>1
  <2>8. last - offset # PageSize => last - offset = Threads - offset
    BY <1>1
  <2>. HIDE DEF page, last
  <2>. QED
    BY <1>5, <2>1, <2>2, <2>5, <2>6, <2>7, <2>8
<1>. QED
  BY <1>4, <1>5

LEMMA ListKeeps ==
    ASSUME EInv, NEW order \in Orders, ListPage(order)
    PROVE  EInv'
<1> DEFINE page == Page(order)
           new == Unseen(page)
<1>1. /\ step = "list" /\ listed \in Seq(Thread) /\ Once(listed) /\ launched = 0
      /\ offset \in 0..Threads /\ repeats \in Nat /\ Len(listed) \in Nat /\ Len(listed) + repeats = offset
      /\ (~paged => offset = 0) /\ Threads \in Nat /\ PageSize \in Nat /\ PageSize > 0 /\ paged \in BOOLEAN
  BY FewThreads DEF EInv, ExportTyped, ListCounted, ListPage
<1>2. /\ listed' = listed \o new
      /\ repeats' = repeats + Len(page) - Len(new)
      /\ \/ paged /\ Len(page) = PageSize /\ offset' = offset + PageSize /\ step' = "list" /\ notice' = notice
         \/ /\ ~(paged /\ Len(page) = PageSize)
            /\ step' = "next" /\ notice' = (repeats' > 0) /\ offset' = offset
      /\ UNCHANGED <<paged, launched, job, kept, skipped, fatal, ended, dirs, returned>>
  BY <1>1 DEF ListPage, results
<1>3. /\ page \in Seq(Thread) /\ Once(page) /\ Len(page) \in Nat
      /\ paged /\ Len(page) = PageSize => offset + PageSize <= Threads
      /\ ~(paged /\ Len(page) = PageSize) => Len(page) = Threads - offset
  BY <1>1, PageIsPart
<1>4. /\ new \in Seq(Thread) /\ Once(new) /\ \A k \in DOMAIN new : new[k] \notin Range(listed)
      /\ Len(new) \in Nat /\ Len(new) <= Len(page) /\ (listed = <<>> => Len(new) = Len(page))
  <2>. HIDE DEF page
  <2>. QED
    BY <1>3, UnseenIsNew
<1> HIDE DEF page, new
<1>5. listed' \in Seq(Thread) /\ Len(listed') = Len(listed) + Len(new)
  BY <1>1, <1>2, <1>4
<1>6. Once(listed')
  <2>. SUFFICES ASSUME NEW j \in DOMAIN listed', NEW k \in DOMAIN listed', listed'[j] = listed'[k]
                PROVE  j = k
    BY DEF Once
  <2>1. \A i \in DOMAIN listed' :
           \/ i \in DOMAIN listed /\ listed'[i] = listed[i] /\ listed[i] \in Range(listed)
           \/ /\ i - Len(listed) \in DOMAIN new /\ i \in Int
              /\ listed'[i] = new[i - Len(listed)] /\ listed'[i] \notin Range(listed)
    <3>. SUFFICES ASSUME NEW i \in DOMAIN listed'
                  PROVE  \/ i \in DOMAIN listed /\ listed'[i] = listed[i] /\ listed[i] \in Range(listed)
                         \/ /\ i - Len(listed) \in DOMAIN new /\ i \in Int
                            /\ listed'[i] = new[i - Len(listed)] /\ listed'[i] \notin Range(listed)
      OBVIOUS
    <3>1. i \in Nat /\ i >= 1 /\ i <= Len(listed) + Len(new)
      BY <1>1, <1>4, <1>5
    <3>2. CASE i <= Len(listed)
      <4>1. i \in DOMAIN listed /\ listed'[i] = listed[i]
        BY <1>1, <1>2, <1>4, <3>1, <3>2
      <4>. QED
        BY <4>1 DEF Range
    <3>3. CASE i > Len(listed)
      BY <1>1, <1>2, <1>4, <3>1, <3>3, SMTT(30)
    <3>. QED
      BY <1>1, <3>1, <3>2, <3>3
  <2>2. CASE j \in DOMAIN listed /\ k \in DOMAIN listed /\ listed'[j] = listed[j] /\ listed'[k] = listed[k]
    BY <1>1, <2>2 DEF Once
  <2>3. CASE /\ j - Len(listed) \in DOMAIN new /\ k - Len(listed) \in DOMAIN new /\ j \in Int /\ k \in Int
             /\ listed'[j] = new[j - Len(listed)] /\ listed'[k] = new[k - Len(listed)]
    <3>1. j - Len(listed) = k - Len(listed)
      BY <1>4, <2>3 DEF Once
    <3>. QED
      BY <1>1, <2>3, <3>1
  <2>. QED
    BY <2>1, <2>2, <2>3
<1>7. offset \in Nat /\ offset <= Threads
  BY <1>1
<1>8. Len(listed') \in Nat /\ repeats' \in Nat /\ Len(listed') + repeats' = offset + Len(page)
  <2>1. repeats' = repeats + Len(page) - Len(new) /\ Len(listed') = Len(listed) + Len(new)
    BY <1>2, <1>5
  <2>2. Len(new) \in Nat /\ Len(new) <= Len(page) /\ Len(page) \in Nat
    BY <1>3, <1>4
  <2>3. Len(listed) \in Nat /\ repeats \in Nat /\ Len(listed) + repeats = offset
    BY <1>1
  <2>. QED
    BY <2>1, <2>2, <2>3
<1>9. offset' \in Nat /\ offset + Len(page) <= Threads
  BY <1>1, <1>2, <1>3, <1>7
<1>10. Len(listed') <= Threads
  BY <1>1, <1>7, <1>8, <1>9, <1>3
<1>11. notice' \in BOOLEAN
  <2>1. CASE notice' = (repeats' > 0)
    BY <2>1
  <2>2. CASE notice' = notice
    BY <2>2 DEF EInv, ExportTyped
  <2>. QED
    BY <1>2, <2>1, <2>2
<1>12. ListCounted'
  <2>1. CASE step' = "list"
    <3>1. paged /\ Len(page) = PageSize /\ offset' = offset + PageSize
      BY <1>2, <2>1
    <3>2. offset' = offset + Len(page) /\ offset' <= Threads
      BY <1>3, <1>9, <3>1
    <3>. QED
      BY <1>1, <1>2, <1>8, <2>1, <3>1, <3>2 DEF ListCounted
  <2>2. CASE step' = "next"
    <3>1. ~(paged /\ Len(page) = PageSize) /\ notice' = (repeats' > 0)
      BY <1>2, <2>2
    <3>2. Len(listed') + repeats' = Threads
      BY <1>1, <1>3, <1>7, <1>8, <3>1
    <3>3. ~notice' => ~(repeats' > 0)
      BY <3>1, Zenon
    <3>4. ~notice' => Len(listed') = Threads
      BY <1>8, <3>2, <3>3
    <3>. QED
      BY <2>2, <3>4 DEF ListCounted
  <2>. QED
    BY <1>2, <2>1, <2>2
<1>13. ExportTyped'
  <2>1. launched' \in 0..Len(listed')
    BY <1>1, <1>2, <1>8
  <2>2. step' \in {"list", "next"}
    BY <1>2
  <2>. QED
    BY <1>1, <1>2, <1>5, <1>6, <1>8, <1>9, <1>10, <1>11, <2>1, <2>2 DEF EInv, ExportTyped
<1>14. JobsCounted'
  <2>1. step' \in {"list", "next"}
    BY <1>2
  <2>2. Running' = Running
    BY <1>2 DEF Running
  <2>. QED
    BY <1>1, <1>2, <2>1, <2>2 DEF EInv, JobsCounted
<1>15. Delivered'
  BY <1>1, <1>2 DEF Delivered
<1>. QED
  BY <1>12, <1>13, <1>14, <1>15 DEF EInv

\* The loop that starts processes moves on, and starts none.
LEMMA LoopKeeps ==
    ASSUME EInv, ListFails \/ NextTrace \/ StopLaunching \/ EndLaunching \/ CancelCollect
    PROVE  EInv'
<1>1. UNCHANGED <<paged, listed, offset, repeats, launched, job, kept, skipped, dirs, returned>>
  BY DEF ListFails, NextTrace, StopLaunching, EndLaunching, CancelCollect, results
<1>2. /\ Running' = Running /\ notice' \in BOOLEAN /\ fatal' \in BOOLEAN /\ ended' \in BOOLEAN
      /\ step' \in {"list", "next", "slot", "wait", "returned"}
      /\ fatal => fatal'
  <2>1. Running' = Running
    BY <1>1 DEF Running
  <2>2. fatal' = fatal \/ fatal' = TRUE
    BY DEF ListFails, NextTrace, StopLaunching, EndLaunching, CancelCollect, results, Stopped
  <2>3. notice' = notice \/ notice' = TRUE
    BY DEF ListFails, NextTrace, StopLaunching, EndLaunching, CancelCollect
  <2>4. ended' = ended \/ ended' = TRUE
    BY DEF ListFails, NextTrace, StopLaunching, EndLaunching, CancelCollect, results
  <2>5. step' \in {"list", "next", "slot", "wait", "returned"}
    BY DEF ListFails, NextTrace, StopLaunching, EndLaunching, CancelCollect, EInv, ExportTyped
  <2>. QED
    BY <2>1, <2>2, <2>3, <2>4, <2>5 DEF EInv, ExportTyped
<1>3. ExportTyped'
  BY <1>1, <1>2 DEF EInv, ExportTyped
<1>4. ListCounted'
  <2>1. \/ step' = step /\ notice' = notice
        \/ step' # "list" /\ notice' = TRUE
        \/ step' # "list" /\ step # "list" /\ notice' = notice
    BY DEF ListFails, NextTrace, StopLaunching, EndLaunching, CancelCollect
  <2>. QED
    BY <1>1, <2>1 DEF EInv, ListCounted
<1>5. JobsCounted'
  <2>1. step' = "slot" => step = "slot" \/ launched < Len(listed)
    BY DEF ListFails, NextTrace, StopLaunching, EndLaunching, CancelCollect
  <2>2. ~fatal' /\ step' \in {"wait", "returned"} => step \in {"wait", "returned"} \/ launched = Len(listed)
    BY DEF ListFails, NextTrace, StopLaunching, EndLaunching, CancelCollect, Stopped
  <2>. QED
    BY <1>1, <1>2, <2>1, <2>2 DEF EInv, JobsCounted
<1>6. Delivered'
  <2>1. step' = "returned" => FALSE
    BY DEF ListFails, NextTrace, StopLaunching, EndLaunching, CancelCollect, EInv, ExportTyped
  <2>. QED
    BY <2>1 DEF Delivered
<1>. QED
  BY <1>3, <1>4, <1>5, <1>6 DEF EInv

LEMMA LaunchKeeps ==
    ASSUME EInv, Launch
    PROVE  EInv'
<1> DEFINE n == launched + 1
<1>1. /\ step = "slot" /\ step' = "next" /\ launched' = n
      /\ job' = [job EXCEPT ![n] = "export"] /\ dirs' = dirs \cup {n}
      /\ UNCHANGED <<paged, listed, offset, repeats, notice, kept, skipped, fatal, ended, returned>>
  BY DEF Launch
<1>2. /\ n \in 1..Len(listed) /\ n \in 1..Threads /\ n \notin 1..launched /\ 1..n = 1..launched \cup {n}
      /\ Len(listed) \in Nat /\ launched \in Nat /\ Threads \in Nat
  BY <1>1, FewThreads DEF EInv, ExportTyped, JobsCounted
<1> HIDE DEF n
<1>3. /\ job'[n] = "export" /\ \A i \in 1..Threads : i # n => job'[i] = job[i]
      /\ job' \in [1..Threads -> {"none", "export", "inspect", "ended"}]
  BY <1>1, <1>2 DEF EInv, ExportTyped
<1>4. Running' = Running \cup {n}
  BY <1>2, <1>3 DEF Running, EInv, ExportTyped
<1>5. ExportTyped'
  <2>1. kept \subseteq 1..n /\ skipped \subseteq 1..n /\ n \in 0..Len(listed)
    BY <1>2 DEF EInv, ExportTyped
  <2>. QED
    BY <1>1, <1>3, <2>1 DEF EInv, ExportTyped
<1>6. ListCounted'
  BY <1>1 DEF EInv, ListCounted
<1>7. JobsCounted'
  <2>1. \A i \in kept \cup skipped : i # n /\ i \in 1..Threads /\ job[i] = "ended"
    BY <1>2 DEF EInv, ExportTyped, JobsCounted
  <2>2. \A i \in 1..Threads : i <= launched => i <= n
    BY <1>2 DEF n
  <2>3. n <= n
    BY <1>2
  <2>4. \A i \in 1..launched : i \in 1..Threads /\ i # n
    BY <1>2 DEF EInv, ExportTyped
  <2>. QED
    BY <1>1, <1>2, <1>3, <1>4, <2>1, <2>2, <2>3, <2>4 DEF EInv, JobsCounted
<1>8. Delivered'
  BY <1>1 DEF Delivered
<1>. QED
  BY <1>5, <1>6, <1>7, <1>8 DEF EInv

\* One process goes on or ends, by itself or with an error.
LEMMA JobKeeps ==
    ASSUME EInv, NEW i \in DOMAIN job, MkdirFails(i) \/ JobStep(i)
    PROVE  EInv'
<1>1. /\ i \in 1..Threads /\ i \in 1..launched /\ job[i] \in {"export", "inspect"}
      /\ i \notin kept /\ i \notin skipped /\ i \in Running
  BY DEF MkdirFails, JobStep, Abort, Export, ExportFails, Inspect, Interrupted, EInv, ExportTyped, JobsCounted, Running
<1>2. step # "returned"
  BY <1>1 DEF EInv, Delivered
<1>3. UNCHANGED <<paged, step, listed, offset, repeats, notice, launched, returned>>
  BY DEF MkdirFails, JobStep, Abort, Export, ExportFails, Inspect, Interrupted, results
<1>4. \/ job' = [job EXCEPT ![i] = "ended"] /\ fatal' = TRUE /\ ended' = TRUE /\ UNCHANGED <<kept, skipped, dirs>>
      \/ job' = [job EXCEPT ![i] = "inspect"] /\ UNCHANGED <<kept, skipped, dirs, fatal, ended>>
      \/ /\ job' = [job EXCEPT ![i] = "ended"] /\ skipped' = skipped \cup {i} /\ dirs' = dirs \ {i}
         /\ UNCHANGED <<kept, fatal, ended>>
      \/ /\ job' = [job EXCEPT ![i] = "ended"] /\ kept' = kept \cup {i}
         /\ UNCHANGED <<skipped, dirs, fatal, ended>>
  BY DEF MkdirFails, JobStep, Abort, Export, ExportFails, Inspect, Interrupted, results
<1>5. /\ job' \in [1..Threads -> {"none", "export", "inspect", "ended"}]
      /\ \A j \in 1..Threads : j # i => job'[j] = job[j]
      /\ job'[i] \in {"inspect", "ended"}
  BY <1>1, <1>4 DEF EInv, ExportTyped
<1>6. Running' = IF job'[i] = "inspect" THEN Running ELSE Running \ {i}
  BY <1>1, <1>5 DEF Running, EInv, ExportTyped
<1>7. ExportTyped'
  BY <1>1, <1>3, <1>4, <1>5 DEF EInv, ExportTyped
<1>8. ListCounted'
  BY <1>3 DEF EInv, ListCounted
<1>9. JobsCounted'
  <2>1. \A j \in 1..launched : j \in 1..Threads
    BY FewThreads DEF EInv, ExportTyped
  <2>2. kept \subseteq 1..launched /\ skipped \subseteq 1..launched
    BY DEF EInv, ExportTyped
  <2>3. i <= launched
    BY <1>1
  <2>4. job'[i] = "ended" \/ UNCHANGED <<kept, skipped, dirs, fatal>>
    BY <1>4, <1>1 DEF EInv, ExportTyped
  <2>5. /\ \A j \in 1..Threads : job'[j] # "none" => j <= launched
        /\ \A j \in 1..launched : job'[j] # "none"
    BY <1>1, <1>5, <2>1, <2>3 DEF EInv, JobsCounted
  <2>6. /\ \A j \in kept' \cup skipped' : job'[j] = "ended"
        /\ kept' \cap skipped' = {}
    BY <1>1, <1>4, <1>5, <2>1, <2>2, <2>4 DEF EInv, JobsCounted
  <2>7. ~fatal' => ~fatal /\ \A j \in 1..launched : job'[j] = "ended" => j \in kept' \cup skipped'
    BY <1>1, <1>4, <1>5, <2>1 DEF EInv, JobsCounted, ExportTyped
  <2>8. ~fatal' => dirs' = Running' \cup kept'
    <3>1. ~fatal => dirs = Running \cup kept
      BY DEF EInv, JobsCounted
    <3>2. \/ job' = [job EXCEPT ![i] = "inspect"] => job'[i] = "inspect"
      BY <1>1 DEF EInv, ExportTyped
    <3>3. job' = [job EXCEPT ![i] = "ended"] => job'[i] = "ended"
      BY <1>1 DEF EInv, ExportTyped
    <3>. QED
      BY <1>1, <1>4, <1>6, <3>1, <3>2, <3>3
  <2>. QED
    BY <1>3, <2>5, <2>6, <2>7, <2>8 DEF EInv, JobsCounted
<1>10. Delivered'
  BY <1>2, <1>3 DEF Delivered
<1>. QED
  BY <1>7, <1>8, <1>9, <1>10 DEF EInv

LEMMA ReturnKeeps ==
    ASSUME EInv, Return
    PROVE  EInv'
<1>1. /\ step = "wait" /\ Running = {} /\ step' = "returned"
      /\ returned' = (IF fatal THEN None ELSE Upward(kept)) /\ dirs' = (IF fatal THEN {} ELSE dirs)
      /\ UNCHANGED <<paged, listed, offset, repeats, notice, launched, job, kept, skipped, fatal, ended>>
  BY DEF Return
<1>2. Running' = Running
  BY <1>1 DEF Running
<1>3. ExportTyped' /\ ListCounted' /\ JobsCounted'
  BY <1>1, <1>2 DEF EInv, ExportTyped, ListCounted, JobsCounted
<1>4. Delivered'
  BY <1>1, <1>2 DEF Delivered
<1>. QED
  BY <1>3, <1>4 DEF EInv

LEMMA ExportInvariant == ExportSpec => []EInv
<1>1. ExportInit => EInv
  <2> SUFFICES ASSUME ExportInit PROVE EInv
    OBVIOUS
  <2>1. /\ step = "list" /\ listed = <<>> /\ offset = 0 /\ repeats = 0 /\ notice = FALSE /\ paged \in BOOLEAN
        /\ launched = 0 /\ job = [i \in 1..Threads |-> "none"]
        /\ kept = {} /\ skipped = {} /\ fatal = FALSE /\ ended = FALSE /\ dirs = {}
    BY DEF ExportInit, Threads
  <2>2. Running = {} /\ Len(listed) = 0 /\ 1..0 = {} /\ Threads \in Nat
    BY <2>1, FewThreads DEF Running
  <2>3. ExportTyped
    <3>1. listed \in Seq(Thread) /\ Once(listed)
      BY <2>1 DEF Once
    <3>2. offset \in Nat /\ repeats \in Nat /\ launched \in 0..Len(listed) /\ Len(listed) <= Threads
      BY <2>1, <2>2
    <3>3. job \in [1..Threads -> {"none", "export", "inspect", "ended"}]
      BY <2>1
    <3>. QED
      BY <2>1, <3>1, <3>2, <3>3 DEF ExportTyped
  <2>4. ListCounted
    BY <2>1, <2>2 DEF ListCounted
  <2>5. JobsCounted
    BY <2>1, <2>2 DEF JobsCounted
  <2>6. Delivered
    BY <2>1 DEF Delivered
  <2>. QED
    BY <2>3, <2>4, <2>5, <2>6 DEF EInv
<1>2. EInv /\ [ExportNext]_exportVars => EInv'
  <2> SUFFICES ASSUME EInv, [ExportNext]_exportVars PROVE EInv'
    OBVIOUS
  <2>1. CASE UNCHANGED exportVars
    BY <2>1 DEF exportVars, EInv, ExportTyped, ListCounted, JobsCounted, Delivered, Running
  <2>2. CASE CollectExports \/ CancelCollect
    BY <2>2, ListKeeps, LoopKeeps, LaunchKeeps, ReturnKeeps DEF CollectExports
  <2>3. ASSUME NEW i \in DOMAIN job, MkdirFails(i) \/ JobStep(i) PROVE EInv'
    BY <2>3, JobKeeps
  <2>. QED
    BY <2>1, <2>2, <2>3 DEF ExportNext
<1>. QED
  BY <1>1, <1>2, PTL DEF ExportSpec

\* A collection of exports (commandAdapter.Collect) that returns without an error has an
\* input or a warning for every Trace of the list, its inputs in the order of the list
\* with their directories, and a warning if the list may lack a Trace; with an error it
\* leaves nothing, for any number of Traces, pages of any size and any number of slots.
THEOREM ExportsAreAccounted == ExportSpec => []ExportsAccounted
<1>1. EInv => ExportsAccounted
  <2> SUFFICES ASSUME EInv, step = "returned", ~fatal
               PROVE  /\ 1..Len(listed) = Range(returned) \cup skipped
                      /\ dirs = Range(returned)
                      /\ \A j, k \in DOMAIN returned : j < k => returned[j] < returned[k]
                      /\ notice \/ Range(listed) = Thread
    BY DEF EInv, Delivered, ExportsAccounted
  <2>1. /\ Running = {} /\ returned = Upward(kept) /\ dirs = kept /\ launched = Len(listed)
        /\ Len(listed) \in Nat /\ kept \in SUBSET (1..Len(listed)) /\ skipped \subseteq 1..Len(listed)
    <3>1. Running = {} /\ returned = Upward(kept) /\ launched = Len(listed) /\ dirs = Running \cup kept
      BY DEF EInv, Delivered, JobsCounted
    <3>2. Len(listed) \in Nat /\ kept \subseteq 1..launched /\ skipped \subseteq 1..launched
      BY DEF EInv, ExportTyped
    <3>. QED
      BY <3>1, <3>2
  <2>2. \A i \in 1..Len(listed) : i \in kept \cup skipped
    <3>. SUFFICES ASSUME NEW i \in 1..Len(listed) PROVE job[i] = "ended"
      BY <2>1 DEF EInv, JobsCounted
    <3>1. i \in 1..Threads /\ job[i] # "none"
      BY <2>1, FewThreads DEF EInv, ExportTyped, JobsCounted
    <3>2. job[i] \notin {"export", "inspect"} /\ job[i] \in {"none", "export", "inspect", "ended"}
      BY <2>1, <3>1 DEF Running, EInv, ExportTyped
    <3>. QED
      BY <3>1, <3>2
  <2>3. IsFiniteSet(kept) /\ kept \subseteq Int
    <3>1. 1 \in Int /\ Len(listed) \in Int
      BY <2>1
    <3>2. IsFiniteSet(1..Len(listed))
      BY <3>1, FS_Interval
    <3>3. \A x \in kept : x \in Int
      BY <2>1
    <3>4. IsFiniteSet(kept)
      BY <2>1, <3>2, FS_Subset
    <3>. QED
      BY <3>3, <3>4
  <2>4. Range(returned) = kept /\ \A j, k \in DOMAIN returned : j < k => returned[j] < returned[k]
    <3> DEFINE n == Cardinality(kept)
               up == Upward(kept)
    <3>1. /\ up \in [1..n -> kept] /\ \A x \in kept : \E k \in 1..n : up[k] = x
          /\ \A j, k \in 1..n : j < k <=> up[j] < up[k]
      BY <2>3, UpwardSorts
    <3>2. returned = up
      BY <2>1
    <3>. HIDE DEF n, up
    <3>3. DOMAIN returned = 1..n
      BY <3>1, <3>2
    <3>. QED
      BY <3>1, <3>2, <3>3 DEF Range
  <2>5. notice \/ Range(listed) = Thread
    <3> SUFFICES ASSUME Len(listed) = Threads PROVE Range(listed) = Thread
      BY DEF EInv, ListCounted
    <3>1. listed \in [1..Threads -> Thread] /\ Once(listed) /\ Threads \in Nat /\ DOMAIN listed = 1..Threads
      BY FewThreads DEF EInv, ExportTyped
    <3>2. Range(listed) \in SUBSET Thread /\ listed \in Bijection(1..Threads, Range(listed))
      <4>1. Range(listed) \in SUBSET Thread /\ listed \in [1..Threads -> Range(listed)]
        BY <3>1 DEF Range
      <4>2. \A y \in Range(listed) : \E x \in 1..Threads : listed[x] = y
        BY <3>1 DEF Range
      <4>3. \A x, y \in 1..Threads : listed[x] = listed[y] => x = y
        BY <3>1 DEF Once
      <4>. QED
        BY <4>1, <4>2, <4>3, Fun_IsBij
    <3>3. Cardinality(Range(listed)) = Threads
      <4>0. 1 \in Int /\ Threads \in Int
        BY <3>1
      <4>1. IsFiniteSet(1..Threads) /\ Cardinality(1..Threads) = Threads
        BY <3>1, <4>0, FS_Interval
      <4>2. ExistsBijection(1..Threads, Range(listed))
        BY <3>2 DEF ExistsBijection
      <4>. QED
        BY <4>1, <4>2, FS_Bijection
    <3>. QED
      BY <3>2, <3>3, FewThreads, FS_Subset DEF Threads
  <2>. QED
    BY <2>1, <2>2, <2>4, <2>5
<1>. QED
  BY <1>1, ExportInvariant, PTL

-----------------------------------------------------------------------------
(* Copies of sessions (SourceCopies) *)

\* The size and time that were taken of a file when its moment was.
Taken0(p) == IF directory THEN stamp[p] ELSE before[p]

\* The file was not written since; a file of records has at most been appended to.
Same(p) == source[p] # None /\ Taken0(p) # None /\ source[p].time = Taken0(p).time
Still(p) == Same(p) \/ (~directory /\ p = Records /\ p \in grown /\ moment[p] # None)

CopyTyped ==
    /\ directory \in BOOLEAN /\ clock \in Nat /\ path \in Path /\ together \in BOOLEAN
    /\ source \in [Path -> FileType \cup {None}]
    /\ \A p \in Path : source[p] # None => source[p].time <= clock
    /\ stamp \in [Path -> StampType \cup {None}] /\ before \in [Path -> StampType \cup {None}]
    /\ moment \in [Path -> Seq(ByteType) \cup {None}]
    /\ handle \in [inode : Nat, bytes : Seq(ByteType)]
    /\ remaining \in Nat /\ copied \in Seq(ByteType)
    /\ snapshot = [p \in Path |-> snapshot[p]]
    /\ doing \in {"stamp", "stat", "open", "read", "check", "verify", "done", "failed"}
    /\ IF directory THEN doing \in {"stat", "check"} => path = Records ELSE doing \notin {"stamp", "verify"}

\* What was taken of a file is of its moment, and tells whether it is still like that.
Recorded ==
    /\ \A p \in Path :
          /\ moment[p] = None <=> Taken0(p) = None
          /\ Taken0(p) # None => Taken0(p).time <= clock /\ Taken0(p).size = Len(moment[p])
          /\ Same(p) => source[p].bytes = moment[p]
    /\ Still(Records) =>
          /\ source[Records] # None
          /\ Len(moment[Records]) <= Len(source[Records].bytes)
          /\ \A i \in 1..Len(moment[Records]) : source[Records].bytes[i] = moment[Records][i]

\* A file that is still like that is copied as it was.
CopiesMoment ==
    /\ doing \in {"open", "read", "check"} /\ (path = Records \/ ~directory) => before[path] # None
    /\ doing = "open" /\ path = Records /\ Still(Records) => before[Records].size = Len(moment[Records])
    /\ doing = "read" /\ Still(path) =>
          /\ handle.inode = source[path].inode
          /\ Len(copied) + remaining = Len(moment[path])
          /\ \A i \in 1..Len(copied) : copied[i] = moment[path][i]

CopyMade(p) ==
    IF directory
    THEN IF p = Companion THEN doing = "verify" \/ (path = Records /\ doing \in {"stat", "open", "read", "check"})
                          ELSE doing \in {"check", "verify"}
    ELSE (doing = "check" /\ path = p) \/ (p = Records /\ path = Companion)

MadeOfMoment == \A p \in Path : CopyMade(p) /\ Still(p) => snapshot[p] = CopyOf(p, moment[p])

\* And once that has been seen, the copy stays as it is.
Vouched ==
    /\ directory =>
          /\ doing \notin {"stamp", "failed"} /\ (Same(Companion) \/ moment[Companion] = None) => together
          /\ "directory" \notin warned =>
                /\ doing = "done" \/ (doing = "verify" /\ path = Records) =>
                      together /\ (moment[Companion] # None => snapshot[Companion] = CopyOf(Companion, moment[Companion]))
                /\ doing = "done" /\ moment[Records] # None => snapshot[Records] = CopyOf(Records, moment[Records])
    /\ ~directory =>
          /\ path = Companion => moment[Records] # None
          /\ path = Companion /\ Records \notin warned => snapshot[Records] = CopyOf(Records, moment[Records])
          /\ doing = "done" => path = Companion
          /\ doing = "done" /\ Companion \notin warned /\ before[Companion] # None =>
                snapshot[Companion] = CopyOf(Companion, moment[Companion])

CInv == CopyTyped /\ Recorded /\ CopiesMoment /\ MadeOfMoment /\ Vouched

LEMMA CopyPaths == Records \in Path /\ Companion \in Path /\ Records # Companion
BY DEF Path, Records, Companion

\* A write gives a file a time that no file had, and changes nothing that was taken.
LEMMA WriteKeepsTypes ==
    ASSUME CopyTyped, NEW p \in Path, NEW f \in FileType \cup {None}, Written(p, f),
           f # None => f.time = clock + 1, handle' \in [inode : Nat, bytes : Seq(ByteType)]
    PROVE  CopyTyped'
<1>1. clock' = clock + 1 /\ clock' \in Nat BY DEF CopyTyped, Written
<1>2. source' \in [Path -> FileType \cup {None}] BY DEF CopyTyped, Written
<1>3. \A q \in Path : source'[q] # None => source'[q].time <= clock'
  <2> SUFFICES ASSUME NEW q \in Path, source'[q] # None PROVE source'[q].time <= clock' OBVIOUS
  <2>1. CASE q = p
    <3>1. source'[q] = f BY <2>1 DEF CopyTyped, Written
    <3>2. f.time = clock' BY <3>1, <1>1
    <3> QED BY <3>1, <3>2, <1>1
  <2>2. CASE q # p
    <3>1. source'[q] = source[q] BY <2>2 DEF CopyTyped, Written
    <3>2. source[q].time <= clock BY <3>1 DEF CopyTyped
    <3>3. source[q].time \in Nat BY <3>1 DEF CopyTyped, FileType
    <3>4. clock \in Nat BY DEF CopyTyped
    <3> HIDE DEF CopyTyped, Written
    <3> QED BY <3>1, <3>2, <3>3, <3>4, <1>1
  <2> QED BY <2>1, <2>2
<1> QED BY <1>1, <1>2, <1>3 DEF CopyTyped, Written

Starts(s, t) == Len(s) <= Len(t) /\ \A i \in 1..Len(s) : t[i] = s[i]

LEMMA TakenTyped ==
    ASSUME CopyTyped, NEW p \in Path
    PROVE  Taken0(p) \in StampType \cup {None}
BY DEF CopyTyped, Taken0

\* A write ends that a file is like what was taken of it, but for records that grow.
LEMMA WriteKeepsFiles ==
    ASSUME CopyTyped, Recorded, NEW p \in Path, NEW f \in FileType \cup {None}, Written(p, f),
           f # None => f.time = clock + 1,
           \/ grown' = grown \ {p}
           \/ grown' = grown /\ source[p] # None /\ f # None /\ f.inode = source[p].inode
              /\ Starts(source[p].bytes, f.bytes),
           NEW q \in Path
    PROVE  /\ Same(q)' => Same(q) /\ source'[q] = source[q]
           /\ Still(q)' => /\ Still(q) /\ source[q] # None /\ source'[q] # None
                           /\ source'[q].inode = source[q].inode
                           /\ Starts(source[q].bytes, source'[q].bytes)
<1>1. Taken0(q)' = Taken0(q) BY DEF Taken0, Written
<1>2. directory' = directory /\ moment' = moment BY DEF Written
<1>3. Same(q) => source[q] # None BY DEF Same
<1>4. Still(q) => source[q] # None BY <1>3 DEF Still, Recorded
<1>5. CASE q # p
  <2>1. source'[q] = source[q] BY <1>5 DEF CopyTyped, Written
  <2>2. Same(q)' <=> Same(q) BY <2>1, <1>1 DEF Same
  <2>3. q \in grown' => q \in grown BY <1>5
  <2>4. Still(q)' => Still(q) BY <2>2, <2>3, <1>2 DEF Still
  <2>5. source[q] # None => Len(source[q].bytes) \in Nat BY DEF CopyTyped, FileType
  <2>6. source[q] # None => Starts(source[q].bytes, source[q].bytes) BY <2>5 DEF Starts
  <2> QED BY <2>1, <2>2, <2>4, <2>6, <1>4
<1>6. CASE q = p
  <2>1. source'[q] = f BY <1>6 DEF CopyTyped, Written
  <2>2. ~Same(q)'
    <3> SUFFICES ASSUME Same(q)' PROVE FALSE OBVIOUS
    <3>1. f # None /\ Taken0(q) # None /\ f.time = Taken0(q).time BY <2>1, <1>1 DEF Same
    <3>2. Taken0(q).time <= clock BY <3>1 DEF Recorded
    <3>3. Taken0(q).time \in Nat BY <3>1, TakenTyped DEF StampType
    <3>4. clock \in Nat BY DEF CopyTyped
    <3>5. f.time = clock + 1 BY <3>1
    <3> HIDE DEF Written
    <3> QED BY <3>1, <3>2, <3>3, <3>4, <3>5
  <2>3. ASSUME Still(q)' PROVE ~directory /\ q = Records /\ q \in grown' /\ moment[q] # None
    BY <2>2, <2>3, <1>2 DEF Still
  <2>4. ASSUME Still(q)' PROVE /\ grown' = grown /\ source[q] # None /\ f # None /\ f.inode = source[q].inode
                               /\ Starts(source[q].bytes, f.bytes)
    BY <2>3, <2>4, <1>6
  <2>5. ASSUME Still(q)' PROVE Still(q) BY <2>3, <2>4, <2>5 DEF Still
  <2> QED BY <2>1, <2>2, <2>4, <2>5
<1> QED BY <1>5, <1>6

\* So a write keeps what a copy under way relies on.
LEMMA WriteKeeps ==
    ASSUME CInv, NEW p \in Path, NEW f \in FileType \cup {None}, Written(p, f), f # None => f.time = clock + 1,
           handle' \in [inode : Nat, bytes : Seq(ByteType)], handle'.inode = handle.inode,
           \/ grown' = grown \ {p}
           \/ grown' = grown /\ source[p] # None /\ f # None /\ f.inode = source[p].inode
              /\ Starts(source[p].bytes, f.bytes)
    PROVE  CInv'
<1>0. CopyTyped /\ Recorded /\ CopiesMoment /\ MadeOfMoment /\ Vouched BY DEF CInv
<1>1. CopyTyped' BY <1>0, WriteKeepsTypes
<1>2. \A q \in Path : /\ Same(q)' => Same(q) /\ source'[q] = source[q]
                      /\ Still(q)' => /\ Still(q) /\ source[q] # None /\ source'[q] # None
                                      /\ source'[q].inode = source[q].inode
                                      /\ Starts(source[q].bytes, source'[q].bytes)
  BY <1>0, WriteKeepsFiles
<1>3. /\ directory' = directory /\ doing' = doing /\ path' = path /\ moment' = moment /\ together' = together
      /\ before' = before /\ remaining' = remaining /\ copied' = copied /\ snapshot' = snapshot /\ warned' = warned
      /\ stamp' = stamp
  BY DEF Written
<1>4. \A q \in Path : Taken0(q)' = Taken0(q) BY <1>3 DEF Taken0
<1>5. clock \in Nat /\ clock' = clock + 1 BY <1>0 DEF CopyTyped, Written
<1>6. doing \notin {"done", "failed"} BY DEF Written
<1>7. \A q \in Path : CopyMade(q)' <=> CopyMade(q) BY <1>3 DEF CopyMade
<1> HIDE DEF Written
<1>10. Recorded'
  <2>1. ASSUME NEW q \in Path
        PROVE  (moment[q] = None <=> Taken0(q) = None)' /\ (Taken0(q) # None => Taken0(q).size = Len(moment[q]))'
    BY <1>0, <1>3, <1>4 DEF Recorded
  <2>2. ASSUME NEW q \in Path, Taken0(q) # None PROVE Taken0(q).time <= clock'
    <3>1. Taken0(q).time <= clock BY <1>0, <2>2 DEF Recorded
    <3>2. Taken0(q).time \in Nat BY <1>0, <2>2, TakenTyped DEF StampType
    <3> QED BY <3>1, <3>2, <1>5
  <2>3. ASSUME NEW q \in Path, Same(q)' PROVE source'[q].bytes = moment'[q]
    BY <2>3, <1>0, <1>2, <1>3 DEF Recorded
  <2>4. ASSUME Still(Records)'
        PROVE  /\ source'[Records] # None
               /\ Len(moment[Records]) <= Len(source'[Records].bytes)
               /\ \A i \in 1..Len(moment[Records]) : source'[Records].bytes[i] = moment[Records][i]
    <3> DEFINE new == source'[Records].bytes  old == source[Records].bytes  was == moment[Records]
    <3>1. Still(Records) /\ source[Records] # None /\ source'[Records] # None /\ Starts(old, new)
      BY <2>4, <1>2, CopyPaths
    <3>2. Len(was) <= Len(old) /\ \A i \in 1..Len(was) : old[i] = was[i] BY <3>1, <1>0 DEF Recorded
    <3>3. Len(old) \in Nat BY <3>1, <1>0, CopyPaths DEF CopyTyped, FileType
    <3>4. Len(new) \in Nat BY <3>1, <1>1, CopyPaths DEF CopyTyped, FileType
    <3>5. was # None BY <3>1, <1>0, CopyPaths DEF Still, Same, Recorded
    <3>6. Len(was) \in Nat BY <3>5, <1>0, CopyPaths DEF CopyTyped
    <3>7. source'[Records] # None BY <3>1
    <3> HIDE DEF new, old, was
    <3>8. Len(was) <= Len(new) BY <3>1, <3>2, <3>3, <3>4, <3>6 DEF Starts
    <3>9. \A i \in 1..Len(was) : new[i] = was[i] BY <3>1, <3>2, <3>3, <3>4, <3>6 DEF Starts
    <3> QED BY <3>7, <3>8, <3>9 DEF new, was
  <2>5. \A q \in Path : Taken0(q)' = Taken0(q) /\ moment'[q] = moment[q] BY <1>3, <1>4
  <2> QED BY <2>1, <2>2, <2>3, <2>4, <2>5, CopyPaths DEF Recorded
<1>11. CopiesMoment'
  <2>1. path \in Path BY <1>0 DEF CopyTyped
  <2>2. Still(path)' => Still(path) /\ source'[path].inode = source[path].inode BY <1>2, <1>3, <2>1
  <2>3. Still(Records)' => Still(Records) BY <1>2, CopyPaths
  <2>4. Still(path') <=> Still(path) BY <1>3
  <2> QED BY <1>0, <1>3, <2>2, <2>3 DEF CopiesMoment
<1>12. MadeOfMoment' BY <1>0, <1>2, <1>3, <1>7 DEF MadeOfMoment, CopyOf
<1>13. Vouched'
  <2>1. Same(Companion)' => Same(Companion) BY <1>2, CopyPaths
  <2> QED BY <1>0, <1>3, <1>6, <2>1 DEF Vouched, CopyOf
<1> QED BY <1>1, <1>10, <1>11, <1>12, <1>13 DEF CInv

LEMMA AppendKeeps ==
    ASSUME CInv, NEW p \in Path, NEW newline \in BOOLEAN, AppendTo(p, newline)
    PROVE  CInv'
<1> DEFINE old == source[p].bytes
           b == Byte(clock + 1, newline)
           f == [source[p] EXCEPT !.time = clock + 1, !.bytes = Append(source[p].bytes, b)]
<1>1. clock \in Nat /\ source[p] # None /\ source[p] \in FileType BY DEF CInv, CopyTyped, AppendTo
<1>2. b \in ByteType BY <1>1 DEF Byte, ByteType
<1>3. old \in Seq(ByteType) BY <1>1 DEF FileType
<1> HIDE DEF b, old
<1>4. Append(old, b) \in Seq(ByteType) /\ Len(Append(old, b)) = Len(old) + 1 BY <1>2, <1>3
<1>5. \A i \in 1..Len(old) : Append(old, b)[i] = old[i] BY <1>2, <1>3
<1>6. Len(old) \in Nat BY <1>3
<1>7. Starts(old, Append(old, b)) BY <1>4, <1>5, <1>6 DEF Starts
<1>8. f = [source[p] EXCEPT !.time = clock + 1, !.bytes = Append(old, b)] BY DEF f, old
<1>9. f \in FileType /\ f.time = clock + 1 /\ f.inode = source[p].inode /\ f.bytes = Append(old, b)
  <2> DEFINE S == Seq(ByteType)
             was == source[p]
             new == Append(old, b)
             t == clock + 1
  <2>1. was \in [inode : Nat, time : Nat, bytes : S] /\ new \in S /\ t \in Nat BY <1>1, <1>4 DEF FileType
  <2>2. f = [was EXCEPT !.time = t, !.bytes = new] BY <1>8
  <2> HIDE DEF S, was, new, t, f
  <2>3. f \in [inode : Nat, time : Nat, bytes : S] BY <2>1, <2>2
  <2>4. f.time = t /\ f.inode = was.inode /\ f.bytes = new BY <2>1, <2>2
  <2> QED BY <2>3, <2>4 DEF S, was, new, t, FileType
<1>10. Written(p, f)
  <2>1. f = [source[p] EXCEPT !.time = clock + 1, !.bytes = Append(@, Byte(clock + 1, newline))] BY DEF f, b
  <2> QED BY <2>1 DEF AppendTo
<1>11. f # None BY <1>9, CopyConstants
<1>12. grown' = grown /\ handle' = handle BY DEF AppendTo
<1>13. handle' \in [inode : Nat, bytes : Seq(ByteType)] BY <1>12 DEF CInv, CopyTyped
<1>14. Starts(source[p].bytes, f.bytes) BY <1>7, <1>9 DEF old
<1> HIDE DEF f
<1> QED BY WriteKeeps, <1>1, <1>9, <1>10, <1>11, <1>12, <1>13, <1>14

LEMMA NewBytesTyped ==
    ASSUME CopyTyped, NEW n \in 0..3
    PROVE  NewBytes(n) \in Seq(ByteType)
<1>1. clock + 1 \in Nat /\ n \in Nat BY DEF CopyTyped
<1>2. \A i \in 1..n : Byte(clock + 1, i = n) \in ByteType BY <1>1 DEF Byte, ByteType
<1>3. NewBytes(n) \in [1..n -> ByteType] BY <1>2 DEF NewBytes
<1> QED BY <1>1, <1>3, SeqDef

LEMMA OverwriteKeeps ==
    ASSUME CInv, NEW p \in Path, NEW n \in 0..3, Overwrite(p, n)
    PROVE  CInv'
<1> DEFINE f == [source[p] EXCEPT !.time = clock + 1, !.bytes = NewBytes(n)]
<1>1. clock \in Nat /\ source[p] # None /\ source[p] \in FileType BY DEF CInv, CopyTyped, Overwrite
<1>2. NewBytes(n) \in Seq(ByteType) BY NewBytesTyped DEF CInv
<1>4. f \in FileType /\ f.time = clock + 1
  <2> DEFINE S == Seq(ByteType)
             was == source[p]
             new == NewBytes(n)
             t == clock + 1
  <2>1. was \in [inode : Nat, time : Nat, bytes : S] /\ new \in S /\ t \in Nat BY <1>1, <1>2 DEF FileType
  <2>2. f = [was EXCEPT !.time = t, !.bytes = new] BY DEF f
  <2> HIDE DEF S, was, new, t, f
  <2>3. f \in [inode : Nat, time : Nat, bytes : S] BY <2>1, <2>2
  <2>4. f.time = t /\ f.inode = was.inode /\ f.bytes = new BY <2>1, <2>2
  <2> QED BY <2>3, <2>4 DEF S, was, new, t, FileType
<1>5. Written(p, f) BY DEF Overwrite
<1>6. grown' = grown \ {p} /\ handle' = handle BY DEF Overwrite
<1>7. handle' \in [inode : Nat, bytes : Seq(ByteType)] BY <1>6 DEF CInv, CopyTyped
<1> HIDE DEF f
<1> QED BY WriteKeeps, <1>4, <1>5, <1>6, <1>7

LEMMA ReplaceKeeps ==
    ASSUME CInv, NEW p \in Path, NEW n \in 0..3, Replace(p, n)
    PROVE  CInv'
<1> DEFINE f == IF n = 0 THEN None ELSE [inode |-> clock + 1, time |-> clock + 1, bytes |-> NewBytes(n)]
<1>1. clock \in Nat BY DEF CInv, CopyTyped
<1>2. NewBytes(n) \in Seq(ByteType) BY NewBytesTyped DEF CInv
<1>3. f \in FileType \cup {None}
  <2>1. [inode |-> clock + 1, time |-> clock + 1, bytes |-> NewBytes(n)] \in FileType BY <1>1, <1>2 DEF FileType
  <2> QED BY <2>1
<1>4. f # None => f.time = clock + 1 OBVIOUS
<1>5. Written(p, f) BY DEF Replace
<1>6. grown' = grown \ {p} BY DEF Replace
<1>7. handle' \in [inode : Nat, bytes : Seq(ByteType)] /\ handle'.inode = handle.inode
  <2>1. handle \in [inode : Nat, bytes : Seq(ByteType)] BY DEF CInv, CopyTyped
  <2>2. CASE handle' = handle BY <2>1, <2>2
  <2>3. CASE source[p] # None /\ handle' = [handle EXCEPT !.bytes = source[p].bytes]
    <3>1. source[p].bytes \in Seq(ByteType) BY <2>3 DEF CInv, CopyTyped, FileType
    <3> QED BY <2>1, <2>3, <3>1
  <2> QED BY <2>2, <2>3 DEF Replace
<1> HIDE DEF f
<1> QED BY WriteKeeps, <1>3, <1>4, <1>5, <1>6, <1>7

\* What is taken of a file, and what it has.
LEMMA TakenOfFile ==
    ASSUME CopyTyped, NEW p \in Path
    PROVE  /\ StatOf(p) \in StampType \cup {None} /\ BytesOf(p) \in Seq(ByteType) \cup {None}
           /\ StatOf(p) = None <=> source[p] = None
           /\ BytesOf(p) = None <=> source[p] = None
           /\ source[p] # None => /\ StatOf(p).size = Len(source[p].bytes) /\ StatOf(p).time = source[p].time
                                  /\ BytesOf(p) = source[p].bytes
<1>1. CASE source[p] = None BY <1>1 DEF StatOf, BytesOf
<1>2. CASE source[p] # None
  <2>1. source[p].time \in Nat /\ source[p].bytes \in Seq(ByteType) BY <1>2 DEF CopyTyped, FileType
  <2>2. Len(source[p].bytes) \in Nat BY <2>1
  <2>3. StatOf(p) = [size |-> Len(source[p].bytes), time |-> source[p].time] BY <1>2 DEF StatOf
  <2>4. StatOf(p) \in StampType BY <2>1, <2>2, <2>3 DEF StampType
  <2>5. BytesOf(p) = source[p].bytes BY <1>2 DEF BytesOf
  <2>6. StatOf(p) # None BY <2>4, CopyConstants
  <2>7. source[p].bytes # None BY <2>1, CopyConstants
  <2> QED BY <1>2, <2>1, <2>3, <2>4, <2>5, <2>6, <2>7
<1> QED BY <1>1, <1>2

LEMMA RememberKeeps ==
    ASSUME CopyTyped, Recorded, NEW p \in Path, UNCHANGED <<directory, source, clock>>, Remember(p),
           \A q \in Path : Taken0(q)' = IF q = p THEN StatOf(p) ELSE Taken0(q)
    PROVE  Recorded'
<1>1. \A q \in Path : moment'[q] = IF q = p THEN BytesOf(p) ELSE moment[q] BY DEF CopyTyped, Remember
<1>2. grown' = grown \cup {p} BY DEF Remember
<1>3. /\ StatOf(p) = None <=> source[p] = None
      /\ BytesOf(p) = None <=> source[p] = None
      /\ source[p] # None => /\ StatOf(p).size = Len(source[p].bytes) /\ StatOf(p).time = source[p].time
                             /\ BytesOf(p) = source[p].bytes
  BY TakenOfFile
<1>4. source[p] # None => source[p].time <= clock BY DEF CopyTyped
<1>5. \A q \in Path : q # p => (Same(q)' <=> Same(q)) BY DEF Same
<1>6. \A q \in Path : q # p => (Still(q)' <=> Still(q)) BY <1>1, <1>2, <1>5 DEF Still
<1> HIDE DEF StatOf, BytesOf
<1>7. ASSUME NEW q \in Path
      PROVE  /\ moment'[q] = None <=> Taken0(q)' = None
             /\ Taken0(q)' # None => Taken0(q)'.time <= clock' /\ Taken0(q)'.size = Len(moment'[q])
             /\ Same(q)' => source'[q].bytes = moment'[q]
  <2>1. CASE q = p
    <3>1. Taken0(q)' = StatOf(p) /\ moment'[q] = BytesOf(p) /\ source'[q] = source[p] /\ clock' = clock
      BY <2>1, <1>1
    <3>2. Same(q)' => source[p] # None BY <2>1 DEF Same
    <3> QED BY <3>1, <3>2, <1>3, <1>4
  <2>2. CASE q # p
    <3>1. Taken0(q)' = Taken0(q) /\ moment'[q] = moment[q] /\ source' = source /\ clock' = clock BY <2>2, <1>1
    <3> QED BY <3>1, <2>2, <1>5 DEF Recorded
  <2> QED BY <2>1, <2>2
<1>8. ASSUME Still(Records)'
      PROVE  /\ source'[Records] # None
             /\ Len(moment'[Records]) <= Len(source'[Records].bytes)
             /\ \A i \in 1..Len(moment'[Records]) : source'[Records].bytes[i] = moment'[Records][i]
  <2>1. CASE p = Records
    <3>1. source[p] # None BY <2>1, <1>8, <1>1, <1>3 DEF Still, Same
    <3>2. moment'[p] = source[p].bytes BY <3>1, <1>1, <1>3
    <3>3. Len(source[p].bytes) \in Nat BY <3>1 DEF CopyTyped, FileType
    <3> QED BY <2>1, <3>1, <3>2, <3>3
  <2>2. CASE p # Records
    <3>1. Still(Records) /\ moment'[Records] = moment[Records] /\ source' = source
      BY <2>2, <1>8, <1>1, <1>6, CopyPaths
    <3> QED BY <3>1 DEF Recorded
  <2> QED BY <2>1, <2>2
<1> QED BY <1>7, <1>8 DEF Recorded

LEMMA CopyKeepsFiles ==
    ASSUME UNCHANGED <<directory, source, clock, history>>, NEW q
    PROVE  (Same(q)' <=> Same(q)) /\ (Still(q)' <=> Still(q)) /\ (Recorded => Recorded')
BY DEF history, Same, Still, Taken0, Recorded

LEMMA StampFileKeeps ==
    ASSUME CInv, StampFile
    PROVE  CInv'
<1>0. CopyTyped /\ Recorded BY DEF CInv
<1>1. /\ directory' = directory /\ source' = source /\ clock' = clock /\ before' = before /\ handle' = handle
      /\ remaining' = remaining /\ copied' = copied /\ snapshot' = snapshot /\ warned' = warned
  BY DEF StampFile, reading
<1>2. directory /\ doing = "stamp" /\ path \in Path BY <1>0 DEF StampFile, CopyTyped
<1>3. stamp' = [stamp EXCEPT ![path] = StatOf(path)] /\ moment' = [moment EXCEPT ![path] = BytesOf(path)]
  BY DEF StampFile, Remember
<1>4. \/ path = Companion /\ path' = Records /\ doing' \in {"stamp", "failed"}
      \/ path = Records /\ path' = Companion /\ doing' \in {"open", "failed"}
  BY <1>2, CopyPaths DEF StampFile, Path
<1>5. together' = (path = Records /\ moment[Companion] \in {None, BytesOf(Companion)}) BY DEF StampFile
<1>6. StatOf(path) \in StampType \cup {None} /\ BytesOf(path) \in Seq(ByteType) \cup {None}
  BY <1>0, <1>2, TakenOfFile
<1>7. \A q \in Path : Taken0(q)' = IF q = path THEN StatOf(path) ELSE Taken0(q)
  <2> HIDE DEF StatOf
  <2> QED BY <1>0, <1>1, <1>2, <1>3 DEF Taken0, CopyTyped
<1>8. Recorded'
  <2>1. Remember(path) BY DEF StampFile
  <2>2. path \in Path BY <1>2
  <2>3. UNCHANGED <<directory, source, clock>> BY <1>1
  <2> HIDE DEF StampFile, Remember
  <2> QED BY <1>0, <1>7, <2>1, <2>2, <2>3, RememberKeeps
<1>9. CopyTyped'
  <2> HIDE DEF StatOf, BytesOf
  <2>1. stamp' \in [Path -> StampType \cup {None}] BY <1>0, <1>2, <1>3, <1>6 DEF CopyTyped
  <2>2. moment' \in [Path -> Seq(ByteType) \cup {None}] BY <1>0, <1>2, <1>3, <1>6 DEF CopyTyped
  <2>3. together' \in BOOLEAN BY <1>5
  <2>4. path' \in Path BY <1>4, CopyPaths
  <2> QED BY <1>0, <1>1, <1>2, <1>4, <2>1, <2>2, <2>3, <2>4 DEF CopyTyped
<1>10. CopiesMoment' BY <1>1, <1>2, <1>4, CopyPaths DEF CopiesMoment
<1>11. MadeOfMoment' BY <1>1, <1>2, <1>4, CopyPaths DEF MadeOfMoment, CopyMade
<1>12. Vouched'
  <2>1. ASSUME path = Records, Same(Companion)' \/ moment'[Companion] = None PROVE together'
    <3>1. moment'[Companion] = moment[Companion] BY <2>1, <1>0, <1>3, CopyPaths DEF CopyTyped
    <3>2. Taken0(Companion)' = Taken0(Companion) BY <2>1, <1>7, CopyPaths
    <3>3. CASE Same(Companion)'
      <4>1. Same(Companion) BY <3>3, <3>2, <1>1 DEF Same
      <4>2. source[Companion] # None /\ source[Companion].bytes = moment[Companion]
        BY <4>1, <1>0, CopyPaths DEF Same, Recorded
      <4>3. BytesOf(Companion) = moment[Companion] BY <4>2 DEF BytesOf
      <4> QED BY <4>3, <2>1, <1>5
    <3>4. CASE moment'[Companion] = None BY <3>4, <3>1, <2>1, <1>5
    <3> QED BY <2>1, <3>3, <3>4
  <2>2. doing' \notin {"stamp", "failed"} => path = Records BY <1>4
  <2>3. directory' /\ doing' \notin {"done", "verify"} BY <1>1, <1>2, <1>4
  <2> QED BY <2>1, <2>2, <2>3 DEF Vouched
<1> QED BY <1>8, <1>9, <1>10, <1>11, <1>12 DEF CInv

LEMMA AbsentKeeps ==
    ASSUME CInv, Absent
    PROVE  CInv'
<1>0. CopyTyped /\ Recorded /\ CopiesMoment /\ MadeOfMoment /\ Vouched BY DEF CInv
<1>1. UNCHANGED <<directory, source, clock, history>> BY DEF Absent
<1>2. /\ stamp' = stamp /\ before' = before /\ moment' = moment /\ together' = together /\ grown' = grown
      /\ handle' = handle /\ remaining' = remaining /\ copied' = copied /\ snapshot' = snapshot
      /\ warned' = warned /\ source' = source /\ directory' = directory /\ clock' = clock
  BY DEF Absent, history, reading
<1>3. \A q \in Path : (Same(q)' <=> Same(q)) /\ (Still(q)' <=> Still(q)) BY <1>1, CopyKeepsFiles
<1>4. Recorded' BY <1>0, <1>1, CopyKeepsFiles
<1>5. directory /\ source[path] = None BY DEF Absent
<1>6. \/ doing = "open" /\ path = Companion /\ path' = Records /\ doing' = "stat"
      \/ doing = "stat" /\ path = Records /\ path' = Companion /\ doing' = "verify"
  BY <1>0, <1>5 DEF Absent, CopyTyped
<1>7. \A q \in Path : Still(q) => source[q] # None BY <1>5, <1>2 DEF Still, Same
<1>8. CopyTyped' BY <1>0, <1>2, <1>5, <1>6, CopyPaths DEF CopyTyped
<1>9. CopiesMoment' BY <1>2, <1>5, <1>6, CopyPaths DEF CopiesMoment
<1>10. MadeOfMoment'
  <2> SUFFICES ASSUME NEW q \in Path, CopyMade(q)', Still(q) PROVE snapshot[q] = CopyOf(q, moment[q])
    BY <1>2, <1>3 DEF MadeOfMoment, CopyOf
  <2>1. CopyMade(q) BY <1>2, <1>5, <1>6, <1>7, CopyPaths DEF CopyMade, Path
  <2> QED BY <2>1, <1>0 DEF MadeOfMoment
<1>11. Vouched' BY <1>0, <1>2, <1>3, <1>5, <1>6, CopyPaths DEF Vouched
<1> QED BY <1>4, <1>8, <1>9, <1>10, <1>11 DEF CInv

LEMMA StatKeeps ==
    ASSUME CInv, Stat
    PROVE  CInv'
<1>0. CopyTyped /\ Recorded /\ CopiesMoment /\ MadeOfMoment /\ Vouched BY DEF CInv
<1>1. /\ directory' = directory /\ source' = source /\ clock' = clock /\ stamp' = stamp /\ handle' = handle
      /\ remaining' = remaining /\ copied' = copied /\ snapshot' = snapshot /\ warned' = warned
      /\ path' = path /\ together' = together
  BY DEF Stat, reading
<1>2. doing = "stat" /\ path \in Path /\ (directory => path = Records) BY <1>0 DEF Stat, CopyTyped
<1>3. before' = [before EXCEPT ![path] = StatOf(path)] BY DEF Stat
<1>4. /\ source[path] # None => doing' = "open"
      /\ source[path] = None /\ path = Records => doing' = "failed"
      /\ source[path] = None /\ path = Companion => doing' = "done"
  BY CopyPaths DEF Stat
<1>5. /\ StatOf(path) \in StampType \cup {None} /\ BytesOf(path) \in Seq(ByteType) \cup {None}
      /\ StatOf(path) = None <=> source[path] = None
      /\ source[path] # None => StatOf(path).size = Len(source[path].bytes)
  BY <1>0, <1>2, TakenOfFile
<1>6. directory => moment' = moment /\ grown' = grown BY DEF Stat
<1>7. ~directory => Remember(path) BY DEF Stat
<1>8. before'[path] = StatOf(path) /\ \A q \in Path : q # path => before'[q] = before[q]
  BY <1>0, <1>2, <1>3 DEF CopyTyped
<1> HIDE DEF StatOf, BytesOf
<1>9. Recorded'
  <2>1. CASE directory
    <3>1. \A q : Taken0(q)' = Taken0(q) BY <2>1, <1>1 DEF Taken0
    <3>2. \A q : (Same(q)' <=> Same(q)) /\ (Still(q)' <=> Still(q)) BY <2>1, <3>1, <1>1, <1>6 DEF Same, Still
    <3> QED BY <2>1, <3>1, <3>2, <1>0, <1>1, <1>6 DEF Recorded
  <2>2. CASE ~directory
    <3>1. \A q \in Path : Taken0(q)' = IF q = path THEN StatOf(path) ELSE Taken0(q)
      BY <2>2, <1>1, <1>8 DEF Taken0
    <3>2. UNCHANGED <<directory, source, clock>> BY <1>1
    <3>3. path \in Path /\ Remember(path) BY <2>2, <1>2, <1>7
    <3> HIDE DEF Remember, Stat
    <3> QED BY <1>0, <3>1, <3>2, <3>3, RememberKeeps
  <2> QED BY <2>1, <2>2
<1>10. CopyTyped'
  <2>1. before' \in [Path -> StampType \cup {None}] BY <1>0, <1>2, <1>3, <1>5 DEF CopyTyped
  <2>2. moment' \in [Path -> Seq(ByteType) \cup {None}] BY <1>0, <1>2, <1>5, <1>6, <1>7 DEF CopyTyped, Remember
  <2>3. doing' \in {"open", "failed", "done"} BY <1>2, <1>4 DEF Path
  <2> QED BY <1>0, <1>1, <1>2, <2>1, <2>2, <2>3 DEF CopyTyped
<1>11. CopiesMoment'
  <2>1. doing' = "open" => source[path] # None BY <1>2, <1>4 DEF Path
  <2>2. doing' = "open" => before'[path] # None BY <2>1, <1>5, <1>8
  <2>3. ASSUME doing' = "open", path = Records, Still(Records)'
        PROVE  before'[Records].size = Len(moment'[Records])
    <3>1. CASE directory
      <4>1. Same(Records) BY <2>3, <3>1, <1>1, <1>6 DEF Still, Same, Taken0
      <4>2. source[Records].bytes = moment[Records] BY <4>1, <1>0, CopyPaths DEF Recorded
      <4> QED BY <2>1, <2>3, <3>1, <4>2, <1>5, <1>6, <1>8
    <3>2. CASE ~directory
      <4>1. Taken0(Records)' = before'[Records] BY <3>2, <1>1 DEF Taken0
      <4> QED BY <4>1, <1>9, <2>2, <2>3, CopyPaths DEF Recorded
    <3> QED BY <3>1, <3>2
  <2>4. doing' \in {"open", "failed", "done"} BY <1>2, <1>4 DEF Path
  <2> QED BY <1>1, <2>2, <2>3, <2>4 DEF CopiesMoment
<1>12. ASSUME path = Companion
       PROVE  (Still(Records)' <=> Still(Records)) /\ moment'[Records] = moment[Records] /\ ~directory
  <2>1. ~directory /\ Remember(path) BY <1>2, <1>7, <1>12, CopyPaths
  <2>2. moment'[Records] = moment[Records] /\ (Records \in grown' <=> Records \in grown)
    BY <2>1, <1>0, <1>12, CopyPaths DEF Remember, CopyTyped
  <2>3. before'[Records] = before[Records] BY <1>8, <1>12, CopyPaths
  <2> QED BY <2>1, <2>2, <2>3, <1>1 DEF Still, Same, Taken0
<1>13. MadeOfMoment'
  <2> SUFFICES ASSUME NEW q \in Path, CopyMade(q)', Still(q)' PROVE snapshot[q] = CopyOf(q, moment'[q])
    BY <1>1 DEF MadeOfMoment, CopyOf
  <2>1. doing' \in {"open", "failed", "done"} BY <1>2, <1>4 DEF Path
  <2>2. CASE path = Companion
    <3>1. q = Records BY <2>1, <2>2, <1>1, <1>12 DEF CopyMade
    <3>2. CopyMade(Records) BY <3>1, <2>2, <1>12 DEF CopyMade
    <3> QED BY <3>1, <3>2, <2>2, <1>0, <1>12, CopyPaths DEF MadeOfMoment
  <2>3. CASE path = Records
    <3>1. directory /\ q = Companion /\ doing' = "open" BY <2>1, <2>3, <1>1, CopyPaths DEF CopyMade
    <3>2. CopyMade(q) /\ Still(q) /\ moment' = moment
      BY <3>1, <2>3, <1>1, <1>2, <1>6 DEF CopyMade, Still, Same, Taken0
    <3> QED BY <3>2, <1>0 DEF MadeOfMoment
  <2> QED BY <2>2, <2>3, <1>2 DEF Path
<1>14. Vouched'
  <2>1. CASE directory
    <3>1. doing' \in {"open", "failed"} BY <2>1, <1>2, <1>4, CopyPaths
    <3>2. Same(Companion)' <=> Same(Companion) BY <2>1, <1>1 DEF Same, Taken0
    <3> QED BY <2>1, <3>1, <3>2, <1>0, <1>1, <1>2, <1>6 DEF Vouched
  <2>2. CASE ~directory
    <3>1. doing' = "done" => path = Companion /\ before'[Companion] = None
      BY <1>2, <1>4, <1>5, <1>8, CopyPaths DEF Path
    <3> QED BY <2>2, <3>1, <1>0, <1>1, <1>12 DEF Vouched, CopyOf
  <2> QED BY <2>1, <2>2
<1> QED BY <1>9, <1>10, <1>11, <1>13, <1>14 DEF CInv

LEMMA OpenKeeps ==
    ASSUME CInv, Open
    PROVE  CInv'
<1>0. CopyTyped /\ Recorded /\ CopiesMoment /\ MadeOfMoment /\ Vouched BY DEF CInv
<1>1. UNCHANGED <<directory, source, clock, history>> BY DEF Open
<1>2. /\ stamp' = stamp /\ before' = before /\ moment' = moment /\ together' = together /\ grown' = grown
      /\ copied' = <<>> /\ snapshot' = snapshot /\ source' = source /\ directory' = directory /\ clock' = clock
      /\ path' = path
  BY DEF Open, history
<1>3. doing = "open" /\ path \in Path BY <1>0 DEF Open, CopyTyped
<1>4. \A q \in Path : (Same(q)' <=> Same(q)) /\ (Still(q)' <=> Still(q)) BY <1>1, CopyKeepsFiles
<1>5. Recorded' BY <1>0, <1>1, CopyKeepsFiles
<1>6. CASE source[path] = None
  <2>1. handle' = handle /\ remaining' = remaining BY <1>6 DEF Open
  <2>2. \/ ~directory /\ path = Companion /\ doing' = "done" /\ warned' = warned \cup {path}
        \/ doing' = "failed" /\ warned' = warned
    BY <1>6 DEF Open, GiveUp
  <2>3. CopyTyped' BY <1>0, <1>2, <2>1, <2>2 DEF CopyTyped
  <2>4. CopiesMoment' BY <2>2 DEF CopiesMoment
  <2>5. MadeOfMoment' BY <1>0, <1>2, <1>3, <1>4, <2>2, CopyPaths DEF MadeOfMoment, CopyMade, CopyOf
  <2>6. Vouched' BY <1>0, <1>2, <1>3, <1>4, <2>2, CopyPaths DEF Vouched, CopyOf
  <2> QED BY <1>5, <2>3, <2>4, <2>5, <2>6 DEF CInv
<1>7. CASE source[path] # None
  <2>1. /\ doing' = "read" /\ handle' = [inode |-> source[path].inode, bytes |-> <<>>] /\ warned' = warned
        /\ remaining' = IF path = Records THEN before[path].size ELSE Len(source[path].bytes)
    BY <1>7 DEF Open
  <2>2. source[path].inode \in Nat /\ source[path].bytes \in Seq(ByteType)
    BY <1>0, <1>3, <1>7 DEF CopyTyped, FileType
  <2>3. remaining' \in Nat
    <3>1. path = Records => before[path] \in StampType BY <1>0, <1>3 DEF CopiesMoment, CopyTyped
    <3> QED BY <3>1, <2>1, <2>2 DEF StampType
  <2>4. handle' \in [inode : Nat, bytes : Seq(ByteType)] BY <2>1, <2>2
  <2>5. CopyTyped' BY <1>0, <1>2, <2>1, <2>3, <2>4 DEF CopyTyped
  <2>6. CopiesMoment'
    <3>1. ASSUME Still(path)' PROVE remaining' = Len(moment[path])
      <4>1. Still(path) BY <3>1, <1>2, <1>3, <1>4
      <4>2. CASE path = Records BY <4>1, <4>2, <2>1, <1>0, <1>3 DEF CopiesMoment
      <4>3. CASE path # Records
        <5>1. Same(path) BY <4>1, <4>3 DEF Still
        <5> QED BY <5>1, <4>3, <2>1, <1>0, <1>3 DEF Recorded
      <4> QED BY <4>2, <4>3
    <3>2. Len(copied') = 0 /\ remaining' \in Nat BY <1>2, <2>3
    <3>3. Still(path)' => Len(copied') + remaining' = Len(moment'[path']) BY <3>1, <3>2, <1>2
    <3>4. \A i \in 1..Len(copied') : copied'[i] = moment'[path'][i] BY <3>2
    <3>5. handle'.inode = source'[path'].inode BY <2>1, <1>2
    <3>6. path' = Records \/ ~directory' => before'[path'] # None BY <1>0, <1>2, <1>3 DEF CopiesMoment
    <3> QED BY <2>1, <3>3, <3>4, <3>5, <3>6 DEF CopiesMoment
  <2>7. MadeOfMoment' BY <1>0, <1>2, <1>3, <1>4, <2>1, CopyPaths DEF MadeOfMoment, CopyMade, CopyOf
  <2>8. Vouched' BY <1>0, <1>2, <1>3, <1>4, <2>1, CopyPaths DEF Vouched, CopyOf
  <2> QED BY <1>5, <2>5, <2>6, <2>7, <2>8 DEF CInv
<1> QED BY <1>6, <1>7

\* A file that is still as it was is read on from where the copy is.
LEMMA ReadChunkKeeps ==
    ASSUME CInv, NEW n \in 1..ChunkSize, ReadChunk(n)
    PROVE  CInv'
<1> DEFINE from == Len(copied)
           bytes == Opened
           upto == IF from + n < Len(bytes) THEN from + n ELSE Len(bytes)
           chunk == SubSeq(bytes, from + 1, upto)
<1>0. CopyTyped /\ Recorded /\ CopiesMoment /\ MadeOfMoment /\ Vouched BY DEF CInv
<1>1. UNCHANGED <<directory, source, clock, history>> BY DEF ReadChunk
<1>2. /\ stamp' = stamp /\ before' = before /\ moment' = moment /\ together' = together /\ grown' = grown
      /\ snapshot' = snapshot /\ source' = source /\ directory' = directory /\ clock' = clock
      /\ path' = path /\ handle' = handle
  BY DEF ReadChunk, history
<1>3. doing = "read" /\ path \in Path /\ remaining >= n /\ n \in Nat /\ n >= 1
  <2>1. ChunkSize \in Nat BY CopyConstants
  <2> QED BY <2>1, <1>0 DEF ReadChunk, CopyTyped
<1>4. \A q \in Path : (Same(q)' <=> Same(q)) /\ (Still(q)' <=> Still(q)) BY <1>1, CopyKeepsFiles
<1>5. Recorded' BY <1>0, <1>1, CopyKeepsFiles
<1>6. /\ copied' = copied \o chunk
      /\ \/ chunk # <<>> /\ remaining' = remaining - Len(chunk) /\ doing' = "read" /\ warned' = warned
         \/ chunk = <<>> /\ remaining' = 0 /\ path = Records /\ doing' = "read" /\ warned' = warned
         \/ chunk = <<>> /\ remaining' = 0 /\ path # Records /\ GiveUp
  BY <1>3 DEF ReadChunk
<1>7. GiveUp => \/ ~directory /\ path = Companion /\ doing' = "done" /\ warned' = warned \cup {path}
                \/ doing' = "failed" /\ warned' = warned
  BY DEF GiveUp
<1>8. bytes \in Seq(ByteType)
  <2>1. handle.bytes \in Seq(ByteType) BY <1>0 DEF CopyTyped
  <2>2. source[path] # None => source[path].bytes \in Seq(ByteType) BY <1>0, <1>3 DEF CopyTyped, FileType
  <2> QED BY <2>1, <2>2 DEF Opened
<1>9. copied \in Seq(ByteType) /\ remaining \in Nat BY <1>0 DEF CopyTyped
<1>10. from \in Nat /\ Len(bytes) \in Nat BY <1>8, <1>9
<1>11. ASSUME Still(path)
       PROVE  /\ bytes = source[path].bytes /\ source[path] # None
              /\ Len(moment[path]) <= Len(bytes) /\ Len(moment[path]) \in Nat
              /\ \A i \in 1..Len(moment[path]) : bytes[i] = moment[path][i]
              /\ from + remaining = Len(moment[path])
              /\ \A i \in 1..from : copied[i] = moment[path][i]
  <2>1. source[path] # None
    <3>1. CASE Same(path) BY <3>1 DEF Same
    <3>2. CASE path = Records BY <3>2, <1>0, <1>11 DEF Recorded
    <3> QED BY <3>1, <3>2, <1>11 DEF Still
  <2>2. handle.inode = source[path].inode BY <1>0, <1>3, <1>11 DEF CopiesMoment
  <2>3. bytes = source[path].bytes BY <2>1, <2>2 DEF Opened
  <2>4. moment[path] # None BY <1>0, <1>3, <1>11 DEF Still, Same, Recorded
  <2>5. Len(moment[path]) \in Nat BY <2>4, <1>0, <1>3 DEF CopyTyped
  <2>6. from + remaining = Len(moment[path]) /\ \A i \in 1..from : copied[i] = moment[path][i]
    BY <1>0, <1>3, <1>11 DEF CopiesMoment
  <2> HIDE DEF bytes, from
  <2>7. Len(moment[path]) <= Len(bytes) /\ \A i \in 1..Len(moment[path]) : bytes[i] = moment[path][i]
    <3>1. CASE Same(path)
      <4>1. bytes = moment[path] BY <3>1, <2>3, <1>0, <1>3 DEF Recorded
      <4> QED BY <4>1, <2>5
    <3>2. CASE path = Records BY <3>2, <2>3, <1>0, <1>11 DEF Recorded
    <3> QED BY <3>1, <3>2, <1>11 DEF Still
  <2> QED BY <2>1, <2>3, <2>5, <2>6, <2>7
<1> HIDE DEF bytes
<1>12. upto \in Nat /\ upto <= Len(bytes) BY <1>3, <1>10
<1> HIDE DEF from, upto
<1>13. chunk \in Seq(ByteType) /\ Len(chunk) = (IF from + 1 <= upto THEN upto - from ELSE 0)
       /\ \A i \in 1..Len(chunk) : chunk[i] = bytes[from + i]
  <2>1. from + 1 \in Int /\ upto \in Int BY <1>10, <1>12
  <2>2. \A i \in from + 1..upto : bytes[i] \in ByteType BY <1>8, <1>10, <1>12
  <2>3. /\ chunk \in Seq(ByteType)
        /\ Len(chunk) = (IF from + 1 <= upto THEN upto - (from + 1) + 1 ELSE 0)
        /\ \A i \in 1..upto - (from + 1) + 1 : chunk[i] = bytes[(from + 1) + i - 1]
    BY <2>1, <2>2, SubSeqProperties
  <2> HIDE DEF chunk
  <2>4. \A i \in Int : (from + 1) + i - 1 = from + i BY <1>10
  <2>5. upto - (from + 1) + 1 = upto - from BY <1>10, <1>12
  <2>6. \A i \in 1..Len(chunk) : i \in 1..upto - from /\ i \in Int BY <2>3, <2>5, <1>10, <1>12
  <2> QED BY <2>3, <2>4, <2>5, <2>6
<1> HIDE DEF chunk
<1>14. copied' \in Seq(ByteType) /\ Len(copied') = from + Len(chunk)
       /\ \A i \in 1..Len(copied') : copied'[i] = IF i <= from THEN copied[i] ELSE chunk[i - from]
  <2>1. copied' = copied \o chunk BY <1>6
  <2>2. copied \in Seq(ByteType) /\ chunk \in Seq(ByteType) BY <1>9, <1>13
  <2>3. /\ copied \o chunk \in Seq(ByteType)
        /\ Len(copied \o chunk) = Len(copied) + Len(chunk)
        /\ \A i \in 1..Len(copied) + Len(chunk) :
              (copied \o chunk)[i] = IF i <= Len(copied) THEN copied[i] ELSE chunk[i - Len(copied)]
    BY <2>2, ConcatProperties
  <2> QED BY <2>1, <2>3 DEF from
<1>15. Len(chunk) \in Nat /\ Len(chunk) <= n BY <1>10, <1>12, <1>13, <1>3 DEF upto
<1>16. remaining' \in Nat BY <1>3, <1>6, <1>9, <1>15
<1>17. CopyTyped' BY <1>0, <1>2, <1>6, <1>7, <1>14, <1>16, <1>3 DEF CopyTyped
<1>18. CopiesMoment'
  <2>1. ASSUME doing' = "read", Still(path)
        PROVE  /\ handle.inode = source[path].inode /\ Len(copied') + remaining' = Len(moment[path])
               /\ \A i \in 1..Len(copied') : copied'[i] = moment[path][i]
    <3> DEFINE m == moment[path]
    <3>1. /\ Len(m) <= Len(bytes) /\ Len(m) \in Nat /\ from + remaining = Len(m)
          /\ \A i \in 1..Len(m) : bytes[i] = m[i]
          /\ \A i \in 1..from : copied[i] = m[i]
      BY <1>11, <2>1
    <3> HIDE DEF m
    <3>2. from + n <= Len(m) BY <3>1, <1>3, <1>9, <1>10
    <3>3. upto = from + n
      <4>1. ~(from + n < Len(bytes)) => Len(bytes) = from + n BY <3>1, <3>2, <1>3, <1>10
      <4> QED BY <4>1, Zenon DEF upto
    <3>4. Len(chunk) = n BY <3>3, <1>13, <1>10, <1>3
    <3>5. remaining' = remaining - n
      <4>1. chunk # <<>> BY <3>4, <1>3
      <4> QED BY <4>1, <3>4, <1>6
    <3>6. Len(copied') + remaining' = Len(m)
      <4>1. Len(copied') = from + n /\ from + remaining = Len(m) BY <3>1, <3>4, <1>14
      <4> QED BY <4>1, <3>5, <1>3, <1>9, <1>10
    <3>7. ASSUME NEW i \in 1..Len(copied') PROVE copied'[i] = m[i]
      <4>1. i \in Nat /\ i >= 1 /\ i <= from + n BY <3>4, <1>14, <1>10, <1>3
      <4>2. CASE i <= from BY <4>1, <4>2, <3>1, <1>14, <1>10
      <4>3. CASE i > from
        <5>1. i - from \in 1..Len(chunk) BY <4>1, <4>3, <3>4, <1>10, <1>3
        <5>2. copied'[i] = chunk[i - from] BY <4>1, <4>3, <1>14, <1>10
        <5>3. chunk[i - from] = bytes[from + (i - from)] BY <5>1, <1>13
        <5>4. from + (i - from) = i BY <4>1, <1>10
        <5>5. i \in 1..Len(m) BY <4>1, <3>1, <3>2, <1>10, <1>3
        <5>6. bytes[i] = m[i] BY <5>5, <3>1
        <5> QED BY <5>2, <5>3, <5>4, <5>6
      <4> QED BY <4>1, <4>2, <4>3, <1>10
    <3>8. handle.inode = source[path].inode BY <1>0, <1>3, <2>1 DEF CopiesMoment
    <3> QED BY <3>6, <3>7, <3>8 DEF m
  <2>2. path = Records \/ ~directory => before[path] # None BY <1>0, <1>3 DEF CopiesMoment
  <2>3. doing' \in {"read", "done", "failed"} BY <1>6, <1>7
  <2>4. Still(path)' <=> Still(path) BY <1>1, <1>2, <1>3, <1>4
  <2> QED BY <1>2, <2>1, <2>2, <2>3, <2>4 DEF CopiesMoment
<1>19. \/ doing' = "read" /\ warned' = warned
       \/ ~directory /\ path = Companion /\ doing' = "done" /\ warned' = warned \cup {path}
       \/ path # Records /\ doing' = "failed" /\ warned' = warned
  BY <1>6, <1>7
<1>20. MadeOfMoment' BY <1>0, <1>2, <1>3, <1>4, <1>19, CopyPaths DEF MadeOfMoment, CopyMade, CopyOf
<1>21. Vouched' BY <1>0, <1>2, <1>3, <1>4, <1>19, CopyPaths DEF Vouched, CopyOf
<1> QED BY <1>5, <1>17, <1>18, <1>20, <1>21 DEF CInv

LEMMA EndReadKeeps ==
    ASSUME CInv, EndRead
    PROVE  CInv'
<1>0. CopyTyped /\ Recorded /\ CopiesMoment /\ MadeOfMoment /\ Vouched BY DEF CInv
<1>1. UNCHANGED <<directory, source, clock, history>> BY DEF EndRead
<1>2. /\ stamp' = stamp /\ before' = before /\ moment' = moment /\ together' = together /\ grown' = grown
      /\ source' = source /\ directory' = directory /\ clock' = clock /\ handle' = handle
      /\ remaining' = remaining /\ copied' = copied /\ warned' = warned
  BY DEF EndRead, history
<1>3. doing = "read" /\ remaining = 0 /\ path \in Path BY <1>0 DEF EndRead, CopyTyped
<1>4. \A q \in Path : (Same(q)' <=> Same(q)) /\ (Still(q)' <=> Still(q)) BY <1>1, CopyKeepsFiles
<1>5. Recorded' BY <1>0, <1>1, CopyKeepsFiles
<1>6. \/ directory /\ path = Companion /\ path' = Records /\ doing' = "stat"
      \/ ~(directory /\ path = Companion) /\ path' = path /\ doing' = "check"
  BY DEF EndRead
<1>7. /\ snapshot' = [q \in Path |-> snapshot'[q]]
      /\ snapshot'[path] = CopyOf(path, copied)
      /\ \A q \in Path : q # path => snapshot'[q] = snapshot[q]
  <2>1. snapshot' = [snapshot EXCEPT ![path] = CopyOf(path, copied)] BY DEF EndRead, CopyOf
  <2> HIDE DEF CopyOf
  <2> QED BY <2>1, <1>0, <1>3 DEF CopyTyped
<1> HIDE DEF CopyOf
<1>8. ASSUME Still(path) PROVE copied = moment[path]
  <2> DEFINE m == moment[path]
  <2>1. m # None BY <1>0, <1>3, <1>8 DEF Still, Same, Recorded
  <2>2. m \in Seq(ByteType) /\ copied \in Seq(ByteType) BY <2>1, <1>0, <1>3 DEF CopyTyped
  <2>3. Len(copied) + remaining = Len(m) /\ \A i \in 1..Len(copied) : copied[i] = m[i]
    BY <1>0, <1>3, <1>8 DEF CopiesMoment
  <2> HIDE DEF m
  <2>4. Len(copied) = Len(m)
    <3>1. Len(copied) \in Nat BY <2>2
    <3>2. remaining = 0 BY <1>3
    <3> QED BY <3>1, <3>2, <2>3
  <2>5. copied = m BY <2>2, <2>3, <2>4, SeqEqual
  <2> QED BY <2>5 DEF m
<1>9. CopyTyped'
  <2>1. path' \in Path /\ doing' \in {"stat", "check"} /\ (directory => path' = Records)
    BY <1>3, <1>6, CopyPaths DEF Path
  <2>2. snapshot' = [q \in Path |-> snapshot'[q]] BY <1>7
  <2> QED BY <1>0, <1>2, <2>1, <2>2 DEF CopyTyped
<1>10. CopiesMoment' BY <1>0, <1>2, <1>3, <1>6, CopyPaths DEF CopiesMoment
<1>11. MadeOfMoment'
  <2> SUFFICES ASSUME NEW q \in Path, CopyMade(q)', Still(q) PROVE snapshot'[q] = CopyOf(q, moment[q])
    BY <1>2, <1>4 DEF MadeOfMoment, CopyOf
  <2>1. CASE q = path BY <2>1, <1>7, <1>8
  <2>2. CASE q # path
    <3>1. CopyMade(q) BY <2>2, <1>2, <1>3, <1>6, CopyPaths DEF CopyMade, Path
    <3> QED BY <3>1, <2>2, <1>0, <1>7 DEF MadeOfMoment
  <2> QED BY <2>1, <2>2
<1>12. Vouched'
  <2>1. directory => doing' \in {"stat", "check"} BY <1>6
  <2>2. ~directory => doing' = "check" /\ path' = path BY <1>6
  <2>3. path = Companion => snapshot'[Records] = snapshot[Records] BY <1>7, CopyPaths
  <2>4. CopyOf(Records, moment[Records])' = CopyOf(Records, moment[Records]) BY <1>2 DEF CopyOf
  <2> QED BY <1>0, <1>2, <1>3, <1>4, <2>1, <2>2, <2>3, <2>4, CopyPaths DEF Vouched
<1> QED BY <1>5, <1>9, <1>10, <1>11, <1>12 DEF CInv

\* A file that is at the Stat after the copy as it was at the one before was not written in between.
LEMMA UnmovedFile ==
    ASSUME CopyTyped, NEW p \in Path, Taken0(p) # None, StatOf(p) = Taken0(p)
    PROVE  Same(p) /\ Still(p)
<1>1. source[p] # None /\ StatOf(p).time = source[p].time BY TakenOfFile
<1> QED BY <1>1 DEF Same, Still

LEMMA CheckKeeps ==
    ASSUME CInv, Check
    PROVE  CInv'
<1>0. CopyTyped /\ Recorded /\ CopiesMoment /\ MadeOfMoment /\ Vouched BY DEF CInv
<1>1. UNCHANGED <<directory, source, clock, history>> BY DEF Check
<1>2. /\ stamp' = stamp /\ before' = before /\ moment' = moment /\ together' = together /\ grown' = grown
      /\ source' = source /\ directory' = directory /\ clock' = clock /\ handle' = handle
      /\ remaining' = remaining /\ copied' = copied /\ snapshot' = snapshot
  BY DEF Check, history, reading
<1>3. doing = "check" /\ path \in Path /\ (directory => path = Records) BY <1>0 DEF Check, CopyTyped
<1>4. \A q \in Path : (Same(q)' <=> Same(q)) /\ (Still(q)' <=> Still(q)) BY <1>1, CopyKeepsFiles
<1>5. Recorded' BY <1>0, <1>1, CopyKeepsFiles
<1>6. /\ path' = Companion
      /\ doing' = IF directory THEN "verify" ELSE IF path = Records THEN "stat" ELSE "done"
      /\ warned' = IF StatOf(path) # before[path] THEN warned \cup {path} ELSE warned
  BY DEF Check
<1>7. ASSUME ~directory, path \notin warned' PROVE snapshot[path] = CopyOf(path, moment[path])
  <2>1. Taken0(path) = before[path] /\ before[path] # None BY <1>0, <1>3, <1>7 DEF Taken0, CopiesMoment
  <2>2. StatOf(path) = before[path] BY <1>6, <1>7
  <2>3. Still(path) BY <2>1, <2>2, <1>0, <1>3, UnmovedFile
  <2>4. CopyMade(path) BY <1>3, <1>7 DEF CopyMade
  <2> QED BY <2>3, <2>4, <1>0, <1>3 DEF MadeOfMoment
<1> HIDE DEF StatOf, CopyOf
<1>8. ~directory => moment[Records] # None
  <2>1. CASE path = Records BY <2>1, <1>0, <1>3 DEF CopiesMoment, Recorded, Taken0
  <2>2. CASE path = Companion BY <2>2, <1>0 DEF Vouched
  <2> QED BY <2>1, <2>2, <1>3 DEF Path
<1>9. \A q \in Path : CopyOf(q, moment[q])' = CopyOf(q, moment[q]) BY <1>2 DEF CopyOf
<1>10. CopyTyped' BY <1>0, <1>2, <1>6, CopyPaths DEF CopyTyped
<1>11. CopiesMoment' BY <1>6 DEF CopiesMoment
<1>12. MadeOfMoment'
  <2> SUFFICES ASSUME NEW q \in Path, CopyMade(q)', Still(q) PROVE snapshot[q] = CopyOf(q, moment[q])
    BY <1>2, <1>4, <1>9 DEF MadeOfMoment
  <2>1. CopyMade(q) BY <1>2, <1>3, <1>6, CopyPaths DEF CopyMade, Path
  <2> QED BY <2>1, <1>0 DEF MadeOfMoment
<1>13. Vouched'
  <2>1. CASE directory
    <3>1. doing' = "verify" /\ path' = Companion BY <2>1, <1>6
    <3> QED BY <2>1, <3>1, <1>0, <1>2, <1>3, <1>4, CopyPaths DEF Vouched
  <2>2. CASE ~directory
    <3>1. Records \notin warned' => snapshot[Records] = CopyOf(Records, moment[Records])
      <4>1. CASE path = Records BY <4>1, <2>2, <1>7
      <4>2. CASE path = Companion BY <4>2, <2>2, <1>0, <1>6, CopyPaths DEF Vouched
      <4> QED BY <4>1, <4>2, <1>3 DEF Path
    <3>2. doing' = "done" => path = Companion BY <2>2, <1>3, <1>6 DEF Path
    <3>3. doing' = "done" /\ Companion \notin warned' => snapshot[Companion] = CopyOf(Companion, moment[Companion])
      BY <2>2, <3>2, <1>7
    <3> QED BY <2>2, <3>1, <3>3, <1>2, <1>6, <1>8, <1>9, CopyPaths DEF Vouched
  <2> QED BY <2>1, <2>2
<1> QED BY <1>5, <1>10, <1>11, <1>12, <1>13 DEF CInv

LEMMA VerifyKeeps ==
    ASSUME CInv, Verify
    PROVE  CInv'
<1>0. CopyTyped /\ Recorded /\ CopiesMoment /\ MadeOfMoment /\ Vouched BY DEF CInv
<1>1. UNCHANGED <<directory, source, clock, history>> BY DEF Verify
<1>2. /\ stamp' = stamp /\ before' = before /\ moment' = moment /\ together' = together /\ grown' = grown
      /\ source' = source /\ directory' = directory /\ clock' = clock /\ handle' = handle
      /\ remaining' = remaining /\ copied' = copied /\ snapshot' = snapshot
  BY DEF Verify, history, reading
<1>3. doing = "verify" /\ path \in Path /\ directory BY <1>0 DEF Verify, CopyTyped
<1>4. \A q \in Path : (Same(q)' <=> Same(q)) /\ (Still(q)' <=> Still(q)) BY <1>1, CopyKeepsFiles
<1>5. Recorded' BY <1>0, <1>1, CopyKeepsFiles
<1>6. /\ path' = Records
      /\ doing' = IF path = Companion THEN "verify" ELSE "done"
      /\ warned' = IF StatOf(path) # stamp[path] THEN warned \cup {"directory"} ELSE warned
  BY DEF Verify
<1>7. ASSUME "directory" \notin warned', moment[path] # None
      PROVE  Same(path) /\ snapshot[path] = CopyOf(path, moment[path])
  <2>1. Taken0(path) = stamp[path] /\ Taken0(path) # None BY <1>0, <1>3, <1>7 DEF Taken0, Recorded
  <2>2. StatOf(path) = stamp[path] BY <1>6, <1>7
  <2>3. Same(path) /\ Still(path) BY <2>1, <2>2, <1>0, <1>3, UnmovedFile
  <2>4. CopyMade(path) BY <1>3 DEF CopyMade, Path
  <2> QED BY <2>3, <2>4, <1>0, <1>3 DEF MadeOfMoment
<1> HIDE DEF StatOf, CopyOf
<1>8. \A q \in Path : CopyOf(q, moment[q])' = CopyOf(q, moment[q]) BY <1>2 DEF CopyOf
<1>9. "directory" \notin warned' => "directory" \notin warned BY <1>6
<1>10. CopyTyped' BY <1>0, <1>2, <1>3, <1>6, CopyPaths DEF CopyTyped
<1>11. CopiesMoment' BY <1>6 DEF CopiesMoment
<1>12. MadeOfMoment'
  <2> SUFFICES ASSUME NEW q \in Path, CopyMade(q)', Still(q) PROVE snapshot[q] = CopyOf(q, moment[q])
    BY <1>2, <1>4, <1>8 DEF MadeOfMoment
  <2>1. CopyMade(q) BY <1>2, <1>3, CopyPaths DEF CopyMade, Path
  <2> QED BY <2>1, <1>0 DEF MadeOfMoment
<1>13. ASSUME "directory" \notin warned'
       PROVE  together /\ (moment[Companion] # None => snapshot[Companion] = CopyOf(Companion, moment[Companion]))
  <2>1. CASE path = Companion BY <2>1, <1>0, <1>3, <1>7, <1>13 DEF Vouched
  <2>2. CASE path = Records BY <2>2, <1>0, <1>3, <1>9, <1>13 DEF Vouched
  <2> QED BY <2>1, <2>2, <1>3 DEF Path
<1>14. ASSUME doing' = "done", "directory" \notin warned', moment[Records] # None
       PROVE  snapshot[Records] = CopyOf(Records, moment[Records])
  <2>1. path = Records BY <1>3, <1>6, <1>14 DEF Path
  <2> QED BY <2>1, <1>7, <1>14
<1>15. Vouched' BY <1>0, <1>2, <1>3, <1>4, <1>8, <1>13, <1>14, CopyPaths DEF Vouched
<1> QED BY <1>5, <1>10, <1>11, <1>12, <1>15 DEF CInv

LEMMA CopyStarts == CopyInit => CInv
<1> SUFFICES ASSUME CopyInit PROVE CInv OBVIOUS
<1>1. \E companion \in {None, FileOf(<<Byte(0, FALSE), Byte(0, FALSE)>>)} :
         source = [p \in Path |-> IF p = Records THEN FileOf(Session) ELSE companion]
  BY DEF CopyInit
<1>2. PICK companion \in {None, FileOf(<<Byte(0, FALSE), Byte(0, FALSE)>>)} :
         source = [p \in Path |-> IF p = Records THEN FileOf(Session) ELSE companion]
  BY <1>1
<1>3. FileOf(Session) \in FileType /\ FileOf(Session).time = 0
  <2>1. Session \in Seq(ByteType) BY CopyConstants
  <2> QED BY <2>1 DEF FileOf, FileType
<1>4. FileOf(<<Byte(0, FALSE), Byte(0, FALSE)>>) \in FileType /\ FileOf(<<Byte(0, FALSE), Byte(0, FALSE)>>).time = 0
  <2> DEFINE b == Byte(0, FALSE)
  <2>1. b \in ByteType BY DEF Byte, ByteType
  <2> HIDE DEF b
  <2>2. <<b, b>> \in Seq(ByteType) BY <2>1
  <2>3. FileOf(<<b, b>>) \in FileType /\ FileOf(<<b, b>>).time = 0
    <3> DEFINE s == <<b, b>>
    <3>1. s \in Seq(ByteType) BY <2>2
    <3> HIDE DEF s
    <3>2. FileOf(s) \in FileType /\ FileOf(s).time = 0 BY <3>1 DEF FileOf, FileType
    <3> QED BY <3>2 DEF s
  <2> QED BY <2>3 DEF b
<1> HIDE DEF FileOf, Byte
<1>5. source \in [Path -> FileType \cup {None}] /\ \A p \in Path : source[p] # None => source[p].time <= 0
  BY <1>2, <1>3, <1>4
<1>6. /\ directory \in BOOLEAN /\ clock = 0 /\ path \in Path /\ together = FALSE /\ grown = {} /\ warned = {}
      /\ stamp = [p \in Path |-> None] /\ before = stamp /\ moment = stamp
      /\ remaining = 0 /\ copied = <<>> /\ handle = [inode |-> 0, bytes |-> <<>>]
      /\ doing = (IF directory THEN "stamp" ELSE "stat") /\ path = FirstPath
      /\ snapshot = [p \in Path |-> <<>>]
  BY CopyPaths DEF CopyInit, FirstPath
<1>7. snapshot = [p \in Path |-> snapshot[p]] BY <1>6
<1>8. copied \in Seq(ByteType) /\ handle \in [inode : Nat, bytes : Seq(ByteType)] BY <1>6
<1>9. stamp \in [Path -> StampType \cup {None}] /\ before \in [Path -> StampType \cup {None}]
      /\ moment \in [Path -> Seq(ByteType) \cup {None}]
  BY <1>6
<1>10. CopyTyped BY <1>5, <1>6, <1>7, <1>8, <1>9 DEF CopyTyped
<1>11. \A p \in Path : Taken0(p) = None /\ moment[p] = None /\ ~Same(p) /\ ~Still(p)
  BY <1>6 DEF Taken0, Same, Still
<1>12. Recorded BY <1>11, CopyPaths DEF Recorded
<1>13. CopiesMoment BY <1>6 DEF CopiesMoment
<1>14. MadeOfMoment BY <1>11 DEF MadeOfMoment
<1>15. Vouched BY <1>6, CopyPaths DEF Vouched, FirstPath
<1> QED BY <1>10, <1>12, <1>13, <1>14, <1>15 DEF CInv

LEMMA CopyStays ==
    ASSUME CInv, UNCHANGED copyVars
    PROVE  CInv'
<1>1. UNCHANGED <<directory, source, clock, doing, path, stamp, before, moment, grown, together, handle,
                  remaining, copied, snapshot, warned>>
  BY DEF copyVars
<1> QED BY <1>1 DEF CInv, CopyTyped, Recorded, CopiesMoment, MadeOfMoment, Vouched, Same, Still, Taken0, CopyMade, CopyOf

LEMMA CopySteps ==
    ASSUME CInv, [CopyNext]_copyVars
    PROVE  CInv'
<1>1. ASSUME NEW p \in Path, NEW newline \in BOOLEAN, AppendTo(p, newline) PROVE CInv' BY <1>1, AppendKeeps
<1>2. ASSUME NEW p \in Path, NEW n \in 0..3, Overwrite(p, n) PROVE CInv' BY <1>2, OverwriteKeeps
<1>3. ASSUME NEW p \in Path, NEW n \in 0..3, Replace(p, n) PROVE CInv' BY <1>3, ReplaceKeeps
<1>4. CASE StampFile BY <1>4, StampFileKeeps
<1>5. CASE Absent BY <1>5, AbsentKeeps
<1>6. CASE Stat BY <1>6, StatKeeps
<1>7. CASE Open BY <1>7, OpenKeeps
<1>8. ASSUME NEW n \in 1..ChunkSize, ReadChunk(n) PROVE CInv' BY <1>8, ReadChunkKeeps
<1>9. CASE EndRead BY <1>9, EndReadKeeps
<1>10. CASE Check BY <1>10, CheckKeeps
<1>11. CASE Verify BY <1>11, VerifyKeeps
<1>12. CASE UNCHANGED copyVars BY <1>12, CopyStays
<1> QED BY <1>1, <1>2, <1>3, <1>4, <1>5, <1>6, <1>7, <1>8, <1>9, <1>10, <1>11, <1>12 DEF CopyNext

LEMMA CopyInvariant == CopySpec => []CInv
<1>1. CopyInit => CInv BY CopyStarts
<1>2. CInv /\ [CopyNext]_copyVars => CInv' BY CopySteps
<1> QED BY <1>1, <1>2, PTL DEF CopySpec

LEMMA VouchedIsOfOneMoment ==
    ASSUME CInv
    PROVE  CopyOfOneMoment
<1>0. CopyTyped /\ Recorded /\ CopiesMoment /\ MadeOfMoment /\ Vouched BY DEF CInv
<1> SUFFICES ASSUME doing = "done"
             PROVE  IF directory
                    THEN "directory" \notin warned =>
                            together /\ \A p \in Path : moment[p] # None => snapshot[p] = CopyOf(p, moment[p])
                    ELSE /\ \A p \in Path \ warned : before[p] # None => snapshot[p] = CopyOf(p, moment[p])
                         /\ Records \in grown => snapshot[Records] = CompleteLines(moment[Records])
  BY DEF CopyOfOneMoment
<1>1. CASE directory BY <1>1, <1>0, CopyPaths DEF Vouched, Path
<1>2. CASE ~directory
  <2>1. path = Companion /\ moment[Records] # None BY <1>0, <1>2 DEF Vouched
  <2>2. \A p \in Path \ warned : before[p] # None => snapshot[p] = CopyOf(p, moment[p])
    BY <2>1, <1>0, <1>2, CopyPaths DEF Vouched, Path
  <2>3. ASSUME Records \in grown PROVE snapshot[Records] = CompleteLines(moment[Records])
    <3>1. Still(Records) BY <2>1, <2>3, <1>2 DEF Still
    <3>2. CopyMade(Records) BY <2>1, <1>2 DEF CopyMade
    <3> QED BY <3>1, <3>2, <1>0, CopyPaths DEF MadeOfMoment, CopyOf
  <2> QED BY <1>2, <2>2, <2>3
<1> QED BY <1>1, <1>2

\* A copy that ends without a warning is, for every session, every size of a read and
\* any number of writes by the harness, the file as it was at one moment, that of a
\* directory all its files as they were together (files.go, native_dirs.go).
THEOREM CopiesOfOneMoment == CopySpec => []CopyOfOneMoment
<1>1. CInv => CopyOfOneMoment BY VouchedIsOfOneMoment
<1> QED BY <1>1, CopyInvariant, PTL

-----------------------------------------------------------------------------
(* One line of events (EventChain) *)

LinkType == [key : Nat \ {0}, parent : Nat]

\* The first event with its key, and the first record that has a key.
IsFirst(i) == i \in DOMAIN chain /\ \A j \in 1..i - 1 : chain[j].key # chain[i].key
IsRecord(n, key) == n \in DOMAIN transcript /\ Has(n, key) /\ \A m \in 1..n - 1 : ~Has(m, key)

\* The last of the first events before i has this key, or there is none and it is 0.
Precedes(key, i) ==
    \/ key = 0 /\ \A j \in 1..i - 1 : ~IsFirst(j)
    \/ \E j \in 1..i - 1 : IsFirst(j) /\ key = chain[j].key /\ \A l \in j + 1..i - 1 : ~IsFirst(l)

ChainTyped ==
    /\ transcript \in Seq([keys : Seq(Nat \ {0}), parent : Nat])
    /\ taken \in 0..Len(transcript)
    /\ chain \in Seq(LinkType)
    /\ linked \in 0..Len(chain)
    /\ taken < Len(transcript) => linked = 0

\* The events are those of the records taken, those of earlier records first; the ones
\* not linked yet have the parents their records name.
Taken ==
    /\ \A key : (\E i \in DOMAIN chain : chain[i].key = key) <=> \E n \in 1..taken : Has(n, key)
    /\ \A i \in linked + 1..Len(chain) : \A n \in Nat :
          IsFirst(i) /\ IsRecord(n, chain[i].key) => chain[i].parent = transcript[n].parent
    /\ \A i, j, n, m \in Nat :
          IsFirst(i) /\ IsFirst(j) /\ IsRecord(n, chain[i].key) /\ m \in 1..n - 1 /\ Has(m, chain[j].key) => j < i

\* The ones that are linked have the parents they keep, and `parents` knows them.
Linked ==
    /\ \A key : key \in DOMAIN parents <=> \E i \in 1..linked : chain[i].key = key
    /\ Precedes(previous, linked + 1)
    /\ \A i \in 1..linked : parents[chain[i].key] = chain[i].parent
    /\ \A i \in 1..linked : \A f, n \in Nat :
          IsFirst(f) /\ chain[f].key = chain[i].key /\ IsRecord(n, chain[i].key) =>
              IF transcript[n].parent = 0 THEN Precedes(chain[i].parent, f) ELSE chain[i].parent = transcript[n].parent

LInv == ChainTyped /\ Taken /\ Linked

LEMMA EventHasFirst ==
    ASSUME ChainTyped, NEW i \in DOMAIN chain
    PROVE  \E f \in 1..i : IsFirst(f) /\ chain[f].key = chain[i].key
<1> DEFINE S == {j \in 1..i : chain[j].key = chain[i].key}
<1>1. i \in Nat /\ i \in 1..Len(chain) /\ Len(chain) \in Nat /\ DOMAIN chain = 1..Len(chain)
  BY DEF ChainTyped
<1>2. i \in S /\ S \subseteq 1..i
  BY <1>1
<1>3. PICK f \in S : \A x \in S : f <= x
  <2>. HIDE DEF S
  <2>. QED
    BY <1>1, <1>2, HasSmallest
<1>4. f \in 1..i /\ chain[f].key = chain[i].key /\ f \in DOMAIN chain
  BY <1>1
<1>5. \A j \in 1..f - 1 : chain[j].key # chain[f].key
  BY <1>1, <1>3, <1>4
<1>. QED
  BY <1>4, <1>5 DEF IsFirst

LEMMA KeyHasRecord ==
    ASSUME ChainTyped, NEW key, NEW n \in DOMAIN transcript, Has(n, key)
    PROVE  \E m \in 1..n : IsRecord(m, key)
<1> DEFINE S == {m \in 1..n : Has(m, key)}
<1>1. n \in Nat /\ n \in 1..Len(transcript) /\ Len(transcript) \in Nat /\ DOMAIN transcript = 1..Len(transcript)
  BY DEF ChainTyped
<1>2. n \in S /\ S \subseteq 1..n
  BY <1>1
<1>3. PICK m \in S : \A x \in S : m <= x
  <2>. HIDE DEF S
  <2>. QED
    BY <1>1, <1>2, HasSmallest
<1>4. m \in 1..n /\ Has(m, key) /\ m \in DOMAIN transcript
  BY <1>1
<1>5. \A x \in 1..m - 1 : ~Has(x, key)
  BY <1>1, <1>3, <1>4
<1>. QED
  BY <1>4, <1>5 DEF IsRecord

\* There is one first event of a key, and one first record.
LEMMA OneFirst ==
    ASSUME ChainTyped, NEW i, NEW j, IsFirst(i), IsFirst(j), chain[i].key = chain[j].key
    PROVE  i = j
<1>1. i \in Nat /\ j \in Nat /\ i >= 1 /\ j >= 1
  BY DEF ChainTyped, IsFirst
<1>2. ~(i < j) /\ ~(j < i)
  BY <1>1 DEF IsFirst
<1>. QED
  BY <1>1, <1>2

LEMMA OneRecord ==
    ASSUME ChainTyped, NEW n, NEW m, NEW key, IsRecord(n, key), IsRecord(m, key)
    PROVE  n = m
<1>1. n \in Nat /\ m \in Nat /\ n >= 1 /\ m >= 1
  BY SMTT(30) DEF ChainTyped, IsRecord
<1>2. ~(n < m) /\ ~(m < n)
  BY <1>1 DEF IsRecord
<1>. QED
  BY <1>1, <1>2

LEMMA OnePrecedes ==
    ASSUME ChainTyped, NEW i \in Nat, NEW k, NEW l, Precedes(k, i), Precedes(l, i)
    PROVE  k = l
<1>1. ASSUME NEW a \in 1..i - 1, NEW b \in 1..i - 1, IsFirst(a), IsFirst(b),
             \A x \in a + 1..i - 1 : ~IsFirst(x), \A x \in b + 1..i - 1 : ~IsFirst(x)
      PROVE  a = b
  <2>1. ~(a < b) /\ ~(b < a)
    BY <1>1
  <2>. QED
    BY <2>1
<1>2. CASE \A j \in 1..i - 1 : ~IsFirst(j)
  BY <1>2 DEF Precedes
<1>3. CASE ~(\A j \in 1..i - 1 : ~IsFirst(j))
  <2>1. PICK a \in 1..i - 1 : IsFirst(a) /\ k = chain[a].key /\ \A x \in a + 1..i - 1 : ~IsFirst(x)
    BY <1>3 DEF Precedes
  <2>2. PICK b \in 1..i - 1 : IsFirst(b) /\ l = chain[b].key /\ \A x \in b + 1..i - 1 : ~IsFirst(x)
    BY <1>3 DEF Precedes
  <2>3. a = b
    BY <1>1, <2>1, <2>2
  <2>. QED
    BY <2>1, <2>2, <2>3
<1>. QED
  BY <1>2, <1>3

\* A record's events come behind those of the records before.
LEMMA TakeKeeps ==
    ASSUME LInv, TakeRecord
    PROVE  LInv'
<1> DEFINE record == transcript[taken + 1]
           new == [k \in DOMAIN record.keys |-> [key |-> record.keys[k], parent |-> record.parent]]
           n == Len(chain)
<1>1. /\ taken \in Nat /\ taken + 1 \in 1..Len(transcript) /\ taken + 1 \in DOMAIN transcript
      /\ Len(transcript) \in Nat /\ linked = 0 /\ n \in Nat
      /\ DOMAIN transcript = 1..Len(transcript) /\ DOMAIN chain = 1..n
  BY DEF TakeRecord, LInv, ChainTyped
<1>2. record \in [keys : Seq(Nat \ {0}), parent : Nat]
  <2> DEFINE R == [keys : Seq(Nat \ {0}), parent : Nat]
  <2>1. transcript \in Seq(R)
    BY DEF LInv, ChainTyped
  <2>. HIDE DEF R
  <2>2. transcript[taken + 1] \in R
    BY <1>1, <2>1
  <2>. QED
    BY <2>2 DEF R
<1>3. record.keys \in Seq(Nat \ {0}) /\ record.parent \in Nat
  BY <1>2
<1>4. /\ chain' = chain \o new /\ taken' = taken + 1
      /\ UNCHANGED <<transcript, linked, parents, previous>>
  BY DEF TakeRecord
<1>5. new \in Seq(LinkType) /\ Len(new) = Len(record.keys) /\ Len(new) \in Nat /\ DOMAIN new = DOMAIN record.keys
  <2>1. \A k \in DOMAIN record.keys : [key |-> record.keys[k], parent |-> record.parent] \in LinkType
    <3>. HIDE DEF record
    <3>. QED
      BY <1>3 DEF LinkType
  <2> DEFINE f(k) == [key |-> record.keys[k], parent |-> record.parent]
             keys == record.keys
  <2>2. new = [k \in DOMAIN keys |-> f(k)]
    OBVIOUS
  <2>3. keys \in Seq(Nat \ {0}) /\ \A k \in DOMAIN keys : f(k) \in LinkType
    BY <1>3, <2>1
  <2>. HIDE DEF record, f, keys, new
  <2>4. Len(keys) \in Nat /\ DOMAIN keys = 1..Len(keys)
    BY <2>3
  <2>5. new \in [1..Len(keys) -> LinkType]
    BY <2>2, <2>3, <2>4
  <2>6. new \in Seq(LinkType) /\ Len(new) = Len(keys) /\ DOMAIN new = DOMAIN keys
    BY <2>4, <2>5
  <2>. QED
    BY <2>4, <2>6 DEF keys
<1>6. \A k \in DOMAIN new : new[k].key = record.keys[k] /\ new[k].parent = record.parent
  OBVIOUS
<1>7. \A key : Has(taken + 1, key) <=> \E k \in DOMAIN new : new[k].key = key
  <2>1. \A key : Has(taken + 1, key) <=> \E k \in DOMAIN record.keys : record.keys[k] = key
    BY DEF Has
  <2>. HIDE DEF record, new
  <2>. QED
    BY <1>5, <1>6, <2>1
<1>8. \A m, key : Has(m, key)' <=> Has(m, key)
  BY <1>4 DEF Has
<1> HIDE DEF record, new, n
<1>9. /\ chain' \in Seq(LinkType) /\ Len(chain') = n + Len(new) /\ DOMAIN chain' = 1..n + Len(new)
      /\ \A i \in 1..n : chain'[i] = chain[i]
      /\ \A i \in n + 1..n + Len(new) : i - n \in DOMAIN new /\ chain'[i] = new[i - n]
      /\ \A k \in DOMAIN new : n + k \in DOMAIN chain' /\ chain'[n + k] = new[k]
  <2>1. chain \in Seq(LinkType) /\ n = Len(chain) /\ n \in Nat
    BY <1>1 DEF LInv, ChainTyped, n
  <2>2. DOMAIN new = 1..Len(new) /\ Len(new) \in Nat /\ new \in Seq(LinkType)
    BY <1>5
  <2>3. /\ chain \o new \in Seq(LinkType) /\ Len(chain \o new) = n + Len(new)
        /\ \A i \in 1..n + Len(new) : (chain \o new)[i] = IF i <= n THEN chain[i] ELSE new[i - n]
    BY <2>1, <2>2
  <2>4. chain' \in Seq(LinkType) /\ Len(chain') = n + Len(new) /\ DOMAIN chain' = 1..n + Len(new)
    BY <1>4, <2>1, <2>2, <2>3
  <2>5. \A i \in 1..n : chain'[i] = chain[i]
    BY <1>4, <2>1, <2>2, <2>3
  <2>6. \A i \in n + 1..n + Len(new) : i - n \in DOMAIN new /\ chain'[i] = new[i - n]
    BY <1>4, <2>1, <2>2, <2>3
  <2>7. \A k \in DOMAIN new : n + k \in DOMAIN chain' /\ chain'[n + k] = new[k]
    <3>. SUFFICES ASSUME NEW k \in 1..Len(new) PROVE n + k \in n + 1..n + Len(new) /\ (n + k) - n = k
      <4>1. DOMAIN new = 1..Len(new)
        BY <2>2
      <4>2. \A k \in 1..Len(new) : n + k \in 1..n + Len(new)
        BY <2>1, <2>2
      <4>. QED
        BY <2>4, <2>6, <4>1, <4>2
    <3>. QED
      BY <2>1, <2>2
  <2>. QED
    BY <2>4, <2>5, <2>6, <2>7
<1>10. ChainTyped'
  BY <1>1, <1>4, <1>9 DEF LInv, ChainTyped
<1>11. \A i \in 1..n : IsFirst(i)' <=> IsFirst(i)
  BY <1>1, <1>5, <1>9 DEF IsFirst
<1>12. \A i : IsFirst(i)' /\ i \notin 1..n => /\ i \in n + 1..n + Len(new) /\ i \in Int
                                              /\ ~\E j \in 1..n : chain[j].key = chain'[i].key
  <2>. SUFFICES ASSUME NEW i, i \in DOMAIN chain', i \notin 1..n, \A j \in 1..i - 1 : chain'[j].key # chain'[i].key
                PROVE  /\ i \in n + 1..n + Len(new) /\ i \in Int
                       /\ \A j \in 1..n : chain[j].key # chain'[i].key
    BY DEF IsFirst
  <2>1. i \in n + 1..n + Len(new) /\ i \in Int
    BY <1>1, <1>5, <1>9
  <2>2. \A j \in 1..n : j \in 1..i - 1
    BY <1>1, <1>5, <2>1
  <2>. QED
    BY <1>9, <2>1, <2>2
<1>13. \A m, key : IsRecord(m, key)' <=> IsRecord(m, key)
  BY <1>4, <1>8 DEF IsRecord
<1>14. \A key : (\E i \in DOMAIN chain' : chain'[i].key = key) <=> \E m \in 1..taken + 1 : Has(m, key)
  <2>. SUFFICES ASSUME NEW key
                PROVE  (\E i \in DOMAIN chain' : chain'[i].key = key) <=> \E m \in 1..taken + 1 : Has(m, key)
    OBVIOUS
  <2>1. (\E i \in DOMAIN chain' : chain'[i].key = key) <=>
            (\E i \in 1..n : chain[i].key = key) \/ \E k \in DOMAIN new : new[k].key = key
    <3>1. \A i \in DOMAIN chain' : i \in 1..n \/ i \in n + 1..n + Len(new)
      BY <1>1, <1>5, <1>9
    <3>2. \A i \in 1..n : i \in DOMAIN chain'
      BY <1>1, <1>5, <1>9
    <3>. QED
      BY <1>9, <3>1, <3>2
  <2>2. (\E i \in 1..n : chain[i].key = key) <=> \E m \in 1..taken : Has(m, key)
    BY <1>1 DEF LInv, Taken
  <2>3. 1..taken + 1 = 1..taken \cup {taken + 1}
    BY <1>1
  <2>. QED
    BY <1>7, <2>1, <2>2, <2>3
\* The record of an event that is new is the one taken.
<1>15. ASSUME NEW i, IsFirst(i)', i \notin 1..n, NEW m \in Nat, IsRecord(m, chain'[i].key)
       PROVE  m = taken + 1 /\ chain'[i].parent = transcript[m].parent
  <2> DEFINE key == chain'[i].key
  <2>1. i \in n + 1..n + Len(new) /\ i - n \in DOMAIN new /\ chain'[i] = new[i - n]
    BY <1>9, <1>12, <1>15
  <2>2. Has(taken + 1, key) /\ ~\E x \in 1..taken : Has(x, key)
    <3>1. Has(taken + 1, key)
      BY <1>7, <2>1
    <3>2. ~\E j \in DOMAIN chain : chain[j].key = key
      BY <1>1, <1>12, <1>15
    <3>. QED
      BY <3>1, <3>2 DEF LInv, Taken
  <2>3. m >= 1 /\ Has(m, key) /\ ~(taken + 1 < m) /\ ~(m < taken + 1)
    <3>1. m >= 1 /\ Has(m, key) /\ \A x \in 1..m - 1 : ~Has(x, key)
      BY <1>1, <1>15 DEF IsRecord
    <3>. HIDE DEF key
    <3>. QED
      BY <1>1, <2>2, <3>1
  <2>4. m = taken + 1
    BY <1>1, <2>3
  <2>5. chain'[i].parent = record.parent
    BY <1>6, <2>1
  <2>. QED
    BY <2>4, <2>5 DEF record
\* The record of one that was there is an earlier one.
<1>16. ASSUME NEW i \in 1..n, NEW m \in Nat, IsRecord(m, chain[i].key)
       PROVE  m \in 1..taken
  <2>1. PICK x \in 1..taken : Has(x, chain[i].key)
    BY <1>1 DEF LInv, Taken
  <2>2. m >= 1 /\ ~(x < m)
    BY <1>1, <1>16, <2>1 DEF IsRecord
  <2>. QED
    BY <1>1, <2>1, <2>2
<1>17. Taken'
  <2>1. ASSUME NEW i \in linked' + 1..Len(chain'), NEW m \in Nat, IsFirst(i)', IsRecord(m, chain'[i].key)
        PROVE  chain'[i].parent = transcript[m].parent
    <3>1. CASE i \in 1..n
      BY <1>1, <1>4, <1>9, <1>11, <2>1, <3>1 DEF LInv, Taken, n
    <3>. QED
      BY <1>15, <2>1, <3>1
  <2>2. ASSUME NEW i \in Nat, NEW j \in Nat, NEW k \in Nat, NEW m \in Nat, IsFirst(i)', IsFirst(j)',
               IsRecord(k, chain'[i].key), m \in 1..k - 1, Has(m, chain'[j].key)
        PROVE  j < i
    <3>1. m \in 1..taken => j \in 1..n
      <4>. SUFFICES ASSUME m \in 1..taken, j \notin 1..n PROVE FALSE
        OBVIOUS
      <4>1. \E x \in DOMAIN chain : chain[x].key = chain'[j].key
        BY <2>2 DEF LInv, Taken
      <4>. QED
        BY <1>1, <1>12, <2>2, <4>1
    <3>2. CASE i \in 1..n
      <4>1. chain'[i] = chain[i] /\ IsFirst(i) /\ k \in 1..taken
        BY <1>9, <1>11, <1>16, <2>2, <3>2
      <4>2. m \in 1..taken
        BY <1>1, <2>2, <4>1
      <4>3. j \in 1..n /\ chain'[j] = chain[j] /\ IsFirst(j)
        BY <1>9, <1>11, <2>2, <3>1, <4>2
      <4>. QED
        BY <2>2, <4>1, <4>3 DEF LInv, Taken
    <3>3. CASE i \notin 1..n
      <4>1. k = taken + 1 /\ i \in n + 1..n + Len(new)
        BY <1>12, <1>15, <2>2, <3>3
      <4>2. j \in 1..n
        BY <1>1, <2>2, <3>1, <4>1
      <4>. QED
        BY <1>1, <1>5, <4>1, <4>2
    <3>. QED
      BY <3>2, <3>3
  <2>. QED
    <3>1. \A key : (\E i \in DOMAIN chain' : chain'[i].key = key) <=> \E m \in 1..taken' : Has(m, key)'
      BY <1>4, <1>8, <1>14
    <3>2. \A i \in linked' + 1..Len(chain') : \A m \in Nat :
             IsFirst(i)' /\ IsRecord(m, chain[i].key)' => chain'[i].parent = transcript'[m].parent
      BY <1>4, <1>13, <2>1
    <3>3. \A i, j, k, m \in Nat :
             IsFirst(i)' /\ IsFirst(j)' /\ IsRecord(k, chain[i].key)' /\ m \in 1..k - 1 /\ Has(m, chain[j].key)' => j < i
      BY <1>8, <1>13, <2>2
    <3>. QED
      BY <3>1, <3>2, <3>3 DEF Taken
<1>18. Linked'
  <2>1. 1..0 = {}
    OBVIOUS
  <2>2. \A key : key \notin DOMAIN parents
    BY <1>1, <2>1 DEF LInv, Linked
  <2>3. previous = 0
    BY <1>1, <2>1 DEF LInv, Linked, Precedes
  <2>. QED
    BY <1>1, <1>4, <2>1, <2>2, <2>3 DEF Linked, Precedes
<1>. QED
  BY <1>10, <1>17, <1>18 DEF LInv

\* Linking gives an event a parent and changes nothing else about the chain.
LEMMA LinkChanges ==
    ASSUME LInv, Linking, NEW parent \in Nat, Link(parent)
    PROVE  /\ ChainTyped' /\ linked + 1 \in DOMAIN chain /\ DOMAIN chain' = DOMAIN chain
           /\ \A i \in DOMAIN chain : chain'[i].key = chain[i].key
           /\ chain'[linked + 1].parent = parent
           /\ \A i \in DOMAIN chain : i # linked + 1 => chain'[i].parent = chain[i].parent
           /\ \A i : IsFirst(i)' <=> IsFirst(i)
           /\ \A key, i : Precedes(key, i)' <=> Precedes(key, i)
           /\ \A n, key : IsRecord(n, key)' <=> IsRecord(n, key)
           /\ \A n, key : Has(n, key)' <=> Has(n, key)
           /\ linked' = linked + 1 /\ UNCHANGED <<transcript, taken>>
           /\ DOMAIN chain = 1..Len(chain) /\ Len(chain) \in Nat /\ Len(chain') = Len(chain) /\ linked \in Nat
<1> DEFINE p == linked + 1
<1>1. /\ linked \in Nat /\ Len(chain) \in Nat /\ p \in 1..Len(chain) /\ DOMAIN chain = 1..Len(chain)
      /\ chain \in Seq(LinkType) /\ taken = Len(transcript)
  BY DEF LInv, ChainTyped, Linking
<1>2. chain' = [chain EXCEPT ![p].parent = parent] /\ linked' = p /\ UNCHANGED <<transcript, taken>>
  BY DEF Link
<1> HIDE DEF p
<1>3. chain[p] \in LinkType
  BY <1>1
<1>4. chain'[p] = [chain[p] EXCEPT !.parent = parent] /\ \A i \in 1..Len(chain) : i # p => chain'[i] = chain[i]
  BY <1>1, <1>2
<1>5. chain'[p] \in LinkType /\ chain'[p].key = chain[p].key /\ chain'[p].parent = parent
  BY <1>3, <1>4 DEF LinkType
<1>6. /\ chain' \in Seq(LinkType) /\ Len(chain') = Len(chain) /\ DOMAIN chain' = 1..Len(chain)
  <2>1. DOMAIN chain' = 1..Len(chain)
    BY <1>1, <1>2
  <2>2. \A i \in 1..Len(chain) : chain'[i] \in LinkType
    BY <1>1, <1>4, <1>5
  <2>3. chain' = [i \in 1..Len(chain) |-> chain'[i]]
    BY <1>1, <1>2
  <2>. QED
    BY <1>1, <2>1, <2>2, <2>3
<1>7. \A i \in DOMAIN chain : chain'[i].key = chain[i].key
  BY <1>1, <1>4, <1>5
<1>8. ChainTyped'
  BY <1>1, <1>2, <1>6 DEF LInv, ChainTyped
<1>9. \A i : IsFirst(i)' <=> IsFirst(i)
  <2>1. \A i \in 1..Len(chain) : \A j \in 1..i - 1 : j \in 1..Len(chain)
    BY <1>1
  <2>. QED
    BY <1>1, <1>6, <1>7, <2>1 DEF IsFirst
<1>10. \A key, i : Precedes(key, i)' <=> Precedes(key, i)
  <2>1. \A j : IsFirst(j) => chain'[j].key = chain[j].key
    BY <1>7 DEF IsFirst
  <2>. QED
    BY <1>9, <2>1 DEF Precedes
<1>11. \A n, key : Has(n, key)' <=> Has(n, key)
  BY <1>2 DEF Has
<1>12. \A n, key : IsRecord(n, key)' <=> IsRecord(n, key)
  BY <1>2, <1>11 DEF IsRecord
<1>. QED
  BY <1>1, <1>2, <1>4, <1>5, <1>6, <1>7, <1>8, <1>9, <1>10, <1>11, <1>12 DEF p

\* The records and the order of the events are as before.
LEMMA TakenStays ==
    ASSUME LInv, Linking, NEW parent \in Nat, Link(parent)
    PROVE  Taken'
<1> DEFINE p == linked + 1
<1>1. /\ DOMAIN chain' = DOMAIN chain /\ DOMAIN chain = 1..Len(chain) /\ Len(chain) \in Nat
      /\ Len(chain') = Len(chain) /\ linked \in Nat /\ linked' = linked + 1
      /\ \A i \in DOMAIN chain : chain'[i].key = chain[i].key
      /\ \A i \in DOMAIN chain : i # linked + 1 => chain'[i].parent = chain[i].parent
      /\ \A i : IsFirst(i)' <=> IsFirst(i)
      /\ \A n, key : IsRecord(n, key)' <=> IsRecord(n, key)
      /\ \A n, key : Has(n, key)' <=> Has(n, key)
      /\ UNCHANGED <<transcript, taken>>
  BY LinkChanges
<1>2. \A i : IsFirst(i) => chain'[i].key = chain[i].key
  BY <1>1 DEF IsFirst
<1>3. \A i \in linked' + 1..Len(chain') : i \in linked + 1..Len(chain) /\ i \in DOMAIN chain /\ i # linked + 1
  BY <1>1
<1>4. ASSUME NEW i \in linked' + 1..Len(chain'), NEW n \in Nat, IsFirst(i), IsRecord(n, chain'[i].key)
      PROVE  chain'[i].parent = transcript[n].parent
  BY <1>1, <1>2, <1>3, <1>4 DEF LInv, Taken
<1>5. ASSUME NEW i \in Nat, NEW j \in Nat, NEW n \in Nat, NEW m \in Nat,
             IsFirst(i), IsFirst(j), IsRecord(n, chain'[i].key), m \in 1..n - 1, Has(m, chain'[j].key)
      PROVE  j < i
  <2>1. chain'[i].key = chain[i].key /\ chain'[j].key = chain[j].key
    BY <1>2, <1>5
  <2>. QED
    BY <1>5, <2>1 DEF LInv, Taken
<1>6. \A key : (\E i \in DOMAIN chain' : chain'[i].key = key) <=> \E n \in 1..taken : Has(n, key)
  BY <1>1 DEF LInv, Taken
<1>. QED
  BY <1>1, <1>4, <1>5, <1>6 DEF Taken

\* An event that is written for the first time follows what was written before it, or
\* what its record names.
LEMMA LinkFirstKeeps ==
    ASSUME LInv, LinkFirst
    PROVE  LInv'
<1> DEFINE p == linked + 1
           key == chain[p].key
           parent == IF chain[p].parent = 0 THEN previous ELSE chain[p].parent
<1>1. /\ Linking /\ key \notin DOMAIN parents /\ Link(parent)
      /\ parents' = [k \in DOMAIN parents \cup {key} |-> IF k = key THEN parent ELSE parents[k]]
      /\ previous' = key
  BY DEF LinkFirst, Event
<1>2. /\ linked \in Nat /\ Len(chain) \in Nat /\ p \in DOMAIN chain /\ DOMAIN chain = 1..Len(chain)
      /\ chain[p] \in LinkType
  BY <1>1 DEF LInv, ChainTyped, Linking
<1>3. parent \in Nat
  <2>1. previous \in Nat
    <3>1. CASE previous = 0
      BY <3>1
    <3>2. CASE \E j \in 1..linked : previous = chain[j].key
      <4>1. PICK j \in 1..linked : previous = chain[j].key
        BY <3>2
      <4>2. chain[j] \in LinkType
        BY <1>2, <4>1 DEF LInv, ChainTyped
      <4>. QED
        BY <4>1, <4>2 DEF LinkType
    <3>. QED
      BY <1>2, <3>1, <3>2 DEF LInv, Linked, Precedes
  <2>. QED
    BY <1>2, <2>1 DEF LinkType
<1> HIDE DEF parent
<1>4. /\ ChainTyped' /\ Taken' /\ DOMAIN chain' = DOMAIN chain
      /\ \A i \in DOMAIN chain : chain'[i].key = chain[i].key
      /\ chain'[p].parent = parent
      /\ \A i \in DOMAIN chain : i # p => chain'[i].parent = chain[i].parent
      /\ \A i : IsFirst(i)' <=> IsFirst(i)
      /\ \A k, i : Precedes(k, i)' <=> Precedes(k, i)
      /\ \A n, k : IsRecord(n, k)' <=> IsRecord(n, k)
      /\ linked' = p /\ UNCHANGED <<transcript, taken>>
  BY <1>1, <1>3, LinkChanges, TakenStays
<1>5. \A i \in 1..linked : i \in DOMAIN chain /\ i # p /\ chain[i].key # key
  <2>1. \A i \in 1..linked : i \in DOMAIN chain /\ i # p
    BY <1>2
  <2>. QED
    BY <1>1, <2>1 DEF LInv, Linked
<1>6. IsFirst(p)
  <2>1. 1..p - 1 = 1..linked
    BY <1>2
  <2>. QED
    BY <1>2, <1>5, <2>1 DEF IsFirst
<1>7. 1..p = 1..linked \cup {p} /\ p \in 1..p /\ p + 1 - 1 = p
  BY <1>2
<1>8. Precedes(key, p + 1)
  <2>1. \A l \in p + 1..p + 1 - 1 : FALSE
    BY <1>2
  <2>. QED
    BY <1>6, <1>7, <2>1 DEF Precedes
<1>9. \A k : k \in DOMAIN parents' <=> \E i \in 1..p : chain'[i].key = k
  <2>1. DOMAIN parents' = DOMAIN parents \cup {key}
    BY <1>1
  <2>2. \A k : k \in DOMAIN parents <=> \E i \in 1..linked : chain[i].key = k
    BY DEF LInv, Linked
  <2>. HIDE DEF p
  <2>. QED
    BY <1>2, <1>4, <1>5, <1>7, <2>1, <2>2
<1>10. \A i \in 1..p : parents'[chain'[i].key] = chain'[i].parent
  <2>1. parents'[key] = parent
    BY <1>1
  <2>2. ASSUME NEW i \in 1..linked PROVE parents'[chain[i].key] = chain[i].parent
    <3>1. chain[i].key \in DOMAIN parents /\ chain[i].key # key /\ parents[chain[i].key] = chain[i].parent
      BY <1>5 DEF LInv, Linked
    <3>. QED
      BY <1>1, <3>1
  <2>. HIDE DEF p
  <2>. QED
    BY <1>2, <1>4, <1>5, <1>7, <2>1, <2>2
<1>11. ASSUME NEW i \in 1..p, NEW f \in Nat, NEW n \in Nat, IsFirst(f), chain'[f].key = chain'[i].key,
              IsRecord(n, chain'[i].key)
       PROVE  IF transcript[n].parent = 0 THEN Precedes(chain'[i].parent, f) ELSE chain'[i].parent = transcript[n].parent
  <2>1. chain[f].key = chain[i].key /\ chain'[i].key = chain[i].key /\ i \in DOMAIN chain
    BY <1>2, <1>4, <1>5, <1>7, <1>11 DEF IsFirst
  <2>2. CASE i \in 1..linked
    BY <1>4, <1>5, <1>11, <2>1, <2>2 DEF LInv, Linked
  <2>3. CASE i = p
    <3>1. f = p
      BY <1>6, <1>11, <2>1, <2>3, OneFirst DEF LInv
    <3>2. chain[p].parent = transcript[n].parent
      <4>1. p \in linked + 1..Len(chain) /\ IsRecord(n, chain[p].key)
        BY <1>2, <1>11, <2>1, <2>3
      <4>. QED
        BY <1>6, <4>1 DEF LInv, Taken
    <3>3. Precedes(previous, p)
      BY DEF LInv, Linked
    <3>. QED
      BY <1>4, <2>3, <3>1, <3>2, <3>3 DEF parent
  <2>. QED
    BY <1>7, <2>2, <2>3
<1>12. Linked'
  <2>1. linked' = p /\ previous' = key
    BY <1>1, <1>4
  <2>. HIDE DEF p, key
  <2>. QED
    BY <1>4, <1>8, <1>9, <1>10, <1>11, <2>1 DEF Linked
<1>. QED
  BY <1>4, <1>12 DEF LInv

\* A copy has the parent of what it is a copy of.
LEMMA LinkCopyKeeps ==
    ASSUME LInv, LinkCopy
    PROVE  LInv'
<1> DEFINE p == linked + 1
           key == chain[p].key
           parent == parents[key]
<1>1. /\ Linking /\ key \in DOMAIN parents /\ Link(parent) /\ parents' = parents /\ previous' = previous
  BY DEF LinkCopy, Event, After
<1>2. /\ linked \in Nat /\ Len(chain) \in Nat /\ p \in DOMAIN chain /\ DOMAIN chain = 1..Len(chain)
  BY <1>1 DEF LInv, ChainTyped, Linking
<1>3. PICK o \in 1..linked : chain[o].key = key /\ chain[o].parent = parent
  BY <1>1 DEF LInv, Linked
<1>4. \A i \in 1..linked : i \in DOMAIN chain /\ i # p
  BY <1>2
<1>5. parent \in Nat
  <2>1. chain[o] \in LinkType
    BY <1>4 DEF LInv, ChainTyped
  <2>. QED
    BY <1>3, <2>1 DEF LinkType
<1> HIDE DEF parent
<1>6. /\ ChainTyped' /\ Taken' /\ DOMAIN chain' = DOMAIN chain
      /\ \A i \in DOMAIN chain : chain'[i].key = chain[i].key
      /\ chain'[p].parent = parent
      /\ \A i \in DOMAIN chain : i # p => chain'[i].parent = chain[i].parent
      /\ \A i : IsFirst(i)' <=> IsFirst(i)
      /\ \A k, i : Precedes(k, i)' <=> Precedes(k, i)
      /\ \A n, k : IsRecord(n, k)' <=> IsRecord(n, k)
      /\ linked' = p /\ UNCHANGED <<transcript, taken>>
  BY <1>1, <1>5, LinkChanges, TakenStays
<1>7. 1..p = 1..linked \cup {p} /\ p + 1 - 1 = p /\ p - 1 = linked
  BY <1>2
<1>8. ~IsFirst(p)
  BY <1>3, <1>7 DEF IsFirst
<1>9. Precedes(previous, p + 1)
  <2>1. Precedes(previous, p)
    BY DEF LInv, Linked
  <2>2. CASE previous = 0 /\ \A j \in 1..p - 1 : ~IsFirst(j)
    BY <1>7, <1>8, <2>2 DEF Precedes
  <2>3. CASE \E j \in 1..p - 1 : IsFirst(j) /\ previous = chain[j].key /\ \A l \in j + 1..p - 1 : ~IsFirst(l)
    <3>1. PICK j \in 1..linked : IsFirst(j) /\ previous = chain[j].key /\ \A l \in j + 1..linked : ~IsFirst(l)
      BY <1>7, <2>3
    <3>2. \A l \in j + 1..p : l \in j + 1..linked \/ l = p
      BY <1>2
    <3>. QED
      BY <1>7, <1>8, <3>1, <3>2 DEF Precedes
  <2>. QED
    BY <2>1, <2>2, <2>3 DEF Precedes
<1>10. \A k : k \in DOMAIN parents <=> \E i \in 1..p : chain'[i].key = k
  <2>1. \A k : k \in DOMAIN parents <=> \E i \in 1..linked : chain[i].key = k
    BY DEF LInv, Linked
  <2>. HIDE DEF p
  <2>. QED
    BY <1>2, <1>3, <1>4, <1>6, <1>7, <2>1
<1>11. \A i \in 1..p : parents[chain'[i].key] = chain'[i].parent
  <2>1. \A i \in 1..linked : parents[chain[i].key] = chain[i].parent
    BY DEF LInv, Linked
  <2>. QED
    BY <1>2, <1>4, <1>6, <1>7, <2>1 DEF parent
<1>12. ASSUME NEW i \in 1..p, NEW f \in Nat, NEW n \in Nat, IsFirst(f), chain'[f].key = chain'[i].key,
              IsRecord(n, chain'[i].key)
       PROVE  IF transcript[n].parent = 0 THEN Precedes(chain'[i].parent, f) ELSE chain'[i].parent = transcript[n].parent
  <2>1. chain[f].key = chain[i].key /\ chain'[i].key = chain[i].key /\ i \in DOMAIN chain
    BY <1>2, <1>4, <1>6, <1>7, <1>12 DEF IsFirst
  <2>2. PICK l \in 1..linked : chain[l].key = chain[i].key /\ chain[l].parent = chain'[i].parent
    BY <1>3, <1>4, <1>6, <1>7
  <2>. QED
    BY <1>12, <2>1, <2>2 DEF LInv, Linked
<1>13. Linked'
  BY <1>1, <1>6, <1>9, <1>10, <1>11, <1>12 DEF Linked
<1>. QED
  BY <1>6, <1>13 DEF LInv

LEMMA ChainInvariant == ChainSpec => []LInv
<1>1. ChainInit => LInv
  <2> SUFFICES ASSUME ChainInit PROVE LInv
    OBVIOUS
  <2>1. /\ transcript \in Seq([keys : Seq(Nat \ {0}), parent : Nat])
        /\ taken = 0 /\ chain = <<>> /\ linked = 0 /\ DOMAIN parents = {} /\ previous = 0
    BY ChainConstants DEF ChainInit, NothingTaken
  <2>2. 1..0 = {} /\ Len(transcript) \in Nat /\ DOMAIN chain = {} /\ Len(chain) = 0
    BY <2>1
  <2>3. ChainTyped
    BY <2>1, <2>2 DEF ChainTyped
  <2>4. Taken
    BY <2>1, <2>2 DEF Taken, IsFirst
  <2>5. Linked
    BY <2>1, <2>2 DEF Linked, Precedes
  <2>. QED
    BY <2>3, <2>4, <2>5 DEF LInv
<1>2. LInv /\ [ChainNext]_chainVars => LInv'
  <2> SUFFICES ASSUME LInv, [ChainNext]_chainVars PROVE LInv'
    OBVIOUS
  <2>1. CASE UNCHANGED chainVars
    <3>1. UNCHANGED <<transcript, taken, chain, linked, parents, previous>>
      BY <2>1 DEF chainVars
    <3>2. ChainTyped'
      BY <3>1 DEF LInv, ChainTyped
    <3>3. \A n, key : Has(n, key)' <=> Has(n, key)
      BY <3>1 DEF Has
    <3>4. \A n, key : IsRecord(n, key)' <=> IsRecord(n, key)
      BY <3>1, <3>3 DEF IsRecord
    <3>5. \A i : IsFirst(i)' <=> IsFirst(i)
      BY <3>1 DEF IsFirst
    <3>6. \A k, n : Precedes(k, n)' <=> Precedes(k, n)
      BY <3>1 DEF Precedes, IsFirst
    <3>7. Taken'
      <4>1. \A key : (\E i \in DOMAIN chain' : chain'[i].key = key) <=> \E n \in 1..taken' : Has(n, key)'
        BY <3>1, <3>3 DEF LInv, Taken
      <4>2. \A i \in linked' + 1..Len(chain') : \A n \in Nat :
               IsFirst(i)' /\ IsRecord(n, chain[i].key)' => chain'[i].parent = transcript'[n].parent
        BY <3>1, <3>4, <3>5 DEF LInv, Taken
      <4>3. \A i, j, n, m \in Nat :
               IsFirst(i)' /\ IsFirst(j)' /\ IsRecord(n, chain[i].key)' /\ m \in 1..n - 1
               /\ Has(m, chain[j].key)' => j < i
        BY <3>1, <3>3, <3>4, <3>5 DEF LInv, Taken
      <4>. QED
        BY <4>1, <4>2, <4>3 DEF Taken
    <3>8. Linked'
      BY <3>1, <3>4, <3>5, <3>6 DEF LInv, Linked
    <3>. QED
      BY <3>2, <3>7, <3>8 DEF LInv
  <2>. QED
    BY <2>1, TakeKeeps, LinkFirstKeeps, LinkCopyKeeps DEF ChainNext
<1>. QED
  BY <1>1, <1>2, PTL DEF ChainSpec

\* FirstOf, Named and Before are what the relations say they are.
LEMMA FirstOfIs ==
    ASSUME ChainTyped, NEW f, IsFirst(f)
    PROVE  FirstOf(chain[f].key) = f
<1> DEFINE first(i) == chain[i].key = chain[f].key /\ \A j \in 1..i - 1 : chain[j].key # chain[f].key
<1>1. f \in DOMAIN chain /\ first(f)
  BY DEF IsFirst
<1>2. ASSUME NEW i \in DOMAIN chain, first(i) PROVE i = f
  <2>1. IsFirst(i)
    BY <1>2 DEF IsFirst
  <2>. QED
    BY <1>2, <2>1, OneFirst
<1>3. FirstOf(chain[f].key) = CHOOSE i \in DOMAIN chain : first(i)
  BY DEF FirstOf
<1> HIDE DEF first
<1>. QED
  BY <1>1, <1>2, <1>3

LEMMA NamedIs ==
    ASSUME ChainTyped, NEW n, NEW key, IsRecord(n, key)
    PROVE  Named(key) = transcript[n].parent
<1> DEFINE first(i) == Has(i, key) /\ \A m \in 1..i - 1 : ~Has(m, key)
<1>1. n \in DOMAIN transcript /\ first(n)
  BY DEF IsRecord
<1>2. ASSUME NEW i \in DOMAIN transcript, first(i) PROVE i = n
  <2>1. IsRecord(i, key)
    BY <1>2 DEF IsRecord
  <2>. QED
    BY <2>1, OneRecord
<1>3. Named(key) = transcript[CHOOSE i \in DOMAIN transcript : first(i)].parent
  BY DEF Named
<1> HIDE DEF first
<1>. QED
  BY <1>1, <1>2, <1>3

LEMMA BeforeIs ==
    ASSUME ChainTyped, NEW f \in DOMAIN chain, NEW key, Precedes(key, f)
    PROVE  Before(f) = key
<1> DEFINE earlier == {j \in 1..f - 1 : FirstOf(chain[j].key) = j}
<1>1. f \in Nat /\ f \in 1..Len(chain) /\ Len(chain) \in Nat /\ DOMAIN chain = 1..Len(chain)
  BY DEF ChainTyped
<1>2. \A j \in 1..f - 1 : j \in earlier <=> IsFirst(j)
  <2>. SUFFICES ASSUME NEW j \in 1..f - 1 PROVE FirstOf(chain[j].key) = j <=> IsFirst(j)
    OBVIOUS
  <2>1. j \in DOMAIN chain
    BY <1>1
  <2>2. PICK x \in 1..j : IsFirst(x) /\ chain[x].key = chain[j].key
    BY <2>1, EventHasFirst
  <2>3. FirstOf(chain[j].key) = x
    BY <2>2, FirstOfIs
  <2>. QED
    BY <2>2, <2>3, FirstOfIs
<1>3. CASE key = 0 /\ \A j \in 1..f - 1 : ~IsFirst(j)
  <2>1. earlier = {}
    BY <1>2, <1>3
  <2>. QED
    BY <1>3, <2>1 DEF Before
<1>4. CASE \E j \in 1..f - 1 : IsFirst(j) /\ key = chain[j].key /\ \A l \in j + 1..f - 1 : ~IsFirst(l)
  <2>1. PICK j \in 1..f - 1 : IsFirst(j) /\ key = chain[j].key /\ \A l \in j + 1..f - 1 : ~IsFirst(l)
    BY <1>4
  <2>2. j \in earlier
    BY <1>2, <2>1
  <2>3. \A k \in earlier : k <= j
    <3>. SUFFICES ASSUME NEW k \in 1..f - 1, IsFirst(k) PROVE k <= j
      BY <1>2
    <3>1. k \notin j + 1..f - 1
      BY <2>1
    <3>. QED
      BY <1>1, <2>1, <3>1
  <2>4. \A i \in earlier : i \in Int
    BY <1>1
  <2>5. Before(f) = chain[CHOOSE i \in earlier : \A k \in earlier : k <= i].key
    BY <2>2 DEF Before
  <2> HIDE DEF earlier
  <2>6. ASSUME NEW i \in earlier, \A k \in earlier : k <= i PROVE i = j
    BY <2>2, <2>3, <2>4, <2>6
  <2>. QED
    BY <2>1, <2>2, <2>3, <2>5, <2>6
<1>. QED
  BY <1>3, <1>4 DEF Precedes

\* However often the records of a transcript are written again, and whatever parents the
\* copies name (chainInFileOrder after normalizeCursorAgent and normalizeCodex): all
\* copies of an event have the parent of the first, events without a named parent make
\* one line, and no event is above itself if parents come before those that name them,
\* for transcripts of any length.
THEOREM EventsInOneLine == ChainSpec => []OneLine
<1>1. LInv => OneLine
  <2> SUFFICES ASSUME LInv, taken = Len(transcript), linked = Len(chain), NEW i \in DOMAIN chain
               PROVE  LET key == chain[i].key IN
                      /\ chain[i].parent = IF Named(key) = 0 THEN Before(FirstOf(key)) ELSE Named(key)
                      /\ InFileOrder /\ chain[i].parent # 0 => FirstOf(chain[i].parent) < FirstOf(key)
    BY DEF OneLine
  <2> DEFINE key == chain[i].key
             parent == chain[i].parent
  <2>1. /\ ChainTyped /\ i \in 1..linked /\ Len(chain) \in Nat /\ DOMAIN chain = 1..Len(chain)
        /\ Len(transcript) \in Nat /\ DOMAIN transcript = 1..Len(transcript)
    BY DEF LInv, ChainTyped
  <2>2. PICK f \in 1..i : IsFirst(f) /\ chain[f].key = key
    BY <2>1, EventHasFirst
  <2>3. PICK x \in 1..taken : Has(x, key)
    BY DEF LInv, Taken
  <2>4. PICK n \in 1..x : IsRecord(n, key)
    BY <2>1, <2>3, KeyHasRecord
  <2>5. f \in Nat /\ n \in Nat /\ f \in DOMAIN chain /\ n \in 1..taken
    BY <2>1, <2>3, <2>4
  <2>6. FirstOf(key) = f
    BY <2>1, <2>2, FirstOfIs
  <2>7. Named(key) = transcript[n].parent
    BY <2>1, <2>4, NamedIs
  <2>8. IF transcript[n].parent = 0 THEN Precedes(parent, f) ELSE parent = transcript[n].parent
    BY <2>1, <2>2, <2>4, <2>5 DEF LInv, Linked
  <2>9. parent = IF Named(key) = 0 THEN Before(FirstOf(key)) ELSE Named(key)
    BY <2>1, <2>5, <2>6, <2>7, <2>8, BeforeIs
  <2>10. ASSUME InFileOrder, parent # 0 PROVE FirstOf(parent) < f
    <3>1. CASE transcript[n].parent = 0
      <4>1. PICK j \in 1..f - 1 : IsFirst(j) /\ parent = chain[j].key
        BY <2>8, <2>10, <3>1 DEF Precedes
      <4>2. FirstOf(parent) = j
        BY <2>1, <4>1, FirstOfIs
      <4>. QED
        BY <2>5, <4>1, <4>2
    <3>2. CASE transcript[n].parent # 0
      <4>1. parent = transcript[n].parent
        BY <2>8, <3>2
      <4>2. PICK m \in 1..n - 1 : Has(m, parent)
        BY <2>1, <2>5, <2>10, <3>2, <4>1 DEF InFileOrder
      <4>3. PICK y \in DOMAIN chain : chain[y].key = parent
        <5>1. m \in 1..taken
          BY <2>1, <2>5, <4>2
        <5>. QED
          BY <4>2, <5>1 DEF LInv, Taken
      <4>4. PICK j \in 1..y : IsFirst(j) /\ chain[j].key = parent
        BY <2>1, <4>3, EventHasFirst
      <4>5. j \in Nat /\ m \in Nat
        BY <2>1, <2>5, <4>2, <4>4
      <4>6. j < f
        BY <2>2, <2>4, <2>5, <4>2, <4>4, <4>5 DEF LInv, Taken
      <4>7. FirstOf(parent) = j
        BY <2>1, <4>4, FirstOfIs
      <4>. QED
        BY <4>6, <4>7
    <3>. QED
      BY <3>1, <3>2
  <2>. QED
    BY <2>6, <2>9, <2>10
<1>. QED
  BY <1>1, ChainInvariant, PTL

-----------------------------------------------------------------------------
(* Each ZIP that is finished is whole, and damage to it is refused         *)
(* (TraceArchive)                                                          *)

LEMMA InputsCounted ==
    /\ Inputs \in Seq(Range(Inputs)) /\ Inputs # <<>> /\ IsInjective(Inputs)
    /\ Len(Inputs) \in Nat /\ DOMAIN Inputs = 1..Len(Inputs)
<1>1. Inputs \in Seq(Range(Inputs)) /\ Inputs # <<>> /\ IsInjective(Inputs)
  BY ArchiveConstants
<1>. QED
  BY <1>1, LenProperties

PathFiles == UNION {[P -> Bytes] : P \in SUBSET SourcePath}
FileSet == {known \in PathFiles : DOMAIN known # {}}

DescriptorType == [trace : Range(Inputs), path : Nat, digest : FileSet, files : FileSet]
EntryType ==
    [name : {<<"manifest">>}, value : Seq(DescriptorType)]
    \cup [name : {Description(t) : t \in DOMAIN Inputs}, value : DescriptorType]
    \cup [name : {SourceFile(t, p) : t \in DOMAIN Inputs, p \in SourcePath}, value : Bytes]

\* What the operators of the model say of the inputs that are described by files.
DescribedIn(known, t) == [trace |-> Inputs[t], path |-> t, digest |-> known[t], files |-> known[t]]

LastOf(known, first) ==
    Max({t \in first..Len(Inputs) : t = first \/ SizeFrom(known, first, t) <= SplitSize})

NextOf(ready, n) ==
    IF n = 0 THEN 1 ELSE LET traces == Listed(ready[n]) IN traces[Len(traces)].path + 1

ManifestOf(known, first, last) ==
    Entry(<<"manifest">>, [k \in 1..(last - first + 1) |-> DescribedIn(known, first + k - 1)])

\* A ZIP of the inputs from first to last that lacks at most some of their files.
Begun(known, z, first, last) ==
    /\ z \in Seq(EntryType) /\ Len(z) > 0
    /\ \A i, j \in DOMAIN z : z[i].name = z[j].name => i = j
    /\ z[1] = ManifestOf(known, first, last)
    /\ \A i \in DOMAIN z :
          \/ i = 1
          \/ \E t \in first..last : z[i] = Entry(Description(t), DescribedIn(known, t))
          \/ \E t \in first..last : \E p \in DOMAIN known[t] : z[i] = Entry(SourceFile(t, p), known[t][p])
    /\ \A t \in first..last : \E i \in DOMAIN z : z[i] = Entry(Description(t), DescribedIn(known, t))

\* A ZIP of these inputs with all their files.
Whole(known, z, first, last) ==
    /\ Begun(known, z, first, last)
    /\ \A t \in first..last : \A p \in DOMAIN known[t] :
          \E i \in DOMAIN z : z[i] = Entry(SourceFile(t, p), known[t][p])

LEMMA NamesDiffer ==
    /\ \A t, u : Description(t) = Description(u) <=> t = u
    /\ \A t, p, u, q : SourceFile(t, p) = SourceFile(u, q) <=> t = u /\ p = q
    /\ \A t, u, p : Description(t) # SourceFile(u, p)
    /\ \A t : Description(t) # <<"manifest">>
    /\ \A t, p : SourceFile(t, p) # <<"manifest">>
    /\ \A t, p : SourceFile(t, p)[1] = "source"
    /\ \A t : Description(t)[1] = "descriptor"
    /\ <<"manifest">>[1] = "manifest"
<1>1. \A t, u : Description(t) = Description(u) <=> t = u
  BY DEF Description
<1>2. \A t, p, u, q : SourceFile(t, p) = SourceFile(u, q) <=> t = u /\ p = q
  BY DEF SourceFile
<1>3. /\ \A t, p : SourceFile(t, p)[1] = "source"
      /\ \A t : Description(t)[1] = "descriptor"
      /\ <<"manifest">>[1] = "manifest"
  BY DEF SourceFile, Description
<1>4. "source" # "descriptor" /\ "source" # "manifest" /\ "descriptor" # "manifest"
  OBVIOUS
<1>. QED
  <2>1. \A t, u, p : Description(t) # SourceFile(u, p)
    BY <1>3, <1>4
  <2>2. \A t : Description(t) # <<"manifest">>
    BY <1>3, <1>4
  <2>3. \A t, p : SourceFile(t, p) # <<"manifest">>
    BY <1>3, <1>4
  <2>. QED
    BY <1>1, <1>2, <1>3, <2>1, <2>2, <2>3

LEMMA EntryParts == \A name, value : Entry(name, value).name = name /\ Entry(name, value).value = value
BY DEF Entry

\* The one manifest of a ZIP is the one that is read.
LEMMA ManifestIsRead ==
    ASSUME NEW z, 1 \in DOMAIN z, \A i \in DOMAIN z : z[i].name = <<"manifest">> <=> i = 1
    PROVE  Listed(z) = z[1].value
<1> DEFINE at == {i \in DOMAIN z : z[i].name = <<"manifest">>}
<1>1. at = {1}
  OBVIOUS
<1>2. Min({1}) = 1
  BY DEF Min
<1>3. Listed(z) = IF at = {} THEN <<>> ELSE z[Min(at)].value
  BY DEF Listed
<1>. QED
  BY <1>1, <1>2, <1>3

\* A ZIP without a manifest lists nothing.
LEMMA NothingListed ==
    ASSUME NEW z, \A i \in DOMAIN z : z[i].name # <<"manifest">>
    PROVE  <<"manifest">> \notin Names(z)
BY DEF Names

\* A ZIP has as many names as entries if and only if no two entries have one name.
LEMMA NamesCounted ==
    ASSUME NEW z, NEW n \in Nat, DOMAIN z = 1..n
    PROVE  Cardinality(Names(z)) = n <=> \A i, j \in 1..n : z[i].name = z[j].name => i = j
<1> DEFINE name == [i \in 1..n |-> z[i].name]
           names == Names(z)
<1>1. names = {name[i] : i \in 1..n}
  BY DEF Names
<1>2. name \in [1..n -> names] /\ \A y \in names : \E i \in 1..n : name[i] = y
  BY <1>1
<1>3. name \in Surjection(1..n, names)
  BY <1>2 DEF Surjection
<1>4. IsFiniteSet(1..n) /\ Cardinality(1..n) = n
  <2>1. 1 \in Int /\ n \in Int
    OBVIOUS
  <2>2. IsFiniteSet(1..n) /\ Cardinality(1..n) = IF 1 > n THEN 0 ELSE n - 1 + 1
    BY <2>1, FS_Interval
  <2>. QED
    BY <2>2
<1>5. Cardinality(names) = n <=> name \in Injection(1..n, names)
  <2>. HIDE DEF name, names
  <2>. QED
    BY <1>3, <1>4, FS_Surjection
<1>6. name \in Injection(1..n, names) <=> \A i, j \in 1..n : name[i] = name[j] => i = j
  BY <1>2 DEF Injection, IsInjective
<1>. QED
  BY <1>5, <1>6

\* The Traces a ZIP of the inputs from first to last lists.
TracesOf(known, first, last) == [k \in 1..(last - first + 1) |-> DescribedIn(known, first + k - 1)]

LEMMA TracesListed ==
    ASSUME NEW known, NEW first \in Nat, NEW last \in Nat, first <= last
    PROVE  LET traces == TracesOf(known, first, last) IN
           /\ Len(traces) = last - first + 1 /\ DOMAIN traces = 1..(last - first + 1)
           /\ traces # <<>>
           /\ \A d : d \in ToSet(traces) <=> \E t \in first..last : d = DescribedIn(known, t)
           /\ \A k \in DOMAIN traces : traces[k] = DescribedIn(known, first + k - 1)
           /\ traces[1] = DescribedIn(known, first) /\ traces[Len(traces)] = DescribedIn(known, last)
<1> DEFINE n == last - first + 1
           traces == TracesOf(known, first, last)
<1>1. n \in Nat /\ n > 0
  OBVIOUS
<1>2. traces = [k \in 1..n |-> DescribedIn(known, first + k - 1)]
  BY DEF TracesOf
<1>3. DOMAIN traces = 1..n /\ \A k \in 1..n : traces[k] = DescribedIn(known, first + k - 1)
  BY <1>2
<1>4. Len(traces) = n
  <2>1. traces \in [1..n -> {DescribedIn(known, first + k - 1) : k \in 1..n}]
    BY <1>2
  <2>2. traces \in Seq({DescribedIn(known, first + k - 1) : k \in 1..n})
    BY <1>1, <2>1, SeqDef
  <2>. QED
    BY <1>1, <1>3, <2>2, LenProperties
<1>5. traces # <<>>
  BY <1>1, <1>4
<1>6. ASSUME NEW t \in first..last
      PROVE  \E k \in 1..n : traces[k] = DescribedIn(known, t)
  <2>1. t - first + 1 \in 1..n /\ first + (t - first + 1) - 1 = t
    OBVIOUS
  <2>. QED
    BY <1>3, <2>1
<1>7. \A k \in 1..n : first + k - 1 \in first..last
  OBVIOUS
<1>8. \A d : d \in ToSet(traces) <=> \E t \in first..last : d = DescribedIn(known, t)
  <2>1. ToSet(traces) = {traces[k] : k \in 1..n}
    BY <1>3 DEF ToSet
  <2>2. \A k \in 1..n : \E t \in first..last : traces[k] = DescribedIn(known, t)
    BY <1>3, <1>7
  <2>. HIDE DEF n
  <2>. QED
    BY <1>6, <2>1, <2>2
<1>9. traces[1] = DescribedIn(known, first) /\ traces[n] = DescribedIn(known, last)
  <2>1. 1 \in 1..n /\ n \in 1..n /\ first + 1 - 1 = first /\ first + n - 1 = last
    BY <1>1
  <2>. QED
    BY <1>3, <2>1
<1>. QED
  BY <1>3, <1>4, <1>5, <1>8, <1>9

\* What an import may rely on, and what it takes, if a ZIP lists these Traces.
Sound(known, z, first, last) ==
    /\ Cardinality(Names(z)) = Len(z)
    /\ <<"manifest">> \in Names(z)
    /\ \A t \in first..last :
          /\ DOMAIN known[t] # {}
          /\ \E i \in DOMAIN z : z[i].name = Description(t) /\ z[i].value = DescribedIn(known, t)
          /\ \A p \in DOMAIN known[t] :
                \E i \in DOMAIN z : z[i].name = SourceFile(t, p) /\ z[i].value = known[t][p]
    /\ \A i \in DOMAIN z :
          \/ z[i].name = <<"manifest">>
          \/ \E t \in first..last : z[i].name = Description(t)
          \/ \E t \in first..last : \E p \in DOMAIN known[t] : z[i].name = SourceFile(t, p)

LEMMA DescribedParts ==
    ASSUME NEW known, NEW t
    PROVE  /\ DescribedIn(known, t).trace = Inputs[t] /\ DescribedIn(known, t).path = t
           /\ DescribedIn(known, t).digest = known[t] /\ DescribedIn(known, t).files = known[t]
BY DEF DescribedIn

LEMMA IntactIsSound ==
    ASSUME NEW known, NEW first \in Nat, NEW last \in 1..Len(Inputs), first \in 1..last,
           NEW z, Listed(z) = TracesOf(known, first, last)
    PROVE  Intact(z) <=> Sound(known, z, first, last)
<1> DEFINE traces == Listed(z)
           descriptors == {DescribedIn(known, t) : t \in first..last}
           named == {<<"manifest">>} \cup {Description(d.path) : d \in descriptors}
                        \cup UNION {{SourceFile(d.path, p) : p \in DOMAIN d.files} : d \in descriptors}
<1>0. last \in Nat /\ first <= last /\ Inputs \in Seq(Range(Inputs)) /\ IsInjective(Inputs)
  BY InputsCounted
<1>1. /\ DOMAIN traces = 1..(last - first + 1) /\ traces # <<>> /\ ToSet(traces) = descriptors
      /\ \A k \in DOMAIN traces : traces[k] = DescribedIn(known, first + k - 1)
  <2>1. /\ DOMAIN traces = 1..(last - first + 1) /\ traces # <<>>
        /\ \A d : d \in ToSet(traces) <=> \E t \in first..last : d = DescribedIn(known, t)
        /\ \A k \in DOMAIN traces : traces[k] = DescribedIn(known, first + k - 1)
    <3>1. first \in Nat /\ last \in Nat /\ first <= last
      BY <1>0
    <3>4. DOMAIN TracesOf(known, first, last) = 1..(last - first + 1)
      BY DEF TracesOf
    <3>5. TracesOf(known, first, last) # <<>>
      BY <3>1, TracesListed
    <3>2. /\ \A k \in DOMAIN TracesOf(known, first, last) :
                TracesOf(known, first, last)[k] = DescribedIn(known, first + k - 1)
      BY <3>1, TracesListed
    <3>3. \A d : d \in ToSet(TracesOf(known, first, last)) <=> \E t \in first..last : d = DescribedIn(known, t)
      BY <3>1, TracesListed
    <3>. QED
      BY <3>2, <3>3, <3>4, <3>5
  <2>. QED
    BY <2>1 DEF descriptors
<1>2. \A j, k \in DOMAIN traces : j # k => traces[j].path # traces[k].path /\ traces[j].trace # traces[k].trace
  <2> SUFFICES ASSUME NEW j \in DOMAIN traces, NEW k \in DOMAIN traces, j # k
               PROVE  traces[j].path # traces[k].path /\ traces[j].trace # traces[k].trace
    OBVIOUS
  <2>1. j \in Int /\ k \in Int /\ first + j - 1 \in 1..Len(Inputs) /\ first + k - 1 \in 1..Len(Inputs)
        /\ first + j - 1 # first + k - 1
    BY <1>0, <1>1
  <2>2. DOMAIN Inputs = 1..Len(Inputs)
    BY <1>0, LenProperties
  <2>3. Inputs[first + j - 1] # Inputs[first + k - 1]
    <3>1. \A a, b \in 1..Len(Inputs) : Inputs[a] = Inputs[b] => a = b
      BY <1>0, <2>2 DEF IsInjective
    <3>. QED
      BY <2>1, <3>1
  <2>. QED
    <3>1. traces[j] = DescribedIn(known, first + j - 1) /\ traces[k] = DescribedIn(known, first + k - 1)
      BY <1>1
    <3>. HIDE DEF traces
    <3>. QED
      BY <2>1, <2>3, <3>1, DescribedParts
<1>3. Unlisted(z) = Names(z) \ named
  BY <1>1 DEF Unlisted
<1>4. ASSUME NEW t \in first..last
      PROVE  ValidTrace(z, DescribedIn(known, t)) <=>
                /\ DOMAIN known[t] # {}
                /\ \E i \in DOMAIN z : z[i].name = Description(t) /\ z[i].value = DescribedIn(known, t)
                /\ \A p \in DOMAIN known[t] :
                      \E i \in DOMAIN z : z[i].name = SourceFile(t, p) /\ z[i].value = known[t][p]
  BY DescribedParts DEF ValidTrace, Holds
<1>5. \A name : name \in named <=>
          \/ name = <<"manifest">>
          \/ \E t \in first..last : name = Description(t)
          \/ \E t \in first..last : \E p \in DOMAIN known[t] : name = SourceFile(t, p)
  <2>1. ASSUME NEW d \in descriptors PROVE \E t \in first..last : d.path = t /\ d.files = known[t]
    <3>1. PICK t \in first..last : d = DescribedIn(known, t)
      OBVIOUS
    <3>. QED
      BY <3>1, DescribedParts
  <2>2. ASSUME NEW t \in first..last PROVE \E d \in descriptors : d.path = t /\ d.files = known[t]
    <3>1. DescribedIn(known, t) \in descriptors
      OBVIOUS
    <3>. QED
      BY <3>1, DescribedParts
  <2>. HIDE DEF descriptors
  <2>3. \A name : name \in {Description(d.path) : d \in descriptors} <=> \E t \in first..last : name = Description(t)
    BY <2>1, <2>2
  <2>4. \A name : name \in UNION {{SourceFile(d.path, p) : p \in DOMAIN d.files} : d \in descriptors} <=>
                    \E t \in first..last : \E p \in DOMAIN known[t] : name = SourceFile(t, p)
    BY <2>1, <2>2
  <2>. QED
    BY <2>3, <2>4
<1>6. Unlisted(z) = {} <=> \A i \in DOMAIN z : z[i].name \in named
  BY <1>3 DEF Names
<1>7. Intact(z) <=> /\ Cardinality(Names(z)) = Len(z) /\ <<"manifest">> \in Names(z)
                    /\ \A d \in descriptors : ValidTrace(z, d)
                    /\ Unlisted(z) = {}
  BY <1>1, <1>2 DEF Intact
<1>. HIDE DEF named
<1>8. Sound(known, z, first, last) <=>
         /\ Cardinality(Names(z)) = Len(z) /\ <<"manifest">> \in Names(z)
         /\ \A t \in first..last : ValidTrace(z, DescribedIn(known, t))
         /\ \A i \in DOMAIN z : z[i].name \in named
  <2>1. (\A t \in first..last : ValidTrace(z, DescribedIn(known, t))) <=>
           \A t \in first..last :
              /\ DOMAIN known[t] # {}
              /\ \E i \in DOMAIN z : z[i].name = Description(t) /\ z[i].value = DescribedIn(known, t)
              /\ \A p \in DOMAIN known[t] :
                    \E i \in DOMAIN z : z[i].name = SourceFile(t, p) /\ z[i].value = known[t][p]
    BY <1>4
  <2>2. (\A i \in DOMAIN z : z[i].name \in named) <=>
           \A i \in DOMAIN z :
              \/ z[i].name = <<"manifest">>
              \/ \E t \in first..last : z[i].name = Description(t)
              \/ \E t \in first..last : \E p \in DOMAIN known[t] : z[i].name = SourceFile(t, p)
    BY <1>5
  <2>. QED
    BY <2>1, <2>2 DEF Sound
<1>. QED
  BY <1>6, <1>7, <1>8

\* A ZIP that is begun lists the inputs it is for.
LEMMA BegunLists ==
    ASSUME NEW known, NEW first, NEW last, NEW z, Begun(known, z, first, last)
    PROVE  /\ Len(z) \in Nat /\ DOMAIN z = 1..Len(z) /\ 1 \in DOMAIN z
           /\ \A i \in DOMAIN z : z[i].name = <<"manifest">> <=> i = 1
           /\ z[1].value = TracesOf(known, first, last)
           /\ Listed(z) = TracesOf(known, first, last)
           /\ Cardinality(Names(z)) = Len(z)
           /\ z \in Seq(EntryType) /\ \A j, k \in DOMAIN z : z[j].name = z[k].name => j = k
<1>1. Len(z) \in Nat /\ DOMAIN z = 1..Len(z) /\ 1 \in DOMAIN z
  <2>1. z \in Seq(EntryType) /\ Len(z) > 0
    BY DEF Begun
  <2>2. Len(z) \in Nat /\ DOMAIN z = 1..Len(z)
    BY <2>1, LenProperties
  <2>. QED
    BY <2>1, <2>2
<1>2. z[1].name = <<"manifest">> /\ z[1].value = TracesOf(known, first, last)
  BY EntryParts DEF Begun, ManifestOf, TracesOf
<1>3. \A i \in DOMAIN z : z[i].name = <<"manifest">> <=> i = 1
  BY <1>1, <1>2 DEF Begun
<1>4. Listed(z) = z[1].value
  BY <1>1, <1>3, ManifestIsRead
<1>5. \A i, j \in 1..Len(z) : z[i].name = z[j].name => i = j
  BY <1>1 DEF Begun
<1>6. Cardinality(Names(z)) = Len(z)
  BY <1>1, <1>5, NamesCounted
<1>7. z \in Seq(EntryType) /\ \A j, k \in DOMAIN z : z[j].name = z[k].name => j = k
  BY DEF Begun
<1>. QED
  BY <1>1, <1>2, <1>3, <1>4, <1>6, <1>7

LEMMA WholeIsSound ==
    ASSUME NEW known, NEW first \in Nat, NEW last \in Nat,
           \A t \in first..last : known[t] \in FileSet, NEW z, Whole(known, z, first, last)
    PROVE  Sound(known, z, first, last)
<1>1. Begun(known, z, first, last)
  BY DEF Whole
<1>2. Cardinality(Names(z)) = Len(z) /\ <<"manifest">> \in Names(z)
  <2>1. Cardinality(Names(z)) = Len(z)
    BY <1>1, BegunLists
  <2>2. 1 \in DOMAIN z /\ z[1].name = <<"manifest">>
    BY <1>1, BegunLists
  <2>. QED
    BY <2>1, <2>2 DEF Names
<1>3. ASSUME NEW t \in first..last
      PROVE  /\ DOMAIN known[t] # {}
             /\ \E i \in DOMAIN z : z[i].name = Description(t) /\ z[i].value = DescribedIn(known, t)
             /\ \A p \in DOMAIN known[t] :
                   \E i \in DOMAIN z : z[i].name = SourceFile(t, p) /\ z[i].value = known[t][p]
  <2>1. DOMAIN known[t] # {}
    BY DEF FileSet
  <2>2. \E i \in DOMAIN z : z[i] = Entry(Description(t), DescribedIn(known, t))
    BY <1>1 DEF Begun
  <2>3. \A p \in DOMAIN known[t] : \E i \in DOMAIN z : z[i] = Entry(SourceFile(t, p), known[t][p])
    BY DEF Whole
  <2>. QED
    BY <2>1, <2>2, <2>3, EntryParts
<1>4. ASSUME NEW i \in DOMAIN z
      PROVE  \/ z[i].name = <<"manifest">>
             \/ \E t \in first..last : z[i].name = Description(t)
             \/ \E t \in first..last : \E p \in DOMAIN known[t] : z[i].name = SourceFile(t, p)
  <2>1. i = 1 => z[i].name = <<"manifest">>
    BY <1>1, BegunLists
  <2>2. \/ i = 1
        \/ \E t \in first..last : z[i] = Entry(Description(t), DescribedIn(known, t))
        \/ \E t \in first..last : \E p \in DOMAIN known[t] : z[i] = Entry(SourceFile(t, p), known[t][p])
    BY <1>1 DEF Begun
  <2>. QED
    BY <2>1, <2>2, EntryParts
<1>. QED
  BY <1>2, <1>3, <1>4 DEF Sound

\* ZIPs with the same entries in another order are read as the same.
LEMMA SameEntries ==
    ASSUME NEW y, NEW z, Listed(y) = Listed(z),
           \A i \in DOMAIN y : \E j \in DOMAIN z : y[i] = z[j],
           \A j \in DOMAIN z : \E i \in DOMAIN y : y[i] = z[j]
    PROVE  Content(y) = Content(z) /\ Names(y) = Names(z)
<1> DEFINE under(x, name) == {x[i].value : i \in {j \in DOMAIN x : x[j].name = name}}
           read(x, d) == [p \in DOMAIN d.files |-> under(x, SourceFile(d.path, p))]
<1>1. Names(y) = Names(z)
  BY DEF Names
<1>2. \A name : under(y, name) = under(z, name)
  OBVIOUS
<1>3. Content(y) = Content(z)
  <2>1. Content(y) = [d \in ToSet(Listed(y)) |-> read(y, d)]
    BY DEF Content
  <2>2. Content(z) = [d \in ToSet(Listed(z)) |-> read(z, d)]
    BY DEF Content
  <2>. HIDE DEF under
  <2>3. \A d : read(y, d) = read(z, d)
    BY <1>2
  <2>. HIDE DEF read
  <2>. QED
    BY <2>1, <2>2, <2>3
<1>. QED
  BY <1>1, <1>3

\* Of a ZIP that is read as the same Traces, with each entry under a name of its own,
\* every entry of a whole one is to be found.
LEMMA FoundAgain ==
    ASSUME NEW known, NEW first \in Nat, NEW last \in Nat, NEW z, Whole(known, z, first, last),
           NEW y, Sound(known, y, first, last), NEW i \in DOMAIN z, i # 1
    PROVE  \E j \in DOMAIN y : y[j].name = z[i].name /\ y[j].value = z[i].value
<1>1. \/ \E t \in first..last : z[i] = Entry(Description(t), DescribedIn(known, t))
      \/ \E t \in first..last : \E p \in DOMAIN known[t] : z[i] = Entry(SourceFile(t, p), known[t][p])
  BY DEF Whole, Begun
<1>2. CASE \E t \in first..last : z[i] = Entry(Description(t), DescribedIn(known, t))
  BY <1>2, EntryParts DEF Sound
<1>3. CASE \E t \in first..last : \E p \in DOMAIN known[t] : z[i] = Entry(SourceFile(t, p), known[t][p])
  BY <1>3, EntryParts, SMTT(30) DEF Sound
<1>. QED
  BY <1>1, <1>2, <1>3

\* The names of a ZIP that is sound differ.
LEMMA SoundNames ==
    ASSUME NEW known, NEW first, NEW last, NEW y, NEW n \in Nat, DOMAIN y = 1..n, Len(y) = n,
           Sound(known, y, first, last)
    PROVE  \A i, j \in 1..n : y[i].name = y[j].name => i = j
BY NamesCounted DEF Sound

\* An entry that is lost is missed.
LEMMA LossRefused ==
    ASSUME NEW known, NEW first \in Nat, NEW last \in 1..Len(Inputs), first \in 1..last,
           NEW z, Whole(known, z, first, last), NEW i \in DOMAIN z
    PROVE  ~Intact(RemoveAt(z, i))
<1> DEFINE n == Len(z)
           y == RemoveAt(z, i)
<1>1. Begun(known, z, first, last) /\ last \in Nat
  BY InputsCounted, LenProperties DEF Whole
<1>2. /\ n \in Nat /\ DOMAIN z = 1..n /\ 1 \in DOMAIN z
      /\ \A k \in DOMAIN z : z[k].name = <<"manifest">> <=> k = 1
      /\ z[1].value = TracesOf(known, first, last)
  BY <1>1, BegunLists
<1>3. \A j, k \in 1..n : z[j].name = z[k].name => j = k
  BY <1>1, <1>2 DEF Begun
<1>4. z \in Seq(EntryType) /\ \A k \in 1..n : z[k] \in EntryType
  BY <1>1, <1>2, ElementOfSeq DEF Begun
<1>5. /\ DOMAIN y = 1..n - 1
      /\ \A k \in 1..n - 1 : y[k] = z[IF k < i THEN k ELSE k + 1]
  <2> DEFINE earlier == SubSeq(z, 1, i - 1)
             after == SubSeq(z, i + 1, n)
  <2>1. i \in Int /\ 1 <= i /\ i <= n
    BY <1>2
  <2>2. /\ earlier \in Seq(EntryType) /\ Len(earlier) = i - 1
        /\ \A k \in 1..i - 1 : earlier[k] = z[k]
    <3>1. 1 \in Int /\ i - 1 \in Int /\ \A k \in 1..i - 1 : z[k] \in EntryType
      BY <1>2, <1>4, <2>1
    <3>2. /\ earlier \in Seq(EntryType) /\ Len(earlier) = IF 1 <= i - 1 THEN i - 1 - 1 + 1 ELSE 0
          /\ \A k \in 1..i - 1 - 1 + 1 : earlier[k] = z[1 + k - 1]
      BY <3>1, SubSeqProperties
    <3>. HIDE DEF earlier
    <3>. QED
      BY <2>1, <3>2
  <2>3. /\ after \in Seq(EntryType) /\ Len(after) = n - i
        /\ \A k \in 1..n - i : after[k] = z[i + k]
    <3>1. i + 1 \in Int /\ n \in Int /\ \A k \in i + 1..n : z[k] \in EntryType
      BY <1>2, <1>4, <2>1
    <3>2. /\ after \in Seq(EntryType) /\ Len(after) = IF i + 1 <= n THEN n - (i + 1) + 1 ELSE 0
          /\ \A k \in 1..n - (i + 1) + 1 : after[k] = z[i + 1 + k - 1]
      BY <3>1, SubSeqProperties, SMTT(30)
    <3>. HIDE DEF after, n
    <3>3. n \in Int
      BY <3>1
    <3>. QED
      BY <2>1, <3>2, <3>3
  <2>4. y = earlier \o after
    BY DEF RemoveAt
  <2>. HIDE DEF y, earlier, after
  <2>5. /\ y \in Seq(EntryType) /\ Len(y) = i - 1 + (n - i)
        /\ \A k \in 1..i - 1 + (n - i) : y[k] = IF k <= i - 1 THEN earlier[k] ELSE after[k - (i - 1)]
    BY <2>2, <2>3, <2>4, ConcatProperties
  <2>6. DOMAIN y = 1..Len(y) /\ Len(y) = n - 1
    BY <1>2, <2>1, <2>5, LenProperties
  <2>7. ASSUME NEW k \in 1..n - 1
        PROVE  y[k] = z[IF k < i THEN k ELSE k + 1]
    <3>1. k \in 1..i - 1 + (n - i) /\ k \in Int /\ n \in Int
      BY <1>2, <2>1
    <3>2. CASE k < i
      <4>1. y[k] = earlier[k] /\ k \in 1..i - 1
        BY <2>1, <2>5, <3>1, <3>2
      <4>. QED
        BY <2>2, <3>2, <4>1
    <3>3. CASE ~(k < i)
      <4>. HIDE DEF n
      <4>1. y[k] = after[k - (i - 1)] /\ k - (i - 1) \in 1..n - i /\ i + (k - (i - 1)) = k + 1
        BY <2>1, <2>5, <3>1, <3>3
      <4>. QED
        BY <2>3, <3>3, <4>1
    <3>. QED
      BY <3>2, <3>3
  <2>. QED
    BY <2>6, <2>7
<1>. HIDE DEF y
<1>6. \A k \in DOMAIN y : y[k].name # z[i].name
  <2>. HIDE DEF n
  <2>. QED
    BY <1>2, <1>3, <1>5
<1>7. CASE i = 1
  <2>1. \A k \in DOMAIN y : y[k].name # <<"manifest">>
    BY <1>2, <1>6, <1>7
  <2>. QED
    BY <2>1, NothingListed DEF Intact, y
<1>8. CASE i # 1
  <2>1. 1 \in DOMAIN y /\ y[1] = z[1]
    <3>. HIDE DEF n
    <3>. QED
      BY <1>2, <1>5, <1>8
  <2>2. ASSUME NEW k \in DOMAIN y
        PROVE  y[k].name = <<"manifest">> <=> k = 1
    <3> DEFINE j == IF k < i THEN k ELSE k + 1
    <3>. HIDE DEF n
    <3>1. j \in DOMAIN z /\ y[k] = z[j] /\ (j = 1 <=> k = 1)
      BY <1>2, <1>5, <1>8
    <3>. HIDE DEF j
    <3>. QED
      BY <1>2, <3>1
  <2>3. Listed(y) = TracesOf(known, first, last)
    BY <1>2, <2>1, <2>2, ManifestIsRead
  <2>4. ASSUME Sound(known, y, first, last)
        PROVE  FALSE
    <3>1. first \in Nat /\ last \in Nat /\ i \in DOMAIN z /\ i # 1 /\ Whole(known, z, first, last)
      BY <1>1, <1>8
    <3>2. \E j \in DOMAIN y : y[j].name = z[i].name /\ y[j].value = z[i].value
      BY <2>4, <3>1, FoundAgain
    <3>. QED
      BY <1>6, <3>2
  <2>5. Intact(y) <=> Sound(known, y, first, last)
    BY <1>1, <2>3, IntactIsSound
  <2>. QED
    BY <2>4, <2>5 DEF y
<1>. QED
  BY <1>7, <1>8

\* A second entry of a name is refused.
LEMMA RepeatRefused ==
    ASSUME NEW known, NEW first, NEW last, NEW z, Begun(known, z, first, last),
           NEW e \in EntryType, NEW i \in DOMAIN z, z[i].name = e.name
    PROVE  ~Intact(Append(z, e))
<1> DEFINE y == Append(z, e)
<1>1. Len(z) \in Nat /\ DOMAIN z = 1..Len(z) /\ z \in Seq(EntryType)
  BY BegunLists DEF Begun
<1>2. /\ y \in Seq(EntryType) /\ Len(y) = Len(z) + 1
      /\ y[i] = z[i] /\ y[Len(z) + 1] = e
  BY <1>1, AppendProperties
<1>. HIDE DEF y
<1>3. DOMAIN y = 1..Len(z) + 1 /\ Len(z) + 1 \in Nat
  BY <1>1, <1>2, LenProperties
<1>4. i \in 1..Len(z) + 1 /\ Len(z) + 1 \in 1..Len(z) + 1 /\ i # Len(z) + 1
  BY <1>1
<1>5. Cardinality(Names(y)) # Len(z) + 1
  BY <1>2, <1>3, <1>4, NamesCounted
<1>. QED
  BY <1>2, <1>5 DEF Intact, y

LEMMA LengthOf ==
    ASSUME NEW y, NEW n \in Nat, y = [i \in 1..n |-> y[i]]
    PROVE  Len(y) = n
<1> DEFINE values == {y[i] : i \in 1..n}
<1>1. y \in [1..n -> values] /\ DOMAIN y = 1..n
  OBVIOUS
<1>2. y \in Seq(values)
  BY <1>1, SeqDef
<1>. HIDE DEF values
<1>3. Len(y) \in Nat /\ 1..n = 1..Len(y)
  BY <1>1, <1>2, LenProperties
<1>. QED
  BY <1>3

\* An entry no descriptor lists is refused, and one that is listed is there already.
LEMMA AdditionRefused ==
    ASSUME NEW known, NEW first \in Nat, NEW last \in 1..Len(Inputs), first \in 1..last,
           NEW z, Whole(known, z, first, last), NEW t, NEW p, NEW c,
           Entry(SourceFile(t, p), c) \in EntryType
    PROVE  ~Intact(Append(z, Entry(SourceFile(t, p), c)))
<1> DEFINE e == Entry(SourceFile(t, p), c)
           y == Append(z, e)
           n == Len(z)
<1>1. Begun(known, z, first, last) /\ last \in Nat
  BY InputsCounted, LenProperties DEF Whole
<1>2. /\ n \in Nat /\ DOMAIN z = 1..n /\ 1 \in DOMAIN z /\ z \in Seq(EntryType)
      /\ \A k \in DOMAIN z : z[k].name = <<"manifest">> <=> k = 1
      /\ z[1].value = TracesOf(known, first, last)
  BY <1>1, BegunLists
<1>3. e.name = SourceFile(t, p)
  BY EntryParts
<1>. HIDE DEF e
<1>4. CASE \E i \in DOMAIN z : z[i].name = SourceFile(t, p)
  BY <1>1, <1>3, <1>4, RepeatRefused DEF e
<1>5. CASE \A i \in DOMAIN z : z[i].name # SourceFile(t, p)
  <2>1. /\ y \in Seq(EntryType) /\ Len(y) = n + 1
        /\ \A k \in 1..n : y[k] = z[k]
        /\ y[n + 1] = e
    BY <1>2, AppendProperties DEF e
  <2>. HIDE DEF y
  <2>2. DOMAIN y = 1..n + 1
    BY <2>1, LenProperties
  <2>3. 1 \in DOMAIN y /\ y[1] = z[1] /\ n + 1 \in DOMAIN y /\ n + 1 # 1
    <3>. HIDE DEF n
    <3>. QED
      BY <1>2, <2>1, <2>2
  <2>4. \A k \in DOMAIN y : y[k].name = <<"manifest">> <=> k = 1
    <3>1. \A k \in DOMAIN y : k \in DOMAIN z \/ k = n + 1
      BY <1>2, <2>2
    <3>2. y[n + 1].name # <<"manifest">>
      BY <1>3, <2>1, NamesDiffer
    <3>. HIDE DEF n
    <3>. QED
      BY <1>2, <2>1, <2>3, <3>1, <3>2
  <2>5. Listed(y) = TracesOf(known, first, last)
    BY <1>2, <2>3, <2>4, ManifestIsRead
  <2>6. ASSUME Sound(known, y, first, last)
        PROVE  FALSE
    <3>1. \E u \in first..last : \E q \in DOMAIN known[u] : SourceFile(t, p) = SourceFile(u, q)
      <4>1. y[n + 1].name = SourceFile(t, p)
        BY <1>3, <2>1
      <4>2. \/ y[n + 1].name = <<"manifest">>
            \/ \E u \in first..last : y[n + 1].name = Description(u)
            \/ \E u \in first..last : \E q \in DOMAIN known[u] : y[n + 1].name = SourceFile(u, q)
        BY <2>3, <2>6 DEF Sound
      <4>. QED
        BY <4>1, <4>2, NamesDiffer
    <3>2. PICK u \in first..last : \E q \in DOMAIN known[u] : SourceFile(t, p) = SourceFile(u, q)
      BY <3>1
    <3>4. PICK q \in DOMAIN known[u] : SourceFile(t, p) = SourceFile(u, q)
      BY <3>2
    <3>3. \E i \in DOMAIN z : z[i] = Entry(SourceFile(u, q), known[u][q])
      BY DEF Whole
    <3>. QED
      BY <1>5, <3>3, <3>4, EntryParts
  <2>. QED
    BY <1>1, <2>5, <2>6, IntactIsSound DEF y, e
<1>. QED
  BY <1>4, <1>5 DEF y, e

\* A file with other bytes is refused.
LEMMA AlterationRefused ==
    ASSUME NEW known, NEW first \in Nat, NEW last \in 1..Len(Inputs), first \in 1..last,
           NEW z, Whole(known, z, first, last), NEW i \in DOMAIN z, i # 1, NEW c,
           Intact(Altered(z, i, c))
    PROVE  Altered(z, i, c) = z
<1> DEFINE y == Altered(z, i, c)
           n == Len(z)
<1>1. Begun(known, z, first, last) /\ last \in Nat
  BY InputsCounted, LenProperties DEF Whole
<1>2. /\ n \in Nat /\ DOMAIN z = 1..n /\ 1 \in DOMAIN z /\ z \in Seq(EntryType)
      /\ \A k \in DOMAIN z : z[k].name = <<"manifest">> <=> k = 1
      /\ z[1].value = TracesOf(known, first, last)
      /\ \A j, k \in DOMAIN z : z[j].name = z[k].name => j = k
  BY <1>1, BegunLists
<1>3. /\ DOMAIN y = DOMAIN z /\ y[i] = Entry(z[i].name, c)
      /\ \A k \in DOMAIN z : k # i => y[k] = z[k]
  BY <1>2 DEF Altered
<1>. HIDE DEF y, n
<1>4. \A k \in DOMAIN z : y[k].name = z[k].name
  BY <1>3, EntryParts
<1>5. Listed(y) = TracesOf(known, first, last)
  <2>1. 1 \in DOMAIN y /\ y[1] = z[1]
    BY <1>2, <1>3
  <2>2. \A k \in DOMAIN y : y[k].name = <<"manifest">> <=> k = 1
    BY <1>2, <1>3, <1>4
  <2>. QED
    BY <1>2, <2>1, <2>2, ManifestIsRead
<1>6. Sound(known, y, first, last)
  BY <1>1, <1>5, IntactIsSound DEF y
<1>7. PICK j \in DOMAIN y : y[j].name = z[i].name /\ y[j].value = z[i].value
  <2>1. first \in Nat /\ last \in Nat /\ i \in DOMAIN z /\ i # 1 /\ Whole(known, z, first, last)
    BY <1>1
  <2>. QED
    BY <1>6, <2>1, FoundAgain, SMTT(60)
<1>8. j = i
  BY <1>2, <1>3, <1>4, <1>7
<1>9. z[i] = Entry(z[i].name, c)
  <2>1. z[i].value = c
    BY <1>3, <1>7, <1>8, EntryParts
  <2>2. z[i] \in EntryType
    BY <1>2, ElementOfSeq DEF n
  <2>3. z[i] = [name |-> z[i].name, value |-> z[i].value]
    BY <2>2 DEF EntryType
  <2>. QED
    BY <2>1, <2>3 DEF Entry
<1>10. z = [z EXCEPT ![i] = z[i]]
  <2>1. z \in [1..n -> EntryType]
    BY <1>2, LenProperties DEF n
  <2>. QED
    BY <2>1
<1>. QED
  BY <1>9, <1>10 DEF Altered

\* Files may be exchanged only for files of the same bytes, and descriptors not at all.
LEMMA ExchangeRefused ==
    ASSUME NEW known, NEW first \in Nat, NEW last \in 1..Len(Inputs), first \in 1..last,
           NEW z, Whole(known, z, first, last),
           NEW i \in DOMAIN z, NEW j \in DOMAIN z, z[j].name[1] = z[i].name[1],
           Intact(Exchanged(z, i, j))
    PROVE  /\ Content(Exchanged(z, i, j)) = Content(z)
           /\ Names(Exchanged(z, i, j)) = Names(z)
<1> DEFINE y == Exchanged(z, i, j)
           n == Len(z)
<1>1. Begun(known, z, first, last) /\ last \in Nat
  BY InputsCounted, LenProperties DEF Whole
<1>2. /\ n \in Nat /\ DOMAIN z = 1..n /\ 1 \in DOMAIN z /\ z \in Seq(EntryType)
      /\ \A k \in DOMAIN z : z[k].name = <<"manifest">> <=> k = 1
      /\ z[1].value = TracesOf(known, first, last)
      /\ Listed(z) = TracesOf(known, first, last)
      /\ \A k, l \in DOMAIN z : z[k].name = z[l].name => k = l
  BY <1>1, BegunLists
<1>3. /\ DOMAIN y = DOMAIN z /\ y = [k \in DOMAIN z |-> y[k]]
      /\ y[j] = Entry(z[i].name, z[j].value)
      /\ i # j => y[i] = Entry(z[j].name, z[i].value)
      /\ \A k \in DOMAIN z : k # i /\ k # j => y[k] = z[k]
  <2>1. z \in [1..n -> EntryType]
    BY <1>2, LenProperties
  <2>. HIDE DEF n
  <2>. QED
    BY <1>2, <2>1 DEF Exchanged
<1>. HIDE DEF y, n
<1>4. \A k \in DOMAIN z : z[k] = Entry(z[k].name, z[k].value)
  <2>1. \A k \in DOMAIN z : z[k] \in EntryType
    BY <1>2, ElementOfSeq DEF n
  <2>. QED
    BY <2>1 DEF EntryType, Entry
<1>5. CASE i = j
  <2>1. \A k \in DOMAIN z : y[k] = z[k]
    BY <1>3, <1>4, <1>5
  <2>2. y = z
    <3>1. z = [k \in DOMAIN z |-> z[k]]
      BY <1>2, LenProperties
    <3>. QED
      BY <1>3, <2>1, <3>1
  <2>. QED
    BY <2>2 DEF y
<1>6. CASE i # j
  <2>1. z[1].name[1] = "manifest"
    BY <1>2, NamesDiffer
  <2>2. \A k \in DOMAIN z : k # 1 => z[k].name[1] # "manifest"
    <3> SUFFICES ASSUME NEW k \in DOMAIN z, k # 1 PROVE z[k].name[1] # "manifest"
      OBVIOUS
    <3>1. \/ \E t \in first..last : z[k] = Entry(Description(t), DescribedIn(known, t))
          \/ \E t \in first..last : \E p \in DOMAIN known[t] : z[k] = Entry(SourceFile(t, p), known[t][p])
      BY <1>1 DEF Begun
    <3>2. (\E t : z[k].name = Description(t)) \/ (\E t, p : z[k].name = SourceFile(t, p))
      BY <3>1, EntryParts
    <3>3. "source" # "manifest" /\ "descriptor" # "manifest"
      OBVIOUS
    <3>. QED
      BY <3>2, <3>3, NamesDiffer
  <2>3. i # 1 /\ j # 1
    BY <1>6, <2>1, <2>2
  <2>4. 1 \in DOMAIN y /\ y[1] = z[1]
    BY <1>2, <1>3, <2>3
  <2>5. \A k \in DOMAIN y : y[k].name = <<"manifest">> <=> k = 1
    <3>1. y[i].name = z[j].name /\ y[j].name = z[i].name
      BY <1>3, <1>6, EntryParts
    <3>. QED
      BY <1>2, <1>3, <2>3, <3>1
  <2>6. Listed(y) = TracesOf(known, first, last)
    BY <1>2, <2>4, <2>5, ManifestIsRead
  <2>7. Sound(known, y, first, last)
    BY <1>1, <2>6, IntactIsSound DEF y
  <2>8. Len(y) = n
    BY <1>2, <1>3, LengthOf
  <2>9. \A k, l \in 1..n : y[k].name = y[l].name => k = l
    BY <1>2, <1>3, <2>7, <2>8, SoundNames
  <2>10. y[j].value = z[i].value
    <3>1. PICK k \in DOMAIN y : y[k].name = z[i].name /\ y[k].value = z[i].value
      BY <1>1, <2>3, <2>7, FoundAgain
    <3>2. y[j].name = z[i].name
      BY <1>3, EntryParts
    <3>. QED
      BY <1>2, <1>3, <2>9, <3>1, <3>2
  <2>11. z[j].value = z[i].value
    BY <1>3, <2>10, EntryParts
  <2>12. y[j] = z[i] /\ y[i] = z[j]
    BY <1>3, <1>4, <1>6, <2>11
  <2>13. /\ \A k \in DOMAIN y : \E l \in DOMAIN z : y[k] = z[l]
         /\ \A l \in DOMAIN z : \E k \in DOMAIN y : y[k] = z[l]
    BY <1>3, <2>12
  <2>14. Listed(y) = Listed(z)
    BY <1>2, <2>6
  <2>15. Content(y) = Content(z) /\ Names(y) = Names(z)
    BY <2>13, <2>14, SameEntries
  <2>. QED
    BY <2>15 DEF y
<1>. QED
  BY <1>5, <1>6

\* A manifest that lists a Trace twice is refused.
LEMMA SecondListingRefused ==
    ASSUME NEW known, NEW first \in Nat, NEW last \in 1..Len(Inputs), first \in 1..last,
           NEW z, Begun(known, z, first, last)
    PROVE  ~Intact(Altered(z, 1, Append(Listed(z), Head(Listed(z)))))
<1> DEFINE traces == TracesOf(known, first, last)
           more == Append(traces, Head(traces))
           y == Altered(z, 1, more)
           m == last - first + 1
<1>1. m \in Nat /\ m > 0 /\ last \in Nat /\ first <= last
  BY InputsCounted, LenProperties
<1>2. /\ Len(z) \in Nat /\ DOMAIN z = 1..Len(z) /\ 1 \in DOMAIN z
      /\ \A k \in DOMAIN z : z[k].name = <<"manifest">> <=> k = 1
      /\ Listed(z) = traces
  BY BegunLists
<1>3. /\ DOMAIN y = DOMAIN z /\ y[1] = Entry(z[1].name, more)
      /\ \A k \in DOMAIN z : k # 1 => y[k] = z[k]
  BY <1>2 DEF Altered
<1>4. traces \in Seq(ToSet(traces)) /\ Len(traces) = m /\ traces # <<>>
  <2>1. traces = [k \in 1..m |-> traces[k]] /\ DOMAIN traces = 1..m
    BY DEF TracesOf
  <2>2. traces \in [1..m -> ToSet(traces)]
    BY <2>1 DEF ToSet
  <2>3. traces \in Seq(ToSet(traces))
    BY <1>1, <2>2, SeqDef
  <2>4. Len(traces) = m
    BY <1>1, <2>1, LengthOf
  <2>. HIDE DEF traces, m
  <2>. QED
    BY <1>1, <2>3, <2>4
<1>. HIDE DEF traces, m, y
<1>5. Head(traces) = traces[1] /\ traces[1] \in ToSet(traces)
  BY <1>1, <1>4, LenProperties DEF ToSet
<1>6. /\ more \in Seq(ToSet(traces)) /\ Len(more) = m + 1 /\ more[1] = traces[1] /\ more[m + 1] = traces[1]
  <2>1. /\ more \in Seq(ToSet(traces)) /\ Len(more) = Len(traces) + 1
        /\ \A k \in 1..Len(traces) : more[k] = traces[k]
        /\ more[Len(traces) + 1] = Head(traces)
    BY <1>4, <1>5, AppendProperties
  <2>. HIDE DEF more
  <2>. QED
    BY <1>1, <1>4, <1>5, <2>1
<1>. HIDE DEF more
<1>7. 1 \in DOMAIN more /\ m + 1 \in DOMAIN more /\ m + 1 # 1 /\ more[1].path = more[m + 1].path
  BY <1>1, <1>6, LenProperties
<1>8. Listed(y) = more
  <2>1. \A k \in DOMAIN y : y[k].name = <<"manifest">> <=> k = 1
    BY <1>2, <1>3, EntryParts
  <2>2. 1 \in DOMAIN y /\ y[1].value = more
    BY <1>2, <1>3, EntryParts
  <2>. QED
    BY <2>1, <2>2, ManifestIsRead
<1>9. ~Intact(y)
  BY <1>7, <1>8 DEF Intact
<1>. QED
  BY <1>2, <1>9 DEF y, more

\* A Trace that is taken from the manifest leaves files that are not listed.
LEMMA MissingListingRefused ==
    ASSUME NEW known, NEW first \in Nat, NEW last \in 1..Len(Inputs), first \in 1..last,
           NEW z, Begun(known, z, first, last)
    PROVE  ~Intact(Altered(z, 1, Tail(Listed(z))))
<1> DEFINE traces == TracesOf(known, first, last)
           fewer == Tail(traces)
           y == Altered(z, 1, fewer)
           m == last - first + 1
<1>1. m \in Nat /\ m > 0 /\ last \in Nat /\ first <= last
  BY InputsCounted, LenProperties
<1>2. /\ Len(z) \in Nat /\ DOMAIN z = 1..Len(z) /\ 1 \in DOMAIN z
      /\ \A k \in DOMAIN z : z[k].name = <<"manifest">> <=> k = 1
      /\ Listed(z) = traces
  BY BegunLists
<1>3. /\ DOMAIN y = DOMAIN z /\ y[1] = Entry(z[1].name, fewer)
      /\ \A k \in DOMAIN z : k # 1 => y[k] = z[k]
  BY <1>2 DEF Altered
<1>4. /\ traces \in Seq(ToSet(traces)) /\ Len(traces) = m /\ traces # <<>>
      /\ \A k \in 1..m : traces[k] = DescribedIn(known, first + k - 1)
  <2>1. traces = [k \in 1..m |-> traces[k]] /\ DOMAIN traces = 1..m
        /\ \A k \in 1..m : traces[k] = DescribedIn(known, first + k - 1)
    BY DEF TracesOf
  <2>2. traces \in [1..m -> ToSet(traces)]
    BY <2>1 DEF ToSet
  <2>3. traces \in Seq(ToSet(traces))
    BY <1>1, <2>2, SeqDef
  <2>4. Len(traces) = m
    BY <1>1, <2>1, LengthOf
  <2>. HIDE DEF traces, m
  <2>. QED
    BY <1>1, <2>1, <2>3, <2>4
<1>. HIDE DEF traces, y
<1>5. /\ fewer \in Seq(ToSet(traces)) /\ Len(fewer) = m - 1
      /\ \A k \in 1..m - 1 : fewer[k] = traces[k + 1]
  BY <1>4, HeadTailProperties
<1>. HIDE DEF fewer
<1>6. \A d \in ToSet(fewer) : \E t \in first + 1..last : d = DescribedIn(known, t)
  <2> SUFFICES ASSUME NEW k \in 1..m - 1
               PROVE  \E t \in first + 1..last : fewer[k] = DescribedIn(known, t)
    BY <1>5, LenProperties DEF ToSet
  <2>1. fewer[k] = DescribedIn(known, first + (k + 1) - 1) /\ first + (k + 1) - 1 \in first + 1..last
    BY <1>1, <1>4, <1>5
  <2>. QED
    BY <2>1
<1>7. Listed(y) = fewer
  <2>1. \A k \in DOMAIN y : y[k].name = <<"manifest">> <=> k = 1
    BY <1>2, <1>3, EntryParts
  <2>2. 1 \in DOMAIN y /\ y[1].value = fewer
    BY <1>2, <1>3, EntryParts
  <2>. QED
    BY <2>1, <2>2, ManifestIsRead
<1>8. Description(first) \in Names(y)
  <2>1. PICK i \in DOMAIN z : z[i] = Entry(Description(first), DescribedIn(known, first))
    <3>1. first \in first..last
      BY <1>1
    <3>. QED
      BY <3>1 DEF Begun
  <2>2. i # 1
    BY <1>2, <2>1, EntryParts, NamesDiffer
  <2>. QED
    BY <1>3, <2>1, <2>2, EntryParts DEF Names
<1>9. ASSUME Unlisted(y) = {}
      PROVE  FALSE
  <2> DEFINE named == {<<"manifest">>} \cup {Description(d.path) : d \in ToSet(fewer)}
                          \cup UNION {{SourceFile(d.path, p) : p \in DOMAIN d.files} : d \in ToSet(fewer)}
  <2>1. Description(first) \in named
    BY <1>7, <1>8, <1>9 DEF Unlisted
  <2>2. PICK d \in ToSet(fewer) : Description(first) = Description(d.path)
    BY <2>1, NamesDiffer
  <2>3. PICK t \in first + 1..last : d = DescribedIn(known, t)
    BY <1>6
  <2>. QED
    BY <2>2, <2>3, NamesDiffer, DescribedParts
<1>10. ~Intact(y)
  BY <1>9 DEF Intact
<1>. QED
  BY <1>2, <1>10 DEF y, fewer

\* Nothing of a whole ZIP is lost unnoticed.
LEMMA DamageIsSeen ==
    ASSUME NEW known, NEW first \in Nat, NEW last \in 1..Len(Inputs), first \in 1..last,
           NEW z, Whole(known, z, first, last), NEW y \in Damaged(z), Intact(y)
    PROVE  Content(y) = Content(z) /\ Names(y) = Names(z)
<1>1. Begun(known, z, first, last)
  BY DEF Whole
<1>2. z \in Seq(EntryType) /\ 1 \in DOMAIN z /\ z[1].name = <<"manifest">>
  BY <1>1, BegunLists
<1>3. \A i \in DOMAIN z : z[i] \in EntryType
  BY <1>2, ElementOfSeq, LenProperties
<1>4. ASSUME NEW i \in DOMAIN z, y = RemoveAt(z, i)
      PROVE  FALSE
  BY <1>4, LossRefused
<1>5. ASSUME NEW i \in DOMAIN z, y = Append(z, z[i])
      PROVE  FALSE
  BY <1>1, <1>3, <1>5, RepeatRefused
<1>6. ASSUME NEW t \in DOMAIN Inputs, NEW p \in SourcePath, NEW c \in Bytes, y = Append(z, Entry(SourceFile(t, p), c))
      PROVE  FALSE
  <2>1. Entry(SourceFile(t, p), c) \in EntryType
    BY DEF Entry, EntryType
  <2>. QED
    BY <1>6, <2>1, AdditionRefused
<1>7. ASSUME NEW i \in DOMAIN z, z[i].name[1] = "source", NEW c \in Bytes, y = Altered(z, i, c)
      PROVE  y = z
  <2>1. i # 1
    <3>1. z[1].name[1] = "manifest" /\ "manifest" # "source"
      BY <1>2, NamesDiffer
    <3>. QED
      BY <1>7, <3>1
  <2>. QED
    BY <1>7, <2>1, AlterationRefused
<1>8. ASSUME NEW i \in DOMAIN z, NEW j \in DOMAIN z, z[j].name[1] = z[i].name[1], y = Exchanged(z, i, j)
      PROVE  Content(y) = Content(z) /\ Names(y) = Names(z)
  BY <1>8, ExchangeRefused
<1>9. y # Altered(z, 1, Append(Listed(z), Head(Listed(z))))
  BY <1>1, SecondListingRefused
<1>10. y # Altered(z, 1, Tail(Listed(z)))
  BY <1>1, MissingListingRefused
<1>11. \/ \E i \in DOMAIN z : y = RemoveAt(z, i)
       \/ \E i \in DOMAIN z : y = Append(z, z[i])
       \/ \E t \in DOMAIN Inputs : \E p \in SourcePath : \E c \in Bytes : y = Append(z, Entry(SourceFile(t, p), c))
       \/ \E i \in DOMAIN z : \E c \in Bytes : z[i].name[1] = "source" /\ y = Altered(z, i, c)
       \/ \E i \in DOMAIN z : \E j \in DOMAIN z : z[j].name[1] = z[i].name[1] /\ y = Exchanged(z, i, j)
  <2>1. y \in Lost(z) => \E i \in DOMAIN z : y = RemoveAt(z, i)
    BY DEF Lost
  <2>2. y \in Doubled(z) => \E i \in DOMAIN z : y = Append(z, z[i])
    BY DEF Doubled
  <2>3. y \in Added(z) =>
           \E t \in DOMAIN Inputs : \E p \in SourcePath : \E c \in Bytes : y = Append(z, Entry(SourceFile(t, p), c))
    BY DEF Added
  <2>4. y \in Rewritten(z) => \E i \in DOMAIN z : \E c \in Bytes : z[i].name[1] = "source" /\ y = Altered(z, i, c)
    BY DEF Rewritten
  <2>5. y \in MixedUp(z) =>
           \E i \in DOMAIN z : \E j \in DOMAIN z : z[j].name[1] = z[i].name[1] /\ y = Exchanged(z, i, j)
    BY DEF MixedUp
  <2>6. y \notin Relisted(z)
    BY <1>9, <1>10 DEF Relisted
  <2>. QED
    BY <2>1, <2>2, <2>3, <2>4, <2>5, <2>6 DEF Damaged
<1>. QED
  BY <1>4, <1>5, <1>6, <1>7, <1>8, <1>11

-----------------------------------------------------------------------------
\* The invariant of Write: each ZIP that is finished is whole, and the one that is being
\* written lacks only some files, of inputs whose description is not changed any more.
ArchiveType ==
    /\ disk \in [DOMAIN Inputs -> [SourcePath -> Bytes \cup {None}]]
    /\ phase \in {"describe", "write", "done", "failed"}
    /\ described \in Seq(FileSet) /\ Len(described) <= Len(Inputs)
    /\ walk \in SUBSET SourcePath /\ partial \in PathFiles
    /\ outputs \in Seq(Seq(EntryType))

FirstLeft(ready) == NextOf(ready, Len(ready))

Packed(known, z, first, last) ==
    /\ last \in 1..Len(Inputs) /\ first \in 1..last
    /\ Whole(known, z, first, last)
    /\ last = first \/ SizeFrom(known, first, last) <= SplitSize

Finished(known, ready, n) ==
    NextOf(ready, n) \in Int /\ Packed(known, ready[n], NextOf(ready, n - 1), NextOf(ready, n) - 1)

LEMMA FinishedByPacked ==
    ASSUME NEW known, NEW ready, NEW n, NEW first, NEW last \in Int,
           NextOf(ready, n - 1) = first, NextOf(ready, n) = last + 1, Packed(known, ready[n], first, last)
    PROVE  Finished(known, ready, n)
<1> DEFINE next == NextOf(ready, n)
<1>1. next = last + 1
  OBVIOUS
<1>. HIDE DEF next
<1>2. next \in Int /\ next - 1 = last
  BY <1>1
<1>. QED
  BY <1>2 DEF Finished, next

ArchiveIInv ==
    /\ ArchiveType
    /\ phase = "describe" => Len(described) < Len(Inputs) /\ outputs = <<>>
    /\ phase = "write" => Len(described) = Len(Inputs) /\ FirstLeft(outputs) <= Len(Inputs)
    /\ phase = "done" => FirstLeft(outputs) = Len(Inputs) + 1
    /\ outputs # <<>> => Len(described) = Len(Inputs)
    /\ zip # <<>> =>
          /\ phase = "write"
          /\ Begun(described, zip, FirstLeft(outputs), LastOf(described, FirstLeft(outputs)))
    /\ \A n \in 1..Len(outputs) : Finished(described, outputs, n)

\* The inputs of a ZIP begin at the first that is left; they are one or few enough.
LEMMA LastFits ==
    ASSUME NEW known, NEW first \in 1..Len(Inputs)
    PROVE  /\ LastOf(known, first) \in first..Len(Inputs)
           /\ LastOf(known, first) = first \/ SizeFrom(known, first, LastOf(known, first)) <= SplitSize
<1> DEFINE S == {t \in first..Len(Inputs) : t = first \/ SizeFrom(known, first, t) <= SplitSize}
<1>1. Len(Inputs) \in Nat
  BY InputsCounted, LenProperties
<1>2. IsFiniteSet(S) /\ S \subseteq Int /\ first \in S
  <2>1. first \in Int /\ Len(Inputs) \in Int
    BY <1>1
  <2>2. IsFiniteSet(first..Len(Inputs))
    BY <2>1, FS_Interval
  <2>3. S \in SUBSET (first..Len(Inputs))
    OBVIOUS
  <2>. QED
    BY <2>1, <2>2, <2>3, FS_Subset
<1>3. PICK m \in S : \A t \in S : t <= m
  <2>. HIDE DEF S
  <2>. QED
    BY <1>2, HasLargest
<1>4. Max(S) \in S
  <2>. HIDE DEF S
  <2>1. \E t \in S : \A u \in S : t >= u
    BY <1>2, <1>3
  <2>. QED
    BY <2>1 DEF Max
<1>. QED
  BY <1>4 DEF LastOf

LEMMA OperatorsOfState ==
    /\ \A t : Descriptor(t) = DescribedIn(described, t)
    /\ \A n : NextInput(n) = NextOf(outputs, n)
    /\ FirstTrace = FirstLeft(outputs)
    /\ LastTrace = LastOf(described, FirstLeft(outputs))
<1>1. \A t : Descriptor(t) = DescribedIn(described, t)
  BY DEF Descriptor, DescribedIn
<1>2. \A n : NextInput(n) = NextOf(outputs, n)
  BY DEF NextInput, NextOf
<1>3. FirstTrace = FirstLeft(outputs)
  BY <1>2 DEF FirstTrace, FirstLeft
<1>4. LastTrace = LastOf(described, FirstLeft(outputs))
  BY <1>3 DEF LastTrace, LastOf
<1>. QED
  BY <1>1, <1>2, <1>3, <1>4

\* What is left to be packed begins with one of the inputs or after the last.
LEMMA FirstIsInput ==
    ASSUME ArchiveIInv
    PROVE  FirstLeft(outputs) \in 1..Len(Inputs) + 1 /\ Len(Inputs) \in Nat /\ Len(outputs) \in Nat
<1>1. Len(Inputs) \in Nat /\ Len(outputs) \in Nat
  BY InputsCounted, LenProperties DEF ArchiveIInv, ArchiveType
<1>2. CASE Len(outputs) = 0
  BY <1>1, <1>2 DEF FirstLeft, NextOf
<1>3. CASE Len(outputs) # 0
  <2>1. Finished(described, outputs, Len(outputs))
    BY <1>1, <1>3 DEF ArchiveIInv
  <2>. QED
    BY <1>1, <2>1 DEF Finished, Packed, FirstLeft
<1>. QED
  BY <1>1, <1>2, <1>3

LEMMA ArchiveStarts == ArchiveInit => ArchiveIInv
<1> SUFFICES ASSUME ArchiveInit PROVE ArchiveIInv
  OBVIOUS
<1>1. /\ phase = "describe" /\ described = <<>> /\ walk = {} /\ partial = NoFiles
      /\ zip = <<>> /\ outputs = <<>> /\ disk \in Start
  BY DEF ArchiveInit, NothingPacked
<1>2. Len(Inputs) \in Nat \ {0}
  BY InputsCounted, EmptySeq
<1>3. /\ described \in Seq(FileSet) /\ Len(described) = 0
      /\ outputs \in Seq(Seq(EntryType)) /\ Len(outputs) = 0
  BY <1>1, EmptySeq
<1>4. disk \in [DOMAIN Inputs -> [SourcePath -> Bytes \cup {None}]]
  BY <1>1, ArchiveConstants
<1>5. partial \in PathFiles
  <2>1. NoFiles \in [{} -> Bytes] /\ {} \in SUBSET SourcePath
    BY DEF NoFiles
  <2>. QED
    BY <1>1, <2>1 DEF PathFiles
<1>. QED
  BY <1>1, <1>2, <1>3, <1>4, <1>5 DEF ArchiveIInv, ArchiveType

\* Describing an input.
LEMMA DescribingKeeps ==
    ASSUME ArchiveIInv, BeginDescribe \/ (\E p \in SourcePath : DescribeFile(p)) \/ EndDescribe
    PROVE  ArchiveIInv'
<1>1. /\ phase = "describe" /\ outputs = <<>> /\ outputs' = outputs /\ zip = <<>> /\ zip' = zip
      /\ disk' = disk /\ Len(described) < Len(Inputs)
  BY DEF ArchiveIInv, BeginDescribe, DescribeFile, EndDescribe
<1>2. /\ Len(Inputs) \in Nat /\ DOMAIN Inputs = 1..Len(Inputs)
      /\ Len(described) \in Nat /\ described \in Seq(FileSet)
      /\ disk \in [DOMAIN Inputs -> [SourcePath -> Bytes \cup {None}]]
      /\ walk \in SUBSET SourcePath /\ partial \in PathFiles
      /\ outputs \in Seq(Seq(EntryType))
  BY InputsCounted, LenProperties DEF ArchiveIInv, ArchiveType
<1>3. Len(outputs) = 0 /\ FirstLeft(outputs) = 1
  BY <1>1, EmptySeq DEF FirstLeft, NextOf
<1>4. Describing \in DOMAIN Inputs
  BY <1>1, <1>2 DEF Describing
<1>5. CASE BeginDescribe
  <2>1. walk' \in SUBSET SourcePath /\ phase' \in {"describe", "failed"}
    BY <1>1, <1>5 DEF BeginDescribe, FilesOf
  <2>2. described' = described /\ partial' = partial
    BY <1>5 DEF BeginDescribe
  <2>. QED
    BY <1>1, <1>2, <1>3, <2>1, <2>2 DEF ArchiveIInv, ArchiveType
<1>6. CASE \E p \in SourcePath : DescribeFile(p)
  <2>1. PICK p \in SourcePath : DescribeFile(p)
    BY <1>6
  <2>2. walk' \in SUBSET SourcePath /\ phase' \in {"describe", "failed"} /\ described' = described
    BY <1>1, <1>2, <2>1 DEF DescribeFile
  <2>3. partial' \in PathFiles
    <3>1. CASE p \in FilesOf(Describing) /\ Slashes[p] < WriteDepth
      <4>1. PICK P \in SUBSET SourcePath : partial \in [P -> Bytes]
        BY <1>2 DEF PathFiles
      <4>2. disk[Describing][p] \in Bytes
        BY <1>2, <1>4, <3>1 DEF FilesOf
      <4>3. partial' = [q \in DOMAIN partial \cup {p} |-> IF q = p THEN disk[Describing][p] ELSE partial[q]]
        BY <2>1, <3>1 DEF DescribeFile
      <4>4. P \cup {p} \in SUBSET SourcePath /\ partial' \in [P \cup {p} -> Bytes]
        BY <4>1, <4>2, <4>3
      <4>. QED
        BY <4>4 DEF PathFiles
    <3>2. CASE ~(p \in FilesOf(Describing) /\ Slashes[p] < WriteDepth)
      BY <1>2, <2>1, <3>2 DEF DescribeFile
    <3>. QED
      BY <3>1, <3>2
  <2>. QED
    BY <1>1, <1>2, <1>3, <2>2, <2>3 DEF ArchiveIInv, ArchiveType
<1>7. CASE EndDescribe
  <2>1. partial \in FileSet
    <3>1. PICK P \in SUBSET SourcePath : partial \in [P -> Bytes]
      BY <1>2 DEF PathFiles
    <3>2. P # {}
      <4>1. partial # NoFiles
        BY <1>7 DEF EndDescribe
      <4>. QED
        BY <3>1, <4>1 DEF NoFiles
    <3>. QED
      BY <1>2, <3>1, <3>2 DEF FileSet
  <2>2. described' = Append(described, partial)
    BY <1>7 DEF EndDescribe
  <2>3. described' \in Seq(FileSet) /\ Len(described') = Len(described) + 1
    BY <1>2, <2>1, <2>2, AppendProperties
  <2>4. walk' = walk /\ partial' \in PathFiles
    <3>1. NoFiles \in [{} -> Bytes] /\ {} \in SUBSET SourcePath
      BY DEF NoFiles
    <3>. QED
      BY <1>7, <3>1 DEF EndDescribe, PathFiles
  <2>5. phase' = IF Len(described) + 1 = Len(Inputs) THEN "write" ELSE "describe"
    BY <1>1, <1>7 DEF EndDescribe, Describing
  <2>6. /\ phase' \in {"describe", "write"}
        /\ phase' = "describe" => Len(described') < Len(Inputs)
        /\ phase' = "write" => Len(described') = Len(Inputs) /\ 1 <= Len(Inputs)
        /\ Len(described') <= Len(Inputs)
    <3>1. Len(described) \in Nat /\ Len(Inputs) \in Nat /\ Len(described) < Len(Inputs)
      BY <1>1, <1>2
    <3>2. Len(described') = Len(described) + 1
      BY <2>3
    <3>. QED
      BY <2>5, <3>1, <3>2
  <2>7. zip' = <<>> /\ outputs' = <<>> /\ Len(outputs') = 0 /\ FirstLeft(outputs') = 1
    BY <1>1, <1>3
  <2>8. ArchiveType'
    BY <1>1, <1>2, <2>3, <2>4, <2>6, <2>7 DEF ArchiveType
  <2>. QED
    BY <2>6, <2>7, <2>8 DEF ArchiveIInv
<1>. QED
  BY <1>5, <1>6, <1>7


LEMMA ChangeKeeps ==
    ASSUME ArchiveIInv, NEW t \in DOMAIN Inputs, NEW p \in SourcePath, NEW bytes \in Bytes \cup {None},
           ChangeFile(t, p, bytes)
    PROVE  ArchiveIInv'
<1>1. UNCHANGED <<phase, described, walk, partial, zip, outputs>> /\ disk' = [disk EXCEPT ![t][p] = bytes]
  BY DEF ChangeFile
<1>2. disk' \in [DOMAIN Inputs -> [SourcePath -> Bytes \cup {None}]]
  BY <1>1 DEF ArchiveIInv, ArchiveType
<1>3. ArchiveType'
  BY <1>1, <1>2 DEF ArchiveIInv, ArchiveType
<1>. QED
  BY <1>1, <1>3 DEF ArchiveIInv

\* The manifest and the descriptors make a ZIP that lacks all its files.
LEMMA BeginningIsBegun ==
    ASSUME NEW known \in Seq(FileSet), Len(known) = Len(Inputs),
           NEW first \in Nat, first > 0, NEW last \in first..Len(Inputs), NEW z,
           z = <<ManifestOf(known, first, last)>>
                  \o [k \in 1..(last - first + 1) |-> Entry(Description(first + k - 1), DescribedIn(known, first + k - 1))]
    PROVE  Begun(known, z, first, last)
<1> DEFINE m == last - first + 1
           head == <<ManifestOf(known, first, last)>>
           rest == [k \in 1..m |-> Entry(Description(first + k - 1), DescribedIn(known, first + k - 1))]
<1>1. /\ Len(Inputs) \in Nat /\ DOMAIN Inputs = 1..Len(Inputs) /\ m \in Nat /\ m > 0
      /\ \A k \in 1..m : first + k - 1 \in first..last
      /\ \A t \in first..last : t \in 1..Len(Inputs) /\ t - first + 1 \in 1..m /\ first + (t - first + 1) - 1 = t
  BY InputsCounted, LenProperties
<1>2. \A t \in first..last : DescribedIn(known, t) \in DescriptorType
  <2> SUFFICES ASSUME NEW t \in first..last PROVE DescribedIn(known, t) \in DescriptorType
    OBVIOUS
  <2>1. t \in 1..Len(Inputs) /\ known[t] \in FileSet
    BY <1>1, ElementOfSeq
  <2>2. Inputs[t] \in Range(Inputs)
    BY <1>1, <2>1 DEF Range
  <2>. QED
    BY <1>1, <2>1, <2>2 DEF DescribedIn, DescriptorType
<1>3. ManifestOf(known, first, last) \in EntryType
  <2>1. TracesOf(known, first, last) \in [1..m -> DescriptorType]
    BY <1>1, <1>2 DEF TracesOf
  <2>2. TracesOf(known, first, last) \in Seq(DescriptorType)
    BY <1>1, <2>1, SeqDef
  <2>3. ManifestOf(known, first, last) = Entry(<<"manifest">>, TracesOf(known, first, last))
    BY DEF ManifestOf, TracesOf
  <2>. QED
    BY <2>2, <2>3 DEF Entry, EntryType
<1>4. \A t \in first..last : Entry(Description(t), DescribedIn(known, t)) \in EntryType
  BY <1>1, <1>2, SMTT(30) DEF Entry, EntryType
<1>5. /\ head \in Seq(EntryType) /\ Len(head) = 1 /\ head[1] = ManifestOf(known, first, last)
  BY <1>3
<1>6. rest \in Seq(EntryType) /\ Len(rest) = m
  <2>1. rest \in [1..m -> EntryType] /\ rest = [k \in 1..m |-> rest[k]]
    BY <1>1, <1>4
  <2>2. m \in Nat
    BY <1>1
  <2>. HIDE DEF rest, m
  <2>3. rest \in Seq(EntryType)
    BY <2>1, <2>2, SeqDef
  <2>. QED
    BY <2>1, <2>2, <2>3, LengthOf
<1>7. \A k \in 1..m : rest[k] = Entry(Description(first + k - 1), DescribedIn(known, first + k - 1))
  OBVIOUS
<1>8. z = head \o rest
  OBVIOUS
<1>. HIDE DEF head, rest
<1>9. /\ z \in Seq(EntryType) /\ Len(z) = 1 + m
      /\ \A i \in 1..1 + m : z[i] = IF i <= 1 THEN head[i] ELSE rest[i - 1]
  <2>1. /\ head \o rest \in Seq(EntryType) /\ Len(head \o rest) = Len(head) + Len(rest)
        /\ \A i \in 1..Len(head) + Len(rest) :
              (head \o rest)[i] = IF i <= Len(head) THEN head[i] ELSE rest[i - Len(head)]
    <3>1. head \in Seq(EntryType) /\ rest \in Seq(EntryType)
      BY <1>5, <1>6
    <3>. QED
      BY <3>1, ConcatProperties
  <2>. HIDE DEF m
  <2>. QED
    BY <1>5, <1>6, <1>8, <2>1
<1>10. DOMAIN z = 1..1 + m /\ Len(z) > 0 /\ z[1] = ManifestOf(known, first, last)
  <2>1. DOMAIN z = 1..Len(z)
    BY <1>9, LenProperties
  <2>. HIDE DEF m
  <2>. QED
    BY <1>1, <1>5, <1>9, <2>1
<1>11. ASSUME NEW i \in DOMAIN z, i # 1
       PROVE  /\ first + i - 2 \in first..last
              /\ z[i] = Entry(Description(first + i - 2), DescribedIn(known, first + i - 2))
  <2>1. i \in 1..1 + m /\ i - 1 \in 1..m /\ first + (i - 1) - 1 = first + i - 2
    BY <1>1, <1>10, <1>11
  <2>. HIDE DEF m
  <2>2. z[i] = rest[i - 1]
    <3>1. z[i] = IF i <= 1 THEN head[i] ELSE rest[i - 1]
      BY <1>9, <2>1
    <3>2. ~(i <= 1)
      BY <1>1, <1>11, <2>1
    <3>. QED
      BY <3>1, <3>2
  <2>. QED
    BY <1>1, <1>7, <2>1, <2>2
<1>12. ASSUME NEW i \in DOMAIN z, NEW j \in DOMAIN z, z[i].name = z[j].name
       PROVE  i = j
  <2>1. z[1].name = <<"manifest">>
    BY <1>10, EntryParts DEF ManifestOf
  <2>2. \A k \in DOMAIN z : k # 1 => z[k].name = Description(first + k - 2)
    <3> SUFFICES ASSUME NEW k \in DOMAIN z, k # 1 PROVE z[k].name = Description(first + k - 2)
      OBVIOUS
    <3>1. z[k] = Entry(Description(first + k - 2), DescribedIn(known, first + k - 2))
      BY <1>11
    <3>. QED
      BY <3>1, EntryParts
  <2>3. i \in Int /\ j \in Int /\ first \in Int
    BY <1>10
  <2>4. CASE i = 1 \/ j = 1
    <3>1. \A k \in DOMAIN z : k # 1 => z[k].name # z[1].name
      <4>1. \A u : Description(u) # <<"manifest">>
        BY NamesDiffer
      <4>. QED
        BY <2>1, <2>2, <4>1
    <3>. QED
      BY <1>10, <1>12, <2>4, <3>1
  <2>5. CASE i # 1 /\ j # 1
    <3>1. first + i - 2 = first + j - 2
      <4>1. Description(first + i - 2) = Description(first + j - 2)
        BY <1>12, <2>2, <2>5
      <4>. QED
        BY <4>1, NamesDiffer
    <3>. QED
      BY <2>3, <3>1
  <2>. QED
    BY <2>4, <2>5
<1>13. ASSUME NEW t \in first..last
       PROVE  \E i \in DOMAIN z : z[i] = Entry(Description(t), DescribedIn(known, t))
  <2>1. t - first + 2 \in 1..1 + m /\ t - first + 2 # 1 /\ first + (t - first + 2) - 2 = t
    BY <1>1
  <2>. HIDE DEF m
  <2>2. z[t - first + 2] = Entry(Description(t), DescribedIn(known, t))
    BY <1>10, <1>11, <2>1
  <2>. QED
    BY <1>10, <2>1, <2>2
<1>. QED
  BY <1>9, <1>10, <1>11, <1>12, <1>13 DEF Begun

\* A file that is written as it was described is one more of a ZIP that is begun.
LEMMA FileIsAdded ==
    ASSUME NEW known \in Seq(FileSet), Len(known) = Len(Inputs),
           NEW first \in Nat, first > 0, NEW last \in first..Len(Inputs), NEW z, Begun(known, z, first, last),
           NEW t \in first..last, NEW p \in DOMAIN known[t], \A i \in DOMAIN z : z[i].name # SourceFile(t, p)
    PROVE  Begun(known, Append(z, Entry(SourceFile(t, p), known[t][p])), first, last)
<1> DEFINE e == Entry(SourceFile(t, p), known[t][p])
           y == Append(z, e)
           n == Len(z)
<1>1. /\ Len(Inputs) \in Nat /\ DOMAIN Inputs = 1..Len(Inputs) /\ t \in 1..Len(Inputs)
  BY InputsCounted, LenProperties
<1>2. /\ n \in Nat /\ DOMAIN z = 1..n /\ 1 \in DOMAIN z /\ z \in Seq(EntryType)
      /\ \A j, k \in DOMAIN z : z[j].name = z[k].name => j = k
  BY BegunLists
<1>3. e \in EntryType
  <2>1. known[t] \in FileSet
    BY <1>1, ElementOfSeq
  <2>2. PICK P \in SUBSET SourcePath : known[t] \in [P -> Bytes]
    BY <2>1 DEF FileSet, PathFiles
  <2>3. p \in SourcePath /\ known[t][p] \in Bytes
    BY <2>2
  <2>. QED
    BY <1>1, <2>3 DEF Entry, EntryType
<1>4. e.name = SourceFile(t, p)
  BY EntryParts
<1>. HIDE DEF e
<1>5. /\ y \in Seq(EntryType) /\ Len(y) = n + 1
      /\ \A k \in 1..n : y[k] = z[k]
      /\ y[n + 1] = e
  BY <1>2, <1>3, AppendProperties
<1>. HIDE DEF y
<1>6. DOMAIN y = 1..n + 1
  BY <1>5, LenProperties
<1>. HIDE DEF n
<1>7. /\ \A k \in DOMAIN z : k \in DOMAIN y /\ y[k] = z[k] /\ k # n + 1
      /\ \A k \in DOMAIN y : k \in DOMAIN z \/ k = n + 1
      /\ n + 1 \in DOMAIN y /\ Len(y) > 0
  BY <1>2, <1>5, <1>6
<1>8. \A i, j \in DOMAIN y : y[i].name = y[j].name => i = j
  BY <1>2, <1>4, <1>5, <1>7
<1>9. y[1] = ManifestOf(known, first, last)
  BY <1>2, <1>7 DEF Begun
<1>10. ASSUME NEW i \in DOMAIN y
       PROVE  \/ i = 1
              \/ \E u \in first..last : y[i] = Entry(Description(u), DescribedIn(known, u))
              \/ \E u \in first..last : \E q \in DOMAIN known[u] : y[i] = Entry(SourceFile(u, q), known[u][q])
  <2>1. CASE i \in DOMAIN z
    BY <1>7, <2>1, SMTT(30) DEF Begun
  <2>2. CASE i = n + 1
    BY <1>5, <2>2 DEF e
  <2>. QED
    BY <1>7, <2>1, <2>2
<1>11. \A u \in first..last : \E i \in DOMAIN y : y[i] = Entry(Description(u), DescribedIn(known, u))
  <2>1. \A u \in first..last : \E i \in DOMAIN z : z[i] = Entry(Description(u), DescribedIn(known, u))
    BY DEF Begun
  <2>. QED
    BY <1>7, <2>1
<1>12. Begun(known, y, first, last)
  BY <1>5, <1>7, <1>8, <1>9, <1>10, <1>11 DEF Begun
<1>. QED
  BY <1>12 DEF y, e

LEMMA BeginKeeps ==
    ASSUME ArchiveIInv, BeginZIP
    PROVE  ArchiveIInv'
<1> DEFINE first == FirstLeft(outputs)
           last == LastOf(described, FirstLeft(outputs))
<1>1. /\ phase = "write" /\ phase' = phase /\ described' = described /\ outputs' = outputs
      /\ UNCHANGED <<disk, walk, partial>>
  BY DEF BeginZIP
<1>2. /\ first \in 1..Len(Inputs) /\ Len(Inputs) \in Nat /\ last \in first..Len(Inputs)
      /\ described \in Seq(FileSet) /\ Len(described) = Len(Inputs)
  <2>1. first \in 1..Len(Inputs) /\ Len(Inputs) \in Nat
    BY <1>1, FirstIsInput DEF ArchiveIInv
  <2>. HIDE DEF first
  <2>2. LastOf(described, first) \in first..Len(Inputs)
    BY <2>1, LastFits
  <2>. QED
    BY <1>1, <2>1, <2>2 DEF ArchiveIInv, ArchiveType, first
<1>3. zip' = <<ManifestOf(described, first, last)>>
                \o [k \in 1..(last - first + 1) |->
                      Entry(Description(first + k - 1), DescribedIn(described, first + k - 1))]
  BY OperatorsOfState DEF BeginZIP, ManifestOf
<1>. HIDE DEF first, last
<1>4. Begun(described, zip', first, last)
  <2>1. first \in Nat /\ first > 0
    BY <1>2
  <2>. QED
    BY <1>2, <1>3, <2>1, BeginningIsBegun
<1>5. Begun(described', zip', FirstLeft(outputs'), LastOf(described', FirstLeft(outputs')))
  BY <1>1, <1>4 DEF first, last
<1>6. ArchiveType'
  BY <1>1 DEF ArchiveIInv, ArchiveType
<1>. QED
  BY <1>1, <1>5, <1>6 DEF ArchiveIInv

LEMMA WriteFileKeeps ==
    ASSUME ArchiveIInv, NEW t \in DOMAIN Inputs, NEW p \in SourcePath, WriteFile(t, p)
    PROVE  ArchiveIInv'
<1> DEFINE first == FirstLeft(outputs)
           last == LastOf(described, FirstLeft(outputs))
<1>1. /\ phase = "write" /\ zip # <<>> /\ described' = described /\ outputs' = outputs
      /\ UNCHANGED <<disk, walk, partial>>
      /\ t \in first..last /\ p \in Missing(t)
  BY OperatorsOfState DEF WriteFile
<1>2. /\ first \in 1..Len(Inputs) /\ Len(Inputs) \in Nat /\ last \in first..Len(Inputs)
      /\ described \in Seq(FileSet) /\ Len(described) = Len(Inputs)
  <2>1. first \in 1..Len(Inputs) /\ Len(Inputs) \in Nat
    BY <1>1, FirstIsInput DEF ArchiveIInv
  <2>. HIDE DEF first
  <2>2. LastOf(described, first) \in first..Len(Inputs)
    BY <2>1, LastFits
  <2>. QED
    BY <1>1, <2>1, <2>2 DEF ArchiveIInv, ArchiveType, first
<1>3. Begun(described, zip, first, last)
  BY <1>1 DEF ArchiveIInv
<1>. HIDE DEF first, last
<1>4. p \in DOMAIN described[t] /\ \A i \in DOMAIN zip : zip[i].name # SourceFile(t, p)
  BY <1>1 DEF Missing
<1>5. \/ zip' = Append(zip, Entry(SourceFile(t, p), described[t][p])) /\ phase' = "write"
      \/ zip' = <<>> /\ phase' = "failed"
  BY <1>1 DEF WriteFile, AsDescribed
<1>6. Begun(described, Append(zip, Entry(SourceFile(t, p), described[t][p])), first, last)
  <2>1. first \in Nat /\ first > 0
    BY <1>2
  <2>. QED
    BY <1>1, <1>2, <1>3, <1>4, <2>1, FileIsAdded
<1>7. zip' # <<>> => Begun(described', zip', FirstLeft(outputs'), LastOf(described', FirstLeft(outputs')))
  BY <1>1, <1>5, <1>6 DEF first, last
<1>8. ArchiveType'
  BY <1>1, <1>5 DEF ArchiveIInv, ArchiveType
<1>. QED
  BY <1>1, <1>5, <1>7, <1>8 DEF ArchiveIInv

LEMMA EndZIPKeeps ==
    ASSUME ArchiveIInv, EndZIP
    PROVE  ArchiveIInv'
<1> DEFINE first == FirstLeft(outputs)
           last == LastOf(described, FirstLeft(outputs))
           n == Len(outputs)
<1>1. /\ phase = "write" /\ zip # <<>> /\ zip' = <<>> /\ described' = described
      /\ outputs' = Append(outputs, zip) /\ UNCHANGED <<disk, walk, partial>>
      /\ \A t \in first..last : Missing(t) = {}
      /\ phase' = IF last = Len(Inputs) THEN "done" ELSE "write"
  BY OperatorsOfState DEF EndZIP
<1>2. /\ first \in 1..Len(Inputs) /\ Len(Inputs) \in Nat /\ last \in first..Len(Inputs)
      /\ described \in Seq(FileSet) /\ Len(described) = Len(Inputs)
      /\ last = first \/ SizeFrom(described, first, last) <= SplitSize
  <2>1. first \in 1..Len(Inputs) /\ Len(Inputs) \in Nat
    BY <1>1, FirstIsInput DEF ArchiveIInv
  <2>. HIDE DEF first
  <2>2. /\ LastOf(described, first) \in first..Len(Inputs)
        /\ LastOf(described, first) = first \/ SizeFrom(described, first, LastOf(described, first)) <= SplitSize
    BY <2>1, LastFits
  <2>. QED
    BY <1>1, <2>1, <2>2 DEF ArchiveIInv, ArchiveType, first
<1>3. Begun(described, zip, first, last)
  BY <1>1 DEF ArchiveIInv
<1>4. /\ outputs \in Seq(Seq(EntryType)) /\ n \in Nat /\ zip \in Seq(EntryType)
      /\ \A k \in 1..n : Finished(described, outputs, k)
  BY <1>3, LenProperties DEF ArchiveIInv, ArchiveType, Begun
<1>. HIDE DEF first, last
<1>5. Whole(described, zip, first, last)
  <2> SUFFICES ASSUME NEW t \in first..last, NEW p \in DOMAIN described[t]
               PROVE  \E i \in DOMAIN zip : zip[i] = Entry(SourceFile(t, p), described[t][p])
    BY <1>3 DEF Whole
  <2>1. PICK i \in DOMAIN zip : zip[i].name = SourceFile(t, p)
    BY <1>1 DEF Missing
  <2>2. \/ i = 1
        \/ \E u \in first..last : zip[i] = Entry(Description(u), DescribedIn(described, u))
        \/ \E u \in first..last : \E q \in DOMAIN described[u] : zip[i] = Entry(SourceFile(u, q), described[u][q])
    BY <1>3 DEF Begun
  <2>3. i # 1
    <3>1. zip[1].name = <<"manifest">>
      BY <1>3, BegunLists
    <3>2. SourceFile(t, p) # <<"manifest">>
      BY NamesDiffer
    <3>. QED
      BY <2>1, <3>1, <3>2
  <2>4. CASE \E u \in first..last : zip[i] = Entry(Description(u), DescribedIn(described, u))
    <3>1. PICK u \in first..last : zip[i].name = Description(u)
      BY <2>4, EntryParts
    <3>2. Description(u) # SourceFile(t, p)
      BY NamesDiffer
    <3>. QED
      BY <2>1, <3>1, <3>2
  <2>5. CASE \E u \in first..last : \E q \in DOMAIN described[u] : zip[i] = Entry(SourceFile(u, q), described[u][q])
    <3>1. PICK u \in first..last : \E q \in DOMAIN described[u] : zip[i] = Entry(SourceFile(u, q), described[u][q])
      BY <2>5
    <3>2. PICK q \in DOMAIN described[u] : zip[i] = Entry(SourceFile(u, q), described[u][q])
      BY <3>1
    <3>3. SourceFile(t, p) = SourceFile(u, q)
      BY <2>1, <3>2, EntryParts
    <3>4. t = u /\ p = q
      BY <3>3, NamesDiffer
    <3>. QED
      BY <3>2, <3>4
  <2>. QED
    BY <2>2, <2>3, <2>4, <2>5
<1>6. /\ outputs' \in Seq(Seq(EntryType)) /\ Len(outputs') = n + 1
      /\ \A k \in 1..n : outputs'[k] = outputs[k]
      /\ outputs'[n + 1] = zip
  BY <1>1, <1>4, AppendProperties
<1>. HIDE DEF n
<1>7. \A k \in 0..n : NextOf(outputs', k) = NextOf(outputs, k)
  BY <1>4, <1>6, SMTT(30) DEF NextOf
<1>8. NextOf(outputs', n + 1) = last + 1
  <2>1. first \in Nat /\ last \in Nat /\ first <= last
    BY <1>2
  <2>2. Listed(zip) = TracesOf(described, first, last)
    BY <1>3, BegunLists
  <2>3. TracesOf(described, first, last)[Len(TracesOf(described, first, last))] = DescribedIn(described, last)
    BY <2>1, TracesListed
  <2>4. n + 1 # 0
    BY <1>4
  <2>. QED
    BY <1>6, <2>2, <2>3, <2>4, DescribedParts DEF NextOf
<1>9. \A k \in 1..n : Finished(described', outputs', k)
  <2> SUFFICES ASSUME NEW k \in 1..n PROVE Finished(described', outputs', k)
    OBVIOUS
  <2>1. k \in 0..n /\ k - 1 \in 0..n
    BY <1>4
  <2>2. Finished(described, outputs, k)
    BY <1>4
  <2>. QED
    BY <1>1, <1>6, <1>7, <2>1, <2>2 DEF Finished, Packed
<1>10. Finished(described', outputs', n + 1)
  <2>1. NextOf(outputs', n) = first
    <3>1. n \in 0..n
      BY <1>4
    <3>. QED
      BY <1>7, <3>1 DEF first, FirstLeft, n
  <2>2. NextOf(outputs', (n + 1) - 1) = first
    <3>1. (n + 1) - 1 = n
      BY <1>4
    <3>. QED
      BY <2>1, <3>1, Zenon
  <2>4. Packed(described', outputs'[n + 1], first, last)
    <3>1. last \in 1..Len(Inputs) /\ first \in 1..last
      BY <1>2
    <3>2. Whole(described', outputs'[n + 1], first, last)
      BY <1>1, <1>5, <1>6, Zenon
    <3>3. last = first \/ SizeFrom(described', first, last) <= SplitSize
      BY <1>1, <1>2, Zenon
    <3>. QED
      BY <3>1, <3>2, <3>3, Zenon DEF Packed
  <2>. QED
    <3>1. last \in Int
      BY <1>2
    <3>. QED
      BY <1>8, <2>2, <2>4, <3>1, FinishedByPacked
<1>11. \A k \in 1..Len(outputs') : Finished(described', outputs', k)
  <2>1. \A k \in 1..n + 1 : k \in 1..n \/ k = n + 1
    BY <1>4
  <2>. QED
    BY <1>6, <1>9, <1>10, <2>1
<1>12. FirstLeft(outputs') = last + 1
  BY <1>6, <1>8 DEF FirstLeft
<1>13. /\ phase' \in {"write", "done"}
       /\ phase' = "write" => FirstLeft(outputs') <= Len(Inputs)
       /\ phase' = "done" => FirstLeft(outputs') = Len(Inputs) + 1
  BY <1>1, <1>2, <1>12
<1>14. ArchiveType'
  BY <1>1, <1>6, <1>13 DEF ArchiveIInv, ArchiveType
<1>. QED
  BY <1>1, <1>2, <1>11, <1>13, <1>14 DEF ArchiveIInv

LEMMA ArchiveInvariant == ArchiveSpec => []ArchiveIInv
<1>1. ArchiveIInv /\ [ArchiveNext]_archiveVars => ArchiveIInv'
  <2> SUFFICES ASSUME ArchiveIInv, [ArchiveNext]_archiveVars PROVE ArchiveIInv'
    OBVIOUS
  <2>1. CASE ArchiveNext
    <3>1. ASSUME NEW t \in DOMAIN Inputs, NEW p \in SourcePath, NEW bytes \in Bytes \cup {None},
                 ChangeFile(t, p, bytes)
          PROVE  ArchiveIInv'
      BY <3>1, ChangeKeeps
    <3>2. ASSUME BeginDescribe \/ (\E p \in SourcePath : DescribeFile(p)) \/ EndDescribe
          PROVE  ArchiveIInv'
      BY <3>2, DescribingKeeps
    <3>3. ASSUME NEW t \in DOMAIN Inputs, NEW p \in SourcePath, WriteFile(t, p)
          PROVE  ArchiveIInv'
      BY <3>3, WriteFileKeeps
    <3>. QED
      BY <2>1, <3>1, <3>2, <3>3, BeginKeeps, EndZIPKeeps DEF ArchiveNext
  <2>2. CASE UNCHANGED archiveVars
    BY <2>2 DEF archiveVars, ArchiveIInv, ArchiveType
  <2>. QED
    BY <2>1, <2>2
<1>. QED
  BY <1>1, ArchiveStarts, PTL DEF ArchiveSpec

\* What limits ask of one entry.
Admitted(e, limits) == EntrySlashes(e) < limits.Depth /\ EntrySize(e) <= limits.FileBytes

LEMMA EntriesMeasured ==
    ASSUME NEW limits
    PROVE  /\ \A value : Admitted(Entry(<<"manifest">>, value), limits) <=>
                  0 < limits.Depth /\ ManifestSize(value) <= limits.FileBytes
           /\ \A t, value : Admitted(Entry(Description(t), value), limits) <=>
                  2 < limits.Depth /\ DescriptorSize(value) <= limits.FileBytes
           /\ \A t, p, value : Admitted(Entry(SourceFile(t, p), value), limits) <=>
                  Slashes[p] + 2 < limits.Depth /\ SizeOf[value] <= limits.FileBytes
<1>1. "source" # "descriptor" /\ "source" # "manifest" /\ "descriptor" # "manifest"
  OBVIOUS
<1>2. ASSUME NEW value
      PROVE  /\ EntrySlashes(Entry(<<"manifest">>, value)) = 0
             /\ EntrySize(Entry(<<"manifest">>, value)) = ManifestSize(value)
  BY <1>1, NamesDiffer, EntryParts DEF EntrySlashes, EntrySize
<1>3. ASSUME NEW t, NEW value
      PROVE  /\ EntrySlashes(Entry(Description(t), value)) = 2
             /\ EntrySize(Entry(Description(t), value)) = DescriptorSize(value)
  BY <1>1, NamesDiffer, EntryParts DEF EntrySlashes, EntrySize
<1>4. ASSUME NEW t, NEW p, NEW value
      PROVE  /\ EntrySlashes(Entry(SourceFile(t, p), value)) = Slashes[p] + 2
             /\ EntrySize(Entry(SourceFile(t, p), value)) = SizeOf[value]
  <2>1. SourceFile(t, p)[3] = p
    BY DEF SourceFile
  <2>. QED
    BY <1>1, <2>1, NamesDiffer, EntryParts DEF EntrySlashes, EntrySize
<1>. QED
  BY <1>2, <1>3, <1>4 DEF Admitted

\* Of a whole ZIP, Validate's limits ask what they ask of the inputs in it.
LEMMA BoundedIsFits ==
    ASSUME NEW known, NEW first \in Nat, NEW last \in 1..Len(Inputs), first \in 1..last,
           NEW z, Whole(known, z, first, last),
           \A t \in first..last : known[t] \in FileSet,
           NEW limits, limits.Depth \in Nat
    PROVE  Bounded(z, limits) <=> Fits(z, limits)
<1> DEFINE Sizes == /\ ZIPSize(z) <= limits.ArchiveBytes /\ Len(z) <= limits.Files
                    /\ ExpandedSize(z) <= limits.ExpandedBytes
                    /\ ManifestSize(Listed(z)) <= limits.MetadataBytes
           EachAdmitted == \A i \in DOMAIN z : Admitted(z[i], limits)
           Small(t) == DescriptorSize(DescribedIn(known, t)) <= limits.FileBytes
           Read(t) == DescriptorSize(DescribedIn(known, t)) <= limits.MetadataBytes
           File(t, p) == Slashes[p] + 2 < limits.Depth /\ SizeOf[known[t][p]] <= limits.FileBytes
           Every == \A t \in first..last : \A p \in DOMAIN known[t] : File(t, p)
<1>1. Begun(known, z, first, last) /\ Len(Inputs) \in Nat
  BY InputsCounted, LenProperties DEF Whole
<1>2. last \in Nat /\ first <= last /\ first \in first..last
  BY <1>1
<1>3. Listed(z) = TracesOf(known, first, last) /\ 1 \in DOMAIN z /\ z[1] = Entry(<<"manifest">>, Listed(z))
  <2>1. Listed(z) = TracesOf(known, first, last) /\ 1 \in DOMAIN z
    BY <1>1, BegunLists
  <2>2. z[1] = Entry(<<"manifest">>, TracesOf(known, first, last))
    BY <1>1 DEF Begun, ManifestOf, TracesOf
  <2>. QED
    BY <2>1, <2>2
<1>4. \A d : d \in ToSet(Listed(z)) <=> \E t \in first..last : d = DescribedIn(known, t)
  <2>1. \A d : d \in ToSet(TracesOf(known, first, last)) <=> \E t \in first..last : d = DescribedIn(known, t)
    BY <1>2, TracesListed
  <2>. QED
    BY <1>3, <2>1
<1>5. \A t \in first..last : \A p \in DOMAIN known[t] : Slashes[p] \in Nat
  <2>1. \A p \in SourcePath : Slashes[p] \in Nat
    BY ArchiveConstants
  <2>2. \A t \in first..last : DOMAIN known[t] \subseteq SourcePath
    BY DEF FileSet, PathFiles
  <2>. QED
    BY <2>1, <2>2
<1>6. \A t \in first..last : \A p \in DOMAIN known[t] : Slashes[p] < limits.Depth - 2 <=> Slashes[p] + 2 < limits.Depth
  BY <1>5
<1>7. EachAdmitted <=> /\ limits.Depth > 2 /\ ManifestSize(Listed(z)) <= limits.FileBytes
                   /\ \A t \in first..last : Small(t)
                   /\ Every
  <2>1. ASSUME EachAdmitted
        PROVE  /\ limits.Depth > 2 /\ ManifestSize(Listed(z)) <= limits.FileBytes
               /\ \A t \in first..last : Small(t)
               /\ Every
    <3>1. ManifestSize(Listed(z)) <= limits.FileBytes
      BY <1>3, <2>1, EntriesMeasured
    <3>2. ASSUME NEW t \in first..last PROVE 2 < limits.Depth /\ Small(t)
      <4>1. PICK i \in DOMAIN z : z[i] = Entry(Description(t), DescribedIn(known, t))
        BY <1>1 DEF Begun
      <4>. QED
        BY <2>1, <4>1, EntriesMeasured
    <3>3. ASSUME NEW t \in first..last, NEW p \in DOMAIN known[t] PROVE File(t, p)
      <4>1. PICK i \in DOMAIN z : z[i] = Entry(SourceFile(t, p), known[t][p])
        BY DEF Whole
      <4>. QED
        BY <2>1, <4>1, EntriesMeasured
    <3>. QED
      BY <1>2, <3>1, <3>2, <3>3
  <2>2. ASSUME limits.Depth > 2, ManifestSize(Listed(z)) <= limits.FileBytes,
               \A t \in first..last : Small(t), Every, NEW i \in DOMAIN z
        PROVE  Admitted(z[i], limits)
    <3>1. CASE i = 1
      BY <1>3, <2>2, <3>1, EntriesMeasured
    <3>2. ASSUME NEW t \in first..last, z[i] = Entry(Description(t), DescribedIn(known, t))
          PROVE  Admitted(z[i], limits)
      BY <2>2, <3>2, EntriesMeasured
    <3>3. ASSUME NEW t \in first..last, NEW p \in DOMAIN known[t], z[i] = Entry(SourceFile(t, p), known[t][p])
          PROVE  Admitted(z[i], limits)
      BY <2>2, <3>3, EntriesMeasured
    <3>. QED
      BY <1>1, <3>1, <3>2, <3>3 DEF Begun
  <2>. QED
    BY <2>1, <2>2
<1>8. Bounded(z, limits) <=> Sizes /\ EachAdmitted /\ (\A t \in first..last : Read(t)) /\ Every
  <2>1. (\A d \in ToSet(Listed(z)) :
           /\ DescriptorSize(d) <= limits.MetadataBytes
           /\ \A p \in DOMAIN d.files : Slashes[p] < limits.Depth - 2 /\ SizeOf[d.files[p]] <= limits.FileBytes)
        <=> (\A t \in first..last : Read(t)) /\ Every
    BY <1>4, <1>6, DescribedParts
  <2>. QED
    BY <2>1 DEF Bounded, Admitted
<1>9. Fits(z, limits) <=>
         /\ Sizes /\ limits.Depth > 2 /\ ManifestSize(Listed(z)) <= limits.FileBytes
         /\ \A t \in first..last : Read(t) /\ Small(t)
         /\ Every
  <2>1. (\A d \in ToSet(Listed(z)) :
           /\ DescriptorSize(d) <= limits.MetadataBytes /\ DescriptorSize(d) <= limits.FileBytes
           /\ \A p \in DOMAIN d.files : Slashes[p] + 2 < limits.Depth /\ SizeOf[d.files[p]] <= limits.FileBytes)
        <=> (\A t \in first..last : Read(t) /\ Small(t)) /\ Every
    BY <1>4, DescribedParts
  <2>. QED
    BY <2>1 DEF Fits
<1>. QED
  <2>. HIDE DEF Sizes, EachAdmitted, Small, Read, Every
  <2>. QED
    BY <1>7, <1>8, <1>9

\* Of the ZIPs that Write finishes, Validate accepts exactly those that fit its limits, the
\* uploader's and the server's: nothing but a limit refuses one.  Each has the files of its
\* Traces as they were described, though they may have changed since; together the ZIPs have
\* all inputs in their order, each once, and only a ZIP of one Trace is larger than SplitSize.
THEOREM ZIPsAreWhole == ArchiveSpec => []ArchivesWhole
<1>1. ASSUME ArchiveIInv, NEW i \in DOMAIN outputs
      PROVE  LET traces == Listed(outputs[i]) IN
             /\ \A limits \in {DefaultLimits, ServerLimits} :
                   Valid(outputs[i], limits) <=> Fits(outputs[i], limits)
             /\ \A k \in DOMAIN traces : traces[k] = Descriptor(NextInput(i - 1) + k - 1)
             /\ Len(traces) > 1 => SizeFrom(described, traces[1].path, traces[Len(traces)].path) <= SplitSize
  <2> DEFINE first == NextOf(outputs, i - 1)
             last == NextOf(outputs, i) - 1
  <2>1. DOMAIN outputs = 1..Len(outputs) /\ Len(Inputs) \in Nat
    BY <1>1, InputsCounted, LenProperties DEF ArchiveIInv, ArchiveType
  <2>2. Finished(described, outputs, i)
    BY <1>1, <2>1 DEF ArchiveIInv
  <2>3. /\ last \in 1..Len(Inputs) /\ first \in 1..last /\ Whole(described, outputs[i], first, last)
        /\ last = first \/ SizeFrom(described, first, last) <= SplitSize
    BY <2>1, <2>2 DEF Finished, Packed
  <2>. HIDE DEF first, last
  <2>4. first \in Nat /\ last \in Nat /\ first <= last /\ Begun(described, outputs[i], first, last)
    BY <2>1, <2>3 DEF Whole
  <2>5. Listed(outputs[i]) = TracesOf(described, first, last)
    BY <2>4, BegunLists
  <2>6. \A t \in first..last : described[t] \in FileSet
    <3>1. /\ described \in Seq(FileSet) /\ outputs # <<>>
      <4>1. outputs # <<>>
        BY <1>1, <2>1, EmptySeq
      <4>. QED
        BY <1>1, <4>1 DEF ArchiveIInv, ArchiveType
    <3>2. Len(described) = Len(Inputs)
      BY <1>1, <3>1 DEF ArchiveIInv
    <3>3. \A t \in first..last : t \in 1..Len(described)
      BY <2>1, <2>3, <3>2
    <3>. QED
      BY <3>1, <3>3, ElementOfSeq
  <2>7. ASSUME NEW limits \in {DefaultLimits, ServerLimits}
        PROVE  Valid(outputs[i], limits) <=> Fits(outputs[i], limits)
    <3>1. Sound(described, outputs[i], first, last)
      BY <2>3, <2>4, <2>6, WholeIsSound
    <3>2. Intact(outputs[i])
      BY <2>3, <2>4, <2>5, <3>1, IntactIsSound
    <3>3. limits.Depth \in Nat
      BY ArchiveConstants
    <3>4. Bounded(outputs[i], limits) <=> Fits(outputs[i], limits)
      BY <2>3, <2>4, <2>6, <3>3, BoundedIsFits
    <3>. QED
      BY <3>2, <3>4 DEF Valid
  <2>8. \A k \in DOMAIN Listed(outputs[i]) : Listed(outputs[i])[k] = Descriptor(NextInput(i - 1) + k - 1)
    <3>1. \A k \in DOMAIN TracesOf(described, first, last) :
             TracesOf(described, first, last)[k] = DescribedIn(described, first + k - 1)
      BY <2>4, TracesListed
    <3>. QED
      BY <2>5, <3>1, OperatorsOfState DEF first
  <2>9. Len(Listed(outputs[i])) > 1 =>
           SizeFrom(described, Listed(outputs[i])[1].path, Listed(outputs[i])[Len(Listed(outputs[i]))].path) <= SplitSize
    <3>1. Len(TracesOf(described, first, last)) = last - first + 1
      BY <2>4, TracesListed
    <3>2. TracesOf(described, first, last)[1] = DescribedIn(described, first)
      BY <2>4, TracesListed
    <3>3. TracesOf(described, first, last)[Len(TracesOf(described, first, last))] = DescribedIn(described, last)
      BY <2>4, TracesListed
    <3>. QED
      BY <2>3, <2>4, <2>5, <3>1, <3>2, <3>3, DescribedParts
  <2>. QED
    BY <2>7, <2>8, <2>9
<1>2. ArchiveIInv /\ phase = "done" => FirstTrace = Len(Inputs) + 1
  BY OperatorsOfState DEF ArchiveIInv
<1>3. ArchiveIInv => ArchivesWhole
  BY <1>1, <1>2 DEF ArchivesWhole
<1>. QED
  BY <1>3, ArchiveInvariant, PTL

\* Of a ZIP that Write has finished and of which one entry was lost, doubled, added, altered
\* or exchanged, or a Trace listed twice or not at all, Validate accepts only what has the
\* same files for each Trace, even without its limits.
THEOREM DamageIsRefused == ArchiveSpec => []DamageRefused
<1>1. ASSUME ArchiveIInv, NEW i \in DOMAIN outputs, NEW z \in Damaged(outputs[i]), Intact(z)
      PROVE  Content(z) = Content(outputs[i]) /\ Names(z) = Names(outputs[i])
  <2>1. DOMAIN outputs = 1..Len(outputs) /\ Len(Inputs) \in Nat
    BY <1>1, InputsCounted, LenProperties DEF ArchiveIInv, ArchiveType
  <2>2. Finished(described, outputs, i)
    BY <1>1, <2>1 DEF ArchiveIInv
  <2>3. PICK first \in Nat, last \in 1..Len(Inputs) : first \in 1..last /\ Whole(described, outputs[i], first, last)
    BY <2>1, <2>2 DEF Finished, Packed
  <2>. QED
    BY <1>1, <2>3, DamageIsSeen
<1>2. ArchiveIInv => DamageRefused
  BY <1>1 DEF DamageRefused
<1>. QED
  BY <1>2, ArchiveInvariant, PTL

-----------------------------------------------------------------------------
(* Entries of a Pi session come after their parents and have the model of  *)
(* their own branch (PiEntries)                                            *)

PiEntry == [id : Nat \ {0}, parent : Nat, kind : Kind]

LEMMA EntriesKnown ==
    ASSUME session \in Seq(PiEntry)
    PROVE  /\ IsFiniteSet(Ids) /\ Ids \subseteq Nat \ {0}
           /\ \A id \in Ids : EntryOf(id) \in Entries /\ EntryOf(id).id = id /\ ParentOf(id) \in Nat
<1>1. Len(session) \in Nat /\ DOMAIN session = 1..Len(session) /\ \A i \in DOMAIN session : session[i] \in PiEntry
  BY LenProperties, ElementOfSeq
<1> DEFINE firsts == {j \in DOMAIN session : \A k \in 1..j - 1 : session[k].id # session[j].id}
<1>2. IsFiniteSet(firsts)
  <2>1. IsFiniteSet(1..Len(session)) /\ firsts \subseteq 1..Len(session)
    BY <1>1, FS_Interval
  <2>. HIDE DEF firsts
  <2>. QED
    BY <2>1, FS_Subset
<1>3. Entries = {session[i] : i \in firsts}
  BY DEF Entries
<1>4. Entries \subseteq PiEntry /\ Ids = {entry.id : entry \in Entries}
  BY <1>1, <1>3 DEF Ids
<1>5. IsFiniteSet(Entries)
  <2> DEFINE f == [i \in firsts |-> session[i]]
  <2>1. f \in Surjection(firsts, Entries)
    <3>. HIDE DEF firsts
    <3>. QED
      BY <1>3 DEF Surjection
  <2>. HIDE DEF f, firsts
  <2>. QED
    BY <1>2, <2>1, FS_Surjection
<1>6. IsFiniteSet(Ids)
  <2> DEFINE f == [entry \in Entries |-> entry.id]
  <2>1. f \in Surjection(Entries, Ids)
    BY <1>4 DEF Surjection
  <2>. HIDE DEF f
  <2>. QED
    BY <1>5, <2>1, FS_Surjection
<1>7. Ids \subseteq Nat \ {0}
  BY <1>4 DEF PiEntry
<1>8. ASSUME NEW id \in Ids
      PROVE  EntryOf(id) \in Entries /\ EntryOf(id).id = id /\ ParentOf(id) \in Nat
  <2>1. \E entry \in Entries : entry.id = id
    BY <1>4
  <2>2. EntryOf(id) \in Entries /\ EntryOf(id).id = id
    BY <2>1 DEF EntryOf
  <2>. QED
    BY <1>4, <2>2 DEF ParentOf, PiEntry
<1>. QED
  BY <1>6, <1>7, <1>8

-----------------------------------------------------------------------------
\* The entries above one are the least set with it and the parents of its members.
OneUp(S) == S \cup ({ParentOf(i) : i \in S} \cap Ids)
UpStep == [S \in SUBSET Ids |-> OneUp(S)]

UpClosed(S) == \A i \in S : ParentOf(i) \in Ids => ParentOf(i) \in S

LEMMA OneUpIs ==
    ASSUME NEW S \in SUBSET Ids
    PROVE  /\ OneUp(S) \in SUBSET Ids /\ S \subseteq OneUp(S)
           /\ UpClosed(S) <=> OneUp(S) = S
BY DEF OneUp, UpClosed

LEMMA LineGoes ==
    ASSUME IsFiniteSet(Ids), NEW id \in Ids
    PROVE  \E g \in [0..Cardinality(Ids) -> SUBSET Ids] :
              Goes(g, Cardinality(Ids), {id}, UpStep) /\ Line(id) = g[Cardinality(Ids)]
<1> DEFINE N == Cardinality(Ids)
           Is(f) == f = [n \in 0..N |-> IF n = 0 THEN {id} ELSE OneUp(f[n - 1])]
           h == CHOOSE f : Is(f)
<1>1. N \in Nat
  BY FS_CardinalityType
<1>2. Line(id) = h[N]
  BY Zenon DEF Line, OneUp
<1>. HIDE DEF N
<1>3. UpStep \in [SUBSET Ids -> SUBSET Ids] /\ {id} \in SUBSET Ids
  BY OneUpIs DEF UpStep
<1>4. \A n \in 0..N : n = 0 \/ (n \in 1..N /\ n - 1 \in 0..N)
  BY <1>1
<1>5. Is(h)
  <2>1. PICK g \in [0..N -> SUBSET Ids] : Goes(g, N, {id}, UpStep)
    BY <1>1, <1>3, Iterates
  <2>2. \A n \in 0..N : g[n] = IF n = 0 THEN {id} ELSE OneUp(g[n - 1])
    BY <1>4, <2>1 DEF Goes, UpStep
  <2>3. Is(g)
    BY <2>1, <2>2
  <2>. HIDE DEF Is
  <2>. QED
    BY <2>3
<1>. HIDE DEF h
<1>6. h[0] = {id} /\ \A n \in 1..N : h[n] = OneUp(h[n - 1])
  <2>1. \A n \in 0..N : h[n] = IF n = 0 THEN {id} ELSE OneUp(h[n - 1])
    BY <1>5
  <2>2. 0 \in 0..N /\ \A n \in 1..N : n \in 0..N /\ n # 0
    BY <1>1
  <2>3. h[0] = {id}
    BY <2>1, <2>2
  <2>4. ASSUME NEW n \in 1..N PROVE h[n] = OneUp(h[n - 1])
    BY <2>1, <2>2
  <2>. QED
    BY <2>3, <2>4
<1>7. \A n \in 0..N : h[n] \in SUBSET Ids
  <2> DEFINE S == {n \in 0..N : h[n] \in SUBSET Ids}
  <2>1. 0 \in S
    BY <1>1, <1>3, <1>6
  <2>2. ASSUME NEW n \in 1..N, n - 1 \in S PROVE n \in S
    <3>1. n \in 0..N /\ h[n - 1] \in SUBSET Ids
      BY <1>1, <2>2
    <3>2. OneUp(h[n - 1]) \in SUBSET Ids
      BY <3>1, OneUpIs
    <3>. QED
      BY <1>6, <3>1, <3>2
  <2>. HIDE DEF S
  <2>3. \A n \in 0..N : n \in S
    BY <1>1, <2>1, <2>2, CountUp
  <2>. QED
    BY <2>3 DEF S
<1>8. h \in [0..N -> SUBSET Ids]
  BY <1>5, <1>7
<1>9. Goes(h, N, {id}, UpStep)
  <2>1. ASSUME NEW n \in 1..N PROVE h[n] = UpStep[h[n - 1]]
    <3>1. n - 1 \in 0..N
      BY <1>1
    <3>2. h[n - 1] \in SUBSET Ids
      BY <1>7, <3>1
    <3>. QED
      BY <1>6, <3>2 DEF UpStep
  <2>. QED
    BY <1>6, <2>1 DEF Goes
<1>. QED
  BY <1>2, <1>8, <1>9 DEF N

LEMMA LineIs ==
    ASSUME IsFiniteSet(Ids), NEW id \in Ids
    PROVE  Line(id) \subseteq Ids /\ id \in Line(id) /\ UpClosed(Line(id))
<1> DEFINE N == Cardinality(Ids)
<1>1. N \in Nat
  BY FS_CardinalityType
<1>2. PICK g \in [0..N -> SUBSET Ids] : Goes(g, N, {id}, UpStep) /\ Line(id) = g[N]
  BY LineGoes
<1>. HIDE DEF N
<1>3. g[0] = {id} /\ \A n \in 1..N : n - 1 \in 0..N /\ n \in 0..N /\ g[n - 1] \in SUBSET Ids /\ g[n] = OneUp(g[n - 1])
  <2> SUFFICES ASSUME NEW n \in 1..N
               PROVE  n - 1 \in 0..N /\ n \in 0..N /\ g[n - 1] \in SUBSET Ids /\ g[n] = OneUp(g[n - 1])
    BY <1>2 DEF Goes
  <2>1. n - 1 \in 0..N /\ n \in 0..N
    BY <1>1
  <2>2. g[n - 1] \in SUBSET Ids
    BY <1>2, <2>1
  <2>. QED
    BY <1>2, <2>1, <2>2 DEF Goes, UpStep
<1>4. \A n \in 0..N : g[n] \subseteq Ids /\ IsFiniteSet(g[n]) /\ Cardinality(g[n]) \in Nat
  BY <1>2, FS_Subset, FS_CardinalityType
<1> DEFINE S == {n \in 0..N : id \in g[n] /\ (UpClosed(g[n]) \/ Cardinality(g[n]) > n)}
<1>5. 0 \in S
  <2>1. Cardinality({id}) = 1
    BY FS_Singleton
  <2>2. g[0] = {id} /\ 0 \in 0..N
    BY <1>1, <1>3
  <2>3. id \in g[0] /\ Cardinality(g[0]) > 0
    BY <2>1, <2>2
  <2>. QED
    BY <2>2, <2>3
<1>6. ASSUME NEW n \in 1..N, n - 1 \in S PROVE n \in S
  <2> DEFINE T == g[n - 1]
  <2>1. T \in SUBSET Ids /\ g[n] = OneUp(T) /\ id \in T /\ n \in 0..N /\ n - 1 \in 0..N
    BY <1>3, <1>6
  <2>2. T \subseteq g[n] /\ id \in g[n]
    BY <2>1, OneUpIs
  <2>3. UpClosed(T) \/ Cardinality(T) > n - 1
    BY <1>6
  <2>4. CASE UpClosed(T)
    <3>1. g[n] = T
      <4>. HIDE DEF T
      <4>. QED
        BY <2>1, <2>4, OneUpIs
    <3>2. UpClosed(g[n])
      <4>. HIDE DEF T
      <4>. QED
        BY <2>4, <3>1
    <3>. QED
      BY <2>1, <2>2, <3>2
  <2>5. CASE ~UpClosed(T)
    <3>1. g[n] # T
      <4>. HIDE DEF T
      <4>. QED
        BY <2>1, <2>5, OneUpIs
    <3>2. IsFiniteSet(g[n]) /\ Cardinality(g[n]) \in Nat /\ Cardinality(T) \in Nat
      BY <1>4, <2>1
    <3>3. Cardinality(T) < Cardinality(g[n])
      <4>. HIDE DEF T
      <4>. QED
        BY <2>2, <3>1, <3>2, FS_Subset
    <3>4. Cardinality(g[n]) > n
      BY <2>3, <2>5, <3>2, <3>3
    <3>. QED
      BY <2>1, <2>2, <3>4
  <2>. QED
    BY <2>4, <2>5
<1>7. N \in S
  <2>1. N \in 0..N
    BY <1>1
  <2>. HIDE DEF S
  <2>. QED
    BY <1>1, <1>5, <1>6, <2>1, CountUp
<1>8. N \in 0..N /\ Cardinality(g[N]) <= N
  <2>1. N \in 0..N
    BY <1>1
  <2>. QED
    BY <1>4, <2>1, FS_Subset DEF N
<1>9. UpClosed(g[N])
  BY <1>1, <1>4, <1>7, <1>8
<1>. QED
  BY <1>2, <1>4, <1>7, <1>8, <1>9

LEMMA LineLeast ==
    ASSUME IsFiniteSet(Ids), NEW id \in Ids, NEW S, id \in S, UpClosed(S)
    PROVE  Line(id) \subseteq S
<1> DEFINE N == Cardinality(Ids)
<1>1. N \in Nat
  BY FS_CardinalityType
<1>2. PICK g \in [0..N -> SUBSET Ids] : Goes(g, N, {id}, UpStep) /\ Line(id) = g[N]
  BY LineGoes
<1>. HIDE DEF N
<1> DEFINE within == {n \in 0..N : g[n] \subseteq S}
<1>3. 0 \in within
  BY <1>1, <1>2 DEF Goes
<1>4. ASSUME NEW n \in 1..N, n - 1 \in within PROVE n \in within
  <2>1. n - 1 \in 0..N /\ n \in 0..N /\ g[n - 1] \subseteq S /\ g[n - 1] \in SUBSET Ids
    BY <1>1, <1>2, <1>4
  <2>2. g[n] = OneUp(g[n - 1])
    BY <1>2, <2>1 DEF Goes, UpStep
  <2>3. OneUp(g[n - 1]) \subseteq S
    BY <2>1 DEF OneUp, UpClosed
  <2>. QED
    BY <2>1, <2>2, <2>3
<1>5. N \in within
  <2>1. N \in 0..N
    BY <1>1
  <2>. HIDE DEF within
  <2>. QED
    BY <1>1, <1>3, <1>4, <2>1, CountUp
<1>. QED
  BY <1>2, <1>5

LEMMA LineWithin ==
    ASSUME IsFiniteSet(Ids), NEW id \in Ids, NEW j \in Line(id)
    PROVE  j \in Ids /\ Line(j) \subseteq Line(id)
<1>1. j \in Ids /\ UpClosed(Line(id))
  BY LineIs
<1>. QED
  BY <1>1, LineLeast

LEMMA LineUp ==
    ASSUME IsFiniteSet(Ids), NEW id \in Ids
    PROVE  Line(id) = {id} \cup (IF ParentOf(id) \in Ids THEN Line(ParentOf(id)) ELSE {})
<1>1. id \in Line(id) /\ UpClosed(Line(id))
  BY LineIs
<1>2. CASE ParentOf(id) \in Ids
  <2> DEFINE up == Line(ParentOf(id))
             wider == {id} \cup up
  <2>1. ParentOf(id) \in up /\ UpClosed(up)
    BY <1>2, LineIs
  <2>2. UpClosed(wider)
    <3>. HIDE DEF up
    <3>. QED
      BY <2>1 DEF UpClosed
  <2>3. Line(id) \subseteq wider
    <3>1. id \in wider
      OBVIOUS
    <3>. HIDE DEF wider
    <3>. QED
      BY <2>2, <3>1, LineLeast
  <2>4. ParentOf(id) \in Line(id)
    BY <1>1, <1>2 DEF UpClosed
  <2>5. up \subseteq Line(id)
    BY <2>4, LineWithin
  <2>. QED
    BY <1>1, <1>2, <2>3, <2>5
<1>3. CASE ParentOf(id) \notin Ids
  <2>1. UpClosed({id})
    BY <1>3 DEF UpClosed
  <2>2. Line(id) \subseteq {id}
    BY <2>1, LineLeast
  <2>. QED
    BY <1>1, <1>3, <2>2
<1>. QED
  BY <1>2, <1>3

\* All entries of a cycle have the same line, which is the cycle.
LEMMA CycleIs ==
    ASSUME IsFiniteSet(Ids), NEW id \in Ids, InCycle(id), NEW b \in Line(id)
    PROVE  b \in Ids /\ Line(b) = Line(id) /\ InCycle(b) /\ ParentOf(b) \in Ids
<1>1. id \in Line(id) /\ UpClosed(Line(id)) /\ Line(id) \subseteq Ids
  BY LineIs
<1>2. PICK c \in Line(id) : ParentOf(c) = id
  BY DEF InCycle
<1> DEFINE back == {x \in Line(id) : id \in Line(x)}
<1>3. UpClosed(back)
  <2> SUFFICES ASSUME NEW i \in back, ParentOf(i) \in Ids PROVE ParentOf(i) \in back
    BY DEF UpClosed
  <2>1. i \in Ids /\ id \in Line(i) /\ ParentOf(i) \in Line(id)
    BY <1>1 DEF UpClosed
  <2>2. Line(i) = {i} \cup Line(ParentOf(i)) /\ UpClosed(Line(ParentOf(i)))
    BY <2>1, LineUp, LineIs
  <2>3. CASE id # i
    BY <2>1, <2>2, <2>3
  <2>4. CASE id = i
    <3>1. CASE c = id
      <4>1. ParentOf(i) = id
        BY <1>2, <2>4, <3>1
      <4>. QED
        BY <1>1, <4>1
    <3>2. CASE c # id
      <4>1. c \in Line(ParentOf(i))
        BY <1>2, <2>2, <2>4, <3>2
      <4>2. id \in Line(ParentOf(i))
        BY <1>2, <2>2, <4>1 DEF UpClosed
      <4>. QED
        BY <2>1, <4>2
    <3>. QED
      BY <3>1, <3>2
  <2>. QED
    BY <2>3, <2>4
<1>4. id \in Line(b)
  <2>1. id \in back
    BY <1>1
  <2>. HIDE DEF back
  <2>2. Line(id) \subseteq back
    BY <1>3, <2>1, LineLeast
  <2>3. b \in back
    BY <2>2
  <2>. QED
    BY <2>3 DEF back
<1>5. b \in Ids /\ Line(b) = Line(id)
  <2>1. b \in Ids /\ Line(b) \subseteq Line(id)
    BY LineWithin
  <2>2. Line(id) \subseteq Line(b)
    BY <1>4, <2>1, LineWithin
  <2>. QED
    BY <2>1, <2>2
<1>6. \E i \in Line(id) : ParentOf(i) = b
  <2>1. CASE b = id
    BY <1>2, <2>1
  <2>2. CASE b # id
    <3> SUFFICES ASSUME \A i \in Line(id) : ParentOf(i) # b PROVE FALSE
      OBVIOUS
    <3> DEFINE rest == Line(id) \ {b}
    <3>1. id \in rest /\ UpClosed(rest)
      BY <1>1, <2>2 DEF UpClosed
    <3>. HIDE DEF rest
    <3>2. Line(id) \subseteq rest
      BY <3>1, LineLeast
    <3>. QED
      BY <3>2 DEF rest
  <2>. QED
    BY <2>1, <2>2
<1>7. InCycle(b)
  BY <1>1, <1>5, <1>6 DEF InCycle
<1>8. ParentOf(b) \in Ids
  <2> SUFFICES ASSUME ParentOf(b) \notin Ids PROVE FALSE
    OBVIOUS
  <2>1. Line(b) = {b}
    BY <1>5, LineUp
  <2>. QED
    BY <1>5, <1>6, <2>1
<1>. QED
  BY <1>5, <1>7, <1>8

-----------------------------------------------------------------------------
(* The operators as functions of the session, which does not change *)

EntriesIn(s) == {s[i] : i \in {j \in DOMAIN s : \A k \in 1..j - 1 : s[k].id # s[j].id}}
IdsIn(s) == {entry.id : entry \in EntriesIn(s)}
EntryIn(s, id) == CHOOSE entry \in EntriesIn(s) : entry.id = id
LineIn(s, id) ==
    LET up[n \in 0..Cardinality(IdsIn(s))] ==
            IF n = 0 THEN {id} ELSE up[n - 1] \cup ({EntryIn(s, i).parent : i \in up[n - 1]} \cap IdsIn(s))
    IN up[Cardinality(IdsIn(s))]

LEMMA OfTheSession ==
    /\ Ids = IdsIn(session) /\ Ids' = IdsIn(session')
    /\ \A id : EntryOf(id) = EntryIn(session, id) /\ EntryOf(id)' = EntryIn(session', id)
    /\ \A id : Line(id) = LineIn(session, id) /\ Line(id)' = LineIn(session', id)
<1>1. Ids = IdsIn(session) /\ Ids' = IdsIn(session')
  BY Zenon DEF Ids, Entries, IdsIn, EntriesIn
<1>2. \A id : EntryOf(id) = EntryIn(session, id) /\ EntryOf(id)' = EntryIn(session', id)
  BY Zenon DEF EntryOf, Entries, EntryIn, EntriesIn
<1>3. \A id : Line(id) = LineIn(session, id) /\ Line(id)' = LineIn(session', id)
  BY Zenon DEF Line, ParentOf, EntryOf, Ids, Entries, LineIn, EntryIn, IdsIn, EntriesIn
<1>. QED
  BY <1>1, <1>2, <1>3

NoCycleAbove(id) == \A j \in Line(id) : ~InCycle(j)
Changes(id) == {j \in Line(id) : EntryOf(j).kind = "model"}
Nearest(id) ==
    IF Changes(id) = {} THEN {0}
    ELSE {j \in Changes(id) : \A k \in Changes(id) : Distance(id, j) <= Distance(id, k)}

LEMMA SessionStays ==
    ASSUME session' = session
    PROVE  /\ Ids' = Ids
           /\ \A id : /\ EntryOf(id)' = EntryOf(id) /\ ParentOf(id)' = ParentOf(id) /\ Line(id)' = Line(id)
                      /\ InCycle(id)' <=> InCycle(id)
                      /\ NoCycleAbove(id)' <=> NoCycleAbove(id)
                      /\ Nearest(id)' = Nearest(id)
<1>1. Ids' = Ids /\ \A id : EntryOf(id)' = EntryOf(id) /\ Line(id)' = Line(id)
  BY OfTheSession
<1>2. \A id : ParentOf(id)' = ParentOf(id)
  BY <1>1 DEF ParentOf
<1>3. \A id : InCycle(id)' <=> InCycle(id)
  BY <1>1, <1>2 DEF InCycle
<1>4. \A id : NoCycleAbove(id)' <=> NoCycleAbove(id)
  BY <1>1, <1>3 DEF NoCycleAbove
<1>5. \A id : Changes(id)' = Changes(id)
  BY <1>1 DEF Changes
<1>6. \A id, j : Distance(id, j)' = Distance(id, j)
  BY <1>1 DEF Distance
<1>7. \A id : Nearest(id)' = Nearest(id)
  BY <1>5, <1>6 DEF Nearest
<1>. QED
  BY <1>1, <1>2, <1>3, <1>4, <1>7

-----------------------------------------------------------------------------
(* What holds while the entries are visited                                *)

PlacedBefore(a, b) == \E j \in DOMAIN ordered : ordered[j] = b /\ \E i \in 1..j - 1 : ordered[i] = a

\* Entries that were put in their place before their parent.
Ends == {id \in Visited : ParentOf(id) \in Ids /\ ~PlacedBefore(ParentOf(id), id)}

VisitTyped ==
    /\ session \in Seq(PiEntry) /\ stack \in Seq(Ids) /\ ordered \in Seq(Ids)
    /\ IsInjective(stack) /\ IsInjective(ordered) /\ ToSet(stack) \cap Visited = {}

\* Each is visited from the one below it, whose parent it is.
Climbing == \A k \in 1..Len(stack) - 1 : ParentOf(stack[k]) = stack[k + 1]

\* Of the cycle of such an entry all others are visited after it, each after its parent.
EndsInCycles ==
    \A a \in Ends :
        /\ InCycle(a)
        /\ \A b \in Line(a) \ {a} :
              /\ b \notin Ends /\ b \in Visited \cup ToSet(stack)
              /\ stack # <<>> /\ b = Last(stack) => ParentOf(b) \in Visited

Warned ==
    /\ cycles \in Seq(Ids) /\ IsFiniteSet(Ends)
    /\ Len(cycles) = Cardinality(Ends) /\ ToSet(cycles) = {ParentOf(id) : id \in Ends}

\* The model has been passed down to the first entries of the order.
Passed ==
    /\ DOMAIN model # {} => stack = <<>> /\ Visited = Ids
    /\ Cardinality(DOMAIN model) \in 0..Len(ordered)
    /\ DOMAIN model = {ordered[i] : i \in 1..Cardinality(DOMAIN model)}
    /\ \A id \in DOMAIN model : NoCycleAbove(id) => model[id] \in Nearest(id)
    /\ \A id \in DOMAIN primary : id \in DOMAIN model /\ primary[id].model = model[id]

PiInv == VisitTyped /\ Climbing /\ EndsInCycles /\ Warned /\ Passed

LEMMA MembersAppended ==
    ASSUME NEW T, NEW s \in Seq(T), NEW x \in T
    PROVE  Append(s, x) \in Seq(T) /\ ToSet(Append(s, x)) = ToSet(s) \cup {x}
<1>1. /\ Append(s, x) \in Seq(T) /\ Len(Append(s, x)) = Len(s) + 1 /\ Append(s, x)[Len(s) + 1] = x
      /\ \A i \in 1..Len(s) : Append(s, x)[i] = s[i]
  BY AppendProperties
<1>2. Len(s) \in Nat /\ DOMAIN s = 1..Len(s) /\ DOMAIN Append(s, x) = 1..Len(s) + 1
  BY <1>1, LenProperties
<1>3. 1..Len(s) + 1 = (1..Len(s)) \cup {Len(s) + 1}
  BY <1>2
<1>4. ToSet(Append(s, x)) = {Append(s, x)[i] : i \in 1..Len(s)} \cup {x}
  BY <1>1, <1>2, <1>3 DEF ToSet
<1>. QED
  BY <1>1, <1>2, <1>4 DEF ToSet

LEMMA InjectiveAppended ==
    ASSUME NEW T, NEW s \in Seq(T), NEW x \in T, IsInjective(s), x \notin ToSet(s)
    PROVE  IsInjective(Append(s, x))
<1>1. /\ Append(s, x) \in Seq(T) /\ Len(Append(s, x)) = Len(s) + 1 /\ Append(s, x)[Len(s) + 1] = x
      /\ \A i \in 1..Len(s) : Append(s, x)[i] = s[i]
  BY AppendProperties
<1>2. Len(s) \in Nat /\ DOMAIN s = 1..Len(s) /\ DOMAIN Append(s, x) = 1..Len(s) + 1
  BY <1>1, LenProperties
<1>3. \A i \in 1..Len(s) : s[i] # x
  BY <1>2 DEF ToSet
<1>4. \A i \in 1..Len(s) + 1 : i \in 1..Len(s) \/ i = Len(s) + 1
  BY <1>2
<1>5. \A i, j \in 1..Len(s) : s[i] = s[j] => i = j
  BY <1>2 DEF IsInjective
<1>6. ASSUME NEW i \in 1..Len(s) + 1, NEW j \in 1..Len(s) + 1, Append(s, x)[i] = Append(s, x)[j]
      PROVE  i = j
  BY <1>1, <1>3, <1>4, <1>5, <1>6
<1>. QED
  BY <1>2, <1>6 DEF IsInjective

\* The last of a sequence, and what is left without it.
LEMMA LastLeft ==
    ASSUME NEW T, NEW s \in Seq(T), s # <<>>
    PROVE  /\ Len(s) \in Nat \ {0} /\ Last(s) \in T /\ Last(s) = s[Len(s)]
           /\ Front(s) \in Seq(T) /\ Len(Front(s)) = Len(s) - 1 /\ \A i \in 1..Len(s) - 1 : Front(s)[i] = s[i]
           /\ IsInjective(s) => IsInjective(Front(s)) /\ ToSet(Front(s)) = ToSet(s) \ {Last(s)}
<1>1. Len(s) \in Nat \ {0} /\ DOMAIN s = 1..Len(s) /\ Len(s) \in 1..Len(s)
  <2>1. Len(s) \in Nat /\ DOMAIN s = 1..Len(s) /\ Len(s) # 0
    BY LenProperties, EmptySeq
  <2>. QED
    BY <2>1
<1>2. Last(s) \in T /\ Last(s) = s[Len(s)]
  BY <1>1, ElementOfSeq DEF Last
<1>3. Front(s) \in Seq(T) /\ Len(Front(s)) = Len(s) - 1 /\ \A i \in 1..Len(s) - 1 : Front(s)[i] = s[i]
  BY <1>1 DEF Front
<1>4. DOMAIN Front(s) = 1..Len(s) - 1 /\ 1..Len(s) = (1..Len(s) - 1) \cup {Len(s)} /\ Len(s) \notin 1..Len(s) - 1
  BY <1>1, <1>3, LenProperties
<1>5. ASSUME IsInjective(s) PROVE IsInjective(Front(s)) /\ ToSet(Front(s)) = ToSet(s) \ {Last(s)}
  <2>1. \A i, j \in 1..Len(s) : s[i] = s[j] => i = j
    BY <1>1, <1>5 DEF IsInjective
  <2>2. IsInjective(Front(s))
    BY <1>3, <1>4, <2>1 DEF IsInjective
  <2>3. ToSet(s) = {s[i] : i \in 1..Len(s)} /\ ToSet(Front(s)) = {s[i] : i \in 1..Len(s) - 1}
    BY <1>1, <1>3, <1>4 DEF ToSet
  <2>4. \A i \in 1..Len(s) - 1 : s[i] # Last(s)
    BY <1>1, <1>2, <1>4, <2>1
  <2>. QED
    BY <1>2, <1>4, <2>2, <2>3, <2>4
<1>. QED
  BY <1>1, <1>2, <1>3, <1>5

-----------------------------------------------------------------------------
LEMMA PiStarts == PiInit => PiInv
<1> SUFFICES ASSUME PiInit PROVE PiInv
  OBVIOUS
<1>1. /\ session \in Seq(PiEntry) /\ stack = <<>> /\ ordered = <<>> /\ cycles = <<>>
      /\ model = NoEntry /\ primary = NoEntry
  BY PiConstants DEF PiInit, NothingVisited, PiEntry
<1>2. DOMAIN NoEntry = {} /\ Cardinality({}) = 0 /\ IsFiniteSet({})
  BY FS_EmptySet DEF NoEntry
<1>3. ToSet(<<>>) = {} /\ Len(<<>>) = 0 /\ IsInjective(<<>>) /\ \A T : <<>> \in Seq(T)
  BY DEF ToSet, IsInjective
<1>4. Visited = {} /\ Ends = {}
  BY <1>1, <1>3 DEF Visited, Ends
<1>5. VisitTyped
  BY <1>1, <1>3, <1>4 DEF VisitTyped
<1>6. Climbing /\ EndsInCycles
  BY <1>1, <1>3, <1>4 DEF Climbing, EndsInCycles
<1>7. Warned
  BY <1>1, <1>2, <1>3, <1>4 DEF Warned
<1>8. Passed
  BY <1>1, <1>2, <1>3 DEF Passed
<1>. QED
  BY <1>5, <1>6, <1>7, <1>8 DEF PiInv

LEMMA EndsStay ==
    ASSUME session' = session, ordered' = ordered
    PROVE  Visited' = Visited /\ Ends' = Ends
<1>1. Visited' = Visited
  BY DEF Visited
<1>2. \A a, b : PlacedBefore(a, b)' <=> PlacedBefore(a, b)
  BY DEF PlacedBefore
<1>3. Ids' = Ids /\ \A id : ParentOf(id)' = ParentOf(id)
  BY SessionStays
<1>. QED
  BY <1>1, <1>2, <1>3 DEF Ends

\* The warnings do not depend on anything else.
LEMMA WarnedStays ==
    ASSUME Warned, session' = session, ordered' = ordered, cycles' = cycles
    PROVE  Warned'
<1>1. Ids' = Ids /\ \A id : ParentOf(id)' = ParentOf(id)
  BY SessionStays
<1>2. Ends' = Ends /\ ToSet(cycles)' = ToSet(cycles)
  BY EndsStay DEF ToSet
<1>. QED
  BY <1>1, <1>2 DEF Warned

\* No model is known before all entries are in their places.
LEMMA NothingPassed ==
    ASSUME Passed, stack # <<>> \/ Visited # Ids, model' = model, primary' = primary, Len(ordered') \in Nat
    PROVE  Passed'
<1>1. DOMAIN model = {}
  BY DEF Passed
<1>2. DOMAIN model' = {} /\ Cardinality({}) = 0 /\ Cardinality({}) \in 0..Len(ordered') /\ DOMAIN primary' = {}
  <2>1. Cardinality({}) = 0
    BY FS_EmptySet
  <2>2. DOMAIN primary = {}
    BY <1>1 DEF Passed
  <2>. QED
    BY <1>1, <2>1, <2>2
<1>3. {ordered'[i] : i \in 1..0} = {}
  OBVIOUS
<1>. QED
  BY <1>2, <1>3 DEF Passed

LEMMA VisitNextKeeps ==
    ASSUME PiInv, VisitNext
    PROVE  PiInv'
<1> DEFINE first == Min(Ids \ Visited)
<1>1. /\ session' = session /\ ordered' = ordered /\ cycles' = cycles /\ model' = model /\ primary' = primary
      /\ stack = <<>> /\ stack' = <<first>> /\ Visited # Ids
  BY DEF VisitNext
<1>2. /\ session \in Seq(PiEntry) /\ ordered \in Seq(Ids) /\ IsInjective(ordered)
      /\ IsFiniteSet(Ids) /\ Ids \subseteq Nat \ {0} /\ Visited \subseteq Ids
  <2>1. session \in Seq(PiEntry) /\ ordered \in Seq(Ids) /\ IsInjective(ordered)
    BY DEF PiInv, VisitTyped
  <2>2. Visited \subseteq Ids
    BY <2>1, LenProperties, ElementOfSeq DEF Visited, ToSet
  <2>. QED
    BY <2>1, <2>2, EntriesKnown
<1>3. first \in Ids \ Visited
  <2>1. PICK n \in Ids \ Visited : TRUE
    BY <1>1, <1>2
  <2> DEFINE low == (Ids \ Visited) \cap (1..n)
  <2>2. n \in Nat /\ low \subseteq 1..n /\ low # {}
    BY <1>2
  <2>3. PICK m \in low : \A x \in low : m <= x
    <3>. HIDE DEF low
    <3>. QED
      BY <2>2, HasSmallest
  <2>4. m \in Ids \ Visited /\ \A y \in Ids \ Visited : m <= y
    <3>1. \A y \in Ids \ Visited : y \in Nat /\ (y \in low \/ y > n)
      BY <1>2
    <3>2. m \in 1..n
      BY <2>2
    <3>. QED
      BY <2>3, <3>1, <3>2
  <2>5. \E x \in Ids \ Visited : \A y \in Ids \ Visited : x <= y
    BY <2>4
  <2>. QED
    BY <2>5 DEF Min
<1>. HIDE DEF first
<1>4. Ids' = Ids /\ Visited' = Visited /\ Ends' = Ends
  BY <1>1, SessionStays, EndsStay
<1>5. \A id : ParentOf(id)' = ParentOf(id) /\ Line(id)' = Line(id) /\ (InCycle(id)' <=> InCycle(id))
  BY <1>1, SessionStays
<1>6. Len(stack') = 1 /\ stack' \in Seq(Ids) /\ ToSet(stack') = {first} /\ Last(stack') = first /\ IsInjective(stack')
  BY <1>1, <1>3 DEF ToSet, Last, IsInjective
<1>7. VisitTyped'
  BY <1>1, <1>2, <1>3, <1>4, <1>6 DEF VisitTyped, ToSet, IsInjective
<1>8. Climbing'
  BY <1>6 DEF Climbing
<1>9. EndsInCycles'
  <2>1. ToSet(stack) = {}
    BY <1>1 DEF ToSet
  <2> SUFFICES ASSUME NEW a \in Ends
               PROVE  /\ InCycle(a)
                      /\ \A b \in Line(a) \ {a} : b \notin Ends /\ b \in Visited /\ b # first
    BY <1>4, <1>5, <1>6 DEF EndsInCycles, ToSet
  <2>2. \A b \in Line(a) \ {a} : b \notin Ends /\ b \in Visited
    BY <2>1 DEF PiInv, EndsInCycles
  <2>. QED
    BY <1>3, <2>2 DEF PiInv, EndsInCycles
<1>10. Warned'
  BY <1>1, WarnedStays DEF PiInv
<1>11. Passed'
  <2>1. Len(ordered') \in Nat
    BY <1>1, <1>2, LenProperties
  <2>. QED
    BY <1>1, <2>1, NothingPassed DEF PiInv
<1>. QED
  BY <1>7, <1>8, <1>9, <1>10, <1>11 DEF PiInv

LEMMA ClimbKeeps ==
    ASSUME PiInv, Climb
    PROVE  PiInv'
<1> DEFINE parent == ParentOf(Last(stack))
<1>1. /\ session' = session /\ ordered' = ordered /\ cycles' = cycles /\ model' = model /\ primary' = primary
      /\ stack # <<>> /\ stack' = Append(stack, parent) /\ parent \in Ids \ (Visited \cup ToSet(stack))
  BY DEF Climb, ToClimb, Current
<1>2. /\ session \in Seq(PiEntry) /\ stack \in Seq(Ids) /\ ordered \in Seq(Ids)
      /\ IsInjective(stack) /\ IsInjective(ordered) /\ ToSet(stack) \cap Visited = {}
  BY DEF PiInv, VisitTyped
<1>3. Ids' = Ids /\ Visited' = Visited /\ Ends' = Ends
  BY <1>1, SessionStays, EndsStay
<1>4. \A id : ParentOf(id)' = ParentOf(id) /\ Line(id)' = Line(id) /\ (InCycle(id)' <=> InCycle(id))
  BY <1>1, SessionStays
<1>5. Len(stack) \in Nat \ {0} /\ Last(stack) = stack[Len(stack)]
  BY <1>1, <1>2, LastLeft
<1>6. /\ Len(stack') = Len(stack) + 1 /\ stack'[Len(stack) + 1] = parent
      /\ \A i \in 1..Len(stack) : stack'[i] = stack[i]
  <2>. HIDE DEF parent
  <2>. QED
    BY <1>1, <1>2, AppendProperties
<1>7. stack' \in Seq(Ids) /\ ToSet(stack') = ToSet(stack) \cup {parent} /\ IsInjective(stack')
  <2>. HIDE DEF parent
  <2>. QED
    BY <1>1, <1>2, MembersAppended, InjectiveAppended
<1>8. Last(stack') = parent
  BY <1>5, <1>6 DEF Last
<1>9. VisitTyped'
  <2>1. IsInjective(stack)' /\ IsInjective(ordered)' /\ ToSet(stack)' = ToSet(stack')
    BY <1>1, <1>2, <1>7 DEF IsInjective, ToSet
  <2>. QED
    BY <1>1, <1>2, <1>3, <1>7, <2>1 DEF VisitTyped
<1>10. Climbing'
  <2> SUFFICES ASSUME NEW k \in 1..Len(stack') - 1 PROVE ParentOf(stack'[k]) = stack'[k + 1]
    BY <1>4 DEF Climbing
  <2>1. k \in 1..Len(stack) /\ (k = Len(stack) \/ (k \in 1..Len(stack) - 1 /\ k + 1 \in 1..Len(stack)))
    BY <1>5, <1>6
  <2>2. CASE k = Len(stack)
    BY <1>5, <1>6, <2>1, <2>2
  <2>3. CASE k # Len(stack)
    BY <1>6, <2>1, <2>3 DEF PiInv, Climbing
  <2>. QED
    BY <2>2, <2>3
<1>11. EndsInCycles'
  <2> SUFFICES ASSUME NEW a \in Ends
               PROVE  /\ InCycle(a)
                      /\ \A b \in Line(a) \ {a} : b \notin Ends /\ b \in Visited \cup ToSet(stack) /\ b # parent
    BY <1>3, <1>4, <1>7, <1>8 DEF EndsInCycles, ToSet
  <2>1. \A b \in Line(a) \ {a} : b \notin Ends /\ b \in Visited \cup ToSet(stack)
    BY DEF PiInv, EndsInCycles
  <2>. QED
    BY <1>1, <2>1 DEF PiInv, EndsInCycles
<1>12. Warned'
  BY <1>1, WarnedStays DEF PiInv
<1>13. Passed'
  <2>1. Len(ordered') \in Nat
    BY <1>1, <1>2, LenProperties
  <2>. QED
    BY <1>1, <2>1, NothingPassed DEF PiInv
<1>. QED
  BY <1>9, <1>10, <1>11, <1>12, <1>13 DEF PiInv

LEMMA PlacedBeforeGrows ==
    ASSUME ordered \in Seq(Ids), NEW id \in Ids, id \notin Visited, ordered' = Append(ordered, id)
    PROVE  \A a : /\ PlacedBefore(a, id)' <=> a \in Visited
                  /\ \A b \in Visited : PlacedBefore(a, b)' <=> PlacedBefore(a, b)
<1> DEFINE n == Len(ordered)
<1>1. n \in Nat /\ DOMAIN ordered = 1..n /\ Visited = {ordered[i] : i \in 1..n}
  BY LenProperties DEF Visited, ToSet
<1>2. ordered'[n + 1] = id /\ (\A i \in 1..n : ordered'[i] = ordered[i]) /\ DOMAIN ordered' = 1..n + 1
  <2>1. /\ Append(ordered, id)[n + 1] = id /\ \A i \in 1..n : Append(ordered, id)[i] = ordered[i]
        /\ Append(ordered, id) \in Seq(Ids) /\ Len(Append(ordered, id)) = n + 1
    BY AppendProperties
  <2>. QED
    BY <2>1, LenProperties
<1>3. \A j \in 1..n + 1 : j = n + 1 \/ (j \in 1..n /\ \A i \in 1..j - 1 : i \in 1..n)
  BY <1>1
<1>4. \A i \in 1..n : ordered[i] \in Visited /\ ordered[i] # id
  BY <1>1
<1>. HIDE DEF n
<1> SUFFICES ASSUME NEW a
             PROVE  /\ PlacedBefore(a, id)' <=> a \in Visited
                    /\ \A b \in Visited : PlacedBefore(a, b)' <=> PlacedBefore(a, b)
  OBVIOUS
<1>5. PlacedBefore(a, id)' <=> \E i \in 1..n : ordered[i] = a
  <2>1. PlacedBefore(a, id)' <=> \E i \in 1..n : ordered'[i] = a
    <3>1. n + 1 \in 1..n + 1 /\ (n + 1) - 1 = n
      BY <1>1
    <3>2. \A j \in 1..n + 1 : ordered'[j] = id <=> j = n + 1
      BY <1>2, <1>3, <1>4
    <3>3. PlacedBefore(a, id)' <=> \E j \in 1..n + 1 : ordered'[j] = id /\ \E i \in 1..j - 1 : ordered'[i] = a
      BY <1>2 DEF PlacedBefore
    <3>. QED
      BY <3>1, <3>2, <3>3
  <2>. QED
    BY <1>2, <2>1
<1>6. ASSUME NEW b \in Visited PROVE PlacedBefore(a, b)' <=> PlacedBefore(a, b)
  <2>1. PlacedBefore(a, b) <=> \E j \in 1..n : ordered[j] = b /\ \E i \in 1..j - 1 : ordered[i] = a
    BY <1>1 DEF PlacedBefore
  <2>2. PlacedBefore(a, b)' <=> \E j \in 1..n + 1 : ordered'[j] = b /\ \E i \in 1..j - 1 : ordered'[i] = a
    BY <1>2 DEF PlacedBefore
  <2>3. b # id /\ \A j \in 1..n : j \in 1..n + 1
    BY <1>1
  <2>4. \A j \in 1..n : (\E i \in 1..j - 1 : ordered'[i] = a) <=> (\E i \in 1..j - 1 : ordered[i] = a)
    <3>1. \A j \in 1..n : \A i \in 1..j - 1 : i \in 1..n
      BY <1>1
    <3>. QED
      BY <1>2, <3>1
  <2>5. ASSUME NEW j \in 1..n + 1, ordered'[j] = b PROVE j \in 1..n /\ ordered[j] = b
    BY <1>2, <1>3, <2>3, <2>5
  <2>6. ASSUME NEW j \in 1..n, ordered[j] = b PROVE j \in 1..n + 1 /\ ordered'[j] = b
    BY <1>2, <2>3, <2>6
  <2>. QED
    BY <2>1, <2>2, <2>4, <2>5, <2>6
<1>. QED
  BY <1>1, <1>5, <1>6

\* An entry whose parent is still being visited closes a cycle, all of which is.
LEMMA StackCycle ==
    ASSUME IsFiniteSet(Ids), stack \in Seq(Ids), stack # <<>>, Climbing, ParentOf(Last(stack)) \in ToSet(stack)
    PROVE  InCycle(Last(stack)) /\ Line(Last(stack)) \subseteq ToSet(stack)
<1> DEFINE n == Len(stack)
           last == Last(stack)
<1>1. n \in Nat \ {0} /\ last \in Ids /\ last = stack[n] /\ DOMAIN stack = 1..n /\ \A i \in 1..n : stack[i] \in Ids
  BY LastLeft, LenProperties, ElementOfSeq
<1>2. PICK k \in 1..n : stack[k] = ParentOf(last)
  BY <1>1 DEF ToSet
<1>3. \A i \in 1..n - 1 : ParentOf(stack[i]) = stack[i + 1]
  BY DEF Climbing
<1> DEFINE part == {stack[i] : i \in k..n}
<1>4. part \subseteq ToSet(stack) /\ last \in part
  BY <1>1, <1>2 DEF ToSet
<1>5. UpClosed(part)
  <2> SUFFICES ASSUME NEW i \in k..n PROVE ParentOf(stack[i]) \in part
    BY DEF UpClosed
  <2>1. CASE i = n
    BY <1>1, <1>2, <2>1
  <2>2. CASE i # n
    <3>1. i \in 1..n - 1 /\ i + 1 \in k..n
      <4>1. n \in Nat /\ k \in 1..n
        BY <1>1
      <4>. HIDE DEF n
      <4>. QED
        BY <2>2, <4>1
    <3>. QED
      BY <1>3, <3>1
  <2>. QED
    BY <2>1, <2>2
<1>6. Line(last) \subseteq part
  <2>. HIDE DEF last, part
  <2>. QED
    BY <1>1, <1>4, <1>5, LineLeast DEF last
<1>7. last \in Line(last) /\ UpClosed(Line(last))
  BY <1>1, LineIs
<1>8. ParentOf(last) \in Line(last)
  BY <1>1, <1>2, <1>7 DEF UpClosed
<1> DEFINE S == {d \in 0..n - k : stack[k + d] \in Line(last)}
<1>9. 0 \in S
  BY <1>1, <1>2, <1>8
<1>10. ASSUME NEW d \in 1..n - k, d - 1 \in S PROVE d \in S
  <2>1. /\ k + (d - 1) \in 1..n - 1 /\ (k + (d - 1)) + 1 = k + d /\ k + d \in 1..n /\ d \in 0..n - k
        /\ stack[k + (d - 1)] \in Line(last)
    BY <1>1, <1>10
  <2>2. ParentOf(stack[k + (d - 1)]) = stack[k + d]
    BY <1>3, <2>1
  <2>3. stack[k + d] \in Ids
    BY <1>1, <2>1
  <2>4. stack[k + d] \in Line(last)
    <3>. HIDE DEF last
    <3>. QED
      BY <1>7, <2>1, <2>2, <2>3 DEF UpClosed
  <2>. QED
    BY <2>1, <2>4
<1>11. \A d \in 0..n - k : d \in S
  <2>1. n - k \in Nat
    BY <1>1
  <2>. HIDE DEF S, n
  <2>. QED
    BY <1>9, <1>10, <2>1, CountUp
<1>12. \E c \in Line(last) \cap Ids : ParentOf(c) = last
  <2>1. CASE k = n
    BY <1>1, <1>2, <1>7, <2>1
  <2>2. CASE k # n
    <3>1. (n - 1) - k \in 0..n - k /\ k + ((n - 1) - k) = n - 1 /\ n - 1 \in 1..n - 1 /\ (n - 1) + 1 = n /\ n - 1 \in 1..n
      <4>1. n \in Nat /\ k \in 1..n
        BY <1>1
      <4>. HIDE DEF n
      <4>. QED
        BY <2>2, <4>1
    <3>2. stack[n - 1] \in Line(last)
      BY <1>11, <3>1
    <3>3. ParentOf(stack[n - 1]) = last /\ stack[n - 1] \in Ids
      BY <1>1, <1>3, <3>1
    <3>. QED
      BY <3>2, <3>3
  <2>. QED
    BY <2>1, <2>2
<1>. QED
  BY <1>4, <1>6, <1>12 DEF InCycle

LEMMA LeaveKeeps ==
    ASSUME PiInv, Leave
    PROVE  PiInv'
<1>0. PICK id : id = Last(stack)
  OBVIOUS
<1> DEFINE parent == ParentOf(id)
<1>1. /\ session' = session /\ model' = model /\ primary' = primary
      /\ stack # <<>> /\ parent \notin Ids \ (Visited \cup ToSet(stack))
      /\ ordered' = Append(ordered, id) /\ stack' = Front(stack)
      /\ cycles' = IF parent \in ToSet(stack) THEN Append(cycles, parent) ELSE cycles
  BY <1>0 DEF Leave, ToClimb, Current
<1>2. /\ session \in Seq(PiEntry) /\ stack \in Seq(Ids) /\ ordered \in Seq(Ids)
      /\ IsInjective(stack) /\ IsInjective(ordered) /\ ToSet(stack) \cap Visited = {}
  BY DEF PiInv, VisitTyped
<1>3. IsFiniteSet(Ids) /\ Ids \subseteq Nat \ {0} /\ ToSet(stack) \subseteq Ids /\ Visited = ToSet(ordered)
  <2>1. ToSet(stack) \subseteq Ids
    BY <1>2, LenProperties, ElementOfSeq DEF ToSet
  <2>. QED
    BY <1>2, <2>1, EntriesKnown DEF Visited
<1>4. Ids' = Ids
  BY <1>1, SessionStays
<1>5. \A i : ParentOf(i)' = ParentOf(i) /\ Line(i)' = Line(i) /\ (InCycle(i)' <=> InCycle(i))
  BY <1>1, SessionStays
<1>6. /\ Len(stack) \in Nat \ {0} /\ id = stack[Len(stack)] /\ id \in Ids
      /\ stack' \in Seq(Ids) /\ Len(stack') = Len(stack) - 1 /\ \A i \in 1..Len(stack) - 1 : stack'[i] = stack[i]
      /\ IsInjective(stack') /\ ToSet(stack') = ToSet(stack) \ {id}
  BY <1>0, <1>1, <1>2, LastLeft
<1>7. id \in ToSet(stack) /\ id \notin Visited
  <2>1. Len(stack) \in DOMAIN stack
    BY <1>2, <1>6, LenProperties
  <2>. QED
    BY <1>2, <1>6, <2>1 DEF ToSet
<1>8. ordered' \in Seq(Ids) /\ Visited' = Visited \cup {id} /\ IsInjective(ordered')
  <2>1. ordered' \in Seq(Ids) /\ ToSet(ordered') = ToSet(ordered) \cup {id}
    BY <1>1, <1>2, <1>6, MembersAppended
  <2>2. Visited' = ToSet(ordered')
    BY DEF Visited, ToSet
  <2>3. IsInjective(ordered')
    BY <1>1, <1>2, <1>3, <1>6, <1>7, InjectiveAppended
  <2>. QED
    BY <1>3, <2>1, <2>2, <2>3
<1>9. parent \in ToSet(stack) <=> parent \in Ids /\ parent \notin Visited
  <2>. HIDE DEF parent
  <2>. QED
    BY <1>1, <1>2, <1>3
<1>10. Ends' = Ends \cup (IF parent \in ToSet(stack) THEN {id} ELSE {})
  <2>1. \A a : /\ PlacedBefore(a, id)' <=> a \in Visited
               /\ \A b \in Visited : PlacedBefore(a, b)' <=> PlacedBefore(a, b)
    <3>1. ordered \in Seq(Ids) /\ id \in Ids /\ id \notin Visited /\ ordered' = Append(ordered, id)
      BY <1>1, <1>2, <1>6, <1>7
    <3>. HIDE DEF parent
    <3>. QED
      BY ONLY <3>1, PlacedBeforeGrows
  <2>2. Ends' = {b \in Visited \cup {id} : ParentOf(b) \in Ids /\ \A a : a = ParentOf(b) => ~PlacedBefore(a, b)'}
    BY <1>4, <1>5, <1>8 DEF Ends
  <2>3. id \in Ends' <=> parent \in ToSet(stack)
    BY <1>9, <2>1, <2>2
  <2>4. ASSUME NEW b \in Visited PROVE b \in Ends' <=> b \in Ends
    BY <2>1, <2>2, <2>4 DEF Ends
  <2>5. Ends' \subseteq Visited \cup {id} /\ Ends \subseteq Visited
    BY <2>2 DEF Ends
  <2>. QED
    BY <1>7, <2>3, <2>4, <2>5
<1>11. stack' # <<>> => ParentOf(Last(stack')) = id
  <2> SUFFICES ASSUME stack' # <<>> PROVE ParentOf(Last(stack')) = id
    OBVIOUS
  <2>1. Len(stack') # 0
    BY <1>6, EmptySeq
  <2>2. Len(stack) - 1 \in 1..Len(stack) - 1 /\ (Len(stack) - 1) + 1 = Len(stack)
    BY <1>6, <2>1
  <2>3. Last(stack') = stack[Len(stack) - 1]
    BY <1>6, <2>2 DEF Last
  <2>. QED
    BY <1>6, <2>2, <2>3 DEF PiInv, Climbing
<1>12. VisitTyped'
  <2>1. IsInjective(stack)' /\ IsInjective(ordered)' /\ ToSet(stack)' = ToSet(stack')
    BY <1>6, <1>8 DEF IsInjective, ToSet
  <2>2. ToSet(stack') \cap Visited' = {}
    BY <1>2, <1>6, <1>8
  <2>. QED
    BY <1>1, <1>2, <1>4, <1>6, <1>8, <2>1, <2>2 DEF VisitTyped
<1>13. Climbing'
  <2>1. \A k \in 1..Len(stack') - 1 : k \in 1..Len(stack) - 1 /\ k + 1 \in 1..Len(stack) - 1
    BY <1>6
  <2>. QED
    BY <1>5, <1>6, <2>1 DEF PiInv, Climbing
<1>14. EndsInCycles'
  <2>1. ASSUME NEW a \in Ends', NEW b \in Line(a) \ {a}
        PROVE  b \notin Ends' /\ b \in Visited' \cup ToSet(stack')
    <3>1. CASE a \in Ends
      <4>1. b \notin Ends /\ b \in Visited \cup ToSet(stack) /\ (b = id => ParentOf(b) \in Visited)
        BY <1>0, <1>1, <3>1 DEF PiInv, EndsInCycles
      <4>2. b \notin Ends'
        BY <1>9, <1>10, <4>1
      <4>. QED
        BY <1>6, <1>8, <4>1, <4>2
    <3>2. CASE a \notin Ends
      <4>1. a = id /\ parent \in ToSet(stack)
        BY <1>10, <3>2
      <4>2. Line(id) \subseteq ToSet(stack)
        BY <1>0, <1>1, <1>2, <1>3, <4>1, StackCycle DEF PiInv
      <4>3. b \in ToSet(stack) \ {id}
        BY <4>1, <4>2
      <4>4. b \notin Visited'
        BY <1>2, <1>8, <4>3
      <4>5. Ends' \subseteq Visited'
        BY DEF Ends
      <4>. QED
        BY <1>6, <4>3, <4>4, <4>5
    <3>. QED
      BY <3>1, <3>2
  <2>2. ASSUME NEW a \in Ends' PROVE InCycle(a)
    <3>1. CASE a \in Ends
      BY <3>1 DEF PiInv, EndsInCycles
    <3>2. CASE a \notin Ends
      <4>1. a = id /\ parent \in ToSet(stack)
        BY <1>10, <3>2
      <4>. QED
        BY <1>0, <1>1, <1>2, <1>3, <4>1, StackCycle DEF PiInv
    <3>. QED
      BY <3>1, <3>2
  <2>3. stack' # <<>> => ParentOf(Last(stack')) \in Visited'
    BY <1>8, <1>11
  <2>4. ToSet(stack)' = ToSet(stack') /\ Last(stack)' = Last(stack')
    BY DEF ToSet, Last
  <2>. QED
    BY <1>5, <2>1, <2>2, <2>3, <2>4 DEF EndsInCycles
<1>15. Warned'
  <2>1. cycles \in Seq(Ids) /\ IsFiniteSet(Ends) /\ Len(cycles) = Cardinality(Ends) /\ ToSet(cycles) = {ParentOf(i) : i \in Ends}
    BY DEF PiInv, Warned
  <2>2. ToSet(cycles)' = ToSet(cycles')
    BY DEF ToSet
  <2>3. CASE parent \in ToSet(stack)
    <3>1. Ends' = Ends \cup {id} /\ cycles' = Append(cycles, parent) /\ parent \in Ids /\ id \notin Ends
      BY <1>1, <1>7, <1>9, <1>10, <2>3 DEF Ends
    <3>2. IsFiniteSet(Ends') /\ Cardinality(Ends') = Cardinality(Ends) + 1
      BY <2>1, <3>1, FS_AddElement
    <3>3. cycles' \in Seq(Ids) /\ Len(cycles') = Len(cycles) + 1 /\ ToSet(cycles') = ToSet(cycles) \cup {parent}
      <4>. HIDE DEF parent
      <4>. QED
        BY <2>1, <3>1, AppendProperties, MembersAppended
    <3>4. ToSet(cycles') = {ParentOf(i) : i \in Ends \cup {id}}
      BY <2>1, <3>3
    <3>. QED
      BY <1>4, <1>5, <2>1, <2>2, <3>1, <3>2, <3>3, <3>4 DEF Warned
  <2>4. CASE parent \notin ToSet(stack)
    <3>1. Ends' = Ends /\ cycles' = cycles
      BY <1>1, <1>10, <2>4
    <3>. QED
      BY <1>4, <1>5, <2>1, <2>2, <3>1 DEF Warned
  <2>. QED
    BY <2>3, <2>4
<1>16. Passed'
  <2>1. Len(ordered') \in Nat
    BY <1>8, LenProperties
  <2>. QED
    BY <1>1, <2>1, NothingPassed DEF PiInv
<1>. QED
  BY <1>12, <1>13, <1>14, <1>15, <1>16 DEF PiInv

-----------------------------------------------------------------------------
\* Of the changes above an entry that is the nearest which has most entries above it.
LEMMA NearestIs ==
    ASSUME IsFiniteSet(Ids), NEW id \in Ids
    PROVE  /\ Changes(id) = {} => Nearest(id) = {0}
           /\ Changes(id) # {} =>
                 \A j : j \in Nearest(id) <=>
                           /\ j \in Changes(id)
                           /\ \A k \in Changes(id) : Cardinality(Line(k)) <= Cardinality(Line(j))
<1>1. ASSUME NEW j \in Line(id) PROVE j \in Ids /\ Cardinality(Line(j)) \in Nat
  BY LineIs, LineWithin, FS_Subset, FS_CardinalityType
<1>2. Cardinality(Line(id)) \in Nat
  BY <1>1, LineIs
<1>3. \A j, k \in Changes(id) : Distance(id, j) <= Distance(id, k) <=> Cardinality(Line(k)) <= Cardinality(Line(j))
  BY <1>1, <1>2 DEF Changes, Distance
<1>. QED
  BY <1>3 DEF Nearest

\* The nearest change of an entry is itself, or that of its parent.
LEMMA NearestUp ==
    ASSUME IsFiniteSet(Ids), NEW id \in Ids
    PROVE  /\ EntryOf(id).kind = "model" => id \in Nearest(id)
           /\ EntryOf(id).kind # "model" /\ ParentOf(id) \in Ids => Nearest(id) = Nearest(ParentOf(id))
           /\ EntryOf(id).kind # "model" /\ ParentOf(id) \notin Ids => Nearest(id) = {0}
<1>1. Line(id) = {id} \cup (IF ParentOf(id) \in Ids THEN Line(ParentOf(id)) ELSE {})
  BY LineUp
<1>2. CASE EntryOf(id).kind = "model"
  <2>1. id \in Changes(id)
    BY <1>1, <1>2 DEF Changes
  <2>2. ASSUME NEW k \in Changes(id) PROVE Cardinality(Line(k)) <= Cardinality(Line(id))
    <3>1. Line(k) \subseteq Line(id) /\ IsFiniteSet(Line(id))
      BY LineIs, LineWithin, FS_Subset DEF Changes
    <3>. QED
      BY <3>1, FS_Subset
  <2>. QED
    BY <1>2, <2>1, <2>2, NearestIs
<1>3. CASE EntryOf(id).kind # "model" /\ ParentOf(id) \in Ids
  <2>1. Changes(id) = Changes(ParentOf(id))
    BY <1>1, <1>3 DEF Changes
  <2>2. \A j : j \in Nearest(id) <=> j \in Nearest(ParentOf(id))
    <3>1. CASE Changes(id) = {}
      BY <1>3, <2>1, <3>1, NearestIs
    <3>2. CASE Changes(id) # {}
      BY <1>3, <2>1, <3>2, NearestIs
    <3>. QED
      BY <3>1, <3>2
  <2>3. Nearest(id) \subseteq Changes(id) \cup {0} /\ Nearest(ParentOf(id)) \subseteq Changes(id) \cup {0}
    BY <2>1 DEF Nearest
  <2>. QED
    BY <1>3, <2>2, <2>3
<1>4. CASE EntryOf(id).kind # "model" /\ ParentOf(id) \notin Ids
  <2>1. Changes(id) = {}
    BY <1>1, <1>4 DEF Changes
  <2>. QED
    BY <1>4, <2>1, NearestIs
<1>. QED
  BY <1>2, <1>3, <1>4

LEMMA PassDownKeeps ==
    ASSUME PiInv, PassDown
    PROVE  PiInv'
<1> DEFINE c == Cardinality(DOMAIN model)
<1>1. PICK id : id = ordered[c + 1]
  OBVIOUS
<1>2. /\ session' = session /\ stack' = stack /\ ordered' = ordered /\ cycles' = cycles /\ primary' = primary
      /\ stack = <<>> /\ Visited = Ids /\ c < Len(ordered)
      /\ model' = [i \in DOMAIN model \cup {id} |->
                     IF i # id THEN model[i] ELSE IF EntryOf(id).kind = "model" THEN id ELSE Inherited(id)]
  BY <1>1 DEF PassDown
<1>3. /\ session \in Seq(PiEntry) /\ ordered \in Seq(Ids) /\ IsInjective(ordered) /\ IsFiniteSet(Ids)
      /\ Len(ordered) \in Nat /\ DOMAIN ordered = 1..Len(ordered)
  BY EntriesKnown, LenProperties DEF PiInv, VisitTyped
<1>4. c \in 0..Len(ordered) /\ DOMAIN model = {ordered[i] : i \in 1..c}
  BY DEF PiInv, Passed
<1>5. c + 1 \in 1..Len(ordered) /\ (\A i \in 1..c : i \in 1..Len(ordered) /\ i # c + 1) /\ 1..c + 1 = (1..c) \cup {c + 1}
  <2>1. c \in Nat /\ c < Len(ordered) /\ Len(ordered) \in Nat
    BY <1>2, <1>3, <1>4
  <2>. HIDE DEF c
  <2>. QED
    BY <2>1
<1>6. \A i, j \in 1..Len(ordered) : ordered[i] = ordered[j] => i = j
  BY <1>3 DEF IsInjective
<1>. HIDE DEF c
<1>7. id \in Ids /\ id \notin DOMAIN model /\ DOMAIN model \subseteq Ids
  BY <1>1, <1>3, <1>4, <1>5, <1>6, ElementOfSeq
<1>8. DOMAIN model' = DOMAIN model \cup {id} /\ \A i \in DOMAIN model : model'[i] = model[i]
  BY <1>2, <1>7
<1>9. Cardinality(DOMAIN model') = c + 1
  <2>1. IsFiniteSet(DOMAIN model)
    BY <1>3, <1>7, FS_Subset
  <2>. QED
    BY <1>7, <1>8, <2>1, FS_AddElement DEF c
<1>10. NoCycleAbove(id) => model'[id] \in Nearest(id)
  <2> SUFFICES ASSUME NoCycleAbove(id) PROVE model'[id] \in Nearest(id)
    OBVIOUS
  <2>1. CASE EntryOf(id).kind = "model"
    BY <1>2, <1>3, <1>7, <2>1, NearestUp
  <2>2. CASE EntryOf(id).kind # "model"
    <3>1. model'[id] = Inherited(id)
      BY <1>2, <1>7, <2>2
    <3>2. CASE ParentOf(id) \notin Ids
      BY <1>3, <1>7, <2>2, <3>1, <3>2, NearestUp DEF Inherited
    <3>3. CASE ParentOf(id) \in Ids
      <4>1. id \in Line(id) /\ Line(ParentOf(id)) \subseteq Line(id)
        BY <1>3, <1>7, <3>3, LineUp
      <4>2. id \notin Ends
        BY <4>1 DEF NoCycleAbove, PiInv, EndsInCycles
      <4>3. PlacedBefore(ParentOf(id), id)
        BY <1>2, <1>7, <3>3, <4>2 DEF Ends
      <4>4. PICK i \in 1..c : ordered[i] = ParentOf(id)
        <5>1. PICK j \in 1..Len(ordered) : ordered[j] = id /\ \E i \in 1..j - 1 : ordered[i] = ParentOf(id)
          BY <1>3, <4>3 DEF PlacedBefore
        <5>2. j = c + 1
          BY <1>1, <1>5, <1>6, <5>1
        <5>3. j - 1 = c
          <6>1. c \in Nat
            BY <1>4
          <6>. QED
            BY <5>2, <6>1
        <5>. QED
          BY <5>1, <5>3
      <4>5. ParentOf(id) \in DOMAIN model
        BY <1>4, <4>4
      <4>6. NoCycleAbove(ParentOf(id))
        BY <4>1 DEF NoCycleAbove
      <4>7. model[ParentOf(id)] \in Nearest(ParentOf(id))
        BY <4>5, <4>6 DEF PiInv, Passed
      <4>. QED
        BY <1>3, <1>7, <2>2, <3>1, <3>3, <4>5, <4>7, NearestUp DEF Inherited
    <3>. QED
      BY <3>2, <3>3
  <2>. QED
    BY <2>1, <2>2
<1>11. Ids' = Ids /\ Visited' = Visited /\ Ends' = Ends
  BY <1>2, SessionStays, EndsStay
<1>12. \A i : /\ ParentOf(i)' = ParentOf(i) /\ Line(i)' = Line(i) /\ (InCycle(i)' <=> InCycle(i))
              /\ (NoCycleAbove(i)' <=> NoCycleAbove(i)) /\ Nearest(i)' = Nearest(i)
  BY <1>2, SessionStays
<1>13. VisitTyped' /\ Climbing' /\ EndsInCycles'
  <2>1. VisitTyped'
    BY <1>2, <1>11 DEF PiInv, VisitTyped, IsInjective, ToSet
  <2>2. Climbing'
    BY <1>2, <1>12 DEF PiInv, Climbing
  <2>3. ToSet(stack)' = ToSet(stack) /\ Last(stack)' = Last(stack)
    BY <1>2 DEF ToSet, Last
  <2>4. EndsInCycles'
    BY <1>2, <1>11, <1>12, <2>3 DEF PiInv, EndsInCycles
  <2>. QED
    BY <2>1, <2>2, <2>4
<1>14. Warned'
  BY <1>2, WarnedStays DEF PiInv
<1>15. Passed'
  <2>1. Cardinality(DOMAIN model') \in 0..Len(ordered')
    BY <1>2, <1>5, <1>9
  <2>2. DOMAIN model' = {ordered'[i] : i \in 1..Cardinality(DOMAIN model')}
    <3>1. {ordered[i] : i \in 1..c + 1} = {ordered[i] : i \in 1..c} \cup {ordered[c + 1]}
      BY <1>5
    <3>2. DOMAIN model' = {ordered[i] : i \in 1..c + 1}
      BY <1>1, <1>4, <1>8, <3>1
    <3>. QED
      BY <1>2, <1>9, <3>2
  <2>3. ASSUME NEW i \in DOMAIN model', NoCycleAbove(i) PROVE model'[i] \in Nearest(i)
    BY <1>8, <1>10, <2>3 DEF PiInv, Passed
  <2>4. \A i \in DOMAIN primary' : i \in DOMAIN model' /\ primary'[i].model = model'[i]
    BY <1>2, <1>8 DEF PiInv, Passed
  <2>. QED
    BY <1>2, <1>11, <1>12, <2>1, <2>2, <2>3, <2>4 DEF Passed
<1>. QED
  BY <1>13, <1>14, <1>15 DEF PiInv

LEMMA DecodeKeeps ==
    ASSUME PiInv, Decode \/ UNCHANGED piVars
    PROVE  PiInv'
<1>1. /\ session' = session /\ stack' = stack /\ ordered' = ordered /\ cycles' = cycles /\ model' = model
      /\ \A id \in DOMAIN primary' : id \in DOMAIN model /\ primary'[id].model = model[id]
  <2>1. CASE Decode
    BY <2>1 DEF Decode, HasEvents
  <2>2. CASE UNCHANGED piVars
    BY <2>2 DEF piVars, PiInv, Passed
  <2>. QED
    BY <2>1, <2>2
<1>2. Ids' = Ids /\ Visited' = Visited /\ Ends' = Ends
  BY <1>1, SessionStays, EndsStay
<1>3. \A i : /\ ParentOf(i)' = ParentOf(i) /\ Line(i)' = Line(i) /\ (InCycle(i)' <=> InCycle(i))
             /\ (NoCycleAbove(i)' <=> NoCycleAbove(i)) /\ Nearest(i)' = Nearest(i)
  BY <1>1, SessionStays
<1>4. VisitTyped'
  BY <1>1, <1>2 DEF PiInv, VisitTyped, IsInjective, ToSet
<1>5. Climbing'
  BY <1>1, <1>3 DEF PiInv, Climbing
<1>6. EndsInCycles'
  <2>1. ToSet(stack)' = ToSet(stack) /\ Last(stack)' = Last(stack)
    BY <1>1 DEF ToSet, Last
  <2>. QED
    BY <1>1, <1>2, <1>3, <2>1 DEF PiInv, EndsInCycles
<1>7. Warned'
  BY <1>1, WarnedStays DEF PiInv
<1>8. Passed'
  BY <1>1, <1>2, <1>3 DEF PiInv, Passed
<1>. QED
  BY <1>4, <1>5, <1>6, <1>7, <1>8 DEF PiInv

LEMMA PiInvariant == PiSpec => []PiInv
<1>1. PiInit => PiInv
  BY PiStarts
<1>2. PiInv /\ [PiNext]_piVars => PiInv'
  BY VisitNextKeeps, ClimbKeeps, LeaveKeeps, PassDownKeeps, DecodeKeeps DEF PiNext
<1>. QED
  BY <1>1, <1>2, PTL DEF PiSpec

-----------------------------------------------------------------------------
(* What the invariant says of the order and of the warnings                *)

Place(id) == CHOOSE i \in DOMAIN ordered : ordered[i] = id

\* With all entries in their places, those not after their parent are the ends.
LEMMA PlacesTell ==
    ASSUME PiInv, Visited = Ids
    PROVE  /\ \A id \in Ids : Place(id) \in 1..Len(ordered)
           /\ Ends = {id \in Ids : ParentOf(id) \in Ids /\ Place(ParentOf(id)) >= Place(id)}
<1>1. /\ ordered \in Seq(Ids) /\ IsInjective(ordered)
      /\ Len(ordered) \in Nat /\ DOMAIN ordered = 1..Len(ordered)
  BY LenProperties DEF PiInv, VisitTyped
<1>2. \A i, j \in 1..Len(ordered) : ordered[i] = ordered[j] => i = j
  BY <1>1 DEF IsInjective
<1>3. ASSUME NEW id \in Ids PROVE Place(id) \in 1..Len(ordered) /\ ordered[Place(id)] = id
  <2>1. \E i \in 1..Len(ordered) : ordered[i] = id
    BY <1>1 DEF Visited, ToSet
  <2>. QED
    BY <1>1, <2>1 DEF Place
<1>4. ASSUME NEW a \in Ids, NEW b \in Ids PROVE PlacedBefore(a, b) <=> ~(Place(a) >= Place(b))
  <2>1. Place(a) \in 1..Len(ordered) /\ Place(b) \in 1..Len(ordered) /\ ordered[Place(a)] = a /\ ordered[Place(b)] = b
    BY <1>3
  <2>2. ASSUME PlacedBefore(a, b) PROVE ~(Place(a) >= Place(b))
    <3>1. PICK j \in 1..Len(ordered) : ordered[j] = b /\ \E i \in 1..j - 1 : ordered[i] = a
      BY <1>1, <2>2 DEF PlacedBefore
    <3>2. PICK i \in 1..j - 1 : ordered[i] = a
      BY <3>1
    <3>3. i \in 1..Len(ordered)
      BY <1>1
    <3>4. Place(a) = i /\ Place(b) = j
      BY <1>2, <2>1, <3>1, <3>2, <3>3
    <3>. QED
      BY <1>1, <3>4
  <2>3. ASSUME ~(Place(a) >= Place(b)) PROVE PlacedBefore(a, b)
    <3>1. Place(a) \in 1..Place(b) - 1
      BY <1>1, <2>1, <2>3
    <3>. QED
      BY <1>1, <2>1, <3>1 DEF PlacedBefore
  <2>. QED
    BY <2>2, <2>3
<1>. QED
  BY <1>3, <1>4 DEF Ends

\* Each cycle has one end: the first of it to be in its place.
LEMMA OneEnd ==
    ASSUME PiInv, Visited = Ids, NEW i \in Ids, InCycle(i)
    PROVE  \E b \in Ends : Line(b) = Line(i) /\ Ends \cap Line(i) = {b}
<1>1. IsFiniteSet(Ids)
  BY EntriesKnown DEF PiInv, VisitTyped
<1>2. i \in Line(i) /\ Line(i) \subseteq Ids /\ UpClosed(Line(i))
  BY <1>1, LineIs
<1> DEFINE places == {Place(b) : b \in Line(i)}
<1>3. places \subseteq 1..Len(ordered) /\ places # {} /\ Len(ordered) \in Nat
  BY <1>2, PlacesTell, LenProperties DEF PiInv, VisitTyped
<1>4. PICK m \in places : \A p \in places : m <= p
  <2>. HIDE DEF places
  <2>. QED
    BY <1>3, HasSmallest
<1>5. PICK b \in Line(i) : Place(b) = m
  OBVIOUS
<1>6. Line(b) = Line(i) /\ ParentOf(b) \in Ids /\ b \in Ids
  BY <1>1, CycleIs
<1>7. ParentOf(b) \in Line(i)
  BY <1>2, <1>6 DEF UpClosed
<1>8. Place(ParentOf(b)) >= Place(b)
  <2>1. m <= Place(ParentOf(b)) /\ Place(ParentOf(b)) \in 1..Len(ordered) /\ m \in 1..Len(ordered)
    BY <1>3, <1>4, <1>6, <1>7, PlacesTell
  <2>. QED
    BY <1>5, <2>1
<1>9. b \in Ends
  BY <1>6, <1>8, PlacesTell
<1>10. \A a \in Line(i) : a # b => a \notin Ends
  BY <1>6, <1>9 DEF PiInv, EndsInCycles
<1>. QED
  BY <1>6, <1>9, <1>10

LEMMA BranchesHold ==
    ASSUME PiInv
    PROVE  BranchesInherit
<1> DEFINE ends == {id \in Ids : ParentOf(id) \in Ids /\ Place(ParentOf(id)) >= Place(id)}
           loops == {Line(id) : id \in {i \in Ids : InCycle(i)}}
<1>1. IsFiniteSet(Ids)
  BY EntriesKnown DEF PiInv, VisitTyped
<1>2. IsInjective(ordered)
  BY DEF PiInv, VisitTyped
<1>3. ASSUME Visited = Ids
      PROVE  /\ \A id \in ends : InCycle(id)
             /\ \A loop \in loops : Cardinality(ends \cap loop) = 1
             /\ Len(cycles) = Cardinality(loops) /\ ToSet(cycles) = {ParentOf(id) : id \in ends}
  <2>1. ends = Ends
    BY <1>3, PlacesTell
  <2>. HIDE DEF ends
  <2>2. \A id \in Ends : id \in Ids /\ InCycle(id) /\ \A b \in Line(id) \ {id} : b \notin Ends
    BY <1>3 DEF PiInv, EndsInCycles, Ends
  <2>3. ASSUME NEW loop \in loops PROVE \E b \in Ends : Line(b) = loop /\ Ends \cap loop = {b}
    BY <1>3, OneEnd
  <2>4. \A loop \in loops : Cardinality(Ends \cap loop) = 1
    <3>. HIDE DEF loops
    <3>. QED
      BY <2>3, FS_Singleton
  <2>5. Cardinality(loops) = Cardinality(Ends)
    <3> DEFINE f == [a \in Ends |-> Line(a)]
    <3>1. \A a \in Ends : f[a] \in loops /\ a \in Line(a)
      BY <1>1, <2>2, LineIs
    <3>2. \A a, b \in Ends : Line(a) = Line(b) => a = b
      BY <2>2, <3>1
    <3>. HIDE DEF loops
    <3>3. f \in Bijection(Ends, loops)
      BY <2>3, <3>1, <3>2 DEF Bijection, Injection, Surjection, IsInjective
    <3>4. IsFiniteSet(Ends) /\ ExistsBijection(Ends, loops)
      BY <3>3 DEF ExistsBijection, PiInv, Warned
    <3>. QED
      BY <3>4, FS_Bijection
  <2>. QED
    BY <2>1, <2>2, <2>4, <2>5 DEF PiInv, Warned
<1>4. \A id \in DOMAIN primary : NoCycleAbove(id) => primary[id].model \in Nearest(id)
  BY DEF PiInv, Passed
<1>. QED
  BY <1>2, <1>3, <1>4 DEF BranchesInherit, Place, NoCycleAbove, Nearest, Changes

\* Whatever the file says of parents, and in whatever order: every entry is shown once and
\* after its parent, but for one of each cycle, for which there is one warning; and an
\* entry that no cycle is above has the model of the nearest change on its own branch.
THEOREM BranchesAreInherited == PiSpec => []BranchesInherit
BY PiInvariant, BranchesHold, PTL
=============================================================================
