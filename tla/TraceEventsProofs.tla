-------------------------- MODULE TraceEventsProofs --------------------------
(***************************************************************************)
(* Proofs about the events of a Trace: what the store keeps of them and    *)
(* which links to them open (TraceEvents), for every set of Traces,        *)
(* Revisions and event keys, whatever the normalizer versions make of a    *)
(* Revision; and, for any file, that the events of one conversation are    *)
(* one branch and that all are below those their records name              *)
(* (ClaudeTree).                                                           *)
(***************************************************************************)
EXTENDS TraceEvents, ClaudeTree, SortedSetsProofs, SequenceTheorems, TLAPS

Observation == Revision \X Key \X Rank

\* What a normalization says of a Revision is about that Revision and keys.
LEMMA ObservationsType ==
    ASSUME NEW r \in Revision, NEW v \in Version
    PROVE  /\ Observations(r, Parse[r][v]) \subseteq Observation
           /\ \A o \in Observations(r, Parse[r][v]) : o[1] = r
BY EventConstants DEF Observations, Observation

\* The observations of several Revisions, piece by piece.
LEMMA AllSplit ==
    ASSUME NEW revs, NEW r, NEW p
    PROVE  ObservationsOfAll(revs \cup {r}, p)
           = ObservationsOfAll(revs, p) \cup Observations(r, Parse[r][p[r]])
BY DEF ObservationsOfAll

LEMMA AllAgree ==
    ASSUME NEW revs, NEW p, NEW q, \A r \in revs : p[r] = q[r]
    PROVE  ObservationsOfAll(revs, p) = ObservationsOfAll(revs, q)
BY DEF ObservationsOfAll

\* Taking out what some Revisions say leaves what the others say.
LEMMA AllWithout ==
    ASSUME NEW revs, revs \subseteq Revision, NEW gone,
           NEW p, \A r \in revs : p[r] \in Version
    PROVE  {o \in ObservationsOfAll(revs, p) : o[1] \notin gone}
           = ObservationsOfAll(revs \ gone, p)
<1>1. \A r \in revs : \A o \in Observations(r, Parse[r][p[r]]) : o[1] = r
  BY ObservationsType
<1>. QED
  BY <1>1 DEF ObservationsOfAll

\* Events and observations of a union, piece by piece.
LEMMA EventsInUnion ==
    ASSUME NEW A, NEW B
    PROVE  EventsIn(A \cup B) = EventsIn(A) \cup EventsIn(B)
BY DEF EventsIn

LEMMA EventsInType ==
    ASSUME NEW A, A \subseteq Observation
    PROVE  EventsIn(A) \subseteq Slot
BY EventConstants DEF EventsIn, Observation, Slot

LEMMA ObservationsOfUnion ==
    ASSUME NEW A, NEW B, NEW e
    PROVE  ObservationsOf(A \cup B, e) = ObservationsOf(A, e) \cup ObservationsOf(B, e)
BY DEF ObservationsOf

\* A key is an event exactly when something was observed of it.
LEMMA EventIffObserved ==
    ASSUME NEW A, A \subseteq Observation, NEW e \in Slot
    PROVE  e \in EventsIn(A) <=> ObservationsOf(A, e) # {}
<1>1. e = <<e[1], e[2]>>
  BY DEF Slot
<1>2. ASSUME e \in EventsIn(A) PROVE ObservationsOf(A, e) # {}
  <2>1. PICK o \in A : e = <<OwnerOf[o[1]], o[2]>>
    BY <1>2 DEF EventsIn
  <2>2. o \in ObservationsOf(A, e)
    BY <2>1 DEF ObservationsOf
  <2>. QED
    BY <2>2
<1>3. ASSUME ObservationsOf(A, e) # {} PROVE e \in EventsIn(A)
  <2>1. PICK o \in A : OwnerOf[o[1]] = e[1] /\ o[2] = e[2]
    BY <1>3 DEF ObservationsOf
  <2>. QED
    BY <1>1, <2>1 DEF EventsIn
<1>. QED
  BY <1>2, <1>3

\* The part of EventsDetermined that says what follows from the observations.
DerivedFrom(obs, evs, pref) ==
    /\ evs = EventsIn(obs)
    /\ \A e \in Slot : pref[e] = IF e \in evs THEN Best(ObservationsOf(obs, e)) ELSE None

\* Adding a Revision's observations and choosing again for its keys alone is
\* enough: the other keys have the observations they had.
LEMMA InsertDerives ==
    ASSUME observed \subseteq Observation, DerivedFrom(observed, events, preferred),
           NEW r \in Revision, InsertEvents(r, Parse[r][version]), version \in Version
    PROVE  DerivedFrom(observed', events', preferred')
<1>. DEFINE mine == Observations(r, Parse[r][version])
<1>1. mine \subseteq Observation
  BY ObservationsType
<1>2. /\ observed' = observed \cup mine
      /\ events' = events \cup EventsIn(mine)
      /\ preferred' = [e \in Slot |->
            IF e \in EventsIn(mine) THEN Best(ObservationsOf(observed', e)) ELSE preferred[e]]
  BY DEF InsertEvents
<1>3. events' = EventsIn(observed')
  BY <1>2, EventsInUnion DEF DerivedFrom
<1>4. ASSUME NEW e \in Slot
      PROVE  preferred'[e] = IF e \in events' THEN Best(ObservationsOf(observed', e)) ELSE None
  <2>1. CASE e \in EventsIn(mine)
    BY <1>2, <2>1
  <2>2. CASE e \notin EventsIn(mine)
    <3>1. ObservationsOf(observed', e) = ObservationsOf(observed, e)
      <4>1. ObservationsOf(mine, e) = {}
        BY <1>1, <2>2, EventIffObserved
      <4>2. ObservationsOf(observed', e) = ObservationsOf(observed, e) \cup ObservationsOf(mine, e)
        BY <1>2, ObservationsOfUnion
      <4>. QED
        BY <4>1, <4>2
    <3>2. preferred'[e] = preferred[e] /\ (e \in events' <=> e \in events)
      BY <1>2, <2>2
    <3>. QED
      BY <3>1, <3>2 DEF DerivedFrom
  <2>. QED
    BY <2>1, <2>2
<1>. QED
  BY <1>3, <1>4 DEF DerivedFrom

\* Two sets of observations that differ in those of one Trace only have the same
\* events, and the same observations of each, in every other Trace.
LEMMA OtherTracesKeep ==
    ASSUME NEW A, NEW B, A \subseteq Observation, B \subseteq Observation, NEW t \in Trace,
           \A o \in Observation : OwnerOf[o[1]] # t => (o \in A <=> o \in B),
           NEW e \in Slot, e[1] # t
    PROVE  /\ ObservationsOf(A, e) = ObservationsOf(B, e)
           /\ e \in EventsIn(A) <=> e \in EventsIn(B)
<1>1. ObservationsOf(A, e) = ObservationsOf(B, e)
  BY DEF ObservationsOf
<1>. QED
  BY <1>1, EventIffObserved

\* Replacing the observations of one Trace, with the events and the preferred
\* observations of that Trace computed anew.
LEMMA ReplaceDerives ==
    ASSUME observed \subseteq Observation, DerivedFrom(observed, events, preferred),
           NEW t \in Trace, observed' \subseteq Observation,
           \A o \in Observation : OwnerOf[o[1]] # t => (o \in observed <=> o \in observed'),
           events' = {e \in events : e[1] # t} \cup {e \in EventsIn(observed') : e[1] = t},
           preferred' = [e \in Slot |->
               IF e[1] # t THEN preferred[e]
               ELSE IF e \in events' THEN Best(ObservationsOf(observed', e)) ELSE None]
    PROVE  DerivedFrom(observed', events', preferred')
<1>1. events \subseteq Slot /\ EventsIn(observed') \subseteq Slot
  BY EventsInType DEF DerivedFrom
<1>2. ASSUME NEW e \in Slot PROVE e \in events' <=> e \in EventsIn(observed')
  <2>1. CASE e[1] = t
    BY <2>1
  <2>2. CASE e[1] # t
    BY <2>2, OtherTracesKeep DEF DerivedFrom
  <2>. QED
    BY <2>1, <2>2
<1>3. events' = EventsIn(observed')
  BY <1>1, <1>2
<1>4. ASSUME NEW e \in Slot
      PROVE  preferred'[e] = IF e \in events' THEN Best(ObservationsOf(observed', e)) ELSE None
  <2>1. CASE e[1] = t
    BY <2>1
  <2>2. CASE e[1] # t
    <3>1. ObservationsOf(observed, e) = ObservationsOf(observed', e)
      BY <2>2 DEF ObservationsOf
    <3>2. preferred'[e] = preferred[e] /\ (e \in events' <=> e \in events)
      BY <2>2
    <3>. QED
      BY <3>1, <3>2 DEF DerivedFrom
  <2>. QED
    BY <2>1, <2>2
<1>. QED
  BY <1>3, <1>4 DEF DerivedFrom

\* EventsDetermined is what each stored Revision was parsed to, and what follows
\* from that.
LEMMA DeterminedParts ==
    EventsDetermined <=>
        /\ observed = ObservationsOfAll(revisions, parsed)
        /\ DerivedFrom(observed, events, preferred)
BY DEF EventsDetermined, DerivedFrom

-----------------------------------------------------------------------------
\* Nothing is stored at first.
LEMMA InitInvariant == Init => IInv
<1>. SUFFICES ASSUME Init PROVE IInv
  OBVIOUS
<1>. USE EventConstants DEF Init
<1>1. TypeOK
  BY DEF TypeOK, Version, Slot, Status
<1>2. \A r \in revisions : parsed[r] \in 1..version
  OBVIOUS
<1>3. EventsDetermined
  BY DEF EventsDetermined, EventsIn, ObservationsOfAll
<1>4. PassProgress
  BY DEF PassProgress
<1>. QED
  BY <1>1, <1>2, <1>3, <1>4 DEF IInv

\* A Revision the store does not have joins the others.
LEMMA ImportInvariant ==
    ASSUME IInv, NEW r \in Revision, ImportNew(r)
    PROVE  IInv'
<1>. DEFINE norm == Parse[r][version]
            mine == Observations(r, norm)
<1>. USE EventConstants
<1>1. /\ TypeOK /\ EventsDetermined /\ PassProgress
      /\ version \in Version
      /\ \A q \in revisions : parsed[q] \in 1..version
  BY DEF IInv, TypeOK
<1>2. /\ r \notin revisions
      /\ revisions' = revisions \cup {r}
      /\ status' = [status EXCEPT ![r] = norm.status]
      /\ parsed' = [parsed EXCEPT ![r] = version]
      /\ InsertEvents(r, norm)
      /\ observed' = observed \cup mine
      /\ events' = events \cup EventsIn(mine)
      /\ visited' = visited \cup events'
      /\ version' = version /\ alias' = alias
      /\ unread' = unread /\ candidates' = candidates /\ stale' = stale /\ rebuild' = rebuild
  BY DEF ImportNew, InsertEvents, Visit, pass
<1>3. mine \subseteq Observation /\ EventsIn(mine) \subseteq Slot
  BY <1>1, ObservationsType, EventsInType
<1>4. parsed'[r] = version /\ \A q \in revisions : parsed'[q] = parsed[q]
  BY <1>1, <1>2 DEF TypeOK
<1>5. TypeOK'
  <2>1. DOMAIN preferred' = Slot
    BY <1>2 DEF InsertEvents
  <2>2. norm.status \in Status
    BY <1>1
  <2>3. version \in 0..MaxVersion
    BY <1>1 DEF Version
  <2>4. events' \subseteq Slot /\ visited' \subseteq Slot /\ observed' \subseteq Revision \X Key \X Rank
    BY <1>1, <1>2, <1>3 DEF TypeOK, Observation
  <2>. QED
    BY <1>1, <1>2, <2>1, <2>2, <2>3, <2>4 DEF TypeOK
<1>6. \A q \in revisions' : parsed'[q] \in 1..version'
  BY <1>1, <1>2, <1>4 DEF Version
<1>7. EventsDetermined'
  <2>1. observed' = ObservationsOfAll(revisions', parsed')
    <3>1. observed = ObservationsOfAll(revisions, parsed)
      BY <1>1 DEF EventsDetermined
    <3>2. ObservationsOfAll(revisions', parsed') = ObservationsOfAll(revisions, parsed') \cup mine
      <4>1. ObservationsOfAll(revisions \cup {r}, parsed')
            = ObservationsOfAll(revisions, parsed') \cup Observations(r, Parse[r][parsed'[r]])
        BY AllSplit
      <4>. QED
        BY <1>2, <1>4, <4>1
    <3>3. ObservationsOfAll(revisions, parsed') = ObservationsOfAll(revisions, parsed)
      BY <1>4, AllAgree
    <3>. QED
      BY <1>2, <3>1, <3>2, <3>3
  <2>2. DerivedFrom(observed', events', preferred')
    BY <1>1, <1>2, InsertDerives, DeterminedParts DEF TypeOK, Observation
  <2>. QED
    BY <2>1, <2>2 DEF EventsDetermined, DerivedFrom
<1>8. PassProgress'
  BY <1>1, <1>2, <1>4 DEF PassProgress, Current
<1>. QED
  BY <1>5, <1>6, <1>7, <1>8 DEF IInv

\* Parsing a stored Revision again keeps everything but the progress of a pass,
\* which depends on who asked for it.
LEMMA ReplaceKeeps ==
    ASSUME IInv, NEW r \in revisions, ReplaceRevisionEvents(r, Parse[r][version]),
           version' = version, UNCHANGED <<unread, stale, rebuild>>,
           candidates' \subseteq candidates, stale \subseteq candidates'
    PROVE  /\ TypeOK'
           /\ \A q \in revisions' : parsed'[q] \in 1..version'
           /\ EventsDetermined'
           /\ revisions' = revisions
           /\ parsed'[r] = version
           /\ \A q \in revisions : q # r => parsed'[q] = parsed[q]
<1>. DEFINE norm == Parse[r][version]
            mine == Observations(r, norm)
            t == OwnerOf[r]
            renamed(l) == {k \in DOMAIN norm.event : l \in norm.legacy[k]}
<1>. USE EventConstants
<1>1. /\ TypeOK /\ EventsDetermined
      /\ version \in Version
      /\ r \in Revision /\ t \in Trace
      /\ \A q \in revisions : parsed[q] \in 1..version /\ parsed[q] \in Version
      /\ revisions \subseteq Revision
  BY DEF IInv, TypeOK, Version
<1>2. /\ status' = [status EXCEPT ![r] = norm.status]
      /\ parsed' = [parsed EXCEPT ![r] = version]
      /\ observed' = {o \in observed : o[1] # r} \cup mine
      /\ events' = {e \in events : e[1] # t} \cup {e \in EventsIn(observed') : e[1] = t}
      /\ alias' = [e \in Slot |->
             IF e[1] = t /\ e \in events /\ renamed(e[2]) # {}
             THEN CHOOSE k \in renamed(e[2]) : TRUE
             ELSE alias[e]]
      /\ preferred' = [e \in Slot |->
             IF e[1] # t THEN preferred[e]
             ELSE IF e \in events' THEN Best(ObservationsOf(observed', e)) ELSE None]
      /\ visited' = visited \cup events'
      /\ revisions' = revisions
  BY DEF ReplaceRevisionEvents, Visit
<1>3. mine \subseteq Observation /\ \A o \in mine : o[1] = r
  BY <1>1, ObservationsType
<1>4. observed \subseteq Observation /\ observed' \subseteq Observation
  BY <1>1, <1>2, <1>3 DEF TypeOK, Observation
<1>5. EventsIn(observed') \subseteq Slot
  BY <1>4, EventsInType
<1>6. parsed'[r] = version /\ \A q \in revisions : q # r => parsed'[q] = parsed[q]
  BY <1>1, <1>2 DEF TypeOK
<1>7. TypeOK'
  <2>1. alias' \in [Slot -> Key \cup {None}]
    <3>1. \A l : renamed(l) \subseteq Key
      BY <1>1
    <3>2. \A e \in Slot : alias[e] \in Key \cup {None}
      BY <1>1 DEF TypeOK
    <3>3. \A l : renamed(l) # {} => (CHOOSE k \in renamed(l) : TRUE) \in Key
      BY <3>1
    <3>. HIDE DEF renamed
    <3>. QED
      BY <1>2, <3>2, <3>3
  <2>2. status' \in [Revision -> Status \cup {None}] /\ parsed' \in [Revision -> 0..MaxVersion]
    BY <1>1, <1>2 DEF TypeOK, Version
  <2>3. events' \subseteq Slot /\ visited' \subseteq Slot
    BY <1>1, <1>2, <1>5 DEF TypeOK
  <2>4. DOMAIN preferred' = Slot
    BY <1>2
  <2>. QED
    BY <1>1, <1>2, <1>4, <2>1, <2>2, <2>3, <2>4 DEF TypeOK, Observation
<1>8. \A q \in revisions' : parsed'[q] \in 1..version'
  BY <1>1, <1>2, <1>6 DEF Version
<1>9. EventsDetermined'
  <2>1. observed' = ObservationsOfAll(revisions', parsed')
    <3>1. observed = ObservationsOfAll(revisions, parsed)
      BY <1>1 DEF EventsDetermined
    <3>2. {o \in observed : o[1] # r} = ObservationsOfAll(revisions \ {r}, parsed)
      <4>1. {o \in ObservationsOfAll(revisions, parsed) : o[1] \notin {r}}
            = ObservationsOfAll(revisions \ {r}, parsed)
        BY <1>1, AllWithout
      <4>. QED
        BY <3>1, <4>1
    <3>3. ObservationsOfAll(revisions \ {r}, parsed') = ObservationsOfAll(revisions \ {r}, parsed)
      BY <1>6, AllAgree
    <3>4. (revisions \ {r}) \cup {r} = revisions'
      BY <1>2
    <3>5. ObservationsOfAll(revisions', parsed') = ObservationsOfAll(revisions \ {r}, parsed') \cup mine
      BY <1>6, <3>4, AllSplit
    <3>. QED
      BY <1>2, <3>2, <3>3, <3>5
  <2>2. \A o \in Observation : OwnerOf[o[1]] # t => (o \in observed <=> o \in observed')
    BY <1>2, <1>3
  <2>3. DerivedFrom(observed', events', preferred')
    BY <1>1, <1>2, <1>4, <2>2, ReplaceDerives, DeterminedParts
  <2>. QED
    BY <2>1, <2>3 DEF EventsDetermined, DerivedFrom
<1>. QED
  BY <1>2, <1>6, <1>7, <1>8, <1>9

LEMMA ReimportInvariant ==
    ASSUME IInv, NEW r \in Revision, Reimport(r)
    PROVE  IInv'
<1>1. /\ r \in revisions /\ ReplaceRevisionEvents(r, Parse[r][version])
      /\ version' = version /\ stale \subseteq candidates
      /\ unread' = unread /\ candidates' = candidates /\ stale' = stale /\ rebuild' = rebuild
  BY DEF Reimport, pass, ReplaceRevisionEvents, IInv, TypeOK
<1>2. /\ TypeOK' /\ EventsDetermined' /\ \A q \in revisions' : parsed'[q] \in 1..version'
      /\ revisions' = revisions
      /\ parsed'[r] = version
      /\ \A q \in revisions : q # r => parsed'[q] = parsed[q]
  BY <1>1, ReplaceKeeps
<1>3. PassProgress'
  BY <1>1, <1>2 DEF IInv, PassProgress, Current
<1>. QED
  BY <1>2, <1>3 DEF IInv

\* A candidate is parsed with the running version or keeps what it has because
\* that version cannot parse it: either way it is current.
LEMMA RebuildInvariant ==
    ASSUME IInv, NEW r \in Revision, Rebuild(r)
    PROVE  IInv'
<1>. DEFINE norm == Parse[r][version]
<1>1. /\ rebuild = "running" /\ r \in candidates \ stale
      /\ candidates' = candidates \ {r}
      /\ unread' = unread /\ stale' = stale /\ rebuild' = rebuild
      /\ TypeOK /\ EventsDetermined /\ PassProgress
      /\ \A q \in revisions : parsed[q] \in 1..version
  BY DEF Rebuild, IInv
<1>2. stale \subseteq candidates' /\ r \in revisions
  BY <1>1 DEF TypeOK, PassProgress
<1>3. CASE Rejected(norm.status)
  <2>1. UNCHANGED <<version, content, visited>>
    BY <1>3 DEF Rebuild
  <2>2. TypeOK' /\ EventsDetermined' /\ \A q \in revisions' : parsed'[q] \in 1..version'
    BY <1>1, <1>2, <2>1 DEF TypeOK, EventsDetermined, content
  <2>3. PassProgress'
    BY <1>1, <1>3, <2>1 DEF PassProgress, Current, content
  <2>. QED
    BY <2>2, <2>3 DEF IInv
<1>4. CASE ~Rejected(norm.status)
  <2>1. ReplaceRevisionEvents(r, norm) /\ version' = version
    BY <1>4 DEF Rebuild, ReplaceRevisionEvents
  <2>2. /\ TypeOK' /\ EventsDetermined' /\ \A q \in revisions' : parsed'[q] \in 1..version'
        /\ revisions' = revisions
        /\ parsed'[r] = version
        /\ \A q \in revisions : q # r => parsed'[q] = parsed[q]
    BY <1>1, <1>2, <2>1, ReplaceKeeps
  <2>3. PassProgress'
    BY <1>1, <2>1, <2>2 DEF PassProgress, Current
  <2>. QED
    BY <2>2, <2>3 DEF IInv
<1>. QED
  BY <1>3, <1>4

\* A Trace goes with all its Revisions.
LEMMA DeleteInvariant ==
    ASSUME IInv, NEW t \in Trace, DeleteTrace(t)
    PROVE  IInv'
<1>. DEFINE gone == {r \in revisions : OwnerOf[r] = t}
<1>. USE EventConstants
<1>1. /\ TypeOK /\ EventsDetermined /\ PassProgress
      /\ revisions \subseteq Revision
      /\ \A q \in revisions : parsed[q] \in 1..version /\ parsed[q] \in Version
  BY DEF IInv, TypeOK, Version
<1>2. /\ revisions' = revisions \ gone
      /\ status' = [r \in Revision |-> IF r \in gone THEN None ELSE status[r]]
      /\ parsed' = [r \in Revision |-> IF r \in gone THEN 0 ELSE parsed[r]]
      /\ observed' = {o \in observed : o[1] \notin gone}
      /\ events' = {e \in events : e[1] # t}
      /\ preferred' = [e \in Slot |-> IF e[1] = t THEN None ELSE preferred[e]]
      /\ alias' = [e \in Slot |-> IF e[1] = t THEN None ELSE alias[e]]
      /\ visited' = {e \in visited : e[1] # t}
      /\ unread' = unread \ gone
      /\ stale' = stale \cup (candidates \cap gone)
      /\ version' = version /\ candidates' = candidates /\ rebuild' = rebuild
  BY DEF DeleteTrace
<1>3. \A q \in revisions' : parsed'[q] = parsed[q]
  BY <1>1, <1>2
<1>4. TypeOK'
  <2>1. 0 \in 0..MaxVersion
    OBVIOUS
  <2>2. status' \in [Revision -> Status \cup {None}] /\ parsed' \in [Revision -> 0..MaxVersion]
    BY <1>1, <1>2, <2>1 DEF TypeOK
  <2>3. alias' \in [Slot -> Key \cup {None}]
    BY <1>1, <1>2 DEF TypeOK
  <2>4. observed' \subseteq Revision \X Key \X Rank /\ events' \subseteq Slot /\ visited' \subseteq Slot
    BY <1>1, <1>2 DEF TypeOK
  <2>. QED
    BY <1>1, <1>2, <2>2, <2>3, <2>4 DEF TypeOK
<1>5. \A q \in revisions' : parsed'[q] \in 1..version'
  BY <1>1, <1>2, <1>3 DEF Version
<1>6. EventsDetermined'
  <2>1. observed = ObservationsOfAll(revisions, parsed)
    BY <1>1 DEF EventsDetermined
  <2>2. observed' = ObservationsOfAll(revisions', parsed')
    <3>1. observed' = ObservationsOfAll(revisions \ gone, parsed)
      <4>1. {o \in ObservationsOfAll(revisions, parsed) : o[1] \notin gone}
            = ObservationsOfAll(revisions \ gone, parsed)
        <5>. HIDE DEF gone
        <5>. QED
          BY <1>1, AllWithout
      <4>. QED
        BY <1>2, <2>1, <4>1
    <3>2. ObservationsOfAll(revisions', parsed') = ObservationsOfAll(revisions', parsed)
      BY <1>3, AllAgree
    <3>. QED
      BY <1>2, <3>1, <3>2
  <2>3. \A o \in observed : o[1] \in revisions
    BY <1>1, <2>1, ObservationsType DEF ObservationsOfAll
  <2>4. observed \subseteq Observation /\ observed' \subseteq Observation
    BY <1>1, <1>2 DEF TypeOK, Observation
  <2>5. \A o \in Observation : OwnerOf[o[1]] # t => (o \in observed <=> o \in observed')
    BY <1>2
  <2>6. \A o \in observed' : OwnerOf[o[1]] # t
    BY <1>2, <2>3
  <2>7. events' = {e \in events : e[1] # t} \cup {e \in EventsIn(observed') : e[1] = t}
    <3>1. \A e \in EventsIn(observed') : e[1] # t
      BY <2>6 DEF EventsIn
    <3>. QED
      BY <1>2, <3>1
  <2>8. preferred' = [e \in Slot |->
             IF e[1] # t THEN preferred[e]
             ELSE IF e \in events' THEN Best(ObservationsOf(observed', e)) ELSE None]
    BY <1>2
  <2>9. DerivedFrom(observed', events', preferred')
    BY <1>1, <2>4, <2>5, <2>7, <2>8, ReplaceDerives, DeterminedParts
  <2>. QED
    BY <2>2, <2>9 DEF EventsDetermined, DerivedFrom
<1>7. PassProgress'
  BY <1>1, <1>2, <1>3 DEF PassProgress, Current
<1>. QED
  BY <1>4, <1>5, <1>6, <1>7 DEF IInv

\* The steps of a pass that store nothing.
LEMMA PassInvariant ==
    ASSUME IInv,
           \/ \E v \in Version : Restart(v)
           \/ \E batch \in SUBSET unread : ReadBatch(batch)
           \/ AbortRebuild
           \/ FinishRebuild
    PROVE  IInv'
<1>1. TypeOK /\ EventsDetermined /\ PassProgress /\ \A q \in revisions : parsed[q] \in 1..version
  BY DEF IInv
<1>2. UNCHANGED <<content, visited>> /\ version' \in Version /\ version' >= version
  BY <1>1, EventConstants DEF Restart, ReadBatch, AbortRebuild, FinishRebuild, TypeOK, Version
<1>3. EventsDetermined' /\ \A q \in revisions' : parsed'[q] \in 1..version'
  BY <1>1, <1>2 DEF EventsDetermined, content, Version, TypeOK
<1>4. TypeOK' /\ PassProgress'
  <2>1. ASSUME NEW v \in Version, Restart(v) PROVE TypeOK' /\ PassProgress'
    BY <1>1, <1>2, <2>1 DEF Restart, TypeOK, PassProgress, content
  <2>2. ASSUME NEW batch \in SUBSET unread, ReadBatch(batch) PROVE TypeOK' /\ PassProgress'
    <3>1. /\ rebuild = "running" /\ candidates = {} /\ stale = {} /\ batch \subseteq unread
          /\ unread' = unread \ batch
          /\ candidates' = {r \in batch : parsed[r] < version}
          /\ UNCHANGED <<version, content, visited, stale, rebuild>>
      BY <1>1, <2>2 DEF ReadBatch, TypeOK
    <3>2. TypeOK'
      BY <1>1, <3>1 DEF TypeOK, content
    <3>3. \A r \in batch \ candidates' : Current(r)
      <4>1. ASSUME NEW r \in batch, ~(parsed[r] < version) PROVE parsed[r] = version
        BY <1>1, <3>1, <4>1 DEF PassProgress, TypeOK, Version
      <4>. QED
        BY <3>1, <4>1 DEF Current
    <3>4. PassProgress'
      BY <1>1, <3>1, <3>3 DEF PassProgress, Current, content
    <3>. QED
      BY <3>2, <3>4
  <2>3. ASSUME AbortRebuild PROVE TypeOK' /\ PassProgress'
    BY <1>1, <1>2, <2>3 DEF AbortRebuild, TypeOK, PassProgress, content
  <2>4. ASSUME FinishRebuild PROVE TypeOK' /\ PassProgress'
    BY <1>1, <1>2, <2>4 DEF FinishRebuild, TypeOK, PassProgress, Current, content
  <2>. QED
    BY <2>1, <2>2, <2>3, <2>4
<1>. QED
  BY <1>3, <1>4 DEF IInv

LEMMA StepInvariant == IInv /\ [Next]_vars => IInv'
<1>. SUFFICES ASSUME IInv, [Next]_vars PROVE IInv'
  OBVIOUS
<1>1. CASE UNCHANGED vars
  BY <1>1 DEF vars, content, pass, IInv, TypeOK, EventsDetermined, PassProgress, Current, Version
<1>2. CASE Next
  BY <1>2, ImportInvariant, ReimportInvariant, RebuildInvariant, DeleteInvariant, PassInvariant DEF Next
<1>. QED
  BY <1>1, <1>2

-----------------------------------------------------------------------------
\* The incremental updates of events keep what the definition over all observations gives
\* (IInv), in every reachable state.
THEOREM Invariant == Spec => []IInv
BY InitInvariant, StepInvariant, PTL DEF Spec

\* What a reader sees depends on the stored Revisions and the versions they were
\* parsed with alone, whatever commitRevision, replaceRevisionEvents and the
\* deletion of Traces did in whichever order.
THEOREM EventsAreDetermined == Spec => []EventsDetermined
<1>1. IInv => EventsDetermined
  BY DEF IInv
<1>. QED
  BY <1>1, Invariant, PTL

\* A pass of Renormalize that returns nil has left no Revision to an older
\* version, except those the new one cannot parse.
THEOREM RebuildIsComplete == Spec => []RebuildCovers
<1>1. IInv => RebuildCovers
  BY DEF IInv, PassProgress, RebuildCovers
<1>. QED
  BY <1>1, Invariant, PTL

\* No step puts a failed or unsupported parse in the place of one that worked.
THEOREM FailuresKeep == Spec => FailedParseKeeps
<1>. DEFINE Keeps == \A r \in revisions \cap revisions' :
                        Rejected(status'[r]) => status'[r] = status[r] /\ parsed'[r] = parsed[r]
<1>1. ASSUME IInv, [Next]_vars PROVE [Keeps]_vars
  <2>. SUFFICES ASSUME Next PROVE Keeps
    BY <1>1
  <2>1. TypeOK
    BY <1>1 DEF IInv
  <2>2. ASSUME NEW r \in Revision, ImportNew(r) PROVE Keeps
    BY <2>1, <2>2 DEF ImportNew, TypeOK
  <2>3. ASSUME NEW r \in Revision, ReplaceRevisionEvents(r, Parse[r][version]),
               ~Rejected(Parse[r][version].status)
        PROVE  Keeps
    BY <2>1, <2>3 DEF ReplaceRevisionEvents, TypeOK
  <2>4. ASSUME NEW r \in Revision, Reimport(r) PROVE Keeps
    BY <2>3, <2>4 DEF Reimport
  <2>5. ASSUME NEW r \in Revision, Rebuild(r) PROVE Keeps
    <3>1. CASE Rejected(Parse[r][version].status)
      BY <2>5, <3>1 DEF Rebuild, content
    <3>2. CASE ~Rejected(Parse[r][version].status)
      BY <2>3, <2>5, <3>2 DEF Rebuild
    <3>. QED
      BY <3>1, <3>2
  <2>6. ASSUME NEW t \in Trace, DeleteTrace(t) PROVE Keeps
    BY <2>1, <2>6 DEF DeleteTrace, TypeOK
  <2>7. ASSUME \/ \E v \in Version : Restart(v)
               \/ \E batch \in SUBSET unread : ReadBatch(batch)
               \/ AbortRebuild
               \/ FinishRebuild
        PROVE  Keeps
    BY <2>7 DEF Restart, ReadBatch, AbortRebuild, FinishRebuild, content
  <2>. QED
    BY <2>2, <2>4, <2>5, <2>6, <2>7 DEF Next
<1>2. [][Keeps]_vars => FailedParseKeeps
  BY PTL DEF FailedParseKeeps
<1>. QED
  BY <1>1, <1>2, Invariant, PTL DEF Spec

-----------------------------------------------------------------------------
LEMMA ObservedTimes == \A o \in Observation : UpdatedAt[o[1]] \in Int /\ o[3] \in Int
<1>. SUFFICES ASSUME NEW o \in Observation PROVE UpdatedAt[o[1]] \in Int /\ o[3] \in Int
  OBVIOUS
<1>1. o[1] \in Revision /\ o[3] \in Rank
  BY DEF Observation
<1>2. \A x \in Rank : x \in Nat
  BY EventConstants
<1>3. UpdatedAt[o[1]] \in Nat
  BY <1>1, EventConstants
<1>. QED
  BY <1>1, <1>2, <1>3

\* One of finitely many observations is as good as any other.
LEMMA BestIsBest ==
    ASSUME NEW S, S \subseteq Observation, IsFiniteSet(S), S # {}
    PROVE  \E o \in S : Best(S) = o[3] /\ \A p \in S : Better(o, p)
<1>1. \A o \in S : UpdatedAt[o[1]] \in Int /\ o[3] \in Int
  BY ObservedTimes
<1> DEFINE time == [o \in S |-> UpdatedAt[o[1]]]
           times == {time[o] : o \in S}
<1>2. times \subseteq Int /\ times # {} /\ IsFiniteSet(times)
  <2>1. times \subseteq Int /\ times # {}
    BY <1>1
  <2>2. time = [o \in S |-> time[o]]
    OBVIOUS
  <2>. HIDE DEF time
  <2>. QED
    BY <2>1, <2>2, FewValues
<1>3. PICK t \in times : \A x \in times : x <= t
  <2>. HIDE DEF times
  <2>. QED
    BY <1>2, HasLargest
<1> DEFINE recent == {o \in S : UpdatedAt[o[1]] = t}
           rank == [o \in recent |-> o[3]]
           ranks == {rank[o] : o \in recent}
<1>4. recent # {} /\ recent \subseteq S /\ IsFiniteSet(recent)
  <2>1. recent # {} /\ recent \in SUBSET S
    OBVIOUS
  <2>. HIDE DEF recent
  <2>. QED
    BY <2>1, FS_Subset
<1>5. ranks \subseteq Int /\ ranks # {} /\ IsFiniteSet(ranks)
  <2>1. IsFiniteSet(ranks)
    <3>1. rank = [o \in recent |-> rank[o]]
      OBVIOUS
    <3>. HIDE DEF recent, rank
    <3>. QED
      BY <1>4, <3>1, FewValues
  <2>2. ranks # {} /\ ranks \subseteq Int
    <3>. HIDE DEF recent
    <3>. QED
      BY <1>1, <1>4
  <2>. QED
    BY <2>1, <2>2
<1>6. PICK k \in ranks : \A x \in ranks : x <= k
  <2>. HIDE DEF ranks
  <2>. QED
    BY <1>5, HasLargest
<1>7. PICK o \in recent : o[3] = k
  OBVIOUS
<1>8. o \in S /\ \A p \in S : Better(o, p)
  <2>1. o \in S /\ UpdatedAt[o[1]] = t
    OBVIOUS
  <2>2. \A p \in S : UpdatedAt[p[1]] <= t /\ (UpdatedAt[p[1]] = t => p[3] <= k)
    BY <1>3, <1>6
  <2>. QED
    BY <1>1, <1>7, <2>1, <2>2 DEF Better
<1>9. PICK w \in S : w = (CHOOSE b \in S : \A p \in S : Better(b, p)) /\ \A p \in S : Better(w, p)
  BY <1>8
<1>. QED
  BY <1>9 DEF Best

\* Each of finitely many Revisions observes an event once.
LEMMA FewObservations ==
    ASSUME NEW revs, IsFiniteSet(revs), revs \subseteq Revision, NEW p, NEW e
    PROVE  IsFiniteSet(ObservationsOf(ObservationsOfAll(revs, p), e))
<1> DEFINE of == [r \in revs |-> <<r, e[2], Parse[r][p[r]].event[e[2]]>>]
           possible == {of[r] : r \in revs}
           S == ObservationsOf(ObservationsOfAll(revs, p), e)
<1>1. IsFiniteSet(possible)
  <2>1. of = [r \in revs |-> of[r]]
    OBVIOUS
  <2>. HIDE DEF of
  <2>. QED
    BY <2>1, FewValues
<1>2. S \in SUBSET possible
  <2>. SUFFICES ASSUME NEW o \in S PROVE o \in possible
    OBVIOUS
  <2>1. PICK r \in revs : o \in Observations(r, Parse[r][p[r]])
    BY DEF ObservationsOf, ObservationsOfAll
  <2>2. PICK k \in DOMAIN Parse[r][p[r]].event : o = <<r, k, Parse[r][p[r]].event[k]>>
    BY <2>1 DEF Observations
  <2>3. o[2] = e[2]
    BY DEF ObservationsOf
  <2>. QED
    BY <2>2, <2>3
<1>3. IsFiniteSet(S)
  <2>. HIDE DEF S, possible
  <2>. QED
    BY <1>1, <1>2, FS_Subset
<1>. QED
  BY <1>3

\* Only imports add Revisions, one at a time.
LEMMA FinitelyMany == Spec => []IsFiniteSet(revisions)
<1> DEFINE Few == IsFiniteSet(revisions)
<1>1. Init => Few
  BY FS_EmptySet DEF Init
<1>2. Few /\ [Next]_vars => Few'
  <2>. SUFFICES ASSUME IsFiniteSet(revisions), [Next]_vars PROVE IsFiniteSet(revisions')
    OBVIOUS
  <2>1. \/ revisions' = revisions
        \/ \E r : revisions' = revisions \cup {r}
        \/ \E gone : revisions' = revisions \ gone
    BY DEF Next, vars, content, ImportNew, Reimport, Rebuild, ReplaceRevisionEvents, DeleteTrace, Restart, ReadBatch,
           AbortRebuild, FinishRebuild
  <2>2. \A gone : revisions \ gone \in SUBSET revisions
    OBVIOUS
  <2>. QED
    BY <2>1, <2>2, FS_AddElement, FS_Subset
<1>3. Spec => []Few
  <2>. HIDE DEF Few
  <2>. QED
    BY <1>1, <1>2, PTL DEF Spec
<1>. QED
  BY <1>3

\* An import (commitRevision) adds events and takes none away, and shows another
\* observation of an event only if no Revision that has it was updated after the
\* imported one, in whatever order Revisions arrive.
THEOREM StaleImportsKeep == Spec => StaleImportKeeps
<1> DEFINE Keeps == \A r \in revisions' \ revisions :
                       /\ events \subseteq events'
                       /\ \A e \in events : preferred'[e] # preferred[e] =>
                             \A o \in ObservationsOf(observed, e) : UpdatedAt[o[1]] <= UpdatedAt[r]
<1>1. ASSUME IInv, IsFiniteSet(revisions), NEW r \in Revision, ImportNew(r),
             NEW e \in events, preferred'[e] # preferred[e], NEW o \in ObservationsOf(observed, e)
      PROVE  UpdatedAt[o[1]] <= UpdatedAt[r]
  <2> DEFINE norm == Parse[r][version]
             mine == Observations(r, norm)
             old == ObservationsOf(observed, e)
             new == ObservationsOf(mine, e)
  <2>1. /\ TypeOK /\ observed = ObservationsOfAll(revisions, parsed) /\ events = EventsIn(observed)
        /\ \A f \in Slot : preferred[f] = IF f \in events THEN Best(ObservationsOf(observed, f)) ELSE None
    BY <1>1 DEF IInv, EventsDetermined
  <2>2. observed \subseteq Observation /\ e \in Slot /\ version \in Version /\ revisions \subseteq Revision
    BY <1>1, <2>1 DEF TypeOK, Observation
  <2>3. mine \subseteq Observation /\ \A p \in mine : p[1] = r
    BY <2>2, ObservationsType
  <2>4. /\ observed' = observed \cup mine
        /\ preferred' = [f \in Slot |-> IF f \in EventsIn(mine) THEN Best(ObservationsOf(observed', f)) ELSE preferred[f]]
    BY <1>1 DEF ImportNew, InsertEvents
  <2>5. ObservationsOf(observed', e) = old \cup new
    BY <2>4, ObservationsOfUnion
  <2>6. preferred[e] = Best(old) /\ preferred'[e] = Best(old \cup new)
    BY <1>1, <2>1, <2>2, <2>4, <2>5
  <2>7. IsFiniteSet(old)
    BY <1>1, <2>1, <2>2, FewObservations
  <2>8. IsFiniteSet(new)
    <3>1. mine = ObservationsOfAll({r}, [q \in {r} |-> version])
      BY DEF ObservationsOfAll
    <3>2. IsFiniteSet({r}) /\ {r} \subseteq Revision
      BY FS_Singleton
    <3>. QED
      BY <3>1, <3>2, FewObservations
  <2>9. old \subseteq Observation /\ new \subseteq mine /\ new \subseteq Observation
    BY <2>2, <2>3 DEF ObservationsOf
  <2>. HIDE DEF old, new, mine
  <2>10. o \in old
    BY <1>1 DEF old
  <2>11. IsFiniteSet(old \cup new)
    BY <2>7, <2>8, FS_Union
  <2>12. PICK a \in old : Best(old) = a[3] /\ \A p \in old : Better(a, p)
    BY <2>7, <2>9, <2>10, BestIsBest
  <2>13. PICK b \in old \cup new : Best(old \cup new) = b[3] /\ \A p \in old \cup new : Better(b, p)
    BY <2>9, <2>10, <2>11, BestIsBest
  <2>14. \A p \in old \cup new : UpdatedAt[p[1]] \in Int /\ p[3] \in Int
    BY <2>9, ObservedTimes
  <2>15. Better(a, o) /\ Better(b, a)
    BY <2>10, <2>12, <2>13
  <2>16. CASE b \in new
    <3>1. UpdatedAt[b[1]] = UpdatedAt[r]
      BY <2>3, <2>9, <2>16
    <3>. QED
      BY <2>10, <2>14, <2>15, <3>1 DEF Better
  <2>17. CASE b \in old
    <3>1. Better(a, b)
      BY <2>12, <2>17
    <3>2. a[3] = b[3]
      BY <2>14, <2>15, <3>1 DEF Better
    <3>. QED
      BY <1>1, <2>6, <2>12, <2>13, <3>2
  <2>. QED
    BY <2>16, <2>17
<1>2. ASSUME IInv, IsFiniteSet(revisions), [Next]_vars PROVE [Keeps]_vars
  <2>. SUFFICES ASSUME Next PROVE Keeps
    BY <1>2
  <2>1. ASSUME NEW r \in Revision, ImportNew(r) PROVE Keeps
    <3>1. revisions' \ revisions \subseteq {r} /\ events \subseteq events'
      BY <2>1 DEF ImportNew, InsertEvents
    <3>. QED
      BY <1>1, <1>2, <2>1, <3>1
  <2>2. ASSUME revisions' \subseteq revisions PROVE Keeps
    BY <2>2
  <2>3. CASE ~\E r \in Revision : ImportNew(r)
    <3>1. revisions' \subseteq revisions
      BY <2>3 DEF Next, content, Reimport, Rebuild, ReplaceRevisionEvents, DeleteTrace, Restart, ReadBatch,
                  AbortRebuild, FinishRebuild
    <3>. QED
      BY <2>2, <3>1
  <2>. QED
    BY <2>1, <2>3
<1>3. [][Keeps]_vars => StaleImportKeeps
  BY PTL DEF StaleImportKeeps
<1>. QED
  BY <1>2, <1>3, Invariant, FinitelyMany, PTL DEF Spec

-----------------------------------------------------------------------------
(* Links to events stay open through a rename.                             *)

\* A key that has an alias is one that was renamed to it, and a link whose event is gone
\* has one if the key was renamed at all.
Aliased ==
    \A e \in Slot :
        /\ alias[e] # None => alias[e] \in NamesOf(e[1], e[2])
        /\ e \in visited \ events /\ NamesOf(e[1], e[2]) # {} => alias[e] # None

\* An event is what some Revision of its Trace says.
LEMMA EventsParsed ==
    ASSUME NEW revs, NEW p, NEW e \in Slot
    PROVE  e \in EventsIn(ObservationsOfAll(revs, p))
           <=> \E r \in revs : OwnerOf[r] = e[1] /\ e[2] \in DOMAIN Parse[r][p[r]].event
<1> DEFINE all == ObservationsOfAll(revs, p)
<1>1. e = <<e[1], e[2]>>
  BY DEF Slot
<1>2. ASSUME e \in EventsIn(all)
      PROVE  \E r \in revs : OwnerOf[r] = e[1] /\ e[2] \in DOMAIN Parse[r][p[r]].event
  <2>1. PICK o \in all : e = <<OwnerOf[o[1]], o[2]>>
    BY <1>2 DEF EventsIn
  <2>2. PICK r \in revs : o \in Observations(r, Parse[r][p[r]])
    BY <2>1 DEF ObservationsOfAll
  <2>3. PICK k \in DOMAIN Parse[r][p[r]].event : o = <<r, k, Parse[r][p[r]].event[k]>>
    BY <2>2 DEF Observations
  <2>. QED
    BY <2>1, <2>3
<1>3. ASSUME NEW r \in revs, OwnerOf[r] = e[1], e[2] \in DOMAIN Parse[r][p[r]].event
      PROVE  e \in EventsIn(all)
  <2> DEFINE o == <<r, e[2], Parse[r][p[r]].event[e[2]]>>
  <2>1. o \in Observations(r, Parse[r][p[r]])
    BY <1>3 DEF Observations
  <2>2. o \in all
    BY <2>1 DEF ObservationsOfAll
  <2>3. <<OwnerOf[o[1]], o[2]>> \in EventsIn(all)
    BY <2>2 DEF EventsIn
  <2>. QED
    BY <1>1, <1>3, <2>3
<1>. QED
  BY <1>2, <1>3

LEMMA EventIsParsed ==
    ASSUME IInv, NEW e \in Slot
    PROVE  e \in events <=> \E r \in revisions : OwnerOf[r] = e[1] /\ e[2] \in DOMAIN Parse[r][parsed[r]].event
BY EventsParsed DEF IInv, EventsDetermined

\* A Revision that is parsed again gives an alias to each key it drops.
LEMMA ReplaceAliases ==
    ASSUME IInv, IInv', RenamedOnce, Aliased, NEW r \in revisions,
           ReplaceRevisionEvents(r, Parse[r][version]), ~Rejected(Parse[r][version].status)
    PROVE  Aliased'
<1>. DEFINE norm == Parse[r][version]
            t == OwnerOf[r]
            renamed(l) == {k \in DOMAIN norm.event : l \in norm.legacy[k]}
<1>1. /\ r \in Revision /\ version \in Version
      /\ parsed[r] \in Version /\ parsed[r] <= version
      /\ revisions \subseteq Revision
  BY DEF IInv, TypeOK, Version
<1>2. /\ alias' = [e \in Slot |->
             IF e[1] = t /\ e \in events /\ renamed(e[2]) # {}
             THEN CHOOSE k \in renamed(e[2]) : TRUE
             ELSE alias[e]]
      /\ parsed' = [parsed EXCEPT ![r] = version]
      /\ visited' = visited \cup events'
      /\ revisions' = revisions
  BY DEF ReplaceRevisionEvents, Visit
<1>3. parsed'[r] = version /\ \A q \in revisions : q # r => parsed'[q] = parsed[q]
  BY <1>1, <1>2 DEF IInv, TypeOK
<1>4. \A l \in Key : renamed(l) \subseteq NamesOf(t, l)
  BY <1>1, EventConstants DEF NamesOf
<1>5. \A l : renamed(l) # {} => (CHOOSE k \in renamed(l) : TRUE) \in renamed(l)
  OBVIOUS
<1>6. \A e \in Slot : e[1] \in Trace /\ e[2] \in Key
  BY DEF Slot
<1>7. \A l, k : k \in NamesOf(t, l) => k \in Key /\ k # None
  BY EventConstants DEF NamesOf
<1>8. ASSUME NEW e \in Slot PROVE alias'[e] # None => alias'[e] \in NamesOf(e[1], e[2])
  <2>1. CASE e[1] = t /\ e \in events /\ renamed(e[2]) # {}
    <3>1. alias'[e] \in renamed(e[2])
      <4>. HIDE DEF renamed
      <4>. QED
        BY <1>2, <1>5, <2>1
    <3>. HIDE DEF renamed
    <3>. QED
      BY <1>4, <1>6, <2>1, <3>1
  <2>2. CASE ~(e[1] = t /\ e \in events /\ renamed(e[2]) # {})
    <3>. HIDE DEF renamed
    <3>1. alias'[e] = alias[e]
      BY <1>2, <2>2
    <3>. QED
      BY <3>1 DEF Aliased
  <2>. QED
    BY <2>1, <2>2
<1>9. ASSUME NEW e \in Slot, e \in visited', e \notin events', NamesOf(e[1], e[2]) # {} PROVE alias'[e] # None
  <2>1. e \in visited
    BY <1>2, <1>9
  <2>2. CASE e \notin events
    <3>. HIDE DEF renamed
    <3>1. alias'[e] = alias[e]
      BY <1>2, <2>2
    <3>. QED
      BY <1>9, <2>1, <2>2, <3>1 DEF Aliased
  <2>3. CASE e \in events
    <3>1. PICK q \in revisions : OwnerOf[q] = e[1] /\ e[2] \in DOMAIN Parse[q][parsed[q]].event
      BY <2>3, EventIsParsed
    <3>2. \A p \in revisions' : ~(OwnerOf[p] = e[1] /\ e[2] \in DOMAIN Parse[p][parsed'[p]].event)
      <4>1. events' = EventsIn(ObservationsOfAll(revisions', parsed'))
        BY DEF IInv, EventsDetermined
      <4>. QED
        BY <1>9, <4>1, EventsParsed
    <3>3. q = r
      BY <1>2, <1>3, <3>1, <3>2
    <3>4. e[2] \notin DOMAIN norm.event
      BY <1>2, <1>3, <3>1, <3>2, <3>3
    <3>5. parsed[r] < version
      <4>1. parsed[r] # version
        BY <3>1, <3>3, <3>4
      <4>. QED
        BY <1>1, <4>1 DEF Version
    <3>6. renamed(e[2]) # {}
      <4>1. \E k \in DOMAIN norm.event : e[2] \in norm.legacy[k]
        BY <1>1, <1>6, <1>9, <3>1, <3>3, <3>4, <3>5 DEF RenamedOnce
      <4>. QED
        BY <4>1
    <3>7. e[1] = t
      BY <3>1, <3>3
    <3>8. alias'[e] \in renamed(e[2])
      <4>. HIDE DEF renamed
      <4>. QED
        BY <1>2, <1>5, <2>3, <3>6, <3>7
    <3>. HIDE DEF renamed
    <3>. QED
      BY <1>4, <1>6, <1>7, <3>7, <3>8
  <2>. QED
    BY <2>2, <2>3
<1>. QED
  BY <1>8, <1>9 DEF Aliased

LEMMA AliasedStep == IInv /\ IInv' /\ (RenamedOnce => Aliased) /\ [Next]_vars => (RenamedOnce => Aliased')
<1>. SUFFICES ASSUME IInv, IInv', RenamedOnce, Aliased, [Next]_vars PROVE Aliased'
  OBVIOUS
<1>1. ASSUME NEW r \in Revision, ImportNew(r) PROVE Aliased'
  <2>1. events \subseteq events' /\ visited' = visited \cup events' /\ alias' = alias
    BY <1>1 DEF ImportNew, InsertEvents, Visit
  <2>. QED
    BY <2>1 DEF Aliased
<1>2. ASSUME NEW r \in Revision, Reimport(r) PROVE Aliased'
  BY <1>2, ReplaceAliases DEF Reimport
<1>3. ASSUME NEW r \in Revision, Rebuild(r) PROVE Aliased'
  <2>1. CASE Rejected(Parse[r][version].status)
    BY <1>3, <2>1 DEF Rebuild, content, Aliased
  <2>2. CASE ~Rejected(Parse[r][version].status)
    <3>1. r \in revisions
      BY <1>3 DEF Rebuild, IInv, PassProgress
    <3>. QED
      BY <1>3, <2>2, <3>1, ReplaceAliases DEF Rebuild
  <2>. QED
    BY <2>1, <2>2
<1>4. ASSUME NEW t \in Trace, DeleteTrace(t) PROVE Aliased'
  <2>1. /\ alias' = [e \in Slot |-> IF e[1] = t THEN None ELSE alias[e]]
        /\ visited' = {e \in visited : e[1] # t}
        /\ events' = {e \in events : e[1] # t}
    BY <1>4 DEF DeleteTrace
  <2>. QED
    BY <2>1 DEF Aliased
<1>5. CASE UNCHANGED <<content, visited>>
  BY <1>5 DEF content, Aliased
<1>6. CASE UNCHANGED vars
  BY <1>5, <1>6 DEF vars
<1>7. ASSUME NEW v \in Version, Restart(v) PROVE Aliased'
  BY <1>5, <1>7 DEF Restart
<1>8. ASSUME NEW batch \in SUBSET unread, ReadBatch(batch) PROVE Aliased'
  BY <1>5, <1>8 DEF ReadBatch
<1>9. CASE AbortRebuild \/ FinishRebuild
  BY <1>5, <1>9 DEF AbortRebuild, FinishRebuild
<1>. QED
  BY <1>1, <1>2, <1>3, <1>4, <1>6, <1>7, <1>8, <1>9 DEF Next

\* The alias of a key that was renamed once is the name it has now.
LEMMA AliasedOpen == IInv /\ RenamedOnce /\ Aliased => LinksOpen
<1>. SUFFICES ASSUME IInv, RenamedOnce, Aliased,
                     NEW e \in visited, NEW r \in revisions, OwnerOf[r] = e[1],
                     NEW k \in DOMAIN Parse[r][parsed[r]].event,
                     e[2] = k \/ e[2] \in Parse[r][parsed[r]].legacy[k]
              PROVE  Opens(e)
  BY DEF LinksOpen
<1>1. e \in Slot /\ e[1] \in Trace /\ e[2] \in Key /\ r \in Revision /\ parsed[r] \in Version
  BY DEF IInv, TypeOK, Version, Slot
<1>2. k \in Key
  BY <1>1, EventConstants
<1>3. <<e[1], k>> \in events
  <2>1. <<e[1], k>> \in Slot /\ <<e[1], k>>[1] = e[1] /\ <<e[1], k>>[2] = k
    BY <1>1, <1>2 DEF Slot
  <2>. QED
    BY <2>1, EventIsParsed
<1>4. CASE e[2] = k
  <2>1. e = <<e[1], e[2]>>
    BY <1>1 DEF Slot
  <2>. QED
    BY <1>3, <1>4, <2>1 DEF Opens
<1>5. CASE e[2] \in Parse[r][parsed[r]].legacy[k]
  <2>1. k \in NamesOf(e[1], e[2])
    BY <1>1, <1>2, <1>5 DEF NamesOf
  <2>2. CASE e \notin events
    <3>1. alias[e] # None /\ alias[e] \in NamesOf(e[1], e[2])
      BY <1>1, <2>1, <2>2 DEF Aliased
    <3>2. alias[e] = k
      BY <1>1, <2>1, <3>1 DEF RenamedOnce
    <3>. QED
      BY <1>3, <3>1, <3>2 DEF Opens
  <2>. QED
    BY <2>2 DEF Opens
<1>. QED
  BY <1>4, <1>5

\* Links to events open after upgrades that rename no key twice, in whatever order
\* Revisions are imported, rebuilt and deleted: replaceRevisionEvents writes the alias of a
\* key while the Trace still has an event of that key.
THEOREM LinksStayOpen == Spec => [](RenamedOnce => LinksOpen)
<1>1. Init => (RenamedOnce => Aliased)
  BY DEF Init, Aliased
<1>2. IInv /\ IInv' /\ (RenamedOnce => Aliased) /\ [Next]_vars => (RenamedOnce => Aliased)'
  BY AliasedStep DEF RenamedOnce, NamesOf, Rejected, Version
<1>3. IInv /\ (RenamedOnce => Aliased) => (RenamedOnce => LinksOpen)
  BY AliasedOpen
<1>. QED
  BY <1>1, <1>2, <1>3, Invariant, PTL DEF Spec

-----------------------------------------------------------------------------
(* One conversation of a Claude Code session is one branch (ClaudeTree).   *)
(* What the loops of Evented, Behind and Above come to is reached by       *)
(* counting their steps up.                                                *)

RecordType == [kind : Kinds, parent : Nat]

NamedParent(f, x) == IF x \in DOMAIN f THEN f[x].parent ELSE 0

\* Evented of a file of which the records `known` have events.
EventedIn(f, known, id) ==
    LET up[n \in 0..Len(f)] ==
            IF n = 0 THEN id
            ELSE IF up[n - 1] \in known THEN up[n - 1] ELSE NamedParent(f, up[n - 1])
    IN up[Len(f)]

Climbs(f, known) == [x \in Nat |-> IF x \in known THEN x ELSE NamedParent(f, x)]

LEMMA NamedIsNat ==
    ASSUME NEW f \in Seq(RecordType)
    PROVE  /\ Len(f) \in Nat /\ DOMAIN f = 1..Len(f)
           /\ \A i \in DOMAIN f : f[i] \in RecordType /\ f[i].kind \in Kinds /\ f[i].parent \in Nat
           /\ \A x : NamedParent(f, x) \in Nat
<1>1. Len(f) \in Nat /\ DOMAIN f = 1..Len(f)
  BY LenProperties
<1>2. \A i \in DOMAIN f : f[i] \in RecordType
  BY <1>1, ElementOfSeq
<1>3. \A i \in DOMAIN f : f[i].kind \in Kinds /\ f[i].parent \in Nat
  BY <1>2 DEF RecordType
<1>. QED
  BY <1>1, <1>2, <1>3 DEF NamedParent

LEMMA EventedInGoes ==
    ASSUME NEW f \in Seq(RecordType), NEW known, NEW id \in Nat
    PROVE  \E g \in [0..Len(f) -> Nat] : Goes(g, Len(f), id, Climbs(f, known)) /\ EventedIn(f, known, id) = g[Len(f)]
<1>1. Len(f) \in Nat /\ Climbs(f, known) \in [Nat -> Nat] /\ \A x : NamedParent(f, x) \in Nat
  BY NamedIsNat DEF Climbs
<1> DEFINE Is(u) == u = [n \in 0..Len(f) |->
                          IF n = 0 THEN id ELSE IF u[n - 1] \in known THEN u[n - 1] ELSE NamedParent(f, u[n - 1])]
           h == CHOOSE u : Is(u)
<1>2. PICK g \in [0..Len(f) -> Nat] : Goes(g, Len(f), id, Climbs(f, known))
  BY <1>1, Iterates
<1>3. \A n \in 0..Len(f) : n = 0 \/ (n \in 1..Len(f) /\ n - 1 \in 0..Len(f))
  BY <1>1
<1>4. Is(g)
  <2>1. \A n \in 0..Len(f) : g[n] = IF n = 0 THEN id ELSE IF g[n - 1] \in known THEN g[n - 1] ELSE NamedParent(f, g[n - 1])
    BY <1>2, <1>3 DEF Goes, Climbs
  <2>. QED
    BY <1>2, <2>1
<1>5. Is(h)
  <2>. HIDE DEF Is
  <2>. QED
    BY <1>4
<1>6. EventedIn(f, known, id) = h[Len(f)]
  BY Zenon DEF EventedIn
<1>. HIDE DEF h
<1>7. h[0] = id /\ \A n \in 1..Len(f) : h[n] = IF h[n - 1] \in known THEN h[n - 1] ELSE NamedParent(f, h[n - 1])
  <2>1. \A n \in 0..Len(f) : h[n] = IF n = 0 THEN id ELSE IF h[n - 1] \in known THEN h[n - 1] ELSE NamedParent(f, h[n - 1])
    BY <1>5
  <2>2. 0 \in 0..Len(f) /\ \A n \in 1..Len(f) : n \in 0..Len(f) /\ n # 0
    BY <1>1
  <2>3. h[0] = id
    BY <2>1, <2>2
  <2>4. ASSUME NEW n \in 1..Len(f)
        PROVE  h[n] = IF h[n - 1] \in known THEN h[n - 1] ELSE NamedParent(f, h[n - 1])
    BY <2>1, <2>2
  <2>. QED
    BY <2>3, <2>4
<1>8. \A n \in 0..Len(f) : h[n] \in Nat
  <2> DEFINE S == {n \in 0..Len(f) : h[n] \in Nat}
  <2>1. 0 \in S
    <3>1. h[0] \in Nat /\ 0 \in 0..Len(f)
      BY <1>1, <1>7
    <3>. QED
      BY <3>1
  <2>2. ASSUME NEW n \in 1..Len(f), n - 1 \in S PROVE n \in S
    <3>1. n \in 0..Len(f) /\ h[n - 1] \in Nat
      BY <1>1, <2>2
    <3>. QED
      BY <1>1, <1>7, <3>1
  <2>. HIDE DEF S
  <2>3. \A n \in 0..Len(f) : n \in S
    BY <1>1, <2>1, <2>2, CountUp
  <2>. QED
    BY <2>3 DEF S
<1>9. h \in [0..Len(f) -> Nat] /\ Goes(h, Len(f), id, Climbs(f, known))
  <2>1. h \in [0..Len(f) -> Nat]
    BY <1>5, <1>8
  <2>2. \A n \in 1..Len(f) : h[n] = Climbs(f, known)[h[n - 1]]
    BY <1>1, <1>7, <1>8 DEF Climbs
  <2>. QED
    BY <1>7, <2>1, <2>2 DEF Goes
<1>. QED
  BY <1>6, <1>9

\* Up from a record that has no events to its parent.
StepUp == Climbs(file, DOMAIN keys)

LEMMA ParentIsNat ==
    ASSUME file \in Seq(RecordType)
    PROVE  /\ Len(file) \in Nat /\ DOMAIN file = 1..Len(file)
           /\ \A i \in DOMAIN file : file[i] \in RecordType /\ file[i].kind \in Kinds /\ file[i].parent \in Nat
           /\ \A x : ParentId(x) \in Nat
BY NamedIsNat DEF ParentId, NamedParent

LEMMA EventedIs == \A id : Evented(id) = EventedIn(file, DOMAIN keys, id)
BY Zenon DEF Evented, EventedIn, ParentId, NamedParent

LEMMA EventedGoes ==
    ASSUME file \in Seq(RecordType), NEW id \in Nat
    PROVE  \E g \in [0..Len(file) -> Nat] : Goes(g, Len(file), id, StepUp) /\ Evented(id) = g[Len(file)]
BY EventedInGoes, EventedIs DEF StepUp

-----------------------------------------------------------------------------
\* Past the event that was put behind one.
StepBehind(D) == [k \in D |-> IF k \in DOMAIN inserted THEN inserted[k] ELSE k]

LEMMA BehindGoes ==
    ASSUME Cardinality(DOMAIN inserted) \in Nat, NEW D, NEW key \in D,
           \A k \in D \cap DOMAIN inserted : inserted[k] \in D
    PROVE  \E g \in [0..Cardinality(DOMAIN inserted) + 1 -> D] :
              /\ Goes(g, Cardinality(DOMAIN inserted) + 1, key, StepBehind(D))
              /\ Behind(key) = g[Cardinality(DOMAIN inserted) + 1]
<1> DEFINE N == Cardinality(DOMAIN inserted) + 1
           Is(f) == f = [n \in 0..N |-> IF n = 0 THEN key ELSE IF f[n - 1] \in DOMAIN inserted THEN inserted[f[n - 1]] ELSE f[n - 1]]
           h == CHOOSE f : Is(f)
<1>1. N \in Nat
  OBVIOUS
<1>6. Behind(key) = h[N]
  BY Zenon DEF Behind
<1>. HIDE DEF N
<1>2. StepBehind(D) \in [D -> D]
  BY DEF StepBehind
<1>3. \A n \in 0..N : n = 0 \/ (n \in 1..N /\ n - 1 \in 0..N)
  BY <1>1
<1>4. Is(h)
  <2>1. PICK g \in [0..N -> D] : Goes(g, N, key, StepBehind(D))
    BY <1>1, <1>2, Iterates
  <2>2. \A n \in 0..N : g[n] = IF n = 0 THEN key ELSE IF g[n - 1] \in DOMAIN inserted THEN inserted[g[n - 1]] ELSE g[n - 1]
    BY <1>3, <2>1 DEF Goes, StepBehind
  <2>3. Is(g)
    BY <2>1, <2>2
  <2>. HIDE DEF Is
  <2>. QED
    BY <2>3
<1>. HIDE DEF h
<1>5. h[0] = key /\ \A n \in 1..N : h[n] = IF h[n - 1] \in DOMAIN inserted THEN inserted[h[n - 1]] ELSE h[n - 1]
  <2>1. \A n \in 0..N : h[n] = IF n = 0 THEN key ELSE IF h[n - 1] \in DOMAIN inserted THEN inserted[h[n - 1]] ELSE h[n - 1]
    BY <1>4
  <2>2. 0 \in 0..N /\ \A n \in 1..N : n \in 0..N /\ n # 0
    BY <1>1
  <2>. QED
    BY <2>1, <2>2
<1>7. \A n \in 0..N : h[n] \in D
  <2> DEFINE S == {n \in 0..N : h[n] \in D}
  <2>1. 0 \in S
    BY <1>1, <1>5
  <2>2. ASSUME NEW n \in 1..N, n - 1 \in S PROVE n \in S
    <3>1. n \in 0..N /\ h[n - 1] \in D
      BY <1>1, <2>2
    <3>. QED
      BY <1>5, <3>1
  <2>. HIDE DEF S
  <2>3. \A n \in 0..N : n \in S
    BY <1>1, <2>1, <2>2, CountUp
  <2>. QED
    BY <2>3 DEF S
<1>8. h \in [0..N -> D]
  BY <1>4, <1>7
<1>9. Goes(h, N, key, StepBehind(D))
  <2>1. ASSUME NEW n \in 1..N PROVE h[n] = StepBehind(D)[h[n - 1]]
    <3>1. n - 1 \in 0..N
      BY <1>1
    <3>2. h[n - 1] \in D
      BY <1>7, <3>1
    <3>. QED
      BY <1>5, <3>2 DEF StepBehind
  <2>. QED
    BY <1>5, <2>1 DEF Goes
<1>. QED
  BY <1>6, <1>8, <1>9 DEF N

\* The events above one.
StepAbove(trees, D) == [k \in D |-> ParentIn(trees, k)]

\* The way up from an event, which is what Above has.
WayUp(trees, D, N, key, g) ==
    /\ g \in [0..N -> D] /\ Goes(g, N, key, StepAbove(trees, D))
    /\ \A k : k \in Above(trees, key, N) <=> \E n \in 0..N : k = g[n]

LEMMA AboveGoes ==
    ASSUME NEW trees, NEW N \in Nat, NEW D, NEW key \in D, \A k \in D : ParentIn(trees, k) \in D
    PROVE  \E g : WayUp(trees, D, N, key, g)
<1> DEFINE Is(f) == f = [n \in 0..N |-> IF n = 0 THEN key ELSE ParentIn(trees, f[n - 1])]
           h == CHOOSE f : Is(f)
<1>6. Above(trees, key, N) = {h[n] : n \in 0..N}
  BY Zenon DEF Above
<1>2. StepAbove(trees, D) \in [D -> D]
  BY DEF StepAbove
<1>3. \A n \in 0..N : n = 0 \/ (n \in 1..N /\ n - 1 \in 0..N)
  OBVIOUS
<1>4. Is(h)
  <2>1. PICK g \in [0..N -> D] : Goes(g, N, key, StepAbove(trees, D))
    BY <1>2, Iterates
  <2>2. \A n \in 0..N : g[n] = IF n = 0 THEN key ELSE ParentIn(trees, g[n - 1])
    BY <1>3, <2>1 DEF Goes, StepAbove
  <2>3. Is(g)
    BY <2>1, <2>2
  <2>. HIDE DEF Is
  <2>. QED
    BY <2>3
<1>. HIDE DEF h
<1>5. h[0] = key /\ \A n \in 1..N : h[n] = ParentIn(trees, h[n - 1])
  <2>1. \A n \in 0..N : h[n] = IF n = 0 THEN key ELSE ParentIn(trees, h[n - 1])
    BY <1>4
  <2>2. 0 \in 0..N /\ \A n \in 1..N : n \in 0..N /\ n # 0
    OBVIOUS
  <2>. QED
    BY <2>1, <2>2
<1>7. \A n \in 0..N : h[n] \in D
  <2> DEFINE S == {n \in 0..N : h[n] \in D}
  <2>1. 0 \in S
    BY <1>5
  <2>2. ASSUME NEW n \in 1..N, n - 1 \in S PROVE n \in S
    BY <1>5, <2>2
  <2>. HIDE DEF S
  <2>3. \A n \in 0..N : n \in S
    BY <2>1, <2>2, CountUp
  <2>. QED
    BY <2>3 DEF S
<1>8. h \in [0..N -> D]
  BY <1>4, <1>7
<1>9. Goes(h, N, key, StepAbove(trees, D))
  <2>1. ASSUME NEW n \in 1..N PROVE h[n] = StepAbove(trees, D)[h[n - 1]]
    <3>1. h[n - 1] \in D
      BY <1>7
    <3>. QED
      BY <1>5, <3>1 DEF StepAbove
  <2>. QED
    BY <1>5, <2>1 DEF Goes
<1>. QED
  BY <1>6, <1>8, <1>9 DEF WayUp

-----------------------------------------------------------------------------
TreeEventType == [key : Nat \X Nat, parent : Nat \X Nat]

\* Events of which each has the one before it as its parent, and a key of its own.
InOneLine(chain) ==
    /\ chain \in Seq(TreeEventType)
    /\ \A i \in 1..Len(chain) : chain[i].parent = IF i = 1 THEN NoKey ELSE chain[i - 1].key
    /\ \A i, j \in 1..Len(chain) : chain[i].key = chain[j].key => i = j

\* What is known of a conversation of which the records before `line` were read.
BranchSoFar ==
    /\ InOneLine(made) /\ \A i \in 1..Len(made) : made[i].key \in (1..line - 1) \X {0, 1}
    /\ late = Nothing
    /\ DOMAIN keys = {i \in 1..line - 1 : file[i].kind \notin {"quiet", "prompt"}}
    /\ \A i \in DOMAIN keys : \E m \in 1..Len(made) :
          keys[i] = made[m].key /\ Len(made) - m <= 2 * (line - 1 - i)
    /\ IsFiniteSet(DOMAIN inserted)
    /\ \A key \in DOMAIN inserted : \E m \in 1..Len(made) - 1 : key = made[m].key /\ inserted[key] = made[m + 1].key
    /\ line = 1 => made = <<>> /\ head = 0
    /\ line > 1 =>
          /\ head \in 1..line - 1 /\ file[head].kind # "prompt"
          /\ \A i \in head + 1..line - 1 : file[i].kind = "prompt"
          /\ \E e \in DOMAIN keys : \E m \in 1..Len(made) :
                /\ e <= head /\ \A i \in e + 1..line - 1 : file[i].kind \in {"quiet", "prompt"}
                /\ keys[e] = made[m].key /\ \A k \in m..Len(made) - 1 : made[k].key \in DOMAIN inserted

BranchInv ==
    /\ file \in Seq(RecordType) /\ line \in 1..Len(file) + 1
    /\ Conversation /\ ResultsNear => BranchSoFar

\* The record that another names in a conversation.
LEMMA NamedBefore ==
    ASSUME file \in Seq(RecordType), Conversation, NEW i \in 2..Len(file), file[i].kind # "prompt"
    PROVE  /\ file[i].parent \in 1..i - 1 /\ file[file[i].parent].kind # "prompt"
           /\ file[i].kind = "result" => file[file[i].parent].kind \in {"text", "effort"}
           /\ file[i].kind # "result" => \A j \in 1..i - 1 : file[j].kind # "prompt" => j <= file[i].parent
<1>1. i \in DOMAIN file /\ i # 1
  BY ParentIsNat
<1>2. CASE file[i].kind = "result"
  BY <1>1, <1>2 DEF Conversation
<1>3. CASE file[i].kind # "result"
  BY <1>1, <1>3 DEF Conversation
<1>. QED
  BY <1>2, <1>3

LEMMA EventedHead ==
    ASSUME file \in Seq(RecordType), Conversation, line \in 2..Len(file) + 1,
           head \in 1..line - 1, file[head].kind # "prompt",
           DOMAIN keys = {i \in 1..line - 1 : file[i].kind \notin {"quiet", "prompt"}},
           NEW e \in DOMAIN keys, e <= head, \A i \in e + 1..line - 1 : file[i].kind \in {"quiet", "prompt"}
    PROVE  Evented(head) = e
<1> DEFINE N == Len(file)
<1>1. N \in Nat /\ head \in Nat /\ e \in Nat /\ e > 0 /\ head <= N /\ line \in Nat
  BY ParentIsNat
<1>2. PICK g \in [0..N -> Nat] : Goes(g, N, head, StepUp) /\ Evented(head) = g[N]
  BY <1>1, EventedGoes
<1> DEFINE S == {n \in 0..N : /\ g[n] \in e..head /\ file[g[n]].kind # "prompt"
                              /\ g[n] = e \/ g[n] <= head - n}
<1>3. 0 \in S
  <2>1. g[0] = head
    BY <1>2 DEF Goes
  <2>. QED
    BY <1>1, <2>1
<1>4. ASSUME NEW n \in 1..N, n - 1 \in S
      PROVE  n \in S
  <2> DEFINE x == g[n - 1]
  <2>1. x \in e..head /\ file[x].kind # "prompt" /\ (x = e \/ x <= head - (n - 1)) /\ x \in Nat
    BY <1>1, <1>4
  <2>2. g[n] = IF x \in DOMAIN keys THEN x ELSE ParentId(x)
    BY <1>2, <2>1 DEF Goes, StepUp, Climbs, ParentId, NamedParent
  <2>. HIDE DEF x
  <2>3. CASE x = e
    BY <1>1, <2>1, <2>2, <2>3
  <2>4. CASE x # e
    <3>1. x \in e + 1..line - 1 /\ x \in 2..N /\ x \in DOMAIN file
      BY <1>1, <2>1, <2>4, ParentIsNat
    <3>2. file[x].kind = "quiet" /\ x \notin DOMAIN keys
      BY <2>1, <3>1
    <3>3. g[n] = file[x].parent
      BY <2>2, <3>1, <3>2 DEF ParentId
    <3>4. file[x].parent \in 1..x - 1 /\ file[file[x].parent].kind # "prompt"
      BY <2>1, <3>1, NamedBefore
    <3>5. e <= file[x].parent
      <4>1. e \in 1..x - 1 /\ file[e].kind # "prompt"
        BY <1>1, <3>1
      <4>. QED
        BY <2>1, <3>1, <3>2, <4>1, NamedBefore
    <3>6. g[n] \in e..head /\ g[n] <= head - n
      <4> DEFINE y == file[x].parent
      <4>1. y \in 1..x - 1 /\ e <= y /\ g[n] = y
        BY <3>3, <3>4, <3>5
      <4>2. x \in Nat /\ x <= head - (n - 1) /\ n \in Nat /\ n > 0
        BY <1>1, <2>1, <2>4
      <4>. HIDE DEF y
      <4>3. y \in e..head /\ y <= head - n
        BY <1>1, <4>1, <4>2
      <4>. QED
        BY <4>1, <4>3
    <3>. QED
      BY <3>3, <3>4, <3>6
  <2>. QED
    BY <2>3, <2>4
<1>. HIDE DEF S, N
<1>5. N \in S
  <2>1. N \in 0..N
    BY <1>1
  <2>. QED
    BY <1>1, <1>3, <1>4, <2>1, CountUp
<1>6. g[N] \in e..head /\ (g[N] = e \/ g[N] <= head - N)
  BY <1>5 DEF S
<1>. QED
  BY <1>1, <1>2, <1>6

\* An event with others put behind one after the other is followed to the last.
LEMMA BehindLast ==
    ASSUME InOneLine(made), IsFiniteSet(DOMAIN inserted),
           \A key \in DOMAIN inserted : \E m \in 1..Len(made) - 1 : key = made[m].key /\ inserted[key] = made[m + 1].key,
           NEW m \in 1..Len(made), \A k \in m..Len(made) - 1 : made[k].key \in DOMAIN inserted
    PROVE  Behind(made[m].key) = made[Len(made)].key
<1> DEFINE n == Len(made)
           N == Cardinality(DOMAIN inserted) + 1
           D == {made[i].key : i \in 1..n}
           at(k) == IF m + k <= n THEN m + k ELSE n
<1>1. n \in Nat /\ m \in Nat /\ Cardinality(DOMAIN inserted) \in Nat /\ N \in Nat /\ n > 0
  BY LenProperties, FS_CardinalityType DEF InOneLine
<1>2. \A i, j \in 1..n : made[i].key = made[j].key => i = j
  BY DEF InOneLine
<1>3. \A k \in D \cap DOMAIN inserted : inserted[k] \in D
  <2> SUFFICES ASSUME NEW k \in DOMAIN inserted PROVE inserted[k] \in D
    OBVIOUS
  <2>1. PICK i \in 1..n - 1 : inserted[k] = made[i + 1].key
    OBVIOUS
  <2>2. i + 1 \in 1..n
    BY <1>1
  <2>. QED
    BY <2>1, <2>2
<1>4. PICK g \in [0..N -> D] : Goes(g, N, made[m].key, StepBehind(D)) /\ Behind(made[m].key) = g[N]
  <2>1. made[m].key \in D
    OBVIOUS
  <2>. HIDE DEF D
  <2>. QED
    BY <1>1, <1>3, <2>1, BehindGoes
<1>5. n - m <= Cardinality(DOMAIN inserted)
  <2> DEFINE f == [k \in m..n - 1 |-> made[k].key]
  <2>1. f \in Injection(m..n - 1, DOMAIN inserted)
    <3>1. f \in [m..n - 1 -> DOMAIN inserted]
      OBVIOUS
    <3>2. \A a, b \in m..n - 1 : a \in 1..n /\ b \in 1..n
      BY <1>1
    <3>3. \A a, b \in m..n - 1 : f[a] = f[b] => a = b
      BY <1>2, <3>2
    <3>. HIDE DEF f
    <3>. QED
      BY <3>1, <3>3 DEF Injection, IsInjective
  <2>. HIDE DEF f
  <2>2. Cardinality(m..n - 1) <= Cardinality(DOMAIN inserted)
    BY <2>1, FS_Injection
  <2>3. Cardinality(m..n - 1) = IF m > n - 1 THEN 0 ELSE (n - 1) - m + 1
    <3>1. n - 1 \in Int /\ m \in Int
      BY <1>1
    <3>. HIDE DEF n
    <3>. QED
      BY <3>1, FS_Interval
  <2>. QED
    BY <1>1, <2>2, <2>3
<1> DEFINE S == {k \in 0..N : g[k] = made[at(k)].key}
<1>6. 0 \in S
  <2>1. g[0] = made[m].key
    BY <1>4 DEF Goes
  <2>2. at(0) = m
    BY <1>1
  <2>. QED
    BY <1>1, <2>1, <2>2
<1>7. ASSUME NEW k \in 1..N, k - 1 \in S
      PROVE  k \in S
  <2> DEFINE i == at(k - 1)
  <2>1. i \in 1..n /\ i \in m..n /\ g[k - 1] = made[i].key /\ k \in 0..N
    BY <1>1, <1>7
  <2>2. g[k] = IF made[i].key \in DOMAIN inserted THEN inserted[made[i].key] ELSE made[i].key
    <3>1. made[i].key \in D
      BY <2>1
    <3>. HIDE DEF D, i
    <3>. QED
      BY <1>4, <2>1, <3>1 DEF Goes, StepBehind
  <2>3. at(k) = IF i < n THEN i + 1 ELSE n
    BY <1>1
  <2>. HIDE DEF i
  <2>4. CASE i < n
    <3>1. made[i].key \in DOMAIN inserted
      BY <1>1, <2>1, <2>4
    <3>2. PICK j \in 1..n - 1 : made[i].key = made[j].key /\ inserted[made[i].key] = made[j + 1].key
      BY <3>1
    <3>3. j = i
      <4>1. j \in 1..n
        BY <1>1
      <4>. QED
        BY <1>2, <2>1, <3>2, <4>1
    <3>. QED
      BY <2>1, <2>2, <2>3, <2>4, <3>1, <3>2, <3>3
  <2>5. CASE ~(i < n)
    <3>1. i = n
      BY <1>1, <2>1, <2>5
    <3>2. made[n].key \notin DOMAIN inserted
      <4> SUFFICES ASSUME made[n].key \in DOMAIN inserted PROVE FALSE
        OBVIOUS
      <4>1. PICK j \in 1..n - 1 : made[n].key = made[j].key
        OBVIOUS
      <4>2. j \in 1..n /\ n \in 1..n /\ j # n
        BY <1>1
      <4>. QED
        BY <1>2, <4>1, <4>2
    <3>. QED
      BY <2>1, <2>2, <2>3, <2>5, <3>1, <3>2
  <2>. QED
    BY <2>4, <2>5
<1>8. N \in S
  <2>1. N \in 0..N
    BY <1>1
  <2>. HIDE DEF S, N
  <2>. QED
    BY <1>1, <1>6, <1>7, <2>1, CountUp
<1>9. at(N) = n
  BY <1>1, <1>5
<1>. QED
  BY <1>4, <1>8, <1>9

\* The last event is what follows the head of a conversation.
LEMMA HeadResolves ==
    ASSUME file \in Seq(RecordType), Conversation, line \in 2..Len(file) + 1, BranchSoFar
    PROVE  Len(made) \in Nat /\ Len(made) > 0 /\ Resolve(head) = made[Len(made)].key
<1>1. Len(file) \in Nat /\ Len(made) \in Nat /\ line > 1
  BY ParentIsNat, LenProperties DEF BranchSoFar, InOneLine
<1>2. PICK e \in DOMAIN keys, m \in 1..Len(made) :
         /\ e <= head /\ \A i \in e + 1..line - 1 : file[i].kind \in {"quiet", "prompt"}
         /\ keys[e] = made[m].key /\ \A k \in m..Len(made) - 1 : made[k].key \in DOMAIN inserted
  BY <1>1 DEF BranchSoFar
<1>3. Evented(head) = e
  <2>1. /\ head \in 1..line - 1 /\ file[head].kind # "prompt"
        /\ DOMAIN keys = {i \in 1..line - 1 : file[i].kind \notin {"quiet", "prompt"}}
    BY <1>1 DEF BranchSoFar
  <2>. QED
    BY <1>2, <2>1, EventedHead
<1>4. Behind(made[m].key) = made[Len(made)].key
  <2>1. /\ InOneLine(made) /\ IsFiniteSet(DOMAIN inserted)
        /\ \A key \in DOMAIN inserted : \E l \in 1..Len(made) - 1 : key = made[l].key /\ inserted[key] = made[l + 1].key
    BY DEF BranchSoFar
  <2>. QED
    BY <1>2, <2>1, BehindLast
<1>. QED
  BY <1>1, <1>2, <1>3, <1>4 DEF Resolve

\* A record with events resolves to its first event or one made later.
LEMMA NamedResolves ==
    ASSUME file \in Seq(RecordType), BranchSoFar, line \in 1..Len(file) + 1, NEW i \in DOMAIN keys
    PROVE  \E m \in 1..Len(made) : Resolve(i) = made[m].key /\ Len(made) - m <= 2 * (line - 1 - i)
<1> DEFINE n == Len(made)
<1>1. Len(file) \in Nat /\ n \in Nat /\ i \in Nat /\ Cardinality(DOMAIN inserted) \in Nat
  <2>1. i \in 1..line - 1
    BY DEF BranchSoFar
  <2>. QED
    BY <2>1, ParentIsNat, LenProperties, FS_CardinalityType DEF BranchSoFar, InOneLine
<1>2. PICK m \in 1..n : keys[i] = made[m].key /\ n - m <= 2 * (line - 1 - i)
  BY DEF BranchSoFar
<1>3. Evented(i) = i
  <2> DEFINE N == Len(file)
  <2>1. PICK g \in [0..N -> Nat] : Goes(g, N, i, StepUp) /\ Evented(i) = g[N]
    BY <1>1, EventedGoes
  <2> DEFINE S == {k \in 0..N : g[k] = i}
  <2>2. 0 \in S
    BY <1>1, <2>1 DEF Goes
  <2>3. ASSUME NEW k \in 1..N, k - 1 \in S PROVE k \in S
    <3>1. g[k - 1] = i /\ k \in 0..N
      BY <1>1, <2>3
    <3>2. StepUp[i] = i
      BY <1>1 DEF StepUp, Climbs
    <3>3. g[k] = StepUp[g[k - 1]]
      BY <2>1 DEF Goes
    <3>. QED
      BY <3>1, <3>2, <3>3
  <2>4. N \in 0..N
    BY <1>1
  <2>. HIDE DEF S, N
  <2>5. N \in S
    <3>1. N \in Nat
      BY <1>1 DEF N
    <3>. QED
      BY <2>2, <2>3, <2>4, <3>1, CountUp
  <2>. QED
    BY <2>1, <2>5 DEF S
<1>4. Behind(made[m].key) \in {made[k].key : k \in m..n}
  <2> DEFINE D == {made[k].key : k \in m..n}
  <2>1. made[m].key \in D
    BY <1>1
  <2>2. ASSUME NEW key \in D \cap DOMAIN inserted PROVE inserted[key] \in D
    <3>1. PICK k \in m..n : key = made[k].key
      BY <2>2
    <3>2. PICK l \in 1..n - 1 : key = made[l].key /\ inserted[key] = made[l + 1].key
      BY <2>2 DEF BranchSoFar
    <3>3. l = k
      <4>1. l \in 1..n /\ k \in 1..n
        BY <1>1
      <4>2. \A a, b \in 1..n : made[a].key = made[b].key => a = b
        BY DEF BranchSoFar, InOneLine
      <4>3. made[l].key = made[k].key
        BY <3>1, <3>2
      <4>. HIDE DEF n
      <4>. QED
        BY <4>1, <4>2, <4>3
    <3>4. l + 1 \in m..n
      BY <1>1, <3>3
    <3>. QED
      BY <3>2, <3>4
  <2>. HIDE DEF D
  <2>3. PICK g \in [0..Cardinality(DOMAIN inserted) + 1 -> D] :
           Behind(made[m].key) = g[Cardinality(DOMAIN inserted) + 1]
    BY <1>1, <2>1, <2>2, BehindGoes
  <2>4. Behind(made[m].key) \in D
    BY <1>1, <2>3
  <2>. QED
    BY <2>4 DEF D
<1>5. PICK k \in m..n : Behind(made[m].key) = made[k].key
  BY <1>4
<1>6. k \in 1..n /\ n - k <= 2 * (line - 1 - i)
  <2>1. line \in Nat
    BY <1>1
  <2>. QED
    BY <1>1, <1>2, <2>1
<1>. QED
  BY <1>2, <1>3, <1>5, <1>6 DEF Resolve

\* In one line, whatever was made before is above what was made last.
LEMMA LineAbove ==
    ASSUME InOneLine(made), NEW N \in Nat, NEW m \in 1..Len(made), Len(made) - m <= N
    PROVE  made[m].key \in Above(made, made[Len(made)].key, N)
<1> DEFINE n == Len(made)
           D == {made[i].key : i \in 1..n} \cup {NoKey}
<1>1. n \in Nat /\ DOMAIN made = 1..n /\ m \in Nat
  BY LenProperties DEF InOneLine
<1>2. \A i \in 1..n : ParentIn(made, made[i].key) = IF i = 1 THEN NoKey ELSE made[i - 1].key
  <2> SUFFICES ASSUME NEW i \in 1..n
               PROVE  ParentIn(made, made[i].key) = IF i = 1 THEN NoKey ELSE made[i - 1].key
    OBVIOUS
  <2> DEFINE c == CHOOSE j \in DOMAIN made : made[j].key = made[i].key
  <2>1. \E j \in DOMAIN made : made[j].key = made[i].key
    BY <1>1
  <2>2. c \in DOMAIN made /\ made[c].key = made[i].key
    BY <2>1
  <2>3. ParentIn(made, made[i].key) = made[c].parent
    BY <2>1 DEF ParentIn
  <2>. HIDE DEF c
  <2>4. c = i
    BY <1>1, <2>2 DEF InOneLine
  <2>. QED
    BY <2>3, <2>4 DEF InOneLine
<1>3. \A k \in D : ParentIn(made, k) \in D
  <2>1. ASSUME NEW k, k \in {made[i].key : i \in 1..n} PROVE ParentIn(made, k) \in D
    <3>1. PICK i \in 1..n : k = made[i].key
      BY <2>1
    <3>2. i # 1 => i - 1 \in 1..n
      BY <1>1
    <3>. QED
      BY <1>2, <3>1, <3>2
  <2>2. ASSUME NoKey \notin {made[i].key : i \in 1..n} PROVE ParentIn(made, NoKey) \in D
    BY <1>1, <2>2 DEF ParentIn
  <2>. QED
    BY <2>1, <2>2
<1>4. PICK g : WayUp(made, D, N, made[n].key, g)
  <2>1. made[n].key \in D
    BY <1>1
  <2>2. N \in Nat
    OBVIOUS
  <2>. HIDE DEF D, n
  <2>. QED
    BY <1>3, <2>1, <2>2, AboveGoes
<1> DEFINE d == n - m
           S == {k \in 0..d : g[k] = made[n - k].key}
<1>5. d \in Nat /\ d <= N
  BY <1>1
<1>6. 0 \in S
  BY <1>1, <1>4, <1>5 DEF Goes, WayUp
<1>7. ASSUME NEW k \in 1..d, k - 1 \in S PROVE k \in S
  <2>1. g[k - 1] = made[n - (k - 1)].key /\ n - (k - 1) \in 1..n /\ n - (k - 1) # 1 /\ (n - (k - 1)) - 1 = n - k
    BY <1>1, <1>7
  <2>2. g[k] = StepAbove(made, D)[g[k - 1]]
    <3>1. k \in 1..N
      BY <1>1, <1>5
    <3>. QED
      BY <1>4, <3>1 DEF Goes, WayUp
  <2>3. g[k - 1] \in D
    BY <2>1
  <2>4. g[k] = ParentIn(made, g[k - 1])
    <3>. HIDE DEF D
    <3>. QED
      BY <2>2, <2>3 DEF StepAbove
  <2>5. g[k] = made[n - k].key
    BY <1>2, <2>1, <2>4
  <2>. QED
    BY <1>5, <2>5
<1>8. d \in S
  <2>1. d \in 0..d
    BY <1>5
  <2>. HIDE DEF S, d
  <2>. QED
    BY <1>5, <1>6, <1>7, <2>1, CountUp
<1>9. g[d] = made[m].key
  BY <1>1, <1>8
<1>10. d \in 0..N
  BY <1>5
<1>. QED
  BY <1>4, <1>9, <1>10 DEF WayUp

-----------------------------------------------------------------------------
\* One event more in the line.
LEMMA LineGrows ==
    ASSUME NEW chain, InOneLine(chain), NEW key \in Nat \X Nat,
           \A i \in 1..Len(chain) : chain[i].key # key,
           NEW parent, parent = IF Len(chain) = 0 THEN NoKey ELSE chain[Len(chain)].key
    PROVE  LET more == Append(chain, TreeEvent(key, parent)) IN
           /\ InOneLine(more) /\ Len(more) = Len(chain) + 1 /\ more[Len(chain) + 1].key = key
           /\ \A i \in 1..Len(chain) : more[i] = chain[i]
<1> DEFINE n == Len(chain)
           more == Append(chain, TreeEvent(key, parent))
<1>1. n \in Nat /\ \A i \in 1..n : chain[i] \in TreeEventType /\ chain[i].key \in Nat \X Nat
  <2>1. chain \in Seq(TreeEventType)
    BY DEF InOneLine
  <2>2. n \in Nat /\ \A i \in 1..n : chain[i] \in TreeEventType
    BY <2>1, LenProperties, ElementOfSeq
  <2>. QED
    BY <2>2 DEF TreeEventType
<1>2. parent \in Nat \X Nat
  <2>1. n # 0 => n \in 1..n
    BY <1>1
  <2>. HIDE DEF n
  <2>2. NoKey \in Nat \X Nat
    BY DEF NoKey
  <2>. QED
    BY <1>1, <2>1, <2>2 DEF n
<1>3. TreeEvent(key, parent) \in TreeEventType
  BY <1>2 DEF TreeEvent, TreeEventType
<1>4. /\ more \in Seq(TreeEventType) /\ Len(more) = n + 1 /\ more[n + 1] = TreeEvent(key, parent)
      /\ \A i \in 1..n : more[i] = chain[i]
  BY <1>3, AppendProperties DEF InOneLine
<1>5. more[n + 1].key = key /\ more[n + 1].parent = parent
  BY <1>4 DEF TreeEvent
<1>. HIDE DEF n, more
<1>6. ASSUME NEW i \in 1..Len(more) PROVE more[i].parent = IF i = 1 THEN NoKey ELSE more[i - 1].key
  <2>1. CASE i \in 1..n
    <3>1. i # 1 => i - 1 \in 1..n
      BY <1>1, <2>1
    <3>2. chain[i].parent = IF i = 1 THEN NoKey ELSE chain[i - 1].key
      BY <2>1 DEF InOneLine, n
    <3>. QED
      BY <1>4, <2>1, <3>1, <3>2
  <2>2. CASE i = n + 1
    <3>1. i - 1 = n /\ (i # 1 => n \in 1..n) /\ (i = 1 <=> n = 0)
      BY <1>1, <2>2
    <3>. QED
      BY <1>4, <1>5, <2>2, <3>1 DEF n
  <2>. QED
    BY <1>1, <1>4, <2>1, <2>2
<1>7. ASSUME NEW i \in 1..Len(more), NEW j \in 1..Len(more), more[i].key = more[j].key PROVE i = j
  <2>1. (i \in 1..n \/ i = n + 1) /\ (j \in 1..n \/ j = n + 1)
    BY <1>1, <1>4
  <2>2. \A k \in 1..n : more[k].key = chain[k].key /\ chain[k].key # key
    BY <1>4 DEF n
  <2>3. \A a, b \in 1..n : chain[a].key = chain[b].key => a = b
    BY DEF InOneLine, n
  <2>. QED
    BY <1>5, <1>7, <2>1, <2>2, <2>3
<1>8. /\ InOneLine(more) /\ Len(more) = n + 1 /\ more[n + 1].key = key
      /\ \A i \in 1..n : more[i] = chain[i]
  BY <1>4, <1>5, <1>6, <1>7 DEF InOneLine
<1>. QED
  BY <1>8 DEF n, more

LEMMA StillNear ==
    ASSUME NEW n \in Nat, NEW more \in Nat, n <= more, more <= n + 2, NEW l \in Nat,
           NEW i \in 1..l - 1, NEW m \in 1..n, n - m <= 2 * (l - 1 - i)
    PROVE  m \in 1..more /\ more - m <= 2 * (l - i)
OBVIOUS

\* A record with one or two events is read.
LEMMA EventsRead ==
    ASSUME BranchSoFar, file \in Seq(RecordType), line \in 1..Len(file),
           file' = file, line' = line + 1, late' = late, head' = line,
           keys' = With(keys, line, EventKey(line, 1)), file[line].kind \notin {"quiet", "prompt"},
           InOneLine(made)', Len(made') \in {Len(made) + 1, Len(made) + 2},
           \A i \in 1..Len(made) : made'[i].key = made[i].key,
           \A i \in Len(made) + 1..Len(made') : made'[i].key \in {line} \X {0, 1},
           made'[Len(made')].key = EventKey(line, 1),
           \/ inserted' = inserted
           \/ /\ Len(made) > 0 /\ Len(made') = Len(made) + 1
              /\ inserted' = With(inserted, made[Len(made)].key, EventKey(line, 1))
    PROVE  BranchSoFar'
<1> DEFINE n == Len(made)
           more == Len(made')
<1>1. n \in Nat /\ line \in Nat /\ line > 0 /\ more \in {n + 1, n + 2} /\ (line + 1) - 1 = line
  BY ParentIsNat, LenProperties DEF BranchSoFar, InOneLine
<1>2. 1..line = (1..line - 1) \cup {line} /\ line \notin 1..line - 1
  BY <1>1
<1>3. 1..more = (1..n) \cup (n + 1..more) /\ more \in 1..more /\ more \in Nat
  BY <1>1
<1>4. \A i \in 1..more : made'[i].key \in (1..line) \X {0, 1}
  <2>1. \A i \in 1..n : made'[i].key \in (1..line - 1) \X {0, 1}
    BY DEF BranchSoFar
  <2>2. \A i \in n + 1..more : made'[i].key \in {line} \X {0, 1}
    OBVIOUS
  <2>. HIDE DEF n, more
  <2>. QED
    BY <1>2, <1>3, <2>1, <2>2
<1>5. DOMAIN keys' = {i \in 1..line : file[i].kind \notin {"quiet", "prompt"}}
  <2>1. DOMAIN keys' = DOMAIN keys \cup {line}
    BY DEF With
  <2>2. DOMAIN keys = {i \in 1..line - 1 : file[i].kind \notin {"quiet", "prompt"}}
    BY DEF BranchSoFar
  <2>. QED
    BY <1>2, <2>1, <2>2
<1>6. ASSUME NEW i \in DOMAIN keys' PROVE \E m \in 1..more : keys'[i] = made'[m].key /\ more - m <= 2 * (line - i)
  <2>1. CASE i = line
    <3>1. keys'[i] = made'[more].key
      BY <2>1 DEF With
    <3>2. more - more <= 2 * (line - i)
      BY <1>1, <2>1
    <3>. QED
      BY <1>3, <3>1, <3>2
  <2>2. CASE i # line
    <3>1. i \in DOMAIN keys /\ keys'[i] = keys[i] /\ i \in 1..line - 1
      BY <1>5, <1>2, <2>2 DEF With, BranchSoFar
    <3>2. PICK m \in 1..n : keys[i] = made[m].key /\ n - m <= 2 * (line - 1 - i)
      BY <3>1 DEF BranchSoFar
    <3>3. more <= n + 2 /\ n <= more
      BY <1>1
    <3>4. m \in 1..more /\ more - m <= 2 * (line - i)
      <4>. HIDE DEF n, more
      <4>. QED
        BY <1>1, <1>3, <3>1, <3>2, <3>3, StillNear
    <3>. QED
      BY <3>1, <3>2, <3>4
  <2>. QED
    BY <2>1, <2>2
<1>7. IsFiniteSet(DOMAIN inserted')
  <2>1. IsFiniteSet(DOMAIN inserted)
    BY DEF BranchSoFar
  <2>2. \A x : IsFiniteSet(DOMAIN inserted \cup {x})
    BY <2>1, FS_AddElement
  <2>3. CASE inserted' = inserted
    BY <2>1, <2>3
  <2>4. CASE inserted' = With(inserted, made[n].key, EventKey(line, 1))
    <3>1. DOMAIN inserted' = DOMAIN inserted \cup {made[n].key}
      BY <2>4 DEF With
    <3>. QED
      BY <2>2, <3>1
  <2>. QED
    BY <2>3, <2>4
<1>8. ASSUME NEW key \in DOMAIN inserted'
      PROVE  \E m \in 1..more - 1 : key = made'[m].key /\ inserted'[key] = made'[m + 1].key
  <2>1. ASSUME key \in DOMAIN inserted, inserted'[key] = inserted[key]
        PROVE  \E m \in 1..more - 1 : key = made'[m].key /\ inserted'[key] = made'[m + 1].key
    <3>1. PICK m \in 1..n - 1 : key = made[m].key /\ inserted[key] = made[m + 1].key
      BY <2>1 DEF BranchSoFar
    <3>2. m \in 1..n /\ m + 1 \in 1..n /\ m \in 1..more - 1
      BY <1>1
    <3>. QED
      BY <2>1, <3>1, <3>2
  <2>2. ASSUME n > 0, more = n + 1, key = made[n].key, inserted'[key] = EventKey(line, 1)
        PROVE  \E m \in 1..more - 1 : key = made'[m].key /\ inserted'[key] = made'[m + 1].key
    <3>1. n \in 1..n /\ n \in 1..more - 1
      BY <1>1, <2>2
    <3>2. key = made'[n].key
      BY <2>2, <3>1
    <3>3. inserted'[key] = made'[n + 1].key
      BY <2>2
    <3>. QED
      BY <3>1, <3>2, <3>3
  <2>3. CASE inserted' = inserted
    BY <2>1, <2>3
  <2>4. CASE n > 0 /\ more = n + 1 /\ inserted' = With(inserted, made[n].key, EventKey(line, 1))
    <3>1. CASE key = made[n].key
      <4>1. inserted'[key] = EventKey(line, 1)
        BY <2>4, <3>1 DEF With
      <4>. QED
        BY <2>2, <2>4, <3>1, <4>1
    <3>2. CASE key # made[n].key
      <4>1. key \in DOMAIN inserted /\ inserted'[key] = inserted[key]
        BY <2>4, <3>2 DEF With
      <4>. QED
        BY <2>1, <4>1
    <3>. QED
      BY <3>1, <3>2
  <2>. QED
    BY <2>3, <2>4
<1>9. /\ line \in 1..line /\ file[line].kind # "prompt" /\ \A i \in line + 1..line : file[i].kind = "prompt"
      /\ line \in DOMAIN keys' /\ line <= line /\ \A i \in line + 1..line : file[i].kind \in {"quiet", "prompt"}
      /\ keys'[line] = made'[more].key /\ \A k \in more..more - 1 : made'[k].key \in DOMAIN inserted'
  <2>1. keys'[line] = made'[more].key
    BY DEF With
  <2>. QED
    BY <1>1, <1>3, <1>5, <2>1
<1>. HIDE DEF n
<1>10. late = Nothing
  BY DEF BranchSoFar
<1>11. line' - 1 = line /\ line' > 1 /\ ~(line' = 1)
  BY <1>1
<1>12. \E e \in DOMAIN keys' : \E m \in 1..more :
          /\ e <= line /\ \A i \in e + 1..line : file[i].kind \in {"quiet", "prompt"}
          /\ keys'[e] = made'[m].key /\ \A k \in m..more - 1 : made'[k].key \in DOMAIN inserted'
  BY <1>3, <1>9
<1>. QED
  BY <1>4, <1>5, <1>6, <1>7, <1>8, <1>9, <1>10, <1>11, <1>12 DEF BranchSoFar

LEMMA NewKeys ==
    ASSUME BranchSoFar, line \in Nat
    PROVE  /\ Len(made) \in Nat
           /\ \A i \in 1..Len(made) : made[i].key # NoKey
           /\ \A p \in {0, 1} : /\ EventKey(line, p) \in Nat \X Nat
                                /\ \A i \in 1..Len(made) : made[i].key # EventKey(line, p)
<1>1. Len(made) \in Nat
  BY LenProperties DEF BranchSoFar, InOneLine
<1>2. ASSUME NEW i \in 1..Len(made)
      PROVE  made[i].key # NoKey /\ \A p \in {0, 1} : made[i].key # EventKey(line, p)
  <2>1. made[i].key \in (1..line - 1) \X {0, 1}
    BY DEF BranchSoFar
  <2>2. PICK l \in 1..line - 1, q \in {0, 1} : made[i].key = <<l, q>>
    BY <2>1
  <2>3. l # 0 /\ l # line
    OBVIOUS
  <2>. QED
    BY <2>2, <2>3 DEF NoKey, EventKey
<1>. QED
  BY <1>1, <1>2 DEF EventKey

LEMMA OneEventRead ==
    ASSUME BranchSoFar, file \in Seq(RecordType), line \in 1..Len(file),
           file' = file, line' = line + 1, late' = late, head' = line,
           keys' = With(keys, line, EventKey(line, 1)), file[line].kind \notin {"quiet", "prompt"},
           NEW parent, parent = IF Len(made) = 0 THEN NoKey ELSE made[Len(made)].key,
           made' = Append(made, TreeEvent(EventKey(line, 1), parent)),
           \/ inserted' = inserted
           \/ Len(made) > 0 /\ inserted' = With(inserted, made[Len(made)].key, EventKey(line, 1))
    PROVE  BranchSoFar'
<1>1. Len(made) \in Nat /\ line \in Nat /\ InOneLine(made)
  BY LenProperties, ParentIsNat DEF BranchSoFar, InOneLine
<1>2. EventKey(line, 1) \in Nat \X Nat /\ \A i \in 1..Len(made) : made[i].key # EventKey(line, 1)
  BY <1>1, NewKeys
<1>3. /\ InOneLine(made') /\ Len(made') = Len(made) + 1 /\ made'[Len(made) + 1].key = EventKey(line, 1)
      /\ \A i \in 1..Len(made) : made'[i] = made[i]
  BY <1>1, <1>2, LineGrows
<1>4. InOneLine(made)'
  BY <1>3 DEF InOneLine
<1>5. /\ \A i \in Len(made) + 1..Len(made') : made'[i].key \in {line} \X {0, 1}
      /\ made'[Len(made')].key = EventKey(line, 1)
  <2>1. \A i \in Len(made) + 1..Len(made') : i = Len(made) + 1
    BY <1>1, <1>3
  <2>2. EventKey(line, 1) \in {line} \X {0, 1}
    BY DEF EventKey
  <2>. QED
    BY <1>3, <2>1, <2>2
<1>6. Len(made') \in {Len(made) + 1, Len(made) + 2} /\ \A i \in 1..Len(made) : made'[i].key = made[i].key
  BY <1>3
<1>7. \/ inserted' = inserted
      \/ /\ Len(made) > 0 /\ Len(made') = Len(made) + 1
         /\ inserted' = With(inserted, made[Len(made)].key, EventKey(line, 1))
  BY <1>3
<1>. QED
  BY <1>4, <1>5, <1>6, <1>7, EventsRead

\* A record that is no result names the head.
LEMMA NamesHead ==
    ASSUME file \in Seq(RecordType), Conversation, BranchSoFar, line \in 2..Len(file),
           file[line].kind \notin {"prompt", "result"}
    PROVE  file[line].parent = head
<1>1. Len(file) \in Nat /\ line \in Nat /\ line > 1
  BY ParentIsNat
<1>2. /\ file[line].parent \in 1..line - 1 /\ file[file[line].parent].kind # "prompt"
      /\ \A j \in 1..line - 1 : file[j].kind # "prompt" => j <= file[line].parent
  BY NamedBefore
<1>3. /\ head \in 1..line - 1 /\ file[head].kind # "prompt"
      /\ \A i \in head + 1..line - 1 : file[i].kind = "prompt"
  BY <1>1 DEF BranchSoFar
<1>4. head <= file[line].parent
  BY <1>2, <1>3
<1>5. ~(file[line].parent \in head + 1..line - 1)
  BY <1>2, <1>3
<1>. HIDE DEF BranchSoFar
<1>. QED
  BY <1>1, <1>2, <1>3, <1>4, <1>5

\* What a record that is no result resolves its parent to.
LEMMA NextResolves ==
    ASSUME file \in Seq(RecordType), Conversation, BranchSoFar, line \in 1..Len(file),
           file[line].kind \notin {"prompt", "result"}
    PROVE  /\ Resolve(file[line].parent) = IF Len(made) = 0 THEN NoKey ELSE made[Len(made)].key
           /\ Resolve(file[line].parent) = NoKey => file[line].parent = 0
<1>1. Len(file) \in Nat /\ line \in Nat /\ Len(made) \in Nat
  BY ParentIsNat, NewKeys
<1>2. CASE line = 1
  <2>1. line \in DOMAIN file /\ file[line].parent = 0
    BY <1>1, <1>2, ParentIsNat DEF Conversation
  <2>2. made = <<>> /\ DOMAIN keys = {i \in 1..line - 1 : file[i].kind \notin {"quiet", "prompt"}}
    BY <1>2 DEF BranchSoFar
  <2>3. DOMAIN keys = {}
    BY <1>2, <2>2
  <2>. QED
    BY <2>1, <2>2, <2>3 DEF Resolve
<1>3. CASE line # 1
  <2>1. line \in 2..Len(file) /\ line \in 2..Len(file) + 1
    BY <1>1, <1>3
  <2>2. file[line].parent = head
    BY <2>1, NamesHead
  <2>3. Len(made) > 0 /\ Resolve(head) = made[Len(made)].key
    BY <2>1, HeadResolves
  <2>4. Len(made) \in 1..Len(made)
    BY <1>1, <2>3
  <2>5. made[Len(made)].key # NoKey
    BY <1>1, <2>4, NewKeys
  <2>. QED
    BY <2>2, <2>3, <2>5
<1>. QED
  BY <1>2, <1>3

-----------------------------------------------------------------------------
LEMMA TextStep ==
    ASSUME file \in Seq(RecordType), Conversation, BranchSoFar, line \in 1..Len(file), Text \/ Note
    PROVE  BranchSoFar'
<1> DEFINE parent == Resolve(file[line].parent)
<1>1. file[line].kind \in {"text", "note"}
  BY DEF Text, Note, Record
<1>2. parent = (IF Len(made) = 0 THEN NoKey ELSE made[Len(made)].key) /\ (parent = NoKey => file[line].parent = 0)
  BY <1>1, NextResolves
<1>3. made' = Append(made, TreeEvent(EventKey(line, 1), parent))
  BY DEF Text, Note, Record, Placed
<1>4. /\ file' = file /\ line' = line + 1 /\ head' = line /\ inserted' = inserted
      /\ keys' = With(keys, line, EventKey(line, 1))
  BY DEF Text, Note, Placed
<1>5. late' = late
  BY <1>2 DEF Text, Note, Placed, Record
<1>6. file[line].kind \notin {"quiet", "prompt"}
  BY <1>1
<1>. HIDE DEF parent
<1>. QED
  BY <1>2, <1>3, <1>4, <1>5, <1>6, OneEventRead

LEMMA EffortStep ==
    ASSUME file \in Seq(RecordType), Conversation, BranchSoFar, line \in 1..Len(file), Effort
    PROVE  BranchSoFar'
<1> DEFINE parent == Resolve(file[line].parent)
           a == TreeEvent(EventKey(line, 0), parent)
           b == TreeEvent(EventKey(line, 1), EventKey(line, 0))
           one == Append(made, a)
<1>1. file[line].kind = "effort" /\ Len(made) \in Nat /\ line \in Nat /\ InOneLine(made)
  BY ParentIsNat, NewKeys DEF Effort, Record, BranchSoFar
<1>2. parent = IF Len(made) = 0 THEN NoKey ELSE made[Len(made)].key
  BY <1>1, NextResolves
<1>3. made' = made \o <<a, b>>
  BY DEF Effort, Record
<1>4. made' = Append(one, b)
  <2>1. made \in Seq(TreeEventType)
    BY <1>1 DEF InOneLine
  <2>. HIDE DEF a, b
  <2>. QED
    BY <1>3, <2>1
<1>5. \A p \in {0, 1} : EventKey(line, p) \in Nat \X Nat /\ \A i \in 1..Len(made) : made[i].key # EventKey(line, p)
  BY <1>1, NewKeys
<1>6. /\ InOneLine(one) /\ Len(one) = Len(made) + 1 /\ one[Len(made) + 1].key = EventKey(line, 0)
      /\ \A i \in 1..Len(made) : one[i] = made[i]
  <2>. HIDE DEF parent
  <2>. QED
    BY <1>1, <1>2, <1>5, LineGrows
<1>7. \A i \in 1..Len(one) : one[i].key # EventKey(line, 1)
  <2>1. EventKey(line, 0) # EventKey(line, 1)
    BY DEF EventKey
  <2>2. \A i \in 1..Len(one) : i \in 1..Len(made) \/ i = Len(made) + 1
    BY <1>1, <1>6
  <2>. HIDE DEF one
  <2>. QED
    BY <1>5, <1>6, <2>1, <2>2
<1>8. /\ InOneLine(made') /\ Len(made') = Len(one) + 1 /\ made'[Len(one) + 1].key = EventKey(line, 1)
      /\ \A i \in 1..Len(one) : made'[i] = one[i]
  <2>1. EventKey(line, 0) = IF Len(one) = 0 THEN NoKey ELSE one[Len(one)].key
    BY <1>1, <1>6
  <2>2. EventKey(line, 1) \in Nat \X Nat
    BY <1>5
  <2>. HIDE DEF one
  <2>. QED
    BY <1>4, <1>6, <1>7, <2>1, <2>2, LineGrows
<1>. HIDE DEF one, parent
<1>9. InOneLine(made)'
  BY <1>8 DEF InOneLine
<1>10. Len(made') = Len(made) + 2 /\ Len(one) + 1 = Len(made) + 2
  BY <1>1, <1>6, <1>8
<1>11. \A i \in 1..Len(made) : made'[i].key = made[i].key
  <2>1. \A i \in 1..Len(made) : i \in 1..Len(one)
    BY <1>1, <1>6
  <2>. QED
    BY <1>6, <1>8, <2>1
<1>12. \A i \in Len(made) + 1..Len(made') : made'[i].key \in {line} \X {0, 1}
  <2>1. \A i \in Len(made) + 1..Len(made') : i = Len(made) + 1 \/ i = Len(one) + 1
    BY <1>1, <1>6, <1>10
  <2>2. Len(made) + 1 \in 1..Len(one)
    BY <1>1, <1>6
  <2>3. \A p \in {0, 1} : EventKey(line, p) \in {line} \X {0, 1}
    BY DEF EventKey
  <2>. QED
    BY <1>6, <1>8, <2>1, <2>2, <2>3
<1>13. made'[Len(made')].key = EventKey(line, 1)
  BY <1>8
<1>14. /\ file' = file /\ line' = line + 1 /\ head' = line /\ inserted' = inserted /\ late' = late
       /\ keys' = With(keys, line, EventKey(line, 1)) /\ file[line].kind \notin {"quiet", "prompt"}
  BY <1>1 DEF Effort
<1>15. Len(made') \in {Len(made) + 1, Len(made) + 2}
  BY <1>10
<1>. QED
  BY <1>9, <1>11, <1>12, <1>13, <1>14, <1>15, EventsRead

LEMMA ToolResultStep ==
    ASSUME file \in Seq(RecordType), Conversation, ResultsNear, BranchSoFar, line \in 1..Len(file), ToolResult
    PROVE  BranchSoFar'
<1> DEFINE call == file[line].parent
           parent == Resolve(call)
           tail == Resolve(head)
<1>1. /\ file[line].kind = "result" /\ Len(file) \in Nat /\ Len(made) \in Nat /\ line \in Nat
      /\ line \in DOMAIN file /\ DOMAIN file = 1..Len(file)
  BY ParentIsNat, NewKeys DEF ToolResult, Record
<1>2. line \in 2..Len(file)
  BY <1>1 DEF Conversation
<1>3. call \in 1..line - 1 /\ file[call].kind \in {"text", "effort"}
  BY <1>1, <1>2, NamedBefore
<1>4. call \in DOMAIN keys
  BY <1>3 DEF BranchSoFar
<1>5. PICK m \in 1..Len(made) : parent = made[m].key /\ Len(made) - m <= 2 * (line - 1 - call)
  BY <1>1, <1>4, NamedResolves
<1>6. Len(made) > 0 /\ tail = made[Len(made)].key
  BY <1>1, <1>2, HeadResolves
<1>7. Len(made) \in 1..Len(made) /\ InOneLine(made)
  BY <1>1, <1>6 DEF BranchSoFar
<1>8. parent # NoKey /\ tail # NoKey
  BY <1>1, <1>5, <1>6, <1>7, NewKeys
<1>9. tail # parent => IsAncestor(parent, tail)
  <2>1. 2 * (line - call) <= MaxClimb /\ MaxClimb \in Nat
    BY <1>1, TreeConstants DEF ResultsNear
  <2>2. Len(made) - m <= MaxClimb - 1 /\ MaxClimb - 1 \in Nat
    <3>1. call \in Nat /\ line - call > 0 /\ m \in Nat
      BY <1>1, <1>3
    <3>. HIDE DEF call
    <3>. QED
      BY <1>1, <1>5, <2>1, <3>1
  <2>3. made[m].key \in Above(made, made[Len(made)].key, MaxClimb - 1)
    BY <1>7, <2>2, LineAbove
  <2>. HIDE DEF parent, tail
  <2>. QED
    BY <1>5, <1>6, <1>8, <2>3 DEF IsAncestor
<1>10. \/ Placed(tail) /\ inserted' = Put(tail, EventKey(line, 1))
       \/ parent = tail /\ Placed(parent) /\ inserted' = inserted
  <2>1. IF parent # NoKey /\ Follows(parent, tail)
        THEN Placed(tail) /\ inserted' = Put(tail, EventKey(line, 1))
        ELSE Placed(parent) /\ UNCHANGED inserted
    BY DEF ToolResult, Record
  <2>2. tail # parent => Follows(parent, tail)
    BY <1>9 DEF Follows
  <2>. HIDE DEF parent, tail
  <2>. QED
    BY <1>8, <2>1, <2>2
<1>11. Placed(tail)
  <2>. HIDE DEF parent, tail
  <2>. QED
    BY <1>10
<1>12. inserted' = inserted \/ inserted' = With(inserted, made[Len(made)].key, EventKey(line, 1))
  <2>. HIDE DEF parent, tail
  <2>. QED
    BY <1>6, <1>8, <1>10 DEF Put
<1>13. /\ file' = file /\ line' = line + 1 /\ head' = line /\ late' = late
       /\ keys' = With(keys, line, EventKey(line, 1))
       /\ made' = Append(made, TreeEvent(EventKey(line, 1), tail))
  <2>. HIDE DEF tail
  <2>. QED
    BY <1>8, <1>11 DEF Placed
<1>14. file[line].kind \notin {"quiet", "prompt"} /\ tail = IF Len(made) = 0 THEN NoKey ELSE made[Len(made)].key
  BY <1>1, <1>6
<1>. HIDE DEF tail
<1>. QED
  BY <1>6, <1>12, <1>13, <1>14, OneEventRead

\* Records that change neither the keys nor the events but for prompts behind the head.
LEMMA QuietStep ==
    ASSUME file \in Seq(RecordType), Conversation, BranchSoFar, line \in 1..Len(file), Quiet
    PROVE  BranchSoFar'
<1>1. /\ file[line].kind = "quiet" /\ Len(file) \in Nat /\ Len(made) \in Nat /\ line \in Nat
      /\ line \in DOMAIN file
  BY ParentIsNat, NewKeys DEF Quiet, Record
<1>2. line > 1
  BY <1>1 DEF Conversation
<1>3. /\ file' = file /\ made' = made /\ keys' = keys /\ inserted' = inserted /\ late' = late
      /\ line' = line + 1 /\ head' = line
  BY DEF Quiet
<1>4. (line + 1) - 1 = line /\ 1..line = (1..line - 1) \cup {line} /\ ~(line + 1 = 1)
  BY <1>1
<1>5. InOneLine(made)'
  BY <1>3 DEF InOneLine, BranchSoFar
<1>6. \A i \in 1..Len(made) : made[i].key \in (1..line) \X {0, 1}
  BY <1>4 DEF BranchSoFar
<1>7. DOMAIN keys = {i \in 1..line : file[i].kind \notin {"quiet", "prompt"}}
  BY <1>1, <1>4 DEF BranchSoFar
<1>8. \A i \in DOMAIN keys : \E m \in 1..Len(made) : keys[i] = made[m].key /\ Len(made) - m <= 2 * (line - i)
  <2> SUFFICES ASSUME NEW i \in DOMAIN keys
               PROVE  \E m \in 1..Len(made) : keys[i] = made[m].key /\ Len(made) - m <= 2 * (line - i)
    OBVIOUS
  <2>1. i \in 1..line - 1
    BY DEF BranchSoFar
  <2>2. PICK m \in 1..Len(made) : keys[i] = made[m].key /\ Len(made) - m <= 2 * (line - 1 - i)
    BY DEF BranchSoFar
  <2>3. Len(made) - m <= 2 * (line - i)
    BY <1>1, <2>1, <2>2, StillNear
  <2>. QED
    BY <2>2, <2>3
<1>9. \E e \in DOMAIN keys : \E m \in 1..Len(made) :
         /\ e <= line /\ \A i \in e + 1..line : file[i].kind \in {"quiet", "prompt"}
         /\ keys[e] = made[m].key /\ \A k \in m..Len(made) - 1 : made[k].key \in DOMAIN inserted
  <2>1. PICK e \in DOMAIN keys, m \in 1..Len(made) :
           /\ e <= head /\ \A i \in e + 1..line - 1 : file[i].kind \in {"quiet", "prompt"}
           /\ keys[e] = made[m].key /\ \A k \in m..Len(made) - 1 : made[k].key \in DOMAIN inserted
    BY <1>2 DEF BranchSoFar
  <2>2. e \in 1..line
    BY <1>7
  <2>3. \A i \in e + 1..line : i \in e + 1..line - 1 \/ i = line
    BY <1>1, <2>2
  <2>. QED
    BY <1>1, <2>1, <2>2, <2>3
<1>10. line \in 1..line /\ file[line].kind # "prompt" /\ \A i \in line + 1..line : file[i].kind = "prompt"
  BY <1>1, <1>2
<1>11. /\ late = Nothing /\ IsFiniteSet(DOMAIN inserted)
       /\ \A key \in DOMAIN inserted : \E m \in 1..Len(made) - 1 : key = made[m].key /\ inserted[key] = made[m + 1].key
  BY DEF BranchSoFar
<1>12. line' - 1 = line /\ line' > 1 /\ ~(line' = 1)
  BY <1>1, <1>2, <1>3
<1>13. \E e \in DOMAIN keys' : \E m \in 1..Len(made') :
          /\ e <= head' /\ \A i \in e + 1..line' - 1 : file'[i].kind \in {"quiet", "prompt"}
          /\ keys'[e] = made'[m].key /\ \A k \in m..Len(made') - 1 : made'[k].key \in DOMAIN inserted'
  <2>. QED
    BY <1>3, <1>9, <1>12
<1>14. /\ \A i \in 1..Len(made') : made'[i].key \in (1..line' - 1) \X {0, 1}
       /\ DOMAIN keys' = {i \in 1..line' - 1 : file'[i].kind \notin {"quiet", "prompt"}}
  BY <1>3, <1>6, <1>7, <1>12
<1>15. \A i \in DOMAIN keys' : \E m \in 1..Len(made') :
          keys'[i] = made'[m].key /\ Len(made') - m <= 2 * (line' - 1 - i)
  BY <1>3, <1>8, <1>12
<1>16. /\ late' = Nothing /\ IsFiniteSet(DOMAIN inserted')
       /\ \A key \in DOMAIN inserted' : \E m \in 1..Len(made') - 1 :
             key = made'[m].key /\ inserted'[key] = made'[m + 1].key
  BY <1>3, <1>11
<1>17. /\ head' \in 1..line' - 1 /\ file'[head'].kind # "prompt"
       /\ \A i \in head' + 1..line' - 1 : file'[i].kind = "prompt"
  BY <1>3, <1>10, <1>12
<1>. QED
  BY <1>5, <1>12, <1>13, <1>14, <1>15, <1>16, <1>17 DEF BranchSoFar

LEMMA PromptStep ==
    ASSUME file \in Seq(RecordType), Conversation, BranchSoFar, line \in 1..Len(file), Prompt
    PROVE  BranchSoFar'
<1> DEFINE n == Len(made)
           key == EventKey(line, 1)
<1>1. file[line].kind = "prompt" /\ Len(file) \in Nat /\ n \in Nat /\ line \in Nat /\ line \in DOMAIN file
  BY ParentIsNat, NewKeys DEF Prompt, Record
<1>2. line > 1 /\ line \in 2..Len(file) + 1
  BY <1>1 DEF Conversation
<1>3. n > 0 /\ Resolve(head) = made[n].key
  BY <1>2, HeadResolves
<1>4. /\ n \in 1..n /\ made[n].key # NoKey /\ key \in Nat \X Nat /\ InOneLine(made)
      /\ \A i \in 1..n : made[i].key # key
  <2>1. n \in 1..n /\ InOneLine(made)
    BY <1>1, <1>3 DEF BranchSoFar
  <2>2. 1 \in {0, 1}
    OBVIOUS
  <2>. QED
    BY <1>1, <2>1, <2>2, NewKeys
<1>5. /\ made' = Append(made, TreeEvent(key, made[n].key)) /\ inserted' = With(inserted, made[n].key, key)
      /\ file' = file /\ keys' = keys /\ late' = late /\ line' = line + 1 /\ head' = head
  BY <1>3, <1>4 DEF Prompt, PutPrompt, Put
<1>6. /\ InOneLine(made') /\ Len(made') = n + 1 /\ made'[n + 1].key = key
      /\ \A i \in 1..n : made'[i] = made[i]
  <2>1. made[n].key = IF Len(made) = 0 THEN NoKey ELSE made[Len(made)].key
    BY <1>3
  <2>. HIDE DEF key
  <2>. QED
    BY <1>4, <1>5, <2>1, LineGrows
<1>7. (line + 1) - 1 = line /\ 1..line = (1..line - 1) \cup {line} /\ ~(line + 1 = 1) /\ line + 1 > 1
  BY <1>1
<1>8. InOneLine(made)'
  BY <1>6 DEF InOneLine
<1>9. \A i \in 1..n + 1 : i \in 1..n \/ i = n + 1
  BY <1>1
<1>10. \A i \in 1..Len(made') : made'[i].key \in (1..line) \X {0, 1}
  <2>1. \A i \in 1..n : made[i].key \in (1..line) \X {0, 1}
    BY <1>7 DEF BranchSoFar
  <2>2. key \in (1..line) \X {0, 1}
    BY <1>7 DEF EventKey
  <2>. HIDE DEF n, key
  <2>. QED
    BY <1>6, <1>9, <2>1, <2>2
<1>11. DOMAIN keys = {i \in 1..line : file[i].kind \notin {"quiet", "prompt"}}
  BY <1>1, <1>7 DEF BranchSoFar
<1>12. \A i \in DOMAIN keys : \E m \in 1..Len(made') : keys[i] = made'[m].key /\ Len(made') - m <= 2 * (line - i)
  <2> SUFFICES ASSUME NEW i \in DOMAIN keys
               PROVE  \E m \in 1..Len(made') : keys[i] = made'[m].key /\ Len(made') - m <= 2 * (line - i)
    OBVIOUS
  <2>1. i \in 1..line - 1
    BY DEF BranchSoFar
  <2>2. PICK m \in 1..n : keys[i] = made[m].key /\ n - m <= 2 * (line - 1 - i)
    BY DEF BranchSoFar
  <2>3. Len(made') \in Nat /\ Len(made') <= n + 2 /\ n <= Len(made')
    BY <1>1, <1>6
  <2>4. m \in 1..Len(made') /\ Len(made') - m <= 2 * (line - i)
    <3>. HIDE DEF n
    <3>. QED
      BY <1>1, <2>1, <2>2, <2>3, StillNear
  <2>. QED
    BY <1>6, <2>2, <2>4
<1>13. IsFiniteSet(DOMAIN inserted') /\ DOMAIN inserted' = DOMAIN inserted \cup {made[n].key}
  <2>1. DOMAIN inserted' = DOMAIN inserted \cup {made[n].key}
    BY <1>5 DEF With
  <2>2. IsFiniteSet(DOMAIN inserted)
    BY DEF BranchSoFar
  <2>. QED
    BY <2>1, <2>2, FS_AddElement
<1>14. ASSUME NEW k \in DOMAIN inserted'
       PROVE  \E m \in 1..Len(made') - 1 : k = made'[m].key /\ inserted'[k] = made'[m + 1].key
  <2>1. CASE k = made[n].key
    <3>1. inserted'[k] = key
      BY <1>5, <2>1 DEF With
    <3>2. n \in 1..Len(made') - 1
      BY <1>1, <1>3, <1>6
    <3>. QED
      BY <1>4, <1>6, <2>1, <3>1, <3>2
  <2>2. CASE k # made[n].key
    <3>1. k \in DOMAIN inserted /\ inserted'[k] = inserted[k]
      BY <1>5, <1>13, <2>2 DEF With
    <3>2. PICK m \in 1..n - 1 : k = made[m].key /\ inserted[k] = made[m + 1].key
      BY <3>1 DEF BranchSoFar
    <3>3. m \in 1..n /\ m + 1 \in 1..n /\ m \in 1..Len(made') - 1
      BY <1>1, <1>6
    <3>. QED
      BY <1>6, <3>1, <3>2, <3>3
  <2>. QED
    BY <2>1, <2>2
<1>15. \E e \in DOMAIN keys : \E m \in 1..Len(made') :
          /\ e <= head /\ \A i \in e + 1..line : file[i].kind \in {"quiet", "prompt"}
          /\ keys[e] = made'[m].key /\ \A k \in m..Len(made') - 1 : made'[k].key \in DOMAIN inserted'
  <2>1. PICK e \in DOMAIN keys, m \in 1..n :
           /\ e <= head /\ \A i \in e + 1..line - 1 : file[i].kind \in {"quiet", "prompt"}
           /\ keys[e] = made[m].key /\ \A k \in m..n - 1 : made[k].key \in DOMAIN inserted
    BY <1>2 DEF BranchSoFar
  <2>2. e \in 1..line
    BY <1>11
  <2>3. \A i \in e + 1..line : i \in e + 1..line - 1 \/ i = line
    BY <1>1, <2>2
  <2>4. m \in 1..Len(made') /\ made'[m] = made[m]
    BY <1>1, <1>6
  <2>5. ASSUME NEW k \in m..Len(made') - 1 PROVE made'[k].key \in DOMAIN inserted'
    <3>1. k \in 1..n /\ (k \in m..n - 1 \/ k = n)
      BY <1>1, <1>6
    <3>. QED
      BY <1>6, <1>13, <2>1, <3>1
  <2>. QED
    BY <1>1, <2>1, <2>2, <2>3, <2>4, <2>5
<1>16. head \in 1..line /\ file[head].kind # "prompt" /\ \A i \in head + 1..line : file[i].kind = "prompt"
  <2>1. /\ head \in 1..line - 1 /\ file[head].kind # "prompt"
        /\ \A i \in head + 1..line - 1 : file[i].kind = "prompt"
    BY <1>2 DEF BranchSoFar
  <2>2. \A i \in head + 1..line : i \in head + 1..line - 1 \/ i = line
    BY <1>1, <2>1
  <2>. QED
    BY <1>1, <2>1, <2>2
<1>17. late = Nothing
  BY DEF BranchSoFar
<1>18. line' - 1 = line /\ line' > 1 /\ ~(line' = 1)
  BY <1>1, <1>2, <1>5
<1>19. /\ file' = file /\ keys' = keys /\ late' = late /\ head' = head
  BY <1>5
<1>. QED
  BY <1>8, <1>10, <1>11, <1>12, <1>13, <1>14, <1>15, <1>16, <1>17, <1>18, <1>19 DEF BranchSoFar

LEMMA BranchSoFarInit == TreeInit /\ Conversation => BranchSoFar
<1> SUFFICES ASSUME TreeInit, Conversation PROVE BranchSoFar
  OBVIOUS
<1>1. /\ line = 1 /\ keys = Nothing /\ inserted = Nothing /\ made = <<>> /\ head = 0 /\ late = Nothing
  BY DEF TreeInit, NothingRead
<1>2. DOMAIN Nothing = {} /\ 1..line - 1 = {} /\ Len(made) = 0 /\ made \in Seq(TreeEventType)
  BY <1>1 DEF Nothing
<1>3. InOneLine(made)
  BY <1>2 DEF InOneLine
<1>4. IsFiniteSet(DOMAIN inserted)
  BY <1>1, <1>2, FS_EmptySet
<1>. QED
  BY <1>1, <1>2, <1>3, <1>4 DEF BranchSoFar

LEMMA BranchInvInit == TreeInit => BranchInv
<1> SUFFICES ASSUME TreeInit PROVE BranchInv
  OBVIOUS
<1>1. file \in Seq(RecordType)
  BY TreeConstants DEF TreeInit, RecordType
<1>2. line \in 1..Len(file) + 1
  BY <1>1, ParentIsNat DEF TreeInit, NothingRead
<1>. QED
  BY <1>1, <1>2, BranchSoFarInit DEF BranchInv

LEMMA Unmoved ==
    ASSUME BranchSoFar, UNCHANGED <<file, line, keys, inserted, made, head, late>>
    PROVE  BranchSoFar'
<1>1. InOneLine(made)'
  BY DEF BranchSoFar, InOneLine
<1>2. /\ \A i \in 1..Len(made') : made'[i].key \in (1..line' - 1) \X {0, 1}
      /\ late' = Nothing
      /\ DOMAIN keys' = {i \in 1..line' - 1 : file'[i].kind \notin {"quiet", "prompt"}}
  BY DEF BranchSoFar
<1>3. \A i \in DOMAIN keys' : \E m \in 1..Len(made') :
         keys'[i] = made'[m].key /\ Len(made') - m <= 2 * (line' - 1 - i)
  BY DEF BranchSoFar
<1>4. /\ IsFiniteSet(DOMAIN inserted')
      /\ \A key \in DOMAIN inserted' : \E m \in 1..Len(made') - 1 :
            key = made'[m].key /\ inserted'[key] = made'[m + 1].key
  BY DEF BranchSoFar
<1>5. line' = 1 => made' = <<>> /\ head' = 0
  BY DEF BranchSoFar
<1>6. line' > 1 => /\ head' \in 1..line' - 1 /\ file'[head'].kind # "prompt"
                   /\ \A i \in head' + 1..line' - 1 : file'[i].kind = "prompt"
  BY DEF BranchSoFar
<1>7. line' > 1 => \E e \in DOMAIN keys' : \E m \in 1..Len(made') :
         /\ e <= head' /\ \A i \in e + 1..line' - 1 : file'[i].kind \in {"quiet", "prompt"}
         /\ keys'[e] = made'[m].key /\ \A k \in m..Len(made') - 1 : made'[k].key \in DOMAIN inserted'
  BY DEF BranchSoFar
<1>. QED
  BY SMTT(30), <1>1, <1>2, <1>3, <1>4, <1>5, <1>6, <1>7 DEF BranchSoFar

LEMMA BranchInvStep == BranchInv /\ [TreeNext]_treeVars => BranchInv'
<1> SUFFICES ASSUME BranchInv, [TreeNext]_treeVars PROVE BranchInv'
  OBVIOUS
<1>1. file \in Seq(RecordType) /\ line \in 1..Len(file) + 1 /\ Len(file) \in Nat
  BY ParentIsNat DEF BranchInv
<1>2. file' = file
  BY DEF TreeNext, Quiet, Note, Prompt, Effort, Text, ToolResult, Placed, Finish, treeVars
<1>3. (Conversation' <=> Conversation) /\ (ResultsNear' <=> ResultsNear)
  BY <1>2 DEF Conversation, ResultsNear
<1>4. line' \in 1..Len(file) + 1
  <2>1. line' = line \/ (line' = line + 1 /\ line <= Len(file))
    BY DEF TreeNext, Quiet, Note, Prompt, Effort, Text, ToolResult, Placed, Finish, treeVars, Unread
  <2>. QED
    BY <1>1, <2>1
<1>5. ASSUME Conversation, ResultsNear PROVE BranchSoFar'
  <2>1. BranchSoFar
    BY <1>5 DEF BranchInv
  <2>2. Unread => line \in 1..Len(file)
    BY <1>1 DEF Unread
  <2>3. CASE Quiet
    BY <1>1, <1>5, <2>1, <2>2, <2>3, QuietStep DEF Quiet
  <2>4. CASE Note \/ Text
    BY <1>1, <1>5, <2>1, <2>2, <2>4, TextStep DEF Note, Text
  <2>5. CASE Prompt
    BY <1>1, <1>5, <2>1, <2>2, <2>5, PromptStep DEF Prompt
  <2>6. CASE Effort
    BY <1>1, <1>5, <2>1, <2>2, <2>6, EffortStep DEF Effort
  <2>7. CASE ToolResult
    BY <1>1, <1>5, <2>1, <2>2, <2>7, ToolResultStep DEF ToolResult
  <2>8. CASE Finish
    <3>1. late = Nothing /\ made \in Seq(TreeEventType)
      BY <2>1 DEF BranchSoFar, InOneLine
    <3>2. made' = [i \in DOMAIN made |-> made[i]]
      BY <2>8, <3>1 DEF Finish, Nothing
    <3>3. made' = made
      BY <3>1, <3>2
    <3>4. UNCHANGED <<file, line, keys, inserted, head, late>>
      BY <2>8 DEF Finish
    <3>. QED
      BY <2>1, <3>3, <3>4, Unmoved
  <2>9. CASE UNCHANGED treeVars
    BY <2>1, <2>9, Unmoved DEF treeVars
  <2>. QED
    BY <2>3, <2>4, <2>5, <2>6, <2>7, <2>8, <2>9 DEF TreeNext
<1>. QED
  BY <1>1, <1>2, <1>3, <1>4, <1>5 DEF BranchInv

LEMMA BranchInvariant == TreeSpec => []BranchInv
<1>. QED
  BY BranchInvInit, BranchInvStep, PTL DEF TreeSpec

\* One conversation of a Claude Code session is one branch, whatever the order in which
\* results and prompts stand in the file: OneBranch.
THEOREM ConversationIsOneBranch == TreeSpec => []OneBranch
<1>1. BranchInv => OneBranch
  <2> SUFFICES ASSUME BranchInv, Conversation, ResultsNear, NEW i \in DOMAIN made
               PROVE  made[i].parent = IF i = 1 THEN NoKey ELSE made[i - 1].key
    BY DEF OneBranch
  <2>1. InOneLine(made)
    BY DEF BranchInv, BranchSoFar
  <2>2. i \in 1..Len(made)
    BY <2>1, LenProperties DEF InOneLine
  <2>. QED
    BY <2>1, <2>2 DEF InOneLine
<1>. QED
  BY <1>1, BranchInvariant, PTL

-----------------------------------------------------------------------------
(* The tree of the events of any file (ClaudeTree)                         *)

KeysOf(trees) == {trees[i].key : i \in 1..Len(trees)}

\* Events with keys of their own whose parents are events.
Linked(trees) ==
    /\ trees \in Seq(TreeEventType) /\ NoKey \notin KeysOf(trees)
    /\ \A i, j \in 1..Len(trees) : trees[i].key = trees[j].key => i = j
    /\ \A i \in 1..Len(trees) : trees[i].parent \in KeysOf(trees) \cup {NoKey}

\* Keys with all that is above them.
UpwardClosed(trees, S) == \A i \in 1..Len(trees) : trees[i].key \in S => trees[i].parent \in S \cup {NoKey}

\* One event is another or above it, however far.
Reaches(trees, key, above) ==
    \A S \in SUBSET (Nat \X Nat) : key \in S /\ UpwardClosed(trees, S) => above \in S

LEMMA LinkedIs ==
    ASSUME NEW trees, Linked(trees)
    PROVE  /\ Len(trees) \in Nat /\ DOMAIN trees = 1..Len(trees) /\ KeysOf(trees) \subseteq Nat \X Nat
           /\ \A i \in 1..Len(trees) : trees[i] \in TreeEventType /\ ParentIn(trees, trees[i].key) = trees[i].parent
           /\ ParentIn(trees, NoKey) = NoKey
           /\ IsFiniteSet(KeysOf(trees)) /\ Cardinality(KeysOf(trees)) <= Len(trees)
<1>1. Len(trees) \in Nat /\ DOMAIN trees = 1..Len(trees) /\ \A i \in 1..Len(trees) : trees[i] \in TreeEventType
  BY LenProperties, ElementOfSeq DEF Linked
<1>2. KeysOf(trees) \subseteq Nat \X Nat
  BY <1>1 DEF KeysOf, TreeEventType
<1>3. ASSUME NEW i \in 1..Len(trees) PROVE ParentIn(trees, trees[i].key) = trees[i].parent
  <2> DEFINE c == CHOOSE j \in DOMAIN trees : trees[j].key = trees[i].key
  <2>1. \E j \in DOMAIN trees : trees[j].key = trees[i].key
    BY <1>1
  <2>2. c \in DOMAIN trees /\ trees[c].key = trees[i].key
    BY <2>1
  <2>3. ParentIn(trees, trees[i].key) = trees[c].parent
    BY <2>1 DEF ParentIn
  <2>. HIDE DEF c
  <2>4. c = i
    BY <1>1, <2>2 DEF Linked
  <2>. QED
    BY <2>3, <2>4
<1>4. ParentIn(trees, NoKey) = NoKey
  BY <1>1 DEF ParentIn, Linked, KeysOf
<1>5. IsFiniteSet(KeysOf(trees)) /\ Cardinality(KeysOf(trees)) <= Len(trees)
  <2> DEFINE f == [i \in 1..Len(trees) |-> trees[i].key]
  <2>1. f \in Surjection(1..Len(trees), KeysOf(trees))
    BY DEF Surjection, KeysOf
  <2>2. IsFiniteSet(1..Len(trees)) /\ Cardinality(1..Len(trees)) = Len(trees)
    <3>1. 1 \in Int /\ Len(trees) \in Int /\ 1..Len(trees) = 1..Len(trees)
      BY <1>1
    <3>. QED
      BY <1>1, <3>1, FS_Interval
  <2>. HIDE DEF f
  <2>. QED
    BY <2>1, <2>2, FS_Surjection
<1>. QED
  BY <1>1, <1>2, <1>3, <1>4, <1>5

\* What is above an event is in every set that is closed upwards.
LEMMA AboveWithin ==
    ASSUME NEW trees, Linked(trees), NEW key \in KeysOf(trees) \cup {NoKey}, NEW N \in Nat,
           NEW S, UpwardClosed(trees, S), key \in S \cup {NoKey}
    PROVE  Above(trees, key, N) \subseteq (S \cap KeysOf(trees)) \cup {NoKey}
<1> DEFINE D == (S \cap KeysOf(trees)) \cup {NoKey}
<1>1. ASSUME NEW k \in D PROVE ParentIn(trees, k) \in D
  <2>1. CASE k = NoKey
    BY <2>1, LinkedIs
  <2>2. CASE k # NoKey
    <3>1. PICK i \in 1..Len(trees) : k = trees[i].key /\ k \in S
      BY <2>2 DEF KeysOf
    <3>2. ParentIn(trees, k) = trees[i].parent
      BY <3>1, LinkedIs
    <3>3. trees[i].parent \in KeysOf(trees) \cup {NoKey} /\ trees[i].parent \in S \cup {NoKey}
      BY <3>1 DEF Linked, UpwardClosed
    <3>. QED
      BY <3>2, <3>3
  <2>. QED
    BY <2>1, <2>2
<1>2. key \in D
  OBVIOUS
<1>. HIDE DEF D
<1>3. PICK g : WayUp(trees, D, N, key, g)
  BY <1>1, <1>2, AboveGoes
<1>4. Above(trees, key, N) \subseteq D
  BY <1>3 DEF WayUp
<1>. QED
  BY <1>4 DEF D

\* As many steps up as there are events, and one, are enough.
LEMMA AboveAll ==
    ASSUME NEW trees, Linked(trees), NEW key \in KeysOf(trees) \cup {NoKey}
    PROVE  /\ key \in Above(trees, key, Len(trees) + 1)
           /\ UpwardClosed(trees, Above(trees, key, Len(trees) + 1))
<1> DEFINE N == Len(trees) + 1
           D == KeysOf(trees) \cup {NoKey}
<1>1. Len(trees) \in Nat /\ N \in Nat /\ IsFiniteSet(D) /\ Cardinality(D) <= N /\ Cardinality(D) \in Nat
  <2>1. Len(trees) \in Nat /\ IsFiniteSet(KeysOf(trees)) /\ Cardinality(KeysOf(trees)) <= Len(trees)
    BY LinkedIs
  <2>2. Cardinality(KeysOf(trees)) \in Nat
    BY <2>1, FS_CardinalityType
  <2>3. IsFiniteSet(D) /\ Cardinality(D) <= Cardinality(KeysOf(trees)) + 1
    <3>1. NoKey \notin KeysOf(trees)
      BY DEF Linked
    <3>2. IsFiniteSet(D) /\ Cardinality(D) = Cardinality(KeysOf(trees)) + 1
      BY <2>1, <3>1, FS_AddElement
    <3>. HIDE DEF D
    <3>. QED
      BY <2>2, <3>2
  <2>4. Cardinality(D) \in Nat
    BY <2>3, FS_CardinalityType
  <2>. HIDE DEF D
  <2>. QED
    BY <2>1, <2>2, <2>3, <2>4
<1>2. \A k \in D : ParentIn(trees, k) \in D
  <2>1. \A i \in 1..Len(trees) : ParentIn(trees, trees[i].key) = trees[i].parent /\ trees[i].parent \in D
    BY LinkedIs DEF Linked
  <2>2. ParentIn(trees, NoKey) = NoKey
    BY LinkedIs
  <2>. QED
    BY <2>1, <2>2 DEF KeysOf
<1>. HIDE DEF D, N
<1>3. PICK g : /\ g \in [0..N -> D] /\ Goes(g, N, key, StepAbove(trees, D))
               /\ \A k : k \in Above(trees, key, N) <=> \E n \in 0..N : k = g[n]
  <2>1. key \in D
    BY DEF D
  <2>2. \E g : WayUp(trees, D, N, key, g)
    BY <1>1, <1>2, <2>1, AboveGoes
  <2>. QED
    BY <2>2 DEF WayUp
<1>4. g[0] = key /\ \A n \in 1..N : n - 1 \in 0..N /\ n \in 0..N /\ g[n] = ParentIn(trees, g[n - 1])
  <2> SUFFICES ASSUME NEW n \in 1..N PROVE n - 1 \in 0..N /\ n \in 0..N /\ g[n] = ParentIn(trees, g[n - 1])
    BY <1>3 DEF Goes
  <2>1. n - 1 \in 0..N /\ n \in 0..N
    BY <1>1
  <2>2. g[n - 1] \in D
    BY <1>3, <2>1
  <2>. QED
    BY <1>3, <2>1, <2>2 DEF Goes, StepAbove
<1> DEFINE part(n) == {g[m] : m \in 0..n}
           closed(n) == \A k \in part(n) : ParentIn(trees, k) \in part(n)
           S == {n \in 0..N : closed(n) \/ Cardinality(part(n)) > n}
<1>5. \A n \in 0..N : part(n) \in SUBSET D /\ IsFiniteSet(part(n)) /\ Cardinality(part(n)) \in Nat /\ Cardinality(part(n)) <= N
  <2> SUFFICES ASSUME NEW n \in 0..N
               PROVE  /\ part(n) \in SUBSET D /\ IsFiniteSet(part(n))
                      /\ Cardinality(part(n)) \in Nat /\ Cardinality(part(n)) <= N
    OBVIOUS
  <2>1. part(n) \in SUBSET D
    <3>1. \A m \in 0..n : m \in 0..N
      BY <1>1
    <3>. QED
      BY <1>3, <3>1
  <2>. HIDE DEF part
  <2>2. IsFiniteSet(part(n)) /\ Cardinality(part(n)) <= Cardinality(D)
    BY <1>1, <2>1, FS_Subset
  <2>3. Cardinality(part(n)) \in Nat
    BY <2>2, FS_CardinalityType
  <2>4. Cardinality(part(n)) <= N
    BY <1>1, <2>2, <2>3
  <2>. QED
    BY <2>1, <2>2, <2>3, <2>4
<1>6. 0 \in S
  <2>1. part(0) = {key}
    BY <1>4
  <2>2. Cardinality({key}) = 1
    BY FS_Singleton
  <2>3. 0 \in 0..N
    BY <1>1
  <2>4. Cardinality(part(0)) > 0
    <3>. HIDE DEF part
    <3>. QED
      BY <2>1, <2>2
  <2>. QED
    BY <2>3, <2>4
<1>7. ASSUME NEW n \in 1..N, n - 1 \in S PROVE n \in S
  <2>1. part(n) = part(n - 1) \cup {g[n]} /\ n - 1 \in 0..N /\ n \in 0..N /\ n - 1 \in 0..n - 1 /\ n - 1 \in Nat
    <3>1. 0..n = (0..n - 1) \cup {n} /\ n - 1 \in 0..N /\ n \in 0..N /\ n - 1 \in 0..n - 1 /\ n - 1 \in Nat
      BY <1>1
    <3>. QED
      BY <3>1
  <2>2. \A m \in 0..n - 1 : m = n - 1 \/ ParentIn(trees, g[m]) \in part(n - 1)
    <3> SUFFICES ASSUME NEW m \in 0..n - 1, m # n - 1 PROVE ParentIn(trees, g[m]) \in part(n - 1)
      OBVIOUS
    <3>1. m + 1 \in 1..N /\ (m + 1) - 1 = m /\ m + 1 \in 0..n - 1
      BY <1>1
    <3>2. g[m + 1] = ParentIn(trees, g[m])
      BY <1>4, <3>1
    <3>. QED
      BY <3>1, <3>2
  <2>3. g[n] = ParentIn(trees, g[n - 1]) /\ g[n - 1] \in part(n - 1)
    BY <1>4, <2>1
  <2>4. CASE g[n] \in part(n - 1)
    <3>1. part(n) = part(n - 1)
      <4>. HIDE DEF part
      <4>. QED
        BY <2>1, <2>4
    <3>2. closed(n - 1)
      BY <2>2, <2>3, <2>4
    <3>3. closed(n)
      <4>. HIDE DEF part
      <4>. QED
        BY <3>1, <3>2
    <3>. QED
      BY <2>1, <3>3
  <2>5. CASE g[n] \notin part(n - 1)
    <3>1. ~closed(n - 1)
      <4>. HIDE DEF part
      <4>. QED
        BY <2>3, <2>5
    <3>2. Cardinality(part(n - 1)) > n - 1
      BY <1>7, <3>1
    <3>3. Cardinality(part(n)) = Cardinality(part(n - 1)) + 1 /\ Cardinality(part(n - 1)) \in Nat
      <4>. HIDE DEF part
      <4>. QED
        BY <1>5, <2>1, <2>5, FS_AddElement
    <3>4. Cardinality(part(n)) > n
      <4>. HIDE DEF part
      <4>. QED
        BY <2>1, <3>2, <3>3
    <3>. QED
      BY <2>1, <3>4
  <2>. QED
    BY <2>4, <2>5
<1>8. N \in S
  <2>1. N \in 0..N
    BY <1>1
  <2>. HIDE DEF S
  <2>. QED
    BY <1>1, <1>6, <1>7, <2>1, CountUp
<1>9. closed(N)
  <2>1. N \in 0..N
    BY <1>1
  <2>2. ~(Cardinality(part(N)) > N)
    <3>. HIDE DEF part
    <3>. QED
      BY <1>1, <1>5, <2>1
  <2>. QED
    BY <1>8, <2>2
<1>10. \A k : k \in Above(trees, key, N) <=> k \in part(N)
  BY <1>3
<1>11. key \in part(N)
  <2>1. 0 \in 0..N
    BY <1>1
  <2>. QED
    BY <1>4, <2>1
<1>12. UpwardClosed(trees, Above(trees, key, N))
  <2> SUFFICES ASSUME NEW i \in 1..Len(trees), trees[i].key \in Above(trees, key, N)
               PROVE  trees[i].parent \in Above(trees, key, N)
    BY DEF UpwardClosed
  <2>1. ParentIn(trees, trees[i].key) = trees[i].parent
    BY LinkedIs
  <2>. HIDE DEF part
  <2>. QED
    BY <1>9, <1>10, <2>1
<1>. HIDE DEF part
<1>. QED
  BY <1>10, <1>11, <1>12 DEF N

LEMMA ReachesOn ==
    ASSUME NEW trees, NEW key, NEW middle, NEW above, Reaches(trees, key, middle), Reaches(trees, middle, above)
    PROVE  Reaches(trees, key, above)
BY DEF Reaches

LEMMA ReachesParent ==
    ASSUME NEW trees, NEW i \in 1..Len(trees), trees[i].parent # NoKey
    PROVE  Reaches(trees, trees[i].key, trees[i].parent)
BY DEF Reaches, UpwardClosed

\* What the loops up find is what is above.
LEMMA AboveIsReached ==
    ASSUME NEW trees, Linked(trees), NEW key \in KeysOf(trees) \cup {NoKey}, NEW N \in Nat,
           NEW above \in Above(trees, key, N), above # NoKey
    PROVE  key \in KeysOf(trees) /\ above \in KeysOf(trees) /\ Reaches(trees, key, above)
<1>1. key # NoKey
  <2> SUFFICES ASSUME key = NoKey PROVE FALSE
    OBVIOUS
  <2>1. UpwardClosed(trees, {}) /\ key \in {} \cup {NoKey}
    BY DEF UpwardClosed
  <2>. QED
    BY <2>1, AboveWithin
<1>2. above \in KeysOf(trees)
  <2>1. UpwardClosed(trees, KeysOf(trees))
    BY DEF UpwardClosed, Linked
  <2>. QED
    BY <2>1, AboveWithin
<1>3. ASSUME NEW S \in SUBSET (Nat \X Nat), key \in S, UpwardClosed(trees, S) PROVE above \in S
  BY <1>3, AboveWithin
<1>. QED
  BY <1>1, <1>2, <1>3 DEF Reaches

LEMMA ReachedIsAbove ==
    ASSUME NEW trees, Linked(trees), NEW key \in KeysOf(trees), NEW above, Reaches(trees, key, above)
    PROVE  above \in Above(trees, key, Len(trees) + 1)
<1> DEFINE S == Above(trees, key, Len(trees) + 1)
<1>1. key \in S /\ UpwardClosed(trees, S)
  BY AboveAll
<1>2. S \subseteq Nat \X Nat
  <2>1. UpwardClosed(trees, KeysOf(trees)) /\ Len(trees) + 1 \in Nat /\ KeysOf(trees) \subseteq Nat \X Nat
    BY LinkedIs DEF UpwardClosed, Linked
  <2>2. S \subseteq (KeysOf(trees) \cap KeysOf(trees)) \cup {NoKey}
    BY <2>1, AboveWithin
  <2>3. NoKey \in Nat \X Nat
    BY DEF NoKey
  <2>. HIDE DEF S
  <2>. QED
    BY <2>1, <2>2, <2>3
<1>. HIDE DEF S
<1>. QED
  BY <1>1, <1>2 DEF Reaches, S

-----------------------------------------------------------------------------
\* Parents were made before, and all events of a tree have the same grade.
Forest(trees) == Linked(trees) /\ \A i, j \in 1..Len(trees) : trees[i].parent = trees[j].key => j < i

Graded(trees, grade) ==
    /\ grade \in Seq(Nat) /\ Len(grade) = Len(trees)
    /\ \A i, j \in 1..Len(trees) : trees[i].parent = trees[j].key => grade[i] = grade[j]

LEMMA SameGrade ==
    ASSUME NEW trees, Linked(trees), NEW grade, Graded(trees, grade),
           NEW i \in 1..Len(trees), NEW j \in 1..Len(trees), Reaches(trees, trees[i].key, trees[j].key)
    PROVE  grade[i] = grade[j]
<1> DEFINE S == {k \in KeysOf(trees) : \E m \in 1..Len(trees) : k = trees[m].key /\ grade[m] = grade[i]}
<1>1. S \in SUBSET (Nat \X Nat) /\ trees[i].key \in S
  BY LinkedIs DEF KeysOf
<1>2. UpwardClosed(trees, S)
  <2> SUFFICES ASSUME NEW l \in 1..Len(trees), trees[l].key \in S, trees[l].parent # NoKey
               PROVE  trees[l].parent \in S
    BY DEF UpwardClosed
  <2>1. grade[l] = grade[i]
    BY DEF Linked
  <2>2. PICK m \in 1..Len(trees) : trees[l].parent = trees[m].key
    BY DEF Linked, KeysOf
  <2>3. grade[m] = grade[i]
    BY <2>1, <2>2 DEF Graded
  <2>. QED
    BY <2>2, <2>3 DEF KeysOf
<1>3. trees[j].key \in S
  <2>. HIDE DEF S
  <2>. QED
    BY <1>1, <1>2 DEF Reaches
<1>. QED
  BY <1>3 DEF Linked

\* A tree of one event more.
TreeGrown(trees, more, grade, grades, key, parent, d) ==
    /\ Forest(more) /\ Graded(more, grades) /\ Len(more) = Len(trees) + 1
    /\ more[Len(trees) + 1] = TreeEvent(key, parent) /\ grades[Len(trees) + 1] = d
    /\ \A i \in 1..Len(trees) : more[i] = trees[i] /\ grades[i] = grade[i]
    /\ KeysOf(more) = KeysOf(trees) \cup {key}

\* The grade of an event below another, or of one that has none above it.
ParentGrade(trees, grade, parent, root, d) ==
    /\ d \in Nat
    /\ \A j \in 1..Len(trees) : parent = trees[j].key => d = grade[j]
    /\ parent = NoKey => d = root
    /\ parent # NoKey => \E j \in 1..Len(trees) : parent = trees[j].key /\ d = grade[j]

LEMMA TreeGrows ==
    ASSUME NEW trees, Forest(trees), NEW grade, Graded(trees, grade),
           NEW key \in Nat \X Nat, key \notin KeysOf(trees), key # NoKey,
           NEW parent \in KeysOf(trees) \cup {NoKey},
           NEW d \in Nat, \A j \in 1..Len(trees) : parent = trees[j].key => d = grade[j]
    PROVE  TreeGrown(trees, Append(trees, TreeEvent(key, parent)), grade, Append(grade, d), key, parent, d)
<1> DEFINE n == Len(trees)
           more == Append(trees, TreeEvent(key, parent))
           grades == Append(grade, d)
<1>1. /\ n \in Nat /\ KeysOf(trees) \subseteq Nat \X Nat /\ trees \in Seq(TreeEventType)
      /\ grade \in Seq(Nat) /\ Len(grade) = n
  BY LinkedIs DEF Forest, Linked, Graded
<1>2. TreeEvent(key, parent) \in TreeEventType
  <2>1. parent \in Nat \X Nat
    BY <1>1 DEF NoKey
  <2>. QED
    BY <2>1 DEF TreeEvent, TreeEventType
<1>3. /\ more \in Seq(TreeEventType) /\ Len(more) = n + 1 /\ more[n + 1] = TreeEvent(key, parent)
      /\ \A i \in 1..n : more[i] = trees[i]
  BY <1>1, <1>2, AppendProperties
<1>4. /\ grades \in Seq(Nat) /\ Len(grades) = n + 1 /\ grades[n + 1] = d
      /\ \A i \in 1..n : grades[i] = grade[i]
  <2>1. /\ grades \in Seq(Nat) /\ Len(grades) = Len(grade) + 1 /\ grades[Len(grade) + 1] = d
        /\ \A i \in 1..Len(grade) : grades[i] = grade[i]
    BY <1>1, AppendProperties
  <2>. HIDE DEF grades
  <2>. QED
    BY <1>1, <2>1
<1>5. 1..n + 1 = (1..n) \cup {n + 1} /\ n + 1 \notin 1..n /\ \A i \in 1..n : i < n + 1
  BY <1>1
<1>6. more[n + 1].key = key /\ more[n + 1].parent = parent
  BY <1>3 DEF TreeEvent
<1>. HIDE DEF more, grades
<1>7. \A i \in 1..n : trees[i].key \in KeysOf(trees) /\ trees[i].key # key /\ trees[i].parent # key
  <2>1. \A i \in 1..n : trees[i].key \in KeysOf(trees)
    BY DEF KeysOf
  <2>2. \A i \in 1..n : trees[i].parent \in KeysOf(trees) \cup {NoKey}
    BY DEF Forest, Linked
  <2>. HIDE DEF n
  <2>. QED
    BY <2>1, <2>2
<1>8. KeysOf(more) = KeysOf(trees) \cup {key}
  <2>1. KeysOf(more) = {more[i].key : i \in 1..n} \cup {key}
    BY <1>3, <1>5, <1>6 DEF KeysOf
  <2>2. KeysOf(trees) = {more[i].key : i \in 1..n}
    <3>1. KeysOf(trees) = {trees[i].key : i \in 1..n}
      BY DEF KeysOf
    <3>. HIDE DEF n
    <3>. QED
      BY <1>3, <3>1
  <2>. QED
    BY <2>1, <2>2
<1>9. parent # key
  OBVIOUS
<1>10. Linked(more)
  <2>1. NoKey \notin KeysOf(more)
    BY <1>8 DEF Forest, Linked
  <2>2. \A i, j \in 1..n + 1 : more[i].key = more[j].key => i = j
    <3>1. \A i, j \in 1..n : trees[i].key = trees[j].key => i = j
      BY DEF Forest, Linked
    <3>. HIDE DEF n
    <3>. QED
      BY <1>3, <1>5, <1>6, <1>7, <3>1
  <2>3. \A i \in 1..n + 1 : more[i].parent \in KeysOf(more) \cup {NoKey}
    <3>1. \A i \in 1..n : trees[i].parent \in KeysOf(trees) \cup {NoKey}
      BY DEF Forest, Linked
    <3>. HIDE DEF n
    <3>. QED
      BY <1>3, <1>5, <1>6, <1>8, <3>1
  <2>. HIDE DEF n
  <2>. QED
    BY <1>3, <2>1, <2>2, <2>3 DEF Linked
<1>11. \A i, j \in 1..n + 1 : more[i].parent = more[j].key => j < i
  <2>1. \A i, j \in 1..n : trees[i].parent = trees[j].key => j < i
    BY DEF Forest
  <2>. HIDE DEF n
  <2>. QED
    BY <1>3, <1>5, <1>6, <1>7, <1>9, <2>1
<1>12. \A i, j \in 1..n + 1 : more[i].parent = more[j].key => grades[i] = grades[j]
  <2>1. \A i, j \in 1..n : trees[i].parent = trees[j].key => grade[i] = grade[j]
    BY DEF Graded
  <2>2. \A j \in 1..n : parent = trees[j].key => d = grade[j]
    OBVIOUS
  <2>. HIDE DEF n
  <2>3. ASSUME NEW i \in 1..n, NEW j \in 1..n, more[i].parent = more[j].key PROVE grades[i] = grades[j]
    <3>1. more[i] = trees[i] /\ more[j] = trees[j]
      BY <1>3
    <3>2. grades[i] = grade[i] /\ grades[j] = grade[j]
      BY <1>4
    <3>3. trees[i].parent = trees[j].key
      BY <2>3, <3>1
    <3>. QED
      BY <2>1, <3>2, <3>3
  <2>4. ASSUME NEW i \in 1..n, more[i].parent = more[n + 1].key PROVE FALSE
    BY <1>3, <1>6, <1>7, <2>4
  <2>5. ASSUME NEW j \in 1..n, more[n + 1].parent = more[j].key PROVE grades[n + 1] = grades[j]
    BY <1>3, <1>4, <1>6, <2>2, <2>5
  <2>. QED
    BY <1>5, <2>3, <2>4, <2>5
<1>13. Forest(more) /\ Graded(more, grades)
  <2>. HIDE DEF n
  <2>. QED
    BY <1>3, <1>4, <1>10, <1>11, <1>12 DEF Forest, Graded
<1>14. TreeGrown(trees, more, grade, grades, key, parent, d)
  BY <1>3, <1>4, <1>8, <1>13 DEF TreeGrown
<1>. QED
  BY <1>14 DEF more, grades

\* What was reached is still reached when events are added, or parents given to those that had none.
LEMMA StillReached ==
    ASSUME NEW trees, NEW more, Len(trees) \in Nat, Len(more) \in Nat, Len(trees) <= Len(more),
           \A i \in 1..Len(trees) : more[i].key = trees[i].key /\ trees[i].parent \in {more[i].parent, NoKey},
           NEW key, NEW above, Reaches(trees, key, above)
    PROVE  Reaches(more, key, above)
<1>1. \A i \in 1..Len(trees) : i \in 1..Len(more)
  OBVIOUS
<1>2. ASSUME NEW S, UpwardClosed(more, S) PROVE UpwardClosed(trees, S)
  BY <1>1, <1>2 DEF UpwardClosed
<1>. QED
  BY <1>2 DEF Reaches

\* No event is above itself if each is lower than its parent: of a smaller grade, or later.
Lower(grade, i, j) == grade[j] < grade[i] \/ (grade[j] = grade[i] /\ j < i)

LEMMA LowerStill ==
    ASSUME NEW grade, NEW i \in Nat, NEW j \in Nat, NEW k \in Nat,
           grade[i] \in Nat, grade[j] \in Nat, grade[k] \in Nat,
           i = j \/ Lower(grade, i, j), Lower(grade, j, k)
    PROVE  Lower(grade, i, k)
<1> DEFINE a == grade[i]
           b == grade[j]
           c == grade[k]
<1>1. a \in Nat /\ b \in Nat /\ c \in Nat
  OBVIOUS
<1>2. i = j \/ b < a \/ (b = a /\ j < i)
  BY DEF Lower
<1>3. c < b \/ (c = b /\ k < j)
  BY DEF Lower
<1>4. i = j => a = b
  OBVIOUS
<1>. HIDE DEF a, b, c
<1>5. c < a \/ (c = a /\ k < i)
  BY <1>1, <1>2, <1>3, <1>4
<1>. QED
  BY <1>5 DEF Lower, a, c

LEMMA NoneAboveItself ==
    ASSUME NEW trees, Linked(trees), NEW grade \in Seq(Nat), Len(grade) = Len(trees),
           \A i, j \in 1..Len(trees) : trees[i].parent = trees[j].key => Lower(grade, i, j),
           NEW i \in 1..Len(trees), NEW N \in Nat
    PROVE  trees[i].key \notin Above(trees, trees[i].parent, N)
<1>1. \A m \in 1..Len(trees) : grade[m] \in Nat /\ m \in Nat
  BY ElementOfSeq
<1>2. trees[i].key # NoKey /\ trees[i].parent \in KeysOf(trees) \cup {NoKey}
  BY DEF Linked, KeysOf
<1>3. CASE trees[i].parent = NoKey
  <2>1. UpwardClosed(trees, {}) /\ trees[i].parent \in {} \cup {NoKey}
    BY <1>3 DEF UpwardClosed
  <2>2. Above(trees, trees[i].parent, N) \subseteq ({} \cap KeysOf(trees)) \cup {NoKey}
    BY <1>2, <2>1, AboveWithin
  <2>. QED
    BY <1>2, <2>2
<1>4. CASE trees[i].parent # NoKey
  <2>1. PICK p \in 1..Len(trees) : trees[i].parent = trees[p].key
    BY <1>2, <1>4 DEF KeysOf
  <2> DEFINE S == {k \in KeysOf(trees) : \E m \in 1..Len(trees) : k = trees[m].key /\ (m = p \/ Lower(grade, p, m))}
  <2>2. UpwardClosed(trees, S)
    <3> SUFFICES ASSUME NEW l \in 1..Len(trees), trees[l].key \in S, trees[l].parent # NoKey
                 PROVE  trees[l].parent \in S
      BY DEF UpwardClosed
    <3>1. l = p \/ Lower(grade, p, l)
      BY DEF Linked
    <3>2. PICK m \in 1..Len(trees) : trees[l].parent = trees[m].key
      BY DEF Linked, KeysOf
    <3>3. Lower(grade, l, m)
      BY <3>2
    <3>4. Lower(grade, p, m)
      <4>. HIDE DEF S
      <4>1. grade[p] \in Nat /\ grade[l] \in Nat /\ grade[m] \in Nat /\ p \in Nat /\ l \in Nat /\ m \in Nat
        BY <1>1
      <4>. QED
        BY <3>1, <3>3, <4>1, LowerStill
    <3>. QED
      BY <3>2, <3>4 DEF KeysOf
  <2>3. trees[i].parent \in S
    BY <2>1 DEF KeysOf
  <2>4. trees[i].key \notin S
    <3> SUFFICES ASSUME trees[i].key \in S PROVE FALSE
      OBVIOUS
    <3>1. i = p \/ Lower(grade, p, i)
      BY DEF Linked
    <3>2. Lower(grade, i, p)
      BY <2>1
    <3>. QED
      BY <1>1, <3>1, <3>2 DEF Lower
  <2>. HIDE DEF S
  <2>5. Above(trees, trees[i].parent, N) \subseteq (S \cap KeysOf(trees)) \cup {NoKey}
    BY <1>2, <2>2, <2>3, AboveWithin
  <2>. QED
    BY <1>2, <2>4, <2>5
<1>. QED
  BY <1>3, <1>4

-----------------------------------------------------------------------------
\* A record more with events changes nothing unless the way up ends at it.
OneWider(known, wider, x) == wider = known \cup {x}

LEMMA EventedKept ==
    ASSUME NEW f \in Seq(RecordType), NEW known, NEW x, NEW wider, OneWider(known, wider, x),
           NEW id \in Nat, EventedIn(f, wider, id) # x
    PROVE  EventedIn(f, known, id) = EventedIn(f, wider, id)
<1> DEFINE N == Len(f)
<1>1. N \in Nat
  BY NamedIsNat
<1>2. PICK g \in [0..N -> Nat] : Goes(g, N, id, Climbs(f, known)) /\ EventedIn(f, known, id) = g[N]
  BY EventedInGoes
<1>3. PICK h \in [0..N -> Nat] : Goes(h, N, id, Climbs(f, wider)) /\ EventedIn(f, wider, id) = h[N]
  BY EventedInGoes
<1>. HIDE DEF N
<1> DEFINE S == {n \in 0..N : g[n] = h[n] \/ h[n] = x}
<1>4. 0 \in S
  BY <1>1, <1>2, <1>3 DEF Goes
<1>5. ASSUME NEW n \in 1..N, n - 1 \in S PROVE n \in S
  <2>1. n \in 0..N /\ n - 1 \in 0..N /\ g[n - 1] \in Nat /\ h[n - 1] \in Nat
    BY <1>1
  <2>2. /\ g[n] = IF g[n - 1] \in known THEN g[n - 1] ELSE NamedParent(f, g[n - 1])
        /\ h[n] = IF h[n - 1] \in known \cup {x} THEN h[n - 1] ELSE NamedParent(f, h[n - 1])
    BY <1>2, <1>3, <2>1 DEF Goes, Climbs, OneWider
  <2>. QED
    BY <1>5, <2>1, <2>2
<1>6. N \in S
  <2>1. N \in 0..N
    BY <1>1
  <2>. HIDE DEF S
  <2>. QED
    BY <1>1, <1>4, <1>5, <2>1, CountUp
<1>. QED
  BY <1>2, <1>3, <1>6

-----------------------------------------------------------------------------
\* How far a record is from the end of its way up.
DepthOf(f, depth) ==
    /\ depth \in [Nat -> Nat]
    /\ \A x \in Nat : depth[NamedParent(f, x)] <= depth[x] /\ (x \in DOMAIN f => depth[NamedParent(f, x)] < depth[x])

LEMMA EventedDepth ==
    ASSUME NEW f \in Seq(RecordType), NEW known, NEW id \in Nat, NEW depth, DepthOf(f, depth)
    PROVE  EventedIn(f, known, id) \in Nat /\ depth[EventedIn(f, known, id)] <= depth[id]
<1> DEFINE N == Len(f)
<1>1. N \in Nat
  BY NamedIsNat
<1>2. PICK g \in [0..N -> Nat] : Goes(g, N, id, Climbs(f, known)) /\ EventedIn(f, known, id) = g[N]
  BY EventedInGoes
<1>. HIDE DEF N
<1>3. \A x \in Nat : depth[x] \in Nat /\ NamedParent(f, x) \in Nat /\ depth[NamedParent(f, x)] <= depth[x]
  BY NamedIsNat DEF DepthOf
<1> DEFINE S == {n \in 0..N : depth[g[n]] <= depth[id]}
<1>4. 0 \in S
  <2>1. g[0] = id /\ 0 \in 0..N
    BY <1>1, <1>2 DEF Goes
  <2>2. depth[id] \in Nat
    BY <1>3
  <2>3. depth[id] <= depth[id]
    BY <2>2
  <2>. QED
    BY <2>1, <2>3
<1>5. ASSUME NEW n \in 1..N, n - 1 \in S PROVE n \in S
  <2>1. n \in 0..N /\ n - 1 \in 0..N /\ g[n - 1] \in Nat /\ g[n] \in Nat
    BY <1>1
  <2>2. g[n] = g[n - 1] \/ g[n] = NamedParent(f, g[n - 1])
    BY <1>2, <2>1 DEF Goes, Climbs
  <2> DEFINE a == depth[g[n]]
             b == depth[g[n - 1]]
             c == depth[id]
  <2>3. a \in Nat /\ b \in Nat /\ c \in Nat /\ b <= c /\ (a = b \/ a <= b)
    <3>1. a \in Nat /\ b \in Nat /\ c \in Nat
      BY <1>3, <2>1
    <3>2. b <= c
      BY <1>5
    <3>3. CASE g[n] = g[n - 1]
      BY <3>1, <3>2, <3>3
    <3>4. CASE g[n] = NamedParent(f, g[n - 1])
      <4>1. depth[NamedParent(f, g[n - 1])] <= depth[g[n - 1]]
        BY <1>3, <2>1
      <4>. QED
        BY <3>1, <3>2, <3>4, <4>1
    <3>. QED
      BY <2>2, <3>3, <3>4
  <2>4. depth[g[n]] <= depth[id]
    <3>1. a <= c
      <4>. HIDE DEF a, b, c
      <4>. QED
        BY <2>3
    <3>. QED
      BY <3>1
  <2>. QED
    BY <2>1, <2>4
<1>6. N \in S /\ N \in 0..N
  <2>1. N \in 0..N
    BY <1>1
  <2>. HIDE DEF S
  <2>. QED
    BY <1>1, <1>4, <1>5, <2>1, CountUp
<1>. QED
  BY <1>2, <1>6

\* A function counted up from another: the nth parent of each record.
Ancestors(f, w) ==
    /\ w \in [0..Len(f) -> [Nat -> Nat]]
    /\ \A x \in Nat : w[0][x] = x
    /\ \A n \in 1..Len(f) : \A x \in Nat : w[n][x] = w[n - 1][NamedParent(f, x)]

LEMMA AncestorsNamed ==
    ASSUME NEW f \in Seq(RecordType)
    PROVE  \E w : Ancestors(f, w)
<1> DEFINE D == [Nat -> Nat]
           F == [h \in D |-> [x \in Nat |-> h[NamedParent(f, x)]]]
           same == [x \in Nat |-> x]
<1>1. Len(f) \in Nat /\ \A x : NamedParent(f, x) \in Nat
  BY NamedIsNat
<1>2. same \in D /\ F \in [D -> D]
  BY <1>1
<1>3. PICK w \in [0..Len(f) -> D] : Goes(w, Len(f), same, F)
  <2>. HIDE DEF D, F, same
  <2>. QED
    BY <1>1, <1>2, Iterates
<1>4. \A x \in Nat : w[0][x] = x
  BY <1>3 DEF Goes
<1>5. ASSUME NEW n \in 1..Len(f), NEW x \in Nat PROVE w[n][x] = w[n - 1][NamedParent(f, x)]
  <2>1. n - 1 \in 0..Len(f)
    BY <1>1
  <2>2. w[n - 1] \in D
    BY <1>3, <2>1
  <2>3. w[n] = F[w[n - 1]]
    BY <1>3 DEF Goes
  <2>. QED
    BY <2>2, <2>3
<1>. QED
  BY <1>3, <1>4, <1>5 DEF Ancestors

\* The nth parent has the next as its parent.
LEMMA AncestorsGo ==
    ASSUME NEW f \in Seq(RecordType), NEW w, Ancestors(f, w)
    PROVE  \A n \in 1..Len(f) : \A x \in Nat : w[n][x] = NamedParent(f, w[n - 1][x])
<1> DEFINE N == Len(f)
           S == {n \in 0..N : n = 0 \/ \A x \in Nat : w[n][x] = NamedParent(f, w[n - 1][x])}
<1>1. N \in Nat /\ \A x : NamedParent(f, x) \in Nat
  BY NamedIsNat
<1>2. 0 \in S
  BY <1>1
<1>3. ASSUME NEW n \in 1..N, n - 1 \in S PROVE n \in S
  <2>1. n \in 0..N
    BY <1>1
  <2> SUFFICES ASSUME NEW x \in Nat PROVE w[n][x] = NamedParent(f, w[n - 1][x])
    BY <2>1
  <2>2. w[n][x] = w[n - 1][NamedParent(f, x)]
    BY DEF Ancestors
  <2>3. CASE n = 1
    <3>1. w[0][x] = x /\ w[0][NamedParent(f, x)] = NamedParent(f, x) /\ n - 1 = 0
      BY <1>1, <2>3 DEF Ancestors
    <3>. QED
      BY <2>2, <3>1
  <2>4. CASE n # 1
    <3>1. n - 1 \in 1..N /\ n - 1 # 0
      BY <1>1, <2>4
    <3>2. \A y \in Nat : w[n - 1][y] = NamedParent(f, w[(n - 1) - 1][y])
      BY <1>3, <3>1
    <3>3. w[n - 1][x] = w[(n - 1) - 1][NamedParent(f, x)]
      BY <3>1 DEF Ancestors
    <3>. QED
      BY <1>1, <2>2, <3>2, <3>3
  <2>. QED
    BY <2>3, <2>4
<1>. HIDE DEF S
<1>4. \A n \in 0..N : n \in S
  BY <1>1, <1>2, <1>3, CountUp
<1>5. \A n \in 0..N : n = 0 \/ \A x \in Nat : w[n][x] = NamedParent(f, w[n - 1][x])
  BY <1>4 DEF S
<1>6. \A n \in 1..N : n \in 0..N /\ n # 0
  BY <1>1
<1>7. \A n \in 1..N : \A x \in Nat : w[n][x] = NamedParent(f, w[n - 1][x])
  <2>. HIDE DEF N
  <2>. QED
    BY <1>5, <1>6
<1>. QED
  BY <1>7

\* In a file without cycles each way up ends.
LEMMA AncestorsEnd ==
    ASSUME NEW f \in Seq(RecordType), Acyclic(f), NEW w, Ancestors(f, w), NEW i \in DOMAIN f
    PROVE  w[Len(f)][i] \notin DOMAIN f
<1> DEFINE N == Len(f)
           Is(u) == u = [n \in 0..N |-> IF n = 0 THEN i ELSE IF u[n - 1] \in DOMAIN f THEN f[u[n - 1]].parent ELSE 0]
           h == CHOOSE u : Is(u)
           g == [n \in 0..N |-> w[n][i]]
<1>1. N \in Nat /\ i \in Nat
  BY NamedIsNat
<1>2. h[N] \notin DOMAIN f
  BY Zenon DEF Acyclic
<1>3. \A n \in 0..N : n = 0 \/ (n \in 1..N /\ n - 1 \in 0..N)
  BY <1>1
<1>4. Is(g)
  <2>1. g[0] = i
    BY <1>1 DEF Ancestors
  <2>2. \A n \in 1..N : w[n][i] = NamedParent(f, w[n - 1][i])
    BY <1>1, AncestorsGo
  <2>3. \A n \in 0..N : g[n] = IF n = 0 THEN i ELSE IF g[n - 1] \in DOMAIN f THEN f[g[n - 1]].parent ELSE 0
    BY <1>3, <2>1, <2>2 DEF NamedParent
  <2>. HIDE DEF g
  <2>4. g = [n \in 0..N |-> g[n]]
    BY DEF g
  <2>. QED
    BY <2>3, <2>4
<1>5. Is(h)
  <2>. HIDE DEF Is, g
  <2>. QED
    BY <1>4
<1>. HIDE DEF h
<1> DEFINE S == {n \in 0..N : h[n] = w[n][i]}
<1>6. h[0] = i /\ \A n \in 1..N : h[n] = NamedParent(f, h[n - 1])
  <2>1. \A n \in 0..N : h[n] = IF n = 0 THEN i ELSE IF h[n - 1] \in DOMAIN f THEN f[h[n - 1]].parent ELSE 0
    BY <1>5
  <2>2. 0 \in 0..N /\ \A n \in 1..N : n \in 0..N /\ n # 0
    BY <1>1
  <2>. QED
    BY <2>1, <2>2 DEF NamedParent
<1>7. 0 \in S
  BY <1>1, <1>6 DEF Ancestors
<1>8. ASSUME NEW n \in 1..N, n - 1 \in S PROVE n \in S
  <2>1. n \in 0..N
    BY <1>1
  <2>2. w[n][i] = NamedParent(f, w[n - 1][i])
    BY <1>1, AncestorsGo
  <2>. QED
    BY <1>6, <1>8, <2>1, <2>2
<1>9. N \in S
  <2>1. N \in 0..N
    BY <1>1
  <2>. HIDE DEF S, N
  <2>. QED
    BY <1>1, <1>7, <1>8, <2>1, CountUp
<1>. QED
  BY <1>2, <1>9

LEMMA HasDepth ==
    ASSUME NEW f \in Seq(RecordType), Acyclic(f)
    PROVE  \E depth : DepthOf(f, depth)
<1> DEFINE N == Len(f)
<1>1. N \in Nat /\ DOMAIN f = 1..N /\ \A x : NamedParent(f, x) \in Nat
  BY NamedIsNat
<1>2. PICK w : Ancestors(f, w)
  BY AncestorsNamed
<1> DEFINE ends(x) == {n \in 0..N : w[n][x] \notin DOMAIN f}
           least(x, d) == d \in ends(x) /\ \A n \in ends(x) : d <= n
           depth == [x \in Nat |-> CHOOSE d \in Nat : least(x, d)]
<1>3. ASSUME NEW x \in Nat PROVE \E d \in Nat : least(x, d)
  <2>1. ends(x) # {}
    <3>1. CASE x \in DOMAIN f
      <4>1. N \in ends(x)
        BY <1>1, <1>2, <3>1, AncestorsEnd
      <4>. QED
        BY <4>1
    <3>2. CASE x \notin DOMAIN f
      <4>1. 0 \in ends(x)
        BY <1>1, <1>2, <3>2 DEF Ancestors
      <4>. QED
        BY <4>1
    <3>. QED
      BY <3>1, <3>2
  <2> DEFINE T == {n + 1 : n \in ends(x)}
  <2>2. T \subseteq 1..N + 1 /\ T # {} /\ N + 1 \in Nat
    BY <1>1, <2>1
  <2>. HIDE DEF T
  <2>3. PICK m \in T : \A y \in T : m <= y
    BY <2>2, HasSmallest
  <2>4. PICK d \in ends(x) : m = d + 1
    BY DEF T
  <2>5. \A n \in ends(x) : d <= n
    <3> SUFFICES ASSUME NEW n \in ends(x) PROVE d <= n
      OBVIOUS
    <3>1. n + 1 \in T
      BY DEF T
    <3>2. d + 1 <= n + 1
      BY <2>3, <2>4, <3>1
    <3>. QED
      BY <1>1, <3>2
  <2>. QED
    BY <1>1, <2>5
<1>4. \A x \in Nat : depth[x] \in Nat /\ least(x, depth[x])
  <2> SUFFICES ASSUME NEW x \in Nat PROVE depth[x] \in Nat /\ least(x, depth[x])
    OBVIOUS
  <2>. HIDE DEF least
  <2>. QED
    BY <1>3
<1>5. depth \in [Nat -> Nat]
  <2>1. depth = [x \in Nat |-> depth[x]]
    OBVIOUS
  <2>. HIDE DEF depth
  <2>. QED
    BY <1>4, <2>1
<1>. HIDE DEF depth
<1>6. ASSUME NEW x \in Nat PROVE depth[NamedParent(f, x)] <= depth[x] /\ (x \in DOMAIN f => depth[NamedParent(f, x)] < depth[x])
  <2> DEFINE y == NamedParent(f, x)
             d == depth[x]
  <2>1. y \in Nat /\ d \in Nat /\ depth[y] \in Nat
    BY <1>1, <1>5
  <2>2. d \in 0..N /\ w[d][x] \notin DOMAIN f
    BY <1>4
  <2>3. \A n \in 0..N : w[n][y] \notin DOMAIN f => depth[y] <= n
    BY <1>4, <2>1
  <2>4. CASE x \in DOMAIN f
    <3>1. d # 0
      BY <1>2, <2>2, <2>4 DEF Ancestors
    <3>2. d \in 1..N /\ d - 1 \in 0..N
      BY <1>1, <2>2, <3>1
    <3>3. w[d - 1][y] \notin DOMAIN f
      BY <1>2, <2>2, <3>2 DEF Ancestors
    <3>4. depth[y] <= d - 1
      BY <2>3, <3>2, <3>3
    <3>. HIDE DEF d, y
    <3>5. depth[y] <= d /\ depth[y] < d
      BY <2>1, <3>4
    <3>. QED
      BY <3>5 DEF d, y
  <2>5. CASE x \notin DOMAIN f
    <3>1. y = 0 /\ 0 \notin DOMAIN f
      BY <1>1, <2>5 DEF NamedParent
    <3>2. w[0][y] \notin DOMAIN f
      BY <1>2, <3>1 DEF Ancestors
    <3>3. depth[y] <= 0
      BY <1>1, <2>3, <3>2
    <3>. HIDE DEF d, y
    <3>4. depth[y] <= d
      BY <2>1, <3>3
    <3>. QED
      BY <2>5, <3>4 DEF d, y
  <2>. QED
    BY <2>4, <2>5
<1>. QED
  BY <1>5, <1>6 DEF DepthOf

-----------------------------------------------------------------------------
(* What is known of any file of which the records before `l` were read.    *)

KnownKeys(f, l, ks, trees) ==
    /\ DOMAIN ks = {i \in 1..l - 1 : f[i].kind \notin {"quiet", "prompt"}}
    /\ \A i \in DOMAIN ks : ks[i] = EventKey(i, 1) /\ ks[i] \in KeysOf(trees)

\* What was put behind an event has it as its parent.
InsertedBelow(ins, trees) ==
    /\ IsFiniteSet(DOMAIN ins)
    /\ \A k \in DOMAIN ins : k # NoKey /\ \E m \in 1..Len(trees) : trees[m].key = ins[k] /\ trees[m].parent = k

\* Of parents that come later nothing is said.
Keeps(f, ks, trees) ==
    \A i \in DOMAIN ks :
        LET e == EventedIn(f, DOMAIN ks, f[i].parent)
        IN e \in DOMAIN ks /\ e < i => Reaches(trees, ks[i], ks[e])

\* A tree hangs no lower than each of its records.
GradesFit(f, l, trees, depth, grade) ==
    /\ Forest(trees) /\ Graded(trees, grade)
    /\ \A i \in 1..Len(trees) : \E x \in 1..l - 1, p \in {0, 1} :
          trees[i].key = EventKey(x, p) /\ (f[x].kind # "prompt" => grade[i] <= depth[x])

\* What waits for its parent is the root of a tree, which is as low as its record.
LateFit(f, ks, trees, lt, depth, grade) ==
    \A i \in DOMAIN lt :
        /\ i \in 1..Len(trees) /\ trees[i].parent = NoKey
        /\ \E x \in DOMAIN ks : trees[i].key = ks[x] /\ lt[i] = f[x].parent /\ grade[i] = depth[x]

TreeSoFar ==
    /\ KnownKeys(file, line, keys, made) /\ head \in Nat
    /\ InsertedBelow(inserted, made) /\ Keeps(file, keys, made)
    /\ \E depth, grade : /\ DepthOf(file, depth) /\ GradesFit(file, line, made, depth, grade)
                         /\ LateFit(file, keys, made, late, depth, grade)

TreeInv ==
    /\ file \in Seq(RecordType) /\ line \in 1..Len(file) + 1
    /\ Acyclic(file) /\ ~finished => TreeSoFar
    /\ AncestryKept

\* One tree grows to another.
Grows(trees, more, grade, grades) ==
    /\ Len(trees) \in Nat /\ Len(more) \in Nat /\ Len(trees) <= Len(more)
    /\ \A i \in 1..Len(trees) : i \in 1..Len(more) /\ more[i] = trees[i] /\ grades[i] = grade[i]

LEMMA KeysGrow ==
    ASSUME NEW trees, NEW more, NEW grade, NEW grades, Grows(trees, more, grade, grades)
    PROVE  KeysOf(trees) \subseteq KeysOf(more)
BY DEF Grows, KeysOf

LEMMA KeysRead ==
    ASSUME NEW f \in Seq(RecordType), NEW l \in 1..Len(f), NEW ks, NEW trees, NEW more,
           KnownKeys(f, l, ks, trees), KeysOf(trees) \subseteq KeysOf(more)
    PROVE  /\ f[l].kind \in {"quiet", "prompt"} => KnownKeys(f, l + 1, ks, more)
           /\ f[l].kind \notin {"quiet", "prompt"} /\ EventKey(l, 1) \in KeysOf(more) =>
                 KnownKeys(f, l + 1, With(ks, l, EventKey(l, 1)), more)
<1>1. l \in Nat /\ l > 0 /\ (l + 1) - 1 = l
  BY NamedIsNat
<1>2. 1..l = (1..l - 1) \cup {l} /\ l \notin 1..l - 1
  BY <1>1
<1>3. ASSUME f[l].kind \in {"quiet", "prompt"} PROVE KnownKeys(f, l + 1, ks, more)
  <2>1. DOMAIN ks = {i \in 1..l : f[i].kind \notin {"quiet", "prompt"}}
    BY <1>2, <1>3 DEF KnownKeys
  <2>. QED
    BY <1>1, <2>1 DEF KnownKeys
<1>4. ASSUME f[l].kind \notin {"quiet", "prompt"}, EventKey(l, 1) \in KeysOf(more)
      PROVE  KnownKeys(f, l + 1, With(ks, l, EventKey(l, 1)), more)
  <2> DEFINE new == With(ks, l, EventKey(l, 1))
  <2>1. DOMAIN new = DOMAIN ks \cup {l} /\ new[l] = EventKey(l, 1) /\ \A i \in DOMAIN ks : i # l => new[i] = ks[i]
    BY DEF With
  <2>. HIDE DEF new
  <2>2. DOMAIN ks = {i \in 1..l - 1 : f[i].kind \notin {"quiet", "prompt"}}
    BY DEF KnownKeys
  <2>3. DOMAIN new = {i \in 1..l : f[i].kind \notin {"quiet", "prompt"}}
    BY <1>2, <1>4, <2>1, <2>2
  <2>4. \A i \in DOMAIN new : new[i] = EventKey(i, 1) /\ new[i] \in KeysOf(more)
    <3>1. \A i \in DOMAIN ks : ks[i] = EventKey(i, 1) /\ ks[i] \in KeysOf(more)
      BY DEF KnownKeys
    <3>. QED
      BY <1>4, <2>1, <3>1
  <2>5. KnownKeys(f, l + 1, new, more)
    BY <1>1, <2>3, <2>4 DEF KnownKeys
  <2>. QED
    BY <2>5 DEF new
<1>. QED
  BY <1>3, <1>4

LEMMA InsertedRead ==
    ASSUME NEW ins, NEW trees, NEW more, NEW grade, NEW grades, Grows(trees, more, grade, grades), InsertedBelow(ins, trees)
    PROVE  InsertedBelow(ins, more)
<1>1. \A k \in DOMAIN ins : k # NoKey /\ \E m \in 1..Len(more) : more[m].key = ins[k] /\ more[m].parent = k
  BY DEF InsertedBelow, Grows
<1>. QED
  BY <1>1 DEF InsertedBelow

LEMMA InsertedOnce ==
    ASSUME NEW ins, NEW more, InsertedBelow(ins, more),
           NEW k, NEW key, NEW m \in 1..Len(more), k # NoKey, more[m].key = key, more[m].parent = k
    PROVE  InsertedBelow(With(ins, k, key), more)
<1>1. \A i \in DOMAIN ins : i # NoKey /\ \E n \in 1..Len(more) : more[n].key = ins[i] /\ more[n].parent = i
  BY DEF InsertedBelow
<1>2. IsFiniteSet(DOMAIN ins) /\ \A x : IsFiniteSet(DOMAIN ins \cup {x})
  BY FS_AddElement DEF InsertedBelow
<1> DEFINE new == With(ins, k, key)
<1>3. DOMAIN new = DOMAIN ins \cup {k} /\ new[k] = key /\ \A i \in DOMAIN ins : i # k => new[i] = ins[i]
  BY DEF With
<1>. HIDE DEF new
<1>4. IsFiniteSet(DOMAIN new)
  BY <1>2, <1>3
<1>5. ASSUME NEW i \in DOMAIN new
      PROVE  i # NoKey /\ \E n \in 1..Len(more) : more[n].key = new[i] /\ more[n].parent = i
  <2>1. CASE i = k
    BY <1>3, <2>1
  <2>2. CASE i # k
    BY <1>1, <1>3, <2>2
  <2>. QED
    BY <2>1, <2>2
<1>6. InsertedBelow(new, more)
  BY <1>4, <1>5 DEF InsertedBelow
<1>. QED
  BY <1>6 DEF new

LEMMA ReachedRead ==
    ASSUME NEW trees, NEW more, NEW grade, NEW grades, Grows(trees, more, grade, grades),
           NEW key, NEW above, Reaches(trees, key, above)
    PROVE  Reaches(more, key, above)
<1>1. Len(trees) \in Nat /\ Len(more) \in Nat /\ Len(trees) <= Len(more)
  BY DEF Grows
<1>2. \A i \in 1..Len(trees) : more[i].key = trees[i].key /\ trees[i].parent \in {more[i].parent, NoKey}
  BY DEF Grows
<1>. QED
  BY <1>1, <1>2, StillReached

LEMMA KeptRead ==
    ASSUME NEW f \in Seq(RecordType), NEW l \in 1..Len(f), NEW ks, NEW trees, NEW more, NEW grade, NEW grades,
           KnownKeys(f, l, ks, trees), Keeps(f, ks, trees), Grows(trees, more, grade, grades)
    PROVE  /\ Keeps(f, ks, more)
           /\ LET e == EventedIn(f, DOMAIN ks, f[l].parent)
              IN (e \in DOMAIN ks => Reaches(more, EventKey(l, 1), ks[e])) => Keeps(f, With(ks, l, EventKey(l, 1)), more)
<1>1. Keeps(f, ks, more)
  BY ReachedRead DEF Keeps
<1> DEFINE e == EventedIn(f, DOMAIN ks, f[l].parent)
           new == With(ks, l, EventKey(l, 1))
<1>2. ASSUME e \in DOMAIN ks => Reaches(more, EventKey(l, 1), ks[e])
      PROVE  Keeps(f, new, more)
  <2>1. DOMAIN new = DOMAIN ks \cup {l} /\ new[l] = EventKey(l, 1) /\ \A i \in DOMAIN ks : i # l => new[i] = ks[i]
    BY DEF With
  <2>. HIDE DEF new
  <2>2. l \in Nat /\ l \in DOMAIN f /\ \A i \in DOMAIN f : f[i].parent \in Nat
    BY NamedIsNat
  <2>3. \A i \in DOMAIN ks : i \in 1..l - 1 /\ i \in DOMAIN f
    BY <2>2, NamedIsNat DEF KnownKeys
  <2> SUFFICES ASSUME NEW i \in DOMAIN new, EventedIn(f, DOMAIN new, f[i].parent) \in DOMAIN new,
                      EventedIn(f, DOMAIN new, f[i].parent) < i
               PROVE  Reaches(more, new[i], new[EventedIn(f, DOMAIN new, f[i].parent)])
    BY DEF Keeps
  <2> DEFINE up == EventedIn(f, DOMAIN new, f[i].parent)
  <2>4. i \in DOMAIN f /\ i \in Nat /\ i <= l /\ f[i].parent \in Nat
    BY <2>1, <2>2, <2>3
  <2>5. up \in Nat /\ up < i /\ up # l
    <3>1. up \in DOMAIN ks \cup {l}
      BY <2>1
    <3>2. up \in Nat
      BY <2>2, <2>3, <3>1
    <3>. HIDE DEF up
    <3>3. up < i
      BY DEF up
    <3>. QED
      BY <2>2, <2>4, <3>2, <3>3
  <2>6. EventedIn(f, DOMAIN ks, f[i].parent) = up
    <3>1. OneWider(DOMAIN ks, DOMAIN new, l)
      BY <2>1 DEF OneWider
    <3>2. EventedIn(f, DOMAIN new, f[i].parent) # l
      BY <2>5
    <3>. QED
      BY <2>4, <3>1, <3>2, EventedKept
  <2>7. up \in DOMAIN ks /\ new[up] = ks[up]
    <3>1. up \in DOMAIN ks \cup {l}
      BY <2>1
    <3>. HIDE DEF up
    <3>. QED
      BY <2>1, <2>5, <3>1
  <2>8. CASE i = l
    <3>1. e = up
      BY <2>6, <2>8
    <3>2. Reaches(more, EventKey(l, 1), ks[up])
      BY <1>2, <2>7, <3>1
    <3>. QED
      BY <2>1, <2>7, <2>8, <3>2
  <2>9. CASE i # l
    <3>1. i \in DOMAIN ks /\ new[i] = ks[i]
      BY <2>1, <2>9
    <3>2. Reaches(more, ks[i], ks[up])
      BY <1>1, <2>5, <2>6, <2>7, <3>1 DEF Keeps
    <3>. QED
      BY <2>7, <3>1, <3>2
  <2>. QED
    BY <2>8, <2>9
<1>. QED
  BY <1>1, <1>2

LEMMA FitRead ==
    ASSUME NEW f \in Seq(RecordType), NEW l \in 1..Len(f), NEW trees, NEW more, NEW depth, NEW grade, NEW grades,
           GradesFit(f, l, trees, depth, grade), Grows(trees, more, grade, grades), Forest(more), Graded(more, grades),
           \A i \in Len(trees) + 1..Len(more) : \E p \in {0, 1} :
               more[i].key = EventKey(l, p) /\ (f[l].kind # "prompt" => grades[i] <= depth[l])
    PROVE  GradesFit(f, l + 1, more, depth, grades)
<1>1. l \in Nat /\ l > 0 /\ (l + 1) - 1 = l /\ l \in 1..l
  BY NamedIsNat
<1>2. ASSUME NEW i \in 1..Len(more)
      PROVE  \E x \in 1..l, p \in {0, 1} : more[i].key = EventKey(x, p) /\ (f[x].kind # "prompt" => grades[i] <= depth[x])
  <2>1. i \in 1..Len(trees) \/ i \in Len(trees) + 1..Len(more)
    BY DEF Grows
  <2>2. CASE i \in 1..Len(trees)
    <3>1. PICK x \in 1..l - 1, p \in {0, 1} : trees[i].key = EventKey(x, p) /\ (f[x].kind # "prompt" => grade[i] <= depth[x])
      BY <2>2 DEF GradesFit
    <3>2. more[i] = trees[i] /\ grades[i] = grade[i] /\ x \in 1..l
      BY <1>1, <2>2 DEF Grows
    <3>. QED
      BY <3>1, <3>2
  <2>3. CASE i \in Len(trees) + 1..Len(more)
    BY <1>1, <2>3
  <2>. QED
    BY <2>1, <2>2, <2>3
<1>. QED
  BY <1>1, <1>2 DEF GradesFit

LEMMA LateRead ==
    ASSUME NEW f, NEW ks, NEW new, NEW trees, NEW more, NEW lt, NEW depth, NEW grade, NEW grades,
           LateFit(f, ks, trees, lt, depth, grade), Grows(trees, more, grade, grades),
           \A x \in DOMAIN ks : x \in DOMAIN new /\ new[x] = ks[x]
    PROVE  LateFit(f, new, more, lt, depth, grades)
BY DEF LateFit, Grows

LEMMA LateOnce ==
    ASSUME NEW f, NEW l, NEW new, NEW more, NEW lt, NEW depth, NEW grades, LateFit(f, new, more, lt, depth, grades),
           NEW m \in 1..Len(more), more[m].parent = NoKey, l \in DOMAIN new, more[m].key = new[l], grades[m] = depth[l]
    PROVE  LateFit(f, new, more, With(lt, m, f[l].parent), depth, grades)
<1> DEFINE waits == With(lt, m, f[l].parent)
<1>1. DOMAIN waits = DOMAIN lt \cup {m} /\ waits[m] = f[l].parent /\ \A i \in DOMAIN lt : i # m => waits[i] = lt[i]
  BY DEF With
<1>. HIDE DEF waits
<1>2. ASSUME NEW i \in DOMAIN waits
      PROVE  /\ i \in 1..Len(more) /\ more[i].parent = NoKey
             /\ \E x \in DOMAIN new : more[i].key = new[x] /\ waits[i] = f[x].parent /\ grades[i] = depth[x]
  <2>1. CASE i = m
    BY <1>1, <2>1
  <2>2. CASE i # m
    BY <1>1, <2>2 DEF LateFit
  <2>. QED
    BY <2>1, <2>2
<1>3. LateFit(f, new, more, waits, depth, grades)
  BY <1>2 DEF LateFit
<1>. QED
  BY <1>3 DEF waits

\* The keys of a record's events are new.
LEMMA FreshKeys ==
    ASSUME NEW f \in Seq(RecordType), NEW l \in 1..Len(f), NEW trees, NEW depth, NEW grade,
           GradesFit(f, l, trees, depth, grade), NEW p \in {0, 1}
    PROVE  EventKey(l, p) \in Nat \X Nat /\ EventKey(l, p) # NoKey /\ EventKey(l, p) \notin KeysOf(trees)
<1>1. l \in Nat /\ l # 0
  BY NamedIsNat
<1>2. EventKey(l, p) \in Nat \X Nat /\ EventKey(l, p) # NoKey
  BY <1>1 DEF EventKey, NoKey
<1>3. ASSUME NEW i \in 1..Len(trees) PROVE trees[i].key # EventKey(l, p)
  <2>1. PICK x \in 1..l - 1, q \in {0, 1} : trees[i].key = EventKey(x, q)
    BY DEF GradesFit
  <2>2. x # l
    BY <1>1
  <2>. QED
    BY <2>1, <2>2 DEF EventKey
<1>. QED
  BY <1>2, <1>3 DEF KeysOf

-----------------------------------------------------------------------------
\* What a UUID resolves to: an event below those of the record, or none.
Under(ks, trees, e, key) ==
    IF e \in DOMAIN ks THEN key \in KeysOf(trees) /\ Reaches(trees, key, ks[e]) ELSE key = NoKey

LEMMA UnderGraded ==
    ASSUME NEW f \in Seq(RecordType), NEW l, NEW ks, NEW trees, NEW depth, NEW grade,
           KnownKeys(f, l, ks, trees), DepthOf(f, depth), GradesFit(f, l, trees, depth, grade),
           NEW id \in Nat, NEW key, Under(ks, trees, EventedIn(f, DOMAIN ks, id), key),
           NEW j \in 1..Len(trees), key = trees[j].key
    PROVE  grade[j] \in Nat /\ grade[j] <= depth[id]
<1> DEFINE e == EventedIn(f, DOMAIN ks, id)
<1>1. Linked(trees) /\ Graded(trees, grade)
  BY DEF GradesFit, Forest
<1>2. key # NoKey
  BY <1>1 DEF Linked, KeysOf
<1>3. e \in DOMAIN ks /\ Reaches(trees, key, ks[e]) /\ ks[e] = EventKey(e, 1) /\ ks[e] \in KeysOf(trees)
  BY <1>2 DEF Under, KnownKeys
<1>4. e \in Nat /\ depth[e] <= depth[id]
  BY EventedDepth
<1>. HIDE DEF e
<1>5. PICK m \in 1..Len(trees) : ks[e] = trees[m].key
  BY <1>3 DEF KeysOf
<1>6. grade[j] = grade[m]
  BY <1>1, <1>3, <1>5, SameGrade
<1>7. PICK x \in 1..l - 1, p \in {0, 1} : trees[m].key = EventKey(x, p) /\ (f[x].kind # "prompt" => grade[m] <= depth[x])
  BY DEF GradesFit
<1>8. x = e /\ f[e].kind # "prompt"
  BY <1>3, <1>5, <1>7 DEF EventKey, KnownKeys
<1>9. grade[m] <= depth[e] /\ grade[m] \in Nat /\ depth[e] \in Nat /\ depth[id] \in Nat
  <2>1. grade[m] \in Nat
    BY <1>1, ElementOfSeq DEF Graded
  <2>. QED
    BY <1>4, <1>7, <1>8, <2>1 DEF DepthOf
<1>. QED
  BY <1>4, <1>6, <1>9

\* The loop of Behind goes on below.
LEMMA BehindReaches ==
    ASSUME Linked(made), InsertedBelow(inserted, made), NEW key \in KeysOf(made)
    PROVE  Behind(key) \in KeysOf(made) /\ Reaches(made, Behind(key), key)
<1> DEFINE D == {k \in KeysOf(made) : Reaches(made, k, key)}
           N == Cardinality(DOMAIN inserted) + 1
<1>1. Cardinality(DOMAIN inserted) \in Nat
  BY FS_CardinalityType DEF InsertedBelow
<1>2. key \in D
  BY DEF Reaches
<1>3. ASSUME NEW k \in D \cap DOMAIN inserted PROVE inserted[k] \in D
  <2>1. PICK m \in 1..Len(made) : made[m].key = inserted[k] /\ made[m].parent = k /\ k # NoKey
    BY DEF InsertedBelow
  <2>2. Reaches(made, inserted[k], k)
    BY <2>1, ReachesParent
  <2>3. Reaches(made, inserted[k], key)
    BY <2>2, ReachesOn
  <2>. QED
    BY <2>1, <2>3 DEF KeysOf
<1>. HIDE DEF D
<1>4. PICK g \in [0..N -> D] : Behind(key) = g[N]
  BY <1>1, <1>2, <1>3, BehindGoes
<1>5. N \in 0..N
  BY <1>1
<1>6. Behind(key) \in D
  <2>. HIDE DEF N
  <2>. QED
    BY <1>4, <1>5
<1>. QED
  BY <1>6 DEF D

LEMMA ResolvesUnder ==
    ASSUME KnownKeys(file, line, keys, made), InsertedBelow(inserted, made), Linked(made), NEW id
    PROVE  Under(keys, made, EventedIn(file, DOMAIN keys, id), Resolve(id))
<1>1. Evented(id) = EventedIn(file, DOMAIN keys, id)
  BY EventedIs
<1>2. CASE Evented(id) \in DOMAIN keys
  <2>1. keys[Evented(id)] \in KeysOf(made)
    BY <1>2 DEF KnownKeys
  <2>2. Resolve(id) = Behind(keys[Evented(id)])
    BY <1>2 DEF Resolve
  <2>. QED
    BY <1>1, <1>2, <2>1, <2>2, BehindReaches DEF Under
<1>3. CASE Evented(id) \notin DOMAIN keys
  BY <1>1, <1>3 DEF Resolve, Under
<1>. QED
  BY <1>2, <1>3

\* What one event more means for the rest.
Grown(trees, more, grade, grades, key, parent, d) ==
    /\ Forest(more) /\ Graded(more, grades) /\ Grows(trees, more, grade, grades)
    /\ Len(trees) \in Nat /\ Len(more) = Len(trees) + 1 /\ Len(more) \in 1..Len(more)
    /\ more[Len(more)].key = key /\ more[Len(more)].parent = parent /\ grades[Len(more)] = d
    /\ KeysOf(more) = KeysOf(trees) \cup {key}

LEMMA OneMore ==
    ASSUME NEW trees, Forest(trees), NEW grade, Graded(trees, grade),
           NEW key \in Nat \X Nat, key \notin KeysOf(trees), key # NoKey,
           NEW parent \in KeysOf(trees) \cup {NoKey}, NEW root, NEW d, ParentGrade(trees, grade, parent, root, d)
    PROVE  Grown(trees, Append(trees, TreeEvent(key, parent)), grade, Append(grade, d), key, parent, d)
<1> DEFINE more == Append(trees, TreeEvent(key, parent))
           grades == Append(grade, d)
<1>1. TreeGrown(trees, more, grade, grades, key, parent, d)
  <2>1. d \in Nat /\ \A j \in 1..Len(trees) : parent = trees[j].key => d = grade[j]
    BY DEF ParentGrade
  <2>. QED
    BY <2>1, TreeGrows
<1>. HIDE DEF more, grades
<1>2. Len(trees) \in Nat
  BY LinkedIs DEF Forest
<1>3. Len(more) \in Nat /\ Len(more) \in 1..Len(more) /\ Len(trees) <= Len(more) /\ \A i \in 1..Len(trees) : i \in 1..Len(more)
  BY <1>1, <1>2 DEF TreeGrown
<1>4. more[Len(more)].key = key /\ more[Len(more)].parent = parent
  BY <1>1 DEF TreeEvent, TreeGrown
<1>5. Grows(trees, more, grade, grades)
  BY <1>1, <1>2, <1>3 DEF Grows, TreeGrown
<1>6. Grown(trees, more, grade, grades, key, parent, d)
  BY <1>1, <1>2, <1>3, <1>4, <1>5 DEF TreeGrown, Grown
<1>. QED
  BY <1>6 DEF more, grades

LEMMA GradeOfParent ==
    ASSUME NEW trees, Forest(trees), NEW grade, Graded(trees, grade),
           NEW parent \in KeysOf(trees) \cup {NoKey}, NEW root \in Nat
    PROVE  \E d : ParentGrade(trees, grade, parent, root, d)
<1>1. NoKey \notin KeysOf(trees) /\ \A j \in 1..Len(trees) : trees[j].key \in KeysOf(trees)
  BY DEF Forest, Linked, KeysOf
<1>2. CASE parent = NoKey
  BY <1>1, <1>2 DEF ParentGrade
<1>3. CASE parent # NoKey
  <2>1. PICK m \in 1..Len(trees) : parent = trees[m].key
    BY <1>3 DEF KeysOf
  <2>2. \A j \in 1..Len(trees) : parent = trees[j].key => j = m
    BY <2>1 DEF Forest, Linked
  <2>3. grade[m] \in Nat
    BY ElementOfSeq DEF Graded
  <2>. QED
    BY <1>3, <2>1, <2>2, <2>3 DEF ParentGrade
<1>. QED
  BY <1>2, <1>3

LEMMA RecordBelow ==
    ASSUME NEW f \in Seq(RecordType), NEW l \in 1..Len(f), NEW depth, DepthOf(f, depth)
    PROVE  l \in Nat /\ f[l].parent \in Nat /\ depth[l] \in Nat /\ depth[f[l].parent] \in Nat /\ depth[f[l].parent] < depth[l]
<1>1. l \in Nat /\ l \in DOMAIN f /\ f[l].parent \in Nat /\ NamedParent(f, l) = f[l].parent
  BY NamedIsNat DEF NamedParent
<1>. QED
  BY <1>1 DEF DepthOf

\* A record with one event is read.
LEMMA EventRead ==
    ASSUME file \in Seq(RecordType), line \in 1..Len(file), TreeSoFar, file[line].kind \in {"text", "result", "note"},
           NEW parent, Under(keys, made, EventedIn(file, DOMAIN keys, file[line].parent), parent),
           made' = Append(made, TreeEvent(EventKey(line, 1), parent)),
           keys' = With(keys, line, EventKey(line, 1)), file' = file, line' = line + 1, head' = line,
           \/ inserted' = inserted
           \/ parent # NoKey /\ inserted' = With(inserted, parent, EventKey(line, 1)),
           \/ late' = late
           \/ parent = NoKey /\ late' = With(late, Len(made) + 1, file[line].parent)
    PROVE  TreeSoFar'
<1> DEFINE key == EventKey(line, 1)
           e == EventedIn(file, DOMAIN keys, file[line].parent)
<1>1. PICK depth, grade : /\ DepthOf(file, depth) /\ GradesFit(file, line, made, depth, grade)
                          /\ LateFit(file, keys, made, late, depth, grade)
  BY DEF TreeSoFar
<1>2. KnownKeys(file, line, keys, made) /\ InsertedBelow(inserted, made) /\ Keeps(file, keys, made)
  BY DEF TreeSoFar
<1>3. /\ line \in Nat /\ file[line].parent \in Nat /\ depth[line] \in Nat
      /\ depth[file[line].parent] \in Nat /\ depth[file[line].parent] < depth[line]
  BY <1>1, RecordBelow
<1>4. Forest(made) /\ Graded(made, grade)
  BY <1>1 DEF GradesFit
<1>5. parent \in KeysOf(made) \cup {NoKey} /\ (e \in DOMAIN keys => parent \in KeysOf(made) /\ Reaches(made, parent, keys[e]))
  BY DEF Under
<1>6. PICK d : ParentGrade(made, grade, parent, depth[line], d)
  BY <1>3, <1>4, <1>5, GradeOfParent
<1>7. d <= depth[line]
  <2>1. CASE parent = NoKey
    BY <1>3, <1>6, <2>1 DEF ParentGrade
  <2>2. CASE parent # NoKey
    <3>1. PICK j \in 1..Len(made) : parent = made[j].key /\ d = grade[j]
      BY <1>6, <2>2 DEF ParentGrade
    <3>2. grade[j] \in Nat /\ grade[j] <= depth[file[line].parent]
      BY <1>1, <1>2, <1>3, <3>1, UnderGraded
    <3>. QED
      BY <1>3, <3>1, <3>2
  <2>. QED
    BY <2>1, <2>2
<1>8. key \in Nat \X Nat /\ key # NoKey /\ key \notin KeysOf(made)
  BY <1>1, FreshKeys
<1>. HIDE DEF key, e
<1> DEFINE grades == Append(grade, d)
<1>9. /\ Forest(made') /\ Graded(made', grades) /\ Grows(made, made', grade, grades)
      /\ Len(made') = Len(made) + 1 /\ Len(made') \in 1..Len(made')
      /\ made'[Len(made')].key = key /\ made'[Len(made')].parent = parent /\ grades[Len(made')] = d
      /\ KeysOf(made') = KeysOf(made) \cup {key} /\ Len(made) \in Nat
  <2>1. made' = Append(made, TreeEvent(key, parent))
    BY DEF key
  <2>2. Grown(made, Append(made, TreeEvent(key, parent)), grade, grades, key, parent, d)
    BY <1>4, <1>5, <1>6, <1>8, OneMore
  <2>. HIDE DEF grades
  <2>. QED
    BY <2>1, <2>2 DEF Grown
<1>. HIDE DEF grades
<1>10. keys' = With(keys, line, key) /\ file[line].kind \notin {"quiet", "prompt"} /\ key = EventKey(line, 1)
  BY DEF key
<1>11. KnownKeys(file', line', keys', made')
  <2>1. KeysOf(made) \subseteq KeysOf(made') /\ EventKey(line, 1) \in KeysOf(made')
    BY <1>9, <1>10
  <2>2. KnownKeys(file, line + 1, With(keys, line, EventKey(line, 1)), made')
    BY <1>2, <1>10, <2>1, KeysRead
  <2>. QED
    BY <2>2
<1>12. InsertedBelow(inserted', made')
  <2>1. InsertedBelow(inserted, made')
    BY <1>2, <1>9, InsertedRead
  <2>2. parent # NoKey => InsertedBelow(With(inserted, parent, key), made')
    BY <1>9, <2>1, InsertedOnce
  <2>. QED
    BY <1>10, <2>1, <2>2
<1>13. Keeps(file', keys', made')
  <2>1. ASSUME e \in DOMAIN keys PROVE Reaches(made', key, keys[e])
    <3>1. Reaches(made', parent, keys[e])
      BY <1>5, <1>9, <2>1, ReachedRead
    <3>2. parent # NoKey
      BY <1>4, <1>5, <2>1 DEF Forest, Linked
    <3>3. Reaches(made', key, parent)
      BY <1>9, <3>2, ReachesParent
    <3>. QED
      BY <3>1, <3>3, ReachesOn
  <2>2. Keeps(file, With(keys, line, EventKey(line, 1)), made')
    BY <1>2, <1>9, <1>10, <2>1, KeptRead DEF e
  <2>. QED
    BY <2>2
<1>14. GradesFit(file', line', made', depth, grades)
  <2>1. \A i \in Len(made) + 1..Len(made') : i = Len(made')
    BY <1>9
  <2>2. \A i \in Len(made) + 1..Len(made') : \E p \in {0, 1} :
           made'[i].key = EventKey(line, p) /\ (file[line].kind # "prompt" => grades[i] <= depth[line])
    BY <1>7, <1>9, <1>10, <2>1
  <2>3. GradesFit(file, line + 1, made', depth, grades)
    BY <1>1, <1>9, <2>2, FitRead
  <2>. QED
    BY <2>3
<1>15. LateFit(file', keys', made', late', depth, grades)
  <2>1. /\ \A x \in DOMAIN keys : x \in DOMAIN keys' /\ keys'[x] = keys[x]
        /\ line \in DOMAIN keys' /\ keys'[line] = key
    <3>1. \A x \in DOMAIN keys : x # line
      BY <1>3 DEF TreeSoFar, KnownKeys
    <3>. QED
      BY <1>10, <3>1 DEF With
  <2>2. LateFit(file, keys', made', late, depth, grades)
    BY <1>1, <1>9, <2>1, LateRead
  <2>3. parent = NoKey => LateFit(file, keys', made', With(late, Len(made'), file[line].parent), depth, grades)
    <3>1. parent = NoKey => grades[Len(made')] = depth[line]
      BY <1>6, <1>9 DEF ParentGrade
    <3>. QED
      BY <1>9, <2>1, <2>2, <3>1, LateOnce
  <2>. QED
    BY <1>9, <2>2, <2>3
<1>16. DepthOf(file', depth) /\ head' \in Nat
  BY <1>1, <1>3
<1>. QED
  BY <1>11, <1>12, <1>13, <1>14, <1>15, <1>16 DEF TreeSoFar

LEMMA TextKeeps ==
    ASSUME file \in Seq(RecordType), line \in 1..Len(file), TreeSoFar, Text \/ Note
    PROVE  TreeSoFar'
<1> DEFINE parent == Resolve(file[line].parent)
<1>1. Under(keys, made, EventedIn(file, DOMAIN keys, file[line].parent), parent)
  BY ResolvesUnder DEF TreeSoFar, GradesFit, Forest
<1>2. /\ file[line].kind \in {"text", "result", "note"}
      /\ made' = Append(made, TreeEvent(EventKey(line, 1), parent))
      /\ keys' = With(keys, line, EventKey(line, 1)) /\ file' = file /\ line' = line + 1 /\ head' = line
      /\ inserted' = inserted
  BY DEF Text, Note, Placed, Record
<1>3. late' = late \/ (parent = NoKey /\ late' = With(late, Len(made) + 1, file[line].parent))
  BY DEF Text, Note, Placed, Record
<1>. HIDE DEF parent
<1>. QED
  BY <1>1, <1>2, <1>3, EventRead

\* What isAncestor finds is above, however far it looks.
LEMMA AncestorReached ==
    ASSUME Linked(made), NEW parent, NEW tail \in KeysOf(made) \cup {NoKey}, IsAncestor(parent, tail)
    PROVE  tail \in KeysOf(made) /\ tail # NoKey /\ Reaches(made, tail, parent)
<1>1. MaxClimb \in Nat
  BY TreeConstants
<1>2. parent \in Above(made, tail, MaxClimb - 1) /\ parent # NoKey
  BY DEF IsAncestor
<1>3. MaxClimb # 0
  <2> SUFFICES ASSUME MaxClimb = 0 PROVE FALSE
    OBVIOUS
  <2>1. 0..MaxClimb - 1 = {}
    OBVIOUS
  <2>2. Above(made, tail, MaxClimb - 1) = {}
    BY <2>1 DEF Above
  <2>. QED
    BY <1>2, <2>2
<1>4. MaxClimb - 1 \in Nat
  BY <1>1, <1>3
<1>5. tail \in KeysOf(made) /\ Reaches(made, tail, parent)
  BY <1>2, <1>4, AboveIsReached
<1>. QED
  BY <1>5 DEF Linked

LEMMA ToolResultKeeps ==
    ASSUME file \in Seq(RecordType), line \in 1..Len(file), TreeSoFar, ToolResult
    PROVE  TreeSoFar'
<1> DEFINE parent == Resolve(file[line].parent)
           tail == Resolve(head)
           e == EventedIn(file, DOMAIN keys, file[line].parent)
<1>1. Linked(made) /\ KnownKeys(file, line, keys, made) /\ InsertedBelow(inserted, made)
  BY DEF TreeSoFar, GradesFit, Forest
<1>2. Under(keys, made, e, parent) /\ Under(keys, made, EventedIn(file, DOMAIN keys, head), tail)
  BY <1>1, ResolvesUnder
<1>3. file[line].kind \in {"text", "result", "note"}
  BY DEF ToolResult, Record
<1>4. CASE parent # NoKey /\ Follows(parent, tail)
  <2>1. IsAncestor(parent, tail) /\ tail \in KeysOf(made) \cup {NoKey}
    BY <1>2, <1>4 DEF Follows, Under
  <2>2. /\ made' = Append(made, TreeEvent(EventKey(line, 1), tail))
        /\ keys' = With(keys, line, EventKey(line, 1)) /\ file' = file /\ line' = line + 1 /\ head' = line
        /\ inserted' = Put(tail, EventKey(line, 1))
        /\ late' = late \/ (tail = NoKey /\ late' = With(late, Len(made) + 1, file[line].parent))
    BY <1>4 DEF ToolResult, Placed, Record
  <2>. HIDE DEF parent, tail, e
  <2>3. tail \in KeysOf(made) /\ tail # NoKey /\ Reaches(made, tail, parent)
    BY <1>1, <2>1, AncestorReached
  <2>4. e \in DOMAIN keys /\ Reaches(made, tail, keys[e])
    BY <1>2, <1>4, <2>3, ReachesOn DEF Under
  <2>5. Under(keys, made, e, tail)
    BY <2>3, <2>4 DEF Under
  <2>6. inserted' = With(inserted, tail, EventKey(line, 1))
    BY <2>2, <2>3 DEF Put
  <2>. QED
    BY <1>3, <2>2, <2>3, <2>5, <2>6, EventRead DEF e
<1>5. CASE ~(parent # NoKey /\ Follows(parent, tail))
  <2>1. /\ made' = Append(made, TreeEvent(EventKey(line, 1), parent))
        /\ keys' = With(keys, line, EventKey(line, 1)) /\ file' = file /\ line' = line + 1 /\ head' = line
        /\ inserted' = inserted
        /\ late' = late \/ (parent = NoKey /\ late' = With(late, Len(made) + 1, file[line].parent))
    BY <1>5 DEF ToolResult, Placed, Record
  <2>. HIDE DEF parent, tail
  <2>. QED
    BY <1>2, <1>3, <2>1, EventRead
<1>. QED
  BY <1>4, <1>5

LEMMA EffortKeeps ==
    ASSUME file \in Seq(RecordType), line \in 1..Len(file), TreeSoFar, Effort
    PROVE  TreeSoFar'
<1> DEFINE parent == Resolve(file[line].parent)
           e == EventedIn(file, DOMAIN keys, file[line].parent)
           change == EventKey(line, 0)
           key == EventKey(line, 1)
           middle == Append(made, TreeEvent(change, parent))
<1>1. PICK depth, grade : /\ DepthOf(file, depth) /\ GradesFit(file, line, made, depth, grade)
                          /\ LateFit(file, keys, made, late, depth, grade)
  BY DEF TreeSoFar
<1>2. KnownKeys(file, line, keys, made) /\ InsertedBelow(inserted, made) /\ Keeps(file, keys, made)
  BY DEF TreeSoFar
<1>3. /\ line \in Nat /\ file[line].parent \in Nat /\ depth[line] \in Nat
      /\ depth[file[line].parent] \in Nat /\ depth[file[line].parent] < depth[line]
  BY <1>1, RecordBelow
<1>4. Forest(made) /\ Graded(made, grade) /\ Linked(made)
  BY <1>1 DEF GradesFit, Forest
<1>5. Under(keys, made, e, parent)
  BY <1>2, <1>4, ResolvesUnder
<1>6. /\ change \in Nat \X Nat /\ change # NoKey /\ change \notin KeysOf(made)
      /\ key \in Nat \X Nat /\ key # NoKey /\ key \notin KeysOf(made) /\ key # change
  <2>1. key # change
    BY DEF EventKey
  <2>. QED
    BY <1>1, <2>1, FreshKeys
<1>7. file[line].kind = "effort" /\ file[line].kind # "prompt"
  BY DEF Effort, Record
<1>8. /\ made' = made \o <<TreeEvent(change, parent), TreeEvent(key, change)>>
      /\ keys' = With(keys, line, EventKey(line, 1)) /\ file' = file /\ line' = line + 1 /\ head' = line
      /\ inserted' = inserted /\ late' = late
  BY DEF Effort, Record
<1>9. made \in Seq(TreeEventType) /\ Len(made) \in Nat
  BY <1>4, LenProperties DEF Linked
<1>10. made' = Append(middle, TreeEvent(key, change))
  <2>1. made' = Append(Append(made, TreeEvent(change, parent)), TreeEvent(key, change))
    BY <1>8, <1>9
  <2>. QED
    BY <2>1
<1>. HIDE DEF parent, change, key, middle
<1>11. parent \in KeysOf(made) \cup {NoKey} /\ (e \in DOMAIN keys => parent \in KeysOf(made) /\ Reaches(made, parent, keys[e]))
  BY <1>5 DEF Under
<1>12. PICK d : ParentGrade(made, grade, parent, depth[line], d)
  BY <1>3, <1>4, <1>11, GradeOfParent
<1>13. d <= depth[line]
  <2>1. CASE parent = NoKey
    BY <1>3, <1>12, <2>1 DEF ParentGrade
  <2>2. CASE parent # NoKey
    <3>1. PICK j \in 1..Len(made) : parent = made[j].key /\ d = grade[j]
      BY <1>12, <2>2 DEF ParentGrade
    <3>2. grade[j] \in Nat /\ grade[j] <= depth[file[line].parent]
      BY <1>1, <1>2, <1>3, <1>5, <3>1, UnderGraded
    <3>. QED
      BY <1>3, <3>1, <3>2
  <2>. QED
    BY <2>1, <2>2
<1>. HIDE DEF e
<1> DEFINE half == Append(grade, d)
           grades == Append(half, d)
<1>14. /\ Forest(middle) /\ Graded(middle, half) /\ Grows(made, middle, grade, half)
       /\ Len(middle) = Len(made) + 1 /\ Len(middle) \in 1..Len(middle)
       /\ middle[Len(middle)].key = change /\ middle[Len(middle)].parent = parent /\ half[Len(middle)] = d
       /\ KeysOf(middle) = KeysOf(made) \cup {change}
  <2>1. Grown(made, Append(made, TreeEvent(change, parent)), grade, half, change, parent, d)
    BY <1>4, <1>6, <1>11, <1>12, OneMore
  <2>. HIDE DEF half
  <2>. QED
    BY <2>1 DEF Grown, middle
<1>. HIDE DEF half
<1>15. ParentGrade(middle, half, change, d, d)
  <2>1. \A j \in 1..Len(middle) : change = middle[j].key => d = half[j]
    BY <1>14 DEF Forest, Linked
  <2>2. d \in Nat
    BY <1>12 DEF ParentGrade
  <2>. QED
    BY <1>14, <2>1, <2>2 DEF ParentGrade
<1>16. /\ Forest(made') /\ Graded(made', grades) /\ Grows(middle, made', half, grades)
       /\ Len(made') = Len(middle) + 1 /\ Len(made') \in 1..Len(made')
       /\ made'[Len(made')].key = key /\ made'[Len(made')].parent = change /\ grades[Len(made')] = d
       /\ KeysOf(made') = KeysOf(middle) \cup {key}
  <2>1. change \in KeysOf(middle) \cup {NoKey} /\ key \notin KeysOf(middle)
    BY <1>6, <1>14
  <2>2. Grown(middle, Append(middle, TreeEvent(key, change)), half, grades, key, change, d)
    BY <1>6, <1>14, <1>15, <2>1, OneMore
  <2>. HIDE DEF grades
  <2>. QED
    BY <1>10, <2>2 DEF Grown
<1>. HIDE DEF grades
<1>17. Grows(made, made', grade, grades) /\ Len(middle) \in 1..Len(made')
       /\ made'[Len(middle)].key = change /\ made'[Len(middle)].parent = parent /\ grades[Len(middle)] = d
  <2>1. Len(middle) \in 1..Len(made') /\ made'[Len(middle)] = middle[Len(middle)] /\ grades[Len(middle)] = half[Len(middle)]
    BY <1>14, <1>16 DEF Grows
  <2>2. Grows(made, made', grade, grades)
    BY <1>9, <1>14, <1>16 DEF Grows
  <2>. QED
    BY <1>14, <2>1, <2>2
<1>18. KnownKeys(file', line', keys', made')
  <2>1. KeysOf(made) \subseteq KeysOf(made') /\ EventKey(line, 1) \in KeysOf(made')
    BY <1>14, <1>16 DEF key
  <2>2. KnownKeys(file, line + 1, With(keys, line, EventKey(line, 1)), made')
    BY <1>2, <1>7, <2>1, KeysRead
  <2>. QED
    BY <1>8, <2>2
<1>19. InsertedBelow(inserted', made')
  BY <1>2, <1>8, <1>17, InsertedRead
<1>20. Keeps(file', keys', made')
  <2>1. ASSUME e \in DOMAIN keys PROVE Reaches(made', key, keys[e])
    <3>1. Reaches(made', parent, keys[e])
      BY <1>11, <1>17, <2>1, ReachedRead
    <3>2. parent # NoKey
      BY <1>4, <1>11, <2>1 DEF Linked
    <3>3. Reaches(made', change, parent)
      BY <1>17, <3>2, ReachesParent
    <3>4. Reaches(made', key, change)
      BY <1>6, <1>16, ReachesParent
    <3>5. Reaches(made', key, parent)
      BY <3>3, <3>4, ReachesOn
    <3>. QED
      BY <3>1, <3>5, ReachesOn
  <2>2. Keeps(file, With(keys, line, EventKey(line, 1)), made')
    BY <1>2, <1>17, <2>1, KeptRead DEF e, key
  <2>. QED
    BY <1>8, <2>2
<1>21. GradesFit(file', line', made', depth, grades)
  <2>1. \A i \in Len(made) + 1..Len(made') : i = Len(middle) \/ i = Len(made')
    BY <1>9, <1>14, <1>16
  <2>2. \A i \in Len(made) + 1..Len(made') : \E p \in {0, 1} :
           made'[i].key = EventKey(line, p) /\ (file[line].kind # "prompt" => grades[i] <= depth[line])
    BY <1>13, <1>16, <1>17, <2>1 DEF change, key
  <2>3. GradesFit(file, line + 1, made', depth, grades)
    BY <1>1, <1>16, <1>17, <2>2, FitRead
  <2>. QED
    BY <1>8, <2>3
<1>22. LateFit(file', keys', made', late', depth, grades)
  <2>1. \A x \in DOMAIN keys : x \in DOMAIN keys' /\ keys'[x] = keys[x]
    <3>1. \A x \in DOMAIN keys : x # line
      BY <1>2, <1>3 DEF KnownKeys
    <3>. QED
      BY <1>8, <3>1 DEF With
  <2>2. LateFit(file, keys', made', late, depth, grades)
    BY <1>1, <1>17, <2>1, LateRead
  <2>. QED
    BY <1>8, <2>2
<1>23. DepthOf(file', depth) /\ head' \in Nat
  BY <1>1, <1>3, <1>8
<1>. QED
  BY <1>18, <1>19, <1>20, <1>21, <1>22, <1>23 DEF TreeSoFar

LEMMA PromptKeeps ==
    ASSUME file \in Seq(RecordType), line \in 1..Len(file), TreeSoFar, Prompt
    PROVE  TreeSoFar'
<1> DEFINE after == Resolve(head)
           key == EventKey(line, 1)
<1>1. PICK depth, grade : /\ DepthOf(file, depth) /\ GradesFit(file, line, made, depth, grade)
                          /\ LateFit(file, keys, made, late, depth, grade)
  BY DEF TreeSoFar
<1>2. KnownKeys(file, line, keys, made) /\ InsertedBelow(inserted, made) /\ Keeps(file, keys, made)
  BY DEF TreeSoFar
<1>3. Forest(made) /\ Graded(made, grade) /\ Linked(made)
  BY <1>1 DEF GradesFit, Forest
<1>4. after \in KeysOf(made) \cup {NoKey}
  BY <1>2, <1>3, ResolvesUnder DEF Under
<1>5. key \in Nat \X Nat /\ key # NoKey /\ key \notin KeysOf(made)
  BY <1>1, FreshKeys
<1>6. file[line].kind = "prompt"
  BY DEF Prompt, Record
<1>7. /\ made' = Append(made, TreeEvent(key, after)) /\ inserted' = Put(after, key)
      /\ keys' = keys /\ file' = file /\ line' = line + 1 /\ head' = head /\ late' = late
  BY DEF Prompt, PutPrompt
<1>. HIDE DEF after
<1>8. PICK d : ParentGrade(made, grade, after, 0, d)
  BY <1>3, <1>4, GradeOfParent
<1> DEFINE grades == Append(grade, d)
<1>. HIDE DEF key
<1>9. /\ Forest(made') /\ Graded(made', grades) /\ Grows(made, made', grade, grades)
      /\ Len(made') = Len(made) + 1 /\ Len(made') \in 1..Len(made')
      /\ made'[Len(made')].key = key /\ made'[Len(made')].parent = after
      /\ KeysOf(made') = KeysOf(made) \cup {key} /\ Len(made) \in Nat
  <2>1. Grown(made, Append(made, TreeEvent(key, after)), grade, grades, key, after, d)
    BY <1>3, <1>4, <1>5, <1>8, OneMore
  <2>. HIDE DEF grades
  <2>. QED
    BY <1>7, <2>1 DEF Grown
<1>. HIDE DEF grades
<1>10. KnownKeys(file', line', keys', made')
  <2>1. KnownKeys(file, line + 1, keys, made')
    BY <1>2, <1>6, <1>9, KeysRead
  <2>. QED
    BY <1>7, <2>1
<1>11. InsertedBelow(inserted', made')
  <2>1. InsertedBelow(inserted, made')
    BY <1>2, <1>9, InsertedRead
  <2>2. after # NoKey => InsertedBelow(With(inserted, after, key), made')
    BY <1>9, <2>1, InsertedOnce
  <2>. QED
    BY <1>7, <2>1, <2>2 DEF Put
<1>12. Keeps(file', keys', made')
  BY <1>2, <1>7, <1>9, KeptRead
<1>13. GradesFit(file', line', made', depth, grades)
  <2>1. \A i \in Len(made) + 1..Len(made') : i = Len(made')
    BY <1>9
  <2>2. \A i \in Len(made) + 1..Len(made') : \E p \in {0, 1} :
           made'[i].key = EventKey(line, p) /\ (file[line].kind # "prompt" => grades[i] <= depth[line])
    BY <1>6, <1>9, <2>1 DEF key
  <2>3. GradesFit(file, line + 1, made', depth, grades)
    BY <1>1, <1>9, <2>2, FitRead
  <2>. QED
    BY <1>7, <2>3
<1>14. LateFit(file', keys', made', late', depth, grades)
  BY <1>1, <1>7, <1>9, LateRead
<1>15. DepthOf(file', depth) /\ head' \in Nat
  BY <1>1, <1>7 DEF TreeSoFar
<1>. QED
  BY <1>10, <1>11, <1>12, <1>13, <1>14, <1>15 DEF TreeSoFar

LEMMA QuietKeeps ==
    ASSUME file \in Seq(RecordType), line \in 1..Len(file), TreeSoFar, Quiet
    PROVE  TreeSoFar'
<1>1. PICK depth, grade : /\ DepthOf(file, depth) /\ GradesFit(file, line, made, depth, grade)
                          /\ LateFit(file, keys, made, late, depth, grade)
  BY DEF TreeSoFar
<1>2. KnownKeys(file, line, keys, made) /\ InsertedBelow(inserted, made) /\ Keeps(file, keys, made)
  BY DEF TreeSoFar
<1>3. /\ file[line].kind = "quiet" /\ line' = line + 1 /\ head' = line /\ line \in Nat
      /\ file' = file /\ keys' = keys /\ inserted' = inserted /\ made' = made /\ late' = late
  BY NamedIsNat DEF Quiet, Record
<1>4. KnownKeys(file, line + 1, keys, made)
  BY <1>2, <1>3, KeysRead
<1>5. GradesFit(file, line + 1, made, depth, grade)
  <2>1. Forest(made) /\ Graded(made, grade) /\ Len(made) \in Nat
    BY <1>1, LinkedIs DEF GradesFit, Forest
  <2>2. Grows(made, made, grade, grade) /\ Len(made) + 1..Len(made) = {}
    BY <2>1 DEF Grows
  <2>. QED
    BY <1>1, <2>1, <2>2, FitRead
<1>. QED
  BY <1>1, <1>2, <1>3, <1>4, <1>5 DEF TreeSoFar

-----------------------------------------------------------------------------
\* The parents that came later are given.
LEMMA FinishKeeps ==
    ASSUME file \in Seq(RecordType), line \in 1..Len(file) + 1, TreeSoFar, Finish
    PROVE  AncestryKept'
<1>1. PICK depth, grade : /\ DepthOf(file, depth) /\ GradesFit(file, line, made, depth, grade)
                          /\ LateFit(file, keys, made, late, depth, grade)
  BY DEF TreeSoFar
<1>2. KnownKeys(file, line, keys, made) /\ InsertedBelow(inserted, made) /\ Keeps(file, keys, made)
  BY DEF TreeSoFar
<1>3. Forest(made) /\ Graded(made, grade) /\ Linked(made)
  BY <1>1 DEF GradesFit, Forest
<1>4. Len(made) \in Nat /\ DOMAIN made = 1..Len(made) /\ KeysOf(made) \subseteq Nat \X Nat /\ made \in Seq(TreeEventType)
  BY <1>3, LinkedIs DEF Linked
<1>5. /\ file' = file /\ keys' = keys /\ late' = late
      /\ made' = [i \in DOMAIN made |-> IF i \in DOMAIN late THEN [made[i] EXCEPT !.parent = Resolve(late[i])] ELSE made[i]]
  BY DEF Finish
<1>6. ASSUME NEW i \in 1..Len(made)
      PROVE  /\ made'[i].key = made[i].key /\ (i \notin DOMAIN late => made'[i] = made[i])
             /\ i \in DOMAIN late => made'[i].parent = Resolve(late[i]) /\ made[i].parent = NoKey
             /\ made'[i] \in TreeEventType /\ made'[i].parent \in KeysOf(made) \cup {NoKey}
  <2>1. made[i] \in TreeEventType /\ made[i].parent \in KeysOf(made) \cup {NoKey}
    BY <1>3, LinkedIs DEF Linked
  <2>2. CASE i \in DOMAIN late
    <3>1. made'[i] = [made[i] EXCEPT !.parent = Resolve(late[i])]
      BY <1>4, <1>5, <2>2
    <3>2. Resolve(late[i]) \in KeysOf(made) \cup {NoKey}
      BY <1>2, <1>3, ResolvesUnder DEF Under
    <3>3. Resolve(late[i]) \in Nat \X Nat
      BY <1>4, <3>2 DEF NoKey
    <3>4. made[i].parent = NoKey
      BY <1>1, <2>2 DEF LateFit
    <3>. QED
      BY <2>1, <2>2, <3>1, <3>2, <3>3, <3>4 DEF TreeEventType
  <2>3. CASE i \notin DOMAIN late
    BY <1>4, <1>5, <2>1, <2>3
  <2>. QED
    BY <2>2, <2>3
<1>7. Len(made') = Len(made) /\ DOMAIN made' = 1..Len(made) /\ made' \in Seq(TreeEventType)
  <2>1. made' = [i \in 1..Len(made) |-> made'[i]]
    BY <1>4, <1>5
  <2>. QED
    BY <1>4, <1>6, <2>1
<1>8. KeysOf(made') = KeysOf(made)
  BY <1>6, <1>7 DEF KeysOf
<1>9. Linked(made')
  <2>1. \A i, j \in 1..Len(made') : made'[i].key = made'[j].key => i = j
    BY <1>3, <1>6, <1>7 DEF Linked
  <2>2. \A i \in 1..Len(made') : made'[i].parent \in KeysOf(made') \cup {NoKey}
    BY <1>6, <1>7, <1>8
  <2>. QED
    BY <1>3, <1>7, <1>8, <2>1, <2>2 DEF Linked
<1>10. \A key, above : Reaches(made, key, above) => Reaches(made', key, above)
  <2>1. \A i \in 1..Len(made) : made'[i].key = made[i].key /\ made[i].parent \in {made'[i].parent, NoKey}
    BY <1>6
  <2>. QED
    BY <1>4, <1>7, <2>1, StillReached
<1>11. ASSUME NEW i \in 1..Len(made), NEW j \in 1..Len(made), made'[i].parent = made'[j].key
       PROVE  Lower(grade, i, j)
  <2>1. \A m \in 1..Len(made) : grade[m] \in Nat
    BY <1>3, ElementOfSeq DEF Graded
  <2>2. made'[j].key = made[j].key
    BY <1>6
  <2>3. CASE i \notin DOMAIN late
    <3>1. made[i].parent = made[j].key
      BY <1>6, <1>11, <2>2, <2>3
    <3>2. j < i /\ grade[i] = grade[j]
      BY <1>3, <3>1 DEF Forest, Graded
    <3>. QED
      BY <3>2 DEF Lower
  <2>4. CASE i \in DOMAIN late
    <3>1. Resolve(late[i]) = made[j].key
      BY <1>6, <1>11, <2>2, <2>4
    <3>2. PICK x \in DOMAIN keys : late[i] = file[x].parent /\ grade[i] = depth[x]
      BY <1>1, <2>4 DEF LateFit
    <3>3. x \in 1..Len(file)
      BY <1>2, NamedIsNat DEF KnownKeys
    <3>4. /\ file[x].parent \in Nat /\ depth[x] \in Nat
          /\ depth[file[x].parent] \in Nat /\ depth[file[x].parent] < depth[x]
      BY <1>1, <3>3, RecordBelow
    <3>5. Under(keys, made, EventedIn(file, DOMAIN keys, file[x].parent), made[j].key)
      BY <1>2, <1>3, <3>1, <3>2, ResolvesUnder
    <3>6. grade[j] <= depth[file[x].parent]
      BY <1>1, <1>2, <3>4, <3>5, UnderGraded
    <3>7. grade[j] < grade[i]
      BY <2>1, <3>2, <3>4, <3>6
    <3>. QED
      BY <3>7 DEF Lower
  <2>. QED
    BY <2>3, <2>4
<1>12. ASSUME NEW i \in DOMAIN made' PROVE made'[i].key \notin AllAbove(made[i].parent)'
  <2>1. i \in 1..Len(made') /\ Len(made') + 1 \in Nat
    BY <1>4, <1>7
  <2>2. grade \in Seq(Nat) /\ Len(grade) = Len(made')
    BY <1>3, <1>7 DEF Graded
  <2>3. \A l, j \in 1..Len(made') : made'[l].parent = made'[j].key => Lower(grade, l, j)
    BY <1>7, <1>11
  <2>4. made'[i].key \notin Above(made', made'[i].parent, Len(made') + 1)
    BY <1>9, <2>1, <2>2, <2>3, NoneAboveItself
  <2>. QED
    BY <2>4 DEF AllAbove
<1>13. ASSUME NEW i \in DOMAIN keys', InTime(i)' PROVE Kept(i)'
  <2> DEFINE e == EventedIn(file, DOMAIN keys, file[i].parent)
  <2>1. Evented(file[i].parent)' = e
    BY <1>5, Zenon DEF Evented, EventedIn, ParentId, NamedParent
  <2>2. Kept(i)' <=> (e \in DOMAIN keys => keys[e] \in AllAbove(keys[i])')
    BY <1>5, <2>1 DEF Kept
  <2>3. InTime(i)' <=> (e < i \/ \E n \in DOMAIN late : made'[n].key = keys[i])
    BY <1>5, <2>1 DEF InTime
  <2> SUFFICES ASSUME e \in DOMAIN keys PROVE keys[e] \in AllAbove(keys[i])'
    BY <2>2
  <2>4. i \in DOMAIN keys /\ keys[i] \in KeysOf(made') /\ keys[e] \in KeysOf(made') /\ keys[e] # NoKey /\ keys[i] = EventKey(i, 1)
    BY <1>2, <1>3, <1>5, <1>8 DEF KnownKeys, Linked
  <2>5. Reaches(made', keys[i], keys[e])
    <3>1. CASE e < i
      <4>1. Reaches(made, keys[i], keys[e])
        BY <1>2, <2>4, <3>1 DEF Keeps
      <4>. QED
        BY <1>10, <4>1
    <3>2. CASE \E n \in DOMAIN late : made'[n].key = keys[i]
      <4>1. PICK n \in DOMAIN late : made'[n].key = keys[i]
        BY <3>2
      <4>2. n \in 1..Len(made) /\ \E x \in DOMAIN keys : made[n].key = keys[x] /\ late[n] = file[x].parent
        BY <1>1 DEF LateFit
      <4>3. PICK x \in DOMAIN keys : made[n].key = keys[x] /\ late[n] = file[x].parent
        BY <4>2
      <4>4. x = i
        <5>1. keys[x] = keys[i]
          BY <1>6, <4>1, <4>2, <4>3
        <5>2. keys[x] = EventKey(x, 1)
          BY <1>2 DEF KnownKeys
        <5>. QED
          BY <2>4, <5>1, <5>2 DEF EventKey
      <4>5. Under(keys, made, e, made'[n].parent)
        <5>1. made'[n].parent = Resolve(file[i].parent)
          BY <1>6, <4>2, <4>3, <4>4
        <5>. QED
          BY <1>2, <1>3, <5>1, ResolvesUnder
      <4>6. made'[n].parent \in KeysOf(made) /\ Reaches(made, made'[n].parent, keys[e])
        BY <4>5 DEF Under
      <4>7. made'[n].parent # NoKey
        BY <1>3, <4>6 DEF Linked
      <4>8. Reaches(made', made'[n].key, made'[n].parent)
        BY <1>7, <4>2, <4>7, ReachesParent
      <4>. QED
        BY <1>10, <4>1, <4>6, <4>8, ReachesOn
    <3>. QED
      BY <1>13, <2>3, <3>1, <3>2
  <2>6. keys[e] \in Above(made', keys[i], Len(made') + 1)
    BY <1>9, <2>4, <2>5, ReachedIsAbove
  <2>7. keys[i]' = keys[i]
    BY <1>5
  <2>. QED
    BY <2>4, <2>6, <2>7 DEF AllAbove
<1>. QED
  BY <1>12, <1>13 DEF AncestryKept

LEMMA TreeSoFarInit == TreeInit /\ Acyclic(file) => TreeSoFar
<1> SUFFICES ASSUME TreeInit, Acyclic(file) PROVE TreeSoFar
  OBVIOUS
<1>1. file \in Seq(RecordType)
  BY TreeConstants DEF TreeInit, RecordType
<1>2. /\ line = 1 /\ keys = Nothing /\ inserted = Nothing /\ made = <<>> /\ head = 0 /\ late = Nothing
  BY DEF TreeInit, NothingRead
<1>3. DOMAIN Nothing = {} /\ 1..line - 1 = {} /\ Len(made) = 0 /\ 1..Len(made) = {} /\ made \in Seq(TreeEventType)
  BY <1>2 DEF Nothing
<1>4. PICK depth : DepthOf(file, depth)
  BY <1>1, HasDepth
<1>5. KnownKeys(file, line, keys, made) /\ Keeps(file, keys, made)
  BY <1>2, <1>3 DEF KnownKeys, Keeps
<1>6. InsertedBelow(inserted, made)
  BY <1>2, <1>3, FS_EmptySet DEF InsertedBelow
<1>7. Forest(made) /\ Graded(made, <<>>)
  <2>1. KeysOf(made) = {}
    BY <1>3 DEF KeysOf
  <2>2. <<>> \in Seq(Nat) /\ Len(<<>>) = Len(made)
    BY <1>2
  <2>. QED
    BY <1>3, <2>1, <2>2 DEF Forest, Linked, Graded
<1>8. GradesFit(file, line, made, depth, <<>>)
  BY <1>3, <1>7 DEF GradesFit
<1>9. LateFit(file, keys, made, late, depth, <<>>)
  BY <1>2, <1>3 DEF LateFit
<1>. QED
  BY <1>2, <1>4, <1>5, <1>6, <1>8, <1>9 DEF TreeSoFar

LEMMA TreeInvInit == TreeInit => TreeInv
<1> SUFFICES ASSUME TreeInit PROVE TreeInv
  OBVIOUS
<1>1. file \in Seq(RecordType)
  BY TreeConstants DEF TreeInit, RecordType
<1>2. line \in 1..Len(file) + 1
  BY <1>1, NamedIsNat DEF TreeInit, NothingRead
<1>3. AncestryKept
  BY DEF TreeInit, NothingRead, AncestryKept
<1>. QED
  BY <1>1, <1>2, <1>3, TreeSoFarInit DEF TreeInv

LEMMA AncestryUnmoved == AncestryKept /\ UNCHANGED treeVars => AncestryKept'
<1> SUFFICES ASSUME AncestryKept, UNCHANGED treeVars PROVE AncestryKept'
  OBVIOUS
<1>1. /\ file' = file /\ keys' = keys /\ made' = made /\ late' = late /\ finished' = finished
  BY DEF treeVars
<1>2. \A id : Evented(id) = EventedIn(file, DOMAIN keys, id)
  BY EventedIs
<1>3. ASSUME NEW id PROVE Evented(id)' = EventedIn(file, DOMAIN keys, id)
  BY <1>1, Zenon DEF Evented, EventedIn, ParentId, NamedParent
<1>4. ASSUME finished, Acyclic(file), NEW i \in DOMAIN made PROVE made'[i].key \notin AllAbove(made[i].parent)'
  BY <1>1, <1>4 DEF AncestryKept, AllAbove
<1>5. ASSUME finished, Acyclic(file), NEW i \in DOMAIN keys, InTime(i)' PROVE Kept(i)'
  <2>1. Evented(file[i].parent)' = Evented(file[i].parent)
    BY <1>1, <1>2, Zenon DEF Evented, EventedIn, ParentId, NamedParent
  <2>2. InTime(i)
    BY <1>1, <1>5, <2>1 DEF InTime
  <2>3. Kept(i)
    BY <1>5, <2>2 DEF AncestryKept
  <2>. QED
    BY <1>1, <2>1, <2>3 DEF Kept, AllAbove
<1>6. Acyclic(file') = Acyclic(file)
  BY <1>1
<1>. QED
  BY <1>1, <1>4, <1>5, <1>6 DEF AncestryKept

LEMMA TreeInvStep == TreeInv /\ [TreeNext]_treeVars => TreeInv'
<1> SUFFICES ASSUME TreeInv, [TreeNext]_treeVars PROVE TreeInv'
  OBVIOUS
<1>1. file \in Seq(RecordType) /\ line \in 1..Len(file) + 1 /\ Len(file) \in Nat
  BY NamedIsNat DEF TreeInv
<1>2. file' = file
  BY DEF TreeNext, Quiet, Note, Prompt, Effort, Text, ToolResult, Placed, Finish, treeVars
<1>3. line' \in 1..Len(file) + 1
  <2>1. line' = line \/ (line' = line + 1 /\ line <= Len(file))
    BY DEF TreeNext, Quiet, Note, Prompt, Effort, Text, ToolResult, Placed, Finish, treeVars, Unread
  <2>. QED
    BY <1>1, <2>1
<1>4. CASE Quiet \/ Note \/ Prompt \/ Effort \/ Text \/ ToolResult
  <2>1. Unread /\ finished' = finished
    BY <1>4 DEF Quiet, Note, Prompt, Effort, Text, ToolResult, Placed
  <2>2. line \in 1..Len(file) /\ ~finished
    BY <1>1, <2>1 DEF Unread
  <2>3. AncestryKept'
    BY <2>1, <2>2 DEF AncestryKept
  <2>4. ASSUME Acyclic(file) PROVE TreeSoFar'
    <3>1. TreeSoFar
      BY <2>2, <2>4 DEF TreeInv
    <3>. QED
      BY <1>1, <1>4, <2>2, <3>1, QuietKeeps, TextKeeps, PromptKeeps, EffortKeeps, ToolResultKeeps
  <2>. QED
    BY <1>1, <1>2, <1>3, <2>3, <2>4 DEF TreeInv
<1>5. CASE Finish
  <2>1. ~finished /\ finished'
    BY <1>5 DEF Finish
  <2>2. CASE Acyclic(file)
    <3>1. AncestryKept'
      BY <1>1, <1>5, <2>1, <2>2, FinishKeeps DEF TreeInv
    <3>. QED
      BY <1>1, <1>2, <1>3, <2>1, <3>1 DEF TreeInv
  <2>3. CASE ~Acyclic(file)
    <3>1. AncestryKept'
      BY <1>2, <2>3 DEF AncestryKept
    <3>. QED
      BY <1>1, <1>2, <1>3, <2>1, <3>1 DEF TreeInv
  <2>. QED
    BY <2>2, <2>3
<1>6. CASE UNCHANGED treeVars
  <2>1. AncestryKept'
    BY <1>6, AncestryUnmoved DEF TreeInv
  <2>2. TreeSoFar <=> TreeSoFar'
    BY <1>6 DEF treeVars, TreeSoFar
  <2>3. finished' = finished
    BY <1>6 DEF treeVars
  <2>. QED
    BY <1>1, <1>2, <1>3, <2>1, <2>2, <2>3 DEF TreeInv
<1>. QED
  BY <1>4, <1>5, <1>6 DEF TreeNext

\* Whatever order the records of a file are written in and whatever they name: no event is
\* above itself, and every one is below those of the record that its own record names,
\* also if that was read later: AncestryKept.
THEOREM AncestryIsKept == TreeSpec => []AncestryKept
<1>1. TreeInv => AncestryKept
  BY DEF TreeInv
<1>. QED
  BY <1>1, TreeInvInit, TreeInvStep, PTL DEF TreeSpec
=============================================================================
