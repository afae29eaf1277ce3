------------------------------ MODULE EventChain ------------------------------
(***************************************************************************)
(* How events of records without timestamps are put in one line            *)
(* (chainInFileOrder of internal/normalize/helpers.go), after the records  *)
(* of a Cursor Agent transcript or the items of a Codex thread were taken  *)
(* one by one.  A record can be written again, and a message of Cursor     *)
(* Agent can name its parent; the store keeps one event of each key.       *)
(***************************************************************************)
EXTENDS Integers, Sequences

CONSTANT Transcripts  \* the files read: sequences of [keys, parent]

\* The keys of a record's events, none if nothing of it is known, and the key of the
\* parent it names, 0 if it names none.
ASSUME ChainConstants == \A f \in Transcripts : f \in Seq([keys : Seq(Nat \ {0}), parent : Nat])

VARIABLES
    transcript, \* the records
    taken,      \* how many of them have been taken
    chain,      \* their events: [key, parent]
    linked,     \* events that have their parent
    parents,    \* key -> parent
    previous    \* the key the next event follows

chainVars == <<transcript, taken, chain, linked, parents, previous>>

NothingTaken ==
    /\ taken = 0 /\ chain = <<>> /\ linked = 0
    /\ parents = [key \in {} |-> 0] /\ previous = 0

ChainInit == transcript \in Transcripts /\ NothingTaken

\* Calls and results of a record come before its text, and all have the parent it names.
TakeRecord ==
    /\ taken < Len(transcript)
    /\ LET record == transcript[taken + 1]
       IN chain' = chain \o [i \in DOMAIN record.keys |-> [key |-> record.keys[i], parent |-> record.parent]]
    /\ taken' = taken + 1
    /\ UNCHANGED <<transcript, linked, parents, previous>>

Event == chain[linked + 1]
Linking == taken = Len(transcript) /\ linked < Len(chain)

Link(parent) ==
    /\ chain' = [chain EXCEPT ![linked + 1].parent = parent]
    /\ linked' = linked + 1
    /\ UNCHANGED <<transcript, taken>>

LinkFirst ==
    /\ Linking /\ Event.key \notin DOMAIN parents
    /\ LET parent == IF Event.parent = 0 THEN previous ELSE Event.parent IN
       /\ Link(parent)
       /\ parents' = [key \in DOMAIN parents \cup {Event.key} |-> IF key = Event.key THEN parent ELSE parents[key]]
    /\ previous' = Event.key

\* Mutant: what comes after a copy follows the copy.
After_Copy(key) == key

\* What comes after a copy follows the event before it.
After(key) == previous

LinkCopy ==
    /\ Linking /\ Event.key \in DOMAIN parents
    /\ Link(parents[Event.key])
    /\ previous' = After(Event.key)
    /\ UNCHANGED parents

ChainNext == TakeRecord \/ LinkFirst \/ LinkCopy

ChainSpec == ChainInit /\ [][ChainNext]_chainVars

-----------------------------------------------------------------------------
FirstOf(key) == CHOOSE i \in DOMAIN chain : chain[i].key = key /\ \A j \in 1..i - 1 : chain[j].key # key

\* The event before one, copies left out.
Before(i) ==
    LET earlier == {j \in 1..i - 1 : FirstOf(chain[j].key) = j}
    IN IF earlier = {} THEN 0 ELSE chain[CHOOSE j \in earlier : \A k \in earlier : k <= j].key

Has(n, key) == \E k \in DOMAIN transcript[n].keys : transcript[n].keys[k] = key

\* The parent that the first record with this key names.
Named(key) == transcript[CHOOSE n \in DOMAIN transcript : Has(n, key) /\ \A m \in 1..n - 1 : ~Has(m, key)].parent

InFileOrder ==
    \A n \in DOMAIN transcript : transcript[n].parent # 0 => \E m \in 1..n - 1 : Has(m, transcript[n].parent)

\* However often records are written again, and whatever parent the copies name: all
\* copies of an event have the parent of the first; where that names none, the event
\* follows the one before it as they were first written, and no branch hides
\* another; and if parents are written before the records that name them, no
\* event is above itself.
OneLine ==
    taken = Len(transcript) /\ linked = Len(chain) =>
        \A i \in DOMAIN chain :
            LET key == chain[i].key IN
            /\ chain[i].parent = IF Named(key) = 0 THEN Before(FirstOf(key)) ELSE Named(key)
            /\ InFileOrder /\ chain[i].parent # 0 => FirstOf(chain[i].parent) < FirstOf(key)
=============================================================================
