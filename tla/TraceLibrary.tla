---------------------------- MODULE TraceLibrary ----------------------------
(***************************************************************************)
(* What the Store promises about source files, with no mention of files,   *)
(* rows, locks or garbage collection: a Trace Revision, once committed,    *)
(* can be opened in full until its Trace is deleted, and only a deletion   *)
(* of that Trace takes it away.                                            *)
(***************************************************************************)
CONSTANTS
    Trace,      \* Traces, by harness and native identifier
    Revision,   \* Trace Revisions, by digest
    OwnerOf     \* the Trace each Revision belongs to

VARIABLE library    \* the Revisions every source file of which can be opened

Init == library = {}

\* An import commits a Revision.
Commit(r) ==
    /\ r \notin library
    /\ library' = library \cup {r}

\* A deletion takes every Revision of one Trace.
Remove(t) ==
    /\ \E r \in library : OwnerOf[r] = t
    /\ library' = {r \in library : OwnerOf[r] # t}

Next ==
    \/ \E r \in Revision : Commit(r)
    \/ \E t \in Trace : Remove(t)

Spec == Init /\ [][Next]_library
=============================================================================
