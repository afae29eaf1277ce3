------------------------------- MODULE PiEntries -------------------------------
(***************************************************************************)
(* How the entries of a Pi session are put in order and what they inherit  *)
(* (internal/normalize/pi.go).  Entries name their parent by ID and are    *)
(* written in any order: a walk up from each entry puts parents first,     *)
(* then the model is passed down along that order.  IDs can be repeated,   *)
(* parents can be missing or in a cycle.                                   *)
(***************************************************************************)
EXTENDS FiniteSets, Integers, Sequences, SequencesExt

CONSTANT Sessions  \* the files read: sequences of [id, parent, kind]

\* "model" changes the model, "text" has events as well, "unknown" has none.  IDs are
\* numbers in the order of sort.Strings; a parent of 0 is none.
Kind == {"model", "text", "unknown"}

ASSUME PiConstants == \A f \in Sessions : f \in Seq([id : Nat \ {0}, parent : Nat, kind : Kind])

VARIABLES
    session,   \* the records after the header
    stack,     \* IDs that are being visited, the innermost last: state 1
    ordered,   \* IDs that have been: state 2
    cycles,    \* IDs with an invalid_parent_graph warning, one for each
    orphans,   \* IDs with a missing_parent warning
    model,     \* ID -> the entry that set its model, or 0
    primary    \* ID -> [model, parent] of its events, its parent being the entry of the first

piVars == <<session, stack, ordered, cycles, orphans, model, primary>>

NoEntry == [id \in {} |-> 0]

NothingVisited ==
    /\ stack = <<>> /\ ordered = <<>> /\ cycles = <<>> /\ orphans = {}
    /\ model = NoEntry /\ primary = NoEntry

PiInit == session \in Sessions /\ NothingVisited

\* The first record of each ID; the others are a warning.
Entries == {session[i] : i \in {j \in DOMAIN session : \A k \in 1..j - 1 : session[k].id # session[j].id}}
Ids == {entry.id : entry \in Entries}
EntryOf(id) == CHOOSE entry \in Entries : entry.id = id
ParentOf(id) == EntryOf(id).parent

Visited == ToSet(ordered)
Current == Last(stack)

-----------------------------------------------------------------------------
(* visit *)

\* The loop over the IDs goes on with the next that was not visited.
VisitNext ==
    /\ stack = <<>> /\ Visited # Ids
    /\ stack' = <<Min(Ids \ Visited)>>
    /\ UNCHANGED <<session, ordered, cycles, orphans, model, primary>>

\* Mutant: the entry is put in its place before its parent.
ToClimb_Never(id) == FALSE

\* Its parent has to be visited first.
ToClimb(id) == ParentOf(id) \in Ids \ (Visited \cup ToSet(stack))

Climb ==
    /\ stack # <<>> /\ ToClimb(Current)
    /\ stack' = Append(stack, ParentOf(Current))
    /\ UNCHANGED <<session, ordered, cycles, orphans, model, primary>>

\* Its parent has been visited, is missing, or is one of those below it.
Leave ==
    /\ stack # <<>> /\ ~ToClimb(Current)
    /\ ordered' = Append(ordered, Current)
    /\ stack' = Front(stack)
    /\ cycles' = IF ParentOf(Current) \in ToSet(stack) THEN Append(cycles, ParentOf(Current)) ELSE cycles
    /\ orphans' = IF ParentOf(Current) \notin Ids \cup {0} THEN orphans \cup {Current} ELSE orphans
    /\ UNCHANGED <<session, model, primary>>

-----------------------------------------------------------------------------
(* What is made of them, in that order *)

\* A parent that is missing, or comes later in the order, has no model.
Inherited(id) == IF ParentOf(id) \in DOMAIN model THEN model[ParentOf(id)] ELSE 0

PassDown ==
    /\ stack = <<>> /\ Visited = Ids
    /\ Cardinality(DOMAIN model) < Len(ordered)
    /\ LET id == ordered[Cardinality(DOMAIN model) + 1]
       IN model' = [i \in DOMAIN model \cup {id} |->
                      IF i # id THEN model[i] ELSE IF EntryOf(id).kind = "model" THEN id ELSE Inherited(id)]
    /\ UNCHANGED <<session, stack, ordered, cycles, orphans, primary>>

\* decodePiRecord: an entry of an unknown type, or with nothing known in it, has no
\* events; those of all others get the first of their parent's, or none.
HasEvents(id) == id \in Ids /\ EntryOf(id).kind # "unknown"

Decode ==
    /\ DOMAIN model = Ids /\ Visited = Ids /\ primary = NoEntry
    /\ LET shown == {id \in Ids : HasEvents(id)}
       IN /\ shown # {}
          /\ primary' = [id \in shown |->
                            [model |-> model[id], parent |-> IF HasEvents(ParentOf(id)) THEN ParentOf(id) ELSE 0]]
    /\ UNCHANGED <<session, stack, ordered, cycles, orphans, model>>

PiNext == VisitNext \/ Climb \/ Leave \/ PassDown \/ Decode

PiSpec == PiInit /\ [][PiNext]_piVars

-----------------------------------------------------------------------------
\* The entries above one, itself included, as far as its parents lead.
Line(id) ==
    LET up[n \in 0..Cardinality(Ids)] ==
            IF n = 0 THEN {id} ELSE up[n - 1] \cup ({ParentOf(i) : i \in up[n - 1]} \cap Ids)
    IN up[Cardinality(Ids)]

InCycle(id) == \E i \in Line(id) \cap Ids : ParentOf(i) = id

\* The distance from an entry up to one above it.
Distance(id, other) == Cardinality(Line(id)) - Cardinality(Line(other))

\* Whatever the order of the file, repeated IDs, missing parents and cycles: every entry
\* is shown once and after its parent, except at one place of each cycle, which has
\* one warning; and the model of an entry that no cycle is above is that of the
\* nearest change on its own branch, or none.
BranchesInherit ==
    /\ IsInjective(ordered)
    /\ Visited = Ids /\ DOMAIN model = Ids =>
          LET place(id) == CHOOSE i \in DOMAIN ordered : ordered[i] = id
              ends == {id \in Ids : ParentOf(id) \in Ids /\ place(ParentOf(id)) >= place(id)}
              loops == {Line(id) : id \in {i \in Ids : InCycle(i)}}
          IN /\ \A id \in ends : InCycle(id)
             /\ \A loop \in loops : Cardinality(ends \cap loop) = 1
             /\ Len(cycles) = Cardinality(loops) /\ ToSet(cycles) = {ParentOf(id) : id \in ends}
    /\ \A id \in DOMAIN primary :
          LET changes == {j \in Line(id) : EntryOf(j).kind = "model"}
              nearest == IF changes = {} THEN {0}
                         ELSE {j \in changes : \A k \in changes : Distance(id, j) <= Distance(id, k)}
          IN (\A j \in Line(id) : ~InCycle(j)) => primary[id].model \in nearest
=============================================================================
