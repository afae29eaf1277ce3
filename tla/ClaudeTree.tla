------------------------------ MODULE ClaudeTree ------------------------------
(***************************************************************************)
(* Where normalizeClaude puts the events of a session in the tree          *)
(* (internal/normalize/claude_cursor_agent.go).  Records name their parent *)
(* by UUID, often one that has no events, or one written after them; a     *)
(* system prompt has no UUID; the results of parallel calls name their     *)
(* calls and are moved behind one another.                                 *)
(*                                                                         *)
(* A record's UUID is its line, and its first event stands for the events  *)
(* of its blocks, which all have the same parent.                          *)
(***************************************************************************)
EXTENDS FiniteSets, Integers, Sequences

CONSTANTS
    Files,      \* the files read: sequences of [kind, parent]
    MaxClimb    \* how far up isAncestor looks

\* "quiet" has no events, "text" some, "effort" one more before them, "result" those
\* of tools, "note" (a system record, a queued command) one, and "prompt", which has
\* no UUID, one.  A parent of 0 is none.
Kinds == {"quiet", "text", "effort", "result", "note", "prompt"}

ASSUME TreeConstants ==
    /\ MaxClimb \in Nat
    /\ \A f \in Files : f \in Seq([kind : Kinds, parent : Nat])

VARIABLES
    file,      \* the records
    line,      \* the next of them
    keys,      \* UUID -> key of its first event
    inserted,  \* key -> key of the event that was put behind it
    made,      \* the events: [key, parent], in the order they were made
    head,      \* the last UUID
    late,      \* event -> its UUID's parent, to be resolved in the end
    finished   \* all parents are known

treeVars == <<file, line, keys, inserted, made, head, late, finished>>

Nothing == [x \in {} |-> x]
With(f, x, y) == [z \in DOMAIN f \cup {x} |-> IF z = x THEN y ELSE f[z]]
NoKey == <<0, 0>>
EventKey(i, part) == <<i, part>>

NothingRead ==
    /\ line = 1 /\ keys = Nothing /\ inserted = Nothing /\ made = <<>>
    /\ head = 0 /\ late = Nothing /\ finished = FALSE

TreeInit == file \in Files /\ NothingRead

\* parents, of the whole file.
ParentId(id) == IF id \in DOMAIN file THEN file[id].parent ELSE 0

\* The nearest record above that has events.
Evented(id) ==
    LET up[n \in 0..Len(file)] ==
            IF n = 0 THEN id
            ELSE IF up[n - 1] \in DOMAIN keys THEN up[n - 1] ELSE ParentId(up[n - 1])
    IN up[Len(file)]

\* Past the events that were put behind this one.
Behind(key) ==
    LET on[n \in 0..Cardinality(DOMAIN inserted) + 1] ==
            IF n = 0 THEN key
            ELSE IF on[n - 1] \in DOMAIN inserted THEN inserted[on[n - 1]] ELSE on[n - 1]
    IN on[Cardinality(DOMAIN inserted) + 1]

Resolve(id) == IF Evented(id) \in DOMAIN keys THEN Behind(keys[Evented(id)]) ELSE NoKey

ParentIn(events, key) ==
    IF \E i \in DOMAIN events : events[i].key = key
    THEN events[CHOOSE i \in DOMAIN events : events[i].key = key].parent ELSE NoKey

Above(events, key, steps) ==
    LET up[n \in 0..steps] == IF n = 0 THEN key ELSE ParentIn(events, up[n - 1]) IN {up[n] : n \in 0..steps}

IsAncestor(ancestor, key) == ancestor \in Above(made, key, MaxClimb - 1) \ {NoKey}

TreeEvent(key, parent) == [key |-> key, parent |-> parent]

Put(after, key) == IF after = NoKey THEN inserted ELSE With(inserted, after, key)

-----------------------------------------------------------------------------
(* One record *)

Record == file[line]
Unread == ~finished /\ line <= Len(file)

Quiet ==
    /\ Unread /\ Record.kind = "quiet"
    /\ line' = line + 1 /\ head' = line
    /\ UNCHANGED <<file, keys, inserted, made, late, finished>>

\* A parent that comes later is not looked for again.
Note ==
    /\ Unread /\ Record.kind = "note"
    /\ made' = Append(made, TreeEvent(EventKey(line, 1), Resolve(Record.parent)))
    /\ keys' = With(keys, line, EventKey(line, 1))
    /\ line' = line + 1 /\ head' = line
    /\ UNCHANGED <<file, inserted, late, finished>>

\* Mutant: what points at the head later does not follow the prompt.
PutPrompt_Aside(after, key) == inserted

PutPrompt(after, key) == Put(after, key)

\* A system prompt that was not shown before, behind the head.
Prompt ==
    /\ Unread /\ Record.kind = "prompt"
    /\ LET after == Resolve(head) IN
       /\ made' = Append(made, TreeEvent(EventKey(line, 1), after))
       /\ inserted' = PutPrompt(after, EventKey(line, 1))
    /\ line' = line + 1
    /\ UNCHANGED <<file, keys, head, late, finished>>

\* The change of effort is an event before those of the record, which go below it.
Effort ==
    /\ Unread /\ Record.kind = "effort"
    /\ made' = made \o <<TreeEvent(EventKey(line, 0), Resolve(Record.parent)), TreeEvent(EventKey(line, 1), EventKey(line, 0))>>
    /\ keys' = With(keys, line, EventKey(line, 1))
    /\ line' = line + 1 /\ head' = line
    /\ UNCHANGED <<file, inserted, late, finished>>

\* Mutant: results are put behind the record before, whatever that belongs to.
Follows_Any(parent, tail) == tail # parent

\* Whether a result with that parent goes behind the record written before it.
Follows(parent, tail) == tail # parent /\ IsAncestor(parent, tail)

Placed(parent) ==
    /\ made' = Append(made, TreeEvent(EventKey(line, 1), parent))
    /\ keys' = With(keys, line, EventKey(line, 1))
    /\ late' = IF parent = NoKey /\ Record.parent # 0
               THEN With(late, Len(made) + 1, Record.parent) ELSE late
    /\ line' = line + 1 /\ head' = line
    /\ UNCHANGED <<file, finished>>

Text == Unread /\ Record.kind = "text" /\ Placed(Resolve(Record.parent)) /\ UNCHANGED inserted

ToolResult ==
    /\ Unread /\ Record.kind = "result"
    /\ LET parent == Resolve(Record.parent)
           tail == Resolve(head)
       IN IF parent # NoKey /\ Follows(parent, tail)
          THEN Placed(tail) /\ inserted' = Put(tail, EventKey(line, 1))
          ELSE Placed(parent) /\ UNCHANGED inserted

\* Parents that were written after their children, in any order.
Finish ==
    /\ ~finished /\ line = Len(file) + 1
    /\ made' = [i \in DOMAIN made |->
                  IF i \in DOMAIN late THEN [made[i] EXCEPT !.parent = Resolve(late[i])] ELSE made[i]]
    /\ finished' = TRUE
    /\ UNCHANGED <<file, line, keys, inserted, head, late>>

TreeNext == Quiet \/ Note \/ Prompt \/ Effort \/ Text \/ ToolResult \/ Finish

TreeSpec == TreeInit /\ [][TreeNext]_treeVars

-----------------------------------------------------------------------------
\* The records a file's parents lead to are finitely many.
Acyclic(f) ==
    \A i \in DOMAIN f :
        LET up[n \in 0..Len(f)] == IF n = 0 THEN i ELSE IF up[n - 1] \in DOMAIN f THEN f[up[n - 1]].parent ELSE 0
        IN up[Len(f)] \notin DOMAIN f

AllAbove(key) == Above(made, key, Len(made) + 1) \ {NoKey}

Kept(i) ==
    LET parent == Evented(file[i].parent)
    IN parent \in DOMAIN keys => keys[parent] \in AllAbove(keys[i])

\* The parent was written before, or not found anywhere at first.
InTime(i) == Evented(file[i].parent) < i \/ \E n \in DOMAIN late : made[n].key = keys[i]

\* Unless parents go in a circle: no event is below itself, and every event is below those
\* of the record that its own record names, or that is named through records without
\* events, whatever was put between them; also if that was written later and there is no
\* other above it.
AncestryKept ==
    finished /\ Acyclic(file) =>
        /\ \A i \in DOMAIN made : made[i].key \notin AllAbove(made[i].parent)
        /\ \A i \in DOMAIN keys : InTime(i) => Kept(i)

\* claude_cursor_agent.go:75: parents written after their children are resolved once
\* every record is read.
LateParentsKept == finished => \A i \in DOMAIN keys : Kept(i)

\* One conversation: each record names the one before it, a result its call.
Conversation ==
    \A i \in DOMAIN file :
        LET before == {j \in 1..(i - 1) : file[j].kind # "prompt"} IN
        IF i = 1 THEN file[i].kind = "text" /\ file[i].parent = 0
        ELSE CASE file[i].kind = "prompt" -> TRUE
               [] file[i].kind = "result" -> \E j \in before : j = file[i].parent /\ file[j].kind \in {"text", "effort"}
               [] OTHER -> file[i].parent \in before /\ \A j \in before : j <= file[i].parent

\* No result is written so late that isAncestor does not look as far up as its call.
ResultsNear == \A i \in DOMAIN file : file[i].kind = "result" => 2 * (i - file[i].parent) <= MaxClimb

\* One conversation is one branch: its events follow one another as they were written,
\* though parallel calls and their results name other parents and system prompts
\* none.
OneBranch ==
    finished /\ Conversation /\ ResultsNear => \A i \in DOMAIN made : made[i].parent = IF i = 1 THEN NoKey ELSE made[i - 1].key
=============================================================================
