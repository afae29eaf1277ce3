------------------------------ MODULE ExportPool ------------------------------
(***************************************************************************)
(* Traces that a harness's own command exports, amp's and opencode's       *)
(* (internal/collector/adapters/commands.go): the list, which amp gives    *)
(* page by page and in another order each time, then one process per Trace *)
(* with at most Slots of them at once, while the user may cancel.          *)
(*                                                                         *)
(* An export that fails, takes too long or is too large is a warning; a    *)
(* directory that cannot be made and a context that is done are errors,    *)
(* the first of which ends the collection of this harness.                 *)
(***************************************************************************)
EXTENDS NoValue, SortedSets, Sequences, Functions

CONSTANTS
    Thread,     \* the harness's Traces
    PageSize,   \* listLimit
    Slots       \* commandConcurrency

ASSUME ExportConstants == IsFiniteSet(Thread) /\ {PageSize, Slots} \subseteq Nat \ {0}

VARIABLES
    paged,     \* amp, which lists in pages; opencode gives one list
    step,      \* of Collect: "list", "next" in its loop, "slot", "wait", "returned"
    listed,    \* the Traces, in the order of the list
    offset,    \* of the next page
    repeats,   \* entries that were in an earlier page too
    notice,    \* the list has a warning
    launched,  \* processes started
    job,       \* of each Trace: "none", "export", "inspect", "ended"
    kept,      \* indices of inputs
    skipped,   \* indices with a warning instead
    fatal,     \* an error was kept
    ended,     \* the context is done: the user's, or cancelled with the first error
    dirs,      \* indices whose directory exists
    returned   \* its inputs: a sequence of indices, or None for none and an error

exportVars == <<paged, step, listed, offset, repeats, notice, launched, job, kept, skipped,
                fatal, ended, dirs, returned>>
results == <<kept, skipped, fatal, ended, dirs>>

ExportInit ==
    /\ paged \in BOOLEAN
    /\ step = "list" /\ listed = <<>> /\ offset = 0 /\ repeats = 0 /\ notice = FALSE
    /\ launched = 0 /\ job = [i \in 1..Cardinality(Thread) |-> "none"]
    /\ kept = {} /\ skipped = {} /\ fatal = FALSE /\ ended = FALSE
    /\ dirs = {} /\ returned = None

\* Mutant: a process that fails does not give back its slot.
Running_KeepsSlot == {i \in DOMAIN job : job[i] \in {"export", "inspect"} \/ i \in skipped}

\* The processes that hold a slot.
Running == {i \in DOMAIN job : job[i] \in {"export", "inspect"}}

-----------------------------------------------------------------------------
(* The list *)

Page(order) ==
    IF paged THEN SubSeq(order, offset + 1, IF offset + PageSize < Len(order) THEN offset + PageSize ELSE Len(order))
    ELSE order

Unseen(page) ==
    LET new == Upward({i \in DOMAIN page : page[i] \notin Range(listed)})
    IN [k \in DOMAIN new |-> page[new[k]]]

\* list, listAmp: an entry that was in an earlier page is dropped, and a page that is
\* not full is the last one.  The pages are of one set of Traces in any orders: one that is
\* deleted between two pages can move another out of both without a repeat.
ListPage(order) ==
    /\ step = "list" /\ ~ended
    /\ LET page == Page(order) IN
       /\ listed' = listed \o Unseen(page)
       /\ repeats' = repeats + Len(page) - Len(Unseen(page))
       /\ IF paged /\ Len(page) = PageSize
          THEN offset' = offset + PageSize /\ UNCHANGED <<step, notice>>
          ELSE step' = "next" /\ notice' = (repeats' > 0) /\ UNCHANGED offset
    /\ UNCHANGED <<paged, launched, job, results, returned>>

\* There is no such command, it fails or is killed, or its list cannot be read: what
\* the pages before it had is exported.
ListFails ==
    /\ step = "list"
    /\ step' = "next" /\ notice' = TRUE
    /\ UNCHANGED <<paged, listed, offset, repeats, launched, job, results, returned>>

-----------------------------------------------------------------------------
(* The pool *)

\* Neither an error nor the end of the context was seen.
NextTrace ==
    /\ step = "next" /\ launched < Len(listed) /\ ~ended /\ ~fatal
    /\ step' = "slot"
    /\ UNCHANGED <<paged, listed, offset, repeats, notice, launched, job, results, returned>>

\* A slot is free, and is taken or not if the context is done as well.
Launch ==
    /\ step = "slot" /\ Cardinality(Running) < Slots
    /\ step' = "next"
    /\ launched' = launched + 1
    /\ job' = [job EXCEPT ![launched + 1] = "export"]
    /\ dirs' = dirs \cup {launched + 1}
    /\ UNCHANGED <<paged, listed, offset, repeats, notice, kept, skipped, fatal, ended, returned>>

\* Mutant: no process is started any more, and that is all.
Stopped_Quietly == FALSE

\* The end of the context is kept as an error.
Stopped == TRUE

StopLaunching ==
    /\ launched < Len(listed)
    /\ \/ step = "next" /\ (ended \/ fatal)
       \/ step = "slot" /\ ended
    /\ step' = "wait"
    /\ fatal' = (fatal \/ Stopped)
    /\ UNCHANGED <<paged, listed, offset, repeats, notice, launched, job, kept, skipped, ended, dirs, returned>>

EndLaunching ==
    /\ step = "next" /\ launched = Len(listed)
    /\ step' = "wait"
    /\ UNCHANGED <<paged, listed, offset, repeats, notice, launched, job, results, returned>>

\* The first error ends the context of the others.
Abort(i) ==
    /\ job' = [job EXCEPT ![i] = "ended"]
    /\ fatal' = TRUE /\ ended' = TRUE
    /\ UNCHANGED <<paged, step, listed, offset, repeats, notice, launched, kept, skipped, dirs, returned>>

\* Its directory cannot be made.
MkdirFails(i) == job[i] = "export" /\ Abort(i)

\* runToFile: the process ends well while the context still lasts.
Export(i) ==
    /\ job[i] = "export" /\ ~ended
    /\ job' = [job EXCEPT ![i] = "inspect"]
    /\ UNCHANGED <<paged, step, listed, offset, repeats, notice, launched, results, returned>>

\* It fails, is killed after commandTimeout or with the context, or writes too much.
ExportFails(i) ==
    /\ job[i] = "export"
    /\ job' = [job EXCEPT ![i] = "ended"]
    /\ skipped' = skipped \cup {i}
    /\ dirs' = dirs \ {i}
    /\ UNCHANGED <<paged, step, listed, offset, repeats, notice, launched, kept, fatal, ended, returned>>

\* inspectCommandExport; the bytes of an export nobody can read are kept as well.
Inspect(i) ==
    /\ job[i] = "inspect" /\ ~ended
    /\ job' = [job EXCEPT ![i] = "ended"]
    /\ kept' = kept \cup {i}
    /\ UNCHANGED <<paged, step, listed, offset, repeats, notice, launched, skipped, fatal, ended, dirs, returned>>

Interrupted(i) == job[i] = "inspect" /\ ended /\ Abort(i)

\* The user cancels.
CancelCollect ==
    /\ step # "returned" /\ ~ended
    /\ ended' = TRUE
    /\ UNCHANGED <<paged, step, listed, offset, repeats, notice, launched, job, kept, skipped, fatal, dirs, returned>>

\* The inputs in the order of the list, whichever was exported first; or the error,
\* and nothing is left behind.
Return ==
    /\ step = "wait" /\ Running = {}
    /\ step' = "returned"
    /\ returned' = IF fatal THEN None ELSE Upward(kept)
    /\ dirs' = IF fatal THEN {} ELSE dirs
    /\ UNCHANGED <<paged, listed, offset, repeats, notice, launched, job, kept, skipped, fatal, ended>>

-----------------------------------------------------------------------------
Orders == {order \in [1..Cardinality(Thread) -> Thread] : IsInjective(order)}

CollectExports ==
    \/ \E order \in Orders : ListPage(order)
    \/ ListFails \/ NextTrace \/ Launch \/ StopLaunching \/ EndLaunching \/ Return

JobStep(i) == Export(i) \/ ExportFails(i) \/ Inspect(i) \/ Interrupted(i)

ExportNext ==
    \/ CollectExports \/ CancelCollect
    \/ \E i \in DOMAIN job : MkdirFails(i) \/ JobStep(i)

ExportSpec == ExportInit /\ [][ExportNext]_exportVars

\* Each command has its timeout.
ExportFairness ==
    /\ WF_exportVars(CollectExports)
    /\ \A i \in 1..Cardinality(Thread) : WF_exportVars(JobStep(i))

-----------------------------------------------------------------------------
\* A collection that ends without an error has an input or a warning for each Trace of
\* the list, and a warning if the list may lack one; its inputs are in the order of the
\* list and have their directories.  With an error nothing stays, and in no case is a process
\* still at work on a directory the caller removes.
ExportsAccounted ==
    step = "returned" =>
        /\ Running = {}
        /\ IF fatal THEN returned = None /\ dirs = {}
           ELSE /\ 1..Len(listed) = Range(returned) \cup skipped
                /\ dirs = Range(returned)
                /\ \A j, k \in DOMAIN returned : j < k => returned[j] < returned[k]
                /\ notice \/ Range(listed) = Thread

\* A collection ends, also when it is cancelled while all slots are taken.
ExportsEnd == step # "returned" ~> step = "returned"
=============================================================================
