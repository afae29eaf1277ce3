------------------------------- MODULE MCServer -------------------------------
(* What requests of three kinds do, each kind apart from the others: imports and  *)
(* status of ImportRequests, the lists of EventPages, the log of LogBuffer.       *)
EXTENDS ImportRequests, EventPages, LogBuffer

VARIABLE subject   \* which of the three a behaviour is about

\* What a search can meet: an observation it finds, one it does not, one it may not see.
MCContent ==
    LET Observed1(kept, match) == [kept |-> kept, candidate |-> TRUE, match |-> match]
    IN {{Observed1(TRUE, TRUE)}, {Observed1(TRUE, FALSE)}, {Observed1(FALSE, TRUE)}}

MCInit ==
    /\ Init /\ ListInit /\ LogInit
    /\ subject \in {"imports", "lists", "log"}
    /\ subject # "lists" => list = "trace"

MCNext ==
    \/ subject = "imports" /\ Next /\ UNCHANGED <<listVars, logVars>>
    \/ subject = "lists" /\ ListNext /\ UNCHANGED <<vars, logVars>>
    \/ subject = "log" /\ LogNext /\ UNCHANGED <<vars, listVars>>

MCSpec ==
    /\ MCInit /\ [][MCNext /\ UNCHANGED subject]_<<vars, listVars, logVars, subject>>
    /\ Fairness
    /\ WF_listVars(subject = "lists" /\ Read)
=============================================================================
