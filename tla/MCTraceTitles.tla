---------------------------- MODULE MCTraceTitles ----------------------------
(* The normalizers' results: a parse with messages that finds a title, a       *)
(* partial one with events and no message, and a failed one.                   *)
EXTENDS TraceTitles

CONSTANT Found1   \* the title the normalizer finds

Norm(status, found, title) == [status |-> status, found |-> found, title |-> title]

MCNormalizations ==
    {Norm("normalized", "messages", Found1), Norm("partially_parsed", "events", None),
     Norm("failed", "nothing", None)}

\* Untitled Traces with and without messages.
MCUntitled ==
    {Norm("normalized", "messages", None), Norm("partially_parsed", "events", None)}
=============================================================================
