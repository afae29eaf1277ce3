---------------------------- MODULE MCTraceEvents ----------------------------
(* Trace t1 has an old and a new Revision that disagree on "a", of which the   *)
(* old one alone has "only"; the parse of the old one fails with version 2.    *)
(* A third Revision of t1 ties with the new one and parses partially at first. *)
(* t2 has one Revision.  Version 2 renames "b1" to "b2", version 3 to "b3",    *)
(* each listing the earlier keys, as normalizeAmp lists those of its earlier   *)
(* versions.                                                                   *)
EXTENDS TraceEvents, TLC

CONSTANTS OldRev, NewRev, TieRev, OtherRev

MCTrace == {"t1", "t2"}
MCOwnerOf == [r \in Revision |-> IF r = OtherRev THEN "t2" ELSE "t1"]
MCUpdatedAt == [r \in Revision |-> IF r = OldRev THEN 1 ELSE 2]
MCKey == {"a", "only", "b1", "b2", "b3"}

Norm(s, event) ==
    [status |-> s, event |-> event,
     legacy |-> [k \in Key |-> CASE k = "b2" -> {"b1"}
                                 [] k = "b3" -> {"b1", "b2"}
                                 [] OTHER -> {}]]

Renamed(v) == CASE v = 1 -> "b1" [] v = 2 -> "b2" [] OTHER -> "b3"
Nothing == [k \in {} |-> 0]

ParseOf(r, v) ==
    CASE r = OldRev /\ v = 2 -> Norm("failed", Nothing)
      [] r = OldRev -> Norm("normalized", ("a" :> 3) @@ ("only" :> 1))
      [] r = NewRev -> Norm("normalized", ("a" :> v) @@ (Renamed(v) :> 1))
      [] r = TieRev /\ v = 1 -> Norm("partially_parsed", ("a" :> 2) @@ ("only" :> 2))
      [] r = TieRev -> Norm("normalized", "a" :> 2)
      [] OTHER -> IF v = 1 THEN Norm("unsupported", Nothing) ELSE Norm("normalized", "a" :> 1)

MCParse == [r \in Revision |-> [v \in Version |-> ParseOf(r, v)]]

\* Two upgrades rename "b1" twice: EventLinks.cfg.
ASSUME UpgradesOnce == RenamedOnce <=> MaxVersion <= 2
=============================================================================
