---------------------------- MODULE MCRebuildRows ----------------------------
(* Trace a has two Revisions, b and c one each: enough for an item of the      *)
(* batch to name a Revision of one Trace and the row of another.               *)
EXTENDS RebuildRows, TLC

MCFiles == {"a1", "a2", "b1", "c1"}
MCNative == {"a", "b", "c"}
MCOwnerOf == ("a1" :> "a") @@ ("a2" :> "a") @@ ("b1" :> "b") @@ ("c1" :> "c")
=============================================================================
