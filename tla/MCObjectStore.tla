---------------------------- MODULE MCObjectStore ----------------------------
(* Two Traces, three Revisions and three files: rev2 replaces a file of rev1, *)
(* rev3 belongs to another Trace and shares a file with rev1 and rev2.        *)
EXTENDS ObjectStore, TLC

MCRevision == {"rev1", "rev2", "rev3"}
MCTrace == {"t1", "t2"}
MCDigest == {"shared", "old", "new"}
MCOwnerOf == ("rev1" :> "t1") @@ ("rev2" :> "t1") @@ ("rev3" :> "t2")
MCObjectsOf ==
    ("rev1" :> {"shared", "old"}) @@ ("rev2" :> {"shared", "new"}) @@ ("rev3" :> {"shared"})
=============================================================================
