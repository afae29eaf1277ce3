---------------------------- MODULE MCCollection ----------------------------
(* Two sources, of a Trace each or of the same one.                            *)
EXTENDS Collection, TLC

MCTwo == [s \in Source |-> s]
MCSame == [s \in Source |-> 1]
MCFiles == Source
MCForeign == {{<<1, 1>>}}

Uploads == Permutations(Uploader)
=============================================================================
