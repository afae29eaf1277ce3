------------------------------ MODULE SortedSets ------------------------------
(* Finite sets in the order of a relation that is total on them: ORDER BY.  The  *)
(* k-th element is the one that k - 1 others are before.                         *)
EXTENDS FiniteSets, Integers

Sorted(S, before(_, _)) ==
    [k \in 1..Cardinality(S) |-> CHOOSE x \in S : Cardinality({y \in S : before(y, x)}) = k - 1]

\* Numbers, the smallest or the largest first.
Upward(S) == Sorted(S, <)
Downward(S) == Sorted(S, >)
=============================================================================
