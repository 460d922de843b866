-------------------------------- MODULE Orders --------------------------------
(* Tasks in the order of their creation, and places of a queue in order:   *)
(* both are numbers.                                                       *)
EXTENDS Integers, Sequences, FiniteSets

IsAscending(s) == \A j, k \in DOMAIN s : j < k => s[j] < s[k]

(* The elements of a finite set of numbers, the least one first.           *)
Ascending(S) == CHOOSE s \in [1..Cardinality(S) -> S] : IsAscending(s)
=============================================================================
