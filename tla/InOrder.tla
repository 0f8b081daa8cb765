------------------------------- MODULE InOrder -------------------------------
(***************************************************************************)
(* The order in which both caches hand out what they store: by position in *)
(* the file, by id in the table.                                           *)
(***************************************************************************)
EXTENDS Naturals, FiniteSets

(* How many members of a set of numbers come no later than n.              *)
Rank(S, n) == Cardinality({k \in S : k <= n})

(* The members of a finite set of numbers, in increasing order.            *)
Ascending(S) == [i \in 1..Cardinality(S) |-> CHOOSE n \in S : Rank(S, n) = i]
=============================================================================
