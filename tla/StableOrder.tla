---------------------------- MODULE StableOrder ----------------------------
(***************************************************************************)
(* What Python's sorted() makes of some of the rows of a list: they come   *)
(* by their rank, and those of the same rank as they were.                 *)
(***************************************************************************)
EXTENDS Integers, FiniteSets

\* The places that come before place k.
Preceding(places, rank, k) == {j \in places : rank[j] < rank[k] \/ (rank[j] = rank[k] /\ j < k)}

InOrder(rows, places, rank) ==
  [i \in 1..Cardinality(places) |->
     rows[CHOOSE k \in places : Cardinality(Preceding(places, rank, k)) = i - 1]]

\* Some of the rows, as they were.
Chosen(rows, places) == InOrder(rows, places, [k \in places |-> 0])
=============================================================================
