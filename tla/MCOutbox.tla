------------------------------ MODULE MCOutbox ------------------------------
(* Values of the constants of Outbox for TLC. *)
EXTENDS Outbox

Delivered == [arrives |-> TRUE,  reply |-> TRUE]
AckLost   == [arrives |-> TRUE,  reply |-> FALSE]
Refused   == [arrives |-> FALSE, reply |-> FALSE]
Dropped   == [arrives |-> FALSE, reply |-> TRUE]

\* The bus may refuse, may lose the answer, and may confirm what it drops.
MCOutcomes == [e \in Events |-> {Delivered, AckLost, Refused, Dropped}]

\* The event with the lowest id can never be delivered.
MCPoison ==
  [e \in Events |-> IF \A f \in Events : e <= f THEN {Refused} ELSE {Delivered, AckLost, Refused}]
=============================================================================
