------------------------ MODULE MCDeferredExecution ------------------------
(* Values of the constants of DeferredExecution for TLC. *)
EXTENDS DeferredExecution

\* Every job carries all signals.
MCBatch == [j \in Jobs |-> Signals]
=============================================================================
