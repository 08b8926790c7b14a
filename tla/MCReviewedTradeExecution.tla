---------------------- MODULE MCReviewedTradeExecution ----------------------
(* Values of the constants of ReviewedTradeExecution for TLC. *)
EXTENDS ReviewedTradeExecution, TLC

\* Clients create reviewed and approved trades.
MCCreateStatuses == {"REVIEWED", "APPROVED"}

\* Reviewers approve or reject; a second set lets them fail a trade as well.
MCApproveOrReject == {"APPROVED", "REJECTED"}
MCApproveRejectFail == {"APPROVED", "REJECTED", "FAILED"}
MCApproveOrExit == {"APPROVED", "EXITED"}

\* The simulator fills; the live adapter accepts, blocks, or passes through a
\* broker status the workflow does not know.
MCAllAnswers == [m \in Modes |->
  IF m = "PAPER" THEN {"FILLED"} ELSE {"ACCEPTED", "BLOCKED", Unmapped}]
MCKnownAnswers == [m \in Modes |->
  IF m = "PAPER" THEN {"FILLED"} ELSE {"ACCEPTED", "BLOCKED", "FAILED"}]

Symmetry == Permutations(Sessions)
=============================================================================
