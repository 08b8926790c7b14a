---------------------------- MODULE TradeStatuses ----------------------------
(***************************************************************************)
(* The status vocabulary of a reviewed trade and of an execution, the      *)
(* table of transitions a reviewed trade may make, and the translations    *)
(* between the three execution vocabularies that meet in the reviewed-     *)
(* trade workflow: what the broker adapter answers, what the canonical     *)
(* service stores in executions_v2, and what the executions table keeps.   *)
(***************************************************************************)

ReviewedTradeStatus ==
  {"REVIEWED", "APPROVED", "REJECTED", "EXECUTE_REQUESTED",
   "EXECUTION_REJECTED", "EXECUTED", "EXITED", "FAILED"}

\* The statuses each status may move to.
AllowedTransitions ==
  [st \in ReviewedTradeStatus |->
     CASE st = "REVIEWED"          -> {"APPROVED", "REJECTED", "FAILED"}
       [] st = "APPROVED"          -> {"EXECUTE_REQUESTED", "REJECTED", "FAILED"}
       [] st = "EXECUTE_REQUESTED" -> {"EXECUTION_REJECTED", "EXECUTED", "FAILED"}
       [] st = "EXECUTED"          -> {"EXITED"}
       [] OTHER                    -> {}]

\* Mutant: the move is not validated.
UncheckedTransition(from, to) == TRUE

CanTransition(from, to) == from = to \/ to \in AllowedTransitions[from]

-----------------------------------------------------------------------------
(* Execution statuses *)

Successful == {"ACCEPTED", "FILLED", "EXECUTED"}
Blocked    == {"BLOCKED", "SKIPPED", "REJECTED"}

\* A broker status outside ExecutionLifecycleStatus ("TRADED",
\* "PENDING_LIVE_ROUTE", ...), which normalize_execution_status refuses.
Unmapped == "UNMAPPED"

\* What an adapter can answer, and what the executions table can hold.
Answers == Successful \cup Blocked \cup {"FAILED", Unmapped}

\* What the canonical service stores in executions_v2 for an answer.
CanonicalStatuses == {"EXECUTED", "ACCEPTED", "REJECTED", "FAILED"}

\* Mutant: the broker's answer is stored as it came.
UntranslatedStatus(a) == a

CanonicalStatus(a) ==
  CASE a \in {"FILLED", "EXECUTED"} -> "EXECUTED"
    [] a = "ACCEPTED"               -> "ACCEPTED"
    [] a \in Blocked                -> "REJECTED"
    [] OTHER                        -> "FAILED"

\* Mutant: a refused order reads back as a failed one.
LegacyStatusLosesRefusal(result, mode) ==
  CASE result = "EXECUTED" -> IF mode = "PAPER" THEN "FILLED" ELSE "EXECUTED"
    [] result = "ACCEPTED" -> "ACCEPTED"
    [] OTHER               -> "FAILED"

\* The executions-table status of a result that was read back from
\* executions_v2 because the adapter was not called for this request.
LegacyStatus(result, mode) ==
  CASE result = "EXECUTED" -> IF mode = "PAPER" THEN "FILLED" ELSE "EXECUTED"
    [] result = "ACCEPTED" -> "ACCEPTED"
    [] result = "REJECTED" -> "BLOCKED"
    [] OTHER               -> "FAILED"

\* Mutants: every answered order counts as executed; a failed one is forgotten.
OptimisticTarget(a) == IF a = "FAILED" THEN "FAILED" ELSE "EXECUTED"
TargetWithoutFailure(a) ==
  CASE a \in Successful -> "EXECUTED"
    [] a \in Blocked    -> "EXECUTION_REJECTED"
    [] OTHER            -> "EXECUTE_REQUESTED"

\* Where an execution of status a takes its reviewed trade.
CompletionTarget(a) ==
  CASE a \in Successful -> "EXECUTED"
    [] a \in Blocked    -> "EXECUTION_REJECTED"
    [] OTHER            -> "FAILED"
=============================================================================
