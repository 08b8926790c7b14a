--------------------------- MODULE Services_proofs ---------------------------
(***************************************************************************)
(* What the callers of the services can rely on.  The direct execution     *)
(* service, an analysis run and the validation of candidates: for any      *)
(* items, batches, answers, runs, failures and scores.  Files and caches   *)
(* that several processes read and write without a lock: what the pages of *)
(* the web application keep and show of the log and the report, what the   *)
(* metrics file can be relied on for, and what callers of the candles and  *)
(* of the signals are answered, for any callers, questions and ages,       *)
(* however their calls overlap.                                            *)
(***************************************************************************)
EXTENDS DirectExecution, AnalysisRun, TradeValidation, DashboardViews, Observability, ProductionSignals,
        FiniteSetTheorems, SequenceTheorems, TLAPS

-----------------------------------------------------------------------------
(* Direct execution *)

InHandOf(t) == item.step \in {"claimed", "answered"} /\ item.of = t

DirectTyped ==
  /\ DOMAIN durable = Items /\ DOMAIN decisions = Items
  /\ flushed \in [Items -> {Nothing, Claimed}] /\ ordered \in [Items -> Nat]
  /\ item \in [step : {"idle", "between", "claimed", "answered"}, of : Items \cup {NoRow},
               answer : Answers \cup {"INCOMPLETE", "RAISED", NoRow}]
  /\ item.step = "answered" => item.answer # NoRow

\* The item in hand is still to come, and its claim is in the session.
HandClaimed == item.step \in {"claimed", "answered"} => item.of \in Items \cap pending /\ flushed[item.of] = Claimed

\* Any other claim in the session is one whose answer was incomplete.
ClaimsLeft == \A t \in Items : flushed[t] # Nothing => t \in unrecorded \/ InHandOf(t)

\* An order is in hand or has left its row; what is claimed has none yet.
OrdersLeaveRows ==
  \A t \in Items \ unrecorded :
    /\ ordered[t] <= 1
    /\ InHandOf(t) /\ item.step = "claimed" => durable[t].row = NoRow
    /\ ordered[t] > 0 => durable[t].row # NoRow \/ (InHandOf(t) /\ item.step = "answered")

\* What is decided is not taken up again by its batch, and what is shown as executed
\* has left nothing in the session.
DecidedIsOver ==
  \A t \in Items : /\ decisions[t] # NoRow => t \notin pending
                   /\ decisions[t] = "EXECUTED" => flushed[t] = Nothing

\* What is shown as executed is.
ExecutedShown ==
  \A t \in Items :
    decisions[t] = "EXECUTED" => durable[t].row \in Successful /\ durable[t].trade = "EXECUTED"

DirectInv ==
  /\ DirectTyped /\ HandClaimed /\ ClaimsLeft /\ OrdersLeaveRows /\ DecidedIsOver
  /\ ClaimsEnd /\ ExecutedShown

\* The records that stand for states differ.
LEMMA RowsDiffer ==
  /\ Claimed # Nothing /\ Approved # Nothing
  /\ Claimed.row = "PENDING" /\ Approved.row = NoRow /\ Nothing.row = NoRow
  /\ Claimed.row # NoRow
  /\ \A x, y : /\ [trade |-> x, row |-> y].row = y /\ [trade |-> x, row |-> y].trade = x
BY DEF Claimed, Nothing, Approved, NoRow

LEMMA DirectInitInv == DirectInit => DirectInv
<1>. SUFFICES ASSUME DirectInit PROVE DirectInv
  OBVIOUS
<1>1. DirectTyped
  BY DEF DirectInit, DirectTyped
<1>2. \A t \in Items : durable[t] = Approved /\ flushed[t] = Nothing /\ decisions[t] = NoRow /\ ordered[t] = 0
  BY DEF DirectInit
<1>3. item.step = "idle"
  BY DEF DirectInit
<1>. QED BY <1>1, <1>2, <1>3, RowsDiffer
     DEF DirectInv, HandClaimed, ClaimsLeft, OrdersLeaveRows, DecidedIsOver, ClaimsEnd, ExecutedShown, NoRow

\* An admissible item has neither a row nor an order that was recorded.
LEMMA AdmissibleIsFresh ==
  ASSUME DirectInv, NEW t \in Items, Admissible(t), item.step = "between", t \notin unrecorded
  PROVE  flushed[t] = Nothing /\ durable[t].row = NoRow /\ ordered[t] = 0
<1>1. flushed[t] = Nothing
  BY DEF DirectInv, ClaimsLeft, InHandOf
<1>2. durable[t].row = NoRow
  BY <1>1 DEF Admissible, View
<1>3. ordered[t] \in Nat /\ ~(ordered[t] > 0)
  BY <1>2 DEF DirectInv, DirectTyped, OrdersLeaveRows, InHandOf
<1>. QED BY <1>1, <1>2, <1>3

LEMMA BeginBatchInv == ASSUME DirectInv, BeginBatch PROVE DirectInv'
<1>1. item'.step = "between" /\ item.step = "idle" /\ DirectTyped'
  BY DEF BeginBatch, DirectInv, DirectTyped
<1>2. \A t \in Items : decisions'[t] = NoRow
  BY DEF BeginBatch
<1>. QED BY <1>1, <1>2
     DEF BeginBatch, DirectInv, HandClaimed, ClaimsLeft, OrdersLeaveRows, DecidedIsOver, ClaimsEnd,
         ExecutedShown, InHandOf, NoRow

\* A decision that did not execute the item, with nothing committed.
LEMMA NothingCommitted ==
  ASSUME DirectInv, NEW t \in Items, NEW error, NEW status \in {"BLOCKED", "FAILED"}, Decide(t, status, error),
         item.step = "between" \/ item.of = t, t \in pending,
         UNCHANGED <<durable, ordered>>, unrecorded \subseteq unrecorded',
         flushed' = flushed \/ flushed' = [u \in Items |-> Nothing],
         item.step = "answered" \/ (item.step = "claimed" /\ flushed' = flushed) => t \in unrecorded'
  PROVE  DirectInv'
<1>1. item'.step = "between" /\ pending' \subseteq pending
  BY DEF Decide
<1>2. DirectTyped'
  BY DEF DirectInv, DirectTyped, Decide
<1>3. \A u \in Items : decisions'[u] = IF u = t THEN status ELSE decisions[u]
  BY DEF Decide, DirectInv, DirectTyped
<1>4. \A u \in Items : flushed'[u] = flushed[u] \/ flushed'[u] = Nothing
  OBVIOUS
<1>5. HandClaimed' /\ DecidedIsOver' /\ ClaimsEnd' /\ ExecutedShown'
  BY <1>1, <1>3, <1>4 DEF DirectInv, DirectTyped, HandClaimed, DecidedIsOver, ClaimsEnd, ExecutedShown, Decide
<1>6. ClaimsLeft'
  BY <1>1, <1>4 DEF DirectInv, ClaimsLeft, InHandOf
<1>7. OrdersLeaveRows'
  BY <1>1 DEF DirectInv, OrdersLeaveRows, InHandOf
<1>. QED BY <1>2, <1>5, <1>6, <1>7 DEF DirectInv

LEMMA RefusalsInv ==
  ASSUME DirectInv, (\E t \in Items : GatePayload(t) \/ Refuse(t)) \/ RefuseIncomplete \/ FailToRecord
           \/ (\E t \in Items : Break(t))
  PROVE  DirectInv'
<1>1. ASSUME NEW t \in Items, GatePayload(t) \/ Refuse(t) PROVE DirectInv'
  BY <1>1, NothingCommitted DEF GatePayload, Refuse
<1>2. ASSUME RefuseIncomplete \/ FailToRecord PROVE DirectInv'
  <2>1. item.of \in Items /\ item.of \in pending /\ item.step = "answered"
    BY <1>2 DEF DirectInv, HandClaimed, RefuseIncomplete, FailToRecord
  <2>2. Decide(item.of, "BLOCKED", TRUE) /\ unrecorded' = unrecorded \cup {item.of}
    BY <1>2 DEF RefuseIncomplete, FailToRecord
  <2>3. /\ UNCHANGED <<durable, ordered>>
        /\ flushed' = flushed \/ flushed' = [u \in Items |-> Nothing]
    BY <1>2 DEF RefuseIncomplete, FailToRecord, Rollback
  <2>. QED BY <2>1, <2>2, <2>3, NothingCommitted
<1>3. ASSUME NEW t \in Items, Break(t) PROVE DirectInv'
  <2>1. /\ t \in pending /\ (item.step = "between" \/ item.of = t)
        /\ item.step = "answered" => t \in unrecorded'
    BY <1>3 DEF DirectInv, HandClaimed, Break
  <2>2. /\ UNCHANGED <<durable, ordered>> /\ unrecorded \subseteq unrecorded'
        /\ flushed' = [u \in Items |-> Nothing] /\ Decide(t, "FAILED", TRUE)
    BY <1>3 DEF Break, Rollback
  <2>3. item.step = "claimed" => flushed' # flushed
    BY <2>1, <2>2, RowsDiffer DEF DirectInv, HandClaimed
  <2>. QED BY <2>1, <2>2, <2>3, NothingCommitted
<1>. QED BY <1>1, <1>2, <1>3

LEMMA ClaimInv == ASSUME DirectInv, NEW t \in Items, Claim(t) PROVE DirectInv'
<1>1. item' = [step |-> "claimed", of |-> t, answer |-> NoRow] /\ item.step = "between" /\ t \in pending
  BY DEF Claim
<1>2. item'.step = "claimed" /\ item'.of = t
  BY <1>1
<1>3. \A u \in Items : flushed'[u] = IF u = t THEN Claimed ELSE flushed[u]
  BY DEF Claim, DirectInv, DirectTyped
<1>4. DirectTyped'
  BY <1>1 DEF Claim, DirectInv, DirectTyped
<1>5. HandClaimed' /\ ClaimsLeft'
  BY <1>1, <1>2, <1>3 DEF Claim, DirectInv, HandClaimed, ClaimsLeft, InHandOf
<1>6. OrdersLeaveRows'
  BY <1>1, <1>2, AdmissibleIsFresh DEF Claim, DirectInv, OrdersLeaveRows, InHandOf
<1>7. DecidedIsOver' /\ ClaimsEnd' /\ ExecutedShown'
  BY <1>1, <1>3 DEF Claim, DirectInv, DecidedIsOver, ClaimsEnd, ExecutedShown, NoRow
<1>. QED BY <1>4, <1>5, <1>6, <1>7 DEF DirectInv

LEMMA LoseClaimInv == ASSUME DirectInv, NEW t \in Items, LoseClaim(t) PROVE DirectInv'
<1>1. item'.step = "between" /\ item.step = "between" /\ pending' \subseteq pending /\ t \in pending
  BY DEF LoseClaim, Decide
<1>2. \A u \in Items : decisions'[u] = IF u = t THEN "BLOCKED" ELSE decisions[u]
  BY DEF LoseClaim, Decide, DirectInv, DirectTyped
<1>3. \A u \in Items : flushed'[u] = Nothing
  BY DEF LoseClaim
<1>4. \A u \in Items \ {t} : durable'[u] = durable[u]
  BY DEF LoseClaim, DirectInv, DirectTyped
<1>5. durable'[t].row = "FILLED"
  BY DEF LoseClaim, DirectInv, DirectTyped
<1>6. DirectTyped'
  BY DEF LoseClaim, Decide, DirectInv, DirectTyped
<1>7. HandClaimed' /\ ClaimsLeft'
  BY <1>1, <1>3 DEF HandClaimed, ClaimsLeft
<1>8. OrdersLeaveRows'
  BY <1>1, <1>4, <1>5, AdmissibleIsFresh DEF LoseClaim, DirectInv, OrdersLeaveRows, InHandOf, NoRow
<1>9. t \notin pending'
  BY DEF LoseClaim, Decide
<1>10. DecidedIsOver' /\ ClaimsEnd' /\ ExecutedShown'
  BY <1>1, <1>2, <1>3, <1>4, <1>5, <1>9 DEF LoseClaim, DirectInv, DecidedIsOver, ClaimsEnd, ExecutedShown
<1>. QED BY <1>6, <1>7, <1>8, <1>10 DEF DirectInv

\* A counter of a family goes up by one.
LEMMA OneMore ==
  ASSUME NEW S, NEW f \in [S -> Nat], NEW s
  PROVE  [f EXCEPT ![s] = @ + 1] \in [S -> Nat]
<1>1. [f EXCEPT ![s] = @ + 1] = [k \in S |-> IF k = s THEN f[k] + 1 ELSE f[k]]
  OBVIOUS
<1>2. \A k \in S : (IF k = s THEN f[k] + 1 ELSE f[k]) \in Nat
  OBVIOUS
<1>. QED BY <1>1, <1>2

LEMMA PlaceDirectOrderInv == ASSUME DirectInv, PlaceDirectOrder PROVE DirectInv'
<1>1. PICK a \in AdapterAnswers : item' = [item EXCEPT !.step = "answered", !.answer = a]
  BY DEF PlaceDirectOrder
<1>2. a \in Answers \cup {"INCOMPLETE", "RAISED"} /\ a # NoRow
  BY DEF AdapterAnswers, Answers, Successful, Blocked, Unmapped, NoRow
<1>3. item'.step = "answered" /\ item'.of = item.of /\ item.step = "claimed" /\ item.of \in Items
  BY <1>1 DEF PlaceDirectOrder, DirectInv, DirectTyped, HandClaimed
<1>4. \A u \in Items : ordered'[u] = IF u = item.of THEN ordered[u] + 1 ELSE ordered[u]
  BY DEF PlaceDirectOrder, DirectInv, DirectTyped
<1>5. ordered' \in [Items -> Nat]
  BY OneMore DEF PlaceDirectOrder, DirectInv, DirectTyped
<1>6. DirectTyped'
  BY <1>1, <1>2, <1>5 DEF PlaceDirectOrder, DirectInv, DirectTyped
<1>7. HandClaimed' /\ ClaimsLeft' /\ DecidedIsOver' /\ ClaimsEnd' /\ ExecutedShown'
  BY <1>3 DEF PlaceDirectOrder, DirectInv, HandClaimed, ClaimsLeft, DecidedIsOver, ClaimsEnd, ExecutedShown, InHandOf
<1>8. OrdersLeaveRows'
  <2>1. item.of \in unrecorded \/ ordered[item.of] = 0
    BY <1>3 DEF DirectInv, DirectTyped, OrdersLeaveRows, InHandOf
  <2>. QED BY <1>3, <1>4, <2>1 DEF PlaceDirectOrder, DirectInv, OrdersLeaveRows, InHandOf
<1>. QED BY <1>6, <1>7, <1>8 DEF DirectInv

\* What is committed: the outcome of the item in hand, and claims whose answer
\* was incomplete.
LEMMA OutcomeCommitted ==
  ASSUME DirectInv, NEW outcome, NEW status, NEW error, item.step = "answered",
         outcome.row \notin {NoRow, "PENDING"}, outcome # Nothing,
         Commit([flushed EXCEPT ![item.of] = outcome]), Decide(item.of, status, error),
         UNCHANGED <<ordered, unrecorded>>,
         status # NoRow,
         status = "EXECUTED" => outcome.row \in Successful /\ outcome.trade = "EXECUTED"
  PROVE  DirectInv'
<1>1. item'.step = "between" /\ pending' \subseteq pending \ {item.of}
  BY DEF Decide
<1>2. item.of \in Items /\ item.of \in pending
  BY DEF DirectInv, HandClaimed
<1>3. \A u \in Items : /\ decisions'[u] = IF u = item.of THEN status ELSE decisions[u]
                       /\ flushed'[u] = Nothing
  BY DEF Decide, Commit, DirectInv, DirectTyped
<1>4. durable'[item.of] = outcome
  BY <1>2 DEF Commit, DirectInv, DirectTyped
<1>5. \A u \in Items \ {item.of} : durable'[u] = IF flushed[u] = Nothing THEN durable[u] ELSE flushed[u]
  BY DEF Commit, DirectInv, DirectTyped
<1>6. \A u \in Items \ {item.of} : /\ durable'[u] # durable[u] => u \in unrecorded
                                   /\ decisions[u] = "EXECUTED" => durable'[u] = durable[u]
  BY <1>5 DEF DirectInv, ClaimsLeft, DecidedIsOver, InHandOf
<1>7. DirectTyped'
  BY DEF Commit, Decide, DirectInv, DirectTyped
<1>8. HandClaimed' /\ ClaimsLeft'
  BY <1>1, <1>3 DEF HandClaimed, ClaimsLeft
<1>9. OrdersLeaveRows'
  BY <1>1, <1>2, <1>4, <1>6 DEF DirectInv, OrdersLeaveRows, InHandOf
<1>10. DecidedIsOver' /\ ClaimsEnd'
  BY <1>1, <1>3, <1>4, <1>6 DEF DirectInv, DecidedIsOver, ClaimsEnd
<1>11. ExecutedShown'
  BY <1>3, <1>4, <1>6 DEF DirectInv, ExecutedShown
<1>. QED BY <1>7, <1>8, <1>9, <1>10, <1>11 DEF DirectInv

LEMMA RecordRaisedInv == ASSUME DirectInv, RecordRaised PROVE DirectInv'
<1>1. CompletionTarget("FAILED") = "FAILED"
  BY DEF CompletionTarget, Successful, Blocked
<1>. DEFINE outcome == [trade |-> CompletionTarget("FAILED"), row |-> "FAILED"]
<1>2. outcome.row \notin {NoRow, "PENDING"} /\ outcome # Nothing
  BY <1>1, RowsDiffer DEF NoRow
<1>3. PICK status \in {"FAILED", "BLOCKED"} : Decide(item.of, status, TRUE)
  BY DEF RecordRaised
<1>4. /\ item.step = "answered" /\ Commit([flushed EXCEPT ![item.of] = outcome])
      /\ UNCHANGED <<ordered, unrecorded>>
  BY DEF RecordRaised
<1>5. status # NoRow /\ status # "EXECUTED"
  BY <1>3 DEF NoRow
<1>. HIDE DEF outcome
<1>. QED BY <1>2, <1>3, <1>4, <1>5, OutcomeCommitted

LEMMA CompleteInv == ASSUME DirectInv, Complete PROVE DirectInv'
<1>. DEFINE outcome == [trade |-> CompletionTarget(item.answer), row |-> item.answer]
<1>1. outcome.row = item.answer /\ outcome.trade = CompletionTarget(item.answer)
  OBVIOUS
<1>2. item.answer \in Successful \cup Blocked \cup {"FAILED"}
  BY DEF Complete, DirectInv, DirectTyped, Answers
<1>3. outcome.row \notin {NoRow, "PENDING"} /\ outcome # Nothing
  BY <1>1, <1>2, RowsDiffer DEF NoRow, Successful, Blocked
<1>4. PICK status \in {MappedStatus(item.answer), "FAILED"}, error \in BOOLEAN : Decide(item.of, status, error)
  BY DEF Complete
<1>5. /\ status # NoRow
      /\ status = "EXECUTED" => outcome.row \in Successful /\ outcome.trade = "EXECUTED"
  BY <1>1, <1>2, <1>4 DEF MappedStatus, CompletionTarget, Blocked, NoRow
<1>6. /\ item.step = "answered" /\ Commit([flushed EXCEPT ![item.of] = outcome])
      /\ UNCHANGED <<ordered, unrecorded>>
  BY DEF Complete
<1>. HIDE DEF outcome
<1>. QED BY <1>3, <1>4, <1>5, <1>6, OutcomeCommitted

LEMMA EndBatchInv == ASSUME DirectInv, EndBatch PROVE DirectInv'
<1>1. item'.step = "idle" /\ item.step = "between"
  BY DEF EndBatch, DirectInv, DirectTyped
<1>2. \A u \in Items : flushed'[u] = Nothing
  BY DEF EndBatch, Rollback
<1>3. DirectTyped'
  BY DEF EndBatch, Rollback, DirectInv, DirectTyped
<1>4. durable' = durable /\ UNCHANGED <<pending, decisions, ordered, unrecorded>>
  BY DEF EndBatch, Rollback
<1>. QED BY <1>1, <1>2, <1>3, <1>4
     DEF DirectInv, HandClaimed, ClaimsLeft, OrdersLeaveRows, DecidedIsOver, ClaimsEnd, ExecutedShown, InHandOf

LEMMA DirectStep == ASSUME DirectInv, [DirectNext]_directVars PROVE DirectInv'
<1>1. CASE DirectNext
  BY <1>1, BeginBatchInv, PlaceDirectOrderInv, RecordRaisedInv, RefusalsInv, CompleteInv, EndBatchInv,
     ClaimInv, LoseClaimInv DEF DirectNext
<1>2. CASE UNCHANGED directVars
  BY <1>2 DEF directVars, DirectInv, DirectTyped, HandClaimed, ClaimsLeft, OrdersLeaveRows, DecidedIsOver,
              ClaimsEnd, ExecutedShown, InHandOf
<1>. QED BY <1>1, <1>2

\* However many batches name an item it is ordered once unless its answer could not
\* be stored, and a claim is committed without an outcome only for such an order.  An
\* item is shown as executed only if it is, and whatever is shown of an item whose
\* order went out, its outcome is in the tables unless it could not be stored
\* (domain/execution/service.py).
THEOREM DirectOutcomesKept == DirectSpec => []DirectOutcomesHold
<1>1. DirectInv => DirectOutcomesHold
  <2>1. DirectInv => OrderedOnce
    BY DEF DirectInv, DirectTyped, OrdersLeaveRows, OrderedOnce
  <2>2. DirectInv => DecisionsTrue
    BY DEF DirectInv, HandClaimed, OrdersLeaveRows, DecidedIsOver, ClaimsEnd, ExecutedShown, DecisionsTrue, InHandOf
  <2>. QED BY <2>1, <2>2 DEF DirectInv, DirectOutcomesHold
<1>. QED BY <1>1, DirectInitInv, DirectStep, PTL DEF DirectSpec

-----------------------------------------------------------------------------
(* Runs of the live analysis *)

Places ==
  {"asked", "analysed", "notified", "executed", "answered", "json", "filed", "text", "stored",
   "returned", "done", "failed"}
RunRecords ==
  [at : Places, ask : RunAsks, signals : BOOLEAN, mode : {"NONE", "PAPER", "LIVE"},
   traded : SUBSET {"NONE", "PAPER", "LIVE"}, sent : BOOLEAN, queued : BOOLEAN,
   json : {NoFile} \cup {ReportName(time, "json") : time \in Nat},
   text : {NoFile} \cup {ReportName(time, "txt") : time \in Nat}]

RunsTyped == run \in [Runs -> RunRecords] /\ second \in Nat

\* What is traded is what the run would execute, and in whose mode.
TradesTrue(r) ==
  /\ run[r].at # "asked" => run[r].mode = ResolveWorkspaceAutoExecutionMode(run[r].ask)
  /\ run[r].traded # {} => /\ run[r].at # "asked" /\ run[r].traded = {run[r].mode} /\ ToExecute(r)
                           /\ run[r].ask.route \/ run[r].at = "done"

Chance(yes) == IF yes THEN MaxAttempts ELSE 0

NoticeStates == {"none", "waiting", "handled", "consumed"}
Delivered == {"handled", "consumed"}

\* What deliveries by the broker that were not the last may have added.
Repeats(n) == MaxAttempts * n

\* The chat hears of a run from the run, and from the bus with every delivery.
ChatTrue(r) ==
  /\ run[r].at \in {"asked", "analysed"} => notice[r] = "none" /\ heard[r] = 0 /\ ~run[r].sent
  /\ heard[r] <= Chance(notice[r] \in Delivered) + Chance(run[r].ask.deliver) + Repeats(again[r])
  /\ run[r].sent => heard[r] > 0
  /\ notice[r] # "none" \/ heard[r] > 0 => run[r].signals

\* Which files a run has named by the place it is at.
FilesNamed(r) ==
  /\ run[r].at \in {"json", "filed", "text", "stored"} => run[r].ask.route
  /\ run[r].at = "returned" => ~run[r].ask.route
  /\ run[r].at \in {"asked", "analysed", "notified", "executed", "answered", "returned"}
       => run[r].json = NoFile /\ run[r].text = NoFile
  /\ run[r].at \in {"json", "filed"} => run[r].text = NoFile
  /\ run[r].at \in {"json", "filed", "text", "stored"} \/ (run[r].at = "done" /\ run[r].ask.route)
       => run[r].json # NoFile
  /\ run[r].at \in {"text", "stored"} \/ (run[r].at = "done" /\ run[r].ask.route) => run[r].text # NoFile

\* A json or a text that no other run has named is empty until it is written.
JsonOwn(r) ==
  run[r].json # NoFile =>
    /\ run[r].json \in DOMAIN reports
    /\ (\A other \in Runs \ {r} : run[other].json # run[r].json) =>
         /\ run[r].at = "json" => reports[run[r].json] = Emptied
         /\ run[r].at \notin {"json", "failed"} => reports[run[r].json] = <<r, "json">>
TextOwn(r) ==
  run[r].text # NoFile =>
    /\ run[r].text \in DOMAIN reports
    /\ (\A other \in Runs \ {r} : run[other].text # run[r].text) =>
         /\ run[r].at = "text" => reports[run[r].text] = Emptied
         /\ run[r].at \notin {"text", "failed"} => reports[run[r].text] = <<r, "txt">>

\* The newest file is of a run, and there is one once a run has named one.
NewestTrue ==
  /\ newest # NoFile => \E r \in Runs : run[r].json = newest
  /\ \A r \in Runs : run[r].json # NoFile => newest # NoFile

AnalysisInv ==
  /\ RunsTyped /\ notice \in [Runs -> NoticeStates] /\ heard \in [Runs -> Nat]
  /\ again \in [Runs -> Nat]
  /\ \A r \in Runs : TradesTrue(r) /\ ChatTrue(r) /\ FilesNamed(r) /\ JsonOwn(r) /\ TextOwn(r)
  /\ NewestTrue

LEMMA AsksTyped ==
  \A ask \in RunAsks : /\ ask.route \in BOOLEAN /\ ask.auto \in BOOLEAN /\ ask.send \in BOOLEAN /\ ask.deliver \in BOOLEAN
                       /\ ask.type \in {"NONE", "PAPER", "LIVE"}
BY AnalysisAssumption

\* A json is no text, and neither is no file.
LEMMA NamesDiffer ==
  ASSUME NEW s, NEW t
  PROVE  /\ ReportName(s, "json") # ReportName(t, "txt") /\ ReportName(s, "json") # NoFile
         /\ ReportName(s, "txt") # NoFile
BY DEF ReportName, NoFile

LEMMA FieldsTyped ==
  ASSUME RunsTyped, NEW r \in Runs
  PROVE  /\ run[r] \in RunRecords /\ run[r].at \in Places /\ run[r].ask \in RunAsks /\ run[r].signals \in BOOLEAN
         /\ run[r].sent \in BOOLEAN /\ run[r].mode \in {"NONE", "PAPER", "LIVE"}
         /\ run[r].traded \subseteq {"NONE", "PAPER", "LIVE"}
BY DEF RunsTyped, RunRecords

\* A run that becomes something else leaves the others as they are.
LEMMA OthersStay ==
  ASSUME RunsTyped, NEW r \in Runs, NEW new, Becomes(r, new)
  PROVE  run'[r] = new /\ \A other \in Runs \ {r} : run'[other] = run[other]
BY DEF RunsTyped, Becomes

LEMMA OneRunMoves ==
  ASSUME AnalysisInv, NEW r \in Runs, NEW new \in RunRecords, Becomes(r, new), second' \in Nat,
         notice' \in [Runs -> NoticeStates], heard' \in [Runs -> Nat], again' = again,
         \A other \in Runs \ {r} : notice'[other] = notice[other] /\ heard'[other] = heard[other],
         TradesTrue(r)', ChatTrue(r)', FilesNamed(r)',
         \A o \in Runs : JsonOwn(o)' /\ TextOwn(o)', NewestTrue'
  PROVE  AnalysisInv'
<1>1. run'[r] = new /\ \A other \in Runs \ {r} : run'[other] = run[other]
  BY OthersStay DEF AnalysisInv
<1>2. RunsTyped'
  BY DEF AnalysisInv, RunsTyped, Becomes
<1>3. ASSUME NEW o \in Runs \ {r} PROVE TradesTrue(o)' /\ ChatTrue(o)' /\ FilesNamed(o)'
  <2>1. TradesTrue(o) /\ ChatTrue(o) /\ FilesNamed(o)
    BY DEF AnalysisInv
  <2>. QED BY <1>1, <2>1 DEF TradesTrue, ToExecute, ChatTrue, FilesNamed
<1>. QED BY <1>2, <1>3 DEF AnalysisInv

\* A run that names no file and writes none.
LEMMA ReportsStay ==
  ASSUME AnalysisInv, NEW r \in Runs, NEW new, Becomes(r, new), new.json = run[r].json, new.text = run[r].text,
         UNCHANGED <<reports, newest>>,
         new.at = "failed" \/ (run[r].at \notin {"json", "text", "failed"} /\ new.at \notin {"json", "text"})
  PROVE  (\A o \in Runs : JsonOwn(o)' /\ TextOwn(o)') /\ NewestTrue'
<1>1. run'[r] = new /\ \A other \in Runs \ {r} : run'[other] = run[other]
  BY OthersStay DEF AnalysisInv
<1>2. \A o \in Runs : run'[o].json = run[o].json /\ run'[o].text = run[o].text
  BY <1>1
<1>3. NewestTrue'
  BY <1>2 DEF AnalysisInv, NewestTrue
<1>4. ASSUME NEW o \in Runs PROVE JsonOwn(o)' /\ TextOwn(o)'
  <2>1. \/ run'[o].at = run[o].at
        \/ run'[o].at = "failed"
        \/ run[o].at \notin {"json", "text", "failed"} /\ run'[o].at \notin {"json", "text"}
    BY <1>1
  <2>2. JsonOwn(o) /\ TextOwn(o)
    BY DEF AnalysisInv
  <2>. QED BY <1>2, <2>1, <2>2 DEF JsonOwn, TextOwn
<1>. QED BY <1>3, <1>4

LEMMA RepeatsTyped ==
  ASSUME NEW n \in Nat
  PROVE  Repeats(n) \in Nat /\ Repeats(n + 1) = Repeats(n) + MaxAttempts /\ Repeats(0) = 0
BY AnalysisAssumption DEF Repeats

LEMMA AnalyseInv == ASSUME AnalysisInv, NEW r \in Runs, Analyse(r) PROVE AnalysisInv'
<1>1. PICK ask \in RunAsks, signals \in BOOLEAN :
        Becomes(r, [Waiting EXCEPT !.at = "analysed", !.ask = ask, !.signals = signals,
                                   !.mode = ResolveWorkspaceAutoExecutionMode(ask)])
  BY DEF Analyse
<1>. DEFINE new == [Waiting EXCEPT !.at = "analysed", !.ask = ask, !.signals = signals,
                                   !.mode = ResolveWorkspaceAutoExecutionMode(ask)]
<1>2. /\ new.at = "analysed" /\ new.ask = ask /\ new.signals = signals /\ new.traded = {} /\ new.sent = FALSE
      /\ new.mode = ResolveWorkspaceAutoExecutionMode(ask) /\ new.json = NoFile /\ new.text = NoFile
  BY DEF Waiting
<1>3. new \in RunRecords
  <2>1. ResolveWorkspaceAutoExecutionMode(ask) \in {"NONE", "PAPER", "LIVE"}
    BY AsksTyped DEF ResolveWorkspaceAutoExecutionMode
  <2>. QED BY <2>1 DEF RunRecords, Waiting, Places
<1>. HIDE DEF new
<1>4. Becomes(r, new) /\ run[r].at = "asked" /\ UNCHANGED <<notice, heard, again, reports, newest, second>>
  BY <1>1 DEF Analyse, At, chat, filesOfRuns, new
<1>5. run'[r] = new
  BY <1>4, OthersStay DEF AnalysisInv
<1>6. TradesTrue(r)' /\ ChatTrue(r)' /\ FilesNamed(r)'
  <2>1. ChatTrue(r) /\ heard[r] \in Nat
    BY DEF AnalysisInv
  <2>2. notice[r] = "none" /\ heard[r] = 0
    BY <1>4, <2>1 DEF ChatTrue
  <2>3. Chance(FALSE) + Chance(TRUE) \in Nat /\ Chance(FALSE) + Chance(FALSE) \in Nat
    BY AnalysisAssumption DEF Chance
  <2>4. again'[r] = again[r] /\ Repeats(again[r]) \in Nat
    BY <1>4, RepeatsTyped DEF AnalysisInv
  <2>5. 0 <= Chance(notice'[r] \in Delivered) + Chance(ask.deliver) + Repeats(again[r])
    BY <2>4, AnalysisAssumption DEF Chance
  <2>. QED BY <1>2, <1>4, <1>5, <2>2, <2>4, <2>5 DEF TradesTrue, ChatTrue, FilesNamed
<1>7. run[r].json = NoFile /\ run[r].text = NoFile
  BY <1>4 DEF AnalysisInv, FilesNamed
<1>8. (\A o \in Runs : JsonOwn(o)' /\ TextOwn(o)') /\ NewestTrue'
  BY <1>2, <1>4, <1>7, ReportsStay
<1>. QED BY <1>3, <1>4, <1>6, <1>8, OneRunMoves DEF AnalysisInv, RunsTyped

\* A run that goes on without the chat and the files.
LEMMA RunGoesOn ==
  ASSUME AnalysisInv, NEW r \in Runs, NEW place \in Places, NEW orders \in SUBSET {"NONE", "PAPER", "LIVE"},
         Becomes(r, [run[r] EXCEPT !.at = place, !.traded = orders]),
         UNCHANGED <<notice, heard, again, reports, newest, second>>,
         run[r].at \in {"analysed", "notified", "executed", "answered", "filed", "stored", "returned"},
         \/ place = "failed"
         \/ <<run[r].at, place>> \in {<<"analysed", "notified">>, <<"notified", "executed">>, <<"executed", "answered">>}
         \/ run[r].at = "answered" /\ place = "returned" /\ ~run[r].ask.route
         \/ run[r].at = "stored" /\ place = "done" /\ run[r].ask.route
         \/ run[r].at = "returned" /\ place = "done",
         \/ orders = run[r].traded
         \/ orders \subseteq {run[r].mode} /\ (orders # {} => ToExecute(r) /\ (run[r].ask.route \/ place = "done"))
  PROVE  AnalysisInv'
<1>. DEFINE new == [run[r] EXCEPT !.at = place, !.traded = orders]
<1>1. run[r] \in RunRecords
  BY FieldsTyped DEF AnalysisInv
<1>2. /\ new.at = place /\ new.traded = orders /\ new.ask = run[r].ask /\ new.signals = run[r].signals
      /\ new.mode = run[r].mode /\ new.sent = run[r].sent /\ new.json = run[r].json /\ new.text = run[r].text
  BY <1>1 DEF RunRecords
<1>3. new \in RunRecords
  BY <1>1 DEF RunRecords
<1>. HIDE DEF new
<1>4. Becomes(r, new)
  BY DEF new
<1>5. run'[r] = new
  BY <1>4, OthersStay DEF AnalysisInv
<1>6. TradesTrue(r) /\ ChatTrue(r) /\ FilesNamed(r)
  BY DEF AnalysisInv
<1>7. TradesTrue(r)'
  <2>1. place # "asked"
    OBVIOUS
  <2>2. orders # {} => orders = {run[r].mode} /\ ToExecute(r) /\ (run[r].ask.route \/ place = "done")
    BY <1>6 DEF TradesTrue
  <2>. QED BY <1>2, <1>5, <1>6, <2>1, <2>2 DEF TradesTrue, ToExecute
<1>8. ChatTrue(r)'
  BY <1>2, <1>5, <1>6 DEF ChatTrue
<1>9. FilesNamed(r)'
  BY <1>2, <1>5, <1>6 DEF FilesNamed
<1>10. (\A o \in Runs : JsonOwn(o)' /\ TextOwn(o)') /\ NewestTrue'
  BY <1>2, <1>4, ReportsStay
<1>. QED BY <1>3, <1>4, <1>7, <1>8, <1>9, <1>10, OneRunMoves DEF AnalysisInv, RunsTyped

\* The same where nothing is traded.
LEMMA RunGoesTo ==
  ASSUME AnalysisInv, NEW r \in Runs, NEW place \in Places, GoTo(r, place),
         UNCHANGED <<notice, heard, again, reports, newest, second>>,
         run[r].at \in {"analysed", "notified", "executed", "answered", "filed", "stored", "returned"},
         \/ place = "failed"
         \/ <<run[r].at, place>> \in {<<"analysed", "notified">>, <<"notified", "executed">>, <<"executed", "answered">>}
         \/ run[r].at = "answered" /\ place = "returned" /\ ~run[r].ask.route
         \/ run[r].at = "stored" /\ place = "done" /\ run[r].ask.route
  PROVE  AnalysisInv'
<1>1. run[r] \in RunRecords /\ run[r].traded \in SUBSET {"NONE", "PAPER", "LIVE"}
  BY FieldsTyped DEF AnalysisInv
<1>2. [run[r] EXCEPT !.at = place] = [run[r] EXCEPT !.at = place, !.traded = run[r].traded]
  BY <1>1 DEF RunRecords
<1>3. Becomes(r, [run[r] EXCEPT !.at = place, !.traded = run[r].traded])
  BY <1>2 DEF GoTo
<1>. QED BY <1>1, <1>3, RunGoesOn

LEMMA ExecutionInv ==
  ASSUME AnalysisInv, NEW r \in Runs, CoordinateWorkspaceExecution(r) \/ FinishJob(r) PROVE AnalysisInv'
<1>1. run[r].mode \in {"NONE", "PAPER", "LIVE"}
  BY FieldsTyped DEF AnalysisInv
<1>2. UNCHANGED <<notice, heard, again, reports, newest, second>>
  BY DEF CoordinateWorkspaceExecution, FinishJob, chat, filesOfRuns
<1>3. CASE CoordinateWorkspaceExecution(r) /\ ToExecute(r) /\ run[r].ask.route
  <2>1. PICK orders \in SUBSET {run[r].mode}, next \in {"executed", "failed"} :
           Becomes(r, [run[r] EXCEPT !.at = next, !.traded = orders])
    BY <1>3 DEF CoordinateWorkspaceExecution
  <2>2. run[r].at = "notified" /\ next \in Places /\ orders \in SUBSET {"NONE", "PAPER", "LIVE"}
    BY <1>1, <1>3 DEF CoordinateWorkspaceExecution, At, Places
  <2>. QED BY <1>2, <1>3, <2>1, <2>2, RunGoesOn
<1>4. CASE CoordinateWorkspaceExecution(r) /\ ~(ToExecute(r) /\ run[r].ask.route)
  <2>1. run[r].at = "notified" /\ "executed" \in Places /\ GoTo(r, "executed")
    BY <1>4 DEF CoordinateWorkspaceExecution, At, Places
  <2>. QED BY <1>2, <2>1, RunGoesTo
<1>5. CASE FinishJob(r)
  <2>. DEFINE orders == IF BuildDeferredExecutionPayload(r) THEN {run[r].mode} ELSE {}
  <2>1. Becomes(r, [run[r] EXCEPT !.at = "done", !.traded = orders])
    BY <1>5 DEF FinishJob
  <2>2. run[r].at = "returned" /\ "done" \in Places /\ orders \in SUBSET {"NONE", "PAPER", "LIVE"}
    BY <1>1, <1>5 DEF FinishJob, At, Places
  <2>3. orders \subseteq {run[r].mode} /\ (orders # {} => ToExecute(r))
    BY DEF BuildDeferredExecutionPayload
  <2>. HIDE DEF orders
  <2>. QED BY <1>2, <2>1, <2>2, <2>3, RunGoesOn
<1>. QED BY <1>3, <1>4, <1>5

LEMMA PassingInv ==
  ASSUME AnalysisInv, NEW r \in Runs, PublishActiveAlerts(r) \/ CacheJsonArtifact(r) \/ Raise(r) PROVE AnalysisInv'
<1>1. UNCHANGED <<notice, heard, again, reports, newest, second>>
  BY DEF PublishActiveAlerts, CacheJsonArtifact, Raise, chat, filesOfRuns
<1>2. CASE PublishActiveAlerts(r)
  <2>1. run[r].at = "executed" /\ "answered" \in Places /\ GoTo(r, "answered")
    BY <1>2 DEF PublishActiveAlerts, At, Places
  <2>. QED BY <1>1, <2>1, RunGoesTo
<1>3. CASE CacheJsonArtifact(r)
  <2>1. "done" \in Places /\ "returned" \in Places
    BY DEF Places
  <2>2. CASE run[r].ask.route
    <3>1. run[r].at = "stored" /\ GoTo(r, "done")
      BY <1>3, <2>2 DEF CacheJsonArtifact, At
    <3>. QED BY <1>1, <2>1, <2>2, <3>1, RunGoesTo
  <2>3. CASE ~run[r].ask.route
    <3>1. run[r].at = "answered" /\ GoTo(r, "returned")
      BY <1>3, <2>3 DEF CacheJsonArtifact, At
    <3>. QED BY <1>1, <2>1, <2>3, <3>1, RunGoesTo
  <2>. QED BY <2>2, <2>3
<1>4. CASE Raise(r)
  <2>1. /\ run[r].at \in {"analysed", "notified", "executed", "answered", "filed", "stored", "returned"}
        /\ GoTo(r, "failed") /\ "failed" \in Places
    BY <1>4 DEF Raise, Places
  <2>. QED BY <1>1, <2>1, RunGoesTo
<1>. QED BY <1>2, <1>3, <1>4

LEMMA SendingBounded ==
  ASSUME NEW sending \in SendTextNotification(MaxAttempts)
  PROVE  /\ sending[1] \in Nat /\ sending[1] <= MaxAttempts /\ sending[2] \in BOOLEAN
         /\ sending[2] => sending[1] > 0
<1>1. CASE \E k \in 0..(MaxAttempts - 1) : sending = <<k + 1, TRUE>>
  BY <1>1, AnalysisAssumption
<1>2. CASE \E k \in 0..MaxAttempts : sending = <<k, FALSE>>
  BY <1>2, AnalysisAssumption
<1>. QED BY <1>1, <1>2 DEF SendTextNotification

LEMMA ChancesTyped ==
  ASSUME NEW x, NEW y
  PROVE  Chance(x) \in Nat /\ Chance(y) \in Nat /\ Chance(x) + Chance(y) \in Nat
BY AnalysisAssumption DEF Chance

\* The summary is handed to the bus, and may be delivered by the run itself.
LEMMA DispatchInv ==
  ASSUME AnalysisInv, NEW r \in Runs, DispatchSignalSummary(r) PROVE AnalysisInv'
<1>1. run[r].at = "analysed" /\ UNCHANGED <<again, reports, newest, second>>
  BY DEF DispatchSignalSummary, At, filesOfRuns
<1>2. notice[r] = "none" /\ heard[r] = 0 /\ heard \in [Runs -> Nat] /\ ~run[r].sent
  BY <1>1 DEF AnalysisInv, ChatTrue
<1>3. run[r] \in RunRecords /\ run[r].ask.deliver \in BOOLEAN
  BY FieldsTyped, AsksTyped DEF AnalysisInv
<1>4. TradesTrue(r) /\ FilesNamed(r)
  BY DEF AnalysisInv
<1>5. CASE ~(run[r].ask.send /\ run[r].signals)
  <2>1. GoTo(r, "notified") /\ UNCHANGED <<notice, heard, again>> /\ "notified" \in Places
    BY <1>5 DEF DispatchSignalSummary, Places
  <2>. QED BY <1>1, <2>1, RunGoesTo
<1>6. CASE run[r].ask.send /\ run[r].signals
  <2>1. PICK taken \in {"none", "waiting"} : notice' = [notice EXCEPT ![r] = taken]
    BY <1>6 DEF DispatchSignalSummary
  <2>2. \E new \in RunRecords, count \in Nat :
          /\ Becomes(r, new) /\ heard' = [heard EXCEPT ![r] = @ + count]
          /\ new.at = "notified" /\ new.ask = run[r].ask /\ new.signals = run[r].signals /\ new.mode = run[r].mode
          /\ new.traded = run[r].traded /\ new.json = run[r].json /\ new.text = run[r].text
          /\ count <= Chance(run[r].ask.deliver) /\ (new.sent => count > 0)
    <3>1. CASE run[r].ask.deliver
      <4>1. PICK sending \in SendTextNotification(MaxAttempts) :
               /\ heard' = [heard EXCEPT ![r] = @ + sending[1]]
               /\ Becomes(r, [run[r] EXCEPT !.at = "notified", !.sent = sending[2]])
        BY <1>6, <3>1 DEF DispatchSignalSummary
      <4>. DEFINE new == [run[r] EXCEPT !.at = "notified", !.sent = sending[2]]
                  count == sending[1]
      <4>2. new \in RunRecords /\ count \in Nat /\ count <= Chance(run[r].ask.deliver) /\ (new.sent => count > 0)
        BY <1>3, <3>1, SendingBounded DEF RunRecords, Places, Chance
      <4>3. /\ new.at = "notified" /\ new.ask = run[r].ask /\ new.signals = run[r].signals /\ new.mode = run[r].mode
            /\ new.traded = run[r].traded /\ new.json = run[r].json /\ new.text = run[r].text
        BY <1>3 DEF RunRecords
      <4>4. Becomes(r, new) /\ heard' = [heard EXCEPT ![r] = @ + count]
        BY <4>1
      <4>. HIDE DEF new, count
      <4>. QED BY <4>2, <4>3, <4>4
    <3>2. CASE ~run[r].ask.deliver
      <4>. DEFINE new == [run[r] EXCEPT !.at = "notified", !.queued = TRUE]
      <4>1. Becomes(r, new) /\ heard' = heard
        BY <1>6, <3>2 DEF DispatchSignalSummary
      <4>2. heard' = [heard EXCEPT ![r] = @ + 0]
        BY <1>2, <4>1
      <4>3. /\ new \in RunRecords /\ ~new.sent
            /\ new.at = "notified" /\ new.ask = run[r].ask /\ new.signals = run[r].signals /\ new.mode = run[r].mode
            /\ new.traded = run[r].traded /\ new.json = run[r].json /\ new.text = run[r].text
        BY <1>2, <1>3 DEF RunRecords, Places
      <4>4. 0 <= Chance(run[r].ask.deliver)
        BY ChancesTyped
      <4>. HIDE DEF new
      <4>. QED BY <4>1, <4>2, <4>3, <4>4
    <3>. QED BY <1>3, <3>1, <3>2
  <2>3. PICK new \in RunRecords, count \in Nat :
          /\ Becomes(r, new) /\ heard' = [heard EXCEPT ![r] = @ + count]
          /\ new.at = "notified" /\ new.ask = run[r].ask /\ new.signals = run[r].signals /\ new.mode = run[r].mode
          /\ new.traded = run[r].traded /\ new.json = run[r].json /\ new.text = run[r].text
          /\ count <= Chance(run[r].ask.deliver) /\ (new.sent => count > 0)
    BY <2>2
  <2>4. run'[r] = new
    BY <2>3, OthersStay DEF AnalysisInv
  <2>5. heard' \in [Runs -> Nat] /\ heard'[r] = count /\ \A o \in Runs \ {r} : heard'[o] = heard[o]
    <3>1. heard' = [o \in Runs |-> IF o = r THEN heard[o] + count ELSE heard[o]]
      BY <1>2, <2>3
    <3>2. heard[r] + count = count
      BY <1>2
    <3>. QED BY <1>2, <3>1, <3>2
  <2>6. /\ notice' \in [Runs -> NoticeStates] /\ notice'[r] = taken
        /\ \A o \in Runs \ {r} : notice'[o] = notice[o]
    BY <2>1 DEF AnalysisInv, NoticeStates
  <2>7. ChatTrue(r)'
    <3>1. /\ Repeats(again[r]) \in Nat /\ Chance(run[r].ask.deliver) \in Nat
          /\ Chance(FALSE) = 0 /\ again'[r] = again[r]
      BY <1>1, RepeatsTyped, ChancesTyped DEF Chance, AnalysisInv
    <3>2. (notice'[r] \in Delivered) = FALSE
      BY <2>1, <2>6 DEF Delivered
    <3>3. heard'[r] <= 0 + Chance(run[r].ask.deliver) + Repeats(again[r])
      BY <2>3, <2>5, <3>1
    <3>. QED BY <1>6, <2>3, <2>4, <2>5, <3>1, <3>2, <3>3 DEF ChatTrue
  <2>8. TradesTrue(r)' /\ FilesNamed(r)'
    BY <1>1, <1>4, <2>3, <2>4 DEF TradesTrue, ToExecute, FilesNamed
  <2>9. (\A o \in Runs : JsonOwn(o)' /\ TextOwn(o)') /\ NewestTrue'
    BY <1>1, <2>3, ReportsStay
  <2>. QED BY <1>1, <2>3, <2>5, <2>6, <2>7, <2>8, <2>9, OneRunMoves DEF AnalysisInv, RunsTyped
<1>. QED BY <1>5, <1>6

LEMMA HandleNotificationInv ==
  ASSUME AnalysisInv, NEW r \in Runs, HandleNotification(r) PROVE AnalysisInv'
<1>1. PICK sending \in SendTextNotification(MaxAttempts) : heard' = [heard EXCEPT ![r] = @ + sending[1]]
  BY DEF HandleNotification
<1>2. /\ notice[r] = "waiting" /\ notice' = [notice EXCEPT ![r] = "handled"]
      /\ UNCHANGED <<run, again, reports, newest, second>>
  BY DEF HandleNotification, filesOfRuns
<1>3. /\ notice \in [Runs -> NoticeStates] /\ heard \in [Runs -> Nat]
      /\ again \in [Runs -> Nat] /\ \A o \in Runs : ChatTrue(o)
  BY DEF AnalysisInv
<1>4. sending[1] \in Nat /\ sending[1] <= MaxAttempts
  BY SendingBounded
<1>5. heard' \in [Runs -> Nat] /\ heard'[r] = heard[r] + sending[1] /\ \A o \in Runs \ {r} : heard'[o] = heard[o]
  <2>1. heard' = [o \in Runs |-> IF o = r THEN heard[o] + sending[1] ELSE heard[o]]
    BY <1>1, <1>3
  <2>. QED BY <1>3, <1>4, <2>1
<1>6. /\ notice' \in [Runs -> NoticeStates] /\ notice'[r] = "handled"
      /\ \A o \in Runs \ {r} : notice'[o] = notice[o]
  BY <1>2, <1>3 DEF NoticeStates
<1>7. ChatTrue(r)'
  <2>1. heard[r] \in Nat /\ heard[r] <= 0 + Chance(run[r].ask.deliver) + Repeats(again[r])
    BY <1>2, <1>3 DEF ChatTrue, Chance, Delivered
  <2>2. Chance(run[r].ask.deliver) \in Nat /\ MaxAttempts \in Nat /\ Repeats(again[r]) \in Nat
    BY <1>3, ChancesTyped, RepeatsTyped, AnalysisAssumption
  <2>3. heard'[r] <= MaxAttempts + Chance(run[r].ask.deliver) + Repeats(again[r])
    BY <1>4, <1>5, <2>1, <2>2
  <2>4. Chance(run'[r].ask.deliver) = Chance(run[r].ask.deliver) /\ Chance(notice'[r] \in Delivered) = MaxAttempts
    BY <1>2, <1>6 DEF Chance, Delivered
  <2>5. (run[r].sent => heard'[r] > 0) /\ run[r].signals
    BY <1>2, <1>3, <1>4, <1>5, <2>1 DEF ChatTrue
  <2>6. run[r].at \notin {"asked", "analysed"}
    BY <1>2, <1>3 DEF ChatTrue
  <2>. QED BY <1>2, <2>3, <2>4, <2>5, <2>6 DEF ChatTrue
<1>8. ASSUME NEW o \in Runs \ {r} PROVE ChatTrue(o)'
  BY <1>2, <1>3, <1>5, <1>6 DEF ChatTrue
<1>9. RunsTyped' /\ NewestTrue' /\ \A o \in Runs : TradesTrue(o)' /\ FilesNamed(o)' /\ JsonOwn(o)' /\ TextOwn(o)'
  BY <1>2 DEF AnalysisInv, RunsTyped, NewestTrue, TradesTrue, ToExecute, FilesNamed, JsonOwn, TextOwn
<1>. QED BY <1>2, <1>3, <1>5, <1>6, <1>7, <1>8, <1>9 DEF AnalysisInv

\* The message is acknowledged, or delivered again.
LEMMA AcknowledgeInv ==
  ASSUME AnalysisInv, NEW r \in Runs, Acknowledge(r) \/ Redeliver(r) PROVE AnalysisInv'
<1>1. /\ notice[r] = "handled" /\ UNCHANGED <<run, heard, reports, newest, second>>
      /\ \A o \in Runs : TradesTrue(o) /\ ChatTrue(o)
      /\ heard[r] \in Nat /\ again[r] \in Nat
  BY DEF Acknowledge, Redeliver, filesOfRuns, AnalysisInv
<1>2. /\ notice' \in [Runs -> NoticeStates] /\ notice'[r] \in {"consumed", "waiting"}
      /\ \A o \in Runs \ {r} : notice'[o] = notice[o]
  BY DEF Acknowledge, Redeliver, AnalysisInv, NoticeStates
<1>3. /\ again' \in [Runs -> Nat] /\ \A o \in Runs \ {r} : again'[o] = again[o]
      /\ again'[r] = IF notice'[r] = "waiting" THEN again[r] + 1 ELSE again[r]
  <2>1. CASE Acknowledge(r)
    BY <2>1 DEF Acknowledge, AnalysisInv
  <2>2. CASE Redeliver(r)
    <3>1. again' \in [Runs -> Nat]
      BY <2>2, OneMore DEF Redeliver, AnalysisInv
    <3>. QED BY <2>2, <3>1 DEF Redeliver, AnalysisInv
  <2>. QED BY <2>1, <2>2
<1>4. ChatTrue(r)'
  <2>1. /\ Chance(run[r].ask.deliver) \in Nat /\ Chance(TRUE) = MaxAttempts /\ Chance(FALSE) = 0
        /\ MaxAttempts \in Nat /\ Repeats(again[r]) \in Nat /\ Repeats(again[r] + 1) = Repeats(again[r]) + MaxAttempts
    BY <1>1, ChancesTyped, RepeatsTyped, AnalysisAssumption DEF Chance
  <2>2. heard[r] <= MaxAttempts + Chance(run[r].ask.deliver) + Repeats(again[r])
    BY <1>1, <2>1 DEF ChatTrue, Chance, Delivered
  <2>3. CASE notice'[r] = "consumed"
    <3>1. Chance(notice'[r] \in Delivered) = MaxAttempts /\ again'[r] = again[r]
      BY <1>3, <2>3 DEF Chance, Delivered
    <3>. QED BY <1>1, <2>2, <2>3, <3>1 DEF ChatTrue
  <2>4. CASE notice'[r] = "waiting"
    <3>1. Chance(notice'[r] \in Delivered) = 0 /\ again'[r] = again[r] + 1
      BY <1>3, <2>4 DEF Chance, Delivered
    <3>2. heard[r] <= 0 + Chance(run[r].ask.deliver) + Repeats(again[r] + 1)
      BY <1>1, <2>1, <2>2
    <3>. QED BY <1>1, <2>4, <3>1, <3>2 DEF ChatTrue
  <2>. QED BY <1>2, <2>3, <2>4
<1>5. ASSUME NEW o \in Runs \ {r} PROVE ChatTrue(o)'
  BY <1>1, <1>2, <1>3 DEF ChatTrue
<1>6. RunsTyped' /\ NewestTrue' /\ \A o \in Runs : TradesTrue(o)' /\ FilesNamed(o)' /\ JsonOwn(o)' /\ TextOwn(o)'
  BY <1>1 DEF AnalysisInv, RunsTyped, NewestTrue, TradesTrue, ToExecute, FilesNamed, JsonOwn, TextOwn
<1>. QED BY <1>1, <1>2, <1>3, <1>4, <1>5, <1>6 DEF AnalysisInv

\* What a run has named is no file, or a name of its kind.
LEMMA NamesTyped ==
  ASSUME RunsTyped, NEW r \in Runs
  PROVE  /\ run[r].json = NoFile \/ \E time \in Nat : run[r].json = ReportName(time, "json")
         /\ run[r].text = NoFile \/ \E time \in Nat : run[r].text = ReportName(time, "txt")
BY FieldsTyped DEF RunRecords

LEMMA JsonIsNoText ==
  ASSUME RunsTyped, NEW r \in Runs, NEW other \in Runs, run[r].json # NoFile
  PROVE  run[r].json # run[other].text
BY NamesTyped, NamesDiffer

\* A report is opened.
LEMMA StoreJsonInv ==
  ASSUME AnalysisInv, NEW r \in Runs, StoreReport(r, "answered", "json", "json") PROVE AnalysisInv'
<1>. DEFINE name == ReportName(second, "json")
            new == [run[r] EXCEPT !.at = "json", !.json = name]
<1>1. /\ run[r].at = "answered" /\ run[r].ask.route /\ Becomes(r, new) /\ newest' = name
      /\ UNCHANGED <<notice, heard, again, second>>
  BY DEF StoreReport, At, chat
<1>2. /\ DOMAIN reports' = DOMAIN reports \cup {name}
      /\ reports'[name] = Emptied /\ \A file \in DOMAIN reports \ {name} : reports'[file] = reports[file]
  BY DEF StoreReport
<1>3. run[r] \in RunRecords /\ second \in Nat
  BY FieldsTyped DEF AnalysisInv, RunsTyped
<1>4. /\ new.at = "json" /\ new.ask = run[r].ask /\ new.signals = run[r].signals /\ new.mode = run[r].mode
      /\ new.sent = run[r].sent /\ new.traded = run[r].traded /\ new.json = name /\ new.text = run[r].text
  BY <1>3 DEF RunRecords
<1>5. new \in RunRecords
  BY <1>3 DEF RunRecords, Places
<1>6. name # NoFile /\ \A o \in Runs : run[o].text # name
  BY NamesDiffer, NamesTyped DEF AnalysisInv
<1>. HIDE DEF new, name
<1>7. run'[r] = new /\ \A other \in Runs \ {r} : run'[other] = run[other]
  BY <1>1, OthersStay DEF AnalysisInv
<1>8. TradesTrue(r) /\ ChatTrue(r) /\ FilesNamed(r) /\ run[r].json = NoFile /\ run[r].text = NoFile
  BY <1>1 DEF AnalysisInv, FilesNamed
<1>9. TradesTrue(r)' /\ ChatTrue(r)' /\ FilesNamed(r)'
  BY <1>1, <1>4, <1>6, <1>7, <1>8 DEF TradesTrue, ToExecute, ChatTrue, FilesNamed
<1>10. JsonOwn(r)'
  BY <1>2, <1>4, <1>7 DEF JsonOwn
<1>11. ASSUME NEW o \in Runs \ {r} PROVE JsonOwn(o)'
  <2>1. JsonOwn(o)
    BY DEF AnalysisInv
  <2>. QED BY <1>2, <1>4, <1>7, <1>8, <2>1 DEF JsonOwn
<1>12. ASSUME NEW o \in Runs PROVE TextOwn(o)'
  <2>1. TextOwn(o) /\ \A other \in Runs : run'[other].text = run[other].text
    BY <1>4, <1>7 DEF AnalysisInv
  <2>2. run[o].text # NoFile => o # r
    BY <1>8
  <2>. QED BY <1>2, <1>6, <1>7, <2>1, <2>2 DEF TextOwn
<1>13. NewestTrue'
  BY <1>1, <1>4, <1>6, <1>7 DEF NewestTrue
<1>. QED BY <1>1, <1>3, <1>5, <1>9, <1>10, <1>11, <1>12, <1>13, OneRunMoves DEF AnalysisInv

LEMMA StoreTextInv ==
  ASSUME AnalysisInv, NEW r \in Runs, StoreReport(r, "filed", "text", "txt") PROVE AnalysisInv'
<1>. DEFINE name == ReportName(second, "txt")
            new == [run[r] EXCEPT !.at = "text", !.text = name]
<1>1. /\ run[r].at = "filed" /\ run[r].ask.route /\ Becomes(r, new) /\ UNCHANGED <<newest, notice, heard, again, second>>
  BY DEF StoreReport, At, chat
<1>2. /\ DOMAIN reports' = DOMAIN reports \cup {name}
      /\ reports'[name] = Emptied /\ \A file \in DOMAIN reports \ {name} : reports'[file] = reports[file]
  BY DEF StoreReport
<1>3. run[r] \in RunRecords /\ second \in Nat
  BY FieldsTyped DEF AnalysisInv, RunsTyped
<1>4. /\ new.at = "text" /\ new.ask = run[r].ask /\ new.signals = run[r].signals /\ new.mode = run[r].mode
      /\ new.sent = run[r].sent /\ new.traded = run[r].traded /\ new.text = name /\ new.json = run[r].json
  BY <1>3 DEF RunRecords
<1>5. new \in RunRecords
  BY <1>3 DEF RunRecords, Places
<1>6. name # NoFile /\ \A o \in Runs : run[o].json # name
  BY NamesDiffer, NamesTyped DEF AnalysisInv
<1>. HIDE DEF new, name
<1>7. run'[r] = new /\ \A other \in Runs \ {r} : run'[other] = run[other]
  BY <1>1, OthersStay DEF AnalysisInv
<1>8. TradesTrue(r) /\ ChatTrue(r) /\ FilesNamed(r) /\ run[r].text = NoFile
  BY <1>1 DEF AnalysisInv, FilesNamed
<1>9. TradesTrue(r)' /\ ChatTrue(r)' /\ FilesNamed(r)'
  BY <1>1, <1>4, <1>6, <1>7, <1>8 DEF TradesTrue, ToExecute, ChatTrue, FilesNamed
<1>10. TextOwn(r)'
  BY <1>2, <1>4, <1>7 DEF TextOwn
<1>11. ASSUME NEW o \in Runs \ {r} PROVE TextOwn(o)'
  <2>1. TextOwn(o)
    BY DEF AnalysisInv
  <2>. QED BY <1>2, <1>4, <1>7, <1>8, <2>1 DEF TextOwn
<1>12. ASSUME NEW o \in Runs PROVE JsonOwn(o)'
  <2>1. JsonOwn(o) /\ \A other \in Runs : run'[other].json = run[other].json
    BY <1>4, <1>7 DEF AnalysisInv
  <2>2. run'[o].at = run[o].at \/ (run[o].at = "filed" /\ run'[o].at = "text")
    BY <1>1, <1>4, <1>7
  <2>. QED BY <1>2, <1>6, <1>7, <2>1, <2>2 DEF JsonOwn
<1>13. NewestTrue'
  BY <1>1, <1>4, <1>7 DEF AnalysisInv, NewestTrue
<1>. QED BY <1>1, <1>3, <1>5, <1>9, <1>10, <1>11, <1>12, <1>13, OneRunMoves DEF AnalysisInv

\* A report is written: a file that no other run has named gets its text.
LEMMA WriteJsonInv ==
  ASSUME AnalysisInv, NEW r \in Runs, WriteReport(r, "json", "filed", run[r].json, "json") PROVE AnalysisInv'
<1>. DEFINE name == run[r].json
            Written(place, text) ==
              /\ GoTo(r, place) /\ reports' = [reports EXCEPT ![name] = text]
              /\ place = "filed" /\ reports[name] = Emptied => text = <<r, "json">>
<1>0. PICK place \in {"filed", "failed"} : \E text : Written(place, text)
  BY Zenon DEF WriteReport
<1>1. PICK text : Written(place, text)
  BY <1>0
<1>2. run[r].at = "json" /\ newest' = name /\ UNCHANGED <<notice, heard, again, second>>
  BY DEF WriteReport, At, chat
<1>3. run[r] \in RunRecords /\ second \in Nat
  BY FieldsTyped DEF AnalysisInv, RunsTyped
<1>. DEFINE new == [run[r] EXCEPT !.at = place]
<1>4. /\ new.at = place /\ new.ask = run[r].ask /\ new.signals = run[r].signals /\ new.mode = run[r].mode
      /\ new.sent = run[r].sent /\ new.traded = run[r].traded /\ new.json = run[r].json /\ new.text = run[r].text
  BY <1>3 DEF RunRecords
<1>5. new \in RunRecords /\ Becomes(r, new)
  BY <1>1, <1>3 DEF RunRecords, Places, GoTo
<1>. HIDE DEF new
<1>6. run'[r] = new /\ \A other \in Runs \ {r} : run'[other] = run[other]
  BY <1>5, OthersStay DEF AnalysisInv
<1>7. TradesTrue(r) /\ ChatTrue(r) /\ FilesNamed(r) /\ name # NoFile /\ \A o \in Runs : run[o].text # name
  BY <1>2, JsonIsNoText DEF AnalysisInv, FilesNamed
<1>8. name \in DOMAIN reports /\ DOMAIN reports' = DOMAIN reports
  BY <1>1, <1>7 DEF AnalysisInv, JsonOwn
<1>9. reports'[name] = text /\ \A file \in DOMAIN reports \ {name} : reports'[file] = reports[file]
  BY <1>1, <1>8
<1>10. TradesTrue(r)' /\ ChatTrue(r)' /\ FilesNamed(r)'
  BY <1>2, <1>4, <1>6, <1>7 DEF TradesTrue, ToExecute, ChatTrue, FilesNamed
<1>11. JsonOwn(r)'
  <2>1. JsonOwn(r)
    BY DEF AnalysisInv
  <2>. QED BY <1>1, <1>2, <1>4, <1>6, <1>7, <1>8, <1>9, <2>1 DEF JsonOwn
<1>12. ASSUME NEW o \in Runs \ {r} PROVE JsonOwn(o)'
  <2>1. JsonOwn(o)
    BY DEF AnalysisInv
  <2>. QED BY <1>4, <1>6, <1>8, <1>9, <2>1 DEF JsonOwn
<1>13. ASSUME NEW o \in Runs PROVE TextOwn(o)'
  <2>1. TextOwn(o) /\ \A other \in Runs : run'[other].text = run[other].text
    BY <1>4, <1>6 DEF AnalysisInv
  <2>2. run[o].text # NoFile => o # r
    BY <1>2, <1>7 DEF FilesNamed
  <2>. QED BY <1>6, <1>7, <1>8, <1>9, <2>1, <2>2 DEF TextOwn
<1>14. NewestTrue'
  BY <1>2, <1>4, <1>6, <1>7 DEF NewestTrue
<1>. QED BY <1>2, <1>3, <1>5, <1>10, <1>11, <1>12, <1>13, <1>14, OneRunMoves DEF AnalysisInv

LEMMA WriteTextInv ==
  ASSUME AnalysisInv, NEW r \in Runs, WriteReport(r, "text", "stored", run[r].text, "txt") PROVE AnalysisInv'
<1>. DEFINE name == run[r].text
            Written(place, text) ==
              /\ GoTo(r, place) /\ reports' = [reports EXCEPT ![name] = text]
              /\ place = "stored" /\ reports[name] = Emptied => text = <<r, "txt">>
<1>0. PICK place \in {"stored", "failed"} : \E text : Written(place, text)
  BY Zenon DEF WriteReport
<1>1. PICK text : Written(place, text)
  BY <1>0
<1>2. run[r].at = "text" /\ UNCHANGED <<newest, notice, heard, again, second>>
  BY DEF WriteReport, At, chat
<1>3. run[r] \in RunRecords /\ second \in Nat
  BY FieldsTyped DEF AnalysisInv, RunsTyped
<1>. DEFINE new == [run[r] EXCEPT !.at = place]
<1>4. /\ new.at = place /\ new.ask = run[r].ask /\ new.signals = run[r].signals /\ new.mode = run[r].mode
      /\ new.sent = run[r].sent /\ new.traded = run[r].traded /\ new.json = run[r].json /\ new.text = run[r].text
  BY <1>3 DEF RunRecords
<1>5. new \in RunRecords /\ Becomes(r, new)
  BY <1>1, <1>3 DEF RunRecords, Places, GoTo
<1>. HIDE DEF new
<1>6. run'[r] = new /\ \A other \in Runs \ {r} : run'[other] = run[other]
  BY <1>5, OthersStay DEF AnalysisInv
<1>7. TradesTrue(r) /\ ChatTrue(r) /\ FilesNamed(r) /\ name # NoFile /\ \A o \in Runs : run[o].json # NoFile => run[o].json # name
  BY <1>2, JsonIsNoText DEF AnalysisInv, FilesNamed
<1>8. name \in DOMAIN reports /\ DOMAIN reports' = DOMAIN reports
  BY <1>1, <1>7 DEF AnalysisInv, TextOwn
<1>9. reports'[name] = text /\ \A file \in DOMAIN reports \ {name} : reports'[file] = reports[file]
  BY <1>1, <1>8
<1>10. TradesTrue(r)' /\ ChatTrue(r)' /\ FilesNamed(r)'
  BY <1>2, <1>4, <1>6, <1>7 DEF TradesTrue, ToExecute, ChatTrue, FilesNamed
<1>11. TextOwn(r)'
  <2>1. TextOwn(r)
    BY DEF AnalysisInv
  <2>. QED BY <1>1, <1>2, <1>4, <1>6, <1>7, <1>8, <1>9, <2>1 DEF TextOwn
<1>12. ASSUME NEW o \in Runs \ {r} PROVE TextOwn(o)'
  <2>1. TextOwn(o)
    BY DEF AnalysisInv
  <2>. QED BY <1>4, <1>6, <1>8, <1>9, <2>1 DEF TextOwn
<1>13. ASSUME NEW o \in Runs PROVE JsonOwn(o)'
  <2>1. JsonOwn(o) /\ \A other \in Runs : run'[other].json = run[other].json
    BY <1>4, <1>6 DEF AnalysisInv
  <2>2. run'[o].at = run[o].at \/ run'[o].at = "failed" \/ (run[o].at = "text" /\ run'[o].at = "stored")
    BY <1>2, <1>4, <1>6
  <2>. QED BY <1>7, <1>8, <1>9, <2>1, <2>2 DEF JsonOwn
<1>14. NewestTrue'
  BY <1>2, <1>4, <1>6 DEF AnalysisInv, NewestTrue
<1>. QED BY <1>2, <1>3, <1>5, <1>10, <1>11, <1>12, <1>13, <1>14, OneRunMoves DEF AnalysisInv

LEMMA AnalysisInitInv == AnalysisInit => AnalysisInv
<1>. SUFFICES ASSUME AnalysisInit PROVE AnalysisInv
  OBVIOUS
<1>1. Waiting.ask \in RunAsks
  BY AnalysisAssumption DEF Waiting
<1>2. Waiting \in RunRecords
  BY <1>1 DEF Waiting, RunRecords, Places
<1>3. /\ Waiting.at = "asked" /\ Waiting.traded = {} /\ Waiting.sent = FALSE
      /\ Waiting.json = NoFile /\ Waiting.text = NoFile
  BY DEF Waiting
<1>4. \A r \in Runs : run[r] = Waiting /\ notice[r] = "none" /\ heard[r] = 0 /\ again[r] = 0
  BY DEF AnalysisInit
<1>5. /\ RunsTyped /\ notice \in [Runs -> NoticeStates] /\ heard \in [Runs -> Nat] /\ newest = NoFile
      /\ again \in [Runs -> Nat]
  BY <1>2 DEF AnalysisInit, RunsTyped, NoticeStates
<1>6. ASSUME NEW r \in Runs PROVE TradesTrue(r) /\ ChatTrue(r) /\ FilesNamed(r) /\ JsonOwn(r) /\ TextOwn(r)
  <2>1. 0 <= Chance(notice[r] \in Delivered) + Chance(run[r].ask.deliver) + Repeats(again[r])
    BY <1>4, ChancesTyped, RepeatsTyped
  <2>. QED BY <1>3, <1>4, <2>1 DEF TradesTrue, ChatTrue, FilesNamed, JsonOwn, TextOwn
<1>. QED BY <1>3, <1>4, <1>5, <1>6 DEF AnalysisInv, NewestTrue

LEMMA AnalysisStep == ASSUME AnalysisInv, [AnalysisNext]_analysisVars PROVE AnalysisInv'
<1>1. ASSUME NEW r \in Runs, BuildReportArtifacts(r) PROVE AnalysisInv'
  BY <1>1, StoreJsonInv, StoreTextInv, WriteJsonInv, WriteTextInv DEF BuildReportArtifacts
<1>2. CASE ArtifactExpires \/ SecondPasses \/ UNCHANGED analysisVars
  <2>1. UNCHANGED <<run, notice, heard, again, reports, newest>> /\ second' \in Nat
    BY <1>2 DEF ArtifactExpires, SecondPasses, analysisVars, chat, filesOfRuns, AnalysisInv, RunsTyped
  <2>. QED BY <2>1 DEF AnalysisInv, RunsTyped, TradesTrue, ToExecute, ChatTrue, FilesNamed, JsonOwn, TextOwn, NewestTrue
<1>. QED BY <1>1, <1>2, AnalyseInv, DispatchInv, ExecutionInv, PassingInv, HandleNotificationInv,
     AcknowledgeInv DEF AnalysisNext

\* How many of the two ways a summary takes to the chat are open.
LEMMA WaysCounted ==
  ASSUME NEW bus \in BOOLEAN, NEW own \in BOOLEAN
  PROVE  \E n \in {0, 1, 2} :
           /\ Cardinality({way \in {"bus", "run"} : IF way = "bus" THEN bus ELSE own}) = n
           /\ Chance(bus) + Chance(own) = MaxAttempts * n
<1>. DEFINE ways == {way \in {"bus", "run"} : IF way = "bus" THEN bus ELSE own}
<1>. DEFINE Counted(n) == Cardinality(ways) = n /\ Chance(bus) + Chance(own) = MaxAttempts * n
<1>0. MaxAttempts \in Nat /\ MaxAttempts * 0 = 0 /\ MaxAttempts * 1 = MaxAttempts /\ MaxAttempts * 2 = MaxAttempts + MaxAttempts
  BY AnalysisAssumption
<1>1. CASE bus /\ own
  <2>1. ways = {"bus"} \cup {"run"}
    BY <1>1
  <2>2. IsFiniteSet({"bus"}) /\ Cardinality({"bus"}) = 1 /\ "run" \notin {"bus"}
    BY FS_Singleton
  <2>3. Cardinality(ways) = 2
    BY <2>1, <2>2, FS_AddElement
  <2>9. Counted(2)
    BY <1>0, <1>1, <2>3 DEF Chance
  <2>. QED BY <2>9
<1>2. CASE bus /\ ~own
  <2>1. ways = {"bus"}
    BY <1>2
  <2>2. Cardinality(ways) = 1
    BY <2>1, FS_Singleton
  <2>9. Counted(1)
    BY <1>0, <1>2, <2>2 DEF Chance
  <2>. QED BY <2>9
<1>3. CASE ~bus /\ own
  <2>1. ways = {"run"}
    BY <1>3
  <2>2. Cardinality(ways) = 1
    BY <2>1, FS_Singleton
  <2>9. Counted(1)
    BY <1>0, <1>3, <2>2 DEF Chance
  <2>. QED BY <2>9
<1>4. CASE ~bus /\ ~own
  <2>1. ways = {}
    BY <1>4
  <2>2. Cardinality(ways) = 0
    BY <2>1, FS_EmptySet
  <2>9. Counted(0)
    BY <1>0, <1>4, <2>2 DEF Chance
  <2>. QED BY <2>9
<1>. QED BY <1>1, <1>2, <1>3, <1>4

\* However many analyses run at a time: nothing is traded live or unasked, a summary
\* comes to the chat at most three times for the run itself and for each delivery by
\* the bus, again for one that was not acknowledged, the reports of a run are its own
\* unless another wrote within its second, and the pages are blank only while the
\* newest report is written or after its writer failed (trading_workspace.py:330,
\* report_storage.py:53, notifier.py:63).
THEOREM RunsKeptApart == AnalysisSpec => []RunsStandAlone
<1>1. ASSUME AnalysisInv PROVE RunsStandAlone
  <2>1. AutoNeverLive
    <3>. SUFFICES ASSUME NEW r \in Runs, run[r].traded # {}
                  PROVE  /\ run[r].traded = {"PAPER"} /\ run[r].ask.auto /\ run[r].signals
                         /\ run[r].ask.route \/ run[r].at = "done"
      BY DEF AutoNeverLive
    <3>1. TradesTrue(r) /\ run[r].ask \in RunAsks
      BY <1>1, FieldsTyped DEF AnalysisInv
    <3>. QED BY <3>1, AsksTyped DEF TradesTrue, ToExecute, ResolveWorkspaceAutoExecutionMode
  <2>2. DeliveriesBounded
    <3>. SUFFICES ASSUME NEW r \in Runs
                  PROVE  /\ heard[r] <= MaxAttempts * (again[r] + Cardinality({way \in {"bus", "run"} :
                              IF way = "bus" THEN notice[r] \in {"handled", "consumed"} ELSE run[r].ask.deliver}))
                         /\ run[r].sent => heard[r] > 0
                         /\ heard[r] > 0 => run[r].signals
      BY DEF DeliveriesBounded
    <3>. DEFINE ways == Cardinality({way \in {"bus", "run"} :
                          IF way = "bus" THEN notice[r] \in {"handled", "consumed"} ELSE run[r].ask.deliver})
    <3>1. ChatTrue(r) /\ run[r].ask \in RunAsks /\ again[r] \in Nat /\ MaxAttempts \in Nat
      BY <1>1, FieldsTyped, AnalysisAssumption DEF AnalysisInv
    <3>2. (notice[r] \in {"handled", "consumed"}) \in BOOLEAN /\ run[r].ask.deliver \in BOOLEAN
      BY <3>1, AsksTyped
    <3>3. PICK n \in {0, 1, 2} : /\ ways = n
                                /\ Chance(notice[r] \in {"handled", "consumed"}) + Chance(run[r].ask.deliver)
                                     = MaxAttempts * n
      BY <3>2, WaysCounted
    <3>. HIDE DEF ways
    <3>4. heard[r] <= MaxAttempts * n + MaxAttempts * again[r]
      BY <3>1, <3>3 DEF ChatTrue, Repeats, Delivered
    <3>5. MaxAttempts * n + MaxAttempts * again[r] = MaxAttempts * (again[r] + ways)
      BY <3>1, <3>3
    <3>6. heard[r] <= MaxAttempts * (again[r] + ways)
      BY <3>4, <3>5
    <3>. QED BY <3>1, <3>6 DEF ChatTrue, ways
  <2>3. ReportsAreOwn
    BY <1>1 DEF AnalysisInv, FilesNamed, JsonOwn, TextOwn, ReportsAreOwn, Collided
  <2>4. BlankOnlyInWriting
    <3>. SUFFICES ASSUME LoadLatestAnalysis = NoRun, NEW done \in Runs, run[done].ask.route, run[done].at = "done"
                  PROVE  \E r \in Runs : /\ run[r].json = newest
                                         /\ run[r].at \in {"json", "failed"} \/ Collided(r)
      BY DEF BlankOnlyInWriting
    <3>1. run[done].json # NoFile
      BY <1>1 DEF AnalysisInv, FilesNamed
    <3>2. newest # NoFile
      BY <1>1, <3>1 DEF AnalysisInv, NewestTrue
    <3>3. PICK r \in Runs : run[r].json = newest
      BY <1>1, <3>2 DEF AnalysisInv, NewestTrue
    <3>4. SUFFICES ASSUME run[r].at \notin {"json", "failed"}, ~Collided(r) PROVE FALSE
      BY <3>3
    <3>5. reports[newest] = <<r, "json">>
      BY <1>1, <3>2, <3>3, <3>4 DEF AnalysisInv, JsonOwn, Collided
    <3>6. reports[newest][1] = NoRun
      BY <3>2 DEF LoadLatestAnalysis
    <3>. QED BY <3>5, <3>6, AnalysisAssumption
  <2>. QED BY <2>1, <2>2, <2>3, <2>4 DEF RunsStandAlone
<1>. QED BY <1>1, AnalysisInitInv, AnalysisStep, PTL DEF AnalysisSpec

-----------------------------------------------------------------------------
(* The validation of a candidate *)

FlagValues == {"yes", "no", "unset"}
CandidateOk(c) ==
  /\ c = [mark \in DOMAIN Perfect |-> c[mark]]
  /\ \A mark \in ScoreMarks : c[mark] \in Int
  /\ \A mark \in FlagMarks : c[mark] \in FlagValues
  /\ c.chop \in Int /\ c.ratio \in Int
  /\ c.touched \in BOOLEAN /\ c.lively \in BOOLEAN /\ c.readable \in BOOLEAN

SetupOk == CandidateOk(setup)

LEMMA MarksAre == DOMAIN Perfect = ScoreMarks \cup FlagMarks \cup {"touched", "chop", "lively", "ratio", "readable"}
BY DEF Perfect

LEMMA CandidateInitOk == ValidationInit => CandidateOk(setup)
BY DEF ValidationInit, CandidateOk, Perfect, ScoreMarks, FlagMarks, FlagValues

LEMMA CandidateNextOk == ASSUME CandidateOk(setup), ValidationNext PROVE CandidateOk(setup')
<1>0. PICK mark \in DOMAIN Perfect : \E value \in May(mark) : setup' = [setup EXCEPT ![mark] = value]
  BY DEF ValidationNext
<1>1. PICK value \in May(mark) : setup' = [setup EXCEPT ![mark] = value]
  BY <1>0
<1>2. setup' = [m \in DOMAIN Perfect |-> setup'[m]]
  BY <1>1 DEF CandidateOk
<1>3. \A m \in DOMAIN Perfect : setup'[m] = IF m = mark THEN value ELSE setup[m]
  BY <1>1 DEF CandidateOk
<1>4. /\ mark \in ScoreMarks => value \in Int
      /\ mark \in FlagMarks => value \in FlagValues
      /\ mark \in {"chop", "ratio"} => value \in Int
      /\ mark \in {"touched", "lively", "readable"} => value \in BOOLEAN
  BY <1>1, MarksAssumption DEF May, ScoreMarks, FlagMarks, FlagValues
<1>. QED BY <1>2, <1>3, <1>4, MarksAre DEF CandidateOk, ScoreMarks, FlagMarks

\* The larger and the smaller of two numbers.
LEMMA MaxOfTwo ==
  ASSUME NEW a \in Int, NEW b \in Int PROVE Max({a, b}) = IF a >= b THEN a ELSE b
BY DEF Max

LEMMA MaxOfHundred ==
  ASSUME NEW q \in 0..100 PROVE Max({100, q}) = 100
BY DEF Max

LEMMA MinOfTwo ==
  ASSUME NEW a \in Int, NEW b \in Int PROVE Min({a, b}) = IF a <= b THEN a ELSE b
BY DEF Min

\* A score on the scale of a hundred.
LEMMA NormalizedIs ==
  ASSUME NEW raw \in Int
  PROVE  LET scaled == IF raw <= 10 THEN 10 * raw ELSE raw
         IN  NormalizeComponentScore(raw) = IF scaled < 0 THEN 0 ELSE IF scaled > 100 THEN 100 ELSE scaled
<1>. DEFINE scaled == IF raw <= 10 THEN 10 * raw ELSE raw
            least == Min({scaled, 100})
<1>1. scaled \in Int
  OBVIOUS
<1>2. least = IF scaled <= 100 THEN scaled ELSE 100
  BY <1>1, MinOfTwo
<1>3. Max({0, least}) = IF 0 >= least THEN 0 ELSE least
  BY <1>1, <1>2, MaxOfTwo
<1>. QED BY <1>1, <1>2, <1>3 DEF NormalizeComponentScore

LEMMA NormalizedOk ==
  ASSUME NEW raw \in Int PROVE NormalizeComponentScore(raw) \in 0..100
BY NormalizedIs

\* On one scale, more is no less.
LEMMA NormalizedGrows ==
  ASSUME NEW a \in Int, NEW b \in Int, a < b, b <= 10 \/ a > 10
  PROVE  NormalizeComponentScore(a) <= NormalizeComponentScore(b)
BY NormalizedIs

LEMMA GivenOk ==
  ASSUME NEW raw \in Int, NEW otherwise \in Int PROVE Given(raw, otherwise) \in Int
BY DEF Given

\* The same of a score that may be absent.
LEMMA GivenGrows ==
  ASSUME NEW a \in Int, NEW b \in Int, a # Absent, a < b, b <= 10 \/ a > 10, NEW x \in Int, NEW y \in Int
  PROVE  NormalizeComponentScore(Given(a, x)) <= NormalizeComponentScore(Given(b, y))
<1>1. CASE b = Absent
  <2>1. NormalizeComponentScore(a) = 0
    BY <1>1, NormalizedIs DEF Absent
  <2>2. NormalizeComponentScore(Given(b, y)) \in 0..100
    BY NormalizedOk, GivenOk
  <2>. QED BY <2>1, <2>2 DEF Given
<1>2. CASE b # Absent
  BY <1>2, NormalizedGrows DEF Given
<1>. QED BY <1>1, <1>2

ScoreOf(c, mark, otherwise) == NormalizeComponentScore(Given(c[mark], otherwise))

LEMMA ScoresAre ==
  ASSUME NEW c
  PROVE  LET s == Scores(c)
         IN  /\ s.zone = ScoreOf(c, "zone", 0)
             /\ s.freshness = ScoreOf(c, "freshness", IF c.touched THEN 60 ELSE 100)
             /\ s.moveAway = ScoreOf(c, "moveAway", 0)
             /\ s.base = ScoreOf(c, "base", s.zone)
             /\ s.retest = ScoreOf(c, "retest", 0)
             /\ s.rejection = ScoreOf(c, "rejection", 0)
             /\ s.structure = ScoreOf(c, "structure", Max({0, 10 - c.chop}))
BY DEF Scores, ScoreOf

LEMMA StartsOk ==
  ASSUME NEW c, CandidateOk(c)
  PROVE  Max({0, 10 - c.chop}) \in Int /\ (IF c.touched THEN 60 ELSE 100) \in Int
<1>1. 10 - c.chop \in Int
  BY DEF CandidateOk
<1>. QED BY <1>1, MaxOfTwo

LEMMA ScoreOk ==
  ASSUME NEW c, CandidateOk(c), NEW mark \in ScoreMarks, NEW x \in Int
  PROVE  ScoreOf(c, mark, x) \in 0..100
BY GivenOk, NormalizedOk DEF ScoreOf, CandidateOk

LEMMA ScoresOk ==
  ASSUME NEW c, CandidateOk(c)
  PROVE  LET s == Scores(c)
         IN  /\ s.zone \in 0..100 /\ s.freshness \in 0..100 /\ s.moveAway \in 0..100 /\ s.base \in 0..100
             /\ s.retest \in 0..100 /\ s.rejection \in 0..100 /\ s.structure \in 0..100
<1>. DEFINE s == Scores(c)
<1>1. \A mark \in ScoreMarks, x \in Int : ScoreOf(c, mark, x) \in 0..100
  BY ScoreOk
<1>2. \A x \in Int : /\ ScoreOf(c, "zone", x) \in 0..100 /\ ScoreOf(c, "freshness", x) \in 0..100
                     /\ ScoreOf(c, "moveAway", x) \in 0..100 /\ ScoreOf(c, "base", x) \in 0..100
                     /\ ScoreOf(c, "retest", x) \in 0..100 /\ ScoreOf(c, "rejection", x) \in 0..100
                     /\ ScoreOf(c, "structure", x) \in 0..100
  BY <1>1 DEF ScoreMarks
<1>3. s.zone = ScoreOf(c, "zone", 0) /\ s.moveAway = ScoreOf(c, "moveAway", 0)
      /\ s.retest = ScoreOf(c, "retest", 0) /\ s.rejection = ScoreOf(c, "rejection", 0)
  BY ScoresAre
<1>4. s.freshness = ScoreOf(c, "freshness", IF c.touched THEN 60 ELSE 100)
  BY ScoresAre
<1>5. s.base = ScoreOf(c, "base", s.zone)
  BY ScoresAre
<1>6. s.structure = ScoreOf(c, "structure", Max({0, 10 - c.chop}))
  BY ScoresAre
<1>7. s.zone \in 0..100 /\ s.moveAway \in 0..100 /\ s.retest \in 0..100 /\ s.rejection \in 0..100
  BY <1>2, <1>3
<1>8. s.base \in 0..100
  BY <1>2, <1>5, <1>7, SMTT(30)
<1>9. s.freshness \in 0..100
  BY <1>2, <1>4
<1>10. s.structure \in 0..100
  BY <1>2, <1>6, StartsOk
<1>. QED BY <1>7, <1>8, <1>9, <1>10

-----------------------------------------------------------------------------
(* The card, and the verdict *)

Checks == {"vwap", "trend", "volatility", "chop", "fresh", "moveAway", "base", "confirmed", "retest",
           "rejection", "structure", "zone", "ratio"}

LEMMA CardIs == ASSUME NEW c PROVE DOMAIN Scorecard(c) = Checks
BY DEF Scorecard, Checks

LEMMA PointsAre ==
  ASSUME NEW card
  PROVE  LET E(check, n) == IF card[check] THEN n ELSE 0
         IN  StrictPoints(card) = E("fresh", 2) + E("moveAway", 2) + E("base", 2) + E("retest", 2)
                                    + E("rejection", 1) + E("structure", 1)
BY DEF StrictPoints, Points

LEMMA PointsOfAll ==
  ASSUME NEW card, \A check \in Checks : card[check]
  PROVE  StrictPoints(card) = 10
BY PointsAre DEF Checks

LEMMA PointsGrow ==
  ASSUME NEW one, NEW other,
         \A check \in Checks : one[check] => other[check]
  PROVE  StrictPoints(one) <= StrictPoints(other)
BY PointsAre DEF Checks

LEMMA PointsOk == ASSUME NEW card PROVE StrictPoints(card) \in 0..10
BY PointsAre

LEMMA ReasonsAre ==
  ASSUME NEW c, CandidateOk(c)
  PROVE  RejectionReasons(c) = {} <=> \A check \in Checks : Scorecard(c)[check]
<1>1. DOMAIN Scorecard(c) = Checks
  BY CardIs
<1>2. RejectionReasons(c) = {check \in Checks : ~Scorecard(c)[check]}
                              \cup (IF StrictPoints(Scorecard(c)) < 7 THEN {"score"} ELSE {})
  BY <1>1 DEF RejectionReasons
<1>. QED BY <1>1, <1>2, PointsOfAll

LEMMA QualityOk == ASSUME NEW c, CandidateOk(c) PROVE SetupQuality(c) \in 0..100
<1>. DEFINE s == Scores(c)
            card == Scorecard(c)
            Part(flag, weight) == IF flag THEN 100 * weight ELSE 0
            total == 18 * s.zone + 12 * (s.freshness + s.moveAway + s.rejection + s.structure)
                       + Part(card.confirmed, 10) + Part(card.vwap, 8) + Part(card.trend, 6)
                       + Part(card.volatility, 5) + Part(card.chop, 5)
<1>1. SetupQuality(c) = total \div 100
  BY DEF SetupQuality
<1>2. /\ Part(card.confirmed, 10) \in {0, 1000} /\ Part(card.vwap, 8) \in {0, 800} /\ Part(card.trend, 6) \in {0, 600}
      /\ Part(card.volatility, 5) \in {0, 500} /\ Part(card.chop, 5) \in {0, 500}
  OBVIOUS
<1>3. /\ s.zone \in 0..100 /\ s.freshness \in 0..100 /\ s.moveAway \in 0..100
      /\ s.rejection \in 0..100 /\ s.structure \in 0..100
  BY ScoresOk
<1>4. total \div 100 \in 0..100
  <2>. DEFINE z == s.zone
              f == s.freshness
              m == s.moveAway
              r == s.rejection
              t == s.structure
              p1 == Part(card.confirmed, 10)
              p2 == Part(card.vwap, 8)
              p3 == Part(card.trend, 6)
              p4 == Part(card.volatility, 5)
              p5 == Part(card.chop, 5)
  <2>1. /\ z \in 0..100 /\ f \in 0..100 /\ m \in 0..100 /\ r \in 0..100 /\ t \in 0..100
        /\ p1 \in {0, 1000} /\ p2 \in {0, 800} /\ p3 \in {0, 600} /\ p4 \in {0, 500} /\ p5 \in {0, 500}
    BY <1>2, <1>3
  <2>. HIDE DEF z, f, m, r, t, p1, p2, p3, p4, p5
  <2>. DEFINE sum == 18 * z + 12 * (f + m + r + t) + p1 + p2 + p3 + p4 + p5
  <2>2. sum \in Int /\ 0 <= sum /\ sum <= 10000
    BY <2>1
  <2>3. sum \div 100 \in 0..100
    <3>. HIDE DEF sum
    <3>. QED BY <2>2
  <2>. QED BY <2>3 DEF z, f, m, r, t, p1, p2, p3, p4, p5
<1>. HIDE DEF total
<1>. QED BY <1>1, <1>4

\* Whoever is not rejected has every point.
LEMMA VerdictIs ==
  ASSUME NEW c, CandidateOk(c)
  PROVE  LET verdict == ValidateTrade(c)
         IN  /\ verdict.decision = "PASS" => verdict.strict = 10 /\ verdict.score = 100
             /\ ExecutionAllowed(verdict) <=> verdict.reasons = {}
             /\ verdict.reasons = {} <=> c.readable /\ \A check \in Checks : Scorecard(c)[check]
             /\ c.readable => verdict.strict = StrictPoints(Scorecard(c))
<1>. DEFINE strict == StrictPoints(Scorecard(c))
            score == Max({10 * strict, SetupQuality(c)})
            reasons == RejectionReasons(c)
<1>1. CASE ~c.readable
  <2>1. ValidateTrade(c) = [decision |-> "FAIL", score |-> 0, strict |-> 0, reasons |-> {"invalid_input"}]
    BY <1>1 DEF ValidateTrade
  <2>. QED BY <1>1, <2>1 DEF ExecutionAllowed
<1>2. CASE c.readable
  <2>1. ValidateTrade(c) = [decision |-> IF reasons = {} /\ score >= 70 THEN "PASS" ELSE "FAIL",
                            score |-> score, strict |-> strict, reasons |-> reasons]
    BY <1>2 DEF ValidateTrade
  <2>2. reasons = {} <=> \A check \in Checks : Scorecard(c)[check]
    BY ReasonsAre
  <2>3. reasons = {} => strict = 10 /\ score = 100
    <3>1. reasons = {} => strict = 10
      BY <2>2, PointsOfAll
    <3>2. SetupQuality(c) \in 0..100
      BY QualityOk
    <3>3. ASSUME strict = 10 PROVE score = 100
      <4>1. 10 * strict = 100
        BY <3>3
      <4>2. Max({100, SetupQuality(c)}) = 100
        BY <3>2, MaxOfHundred
      <4>. QED BY <4>1, <4>2
    <3>. QED BY <3>1, <3>3
  <2>. HIDE DEF strict, score, reasons
  <2>4. /\ ValidateTrade(c).strict = strict /\ ValidateTrade(c).score = score /\ ValidateTrade(c).reasons = reasons
        /\ ValidateTrade(c).decision = IF reasons = {} /\ score >= 70 THEN "PASS" ELSE "FAIL"
    BY <2>1
  <2>. QED BY <1>2, <2>2, <2>3, <2>4 DEF ExecutionAllowed, strict
<1>. QED BY <1>1, <1>2

-----------------------------------------------------------------------------
(* A score that rises *)

\* The score that a better one may take back.
TakenBack(c, mark) == mark = "zone" /\ c.base = Absent /\ c[mark] = 1

\* A candidate like `c` but for one score, which is better.
Better(c, d, mark) ==
  /\ CandidateOk(c) /\ CandidateOk(d) /\ mark \in ScoreMarks
  /\ \A m \in DOMAIN Perfect \ {mark} : d[m] = c[m]
  /\ c[mark] # Absent /\ c[mark] < d[mark] /\ (d[mark] <= 10 \/ c[mark] > 10)

LEMMA ScoreGrows ==
  ASSUME NEW c, NEW d, NEW mark, Better(c, d, mark), NEW m \in ScoreMarks, NEW x \in Int
  PROVE  ScoreOf(c, m, x) <= ScoreOf(d, m, x)
<1>1. c[m] \in Int /\ d[m] \in Int
  BY DEF Better, CandidateOk
<1>2. CASE m = mark
  BY <1>1, <1>2, GivenGrows DEF Better, ScoreOf
<1>3. CASE m # mark
  <2>1. d[m] = c[m]
    BY <1>3, MarksAre DEF Better
  <2>2. ScoreOf(c, m, x) \in 0..100
    BY <1>1, GivenOk, NormalizedOk DEF ScoreOf
  <2>. QED BY <2>1, <2>2 DEF ScoreOf
<1>. QED BY <1>2, <1>3

\* The base of a candidate that has no score of it is scored as its zone, once more.
LEMMA BaseGrows ==
  ASSUME NEW c, NEW d, NEW mark, Better(c, d, mark), ~TakenBack(c, mark)
  PROVE  Scores(c).base <= Scores(d).base
<1>1. c.base \in Int /\ d.base \in Int /\ c.zone \in Int /\ d.zone \in Int
  BY DEF Better, CandidateOk, ScoreMarks
<1>2. Scores(c).zone \in 0..100 /\ Scores(d).zone \in 0..100
  BY ScoresOk DEF Better
<1>3. Scores(c).base = ScoreOf(c, "base", Scores(c).zone) /\ Scores(d).base = ScoreOf(d, "base", Scores(d).zone)
  BY ScoresAre
<1>4. CASE mark = "base"
  <2>1. c.base # Absent /\ c.base < d.base /\ (d.base <= 10 \/ c.base > 10)
    BY <1>4 DEF Better
  <2>2. NormalizeComponentScore(Given(c.base, Scores(c).zone)) <= NormalizeComponentScore(Given(d.base, Scores(d).zone))
    <3>. DEFINE a == c.base
                b == d.base
                x == Scores(c).zone
                y == Scores(d).zone
    <3>1. a \in Int /\ b \in Int /\ x \in Int /\ y \in Int /\ a # Absent /\ a < b /\ (b <= 10 \/ a > 10)
      BY <1>1, <1>2, <2>1
    <3>. HIDE DEF a, b, x, y
    <3>2. NormalizeComponentScore(Given(a, x)) <= NormalizeComponentScore(Given(b, y))
      BY <3>1, GivenGrows
    <3>. QED BY <3>2 DEF a, b, x, y
  <2>. QED BY <1>3, <2>2 DEF ScoreOf
<1>5. CASE mark = "zone"
  <2>1. d.base = c.base
    BY <1>5, MarksAre DEF Better, ScoreMarks
  <2>2. CASE c.base # Absent
    <3>1. Scores(c).base = Scores(d).base /\ Scores(c).base \in 0..100
      BY <1>3, <2>1, <2>2, ScoresOk DEF ScoreOf, Given, Better
    <3>. QED BY <3>1
  <2>3. CASE c.base = Absent
    <3>1. /\ Scores(c).base = NormalizeComponentScore(Scores(c).zone)
          /\ Scores(d).base = NormalizeComponentScore(Scores(d).zone)
      BY <1>3, <2>1, <2>3 DEF ScoreOf, Given
    <3>2. c.zone # 1 /\ c.zone # Absent /\ c.zone < d.zone /\ (d.zone <= 10 \/ c.zone > 10)
      BY <1>5, <2>3 DEF TakenBack, Better
    <3>. DEFINE before == c.zone
                after == d.zone
    <3>0. before \in Int /\ after \in Int
      BY <1>1
    <3>5. Scores(c).zone = NormalizeComponentScore(before)
      BY <3>2, ScoresAre DEF ScoreOf, Given
    <3>6. Scores(d).zone = NormalizeComponentScore(Given(after, 0))
      BY ScoresAre DEF ScoreOf
    <3>7. before # 1 /\ before # Absent /\ before < after /\ (after <= 10 \/ before > 10)
      BY <3>2
    <3>. HIDE DEF before, after
    <3>3. CASE before <= 0
      <4>1. Scores(c).zone = 0
        BY <3>0, <3>3, <3>5, NormalizedIs
      <4>2. Scores(c).base = 0
        BY <3>1, <4>1, NormalizedIs
      <4>. QED BY <4>2, ScoresOk DEF Better
    <3>4. CASE before >= 2
      <4>1. Scores(d).zone = NormalizeComponentScore(after)
        BY <3>0, <3>4, <3>6, <3>7 DEF Given, Absent
      <4>2. Scores(c).zone > 10
        BY <3>0, <3>4, <3>5, NormalizedIs
      <4>3. Scores(c).zone <= Scores(d).zone
        BY <3>0, <3>5, <3>7, <4>1, NormalizedGrows
      <4>. QED BY <1>2, <3>1, <4>2, <4>3, NormalizedIs
    <3>. QED BY <3>0, <3>3, <3>4, <3>7
  <2>. QED BY <2>2, <2>3
<1>6. CASE mark \notin {"base", "zone"}
  <2>1. d.base = c.base /\ d.zone = c.zone
    BY <1>6, MarksAre DEF Better, ScoreMarks
  <2>2. Scores(c).base = Scores(d).base
    BY <1>3, <2>1, ScoresAre, ZenonT(60) DEF ScoreOf
  <2>. QED BY <2>2, ScoresOk DEF Better
<1>. QED BY <1>4, <1>5, <1>6

LEMMA ScoresGrow ==
  ASSUME NEW c, NEW d, NEW mark, Better(c, d, mark)
  PROVE  LET s == Scores(c)
             t == Scores(d)
         IN  /\ s.zone <= t.zone /\ s.freshness <= t.freshness /\ s.moveAway <= t.moveAway
             /\ s.retest <= t.retest /\ s.rejection <= t.rejection /\ s.structure <= t.structure
<1>1. d.touched = c.touched /\ d.chop = c.chop
  BY MarksAre DEF Better, ScoreMarks
<1>2. Max({0, 10 - c.chop}) \in Int
  BY StartsOk DEF Better
<1>3. 0 \in Int /\ (IF c.touched THEN 60 ELSE 100) \in Int
  OBVIOUS
<1>4. \A m \in ScoreMarks : \A x \in Int : ScoreOf(c, m, x) <= ScoreOf(d, m, x)
  BY ScoreGrows
<1>5. "zone" \in ScoreMarks /\ "freshness" \in ScoreMarks /\ "moveAway" \in ScoreMarks
      /\ "retest" \in ScoreMarks /\ "rejection" \in ScoreMarks /\ "structure" \in ScoreMarks
  BY DEF ScoreMarks
<1>6. /\ \A x \in Int : ScoreOf(c, "zone", x) <= ScoreOf(d, "zone", x)
      /\ \A x \in Int : ScoreOf(c, "freshness", x) <= ScoreOf(d, "freshness", x)
      /\ \A x \in Int : ScoreOf(c, "moveAway", x) <= ScoreOf(d, "moveAway", x)
      /\ \A x \in Int : ScoreOf(c, "retest", x) <= ScoreOf(d, "retest", x)
      /\ \A x \in Int : ScoreOf(c, "rejection", x) <= ScoreOf(d, "rejection", x)
      /\ \A x \in Int : ScoreOf(c, "structure", x) <= ScoreOf(d, "structure", x)
  BY <1>4, <1>5
<1>. DEFINE s == Scores(c)
            t == Scores(d)
            x == Max({0, 10 - c.chop})
            y == IF c.touched THEN 60 ELSE 100
<1>7. /\ s.zone = ScoreOf(c, "zone", 0) /\ s.moveAway = ScoreOf(c, "moveAway", 0)
      /\ s.retest = ScoreOf(c, "retest", 0) /\ s.rejection = ScoreOf(c, "rejection", 0)
      /\ s.freshness = ScoreOf(c, "freshness", y) /\ s.structure = ScoreOf(c, "structure", x)
  BY ScoresAre
<1>8. /\ t.zone = ScoreOf(d, "zone", 0) /\ t.moveAway = ScoreOf(d, "moveAway", 0)
      /\ t.retest = ScoreOf(d, "retest", 0) /\ t.rejection = ScoreOf(d, "rejection", 0)
      /\ t.freshness = ScoreOf(d, "freshness", y) /\ t.structure = ScoreOf(d, "structure", x)
  BY <1>1, ScoresAre
<1>9. x \in Int /\ y \in Int
  BY <1>2
<1>. HIDE DEF s, t, x, y
<1>. QED BY <1>6, <1>7, <1>8, <1>9 DEF s, t

LEMMA CardGrows ==
  ASSUME NEW c, NEW d, NEW mark, Better(c, d, mark), ~TakenBack(c, mark)
  PROVE  \A check \in Checks : Scorecard(c)[check] => Scorecard(d)[check]
<1>. DEFINE s == Scores(c)
            t == Scores(d)
<1>1. /\ d.vwap = c.vwap /\ d.trend = c.trend /\ d.volatility = c.volatility /\ d.lively = c.lively
      /\ d.chopOk = c.chopOk /\ d.chop = c.chop /\ d.confirmed = c.confirmed /\ d.ratio = c.ratio
  BY MarksAre DEF Better, ScoreMarks, FlagMarks
<1>2. /\ s.zone <= t.zone /\ s.freshness <= t.freshness /\ s.moveAway <= t.moveAway /\ s.base <= t.base
      /\ s.retest <= t.retest /\ s.rejection <= t.rejection /\ s.structure <= t.structure
  BY ScoresGrow, BaseGrows
<1>3. /\ s.zone \in 0..100 /\ s.freshness \in 0..100 /\ s.moveAway \in 0..100 /\ s.base \in 0..100
      /\ s.retest \in 0..100 /\ s.rejection \in 0..100 /\ s.structure \in 0..100
      /\ t.zone \in 0..100 /\ t.freshness \in 0..100 /\ t.moveAway \in 0..100 /\ t.base \in 0..100
      /\ t.retest \in 0..100 /\ t.rejection \in 0..100 /\ t.structure \in 0..100
  BY ScoresOk DEF Better
<1>. HIDE DEF s, t
<1>4. Told(c.confirmed, s.retest >= 60) => Told(c.confirmed, t.retest >= 60)
  <2>1. c.confirmed \in FlagValues
    BY DEF Better, CandidateOk, FlagMarks
  <2>2. s.retest >= 60 => t.retest >= 60
    BY <1>2, <1>3
  <2>. QED BY <2>1, <2>2, Zenon DEF Told, FlagValues
<1>. DEFINE one == Scorecard(c)
            other == Scorecard(d)
<1>5. /\ one.vwap = Told(c.vwap, TRUE) /\ one.trend = Told(c.trend, TRUE)
      /\ one.volatility = Told(c.volatility, c.lively) /\ one.chop = Told(c.chopOk, c.chop <= 6)
      /\ one.ratio = (c.ratio >= 4) /\ one.confirmed = Told(c.confirmed, s.retest >= 60)
  BY DEF Scorecard, s
<1>6. /\ other.vwap = Told(d.vwap, TRUE) /\ other.trend = Told(d.trend, TRUE)
      /\ other.volatility = Told(d.volatility, d.lively) /\ other.chop = Told(d.chopOk, d.chop <= 6)
      /\ other.ratio = (d.ratio >= 4) /\ other.confirmed = Told(d.confirmed, t.retest >= 60)
  BY DEF Scorecard, t
<1>7. /\ (one.fresh <=> s.freshness >= 60) /\ (one.moveAway <=> s.moveAway >= 50) /\ (one.base <=> s.base >= 45)
      /\ (one.retest <=> s.retest >= 60 /\ Told(c.confirmed, s.retest >= 60)) /\ (one.zone <=> s.zone >= 50)
      /\ (one.rejection <=> s.rejection >= 45) /\ (one.structure <=> s.structure >= 50)
  BY DEF Scorecard, s
<1>8. /\ (other.fresh <=> t.freshness >= 60) /\ (other.moveAway <=> t.moveAway >= 50) /\ (other.base <=> t.base >= 45)
      /\ (other.retest <=> t.retest >= 60 /\ Told(d.confirmed, t.retest >= 60)) /\ (other.zone <=> t.zone >= 50)
      /\ (other.rejection <=> t.rejection >= 45) /\ (other.structure <=> t.structure >= 50)
  BY DEF Scorecard, t
<1>. HIDE DEF one, other
<1>9. /\ other.vwap = one.vwap /\ other.trend = one.trend /\ other.volatility = one.volatility
      /\ other.chop = one.chop /\ other.ratio = one.ratio
  BY <1>1, <1>5, <1>6
<1>10. one.confirmed => other.confirmed
  BY <1>1, <1>4, <1>5, <1>6
<1>11. /\ one.fresh => other.fresh
       /\ one.moveAway => other.moveAway
       /\ one.base => other.base
       /\ one.rejection => other.rejection
       /\ one.structure => other.structure
       /\ one.zone => other.zone
  <2>1. (s.freshness >= 60 => t.freshness >= 60) /\ (s.moveAway >= 50 => t.moveAway >= 50)
    BY <1>2, <1>3, SMTT(30)
  <2>2. (s.base >= 45 => t.base >= 45) /\ (s.rejection >= 45 => t.rejection >= 45)
    BY <1>2, <1>3, SMTT(30)
  <2>3. (s.structure >= 50 => t.structure >= 50) /\ (s.zone >= 50 => t.zone >= 50)
    BY <1>2, <1>3, SMTT(30)
  <2>. QED BY <1>7, <1>8, <2>1, <2>2, <2>3
<1>12. one.retest => other.retest
  <2>1. s.retest >= 60 => t.retest >= 60
    BY <1>2, <1>3
  <2>. QED BY <1>1, <1>4, <1>7, <1>8, <2>1
<1>. QED BY <1>9, <1>10, <1>11, <1>12 DEF Checks, one, other

\* Whoever passes goes on passing, and keeps its points but for what a base borrowed.
LEMMA BetterVerdict ==
  ASSUME NEW c, NEW d, NEW mark, Better(c, d, mark), c.readable
  PROVE  /\ ValidateTrade(d).strict >= ValidateTrade(c).strict \/ TakenBack(c, mark)
         /\ ExecutionAllowed(ValidateTrade(c)) => ExecutionAllowed(ValidateTrade(d))
<1>1. CandidateOk(c) /\ CandidateOk(d) /\ d.readable = c.readable
  BY MarksAre DEF Better, ScoreMarks
<1>2. ~TakenBack(c, mark) => \A check \in Checks : Scorecard(c)[check] => Scorecard(d)[check]
  BY CardGrows
<1>3. ~TakenBack(c, mark) => StrictPoints(Scorecard(c)) <= StrictPoints(Scorecard(d))
  BY <1>2, PointsGrow
<1>4. /\ ValidateTrade(c).strict = StrictPoints(Scorecard(c)) /\ ValidateTrade(d).strict = StrictPoints(Scorecard(d))
      /\ StrictPoints(Scorecard(c)) \in 0..10 /\ StrictPoints(Scorecard(d)) \in 0..10
  BY <1>1, VerdictIs, PointsOk
<1>5. ASSUME ExecutionAllowed(ValidateTrade(c)) PROVE ExecutionAllowed(ValidateTrade(d))
  <2>1. \A check \in Checks : Scorecard(c)[check]
    BY <1>1, <1>5, VerdictIs
  <2>2. ~TakenBack(c, mark)
    <3>1. Scores(c).zone >= 50
      BY <2>1 DEF Checks, Scorecard
    <3>2. Scores(c).zone = NormalizeComponentScore(Given(c.zone, 0))
      BY DEF Scores
    <3>3. c.zone = 1 => Scores(c).zone = 10
      <4>1. NormalizeComponentScore(1) = 10
        BY NormalizedIs
      <4>. QED BY <3>2, <4>1 DEF Given, Absent
    <3>. QED BY <3>1, <3>3 DEF TakenBack
  <2>3. \A check \in Checks : Scorecard(d)[check]
    BY <1>2, <2>1, <2>2
  <2>. QED BY <1>1, <2>3, VerdictIs
<1>. QED BY <1>3, <1>4, <1>5

\* For any scores, chops and ratios a candidate may have: the gate lets through none
\* but those without a flaw, and to score better on one scale takes nothing back but
\* the points of a base that was borrowed from the zone (engine.py:43,103,255).
THEOREM GatesKept == ValidationSpec => GatesHold
<1>1. ValidationInit => SetupOk
  BY CandidateInitOk DEF SetupOk
<1>2. SetupOk /\ [ValidationNext]_setup => SetupOk'
  BY CandidateNextOk DEF SetupOk
<1>3. SetupOk => PassIsPerfect
  BY VerdictIs DEF PassIsPerfect, SetupOk
<1>4. SetupOk /\ SetupOk' =>
        \A mark \in ScoreMarks :
          LET before == setup[mark]
              after == setup'[mark]
          IN  ( /\ setup.readable /\ before # Absent /\ before < after /\ (after <= 10 \/ before > 10)
                /\ setup' = [setup EXCEPT ![mark] = after] )
              => /\ \/ ValidateTrade(setup').strict >= ValidateTrade(setup).strict
                    \/ mark = "zone" /\ setup.base = Absent /\ before = 1
                 /\ ExecutionAllowed(ValidateTrade(setup)) => ExecutionAllowed(ValidateTrade(setup'))
  <2>1. ASSUME CandidateOk(setup), CandidateOk(setup'), NEW mark \in ScoreMarks,
               setup' = [setup EXCEPT ![mark] = setup'[mark]], setup.readable,
               setup[mark] # Absent, setup[mark] < setup'[mark], setup'[mark] <= 10 \/ setup[mark] > 10
        PROVE  Better(setup, setup', mark)
    <3>1. \A m \in DOMAIN Perfect \ {mark} : setup'[m] = setup[m]
      BY <2>1 DEF CandidateOk
    <3>. QED BY <2>1, <3>1 DEF Better
  <2>. QED BY <2>1, BetterVerdict DEF TakenBack, SetupOk
<1>. QED BY <1>1, <1>2, <1>3, <1>4, PTL DEF ValidationSpec, GatesHold, MoreIsNoWorse

-----------------------------------------------------------------------------
(* Pages over files that are rewritten *)

Files == {"log", "report"}

ViewTyped ==
  /\ files \in [Files -> [content : Nat, signature : Nat \ {0}]]
  /\ kept \in [Kinds -> [signature : Nat, content : Nat]]
  /\ request \in [Readers -> [needs : SUBSET Kinds, kind : Kinds \cup {"none"}, signature : Nat]]
  /\ shown \in [Readers -> [Kinds -> [since : Nat, content : Nat]]]
  /\ past \in [Files -> SUBSET (Nat \X Nat)]

\* The content a file has now is one it has had.
PastKept == \A f \in Files : <<files[f].signature, files[f].content>> \in past[f]

\* No signature is kept, nor in hand, that its file has not had yet.
SignaturesPast ==
  /\ \A kind \in Kinds : kept[kind].signature <= files[FileOf[kind]].signature
  /\ \A r \in Readers : request[r].kind # "none" =>
       request[r].signature <= files[FileOf[request[r].kind]].signature

ViewInv == ViewTyped /\ PastKept /\ SignaturesPast /\ KeptIsCurrent /\ ShownIsNotOlder

LEMMA KindsHaveFiles ==
  /\ Kinds = {"summary", "history", "analysis"}
  /\ \A kind \in Kinds : FileOf[kind] \in Files
  /\ \A page \in Pages : Views[page] \subseteq Kinds
<1>1. Kinds = {"summary", "history", "analysis"}
  BY DEF Kinds, FileOf
<1>2. \A page \in DOMAIN Views : Views[page] \subseteq Kinds
  BY <1>1 DEF Views
<1>. QED BY <1>1, <1>2, PagesAssumption DEF FileOf, Files

LEMMA ViewInitInv == ViewInit => ViewInv
<1>. SUFFICES ASSUME ViewInit PROVE ViewInv
  OBVIOUS
<1>1. ViewTyped
  BY KindsHaveFiles DEF ViewInit, ViewTyped, Files, NotKept, NotShown, Idle, Empty
<1>2. \A f \in Files : files[f].signature = 1 /\ files[f].content = 1 /\ past[f] = {<<1, 1>>}
  BY DEF ViewInit, Files
<1>3. \A kind \in Kinds : kept[kind].signature = 0
  BY DEF ViewInit, NotKept
<1>4. \A r \in Readers : request[r].kind = "none" /\ \A kind \in Kinds : shown[r][kind].since = 0
  BY DEF ViewInit, Idle, NotShown
<1>. QED BY <1>1, <1>2, <1>3, <1>4, KindsHaveFiles
     DEF ViewInv, PastKept, SignaturesPast, KeptIsCurrent, ShownIsNotOlder

\* A file is emptied or written.
LEMMA WriteInv ==
  ASSUME ViewInv, NEW f \in Files, NEW content \in Nat, Write(f, content), UNCHANGED <<kept, request, shown>>
  PROVE  ViewInv'
<1>. DEFINE signature == files[f].signature + 1
<1>1. files[f].signature \in Nat /\ signature \in Nat \ {0}
  BY DEF ViewInv, ViewTyped
<1>2. /\ files' = [files EXCEPT ![f] = [content |-> content, signature |-> signature]]
      /\ past' = [past EXCEPT ![f] = @ \cup {<<signature, content>>}]
  BY DEF Write
<1>3. ViewTyped'
  <2>1. files' \in [Files -> [content : Nat, signature : Nat \ {0}]]
    BY <1>1, <1>2 DEF ViewInv, ViewTyped
  <2>2. past' \in [Files -> SUBSET (Nat \X Nat)]
    BY <1>1, <1>2 DEF ViewInv, ViewTyped
  <2>. QED BY <2>1, <2>2 DEF ViewInv, ViewTyped
<1>4. /\ files'[f].signature = files[f].signature + 1 /\ files'[f].content = content
      /\ \A g \in Files \ {f} : files'[g] = files[g] /\ past'[g] = past[g]
      /\ past'[f] = past[f] \cup {<<files'[f].signature, content>>}
  BY <1>2 DEF ViewInv, ViewTyped
<1>5. \A g \in Files : past[g] \subseteq past'[g] /\ files[g].signature <= files'[g].signature
  BY <1>1, <1>4 DEF ViewInv, ViewTyped
<1>6. PastKept'
  BY <1>4 DEF ViewInv, PastKept
<1>7. SignaturesPast'
  <2>1. ASSUME NEW kind \in Kinds, NEW n \in Nat, n <= files[FileOf[kind]].signature
        PROVE  n <= files'[FileOf[kind]].signature
    <3>1. /\ files[FileOf[kind]].signature \in Nat /\ files'[FileOf[kind]].signature \in Nat
          /\ files[FileOf[kind]].signature <= files'[FileOf[kind]].signature
      BY <1>3, <1>5, KindsHaveFiles DEF ViewInv, ViewTyped
    <3>. QED BY <2>1, <3>1
  <2>2. \A kind \in Kinds : kept'[kind].signature \in Nat /\ kept'[kind] = kept[kind]
    BY DEF ViewInv, ViewTyped
  <2>3. \A r \in Readers : /\ request'[r].signature \in Nat /\ request'[r] = request[r]
                           /\ request[r].kind # "none" => request[r].kind \in Kinds
    BY DEF ViewInv, ViewTyped
  <2>. QED BY <2>1, <2>2, <2>3 DEF ViewInv, SignaturesPast
<1>8. KeptIsCurrent'
  <2>1. ASSUME NEW kind \in Kinds, FileOf[kind] = f PROVE kept[kind].signature # files'[f].signature
    BY <1>1, <1>4, <2>1 DEF ViewInv, ViewTyped, SignaturesPast
  <2>. QED BY <1>4, <2>1, KindsHaveFiles DEF ViewInv, KeptIsCurrent
<1>9. ShownIsNotOlder'
  BY <1>5, KindsHaveFiles DEF ViewInv, ShownIsNotOlder
<1>. QED BY <1>3, <1>6, <1>7, <1>8, <1>9 DEF ViewInv

LEMMA RewriteInv == ASSUME ViewInv, NEW f \in Files, OpenFile(f) \/ WriteFile(f) PROVE ViewInv'
<1>1. Empty \in Nat /\ files[f].signature + 1 \in Nat
  BY DEF ViewInv, ViewTyped, Empty
<1>. QED BY <1>1, WriteInv DEF OpenFile, WriteFile

LEMMA OpenPageInv == ASSUME ViewInv, NEW r \in Readers, OpenPage(r) PROVE ViewInv'
<1>1. PICK page \in Pages : request' = [request EXCEPT ![r].needs = Views[page]]
  BY DEF OpenPage
<1>2. shown' = [shown EXCEPT ![r] = NotShown] /\ UNCHANGED <<files, kept, past>> /\ request[r] = Idle
  BY DEF OpenPage
<1>3. NotShown \in [Kinds -> [since : Nat, content : Nat]] /\ \A kind \in Kinds : NotShown[kind].since = 0
  BY DEF NotShown, Empty
<1>4. Views[page] \subseteq Kinds
  BY KindsHaveFiles
<1>5. ViewTyped'
  BY <1>1, <1>2, <1>3, <1>4, ZenonT(60) DEF ViewInv, ViewTyped
<1>6. \A x \in Readers : request'[x].kind = request[x].kind /\ request'[x].signature = request[x].signature
  BY <1>1 DEF ViewInv, ViewTyped
<1>7. \A x \in Readers, kind \in Kinds : shown'[x][kind] = shown[x][kind] \/ shown'[x][kind].since = 0
  BY <1>2, <1>3 DEF ViewInv, ViewTyped
<1>. QED BY <1>2, <1>5, <1>6, <1>7 DEF ViewInv, PastKept, SignaturesPast, KeptIsCurrent, ShownIsNotOlder

\* What is shown is a content the file has now, with a signature it had before.
LEMMA ShowInv ==
  ASSUME ViewInv, NEW r \in Readers, NEW kind \in Kinds, NEW since \in Nat, NEW content \in Nat,
         Show(r, kind, since, content), UNCHANGED <<files, past>>,
         since <= files[FileOf[kind]].signature, content = files[FileOf[kind]].content,
         kept' \in [Kinds -> [signature : Nat, content : Nat]],
         KeptIsCurrent', \A k \in Kinds : kept'[k].signature <= files[FileOf[k]].signature
  PROVE  ViewInv'
<1>1. /\ shown' = [shown EXCEPT ![r][kind] = [since |-> since, content |-> content]]
      /\ request' = [request EXCEPT ![r] = [Idle EXCEPT !.needs = request[r].needs \ {kind}]]
  BY DEF Show
<1>2. ViewTyped'
  <2>1. shown' \in [Readers -> [Kinds -> [since : Nat, content : Nat]]]
    BY <1>1 DEF ViewInv, ViewTyped
  <2>2. request' \in [Readers -> [needs : SUBSET Kinds, kind : Kinds \cup {"none"}, signature : Nat]]
    BY <1>1 DEF ViewInv, ViewTyped, Idle
  <2>. QED BY <2>1, <2>2 DEF ViewInv, ViewTyped
<1>3. \A x \in Readers : x # r => request'[x] = request[x]
  BY <1>1 DEF ViewInv, ViewTyped
<1>4. request'[r].kind = "none"
  BY <1>1 DEF ViewInv, ViewTyped, Idle
<1>5. SignaturesPast'
  BY <1>3, <1>4 DEF ViewInv, SignaturesPast
<1>6. \A x \in Readers, k \in Kinds : x # r \/ k # kind => shown'[x][k] = shown[x][k]
  BY <1>1 DEF ViewInv, ViewTyped
<1>7. shown'[r][kind].since = since /\ shown'[r][kind].content = content
  BY <1>1 DEF ViewInv, ViewTyped
<1>8. ShownIsNotOlder'
  <2>. SUFFICES ASSUME NEW x \in Readers, NEW k \in Kinds, shown'[x][k].since > 0
                PROVE  \E v \in past[FileOf[k]] : v[1] >= shown'[x][k].since /\ v[2] = shown'[x][k].content
    BY DEF ShownIsNotOlder
  <2>1. CASE x # r \/ k # kind
    BY <1>6, <2>1 DEF ViewInv, ShownIsNotOlder
  <2>2. CASE x = r /\ k = kind
    <3>1. <<files[FileOf[kind]].signature, content>> \in past[FileOf[kind]]
      BY KindsHaveFiles DEF ViewInv, PastKept
    <3>2. files[FileOf[kind]].signature >= since
      BY KindsHaveFiles DEF ViewInv, ViewTyped
    <3>. QED BY <1>7, <2>2, <3>1, <3>2
  <2>. QED BY <2>1, <2>2
<1>. QED BY <1>2, <1>5, <1>8 DEF ViewInv, PastKept

LEMMA StatInv == ASSUME ViewInv, NEW r \in Readers, NEW kind \in Kinds, Stat(r, kind) PROVE ViewInv'
<1>. DEFINE file == files[FileOf[kind]]
<1>1. file.signature \in Nat /\ file.content \in Nat /\ UNCHANGED <<files, kept, past>> /\ Empty \in Nat
  BY KindsHaveFiles DEF Stat, ViewInv, ViewTyped, Empty
<1>2. /\ kept' \in [Kinds -> [signature : Nat, content : Nat]] /\ KeptIsCurrent'
      /\ \A k \in Kinds : kept'[k].signature <= files[FileOf[k]].signature
  BY <1>1 DEF ViewInv, ViewTyped, KeptIsCurrent, SignaturesPast
<1>3. CASE file.content = Empty /\ Show(r, kind, file.signature, Empty)
  BY <1>1, <1>2, <1>3, ShowInv
<1>4. CASE kept[kind].signature = file.signature /\ Show(r, kind, file.signature, kept[kind].content)
  <2>1. kept[kind].content = file.content
    BY <1>4 DEF ViewInv, KeptIsCurrent
  <2>. QED BY <1>1, <1>2, <1>4, <2>1, ShowInv
<1>5. CASE UNCHANGED shown /\ request' = [request EXCEPT ![r].kind = kind, ![r].signature = file.signature]
  <2>1. ViewTyped'
    <3>1. request' \in [Readers -> [needs : SUBSET Kinds, kind : Kinds \cup {"none"}, signature : Nat]]
      BY <1>1, <1>5, ZenonT(60) DEF ViewInv, ViewTyped
    <3>. QED BY <1>1, <1>2, <1>5, <3>1 DEF ViewInv, ViewTyped
  <2>2. /\ \A x \in Readers \ {r} : request'[x] = request[x]
        /\ request'[r].kind = kind /\ request'[r].signature = file.signature
    BY <1>5 DEF ViewInv, ViewTyped
  <2>3. SignaturesPast'
    BY <1>1, <2>2 DEF ViewInv, SignaturesPast
  <2>. QED BY <1>1, <1>5, <2>1, <2>3 DEF ViewInv, PastKept, KeptIsCurrent, ShownIsNotOlder
<1>. QED BY <1>3, <1>4, <1>5 DEF Stat

LEMMA LoadInv == ASSUME ViewInv, NEW r \in Readers, Load(r) PROVE ViewInv'
<1>. DEFINE kind == request[r].kind
            content == files[FileOf[kind]].content
<1>1. kind \in Kinds /\ request[r].signature \in Nat /\ content \in Nat
  BY KindsHaveFiles DEF Load, ViewInv, ViewTyped
<1>2. /\ kept' = [kept EXCEPT ![kind] = [signature |-> request[r].signature, content |-> content]]
      /\ Show(r, kind, request[r].signature, content) /\ UNCHANGED <<files, past>>
  BY DEF Load
<1>3. request[r].signature <= files[FileOf[kind]].signature
  BY <1>1 DEF Load, ViewInv, SignaturesPast
<1>4. kept' \in [Kinds -> [signature : Nat, content : Nat]]
  BY <1>1, <1>2 DEF ViewInv, ViewTyped
<1>5. /\ kept'[kind].signature = request[r].signature /\ kept'[kind].content = content
      /\ \A k \in Kinds \ {kind} : kept'[k] = kept[k]
  BY <1>1, <1>2 DEF ViewInv, ViewTyped
<1>6. KeptIsCurrent'
  BY <1>2, <1>5 DEF ViewInv, KeptIsCurrent
<1>7. \A k \in Kinds : kept'[k].signature <= files[FileOf[k]].signature
  BY <1>3, <1>5 DEF ViewInv, SignaturesPast
<1>. HIDE DEF kind, content
<1>. QED BY <1>1, <1>2, <1>3, <1>4, <1>6, <1>7, ShowInv DEF content

LEMMA ForgetInv == ASSUME ViewInv, NEW kind \in Kinds, Forget(kind) PROVE ViewInv'
<1>1. kept' = [kept EXCEPT ![kind] = NotKept] /\ UNCHANGED <<files, request, shown, past>>
  BY DEF Forget
<1>2. NotKept.signature = 0 /\ NotKept \in [signature : Nat, content : Nat]
  BY DEF NotKept, Empty
<1>3. ViewTyped'
  BY <1>1, <1>2 DEF ViewInv, ViewTyped
<1>4. kept'[kind].signature = 0 /\ \A k \in Kinds \ {kind} : kept'[k] = kept[k]
  BY <1>1, <1>2 DEF ViewInv, ViewTyped
<1>5. \A k \in Kinds : files[FileOf[k]].signature \in Nat \ {0}
  BY KindsHaveFiles DEF ViewInv, ViewTyped
<1>6. SignaturesPast' /\ KeptIsCurrent'
  BY <1>1, <1>4, <1>5 DEF ViewInv, SignaturesPast, KeptIsCurrent
<1>. QED BY <1>1, <1>3, <1>6 DEF ViewInv, PastKept, ShownIsNotOlder

LEMMA ViewStep == ASSUME ViewInv, [ViewNext]_viewVars PROVE ViewInv'
<1>1. DOMAIN files = Files
  BY DEF ViewInv, ViewTyped
<1>2. CASE ViewNext
  BY <1>1, <1>2, RewriteInv, OpenPageInv, LoadInv, StatInv, ForgetInv DEF ViewNext
<1>3. CASE UNCHANGED viewVars
  BY <1>3 DEF viewVars, ViewInv, ViewTyped, PastKept, SignaturesPast, KeptIsCurrent, ShownIsNotOlder
<1>. QED BY <1>2, <1>3

\* However often the log and the report are rewritten while requests read them,
\* nothing outdated is kept as current and no page shows a content its file did not
\* have since the page was asked for (dashboard_summary.py:82,89).
THEOREM PagesKept == ViewSpec => []PagesHold
<1>1. ViewInv => PagesHold
  BY DEF ViewInv, PagesHold
<1>. QED BY <1>1, ViewInitInv, ViewStep, PTL DEF ViewSpec

-----------------------------------------------------------------------------
(* The metrics file *)

Metrics == DOMAIN Default
Counters == {"failures", "schema", "notices"}
Snapshots == [Metrics -> Nat]
Writing == {"read", "open", "write"}

\* What may be left of an operation: of one that counts or sets the number of alerts,
\* and of one that records a frame, by the write that is next.
Plain ==
  {Failure, Unprepared, <<Increment("notices")>>}
    \cup {<<SetTo("active", n)>> : n \in Nat} \cup {<<SetTo("active", n), Increment("notices")>> : n \in Nat}
AtLatest(load) == {Prepared(load), Measured(load), Refreshed(load)}
AtDelay(load) ==
  {<<SetTo("delay", load[2])>>, <<SetTo("delay", load[2]), SetTo("schema", load[3])>>,
   <<SetTo("delay", load[2]), SetTo("latest", load[1]), SetTo("delay", load[2]), SetTo("schema", load[3])>>}
AtSchema(load) == {<<SetTo("schema", load[3])>>}
OfFrame(load) == AtLatest(load) \cup AtDelay(load) \cup AtSchema(load)
Todos == {<<>>} \cup Plain \cup UNION {OfFrame(load) : load \in Feed}

WriterRecords ==
  [phase : {"idle", "alerts", "heartbeat"} \cup Writing, todo : Todos, hand : Snapshots,
   alerts : SUBSET Metrics, answer : {<<>>} \cup (Nat \X Nat), frame : {<<>>} \cup Feed]

MetricsTyped ==
  /\ snapshot \in Snapshots \cup {Truncated, Garbled}
  /\ writer \in [Writers -> WriterRecords]
  /\ begun \in [Metrics -> Nat] /\ due \in Nat /\ loads \subseteq Feed /\ disturbed \in BOOLEAN
  /\ \A w \in Writers : writer[w].phase \in Writing <=> writer[w].todo # <<>>

\* The increments of a counter that are not still to come.
Counts(todo, m) == \E k \in DOMAIN todo : todo[k] = Increment(m)
Counting(m) == {w \in Writers : Counts(writer[w].todo, m)}
Finished(m) == begun[m] - Cardinality(Counting(m))

\* A file that is there, or will be written, shows at most those, added to what the
\* counter was set to ...
Bounded(file) == \A m \in Counters : \E n \in IssuesFor(m) : file[m] <= n + Finished(m)

\* ... and the delay of a frame.
Caused(file) == file["delay"] > 0 => \E load \in loads : load[2] = file["delay"]

\* A frame is being recorded; the schema failures will be set, which is last.
Recording(todo) == todo # <<>> /\ Head(todo).metric \in {"latest", "delay"}
Resets(todo) == todo # <<>> /\ todo[Len(todo)].metric = "schema"

HandTrue(w) ==
  /\ writer[w].phase \in {"open", "write"} => Bounded(writer[w].hand) /\ Caused(writer[w].hand)
  /\ writer[w].todo \in Plain \cup {<<>>} \/ \E load \in loads : writer[w].todo \in OfFrame(load)
  /\ writer[w].frame # <<>> => writer[w].frame \in loads

FilesTrue ==
  /\ \A m \in Counters : 0 <= Finished(m)
  /\ Readable(snapshot) => Bounded(snapshot) /\ Caused(snapshot)
  /\ \A w \in Writers : HandTrue(w)

AlertsTrue(w) ==
  /\ \A m \in {"failures", "schema"} : m \in writer[w].alerts => \E n \in IssuesFor(m) : n + begun[m] > 0
  /\ "delay" \in writer[w].alerts => \E load \in loads : load[2] > 0

\* Nobody has disturbed anybody: one writer at most is at work, and the file, or what
\* it will be written from, lacks only what that writer has still to do.
Exact(file) ==
  /\ \A m \in {"failures", "notices"} : file[m] = Finished(m)
  /\ (\A w \in Writers : ~Resets(writer[w].todo)) => file["schema"] + begun["schema"] = due + Finished("schema")
  /\ (\A w \in Writers : ~Recording(writer[w].todo)) =>
       \/ file["latest"] = 0 /\ loads = {}
       \/ \E load \in loads : file["latest"] = load[1] /\ file["delay"] = load[2]

WorkTrue(w) ==
  /\ writer[w].phase = "open" => writer[w].hand = snapshot
  /\ writer[w].phase = "write" => snapshot = Truncated /\ Exact(writer[w].hand)
  /\ Resets(writer[w].todo) => writer[w].todo[Len(writer[w].todo)].value = due
  /\ Recording(writer[w].todo) =>
       \E load \in loads :
         \/ writer[w].todo \in AtLatest(load)
         \/ /\ writer[w].todo \in AtDelay(load)
            /\ writer[w].phase = "write" => writer[w].hand["latest"] = load[1]
            /\ Readable(snapshot) => snapshot["latest"] = load[1]
  /\ "latest" \in writer[w].alerts /\ writer[w].phase # "idle" => loads = {}
  /\ writer[w].answer # <<>> => \E load \in loads : writer[w].answer = <<load[1], load[2]>>

Alone(w) == \A x \in Writers \ {w} : writer[x].phase = "idle"

OneAtWork ==
  /\ \A w \in Writers : writer[w].phase # "idle" => Alone(w)
  /\ Readable(snapshot) => Exact(snapshot)
  /\ Readable(snapshot) \/ \E w \in Writers : writer[w].phase = "write"
  /\ \A w \in Writers : WorkTrue(w)

MetricsInv ==
  MetricsTyped /\ FilesTrue /\ (\A w \in Writers : AlertsTrue(w)) /\ (~disturbed => OneAtWork)

LEMMA MetricsNamed ==
  /\ Metrics = {"failures", "schema", "latest", "delay", "active", "notices"}
  /\ Default \in Snapshots /\ \A m \in Metrics : Default[m] = 0
  /\ Readable(Default) /\ Counters \subseteq Metrics
<1>1. Metrics = {"failures", "schema", "latest", "delay", "active", "notices"}
  BY DEF Metrics, Default
<1>2. Default \in Snapshots /\ \A m \in Metrics : Default[m] = 0
  BY <1>1 DEF Snapshots, Default
<1>3. Readable(Default)
  BY DEF Readable, Default, Truncated, Garbled
<1>. QED BY <1>1, <1>2, <1>3 DEF Counters

\* A file of metrics is readable, and what is readable is one.
LEMMA ReadableFiles == \A file \in Snapshots : Readable(file)
<1>. SUFFICES ASSUME NEW file \in Snapshots PROVE file # Truncated /\ file # Garbled
  BY DEF Readable
<1>1. DOMAIN file = Metrics /\ "broken" \notin Metrics
  BY MetricsNamed DEF Snapshots
<1>2. DOMAIN Truncated = {"broken"} /\ DOMAIN Garbled = {"broken"}
  BY DEF Truncated, Garbled
<1>. QED BY <1>1, <1>2

\* Lists of one write and of two.
LEMMA ShortLists ==
  /\ \A a : /\ Head(<<a>>) = a /\ Tail(<<a>>) = <<>> /\ Len(<<a>>) = 1 /\ <<a>>[1] = a
            /\ DOMAIN <<a>> = {1} /\ <<a>> # <<>>
  /\ \A a, b : /\ Head(<<a, b>>) = a /\ Tail(<<a, b>>) = <<b>> /\ Len(<<a, b>>) = 2
               /\ <<a, b>>[1] = a /\ <<a, b>>[2] = b /\ DOMAIN <<a, b>> = {1, 2} /\ <<a, b>> # <<>>
  /\ \A a, b, c : <<a>> # <<b, c>>
OBVIOUS

LEMMA OneAfterOne == ASSUME NEW a, NEW b PROVE <<a>> \o <<b>> = <<a, b>>
<1>. DEFINE S == {a, b}
            s == <<a>> \o <<b>>
            t == <<a, b>>
<1>1. <<a>> \in Seq(S) /\ <<b>> \in Seq(S) /\ t \in Seq(S)
  OBVIOUS
<1>2. s \in Seq(S) /\ Len(s) = 2 /\ \A k \in 1 .. 2 : s[k] = IF k <= 1 THEN <<a>>[k] ELSE <<b>>[k - 1]
  BY <1>1, ConcatProperties
<1>3. Len(t) = 2 /\ t[1] = a /\ t[2] = b /\ s[1] = a /\ s[2] = b
  BY <1>2
<1>4. \A k \in 1 .. Len(s) : s[k] = t[k]
  BY <1>2, <1>3
<1>5. s = t
  <2>. HIDE DEF s, t, S
  <2>. QED BY <1>1, <1>2, <1>3, <1>4, SeqEqual
<1>. QED BY <1>5

LEMMA WritesDiffer ==
  /\ \A m : /\ Increment(m).metric = m /\ Increment(m).set = FALSE /\ Increment(m).value = 1
            /\ Increment(m).set \in BOOLEAN
  /\ \A n, v : /\ SetTo(n, v).metric = n /\ SetTo(n, v).set = TRUE /\ SetTo(n, v).value = v
               /\ SetTo(n, v).set \in BOOLEAN
  /\ \A m, n, v : Increment(m) # SetTo(n, v)
  /\ \A m, n : Increment(m) = Increment(n) => m = n
  /\ \A m, n, u, v : SetTo(m, u) = SetTo(n, v) => m = n /\ u = v
<1>1. \A m : /\ Increment(m).metric = m /\ Increment(m).set = FALSE /\ Increment(m).value = 1
            /\ Increment(m).set \in BOOLEAN
  BY DEF Increment
<1>2. \A n, v : /\ SetTo(n, v).metric = n /\ SetTo(n, v).set = TRUE /\ SetTo(n, v).value = v
               /\ SetTo(n, v).set \in BOOLEAN
  BY DEF SetTo
<1>. QED BY <1>1, <1>2

\* Longer lists of writes.
LEMMA LongLists ==
  /\ \A a, b, c : /\ Head(<<a, b, c>>) = a /\ Tail(<<a, b, c>>) = <<b, c>> /\ Len(<<a, b, c>>) = 3
                  /\ DOMAIN <<a, b, c>> = 1 .. 3 /\ <<a, b, c>> # <<>>
                  /\ <<a, b, c>>[1] = a /\ <<a, b, c>>[2] = b /\ <<a, b, c>>[3] = c
  /\ \A a, b, c, d : /\ Head(<<a, b, c, d>>) = a /\ Tail(<<a, b, c, d>>) = <<b, c, d>> /\ Len(<<a, b, c, d>>) = 4
                     /\ DOMAIN <<a, b, c, d>> = 1 .. 4 /\ <<a, b, c, d>> # <<>>
                     /\ <<a, b, c, d>>[1] = a /\ <<a, b, c, d>>[2] = b /\ <<a, b, c, d>>[3] = c
                     /\ <<a, b, c, d>>[4] = d
  /\ \A a, b, c, d, e : /\ Head(<<a, b, c, d, e>>) = a /\ Tail(<<a, b, c, d, e>>) = <<b, c, d, e>>
                        /\ Len(<<a, b, c, d, e>>) = 5
                        /\ DOMAIN <<a, b, c, d, e>> = 1 .. 5 /\ <<a, b, c, d, e>> # <<>>
                        /\ <<a, b, c, d, e>>[1] = a /\ <<a, b, c, d, e>>[2] = b /\ <<a, b, c, d, e>>[3] = c
                        /\ <<a, b, c, d, e>>[4] = d /\ <<a, b, c, d, e>>[5] = e
OBVIOUS

LEMMA ThreeAfterTwo ==
  ASSUME NEW a, NEW b, NEW c, NEW d, NEW e PROVE <<a, b>> \o <<c, d, e>> = <<a, b, c, d, e>>
<1>. DEFINE S == {a, b, c, d, e}
            p == <<a, b>>
            q == <<c, d, e>>
            s == p \o q
            t == <<a, b, c, d, e>>
<1>1. p \in Seq(S) /\ q \in Seq(S) /\ t \in Seq(S) /\ Len(p) = 2 /\ Len(q) = 3 /\ Len(t) = 5
  OBVIOUS
<1>2. /\ p[1] = a /\ p[2] = b /\ q[1] = c /\ q[2] = d /\ q[3] = e
      /\ t[1] = a /\ t[2] = b /\ t[3] = c /\ t[4] = d /\ t[5] = e
  OBVIOUS
<1>. HIDE DEF p, q, t, S
<1>3. s \in Seq(S) /\ Len(s) = 5 /\ \A k \in 1 .. 5 : s[k] = IF k <= 2 THEN p[k] ELSE q[k - 2]
  <2>1. /\ s \in Seq(S) /\ Len(s) = Len(p) + Len(q)
        /\ \A k \in 1 .. Len(p) + Len(q) : s[k] = IF k <= Len(p) THEN p[k] ELSE q[k - Len(p)]
    BY <1>1, ConcatProperties
  <2>2. Len(p) + Len(q) = 5
    BY <1>1
  <2>. QED BY <1>1, <2>1, <2>2
<1>4. \A k \in 1 .. 5 : s[k] = t[k]
  <2>1. s[1] = t[1] /\ s[2] = t[2] /\ s[3] = t[3] /\ s[4] = t[4] /\ s[5] = t[5]
    BY <1>2, <1>3
  <2>2. \A k \in 1 .. 5 : k = 1 \/ k = 2 \/ k = 3 \/ k = 4 \/ k = 5
    OBVIOUS
  <2>. QED BY <2>1, <2>2
<1>5. s = t
  <2>. HIDE DEF s
  <2>. QED BY <1>1, <1>3, <1>4, SeqEqual
<1>. QED BY <1>5 DEF p, q, t

LEMMA Frames ==
  \A load \in Feed :
    /\ load[1] \in Nat /\ load[1] # 0 /\ load[2] \in Nat /\ load[3] \in Nat
    /\ Prepared(load) = <<SetTo("latest", load[1]), SetTo("delay", load[2])>>
    /\ Measured(load) = <<SetTo("latest", load[1]), SetTo("delay", load[2]), SetTo("schema", load[3])>>
    /\ Refreshed(load) = <<SetTo("latest", load[1]), SetTo("delay", load[2]),
                           SetTo("latest", load[1]), SetTo("delay", load[2]), SetTo("schema", load[3])>>
<1>1. \A load \in Feed : load[1] \in Nat /\ load[1] # 0 /\ load[2] \in Nat /\ load[3] \in Nat
  BY MetricsAssumption
<1>. QED BY <1>1, ThreeAfterTwo DEF Prepared, Measured, Refreshed

\* Operations that count: what is next, and what is left after it.
LEMMA PlainHeads ==
  ASSUME NEW t \in Plain
  PROVE  /\ t # <<>> /\ Head(t).metric \in {"failures", "schema", "notices", "active"}
         /\ Head(t).set \in BOOLEAN /\ Head(t).value \in Nat /\ Tail(t) \in Plain \cup {<<>>}
         /\ Head(t).metric \in Counters => Head(t) = Increment(Head(t).metric)
         /\ ~Resets(t)
         /\ (\E a : t = <<a>>) \/ \E a, b : t = <<a, b>> /\ \A m : ~(a = Increment(m) /\ b = Increment(m))
<1>. DEFINE Goal ==
         /\ t # <<>> /\ Head(t).metric \in {"failures", "schema", "notices", "active"}
         /\ Head(t).set \in BOOLEAN /\ Head(t).value \in Nat /\ Tail(t) \in Plain \cup {<<>>}
         /\ Head(t).metric \in Counters => Head(t) = Increment(Head(t).metric)
         /\ ~Resets(t)
         /\ (\E a : t = <<a>>) \/ \E a, b : t = <<a, b>> /\ \A m : ~(a = Increment(m) /\ b = Increment(m))
<1>1. Failure = <<Increment("failures")>> /\ Unprepared = <<Increment("schema"), Increment("failures")>>
  BY OneAfterOne DEF Failure, Unprepared
<1>2. ASSUME NEW m \in {"failures", "notices"}, t = <<Increment(m)>> PROVE Goal
  <2>1. Head(t) = Increment(m) /\ Tail(t) = <<>> /\ Len(t) = 1 /\ t[1] = Increment(m) /\ t # <<>>
    BY <1>2, ShortLists
  <2>2. ~Resets(t)
    BY <2>1, WritesDiffer DEF Resets
  <2>. QED BY <1>2, <2>1, <2>2, WritesDiffer
<1>3. ASSUME t = <<Increment("schema"), Increment("failures")>> PROVE Goal
  <2>1. /\ Head(t) = Increment("schema") /\ Tail(t) = Failure /\ Len(t) = 2 /\ t[2] = Increment("failures") /\ t # <<>>
    BY <1>1, <1>3, ShortLists
  <2>2. ~Resets(t)
    BY <2>1, WritesDiffer DEF Resets
  <2>3. \A m : ~(Increment("schema") = Increment(m) /\ Increment("failures") = Increment(m))
    BY WritesDiffer
  <2>. QED BY <1>3, <2>1, <2>2, <2>3, WritesDiffer DEF Plain
<1>4. ASSUME NEW n \in Nat, t = <<SetTo("active", n)>> PROVE Goal
  <2>1. Head(t) = SetTo("active", n) /\ Tail(t) = <<>> /\ Len(t) = 1 /\ t[1] = SetTo("active", n) /\ t # <<>>
    BY <1>4, ShortLists
  <2>2. ~Resets(t)
    BY <2>1, WritesDiffer DEF Resets
  <2>. QED BY <1>4, <2>1, <2>2, WritesDiffer DEF Counters
<1>5. ASSUME NEW n \in Nat, t = <<SetTo("active", n), Increment("notices")>> PROVE Goal
  <2>1. /\ Head(t) = SetTo("active", n) /\ Tail(t) = <<Increment("notices")>> /\ Len(t) = 2
        /\ t[2] = Increment("notices") /\ t # <<>>
    BY <1>5, ShortLists
  <2>2. ~Resets(t)
    BY <2>1, WritesDiffer DEF Resets
  <2>3. \A m : ~(SetTo("active", n) = Increment(m) /\ Increment("notices") = Increment(m))
    BY WritesDiffer
  <2>4. Head(t).metric = "active" /\ Head(t).set \in BOOLEAN /\ Head(t).value = n /\ "active" \notin Counters
    BY <2>1, WritesDiffer DEF Counters
  <2>. QED BY <1>5, <2>1, <2>2, <2>3, <2>4 DEF Plain
<1>. HIDE DEF Goal
<1>6. Goal
  BY <1>1, <1>2, <1>3, <1>4, <1>5 DEF Plain
<1>. QED BY <1>6 DEF Goal

\* Operations that record a frame.
LEMMA FrameHeads ==
  ASSUME NEW load \in Feed, NEW t
  PROVE  /\ t \in AtLatest(load) =>
              t # <<>> /\ Head(t) = SetTo("latest", load[1]) /\ Tail(t) \in AtDelay(load)
         /\ t \in AtDelay(load) =>
              t # <<>> /\ Head(t) = SetTo("delay", load[2]) /\ Tail(t) \in {<<>>} \cup AtSchema(load) \cup AtLatest(load)
         /\ t \in AtSchema(load) => t # <<>> /\ Head(t) = SetTo("schema", load[3]) /\ Tail(t) = <<>>
         /\ t \in OfFrame(load) =>
              /\ \A k \in DOMAIN t : t[k].set = TRUE
              /\ Resets(t) => t[Len(t)] = SetTo("schema", load[3])
              /\ Tail(t) # <<>> => Tail(t)[Len(Tail(t))] = t[Len(t)]
<1>. DEFINE L == SetTo("latest", load[1])
            D == SetTo("delay", load[2])
            S == SetTo("schema", load[3])
            Last(u) == u[Len(u)]
            Sets(u) == \A k \in DOMAIN u : u[k].set = TRUE
<1>1. L.metric = "latest" /\ L.set = TRUE /\ D.metric = "delay" /\ D.set = TRUE /\ S.metric = "schema" /\ S.set = TRUE
  BY WritesDiffer
<1>2. /\ AtLatest(load) = {<<L, D>>, <<L, D, S>>, <<L, D, L, D, S>>}
      /\ AtDelay(load) = {<<D>>, <<D, S>>, <<D, L, D, S>>} /\ AtSchema(load) = {<<S>>}
  BY Frames DEF AtLatest, AtDelay, AtSchema
<1>. HIDE DEF L, D, S
<1>3. ASSUME t \in AtLatest(load)
      PROVE  t # <<>> /\ Head(t) = L /\ Tail(t) \in AtDelay(load)
  <2>1. ASSUME t = <<L, D>> PROVE t # <<>> /\ Head(t) = L /\ Tail(t) = <<D>>
    BY <2>1, ShortLists
  <2>2. ASSUME t = <<L, D, S>> PROVE t # <<>> /\ Head(t) = L /\ Tail(t) = <<D, S>>
    BY <2>2, LongLists
  <2>3. ASSUME t = <<L, D, L, D, S>> PROVE t # <<>> /\ Head(t) = L /\ Tail(t) = <<D, L, D, S>>
    BY <2>3, LongLists
  <2>. QED BY <1>2, <1>3, <2>1, <2>2, <2>3
<1>4. ASSUME t \in AtDelay(load)
      PROVE  t # <<>> /\ Head(t) = D /\ Tail(t) \in {<<>>} \cup AtSchema(load) \cup AtLatest(load)
  <2>1. ASSUME t = <<D>> PROVE t # <<>> /\ Head(t) = D /\ Tail(t) = <<>>
    BY <2>1, ShortLists
  <2>2. ASSUME t = <<D, S>> PROVE t # <<>> /\ Head(t) = D /\ Tail(t) = <<S>>
    BY <2>2, ShortLists
  <2>3. ASSUME t = <<D, L, D, S>> PROVE t # <<>> /\ Head(t) = D /\ Tail(t) = <<L, D, S>>
    BY <2>3, LongLists
  <2>. QED BY <1>2, <1>4, <2>1, <2>2, <2>3
<1>5. ASSUME t \in AtSchema(load) PROVE t # <<>> /\ Head(t) = S /\ Tail(t) = <<>>
  BY <1>2, <1>5, ShortLists
<1>6. ASSUME t \in OfFrame(load)
      PROVE  Sets(t) /\ Last(t) \in {D, S} /\ (Tail(t) # <<>> => Last(Tail(t)) = Last(t))
  <2>1. ASSUME t = <<L, D>> PROVE Sets(t) /\ Last(t) = D /\ Last(Tail(t)) = D
    BY <1>1, <2>1, ShortLists
  <2>2. ASSUME t = <<L, D, S>> PROVE Sets(t) /\ Last(t) = S /\ Last(Tail(t)) = S
    BY <1>1, <2>2, ShortLists, LongLists
  <2>3. ASSUME t = <<L, D, L, D, S>> PROVE Sets(t) /\ Last(t) = S /\ Last(Tail(t)) = S
    BY <1>1, <2>3, LongLists
  <2>4. ASSUME t = <<D>> PROVE Sets(t) /\ Last(t) = D /\ Tail(t) = <<>>
    BY <1>1, <2>4, ShortLists
  <2>5. ASSUME t = <<D, S>> PROVE Sets(t) /\ Last(t) = S /\ Last(Tail(t)) = S
    BY <1>1, <2>5, ShortLists
  <2>6. ASSUME t = <<D, L, D, S>> PROVE Sets(t) /\ Last(t) = S /\ Last(Tail(t)) = S
    BY <1>1, <2>6, LongLists
  <2>7. ASSUME t = <<S>> PROVE Sets(t) /\ Last(t) = S /\ Tail(t) = <<>>
    BY <1>1, <2>7, ShortLists
  <2>. HIDE DEF Sets, Last
  <2>. QED BY <1>2, <1>6, <2>1, <2>2, <2>3, <2>4, <2>5, <2>6, <2>7 DEF OfFrame
<1>7. ASSUME t \in OfFrame(load), Resets(t) PROVE Last(t) = S
  BY <1>1, <1>6, <1>7 DEF Resets
<1>. QED BY <1>3, <1>4, <1>5, <1>6, <1>7 DEF L, D, S

\* The lists of writes there are, by the write that is next.
LEMMA TodoKinds ==
  /\ <<>> \in Todos /\ Plain \subseteq Todos /\ \A load \in Feed : OfFrame(load) \subseteq Todos
  /\ \A t \in Todos : t = <<>> \/ t \in Plain \/ \E load \in Feed : t \in OfFrame(load)
BY DEF Todos

LEMMA TodoHeads ==
  ASSUME NEW t \in Todos, t # <<>>
  PROVE  /\ Head(t).metric \in Metrics /\ Head(t).set \in BOOLEAN /\ Head(t).value \in Nat /\ Tail(t) \in Todos
         /\ Head(t).metric \in {"failures", "notices"} => Head(t) = Increment(Head(t).metric)
         /\ Head(t).metric = "schema" => Head(t) = Increment("schema") \/ Head(t).set
         /\ Head(t).metric \in {"latest", "delay"} => Head(t).set
<1>1. CASE t \in Plain
  <2>1. /\ Head(t).metric \in {"failures", "schema", "notices", "active"}
        /\ Head(t).set \in BOOLEAN /\ Head(t).value \in Nat /\ Tail(t) \in Plain \cup {<<>>}
        /\ Head(t).metric \in Counters => Head(t) = Increment(Head(t).metric)
    BY <1>1, PlainHeads
  <2>. QED BY <2>1, MetricsNamed, TodoKinds DEF Counters
<1>2. ASSUME NEW load \in Feed, t \in OfFrame(load)
      PROVE  /\ Head(t) \in {SetTo("latest", load[1]), SetTo("delay", load[2]), SetTo("schema", load[3])}
             /\ Tail(t) \in Todos
  BY <1>2, FrameHeads, TodoKinds DEF OfFrame
<1>3. ASSUME NEW load \in Feed, t \in OfFrame(load)
      PROVE  /\ Head(t).metric \in {"latest", "delay", "schema"} /\ Head(t).set = TRUE /\ Head(t).value \in Nat
             /\ Tail(t) \in Todos
  BY <1>2, <1>3, Frames, WritesDiffer
<1>. QED BY <1>1, <1>3, TodoKinds, MetricsNamed

\* Which lists record a frame, and which set the schema failures.
LEMMA ListsTold ==
  /\ ~Recording(<<>>) /\ ~Resets(<<>>)
  /\ \A t \in Plain : ~Recording(t) /\ ~Resets(t)
  /\ \A load \in Feed : /\ \A t \in AtLatest(load) \cup AtDelay(load) : Recording(t)
                        /\ \A t \in AtSchema(load) : ~Recording(t) /\ Resets(t)
<1>1. \A t \in Plain : ~Recording(t) /\ ~Resets(t)
  BY PlainHeads DEF Recording
<1>2. ASSUME NEW load \in Feed, NEW t \in AtLatest(load) \cup AtDelay(load) PROVE Recording(t)
  <2>1. t # <<>> /\ Head(t) \in {SetTo("latest", load[1]), SetTo("delay", load[2])}
    BY FrameHeads
  <2>. QED BY <2>1, WritesDiffer DEF Recording
<1>3. ASSUME NEW load \in Feed, NEW t \in AtSchema(load) PROVE ~Recording(t) /\ Resets(t)
  <2>1. t # <<>> /\ Head(t) = SetTo("schema", load[3]) /\ t = <<SetTo("schema", load[3])>>
    BY FrameHeads DEF AtSchema
  <2>2. t[Len(t)] = SetTo("schema", load[3])
    BY <2>1, ShortLists
  <2>3. SetTo("schema", load[3]).metric = "schema"
    BY WritesDiffer
  <2>. QED BY <2>1, <2>2, <2>3 DEF Recording, Resets
<1>. QED BY <1>1, <1>2, <1>3 DEF Recording, Resets

Bit(yes) == IF yes THEN 1 ELSE 0

\* What a list of writes increments is either next or among the rest, and once.
LEMMA CountedOnce ==
  ASSUME NEW t \in Todos, NEW m \in Counters
  PROVE  /\ Cardinality({k \in DOMAIN t : t[k] = Increment(m)}) = Bit(Counts(t, m))
         /\ t # <<>> => Bit(Counts(t, m)) = Bit(Head(t) = Increment(m)) + Bit(Counts(Tail(t), m))
         /\ Bit(Counts(t, m)) \in {0, 1} /\ (t = <<>> => Bit(Counts(t, m)) = 0)
         /\ (\E load \in Feed : t \in OfFrame(load)) => Bit(Counts(t, m)) = 0
<1>. DEFINE places == {k \in DOMAIN t : t[k] = Increment(m)}
<1>1. ASSUME t = <<>> PROVE places = {} /\ ~Counts(t, m)
  BY <1>1 DEF Counts
<1>2. ASSUME NEW a, t = <<a>>
      PROVE  /\ places = IF a = Increment(m) THEN {1} ELSE {}
             /\ (Counts(t, m) <=> a = Increment(m)) /\ ~Counts(Tail(t), m) /\ Head(t) = a
  <2>1. DOMAIN t = {1} /\ t[1] = a /\ Head(t) = a /\ Tail(t) = <<>>
    BY <1>2, ShortLists
  <2>. QED BY <2>1 DEF Counts
<1>3. ASSUME NEW a, NEW b, t = <<a, b>>, ~(a = Increment(m) /\ b = Increment(m))
      PROVE  /\ places = IF a = Increment(m) THEN {1} ELSE IF b = Increment(m) THEN {2} ELSE {}
             /\ (Counts(t, m) <=> a = Increment(m) \/ b = Increment(m)) /\ (Counts(Tail(t), m) <=> b = Increment(m))
             /\ Head(t) = a
  <2>1. DOMAIN t = {1, 2} /\ t[1] = a /\ t[2] = b /\ Head(t) = a /\ Tail(t) = <<b>>
    BY <1>3, ShortLists
  <2>2. DOMAIN Tail(t) = {1} /\ Tail(t)[1] = b
    BY <2>1, ShortLists
  <2>. QED BY <1>3, <2>1, <2>2 DEF Counts
<1>4. ASSUME NEW load \in Feed, t \in OfFrame(load)
      PROVE  places = {} /\ ~Counts(t, m) /\ ~Counts(Tail(t), m) /\ Head(t) # Increment(m)
  <2>1. ASSUME NEW u \in OfFrame(load), NEW k \in DOMAIN u PROVE u[k] # Increment(m)
    <3>1. u[k].set = TRUE /\ Increment(m).set = FALSE
      BY FrameHeads, WritesDiffer
    <3>. QED BY <3>1
  <2>2. places = {} /\ ~Counts(t, m)
    BY <1>4, <2>1 DEF Counts
  <2>3. Tail(t) = <<>> \/ Tail(t) \in OfFrame(load)
    BY <1>4, FrameHeads DEF OfFrame
  <2>4. ~Counts(Tail(t), m)
    <3>1. ~Counts(<<>>, m)
      BY DEF Counts
    <3>2. \A u \in OfFrame(load) : ~Counts(u, m)
      BY <2>1 DEF Counts
    <3>. QED BY <2>3, <3>1, <3>2
  <2>5. Head(t) # Increment(m)
    <3>1. Head(t) \in {SetTo("latest", load[1]), SetTo("delay", load[2]), SetTo("schema", load[3])}
      BY <1>4, FrameHeads DEF OfFrame
    <3>. QED BY <3>1, WritesDiffer
  <2>. QED BY <2>2, <2>4, <2>5
<1>5. Cardinality({}) = 0 /\ Cardinality({1}) = 1 /\ Cardinality({2}) = 1
  BY FS_EmptySet, FS_Singleton
<1>6. CASE t = <<>>
  <2>1. \A load \in Feed : t \notin OfFrame(load)
    BY <1>6, FrameHeads DEF OfFrame
  <2>. QED BY <1>1, <1>5, <1>6, <2>1 DEF Bit
<1>7. ASSUME NEW a, t = <<a>>
      PROVE  /\ Cardinality(places) = Bit(Counts(t, m))
             /\ Bit(Counts(t, m)) = Bit(Head(t) = Increment(m)) + Bit(Counts(Tail(t), m))
  <2>1. CASE a = Increment(m)
    <3>1. places = {1} /\ Counts(t, m) /\ ~Counts(Tail(t), m) /\ Head(t) = Increment(m)
      BY <1>2, <1>7, <2>1
    <3>2. Bit(Counts(t, m)) = 1 /\ Bit(Counts(Tail(t), m)) = 0 /\ Bit(Head(t) = Increment(m)) = 1
      BY <3>1 DEF Bit
    <3>3. Cardinality(places) = 1
      BY <1>5, <3>1
    <3>. QED BY <3>2, <3>3
  <2>2. CASE a # Increment(m)
    BY <1>2, <1>5, <1>7, <2>2, SMTT(30) DEF Bit
  <2>. QED BY <2>1, <2>2
<1>8. ASSUME NEW a, NEW b, t = <<a, b>>, ~(a = Increment(m) /\ b = Increment(m))
      PROVE  /\ Cardinality(places) = Bit(Counts(t, m))
             /\ Bit(Counts(t, m)) = Bit(Head(t) = Increment(m)) + Bit(Counts(Tail(t), m))
  BY <1>3, <1>5, <1>8 DEF Bit
<1>9. Bit(Counts(t, m)) \in {0, 1}
  BY DEF Bit
<1>10. ASSUME NEW load \in Feed, t \in OfFrame(load)
       PROVE  /\ Cardinality(places) = Bit(Counts(t, m)) /\ Bit(Counts(t, m)) = 0 /\ t # <<>>
              /\ Bit(Counts(t, m)) = Bit(Head(t) = Increment(m)) + Bit(Counts(Tail(t), m))
  <2>1. t # <<>>
    BY <1>10, FrameHeads DEF OfFrame
  <2>2. Cardinality(places) = 0 /\ ~Counts(t, m) /\ ~Counts(Tail(t), m) /\ ~(Head(t) = Increment(m))
    BY <1>4, <1>5, <1>10
  <2>3. Bit(Counts(t, m)) = 0 /\ Bit(Counts(Tail(t), m)) = 0 /\ Bit(Head(t) = Increment(m)) = 0
    BY <2>2 DEF Bit
  <2>. QED BY <2>1, <2>2, <2>3
<1>11. ASSUME t \in Plain
       PROVE  /\ Cardinality(places) = Bit(Counts(t, m)) /\ t # <<>>
              /\ Bit(Counts(t, m)) = Bit(Head(t) = Increment(m)) + Bit(Counts(Tail(t), m))
  <2>1. \/ \E a : t = <<a>>
        \/ \E a, b : t = <<a, b>> /\ ~(a = Increment(m) /\ b = Increment(m))
    BY <1>11, PlainHeads
  <2>2. t # <<>>
    BY <1>11, PlainHeads
  <2>. QED BY <1>7, <1>8, <2>1, <2>2
<1>. HIDE DEF places
<1>12. CASE t \in Plain
  <2>1. (\E load \in Feed : t \in OfFrame(load)) => Bit(Counts(t, m)) = 0
    BY <1>10
  <2>. QED BY <1>9, <1>11, <1>12, <2>1 DEF places
<1>13. ASSUME NEW load \in Feed, t \in OfFrame(load)
       PROVE  /\ Cardinality(places) = Bit(Counts(t, m)) /\ Bit(Counts(t, m)) = 0 /\ t # <<>>
              /\ Bit(Counts(t, m)) = Bit(Head(t) = Increment(m)) + Bit(Counts(Tail(t), m))
  BY <1>10, <1>13
<1>. QED BY <1>6, <1>9, <1>12, <1>13, TodoKinds DEF places

LEMMA CountingFinite == ASSUME NEW m PROVE IsFiniteSet(Counting(m)) /\ Cardinality(Counting(m)) \in Nat
<1>1. Counting(m) \subseteq Writers
  BY DEF Counting
<1>. QED BY <1>1, FS_Subset, FS_CardinalityType, MetricsAssumption

\* One writer goes on, and with it goes what it still has to count.
LEMMA CountingMoves ==
  ASSUME NEW w \in Writers, NEW m, \A x \in Writers \ {w} : writer'[x].todo = writer[x].todo
  PROVE  /\ Cardinality(Counting(m)) \in Nat /\ Cardinality(Counting(m)') \in Nat
         /\ Cardinality(Counting(m)') + Bit(Counts(writer[w].todo, m))
              = Cardinality(Counting(m)) + Bit(Counts(writer'[w].todo, m))
<1>. DEFINE rest == Counting(m) \ {w}
<1>1. /\ Counting(m) = IF Counts(writer[w].todo, m) THEN rest \cup {w} ELSE rest
      /\ Counting(m)' = IF Counts(writer'[w].todo, m) THEN rest \cup {w} ELSE rest
  BY DEF Counting
<1>2. IsFiniteSet(rest)
  <2>1. rest \subseteq Writers
    BY DEF Counting
  <2>. QED BY <2>1, FS_Subset, MetricsAssumption
<1>3. w \notin rest
  OBVIOUS
<1>. HIDE DEF rest
<1>4. /\ Cardinality(rest) \in Nat
      /\ Cardinality(rest \cup {w}) = Cardinality(rest) + 1
  BY <1>2, <1>3, FS_CardinalityType, FS_AddElement
<1>. QED BY <1>1, <1>4 DEF Bit

LEMMA FieldsOfWriters ==
  ASSUME MetricsTyped, NEW w \in Writers
  PROVE  /\ writer[w] \in WriterRecords /\ writer[w].phase \in {"idle", "alerts", "heartbeat"} \cup Writing
         /\ writer[w].todo \in Todos /\ writer[w].hand \in Snapshots /\ writer[w].alerts \subseteq Metrics
         /\ writer[w].phase \notin Writing => writer[w].todo = <<>>
BY DEF MetricsTyped, WriterRecords

\* Writer w becomes something else.
Goes(w, new) == writer' = [writer EXCEPT ![w] = new]

LEMMA GoesAlone ==
  ASSUME MetricsTyped, NEW w \in Writers, NEW new \in WriterRecords, Goes(w, new)
  PROVE  /\ writer' \in [Writers -> WriterRecords] /\ writer'[w] = new
         /\ \A x \in Writers \ {w} : writer'[x] = writer[x]
BY DEF MetricsTyped, Goes

LEMMA FinishedMoves ==
  ASSUME MetricsTyped, begun' \in [Metrics -> Nat], NEW w \in Writers, NEW new \in WriterRecords, Goes(w, new),
         NEW m \in Counters
  PROVE  /\ Finished(m) \in Int /\ Finished(m)' \in Int
         /\ Finished(m)' = Finished(m) + (begun'[m] - begun[m])
                             + Bit(Counts(writer[w].todo, m)) - Bit(Counts(new.todo, m))
<1>1. writer'[w] = new /\ \A x \in Writers \ {w} : writer'[x].todo = writer[x].todo
  BY GoesAlone
<1>2. /\ Cardinality(Counting(m)) \in Nat /\ Cardinality(Counting(m)') \in Nat
      /\ Cardinality(Counting(m)') + Bit(Counts(writer[w].todo, m)) = Cardinality(Counting(m)) + Bit(Counts(new.todo, m))
  BY <1>1, CountingMoves
<1>3. begun[m] \in Nat /\ begun'[m] \in Nat
  BY MetricsNamed DEF MetricsTyped
<1>4. Bit(Counts(writer[w].todo, m)) \in {0, 1} /\ Bit(Counts(new.todo, m)) \in {0, 1}
  BY DEF Bit
<1>5. Finished(m) = begun[m] - Cardinality(Counting(m)) /\ Finished(m)' = begun'[m] - Cardinality(Counting(m)')
  BY DEF Finished
<1>. QED BY <1>2, <1>3, <1>4, <1>5

\* What counters were set to stays, and is a number.
LEMMA IssuesGrow ==
  ASSUME loads \subseteq loads', loads' \subseteq Feed, NEW m
  PROVE  0 \in IssuesFor(m) /\ IssuesFor(m) \subseteq IssuesFor(m)' /\ IssuesFor(m) \subseteq Nat /\ IssuesFor(m)' \subseteq Nat
<1>1. \A load \in loads \cup loads' : load[3] \in Nat
  BY Frames
<1>. QED BY <1>1 DEF IssuesFor

\* A bound of a file remains one.
LEMMA BoundStays ==
  ASSUME MetricsTyped, loads \subseteq loads', loads' \subseteq Feed, NEW file \in Snapshots, Bounded(file),
         \A m \in Counters : Finished(m) \in Int /\ Finished(m)' \in Int /\ Finished(m) <= Finished(m)'
  PROVE  \A m \in Counters : \E n \in IssuesFor(m)' : file[m] <= n + Finished(m)'
<1>. SUFFICES ASSUME NEW m \in Counters PROVE \E n \in IssuesFor(m)' : file[m] <= n + Finished(m)'
  OBVIOUS
<1>1. PICK n \in IssuesFor(m) : file[m] <= n + Finished(m)
  BY DEF Bounded
<1>2. n \in IssuesFor(m)' /\ n \in Nat /\ file[m] \in Nat
  BY IssuesGrow, MetricsNamed DEF Snapshots
<1>3. file[m] <= n + Finished(m)'
  BY <1>1, <1>2
<1>. QED BY <1>2, <1>3

\* What was true of files and alerts stays true.
LEMMA FilesMove ==
  ASSUME MetricsTyped, FilesTrue, NEW w \in Writers, NEW new \in WriterRecords, Goes(w, new), loads \subseteq loads',
         loads' \subseteq Feed,
         \A m \in Counters : Finished(m) \in Int /\ Finished(m)' \in Int /\ Finished(m) <= Finished(m)',
         Readable(snapshot') => Bounded(snapshot)' /\ Caused(snapshot)',
         HandTrue(w)'
  PROVE  FilesTrue'
<1>1. writer'[w] = new /\ \A x \in Writers \ {w} : writer'[x] = writer[x]
  BY GoesAlone
<1>2. \A m \in Counters : 0 <= Finished(m)'
  BY DEF FilesTrue
<1>3. ASSUME NEW x \in Writers \ {w} PROVE HandTrue(x)'
  <2>1. writer[x].hand \in Snapshots /\ writer'[x] = writer[x] /\ HandTrue(x)
    BY <1>1, FieldsOfWriters DEF FilesTrue
  <2>2. Bounded(writer[x].hand) => Bounded(writer[x].hand)'
    BY <2>1, BoundStays DEF Bounded
  <2>3. Caused(writer[x].hand) => Caused(writer[x].hand)'
    BY <2>1 DEF Caused
  <2>4. OfFrame(writer[x].todo) = OfFrame(writer[x].todo)
    OBVIOUS
  <2>5. /\ writer'[x].todo \in Plain \cup {<<>>} \/ \E load \in loads' : writer'[x].todo \in OfFrame(load)
        /\ writer'[x].frame # <<>> => writer'[x].frame \in loads'
    BY <2>1 DEF HandTrue
  <2>6. writer'[x].phase \in {"open", "write"} => Bounded(writer[x].hand)' /\ Caused(writer[x].hand)'
    BY <2>1, <2>2, <2>3 DEF HandTrue
  <2>. QED BY <2>5, <2>6 DEF HandTrue
<1>. QED BY <1>2, <1>3 DEF FilesTrue

LEMMA AlertsMove ==
  ASSUME MetricsTyped, \A x \in Writers : AlertsTrue(x), NEW w \in Writers, NEW new \in WriterRecords, Goes(w, new),
         loads \subseteq loads', loads' \subseteq Feed,
         begun' \in [Metrics -> Nat], \A m \in Metrics : begun[m] <= begun'[m],
         new.alerts \subseteq writer[w].alerts \/ AlertsTrue(w)'
  PROVE  \A x \in Writers : AlertsTrue(x)'
<1>1. writer'[w] = new /\ \A x \in Writers \ {w} : writer'[x] = writer[x]
  BY GoesAlone
<1>2. ASSUME NEW m \in {"failures", "schema"}, NEW n \in IssuesFor(m), n + begun[m] > 0
      PROVE  n \in IssuesFor(m)' /\ n + begun'[m] > 0
  <2>1. begun[m] \in Nat /\ begun'[m] \in Nat /\ begun[m] <= begun'[m]
    BY MetricsNamed DEF MetricsTyped
  <2>2. n \in IssuesFor(m)' /\ n \in Nat
    BY IssuesGrow
  <2>. QED BY <1>2, <2>1, <2>2
<1>3. ASSUME NEW x \in Writers, writer'[x].alerts \subseteq writer[x].alerts PROVE AlertsTrue(x)'
  <2>1. ASSUME NEW m \in {"failures", "schema"}, m \in writer'[x].alerts PROVE \E n \in IssuesFor(m)' : n + begun'[m] > 0
    <3>1. PICK n \in IssuesFor(m) : n + begun[m] > 0
      BY <1>3, <2>1 DEF AlertsTrue
    <3>. QED BY <1>2, <3>1
  <2>2. "delay" \in writer'[x].alerts => \E load \in loads' : load[2] > 0
    BY <1>3 DEF AlertsTrue
  <2>. QED BY <2>1, <2>2 DEF AlertsTrue
<1>. QED BY <1>1, <1>3

\* While only w is at work the others are nothing to the file.
LEMMA WorkMoves ==
  ASSUME MetricsTyped, OneAtWork, NEW w \in Writers, NEW new \in WriterRecords, Goes(w, new), loads \subseteq loads',
         Alone(w), Readable(snapshot') => Exact(snapshot)',
         Readable(snapshot') \/ new.phase = "write", WorkTrue(w)'
  PROVE  OneAtWork'
<1>1. writer'[w] = new /\ \A x \in Writers \ {w} : writer'[x] = writer[x]
  BY GoesAlone
<1>2. \A x \in Writers \ {w} : writer[x].phase = "idle" /\ writer[x].todo = <<>>
  BY FieldsOfWriters DEF Alone, Writing
<1>3. \A x \in Writers : writer'[x].phase # "idle" => Alone(x)'
  BY <1>1, <1>2 DEF Alone
<1>4. ~Recording(<<>>) /\ ~Resets(<<>>)
  BY ListsTold
<1>5. ASSUME NEW x \in Writers \ {w} PROVE WorkTrue(x)'
  <2>1. /\ writer'[x].phase = "idle" /\ ~Recording(writer'[x].todo) /\ ~Resets(writer'[x].todo)
        /\ writer'[x].answer = writer[x].answer
    BY <1>1, <1>2, <1>4
  <2>2. writer[x].answer # <<>> => \E load \in loads : writer[x].answer = <<load[1], load[2]>>
    BY DEF OneAtWork, WorkTrue
  <2>. QED BY <2>1, <2>2 DEF WorkTrue
<1>. QED BY <1>1, <1>3, <1>5 DEF OneAtWork

LEMMA TypesMove ==
  ASSUME MetricsTyped, NEW w \in Writers, NEW new \in WriterRecords, Goes(w, new),
         new.phase \in Writing <=> new.todo # <<>>,
         snapshot' \in Snapshots \cup {Truncated, Garbled}, begun' \in [Metrics -> Nat], due' \in Nat,
         loads' \subseteq Feed, disturbed' \in BOOLEAN
  PROVE  MetricsTyped'
<1>1. /\ writer' \in [Writers -> WriterRecords] /\ writer'[w] = new
      /\ \A x \in Writers \ {w} : writer'[x] = writer[x]
  BY GoesAlone
<1>. QED BY <1>1 DEF MetricsTyped

\* A writer at work is the only one, when nobody was disturbed; and the file is whole
\* unless it is being written.
LEMMA WholeFile ==
  ASSUME MetricsTyped, OneAtWork, NEW w \in Writers, Alone(w), writer[w].phase # "write"
  PROVE  Readable(snapshot) /\ Exact(snapshot)
BY DEF OneAtWork, Alone

\* Those that rest while one is at work have nothing to write.
LEMMA OthersRest ==
  ASSUME MetricsTyped, NEW w \in Writers, Alone(w)
  PROVE  \A x \in Writers \ {w} : writer[x].todo = <<>> /\ ~Recording(writer[x].todo) /\ ~Resets(writer[x].todo)
BY FieldsOfWriters, ListsTold DEF Alone, Writing

\* What the file lacks is the same as before, for a file that stays.
LEMMA FileStays ==
  ASSUME MetricsTyped, FilesTrue, UNCHANGED snapshot, loads \subseteq loads', loads' \subseteq Feed,
         \A m \in Counters : Finished(m) \in Int /\ Finished(m)' = Finished(m)
  PROVE  Readable(snapshot') => Bounded(snapshot)' /\ Caused(snapshot)'
<1>. SUFFICES ASSUME Readable(snapshot) PROVE Bounded(snapshot)' /\ Caused(snapshot)'
  OBVIOUS
<1>1. snapshot \in Snapshots /\ Bounded(snapshot) /\ Caused(snapshot)
  BY DEF MetricsTyped, FilesTrue, Readable
<1>2. \A m \in Counters : Finished(m) \in Int /\ Finished(m)' \in Int /\ Finished(m) <= Finished(m)'
  OBVIOUS
<1>3. \A m \in Counters : \E n \in IssuesFor(m)' : snapshot[m] <= n + Finished(m)'
  BY <1>1, <1>2, BoundStays
<1>. QED BY <1>1, <1>3 DEF Bounded, Caused

\* A writer looks, or has looked: it has nothing to write.
LEMMA RestsInv ==
  ASSUME MetricsInv, NEW w \in Writers, NEW new \in WriterRecords, Goes(w, new),
         writer[w].phase \notin Writing, new.phase \notin Writing, new.todo = <<>>, new.alerts = {}, new.frame = <<>>,
         ~disturbed' /\ new.answer # <<>> => \E load \in loads : new.answer = <<load[1], load[2]>>,
         UNCHANGED <<snapshot, begun, due, loads>>, disturbed' \in BOOLEAN,
         disturbed => disturbed', ~disturbed' => Alone(w)
  PROVE  MetricsInv'
<1>1. MetricsTyped' /\ begun' \in [Metrics -> Nat] /\ writer'[w] = new /\ writer[w].todo = <<>>
  BY TypesMove, GoesAlone, FieldsOfWriters DEF MetricsInv, MetricsTyped
<1>2. \A m \in Counters : Finished(m) \in Int /\ Finished(m)' = Finished(m)
  <2>. SUFFICES ASSUME NEW m \in Counters PROVE Finished(m) \in Int /\ Finished(m)' = Finished(m)
    OBVIOUS
  <2>1. begun'[m] - begun[m] = 0 /\ Bit(Counts(writer[w].todo, m)) = Bit(Counts(new.todo, m))
    BY <1>1, MetricsNamed DEF MetricsInv, MetricsTyped
  <2>2. Bit(Counts(new.todo, m)) \in {0, 1}
    BY DEF Bit
  <2>. QED BY <1>1, <2>1, <2>2, FinishedMoves DEF MetricsInv
<1>3. HandTrue(w)'
  BY <1>1 DEF HandTrue, Writing
<1>4. FilesTrue'
  <2>1. Readable(snapshot') => Bounded(snapshot)' /\ Caused(snapshot)'
    BY <1>2, FileStays DEF MetricsInv, MetricsTyped
  <2>2. \A m \in Counters : Finished(m) \in Int /\ Finished(m)' \in Int /\ Finished(m) <= Finished(m)'
    BY <1>2
  <2>. QED BY <1>3, <2>1, <2>2, FilesMove DEF MetricsInv, MetricsTyped
<1>5. \A x \in Writers : AlertsTrue(x)'
  <2>1. \A m \in Metrics : begun[m] <= begun'[m]
    BY DEF MetricsInv, MetricsTyped
  <2>. QED BY <1>1, <2>1, AlertsMove DEF MetricsInv, MetricsTyped
<1>6. ASSUME ~disturbed' PROVE OneAtWork'
  <2>1. OneAtWork /\ Alone(w)
    BY <1>6 DEF MetricsInv
  <2>2. Readable(snapshot) /\ Exact(snapshot)
    BY <2>1, WholeFile DEF MetricsInv, Writing
  <2>3. \A x \in Writers : writer'[x].todo = writer[x].todo
    BY <1>1, GoesAlone DEF MetricsInv
  <2>4. Exact(snapshot)'
    BY <1>2, <2>2, <2>3 DEF Exact, Counters
  <2>5. WorkTrue(w)'
    <3>1. ~Recording(<<>>) /\ ~Resets(<<>>)
      BY ListsTold
    <3>. QED BY <1>1, <1>6, <3>1 DEF WorkTrue, Writing
  <2>. QED BY <2>1, <2>2, <2>4, <2>5, WorkMoves DEF MetricsInv
<1>. QED BY <1>1, <1>4, <1>5, <1>6 DEF MetricsInv

LEMMA LookInv == ASSUME MetricsInv, NEW w \in Writers, Look(w) PROVE MetricsInv'
<1>1. PICK what \in {"alerts", "heartbeat"} : writer' = [writer EXCEPT ![w] = [Unbusy EXCEPT !.phase = what]]
  BY DEF Look
<1>. DEFINE new == [Unbusy EXCEPT !.phase = what]
<1>2. new.phase = what /\ new.todo = <<>> /\ new.alerts = {} /\ new.answer = <<>> /\ new.frame = <<>>
  BY DEF Unbusy
<1>3. new \in WriterRecords
  BY TodoKinds, MetricsNamed DEF WriterRecords, Unbusy
<1>. HIDE DEF new
<1>4. Goes(w, new)
  BY <1>1 DEF Goes, new
<1>5. writer[w].phase = "idle" /\ UNCHANGED <<snapshot, begun, due, loads>> /\ disturbed' = (disturbed \/ Others(w) # {})
  BY DEF Look, Begin
<1>6. disturbed' \in BOOLEAN /\ (disturbed => disturbed') /\ (~disturbed' => Alone(w))
  BY <1>5 DEF MetricsInv, MetricsTyped, Others, Alone
<1>. QED BY <1>2, <1>3, <1>4, <1>5, <1>6, RestsInv DEF Writing

LEMMA AnswerInv ==
  ASSUME MetricsInv, NEW w \in Writers, writer[w].phase = "heartbeat", Readable(snapshot),
         TRUE \in RecentSnapshot(snapshot),
         writer' = [writer EXCEPT ![w] = [Unbusy EXCEPT !.answer = <<snapshot.latest, snapshot.delay>>]],
         UNCHANGED <<begun, due, loads, snapshot, disturbed>>
  PROVE  MetricsInv'
<1>. DEFINE new == [Unbusy EXCEPT !.answer = <<snapshot.latest, snapshot.delay>>]
<1>1. snapshot \in Snapshots
  BY DEF MetricsInv, MetricsTyped, Readable
<1>2. snapshot.latest \in Nat /\ snapshot.delay \in Nat /\ snapshot.latest # 0
  BY <1>1, MetricsNamed DEF Snapshots, RecentSnapshot
<1>3. /\ new.phase = "idle" /\ new.todo = <<>> /\ new.alerts = {} /\ new.frame = <<>>
      /\ new.answer = <<snapshot["latest"], snapshot["delay"]>>
  BY DEF Unbusy
<1>4. new \in WriterRecords
  BY <1>2, TodoKinds, MetricsNamed DEF WriterRecords, Unbusy
<1>. HIDE DEF new
<1>5. Goes(w, new)
  BY DEF Goes, new
<1>6. disturbed' \in BOOLEAN /\ (~disturbed' => Alone(w))
  BY DEF MetricsInv, MetricsTyped, OneAtWork
<1>7. ASSUME ~disturbed' PROVE \E load \in loads : new.answer = <<load[1], load[2]>>
  <2>1. OneAtWork /\ Alone(w)
    BY <1>6, <1>7 DEF MetricsInv
  <2>2. \A x \in Writers : writer[x].phase \notin Writing
    BY <2>1 DEF Alone, Writing
  <2>3. \A x \in Writers : ~Recording(writer[x].todo)
    BY <2>2, FieldsOfWriters, ListsTold DEF MetricsInv
  <2>. QED BY <1>2, <1>3, <2>1, <2>3 DEF OneAtWork, Exact
<1>. QED BY <1>3, <1>4, <1>5, <1>6, <1>7, RestsInv DEF Writing

LEMMA ListsFinite == ASSUME NEW t \in Todos PROVE IsFiniteSet(DOMAIN t)
<1>1. IsFiniteSet({}) /\ IsFiniteSet(1 .. 1) /\ IsFiniteSet(1 .. 2) /\ IsFiniteSet(1 .. 3) /\ IsFiniteSet(1 .. 4) /\ IsFiniteSet(1 .. 5)
  <2>1. \A a, b \in Int : IsFiniteSet(a .. b)
    BY FS_Interval
  <2>2. 1 \in Int /\ 2 \in Int /\ 3 \in Int /\ 4 \in Int /\ 5 \in Int
    OBVIOUS
  <2>3. IsFiniteSet({})
    BY FS_EmptySet
  <2>. QED BY <2>1, <2>2, <2>3, Zenon
<1>2. \A a : DOMAIN <<a>> = 1 .. 1
  OBVIOUS
<1>3. \A a, b : DOMAIN <<a, b>> = 1 .. 2
  OBVIOUS
<1>4. CASE t \in Plain
  <2>1. (\E a : t = <<a>>) \/ \E a, b : t = <<a, b>>
    BY <1>4, PlainHeads
  <2>. QED BY <1>1, <1>2, <1>3, <2>1
<1>5. ASSUME NEW load \in Feed, t \in OfFrame(load) PROVE IsFiniteSet(DOMAIN t)
  <2>1. \/ \E a : t = <<a>>
        \/ \E a, b : t = <<a, b>>
        \/ \E a, b, c : t = <<a, b, c>>
        \/ \E a, b, c, d : t = <<a, b, c, d>>
        \/ \E a, b, c, d, e : t = <<a, b, c, d, e>>
    BY <1>5, Frames, ZenonT(60) DEF OfFrame, AtLatest, AtDelay, AtSchema
  <2>. QED BY <1>1, <1>2, <1>3, <2>1, LongLists
<1>. QED BY <1>1, <1>4, <1>5, TodoKinds

\* A writer begins to write: what it will increment is counted at once.
LEMMA StartInv ==
  ASSUME MetricsInv, NEW w \in Writers, NEW todo \in Todos, NEW alerts \in SUBSET Metrics, NEW frame \in {<<>>} \cup Feed,
         GoOn(w, todo, alerts, frame), todo # <<>>,
         writer[w].phase \notin Writing, UNCHANGED snapshot,
         loads \subseteq loads', loads' \subseteq Feed, frame # <<>> => frame \in loads',
         disturbed' \in BOOLEAN, disturbed => disturbed', ~disturbed' => Alone(w),
         (todo \in Plain /\ loads' = loads) \/ (alerts = {} /\ \E load \in loads' : todo \in AtLatest(load)),
         \A m \in {"failures", "schema"} : m \in alerts => \E n \in IssuesFor(m) : n + begun[m] > 0,
         "delay" \in alerts => \E load \in loads : load[2] > 0,
         ~disturbed' /\ "latest" \in alerts => loads = {}
  PROVE  MetricsInv'
<1>. DEFINE new == [Unbusy EXCEPT !.phase = "read", !.todo = todo, !.alerts = alerts, !.frame = frame]
<1>1. new.phase = "read" /\ new.todo = todo /\ new.alerts = alerts /\ new.answer = <<>> /\ new.frame = frame
  BY DEF Unbusy
<1>2. new \in WriterRecords
  BY MetricsNamed DEF WriterRecords, Unbusy, Writing
<1>. HIDE DEF new
<1>3. Goes(w, new) /\ begun' = Tally(todo) /\ due' = Due(todo)
  BY DEF Goes, GoOn, new
<1>4. \A m \in Metrics : begun'[m] = begun[m] + Cardinality({k \in DOMAIN todo : todo[k] = Increment(m)})
  BY <1>3 DEF Tally, Metrics
<1>5. \A m \in Counters : begun'[m] = begun[m] + Bit(Counts(todo, m)) /\ Bit(Counts(todo, m)) \in {0, 1}
  BY <1>4, CountedOnce, MetricsNamed, ZenonT(60)
<1>6. begun' \in [Metrics -> Nat] /\ \A m \in Metrics : begun[m] <= begun'[m]
  <2>1. ASSUME NEW m \in Metrics PROVE Cardinality({k \in DOMAIN todo : todo[k] = Increment(m)}) \in Nat
    BY ListsFinite, FS_Subset, FS_CardinalityType
  <2>2. \A m \in Metrics : begun[m] \in Nat
    BY DEF MetricsInv, MetricsTyped
  <2>3. begun' = [m \in Metrics |-> begun[m] + Cardinality({k \in DOMAIN todo : todo[k] = Increment(m)})]
    BY <1>3 DEF Tally, Metrics
  <2>4. ASSUME NEW m \in Metrics PROVE begun'[m] \in Nat /\ begun[m] <= begun'[m]
    <3>. DEFINE more == Cardinality({k \in DOMAIN todo : todo[k] = Increment(m)})
    <3>1. more \in Nat /\ begun[m] \in Nat /\ begun'[m] = begun[m] + more
      BY <1>4, <2>1, <2>2
    <3>. HIDE DEF more
    <3>. QED BY <3>1
  <2>. QED BY <2>3, <2>4
<1>7. writer'[w] = new /\ writer[w].todo = <<>>
  BY <1>2, <1>3, GoesAlone, FieldsOfWriters DEF MetricsInv
<1>8. \A m \in Counters : Finished(m) \in Int /\ Finished(m)' = Finished(m)
  <2>. SUFFICES ASSUME NEW m \in Counters PROVE Finished(m) \in Int /\ Finished(m)' = Finished(m)
    OBVIOUS
  <2>1. /\ Finished(m) \in Int
        /\ Finished(m)' = Finished(m) + (begun'[m] - begun[m]) + Bit(Counts(writer[w].todo, m)) - Bit(Counts(todo, m))
    BY <1>1, <1>2, <1>3, <1>6, FinishedMoves DEF MetricsInv
  <2>2. Bit(Counts(writer[w].todo, m)) = 0
    BY <1>7, TodoKinds, CountedOnce
  <2>3. begun[m] \in Nat
    BY MetricsNamed DEF MetricsInv, MetricsTyped
  <2>. QED BY <1>5, <2>1, <2>2, <2>3
<1>9. /\ due' \in Nat
      /\ Resets(todo) => todo[Len(todo)].value = due'
      /\ ~Resets(todo) => due' = due + (begun'["schema"] - begun["schema"])
  <2>1. "schema" \in Counters /\ "schema" \in Metrics
    BY MetricsNamed DEF Counters
  <2>2. begun["schema"] \in Nat /\ begun'["schema"] \in Nat /\ begun["schema"] <= begun'["schema"] /\ due \in Nat
    BY <1>6, <2>1 DEF MetricsInv, MetricsTyped
  <2>3. due' = IF Resets(todo) THEN todo[Len(todo)].value ELSE due + (begun'["schema"] - begun["schema"])
    BY <1>3 DEF Due, Resets
  <2>4. Resets(todo) => todo[Len(todo)].value \in Nat
    <3>. SUFFICES ASSUME Resets(todo) PROVE todo[Len(todo)].value \in Nat
      OBVIOUS
    <3>1. PICK load \in Feed : todo \in OfFrame(load)
      BY TodoKinds, ListsTold
    <3>2. todo[Len(todo)] = SetTo("schema", load[3])
      BY <3>1, FrameHeads
    <3>. QED BY <3>2, Frames, WritesDiffer
  <2>. QED BY <2>2, <2>3, <2>4
<1>10. MetricsTyped'
  BY <1>1, <1>2, <1>3, <1>6, <1>9, TypesMove DEF MetricsInv, MetricsTyped, Writing
<1>11. HandTrue(w)'
  BY <1>1, <1>7 DEF HandTrue, OfFrame
<1>12. FilesTrue'
  <2>1. Readable(snapshot') => Bounded(snapshot)' /\ Caused(snapshot)'
    BY <1>8, FileStays DEF MetricsInv
  <2>2. \A m \in Counters : Finished(m) \in Int /\ Finished(m)' \in Int /\ Finished(m) <= Finished(m)'
    BY <1>8
  <2>. QED BY <1>2, <1>3, <1>11, <2>1, <2>2, FilesMove DEF MetricsInv
<1>13. \A x \in Writers : AlertsTrue(x)'
  <2>1. ASSUME NEW m \in {"failures", "schema"}, m \in alerts PROVE \E n \in IssuesFor(m)' : n + begun'[m] > 0
    <3>1. PICK n \in IssuesFor(m) : n + begun[m] > 0
      BY <2>1
    <3>2. begun[m] \in Nat /\ begun'[m] \in Nat /\ begun[m] <= begun'[m]
      BY <1>6, MetricsNamed DEF MetricsInv, MetricsTyped
    <3>3. n \in Nat /\ n \in IssuesFor(m)'
      BY IssuesGrow
    <3>4. n + begun'[m] > 0
      BY <3>1, <3>2, <3>3
    <3>. QED BY <3>3, <3>4
  <2>2. AlertsTrue(w)'
    BY <1>1, <1>7, <2>1 DEF AlertsTrue
  <2>. QED BY <1>2, <1>3, <1>6, <2>2, AlertsMove DEF MetricsInv
<1>14. ASSUME ~disturbed' PROVE OneAtWork'
  <2>1. OneAtWork /\ Alone(w)
    BY <1>14 DEF MetricsInv
  <2>2. Readable(snapshot) /\ Exact(snapshot)
    BY <2>1, WholeFile DEF MetricsInv, Writing
  <2>3. \A x \in Writers : ~Recording(writer[x].todo) /\ ~Resets(writer[x].todo)
    BY <1>7, <2>1, OthersRest, ListsTold DEF MetricsInv
  <2>4. Exact(snapshot)'
    <3>1. \A m \in {"failures", "notices"} : snapshot[m] = Finished(m)'
      BY <1>8, <2>2 DEF Exact, Counters
    <3>2. ASSUME ~Resets(todo) PROVE snapshot["schema"] + begun'["schema"] = due' + Finished("schema")'
      <4>1. snapshot["schema"] + begun["schema"] = due + Finished("schema")
        BY <2>2, <2>3 DEF Exact
      <4>2. /\ snapshot["schema"] \in Nat /\ begun["schema"] \in Nat /\ begun'["schema"] \in Nat /\ due \in Nat
        BY <1>6, <2>2, MetricsNamed DEF MetricsInv, MetricsTyped, Readable, Snapshots
      <4>3. Finished("schema") \in Int /\ Finished("schema")' = Finished("schema")
        BY <1>8 DEF Counters
      <4>4. \A s, b, c, d, e, f \in Int : s + b = d + f /\ e = d + (c - b) => s + c = e + f
        OBVIOUS
      <4>5. due' = due + (begun'["schema"] - begun["schema"]) /\ due' \in Nat
        BY <1>9, <3>2
      <4>. HIDE DEF Finished
      <4>. QED BY <4>1, <4>2, <4>3, <4>4, <4>5
    <3>3. ASSUME ~Recording(todo) PROVE loads' = loads
      BY <3>3, ListsTold
    <3>4. (snapshot["latest"] = 0 /\ loads = {}) \/ \E load \in loads : snapshot["latest"] = load[1] /\ snapshot["delay"] = load[2]
      BY <2>2, <2>3 DEF Exact
    <3>5. writer'[w].todo = todo
      BY <1>1, <1>7
    <3>. QED BY <3>1, <3>2, <3>3, <3>4, <3>5 DEF Exact
  <2>5. Recording(todo) => \E load \in loads' : todo \in AtLatest(load)
    BY ListsTold
  <2>6. "latest" \in alerts => loads' = {}
    BY <1>14
  <2>7. WorkTrue(w)'
    <3>1. /\ writer'[w].phase = "read" /\ writer'[w].todo = todo /\ writer'[w].alerts = alerts
          /\ writer'[w].answer = <<>>
      BY <1>1, <1>7
    <3>. QED BY <1>9, <2>5, <2>6, <3>1 DEF WorkTrue
  <2>. QED BY <1>1, <1>2, <1>3, <2>1, <2>2, <2>4, <2>7, WorkMoves DEF MetricsInv
<1>. QED BY <1>10, <1>12, <1>13, <1>14 DEF MetricsInv

\* A writer without alerts goes on to count, or to record a frame.
LEMMA GoOnInv ==
  ASSUME MetricsInv, NEW w \in Writers, NEW todo \in Todos, NEW frame \in {<<>>} \cup Feed, GoOn(w, todo, {}, frame),
         todo # <<>>, writer[w].phase \notin Writing, UNCHANGED snapshot, loads \subseteq loads', loads' \subseteq Feed,
         frame # <<>> => frame \in loads',
         disturbed' \in BOOLEAN, disturbed => disturbed', ~disturbed' => Alone(w),
         (todo \in Plain /\ loads' = loads) \/ \E load \in loads' : todo \in AtLatest(load)
  PROVE  MetricsInv'
<1>. DEFINE none == {}
<1>1. none \in SUBSET Metrics /\ (\A m : m \notin none) /\ GoOn(w, todo, none, frame)
  OBVIOUS
<1>. HIDE DEF none
<1>2. (todo \in Plain /\ loads' = loads) \/ (none = {} /\ \E load \in loads' : todo \in AtLatest(load))
  BY DEF none
<1>. QED BY <1>1, <1>2, StartInv

LEMMA ListsOfOperations ==
  /\ Failure \in Plain /\ Unprepared \in Plain /\ Failure \in Todos /\ Unprepared \in Todos
  /\ Failure # <<>> /\ Unprepared # <<>>
  /\ \A load \in Feed : \A todo \in AtLatest(load) : todo \in Todos /\ todo # <<>>
<1>1. Failure \in Plain /\ Unprepared \in Plain
  BY DEF Plain
<1>2. ASSUME NEW load \in Feed, NEW todo \in AtLatest(load) PROVE todo \in Todos /\ todo # <<>>
  BY FrameHeads, TodoKinds DEF OfFrame
<1>. QED BY <1>1, <1>2, PlainHeads, TodoKinds

\* A frame kept for the end of a run has been prepared.
LEMMA KeptFrames ==
  ASSUME MetricsInv, NEW w \in Writers
  PROVE  writer[w].frame \in {<<>>} \cup Feed /\ (writer[w].frame # <<>> => writer[w].frame \in loads)
BY FieldsOfWriters DEF MetricsInv, WriterRecords, FilesTrue, HandTrue

LEMMA BeginsInv ==
  ASSUME MetricsInv, NEW w \in Writers, LogException(w) \/ Prepare(w) \/ Unvalidated(w) \/ Measure(w) PROVE MetricsInv'
<1>1. writer[w].phase = "idle" /\ UNCHANGED snapshot /\ disturbed' = (disturbed \/ Others(w) # {})
  BY DEF LogException, Prepare, Unvalidated, Measure, Begin
<1>2. disturbed' \in BOOLEAN /\ (disturbed => disturbed') /\ (~disturbed' => Alone(w)) /\ loads \subseteq Feed
  BY <1>1 DEF MetricsInv, MetricsTyped, Others, Alone
<1>3. ASSUME NEW todo \in {Failure, Unprepared}, NEW frame \in {<<>>, writer[w].frame},
             GoOn(w, todo, {}, frame), UNCHANGED loads
      PROVE  MetricsInv'
  <2>1. todo \in Plain /\ todo \in Todos /\ todo # <<>> /\ frame \in {<<>>} \cup Feed /\ (frame # <<>> => frame \in loads)
    BY ListsOfOperations, KeptFrames
  <2>. QED BY <1>1, <1>2, <1>3, <2>1, GoOnInv DEF Writing
<1>4. ASSUME NEW load \in Feed, GoOn(w, Prepared(load), {}, load), loads' = loads \cup {load} PROVE MetricsInv'
  <2>1. Prepared(load) \in AtLatest(load) /\ Prepared(load) \in Todos /\ Prepared(load) # <<>>
    BY ListsOfOperations DEF AtLatest
  <2>. QED BY <1>1, <1>2, <1>4, <2>1, GoOnInv DEF Writing
<1>5. ASSUME writer[w].frame # <<>>, GoOn(w, Measured(writer[w].frame), {}, <<>>), UNCHANGED loads PROVE MetricsInv'
  <2>. DEFINE load == writer[w].frame
  <2>1. load \in loads /\ load \in Feed
    BY <1>5, KeptFrames
  <2>2. Measured(load) \in AtLatest(load) /\ Measured(load) \in Todos /\ Measured(load) # <<>>
    BY <2>1, ListsOfOperations DEF AtLatest
  <2>. QED BY <1>1, <1>2, <1>5, <2>1, <2>2, GoOnInv DEF Writing
<1>. QED BY <1>3, <1>4, <1>5 DEF LogException, Prepare, Unvalidated, Measure

LEMMA HeartbeatInv == ASSUME MetricsInv, NEW w \in Writers, Heartbeat(w) PROVE MetricsInv'
<1>1. writer[w].phase = "heartbeat" /\ Readable(snapshot) /\ UNCHANGED <<snapshot, disturbed>>
  BY DEF Heartbeat
<1>2. disturbed' \in BOOLEAN /\ (~disturbed' => Alone(w)) /\ loads \subseteq Feed
  BY <1>1 DEF MetricsInv, MetricsTyped, OneAtWork
<1>3. ASSUME GoOn(w, Unprepared, {}, <<>>), UNCHANGED loads PROVE MetricsInv'
  BY <1>1, <1>2, <1>3, ListsOfOperations, GoOnInv DEF Writing
<1>4. ASSUME NEW load \in Feed, GoOn(w, Refreshed(load), {}, <<>>), loads' = loads \cup {load} PROVE MetricsInv'
  <2>1. Refreshed(load) \in AtLatest(load) /\ Refreshed(load) \in Todos /\ Refreshed(load) # <<>>
    BY ListsOfOperations DEF AtLatest
  <2>. QED BY <1>1, <1>2, <1>4, <2>1, GoOnInv DEF Writing
<1>. QED BY <1>1, <1>3, <1>4, AnswerInv DEF Heartbeat

LEMMA BuildAlertsInv == ASSUME MetricsInv, NEW w \in Writers, BuildAlerts(w) PROVE MetricsInv'
<1>. DEFINE alerts == ActiveAlerts(snapshot)
            number == SetTo("active", Cardinality(alerts))
<1>1. /\ writer[w].phase = "alerts" /\ Readable(snapshot) /\ UNCHANGED <<snapshot, loads, disturbed>>
      /\ \E todo \in {<<number>>} \cup {<<number, Increment("notices")>> : x \in {y \in {1} : alerts # {}}} :
           GoOn(w, todo, alerts, <<>>)
  BY DEF BuildAlerts
<1>2. PICK todo \in {<<number>>, <<number, Increment("notices")>>} :
         GoOn(w, todo, alerts, <<>>)
  BY <1>1
<1>3. snapshot \in Snapshots
  BY <1>1 DEF MetricsInv, MetricsTyped, Readable
<1>4. alerts \subseteq {"failures", "schema", "delay", "latest"} /\ alerts \subseteq Metrics
  BY MetricsNamed DEF ActiveAlerts
<1>5. Cardinality(alerts) \in Nat
  <2>. DEFINE two == {"failures"} \cup {"schema"}
              three == two \cup {"delay"}
              four == three \cup {"latest"}
  <2>1. /\ IsFiniteSet({"failures"}) /\ IsFiniteSet({"schema"})
        /\ IsFiniteSet({"delay"}) /\ IsFiniteSet({"latest"})
    BY FS_Singleton
  <2>2. alerts \subseteq four
    BY <1>4
  <2>3. IsFiniteSet(two)
    BY <2>1, FS_Union
  <2>. HIDE DEF two
  <2>4. IsFiniteSet(three)
    BY <2>1, <2>3, FS_Union
  <2>. HIDE DEF three
  <2>5. IsFiniteSet(four)
    BY <2>1, <2>4, FS_Union
  <2>. HIDE DEF four, alerts
  <2>. QED BY <2>2, <2>5, FS_Subset, FS_CardinalityType
<1>6. todo \in Plain /\ todo \in Todos /\ todo # <<>>
  <2>1. todo \in Plain
    BY <1>2, <1>5 DEF Plain
  <2>. QED BY <2>1, PlainHeads, TodoKinds
<1>7. disturbed' \in BOOLEAN /\ (~disturbed' => Alone(w)) /\ loads' \subseteq Feed /\ loads \subseteq loads'
  BY <1>1 DEF MetricsInv, MetricsTyped, OneAtWork
<1>8. ASSUME NEW m \in {"failures", "schema"}, m \in alerts PROVE \E n \in IssuesFor(m) : n + begun[m] > 0
  <2>1. snapshot[m] > 0
    BY <1>8 DEF ActiveAlerts
  <2>2. PICK n \in IssuesFor(m) : snapshot[m] <= n + Finished(m)
    BY <1>1 DEF MetricsInv, FilesTrue, Bounded, Counters
  <2>3. snapshot[m] \in Nat /\ begun[m] \in Nat
    BY <1>1, <1>3, MetricsNamed DEF MetricsInv, MetricsTyped, Snapshots
  <2>4. Cardinality(Counting(m)) \in Nat /\ n \in Nat
    BY <1>7, CountingFinite, IssuesGrow
  <2>5. n + begun[m] > 0
    BY <2>1, <2>2, <2>3, <2>4 DEF Finished
  <2>. QED BY <2>5
<1>9. "delay" \in alerts => \E load \in loads : load[2] > 0
  <2>. SUFFICES ASSUME "delay" \in alerts PROVE \E load \in loads : load[2] > 0
    OBVIOUS
  <2>1. snapshot["delay"] > 0
    BY DEF ActiveAlerts
  <2>. QED BY <1>1, <2>1 DEF MetricsInv, FilesTrue, Caused
<1>10. ASSUME ~disturbed', "latest" \in alerts PROVE loads = {}
  <2>1. OneAtWork /\ Alone(w)
    BY <1>1, <1>7, <1>10 DEF MetricsInv
  <2>2. snapshot["latest"] = 0
    BY <1>10 DEF ActiveAlerts
  <2>3. \A x \in Writers : ~Recording(writer[x].todo)
    BY <1>1, <2>1, FieldsOfWriters, OthersRest, ListsTold DEF MetricsInv, Writing
  <2>4. loads = {} \/ \E load \in loads : snapshot["latest"] = load[1]
    BY <1>1, <2>1, <2>3 DEF OneAtWork, Exact
  <2>5. \A load \in loads : load[1] # 0
    BY Frames DEF MetricsInv, MetricsTyped
  <2>. QED BY <2>2, <2>4, <2>5
<1>. HIDE DEF alerts, number
<1>. QED BY <1>1, <1>2, <1>4, <1>6, <1>7, <1>8, <1>9, <1>10, StartInv DEF Writing

\* Steps in which nothing is counted and nothing is left off.
LEMMA FinishedStays ==
  ASSUME MetricsTyped, NEW w \in Writers, NEW new \in WriterRecords, Goes(w, new), new.todo = writer[w].todo,
         UNCHANGED begun
  PROVE  \A m \in Counters : Finished(m) \in Int /\ Finished(m)' = Finished(m)
<1>. SUFFICES ASSUME NEW m \in Counters PROVE Finished(m) \in Int /\ Finished(m)' = Finished(m)
  OBVIOUS
<1>1. begun' \in [Metrics -> Nat] /\ begun'[m] - begun[m] = 0 /\ Bit(Counts(new.todo, m)) \in {0, 1}
  BY MetricsNamed DEF MetricsTyped, Bit
<1>. QED BY <1>1, FinishedMoves

LEMMA StartOverInv ==
  ASSUME MetricsInv, NEW w \in Writers, NEW phase \in {"read", "alerts", "heartbeat"}, StartOver(w, phase)
  PROVE  MetricsInv'
<1>1. /\ writer[w].phase = phase /\ ~Readable(snapshot) /\ snapshot' = Default
      /\ UNCHANGED <<writer, begun, due, loads, disturbed>>
  BY DEF StartOver
<1>2. writer[w] \in WriterRecords /\ Goes(w, writer[w])
  BY <1>1, FieldsOfWriters DEF Goes, MetricsInv, MetricsTyped
<1>3. MetricsTyped'
  BY <1>1, MetricsNamed DEF MetricsInv, MetricsTyped
<1>4. \A m \in Counters : Finished(m) \in Int /\ Finished(m)' = Finished(m)
  BY <1>1, <1>2, FinishedStays DEF MetricsInv
<1>5. FilesTrue'
  <2>1. Bounded(snapshot)' /\ Caused(snapshot)'
    <3>1. ASSUME NEW m \in Counters PROVE 0 \in IssuesFor(m)' /\ Default[m] <= 0 + Finished(m)'
      <4>1. 0 <= Finished(m)' /\ Finished(m)' \in Int /\ Default[m] = 0
        BY <1>4, MetricsNamed DEF MetricsInv, FilesTrue
      <4>. QED BY <4>1 DEF IssuesFor
    <3>2. Bounded(Default)'
      BY <3>1 DEF Bounded
    <3>3. ~(Default["delay"] > 0)
      BY MetricsNamed
    <3>. QED BY <1>1, <3>2, <3>3 DEF Bounded, Caused
  <2>2. HandTrue(w)'
    BY <1>1, <1>4 DEF MetricsInv, FilesTrue, HandTrue, Bounded, Caused, IssuesFor
  <2>3. \A m \in Counters : Finished(m) \in Int /\ Finished(m)' \in Int /\ Finished(m) <= Finished(m)'
    BY <1>4
  <2>. QED BY <1>1, <1>2, <2>1, <2>2, <2>3, FilesMove DEF MetricsInv, MetricsTyped
<1>6. \A x \in Writers : AlertsTrue(x)'
  BY <1>1 DEF MetricsInv, AlertsTrue, IssuesFor
<1>7. disturbed'
  <2>. SUFFICES ASSUME ~disturbed PROVE FALSE
    BY <1>1 DEF MetricsInv, MetricsTyped
  <2>1. OneAtWork /\ Alone(w) /\ writer[w].phase # "write"
    BY <1>1 DEF MetricsInv, OneAtWork
  <2>. QED BY <1>1, <2>1, WholeFile DEF MetricsInv
<1>. QED BY <1>3, <1>5, <1>6, <1>7 DEF MetricsInv

LEMMA ReadMetricsInv == ASSUME MetricsInv, NEW w \in Writers, ReadMetrics(w) PROVE MetricsInv'
<1>1. /\ writer[w].phase = "read" /\ Readable(snapshot) /\ UNCHANGED <<snapshot, begun, due, loads, disturbed>>
      /\ writer' = [writer EXCEPT ![w].phase = "open", ![w].hand = snapshot]
  BY DEF ReadMetrics
<1>. DEFINE new == [writer[w] EXCEPT !.phase = "open", !.hand = snapshot]
<1>2. writer[w] \in WriterRecords /\ snapshot \in Snapshots /\ writer[w].todo # <<>>
  BY <1>1, FieldsOfWriters DEF MetricsInv, MetricsTyped, Readable, Writing
<1>3. /\ new.phase = "open" /\ new.hand = snapshot /\ new.todo = writer[w].todo /\ new.alerts = writer[w].alerts
      /\ new.answer = writer[w].answer /\ new.frame = writer[w].frame /\ new \in WriterRecords
  BY <1>2 DEF WriterRecords, Writing
<1>4. Goes(w, new)
  BY <1>1 DEF Goes
<1>. HIDE DEF new
<1>5. writer'[w] = new /\ \A x \in Writers \ {w} : writer'[x] = writer[x]
  BY <1>3, <1>4, GoesAlone DEF MetricsInv
<1>6. MetricsTyped'
  BY <1>1, <1>2, <1>3, <1>4, TypesMove DEF MetricsInv, MetricsTyped, Writing
<1>7. \A m \in Counters : Finished(m) \in Int /\ Finished(m)' = Finished(m)
  BY <1>1, <1>3, <1>4, FinishedStays DEF MetricsInv
<1>8. HandTrue(w)'
  <2>1. Bounded(snapshot)' /\ Caused(snapshot)'
    BY <1>1, <1>7 DEF MetricsInv, FilesTrue, Bounded, Caused, IssuesFor
  <2>2. HandTrue(w)
    BY DEF MetricsInv, FilesTrue
  <2>3. /\ writer'[w].hand = snapshot /\ writer'[w].todo = writer[w].todo /\ writer'[w].frame = writer[w].frame
        /\ loads' = loads /\ snapshot' = snapshot
    BY <1>1, <1>3, <1>5
  <2>4. Bounded(writer[w].hand)' /\ Caused(writer[w].hand)'
    BY <2>1, <2>3 DEF Bounded, Caused
  <2>. QED BY <2>2, <2>3, <2>4 DEF HandTrue
<1>9. FilesTrue'
  <2>1. Readable(snapshot') => Bounded(snapshot)' /\ Caused(snapshot)'
    BY <1>1, <1>7, FileStays DEF MetricsInv, MetricsTyped
  <2>2. \A m \in Counters : Finished(m) \in Int /\ Finished(m)' \in Int /\ Finished(m) <= Finished(m)'
    BY <1>7
  <2>. QED BY <1>1, <1>3, <1>4, <1>8, <2>1, <2>2, FilesMove DEF MetricsInv, MetricsTyped
<1>10. \A x \in Writers : AlertsTrue(x)'
  BY <1>1, <1>3, <1>5, ZenonT(60) DEF MetricsInv, AlertsTrue, IssuesFor
<1>11. ASSUME ~disturbed' PROVE OneAtWork'
  <2>1. OneAtWork /\ Alone(w) /\ WorkTrue(w)
    BY <1>1, <1>11 DEF MetricsInv, OneAtWork
  <2>2. Exact(snapshot)'
    <3>1. Exact(snapshot) /\ \A x \in Writers : writer'[x].todo = writer[x].todo
      BY <1>1, <1>3, <1>5, <2>1 DEF OneAtWork
    <3>. QED BY <1>1, <1>7, <3>1 DEF Exact, Counters
  <2>3. WorkTrue(w)'
    <3>1. /\ writer'[w].phase = "open" /\ writer'[w].hand = snapshot' /\ writer'[w].todo = writer[w].todo
          /\ writer'[w].alerts = writer[w].alerts /\ writer'[w].answer = writer[w].answer
          /\ snapshot' = snapshot /\ loads' = loads
      BY <1>1, <1>3, <1>5
    <3>2. "latest" \in writer[w].alerts => loads = {}
      BY <1>1, <2>1 DEF WorkTrue
    <3>3. Recording(writer[w].todo) =>
            \E load \in loads :
              \/ writer[w].todo \in AtLatest(load)
              \/ writer[w].todo \in AtDelay(load) /\ (Readable(snapshot) => snapshot["latest"] = load[1])
      BY <2>1 DEF WorkTrue
    <3>4. Resets(writer[w].todo) => writer[w].todo[Len(writer[w].todo)].value = due'
      BY <1>1, <2>1 DEF WorkTrue
    <3>5. writer[w].answer # <<>> => \E load \in loads : writer[w].answer = <<load[1], load[2]>>
      BY <2>1 DEF WorkTrue
    <3>. QED BY <3>1, <3>2, <3>3, <3>4, <3>5 DEF WorkTrue
  <2>. QED BY <1>1, <1>3, <1>4, <2>1, <2>2, <2>3, WorkMoves DEF MetricsInv
<1>. QED BY <1>6, <1>9, <1>10, <1>11 DEF MetricsInv

LEMMA OpenInv == ASSUME MetricsInv, NEW w \in Writers, Open(w) PROVE MetricsInv'
<1>1. /\ writer[w].phase = "open" /\ snapshot' = Truncated /\ UNCHANGED <<begun, due, loads, disturbed>>
      /\ writer' = [writer EXCEPT ![w].phase = "write"]
  BY DEF Open
<1>. DEFINE new == [writer[w] EXCEPT !.phase = "write"]
<1>2. writer[w] \in WriterRecords /\ writer[w].todo # <<>>
  BY <1>1, FieldsOfWriters DEF MetricsInv, MetricsTyped, Writing
<1>3. /\ new.phase = "write" /\ new.hand = writer[w].hand /\ new.todo = writer[w].todo /\ new.alerts = writer[w].alerts
      /\ new.answer = writer[w].answer /\ new.frame = writer[w].frame /\ new \in WriterRecords
  BY <1>2 DEF WriterRecords, Writing
<1>4. Goes(w, new)
  BY <1>1 DEF Goes
<1>. HIDE DEF new
<1>5. writer'[w] = new /\ \A x \in Writers \ {w} : writer'[x] = writer[x]
  BY <1>3, <1>4, GoesAlone DEF MetricsInv
<1>6. MetricsTyped'
  BY <1>1, <1>2, <1>3, <1>4, TypesMove DEF MetricsInv, MetricsTyped, Writing
<1>7. \A m \in Counters : Finished(m) \in Int /\ Finished(m)' = Finished(m)
  BY <1>1, <1>3, <1>4, FinishedStays DEF MetricsInv
<1>8. HandTrue(w)'
  BY <1>1, <1>3, <1>5, <1>7 DEF MetricsInv, FilesTrue, HandTrue, Bounded, Caused, IssuesFor
<1>9. ~Readable(snapshot')
  BY <1>1 DEF Readable
<1>10. FilesTrue'
  <2>1. \A m \in Counters : Finished(m) \in Int /\ Finished(m)' \in Int /\ Finished(m) <= Finished(m)'
    BY <1>7
  <2>. QED BY <1>1, <1>3, <1>4, <1>8, <1>9, <2>1, FilesMove DEF MetricsInv, MetricsTyped
<1>11. \A x \in Writers : AlertsTrue(x)'
  BY <1>1, <1>3, <1>5 DEF MetricsInv, AlertsTrue, IssuesFor
<1>12. ASSUME ~disturbed' PROVE OneAtWork'
  <2>1. OneAtWork /\ Alone(w) /\ WorkTrue(w)
    BY <1>1, <1>12 DEF MetricsInv, OneAtWork
  <2>2. Readable(snapshot) /\ Exact(snapshot) /\ writer[w].hand = snapshot
    BY <1>1, <2>1, WholeFile DEF MetricsInv, WorkTrue
  <2>3. Exact(writer[w].hand)'
    <3>1. Exact(writer[w].hand) /\ writer'[w].hand = writer[w].hand /\ \A x \in Writers : writer'[x].todo = writer[x].todo
      BY <1>3, <1>5, <2>2
    <3>. QED BY <1>1, <1>7, <3>1 DEF Exact, Counters
  <2>4. WorkTrue(w)'
    BY <1>1, <1>3, <1>5, <1>9, <2>1, <2>2, <2>3 DEF WorkTrue
  <2>. QED BY <1>1, <1>3, <1>4, <1>9, <2>1, <2>4, WorkMoves DEF MetricsInv
<1>. QED BY <1>6, <1>10, <1>11, <1>12 DEF MetricsInv

LEMMA CrashInv == ASSUME MetricsInv, NEW w \in Writers, Crash(w) PROVE MetricsInv'
<1>1. disturbed' = TRUE /\ Goes(w, Unbusy) /\ UNCHANGED <<snapshot, begun, due, loads>>
  BY DEF Crash, Goes
<1>2. Unbusy \in WriterRecords /\ Unbusy.phase = "idle" /\ Unbusy.todo = <<>> /\ Unbusy.alerts = {} /\ Unbusy.frame = <<>>
  BY TodoKinds, MetricsNamed DEF WriterRecords, Unbusy
<1>3. writer'[w] = Unbusy /\ begun' \in [Metrics -> Nat]
  BY <1>1, <1>2, GoesAlone DEF MetricsInv, MetricsTyped
<1>4. MetricsTyped'
  BY <1>1, <1>2, TypesMove DEF MetricsInv, MetricsTyped, Writing
<1>5. \A m \in Counters : Finished(m) \in Int /\ Finished(m)' \in Int /\ Finished(m) <= Finished(m)'
  <2>. SUFFICES ASSUME NEW m \in Counters
                PROVE  Finished(m) \in Int /\ Finished(m)' \in Int /\ Finished(m) <= Finished(m)'
    OBVIOUS
  <2>1. begun'[m] - begun[m] = 0
    BY <1>1, MetricsNamed DEF MetricsInv, MetricsTyped
  <2>2. Bit(Counts(writer[w].todo, m)) \in {0, 1} /\ Bit(Counts(Unbusy.todo, m)) = 0
    BY <1>2, TodoKinds, CountedOnce, SMTT(30) DEF Bit
  <2>. QED BY <1>1, <1>2, <1>3, <2>1, <2>2, FinishedMoves DEF MetricsInv
<1>6. HandTrue(w)'
  BY <1>2, <1>3 DEF HandTrue
<1>7. Readable(snapshot') => Bounded(snapshot)' /\ Caused(snapshot)'
  <2>. SUFFICES ASSUME Readable(snapshot) PROVE Bounded(snapshot)' /\ Caused(snapshot)'
    BY <1>1
  <2>1. snapshot \in Snapshots /\ Bounded(snapshot) /\ Caused(snapshot)
    BY DEF MetricsInv, MetricsTyped, FilesTrue, Readable
  <2>2. \A m \in Counters : \E n \in IssuesFor(m)' : snapshot[m] <= n + Finished(m)'
    BY <1>1, <1>5, <2>1, BoundStays DEF MetricsInv, MetricsTyped
  <2>. QED BY <1>1, <2>1, <2>2 DEF Bounded, Caused
<1>8. FilesTrue'
  BY <1>1, <1>2, <1>5, <1>6, <1>7, FilesMove DEF MetricsInv, MetricsTyped
<1>9. \A x \in Writers : AlertsTrue(x)'
  <2>1. \A m \in Metrics : begun[m] <= begun'[m]
    BY <1>1 DEF MetricsInv, MetricsTyped
  <2>. QED BY <1>1, <1>2, <1>3, <2>1, AlertsMove DEF MetricsInv, MetricsTyped
<1>. QED BY <1>1, <1>4, <1>8, <1>9 DEF MetricsInv

\* A write changes its own metric.
LEMMA AppliedFacts ==
  ASSUME NEW t \in Todos, t # <<>>, NEW hand \in Snapshots
  PROVE  /\ Applied(Head(t), hand) \in Snapshots
         /\ \A m \in Metrics : m # Head(t).metric => Applied(Head(t), hand)[m] = hand[m]
         /\ \A m \in Counters : Head(t).metric # m \/ ~Head(t).set =>
              Applied(Head(t), hand)[m] = hand[m] + Bit(Head(t) = Increment(m))
         /\ Head(t).set => Applied(Head(t), hand)[Head(t).metric] = Head(t).value
         /\ Head(t).metric \in {"failures", "notices"} => ~Head(t).set
<1>. DEFINE write == Head(t)
            written == Applied(write, hand)
<1>1. /\ write.metric \in Metrics /\ write.set \in BOOLEAN /\ write.value \in Nat
      /\ write.metric \in {"failures", "notices"} => write = Increment(write.metric)
      /\ write.metric = "schema" => write = Increment("schema") \/ write.set
  BY TodoHeads
<1>. HIDE DEF write
<1>2. write.metric \in {"failures", "notices"} => ~write.set
  BY <1>1, WritesDiffer
<1>3. written = [m \in Metrics |-> IF m = write.metric
                                    THEN IF write.set THEN write.value ELSE hand[m] + write.value
                                    ELSE hand[m]]
  BY DEF Applied, Snapshots
<1>4. \A m \in Metrics : hand[m] \in Nat
  BY DEF Snapshots
<1>5. \A m \in Metrics : written[m] \in Nat
  BY <1>1, <1>3, <1>4
<1>6. written \in Snapshots
  BY <1>3, <1>5 DEF Snapshots
<1>7. ASSUME NEW m \in Counters, write.metric # m \/ ~write.set PROVE written[m] = hand[m] + Bit(write = Increment(m))
  <2>1. m \in Metrics
    BY MetricsNamed
  <2>2. CASE write.metric = m
    <3>1. write = Increment(m) /\ write.set = FALSE /\ write.value = 1
      BY <1>1, <1>7, <2>2, WritesDiffer DEF Counters
    <3>. QED BY <1>3, <2>1, <2>2, <3>1 DEF Bit
  <2>3. CASE write.metric # m
    <3>1. write # Increment(m)
      BY <2>3, WritesDiffer
    <3>. QED BY <1>3, <1>4, <2>1, <2>3, <3>1 DEF Bit
  <2>. QED BY <2>2, <2>3
<1>8. write.set => written[write.metric] = write.value
  BY <1>1, <1>3
<1>. QED BY <1>2, <1>3, <1>6, <1>7, <1>8 DEF write

LEMMA WriteSnapshotInv == ASSUME MetricsInv, NEW w \in Writers, WriteSnapshot(w) PROVE MetricsInv'
<1>. DEFINE todo == writer[w].todo
            rest == Tail(todo)
            hand == writer[w].hand
            written == Applied(Head(todo), hand)
            new == [writer[w] EXCEPT !.todo = rest, !.hand = Default, !.phase = IF rest = <<>> THEN "idle" ELSE "read"]
<1>1. /\ writer[w].phase = "write" /\ UNCHANGED <<begun, due, loads, disturbed>>
      /\ snapshot' \in IF snapshot = Truncated THEN {written} ELSE {written, Garbled}
      /\ writer' = [writer EXCEPT ![w].todo = rest, ![w].hand = Default,
                                  ![w].phase = IF rest = <<>> THEN "idle" ELSE "read"]
  BY DEF WriteSnapshot
<1>2. writer[w] \in WriterRecords /\ todo \in Todos /\ todo # <<>> /\ hand \in Snapshots
  BY <1>1, FieldsOfWriters DEF MetricsInv, MetricsTyped, Writing
<1>3. rest \in Todos
  BY <1>2, TodoHeads
<1>4. /\ new.phase = IF rest = <<>> THEN "idle" ELSE "read"
      /\ new.hand = Default /\ new.todo = rest /\ new.alerts = writer[w].alerts
      /\ new.answer = writer[w].answer /\ new.frame = writer[w].frame /\ new \in WriterRecords
  BY <1>2, <1>3, MetricsNamed DEF WriterRecords, Writing
<1>5. Goes(w, new)
  BY <1>1 DEF Goes
<1>6. /\ written \in Snapshots
      /\ \A m \in Metrics : m # Head(todo).metric => written[m] = hand[m]
      /\ \A m \in Counters : Head(todo).metric # m \/ ~Head(todo).set =>
           written[m] = hand[m] + Bit(Head(todo) = Increment(m))
      /\ Head(todo).set => written[Head(todo).metric] = Head(todo).value
      /\ Head(todo).metric \in {"failures", "notices"} => ~Head(todo).set
  BY <1>2, AppliedFacts
<1>. HIDE DEF new, written
<1>7. writer'[w] = new /\ \A x \in Writers \ {w} : writer'[x] = writer[x]
  BY <1>4, <1>5, GoesAlone DEF MetricsInv
<1>8. MetricsTyped'
  BY <1>1, <1>2, <1>4, <1>5, <1>6, TypesMove DEF MetricsInv, MetricsTyped, Writing
<1>9. \A m \in Counters : /\ Finished(m) \in Int /\ Finished(m)' = Finished(m) + Bit(Head(todo) = Increment(m))
                          /\ Bit(Head(todo) = Increment(m)) \in {0, 1}
  <2>. SUFFICES ASSUME NEW m \in Counters
                PROVE  /\ Finished(m) \in Int /\ Finished(m)' = Finished(m) + Bit(Head(todo) = Increment(m))
                       /\ Bit(Head(todo) = Increment(m)) \in {0, 1}
    OBVIOUS
  <2>1. begun' \in [Metrics -> Nat] /\ begun'[m] - begun[m] = 0
    BY <1>1, MetricsNamed DEF MetricsInv, MetricsTyped
  <2>2. Bit(Counts(todo, m)) = Bit(Head(todo) = Increment(m)) + Bit(Counts(rest, m))
    BY <1>2, CountedOnce
  <2>3. Bit(Head(todo) = Increment(m)) \in {0, 1} /\ Bit(Counts(rest, m)) \in {0, 1}
    BY DEF Bit
  <2>4. /\ Finished(m) \in Int
        /\ Finished(m)' = Finished(m) + (begun'[m] - begun[m]) + Bit(Counts(todo, m)) - Bit(Counts(rest, m))
    BY <1>4, <1>5, <2>1, FinishedMoves DEF MetricsInv
  <2>. QED BY <2>1, <2>2, <2>3, <2>4
<1>10. ~Readable(Garbled) /\ Readable(written)
  BY <1>6, ReadableFiles DEF Readable
<1>11. HandTrue(w)
  BY DEF MetricsInv, FilesTrue
<1>12. \/ todo \in Plain /\ rest \in Plain \cup {<<>>}
       \/ \E load \in loads :
            \/ todo \in AtLatest(load) /\ rest \in AtDelay(load) /\ Head(todo) = SetTo("latest", load[1])
            \/ /\ todo \in AtDelay(load) /\ rest \in {<<>>} \cup AtSchema(load) \cup AtLatest(load)
               /\ Head(todo) = SetTo("delay", load[2])
            \/ todo \in AtSchema(load) /\ rest = <<>> /\ Head(todo) = SetTo("schema", load[3])
  <2>1. todo \in Plain \/ \E load \in loads : todo \in OfFrame(load)
    BY <1>2, <1>11 DEF HandTrue
  <2>2. loads \subseteq Feed
    BY DEF MetricsInv, MetricsTyped
  <2>3. ASSUME NEW load \in loads, todo \in OfFrame(load)
        PROVE  \/ todo \in AtLatest(load) /\ rest \in AtDelay(load) /\ Head(todo) = SetTo("latest", load[1])
               \/ /\ todo \in AtDelay(load) /\ rest \in {<<>>} \cup AtSchema(load) \cup AtLatest(load)
                  /\ Head(todo) = SetTo("delay", load[2])
               \/ todo \in AtSchema(load) /\ rest = <<>> /\ Head(todo) = SetTo("schema", load[3])
    BY <2>2, <2>3, FrameHeads DEF OfFrame
  <2>4. ASSUME todo \in Plain PROVE rest \in Plain \cup {<<>>}
    BY <2>4, PlainHeads
  <2>. QED BY <2>1, <2>3, <2>4
<1>. HIDE DEF rest, todo, hand
<1>13. HandTrue(w)'
  <2>1. /\ writer'[w].phase \in {"idle", "read"} /\ writer'[w].todo = rest /\ writer'[w].frame = writer[w].frame
        /\ loads' = loads
    BY <1>1, <1>4, <1>7
  <2>2. rest \in Plain \cup {<<>>} \/ \E load \in loads : rest \in OfFrame(load)
    BY <1>12 DEF OfFrame
  <2>3. writer[w].frame # <<>> => writer[w].frame \in loads
    BY <1>11 DEF HandTrue
  <2>. QED BY <2>1, <2>2, <2>3 DEF HandTrue
<1>14. \A m \in Counters : Finished(m) \in Int /\ Finished(m)' \in Int /\ Finished(m) <= Finished(m)'
  BY <1>9
<1>15. loads' \subseteq Feed /\ loads \subseteq loads' /\ Bounded(hand) /\ Caused(hand)
  BY <1>1, <1>11 DEF MetricsInv, MetricsTyped, HandTrue, hand
<1>16. \A m \in Counters : IssuesFor(m)' = IssuesFor(m) /\ IssuesFor(m) \subseteq Nat /\ 0 \in IssuesFor(m)
  BY <1>1, <1>15, IssuesGrow DEF IssuesFor
<1>17. FilesTrue'
  <2>1. ASSUME NEW m \in Counters PROVE \E n \in IssuesFor(m) : written[m] <= n + Finished(m)'
    <3>1. CASE Head(todo).metric # m \/ ~Head(todo).set
      <4>1. PICK n \in IssuesFor(m) : hand[m] <= n + Finished(m)
        BY <1>15 DEF Bounded
      <4>2. n \in Nat /\ hand[m] \in Nat
        BY <1>2, <1>16, MetricsNamed DEF Snapshots
      <4>3. written[m] = hand[m] + Bit(Head(todo) = Increment(m))
        BY <1>6, <3>1
      <4>4. written[m] <= n + Finished(m)'
        BY <1>9, <4>1, <4>2, <4>3
      <4>. QED BY <4>4
    <3>2. CASE Head(todo).metric = m /\ Head(todo).set
      <4>1. ASSUME NEW load \in loads, Head(todo) = SetTo("schema", load[3])
            PROVE  \E n \in IssuesFor(m) : written[m] <= n + Finished(m)'
        <5>1. m = "schema" /\ written[m] = load[3]
          BY <1>6, <3>2, <4>1, WritesDiffer
        <5>2. load[3] \in IssuesFor(m) /\ load[3] \in Nat
          BY <1>16, <5>1 DEF IssuesFor
        <5>3. 0 <= Finished(m)'
          BY <1>9 DEF MetricsInv, FilesTrue
        <5>4. Finished(m)' \in Int
          BY <1>14
        <5>. QED BY <5>1, <5>2, <5>3, <5>4
      <4>2. CASE todo \in Plain
        <5>1. Head(todo) = Increment(m)
          BY <3>2, <4>2, PlainHeads
        <5>. QED BY <3>2, <5>1, WritesDiffer
      <4>3. ASSUME NEW v, Head(todo) \in {SetTo("latest", v), SetTo("delay", v)} PROVE FALSE
        BY <3>2, <4>3, WritesDiffer DEF Counters
      <4>. QED BY <1>12, <4>1, <4>2, <4>3
    <3>. QED BY <3>1, <3>2
  <2>2. written["delay"] > 0 => \E load \in loads : load[2] = written["delay"]
    <3>1. CASE Head(todo).metric = "delay"
      <4>1. PICK load \in loads : Head(todo) = SetTo("delay", load[2])
        <5>1. \A v : SetTo("latest", v).metric # "delay" /\ SetTo("schema", v).metric # "delay"
          BY WritesDiffer
        <5>2. todo \notin Plain
          BY <3>1, PlainHeads
        <5>. QED BY <1>12, <3>1, <5>1, <5>2
      <4>2. written["delay"] = load[2]
        BY <1>6, <4>1, WritesDiffer
      <4>. QED BY <4>2
    <3>2. CASE Head(todo).metric # "delay"
      <4>1. written["delay"] = hand["delay"]
        BY <1>6, <3>2, MetricsNamed
      <4>. QED BY <1>15, <4>1 DEF Caused
    <3>. QED BY <3>1, <3>2
  <2>3. Readable(snapshot') => Bounded(snapshot)' /\ Caused(snapshot)'
    <3>1. snapshot' = written \/ ~Readable(snapshot')
      BY <1>1, <1>10
    <3>. QED BY <1>1, <1>16, <2>1, <2>2, <3>1 DEF Bounded, Caused
  <2>. QED BY <1>4, <1>5, <1>13, <1>14, <1>15, <2>3, FilesMove DEF MetricsInv
<1>18. \A x \in Writers : AlertsTrue(x)'
  <2>1. begun' \in [Metrics -> Nat] /\ \A m \in Metrics : begun[m] <= begun'[m]
    BY <1>1 DEF MetricsInv, MetricsTyped
  <2>. QED BY <1>4, <1>5, <1>15, <2>1, AlertsMove DEF MetricsInv
<1>19. ASSUME ~disturbed' PROVE OneAtWork'
  <2>1. OneAtWork /\ Alone(w) /\ WorkTrue(w)
    BY <1>1, <1>19 DEF MetricsInv, OneAtWork
  <2>2. snapshot' = written /\ Exact(hand)
    BY <1>1, <2>1 DEF WorkTrue, hand
  <2>3. \A x \in Writers \ {w} : writer[x].todo = <<>> /\ ~Recording(writer[x].todo) /\ ~Resets(writer[x].todo)
    BY <2>1, OthersRest DEF MetricsInv
  <2>4. writer[w].todo = todo /\ writer'[w].todo = rest /\ writer[w].hand = hand /\ loads' = loads /\ due' = due /\ begun' = begun
    BY <1>1, <1>4, <1>7 DEF todo, hand
  <2>5. ASSUME ~Recording(rest)
        PROVE  \/ written["latest"] = 0 /\ loads = {}
               \/ \E load \in loads : written["latest"] = load[1] /\ written["delay"] = load[2]
    <3>1. CASE Head(todo).metric = "delay"
      <4>1. Recording(todo)
        BY <1>2, <3>1 DEF Recording, todo
      <4>2. PICK load \in loads : todo \in AtDelay(load) /\ hand["latest"] = load[1]
        <5>1. PICK load \in loads : todo \in AtLatest(load) \/ (todo \in AtDelay(load) /\ hand["latest"] = load[1])
          BY <1>1, <2>1, <2>4, <4>1 DEF WorkTrue
        <5>2. todo \in AtLatest(load) => Head(todo) = SetTo("latest", load[1])
          BY FrameHeads DEF MetricsInv, MetricsTyped
        <5>3. SetTo("latest", load[1]).metric # "delay"
          BY WritesDiffer
        <5>. QED BY <3>1, <5>1, <5>2, <5>3
      <4>3. Head(todo) = SetTo("delay", load[2])
        BY <4>2, FrameHeads DEF MetricsInv, MetricsTyped
      <4>4. written["latest"] = hand["latest"] /\ written["delay"] = load[2]
        BY <1>6, <4>3, MetricsNamed, WritesDiffer
      <4>. QED BY <4>2, <4>4
    <3>2. CASE Head(todo).metric # "delay"
      <4>1. Head(todo).metric # "latest"
        <5>. SUFFICES ASSUME Head(todo).metric = "latest" PROVE FALSE
          OBVIOUS
        <5>1. \A v : SetTo("delay", v).metric # "latest" /\ SetTo("schema", v).metric # "latest"
          BY WritesDiffer
        <5>2. todo \notin Plain
          BY PlainHeads
        <5>3. PICK load \in loads : rest \in AtDelay(load)
          BY <1>12, <5>1, <5>2
        <5>. QED BY <2>5, <5>3, ListsTold DEF MetricsInv, MetricsTyped
      <4>2. ~Recording(todo)
        BY <3>2, <4>1 DEF Recording
      <4>3. written["latest"] = hand["latest"] /\ written["delay"] = hand["delay"]
        BY <1>6, <3>2, <4>1, MetricsNamed
      <4>4. \A x \in Writers : ~Recording(writer[x].todo)
        BY <2>3, <2>4, <4>2
      <4>. QED BY <2>2, <4>3, <4>4 DEF Exact
    <3>. QED BY <3>1, <3>2
  <2>6. ASSUME ~Resets(rest) PROVE written["schema"] + begun["schema"] = due + Finished("schema")'
    <3>. DEFINE c == "schema"
    <3>1. c \in Counters /\ c \in Metrics
      BY MetricsNamed DEF Counters
    <3>2. hand[c] \in Nat /\ begun[c] \in Nat /\ due \in Nat
      BY <1>2, <3>1 DEF MetricsInv, MetricsTyped, Snapshots
    <3>3. CASE Resets(todo)
      <4>1. PICK load \in loads : Head(todo) = SetTo("schema", load[3]) /\ rest = <<>> /\ todo \in AtSchema(load)
        <5>1. rest = <<>>
          <6>1. ASSUME rest # <<>> PROVE FALSE
            <7>1. PICK load \in loads : todo \in OfFrame(load)
              BY <1>12, <3>3, PlainHeads DEF OfFrame
            <7>2. rest[Len(rest)] = todo[Len(todo)]
              BY <6>1, <7>1, FrameHeads DEF rest, MetricsInv, MetricsTyped
            <7>. QED BY <2>6, <3>3, <6>1, <7>2 DEF Resets
          <6>. QED BY <6>1
        <5>2. PICK load \in loads : todo \in OfFrame(load) /\ load \in Feed
          BY <1>12, <3>3, PlainHeads DEF OfFrame, MetricsInv, MetricsTyped
        <5>3. todo \notin AtLatest(load)
          BY <5>1, <5>2, FrameHeads DEF rest
        <5>4. todo \in AtDelay(load) => FALSE
          <6>. SUFFICES ASSUME todo \in AtDelay(load) PROVE FALSE
            OBVIOUS
          <6>1. todo = <<SetTo("delay", load[2])>>
            <7>1. \A a, b : Tail(<<a, b>>) # <<>>
              BY ShortLists
            <7>2. \A a, b, d, e : Tail(<<a, b, d, e>>) # <<>>
              BY LongLists
            <7>. QED BY <5>1, <7>1, <7>2 DEF AtDelay, rest
          <6>2. todo[Len(todo)] = SetTo("delay", load[2])
            BY <6>1, ShortLists
          <6>. QED BY <3>3, <6>2, WritesDiffer DEF Resets
        <5>. QED BY <5>1, <5>2, <5>3, <5>4, FrameHeads DEF OfFrame
      <4>2. todo[Len(todo)] = Head(todo)
        BY <4>1, ShortLists DEF AtSchema
      <4>3. Head(todo).value = due /\ Head(todo).set /\ Head(todo).metric = "schema"
        BY <2>1, <2>4, <3>3, <4>1, <4>2, WritesDiffer DEF WorkTrue
      <4>4. written[c] = due
        BY <1>6, <4>3
      <4>5. Finished(c)' = begun[c]
        <5>1. \A x \in Writers : writer'[x].todo = <<>>
          BY <1>7, <2>3, <2>4, <4>1
        <5>2. Counting(c)' = {}
          BY <5>1 DEF Counting, Counts
        <5>3. Cardinality(Counting(c)') = 0
          BY <5>2, FS_EmptySet
        <5>4. Finished(c)' = begun'[c] - Cardinality(Counting(c)')
          BY DEF Finished
        <5>. QED BY <2>4, <3>2, <5>3, <5>4
      <4>. QED BY <3>2, <4>4, <4>5
    <3>4. CASE ~Resets(todo)
      <4>1. hand[c] + begun[c] = due + Finished(c)
        BY <2>2, <2>3, <2>4, <3>4 DEF Exact
      <4>2. Head(todo).metric # c \/ ~Head(todo).set
        <5>1. ASSUME NEW load \in loads, todo \in AtSchema(load) PROVE FALSE
          BY <3>4, <5>1, ListsTold DEF MetricsInv, MetricsTyped
        <5>2. \A v : SetTo("latest", v).metric # c /\ SetTo("delay", v).metric # c
          BY WritesDiffer
        <5>3. todo \in Plain => (Head(todo).metric = c => Head(todo) = Increment(c))
          BY <3>1, PlainHeads
        <5>4. ~Increment(c).set
          BY WritesDiffer
        <5>. QED BY <1>12, <5>1, <5>2, <5>3, <5>4
      <4>3. written[c] = hand[c] + Bit(Head(todo) = Increment(c))
        BY <1>6, <3>1, <4>2
      <4>4. /\ Finished(c) \in Int /\ Finished(c)' = Finished(c) + Bit(Head(todo) = Increment(c))
            /\ Bit(Head(todo) = Increment(c)) \in {0, 1}
        BY <1>9, <3>1
      <4>. HIDE DEF c
      <4>5. written[c] + begun[c] = due + Finished(c)'
        BY <3>2, <4>1, <4>3, <4>4
      <4>. QED BY <4>5 DEF c
    <3>. QED BY <3>3, <3>4
  <2>7. Exact(snapshot)'
    <3>1. ASSUME NEW m \in {"failures", "notices"} PROVE written[m] = Finished(m)'
      <4>1. m \in Counters /\ (Head(todo).metric # m \/ ~Head(todo).set)
        BY <1>6 DEF Counters
      <4>. QED BY <1>6, <1>9, <2>2, <4>1 DEF Exact
    <3>2. (\A x \in Writers : ~Recording(writer'[x].todo)) => ~Recording(rest)
      BY <2>4
    <3>3. (\A x \in Writers : ~Resets(writer'[x].todo)) => ~Resets(rest)
      BY <2>4
    <3>. QED BY <2>2, <2>4, <2>5, <2>6, <3>1, <3>2, <3>3 DEF Exact
  <2>8. Recording(rest) =>
          \E load \in loads : rest \in AtLatest(load) \/ (rest \in AtDelay(load) /\ written["latest"] = load[1])
    <3>. SUFFICES ASSUME Recording(rest)
                  PROVE  \E load \in loads : rest \in AtLatest(load) \/ (rest \in AtDelay(load) /\ written["latest"] = load[1])
      OBVIOUS
    <3>1. ASSUME NEW load \in loads, rest \in AtDelay(load), Head(todo) = SetTo("latest", load[1])
          PROVE  written["latest"] = load[1]
      BY <1>6, <3>1, WritesDiffer
    <3>2. rest \notin Plain \cup {<<>>} /\ \A load \in loads : rest \notin AtSchema(load)
      BY ListsTold DEF MetricsInv, MetricsTyped
    <3>. QED BY <1>12, <3>1, <3>2
  <2>9. Resets(rest) => rest[Len(rest)].value = due
    <3>. SUFFICES ASSUME Resets(rest) PROVE rest[Len(rest)].value = due
      OBVIOUS
    <3>1. rest # <<>> /\ rest \notin Plain
      BY ListsTold
    <3>2. PICK load \in loads : todo \in OfFrame(load)
      BY <1>12, <3>1 DEF OfFrame
    <3>3. rest[Len(rest)] = todo[Len(todo)]
      BY <3>1, <3>2, FrameHeads DEF rest, MetricsInv, MetricsTyped
    <3>4. Resets(todo)
      BY <1>2, <3>3 DEF Resets, todo
    <3>. QED BY <2>1, <2>4, <3>3, <3>4 DEF WorkTrue
  <2>10. WorkTrue(w)'
    <3>1. /\ writer'[w].phase \in {"idle", "read"} /\ writer'[w].todo = rest
          /\ writer'[w].alerts = writer[w].alerts /\ writer'[w].answer = writer[w].answer /\ loads' = loads
      BY <1>1, <1>4, <1>7
    <3>2. ("latest" \in writer[w].alerts => loads = {})
          /\ (writer[w].answer # <<>> => \E load \in loads : writer[w].answer = <<load[1], load[2]>>)
      BY <1>1, <2>1 DEF WorkTrue
    <3>. QED BY <2>2, <2>4, <2>8, <2>9, <3>1, <3>2 DEF WorkTrue
  <2>. QED BY <1>1, <1>4, <1>5, <1>10, <2>1, <2>2, <2>7, <2>10, WorkMoves DEF MetricsInv
<1>. QED BY <1>8, <1>17, <1>18, <1>19 DEF MetricsInv

LEMMA MetricsInitInv == ObservabilityInit => MetricsInv
<1>. SUFFICES ASSUME ObservabilityInit PROVE MetricsInv
  OBVIOUS
<1>1. Unbusy \in WriterRecords /\ Unbusy.phase = "idle" /\ Unbusy.todo = <<>> /\ Unbusy.alerts = {} /\ Unbusy.answer = <<>> /\ Unbusy.frame = <<>>
  BY TodoKinds, MetricsNamed DEF WriterRecords, Unbusy
<1>2. /\ snapshot = Default /\ due = 0 /\ loads = {} /\ disturbed = FALSE /\ begun \in [Metrics -> Nat]
      /\ \A m \in Metrics : begun[m] = 0
      /\ writer \in [Writers -> WriterRecords] /\ \A w \in Writers : writer[w] = Unbusy
  BY <1>1 DEF ObservabilityInit, Metrics
<1>3. MetricsTyped
  BY <1>1, <1>2, MetricsNamed DEF MetricsTyped, Writing
<1>4. ASSUME NEW m \in Counters PROVE Default[m] = Finished(m)
  <2>1. Counting(m) = {}
    BY <1>1, <1>2 DEF Counting, Counts
  <2>2. Cardinality(Counting(m)) = 0
    BY <2>1, FS_EmptySet
  <2>. QED BY <1>2, <2>2, MetricsNamed DEF Finished
<1>5. FilesTrue
  <2>1. ASSUME NEW m \in Counters PROVE 0 <= Finished(m) /\ Default[m] <= 0 + Finished(m) /\ 0 \in IssuesFor(m)
    BY <1>4, MetricsNamed DEF IssuesFor
  <2>2. Bounded(Default)
    BY <2>1 DEF Bounded
  <2>3. ~(Default["delay"] > 0)
    BY MetricsNamed
  <2>4. \A w \in Writers : HandTrue(w)
    BY <1>1, <1>2 DEF HandTrue
  <2>. QED BY <1>2, <2>1, <2>2, <2>3, <2>4 DEF FilesTrue, Caused
<1>6. OneAtWork
  <2>1. Exact(snapshot)
    <3>1. Default["schema"] = Finished("schema") /\ begun["schema"] = 0 /\ due = 0 /\ Default["schema"] = 0
      BY <1>2, <1>4, MetricsNamed DEF Counters
    <3>2. Default["schema"] + begun["schema"] = due + Finished("schema")
      BY <3>1
    <3>3. \A m \in {"failures", "notices"} : Default[m] = Finished(m)
      BY <1>4 DEF Counters
    <3>. QED BY <1>2, <3>2, <3>3, MetricsNamed DEF Exact
  <2>2. ~Recording(<<>>) /\ ~Resets(<<>>)
    BY ListsTold
  <2>3. \A w \in Writers : WorkTrue(w)
    BY <1>1, <1>2, <2>2 DEF WorkTrue
  <2>. QED BY <1>1, <1>2, <2>1, <2>3, MetricsNamed DEF OneAtWork
<1>. QED BY <1>1, <1>2, <1>3, <1>5, <1>6 DEF MetricsInv, AlertsTrue

LEMMA MetricsStep == ASSUME MetricsInv, [ObservabilityNext]_observabilityVars PROVE MetricsInv'
<1>1. CASE ObservabilityNext
  BY <1>1, BeginsInv, LookInv, StartOverInv, ReadMetricsInv, OpenInv, WriteSnapshotInv, CrashInv, BuildAlertsInv,
     HeartbeatInv DEF ObservabilityNext
<1>2. CASE UNCHANGED observabilityVars
  <2>1. UNCHANGED <<snapshot, writer, begun, due, loads, disturbed>>
    BY <1>2 DEF observabilityVars
  <2>2. \A m : IssuesFor(m)' = IssuesFor(m) /\ Finished(m)' = Finished(m)
    BY <2>1 DEF IssuesFor, Finished, Counting
  <2>3. MetricsTyped'
    BY <2>1 DEF MetricsInv, MetricsTyped
  <2>4. FilesTrue'
    BY <2>1, <2>2 DEF MetricsInv, FilesTrue, HandTrue, Bounded, Caused
  <2>5. \A w \in Writers : AlertsTrue(w)'
    BY <2>1, <2>2 DEF MetricsInv, AlertsTrue
  <2>6. ASSUME ~disturbed' PROVE OneAtWork'
    <3>1. OneAtWork
      BY <2>1, <2>6 DEF MetricsInv
    <3>2. ASSUME NEW w \in Writers PROVE WorkTrue(w)' /\ (writer'[w].phase # "idle" => Alone(w)')
      <4>1. WorkTrue(w) /\ (writer[w].phase # "idle" => Alone(w))
        BY <3>1 DEF OneAtWork
      <4>2. Exact(writer[w].hand) => Exact(writer[w].hand)'
        BY <2>1, <2>2 DEF Exact
      <4>3. WorkTrue(w)'
        BY <2>1, <4>1, <4>2 DEF WorkTrue
      <4>. QED BY <2>1, <4>1, <4>3 DEF Alone
    <3>3. Readable(snapshot') => Exact(snapshot)'
      BY <2>1, <2>2, <3>1 DEF OneAtWork, Exact
    <3>. QED BY <2>1, <3>1, <3>2, <3>3 DEF OneAtWork
  <2>. QED BY <2>3, <2>4, <2>5, <2>6 DEF MetricsInv
<1>. QED BY <1>1, <1>2

\* However many processes write the metrics file without a lock, crash and start it
\* over: no counter shows more than was counted and it was set to, alerts of errors and
\* of delays have a cause; and operations that do not overlap lose no error and no
\* notice, leave of the schema failures those since the last measured frame and its
\* issues, and answer with a bar and the delay it had (observability_metrics.py:94,118,
\* market_data_service.py:98,140).
THEOREM MetricsKept == ObservabilitySpec => []MetricsHold
<1>1. ASSUME MetricsInv PROVE MetricsHold
  <2>1. NothingInvented
    <3>. SUFFICES ASSUME Readable(snapshot), NEW m \in Counters PROVE \E n \in IssuesFor(m) : snapshot[m] <= n + begun[m]
      BY DEF NothingInvented, Counters
    <3>1. snapshot \in Snapshots /\ begun[m] \in Nat
      BY <1>1, MetricsNamed DEF MetricsInv, MetricsTyped, Readable
    <3>2. PICK n \in IssuesFor(m) : snapshot[m] <= n + Finished(m)
      BY <1>1 DEF MetricsInv, FilesTrue, Bounded
    <3>3. snapshot[m] \in Nat /\ Cardinality(Counting(m)) \in Nat /\ n \in Nat
      <4>1. \A load \in loads : load[3] \in Nat
        BY <1>1, Frames DEF MetricsInv, MetricsTyped
      <4>. QED BY <3>1, <4>1, MetricsNamed, CountingFinite DEF Snapshots, IssuesFor
    <3>4. snapshot[m] <= n + begun[m]
      BY <3>1, <3>2, <3>3 DEF Finished
    <3>. QED BY <3>4
  <2>2. AloneExact
    <3>. SUFFICES ASSUME ~disturbed, \A w \in Writers : writer[w].phase = "idle"
                  PROVE  /\ Readable(snapshot) /\ snapshot["schema"] = due
                         /\ \A m \in {"failures", "notices"} : snapshot[m] = begun[m]
      BY DEF AloneExact
    <3>1. OneAtWork
      BY <1>1 DEF MetricsInv
    <3>2. Readable(snapshot) /\ Exact(snapshot)
      BY <3>1 DEF OneAtWork
    <3>3. \A w \in Writers : writer[w].todo = <<>> /\ ~Resets(writer[w].todo)
      BY <1>1, FieldsOfWriters, ListsTold DEF MetricsInv, Writing
    <3>4. ASSUME NEW m \in Counters PROVE Finished(m) = begun[m]
      <4>1. begun[m] \in Nat
        BY <1>1, MetricsNamed DEF MetricsInv, MetricsTyped
      <4>2. Counting(m) = {}
        BY <3>3 DEF Counting, Counts
      <4>3. Cardinality(Counting(m)) = 0
        BY <4>2, FS_EmptySet
      <4>. QED BY <4>1, <4>3 DEF Finished
    <3>5. snapshot["schema"] = due
      <4>1. snapshot["schema"] + begun["schema"] = due + Finished("schema") /\ Finished("schema") = begun["schema"]
        BY <3>2, <3>3, <3>4 DEF Exact, Counters
      <4>2. snapshot["schema"] \in Nat /\ begun["schema"] \in Nat /\ due \in Nat
        BY <1>1, <3>2, MetricsNamed DEF MetricsInv, MetricsTyped, Readable, Snapshots
      <4>. QED BY <4>1, <4>2
    <3>. QED BY <3>2, <3>4, <3>5 DEF Exact, Counters
  <2>3. AlertsHaveCause
    BY <1>1 DEF MetricsInv, AlertsTrue, OneAtWork, WorkTrue, AlertsHaveCause
  <2>4. HeartbeatOfOneLoad
    BY <1>1 DEF MetricsInv, OneAtWork, WorkTrue, HeartbeatOfOneLoad
  <2>. QED BY <2>1, <2>2, <2>3, <2>4 DEF MetricsHold
<1>. QED BY <1>1, MetricsInitInv, MetricsStep, PTL DEF ObservabilitySpec

-----------------------------------------------------------------------------
(* What is kept, and what the callers have *)

Wants == Feeds \cup {"AUTO"}
FeedRows == [feed : Feeds, period : Periods, asOf : Nat]
AnyRows == FeedRows \cup [feed : {"CSV"}, period : Periods \cup {0}, asOf : Nat]
Entries == [rows : FeedRows, until : Nat]
FileStates == [files : SUBSET [period : Periods, rows : FeedRows], newest : SUBSET FeedRows]
Hows == {"empty", "exact", "file", "remote", "stale", "csv", "failed", "unmapped"}
Flags == BOOLEAN
CallRecords ==
  [phase : {"done", "calling"}, want : Wants, feed : Feeds, period : Periods \cup {0}, force : Flags,
   began : Nat, asked : Nat, stale : SUBSET FeedRows, how : Hows, rows : SUBSET AnyRows, served : Nat]

Single(S) == \A x, y \in S : x = y

\* Rows that are kept were new a call before they were.
EntryOk(e) ==
  /\ e.rows.asOf <= now /\ now < e.until /\ e.until <= now + RedisTtl
  /\ e.until <= e.rows.asOf + MaxCall + RedisTtl

ExactInv ==
  /\ exact \in [Feeds \X Periods -> SUBSET Entries]
  /\ \A feed \in Feeds, period \in Periods : \A e \in exact[<<feed, period>>] :
       EntryOk(e) /\ e.rows.feed = feed /\ e.rows.period = period

LatestInv ==
  /\ latest \in [Feeds -> SUBSET Entries]
  /\ \A feed \in Feeds : Single(latest[feed]) /\ \A e \in latest[feed] : EntryOk(e)

\* A file whose window ends now holds the bar of now.
SavedInv ==
  /\ saved \in [Feeds -> FileStates]
  /\ \A feed \in Feeds :
       /\ Single(saved[feed].newest)
       /\ \A x \in saved[feed].files : x.rows.feed = feed /\ x.rows.period = x.period /\ x.rows.asOf = now

\* A call of a feed: nothing to fall back on means that Redis had nothing, and what
\* it has by now (`stays`) came later.
CallOk(call, stays) ==
  call.phase = "calling" =>
    /\ call.want # "AUTO" => call.feed = call.want
    /\ call.period \in Periods /\ call.how = "empty"
    /\ call.began <= now /\ now <= call.began + MaxCall
    /\ call.stale = {} => \A e \in stays[call.feed] : e.until - RedisTtl >= call.began

\* An answer, as AnswersAreOwn has it.
AnswerOk(call) ==
  call.phase = "done" /\ call.how \in {"exact", "file", "remote"} =>
    \A rows \in call.rows :
      /\ rows.period = call.period
      /\ call.want # "AUTO" => rows.feed = call.want
      /\ call.served - rows.asOf <= RedisTtl + MaxCall

CallsInv ==
  /\ calls \in [Callers -> CallRecords]
  /\ \A c \in Callers : /\ CallOk(calls[c], latest) /\ AnswerOk(calls[c])
                        /\ Single(calls[c].stale) /\ Single(calls[c].rows)

CandlesInv == now \in Nat /\ ExactInv /\ LatestInv /\ SavedInv /\ CallsInv

-----------------------------------------------------------------------------
(* Requests for signals *)

Served == {"none", "result", "frame", "provider", "refused", "failed"}
RequestRecords ==
  [phase : {"done", "fetching"}, attempt : Nat, began : Nat, how : Served, bar : Nat, served : Nat, asked : Nat]

\* Each cache adds its age to that of what it was given.
FramesInv == frames30 \subseteq [bar : Nat, until : Nat] /\ \A e \in frames30 : e.until <= e.bar + StaleAfter + FrameTtl
ResultsInv ==
  results \subseteq [bar : Nat, until : Nat] /\ \A e \in results : e.until <= e.bar + StaleAfter + FrameTtl + ResultTtl

\* Nobody begins to fetch while the circuit is open.
CircuitInv ==
  /\ openUntil \in Nat
  /\ openUntil > now => \A c \in Callers : requests[c].phase = "fetching" => requests[c].began <= openUntil - BreakTime

RequestsInv ==
  /\ requests \in [Callers -> RequestRecords] /\ SignalsNotOld
  /\ \A c \in Callers : requests[c].began <= now

SignalsInv == FramesInv /\ ResultsInv /\ CircuitInv /\ RequestsInv

MarketInv == CandlesInv /\ SignalsInv

-----------------------------------------------------------------------------
(* The caches *)

LEMMA NowStays ==
  ASSUME UNCHANGED now, NEW e PROVE EntryOk(e)' <=> EntryOk(e)
BY DEF EntryOk

\* What Kept and the newest file give is typed, of the feed, and one thing.
LEMMA KeptOk ==
  ASSUME CandlesInv, NEW feed \in Feeds, NEW period \in Periods
  PROVE  /\ \A rows \in InRedis(feed, period) :
              /\ rows \in FeedRows /\ rows.feed = feed /\ rows.period = period
              /\ now - rows.asOf <= RedisTtl + MaxCall
         /\ \A rows \in OnFile(feed, period) :
              rows \in FeedRows /\ rows.feed = feed /\ rows.period = period /\ rows.asOf = now
<1>1. ASSUME NEW rows \in InRedis(feed, period)
      PROVE  /\ rows \in FeedRows /\ rows.feed = feed /\ rows.period = period
             /\ now - rows.asOf <= RedisTtl + MaxCall
  <2>1. PICK e \in exact[<<feed, period>>] : now < e.until /\ rows = e.rows
    BY DEF InRedis, Kept
  <2>2. e \in Entries /\ EntryOk(e) /\ e.rows.feed = feed /\ e.rows.period = period
    BY DEF CandlesInv, ExactInv
  <2>. QED BY <2>1, <2>2, CandlesAssumption DEF Entries, FeedRows, EntryOk, CandlesInv
<1>2. ASSUME NEW rows \in OnFile(feed, period)
      PROVE  rows \in FeedRows /\ rows.feed = feed /\ rows.period = period /\ rows.asOf = now
  BY DEF OnFile, CandlesInv, SavedInv, FileStates
<1>. QED BY <1>1, <1>2

LEMMA StaleOk ==
  ASSUME CandlesInv, NEW feed \in Feeds
  PROVE  /\ Stale(feed) \subseteq FeedRows /\ Single(Stale(feed))
         /\ Stale(feed) = {} => latest[feed] = {}
<1>1. \A e \in latest[feed] : e \in Entries /\ now < e.until
  BY DEF CandlesInv, LatestInv, EntryOk
<1>2. Kept(latest[feed]) = {e.rows : e \in latest[feed]}
  BY <1>1 DEF Kept
<1>3. Single(Kept(latest[feed])) /\ Kept(latest[feed]) \subseteq FeedRows
  BY <1>1, <1>2 DEF CandlesInv, LatestInv, Single, Entries
<1>4. Single(NewestFile(feed)) /\ NewestFile(feed) \subseteq FeedRows
  BY DEF NewestFile, CandlesInv, SavedInv, FileStates
<1>5. Kept(latest[feed]) = {} => latest[feed] = {}
  BY <1>2
<1>. QED BY <1>3, <1>4, <1>5 DEF Stale

\* Rows are kept that were new a call ago at most.
LEMMA KeepOk ==
  ASSUME CandlesInv, UNCHANGED now, NEW feed \in Feeds, NEW period \in Periods, NEW rows \in FeedRows,
         rows.feed = feed, rows.period = period, rows.asOf <= now, now <= rows.asOf + MaxCall,
         KeepInRedis(feed, period, rows)
  PROVE  /\ ExactInv' /\ LatestInv'
         /\ \A f \in Feeds : \A e \in latest'[f] : e \in latest[f] \/ e.until = now + RedisTtl
<1>. DEFINE new == [rows |-> rows, until |-> now + RedisTtl]
<1>1. new \in Entries /\ EntryOk(new) /\ Entry(rows) = {new}
  BY CandlesAssumption DEF Entries, EntryOk, Entry, CandlesInv, FeedRows
<1>2. /\ exact' = [exact EXCEPT ![<<feed, period>>] = {new}]
      /\ latest' = [latest EXCEPT ![feed] = {new}]
  BY <1>1 DEF KeepInRedis
<1>. HIDE DEF new
<1>3. new.rows = rows /\ new.until = now + RedisTtl
  BY DEF new
<1>4. ExactInv'
  <2>1. exact' \in [Feeds \X Periods -> SUBSET Entries]
    BY <1>1, <1>2 DEF CandlesInv, ExactInv
  <2>2. ASSUME NEW f \in Feeds, NEW p \in Periods, NEW e \in exact'[<<f, p>>]
        PROVE  EntryOk(e) /\ e.rows.feed = f /\ e.rows.period = p
    <3>1. CASE f = feed /\ p = period
      <4>1. exact'[<<f, p>>] = {new}
        BY <1>2, <3>1 DEF CandlesInv, ExactInv
      <4>. QED BY <4>1, <1>1, <1>3, <3>1
    <3>2. CASE ~(f = feed /\ p = period)
      <4>1. exact'[<<f, p>>] = exact[<<f, p>>]
        BY <1>2, <3>2 DEF CandlesInv, ExactInv
      <4>. QED BY <4>1 DEF CandlesInv, ExactInv
    <3>. QED BY <3>1, <3>2
  <2>. QED BY <2>1, <2>2, NowStays DEF ExactInv
<1>5. LatestInv'
  <2>1. latest' \in [Feeds -> SUBSET Entries]
    BY <1>1, <1>2 DEF CandlesInv, LatestInv
  <2>2. ASSUME NEW f \in Feeds PROVE Single(latest'[f]) /\ \A e \in latest'[f] : EntryOk(e)
    BY <1>1, <1>2 DEF CandlesInv, LatestInv, Single
  <2>. QED BY <2>1, <2>2, NowStays DEF LatestInv
<1>6. \A f \in Feeds : \A e \in latest'[f] : e \in latest[f] \/ e.until = now + RedisTtl
  BY <1>2, <1>3 DEF CandlesInv, LatestInv
<1>. QED BY <1>4, <1>5, <1>6

\* The same when nothing is kept.
LEMMA CachesStay ==
  ASSUME CandlesInv, UNCHANGED <<now, exact, latest>>
  PROVE  /\ ExactInv' /\ LatestInv'
         /\ \A f \in Feeds : \A e \in latest'[f] : e \in latest[f] \/ e.until = now + RedisTtl
BY NowStays DEF CandlesInv, ExactInv, LatestInv

LEMMA FilesStay == ASSUME SavedInv, UNCHANGED <<now, saved>> PROVE SavedInv'
BY DEF SavedInv

-----------------------------------------------------------------------------
(* The callers *)

\* What comes into Redis now is no reason for the calls that go on.
LaterOnly == \A f \in Feeds : \A e \in latest'[f] : e \in latest[f] \/ e.until = now + RedisTtl

LEMMA OthersGoOn ==
  ASSUME CandlesInv, UNCHANGED now, LaterOnly, NEW d \in Callers
  PROVE  CallOk(calls[d], latest')
<1>1. calls[d] \in CallRecords /\ CallOk(calls[d], latest)
  BY DEF CandlesInv, CallsInv
<1>2. calls[d].feed \in Feeds /\ calls[d].began \in Nat
  BY <1>1 DEF CallRecords
<1>. QED BY <1>1, <1>2, CandlesAssumption DEF CallOk, LaterOnly, CandlesInv

LEMMA MovesOne ==
  ASSUME CandlesInv, UNCHANGED now, LaterOnly, NEW c \in Callers, NEW r \in CallRecords,
         calls' = [calls EXCEPT ![c] = r],
         CallOk(r, latest'), AnswerOk(r), Single(r.stale), Single(r.rows)
  PROVE  CallsInv'
<1>1. calls' \in [Callers -> CallRecords]
  BY DEF CandlesInv, CallsInv
<1>2. ASSUME NEW d \in Callers
      PROVE  /\ CallOk(calls'[d], latest') /\ AnswerOk(calls'[d])
             /\ Single(calls'[d].stale) /\ Single(calls'[d].rows)
  <2>1. CASE d = c
    <3>1. calls'[d] = r
      BY <2>1 DEF CandlesInv, CallsInv
    <3>. QED BY <3>1
  <2>2. CASE d # c
    <3>1. calls'[d] = calls[d]
      BY <2>2 DEF CandlesInv, CallsInv
    <3>2. CallOk(calls[d], latest') /\ AnswerOk(calls[d]) /\ Single(calls[d].stale) /\ Single(calls[d].rows)
      BY OthersGoOn DEF CandlesInv, CallsInv
    <3>. QED BY <3>1, <3>2
  <2>. QED BY <2>1, <2>2
<1>. QED BY <1>1, <1>2 DEF CallsInv, CallOk, AnswerOk, Single

LEMMA CallsStay ==
  ASSUME CandlesInv, UNCHANGED <<now, calls>>, LaterOnly
  PROVE  CallsInv'
<1>1. ASSUME NEW d \in Callers PROVE CallOk(calls[d], latest')
  BY OthersGoOn
<1>. QED BY <1>1 DEF CandlesInv, CallsInv, CallOk, AnswerOk, Single

LEMMA NotCalledOk ==
  NotCalled \in CallRecords
<1>1. "AUTO" \in Wants /\ "YAHOO" \in Feeds /\ 0 \in Periods \cup {0} /\ FALSE \in Flags
  BY DEF Wants, Feeds, Flags
<1>2. {} \in SUBSET FeedRows /\ {} \in SUBSET AnyRows
  OBVIOUS
<1>. QED BY <1>1, <1>2 DEF NotCalled, CallRecords, Hows

LEMMA AnsweredIs ==
  ASSUME NEW call \in CallRecords, NEW how \in Hows, NEW rows \in SUBSET AnyRows, now \in Nat
  PROVE  LET r == Answered(call, how, rows)
         IN  /\ r \in CallRecords /\ r.phase = "done" /\ r.how = how /\ r.rows = rows /\ r.stale = {}
             /\ r.period = call.period /\ r.want = call.want /\ r.served = now
BY ZenonT(60) DEF Answered, NotCalled, CallRecords, Wants, Feeds, Hows, Flags

\* Rows that answer a call as AnswersAreOwn wants.
OwnRows(call, rows) ==
  \A x \in rows : /\ x.period = call.period
                  /\ call.want # "AUTO" => x.feed = call.want
                  /\ now - x.asOf <= RedisTtl + MaxCall

\* Whoever is answered from a cache or by the feed is answered as AnswersAreOwn wants.
LEMMA AnswerStep ==
  ASSUME CandlesInv, UNCHANGED now, LaterOnly, NEW c \in Callers,
         NEW call \in CallRecords, NEW how \in Hows, NEW rows \in SUBSET AnyRows,
         Answer(c, call, how, rows), Single(rows),
         how \in {"exact", "file", "remote"} => OwnRows(call, rows)
  PROVE  CallsInv'
<1>. DEFINE r == Answered(call, how, rows)
<1>1. now \in Nat
  BY DEF CandlesInv
<1>2. /\ r \in CallRecords /\ r.phase = "done" /\ r.how = how /\ r.rows = rows /\ r.stale = {}
      /\ r.period = call.period /\ r.want = call.want /\ r.served = now
  BY <1>1, AnsweredIs
<1>3. calls' = [calls EXCEPT ![c] = r]
  BY DEF Answer
<1>. HIDE DEF r
<1>4. CallOk(r, latest') /\ AnswerOk(r) /\ Single(r.stale) /\ Single(r.rows)
  BY <1>2 DEF CallOk, AnswerOk, Single, OwnRows
<1>. QED BY <1>2, <1>3, <1>4, MovesOne

LEMMA FeedRowsAreRows == FeedRows \subseteq AnyRows
BY DEF AnyRows

\* A question that goes to a feed, first through its caches.
LEMMA StartOnOk ==
  ASSUME CandlesInv, UNCHANGED now, NEW c \in Callers, NEW asked \in CallRecords, NEW feed \in Feeds,
         asked.period \in Periods, asked.how = "empty", Single(asked.rows),
         asked.want # "AUTO" => feed = asked.want,
         StartOn(c, asked, feed)
  PROVE  CandlesInv'
<1>. DEFINE call == [asked EXCEPT !.feed = feed]
            start == [call EXCEPT !.phase = "calling", !.began = now, !.stale = Stale(feed)]
            cached == IF call.force THEN {} ELSE InRedis(feed, call.period)
            filed == IF call.force THEN {} ELSE OnFile(feed, call.period)
<1>0. now \in Nat /\ SavedInv
  BY DEF CandlesInv
<1>1. /\ call \in CallRecords /\ call.period = asked.period /\ call.want = asked.want
      /\ call.feed = feed
  BY DEF CallRecords
<1>2. \/ /\ \E rows \in cached : Answer(c, call, "exact", {rows})
         /\ UNCHANGED <<exact, latest, saved>>
      \/ /\ \E rows \in filed : Answer(c, call, "file", {rows}) /\ KeepInRedis(feed, call.period, rows)
         /\ UNCHANGED saved
      \/ /\ calls' = [calls EXCEPT ![c] = start]
         /\ UNCHANGED <<exact, latest, saved>>
  BY DEF StartOn
<1>3. start \in CallRecords /\ start.phase = "calling" /\ start.feed = feed /\ start.want = asked.want
      /\ start.period = asked.period /\ start.how = "empty" /\ start.began = now /\ start.stale = Stale(feed)
      /\ start.rows = asked.rows
  <2>1. Stale(feed) \in SUBSET FeedRows
    BY StaleOk
  <2>. QED BY <1>0, <2>1 DEF CallRecords
<1>4. /\ cached \subseteq InRedis(feed, call.period)
      /\ filed \subseteq OnFile(feed, call.period)
  OBVIOUS
<1>. HIDE DEF call, start, cached, filed
<1>5. ASSUME NEW rows \in cached, Answer(c, call, "exact", {rows}), UNCHANGED <<exact, latest, saved>>
      PROVE  CandlesInv'
  <2>1. ExactInv' /\ LatestInv' /\ LaterOnly
    BY <1>5, CachesStay DEF LaterOnly
  <2>2. /\ rows \in FeedRows /\ rows.feed = feed /\ rows.period = call.period
        /\ now - rows.asOf <= RedisTtl + MaxCall
    BY <1>1, <1>4, KeptOk
  <2>3. CallsInv'
    <3>1. {rows} \in SUBSET AnyRows /\ Single({rows}) /\ "exact" \in Hows
      BY <2>2, FeedRowsAreRows DEF Single, Hows
    <3>2. OwnRows(call, {rows})
      BY <1>1, <2>2 DEF OwnRows
    <3>. QED BY <1>1, <1>5, <2>1, <3>1, <3>2, AnswerStep
  <2>4. SavedInv'
    BY <1>0, <1>5, FilesStay
  <2>. QED BY <1>0, <2>1, <2>3, <2>4 DEF CandlesInv
<1>6. ASSUME NEW rows \in filed, Answer(c, call, "file", {rows}), KeepInRedis(feed, call.period, rows), UNCHANGED saved
      PROVE  CandlesInv'
  <2>1. rows \in FeedRows /\ rows.feed = feed /\ rows.period = call.period /\ rows.asOf = now
    BY <1>1, <1>4, KeptOk
  <2>2. ExactInv' /\ LatestInv' /\ LaterOnly
    BY <1>0, <1>1, <1>6, <2>1, KeepOk, CandlesAssumption DEF LaterOnly
  <2>3. CallsInv'
    <3>1. now - rows.asOf <= RedisTtl + MaxCall
      BY <1>0, <2>1, CandlesAssumption
    <3>2. {rows} \in SUBSET AnyRows /\ Single({rows}) /\ "file" \in Hows
      BY <2>1, FeedRowsAreRows DEF Single, Hows
    <3>3. OwnRows(call, {rows})
      BY <1>1, <2>1, <3>1 DEF OwnRows
    <3>. QED BY <1>1, <1>6, <2>2, <3>2, <3>3, AnswerStep
  <2>4. SavedInv'
    BY <1>0, <1>6, FilesStay
  <2>. QED BY <1>0, <2>2, <2>3, <2>4 DEF CandlesInv
<1>7. ASSUME calls' = [calls EXCEPT ![c] = start], UNCHANGED <<exact, latest, saved>>
      PROVE  CandlesInv'
  <2>1. ExactInv' /\ LatestInv' /\ LaterOnly
    BY <1>7, CachesStay DEF LaterOnly
  <2>2. CallOk(start, latest')
    <3>1. start.stale = {} => latest'[start.feed] = {}
      BY <1>3, <1>7, StaleOk
    <3>. QED BY <1>0, <1>3, <3>1, CandlesAssumption DEF CallOk
  <2>3. AnswerOk(start) /\ Single(start.stale) /\ Single(start.rows)
    BY <1>3, StaleOk DEF AnswerOk
  <2>4. CallsInv'
    BY <1>3, <1>7, <2>1, <2>2, <2>3, MovesOne
  <2>5. SavedInv'
    BY <1>0, <1>7, FilesStay
  <2>. QED BY <1>0, <2>1, <2>4, <2>5 DEF CandlesInv
<1>. QED BY <1>2, <1>5, <1>6, <1>7

LEMMA StartOnDhanOk ==
  ASSUME CandlesInv, UNCHANGED now, NEW c \in Callers, NEW asked \in CallRecords,
         asked.period \in Periods, asked.how = "empty", Single(asked.rows),
         asked.want \in {"AUTO", "DHAN"},
         StartOnDhan(c, asked)
  PROVE  CandlesInv'
<1>1. CASE StartOn(c, asked, "DHAN")
  BY <1>1, StartOnOk DEF Feeds
<1>2. CASE Answer(c, [asked EXCEPT !.feed = "DHAN"], "unmapped", {}) /\ UNCHANGED <<exact, latest, saved>>
  <2>1. ExactInv' /\ LatestInv' /\ LaterOnly
    BY <1>2, CachesStay DEF LaterOnly
  <2>2. [asked EXCEPT !.feed = "DHAN"] \in CallRecords
    BY DEF CallRecords, Feeds
  <2>3. CallsInv'
    <3>1. Single({}) /\ {} \in SUBSET AnyRows /\ "unmapped" \in Hows
          /\ "unmapped" \notin {"exact", "file", "remote"}
      BY DEF Single, Hows
    <3>. QED BY <1>2, <2>1, <2>2, <3>1, AnswerStep
  <2>4. SavedInv'
    BY <1>2, FilesStay DEF CandlesInv
  <2>. QED BY <2>1, <2>3, <2>4 DEF CandlesInv
<1>. QED BY <1>1, <1>2 DEF StartOnDhan

\* The question of a caller, as Ask begins with it.
Asked(want, period, force, time, n) ==
  [NotCalled EXCEPT !.want = want, !.period = period, !.force = force, !.began = time, !.asked = n]

LEMMA AskedIs ==
  ASSUME NEW want \in Wants, NEW period \in Periods, NEW force \in Flags, NEW time \in Nat, NEW n \in Nat
  PROVE  LET r == Asked(want, period, force, time, n)
         IN  r \in CallRecords /\ r.period = period /\ r.want = want /\ r.how = "empty" /\ r.rows = {}
BY DEF Asked, NotCalled, CallRecords, Feeds, Hows

LEMMA AskOk ==
  ASSUME CandlesInv, NEW c \in Callers, NEW want \in Wants, NEW period \in Periods, NEW force \in Flags,
         Ask(c, want, period, force)
  PROVE  CandlesInv'
<1>. DEFINE first == Asked(want, period, force, now, calls[c].asked + 1)
<1>1. now \in Nat /\ calls[c].asked + 1 \in Nat
  BY DEF CandlesInv, CallsInv, CallRecords
<1>2. first \in CallRecords /\ first.period = period /\ first.want = want /\ first.how = "empty" /\ first.rows = {}
  BY <1>1, AskedIs
<1>4. IF want = "DHAN" THEN StartOnDhan(c, first) ELSE StartOn(c, first, "YAHOO")
  BY DEF Ask, Asked
<1>5. UNCHANGED now /\ Single({})
  BY DEF Ask, Single
<1>. HIDE DEF first
<1>6. CASE want = "DHAN"
  BY <1>2, <1>4, <1>5, <1>6, StartOnDhanOk
<1>7. CASE want # "DHAN"
  BY <1>2, <1>4, <1>5, <1>7, StartOnOk DEF Wants, Feeds
<1>. QED BY <1>6, <1>7

LEMMA CallingIs ==
  ASSUME CandlesInv, NEW c \in Callers, Calling(c)
  PROVE  /\ now \in Nat /\ calls[c] \in CallRecords /\ calls[c].want \in Wants /\ calls[c].feed \in Feeds
         /\ calls[c].period \in Periods /\ calls[c].began \in Nat /\ calls[c].how = "empty"
         /\ calls[c].want # "AUTO" => calls[c].feed = calls[c].want
         /\ calls[c].began <= now /\ now <= calls[c].began + MaxCall
         /\ calls[c].stale \in SUBSET FeedRows /\ Single(calls[c].stale) /\ Single(calls[c].rows)
         /\ calls[c].stale = {} => \A e \in latest[calls[c].feed] : e.until - RedisTtl >= calls[c].began
BY DEF Calling, CandlesInv, CallsInv, CallOk, CallRecords

LEMMA ReplyRowsOk == ASSUME CandlesInv, NEW c \in Callers, ReplyRows(c) PROVE CandlesInv'
<1>1. Calling(c) /\ UNCHANGED now
  BY DEF ReplyRows
<1>. DEFINE call == calls[c]
<1>2. /\ now \in Nat /\ call \in CallRecords /\ call.feed \in Feeds /\ call.period \in Periods
      /\ call.want # "AUTO" => call.feed = call.want
      /\ call.began \in Nat /\ call.began <= now /\ now <= call.began + MaxCall
  BY <1>1, CallingIs
<1>3. PICK asOf \in call.began .. now :
        LET rows == [feed |-> call.feed, period |-> call.period, asOf |-> asOf]
        IN  /\ Answer(c, call, "remote", {rows})
            /\ KeepInRedis(rows.feed, rows.period, rows)
            /\ saved' = [saved EXCEPT ![rows.feed] = Filed(rows.feed, rows.period, call.began, rows)]
  BY DEF ReplyRows
<1>. DEFINE rows == [feed |-> call.feed, period |-> call.period, asOf |-> asOf]
<1>4. /\ rows \in FeedRows /\ rows.feed = call.feed /\ rows.period = call.period
      /\ rows.asOf <= now /\ now <= rows.asOf + MaxCall /\ call.began <= rows.asOf
  BY <1>2, CandlesAssumption DEF FeedRows
<1>5. /\ Answer(c, call, "remote", {rows})
      /\ KeepInRedis(call.feed, call.period, rows)
      /\ saved' = [saved EXCEPT ![call.feed] = Filed(call.feed, call.period, call.began, rows)]
  BY <1>3
<1>. HIDE DEF call, rows
<1>6. ExactInv' /\ LatestInv' /\ LaterOnly
  BY <1>1, <1>2, <1>4, <1>5, KeepOk DEF LaterOnly
<1>7. CallsInv'
  <2>1. {rows} \in SUBSET AnyRows /\ Single({rows}) /\ "remote" \in Hows
    BY <1>4, FeedRowsAreRows DEF Single, Hows
  <2>2. OwnRows(call, {rows})
    BY <1>2, <1>4, CandlesAssumption DEF OwnRows, FeedRows
  <2>. QED BY <1>1, <1>2, <1>5, <1>6, <2>1, <2>2, AnswerStep
<1>8. SavedInv'
  <2>. DEFINE file == Filed(call.feed, call.period, call.began, rows)
  <2>1. /\ file \in FileStates /\ file.newest = {rows}
        /\ \A x \in file.files :
             \/ x \in saved[call.feed].files
             \/ x.rows = rows /\ x.period = call.period /\ call.began = now
    <3>1. /\ file.newest = {rows}
          /\ file.files = IF call.began # now THEN saved[call.feed].files
                          ELSE {x \in saved[call.feed].files : x.period # call.period}
                                 \cup {[period |-> call.period, rows |-> rows]}
      BY DEF Filed
    <3>2. file = [files |-> file.files, newest |-> file.newest]
      BY DEF Filed
    <3>3. saved[call.feed].files \in SUBSET [period : Periods, rows : FeedRows]
      BY <1>2 DEF CandlesInv, SavedInv, FileStates
    <3>. HIDE DEF file
    <3>4. file.files \in SUBSET [period : Periods, rows : FeedRows] /\ file.newest \in SUBSET FeedRows
      BY <1>2, <1>4, <3>1, <3>3
    <3>. QED BY <1>2, <1>4, <3>1, <3>2, <3>4 DEF FileStates
  <2>. HIDE DEF file
  <2>2. saved' = [saved EXCEPT ![call.feed] = file]
    BY <1>5 DEF file
  <2>3. saved' \in [Feeds -> FileStates]
    BY <1>2, <2>1, <2>2 DEF CandlesInv, SavedInv
  <2>4. ASSUME NEW f \in Feeds
        PROVE  /\ Single(saved'[f].newest)
               /\ \A x \in saved'[f].files : x.rows.feed = f /\ x.rows.period = x.period /\ x.rows.asOf = now
    <3>1. CASE f = call.feed
      <4>1. saved'[f] = file
        BY <2>2, <3>1 DEF CandlesInv, SavedInv
      <4>2. Single(file.newest)
        BY <2>1 DEF Single
      <4>3. ASSUME NEW x \in file.files
            PROVE  x.rows.feed = f /\ x.rows.period = x.period /\ x.rows.asOf = now
        <5>1. CASE x \in saved[call.feed].files
          BY <3>1, <5>1 DEF CandlesInv, SavedInv
        <5>2. CASE x.rows = rows /\ x.period = call.period /\ call.began = now
          BY <1>2, <1>4, <3>1, <5>2 DEF FeedRows
        <5>. QED BY <2>1, <5>1, <5>2
      <4>. QED BY <4>1, <4>2, <4>3
    <3>2. CASE f # call.feed
      <4>1. saved'[f] = saved[f]
        BY <2>2, <3>2 DEF CandlesInv, SavedInv
      <4>. QED BY <4>1 DEF CandlesInv, SavedInv
    <3>. QED BY <3>1, <3>2
  <2>. QED BY <1>1, <2>3, <2>4 DEF SavedInv
<1>. QED BY <1>1, <1>2, <1>6, <1>7, <1>8 DEF CandlesInv

\* An answer that leaves the caches as they are, and is not one of AnswersAreOwn.
LEMMA QuietAnswerOk ==
  ASSUME CandlesInv, UNCHANGED <<now, exact, latest, saved>>, NEW c \in Callers,
         NEW how \in Hows \ {"exact", "file", "remote"}, NEW rows \in SUBSET AnyRows, Single(rows),
         Answer(c, calls[c], how, rows)
  PROVE  CandlesInv'
<1>1. ExactInv' /\ LatestInv' /\ LaterOnly
  BY CachesStay DEF LaterOnly
<1>2. calls[c] \in CallRecords
  BY DEF CandlesInv, CallsInv
<1>3. CallsInv'
  BY <1>1, <1>2, AnswerStep
<1>4. SavedInv'
  BY FilesStay DEF CandlesInv
<1>. QED BY <1>1, <1>3, <1>4 DEF CandlesInv

LEMMA FallBackOk ==
  ASSUME CandlesInv, UNCHANGED <<now, exact, latest, saved>>, NEW c \in Callers, Calling(c), FallBack(c)
  PROVE  CandlesInv'
<1>1. calls[c].stale \in SUBSET FeedRows /\ Single(calls[c].stale) /\ calls[c].period \in Periods
  BY CallingIs
<1>2. CASE Answer(c, calls[c], "stale", calls[c].stale)
  BY <1>1, <1>2, QuietAnswerOk, FeedRowsAreRows DEF Hows
<1>3. CASE Answer(c, calls[c], "csv", {[feed |-> "CSV", period |-> calls[c].period, asOf |-> 0]})
  <2>. DEFINE rows == [feed |-> "CSV", period |-> calls[c].period, asOf |-> 0]
  <2>1. rows \in AnyRows
    BY <1>1 DEF AnyRows
  <2>. HIDE DEF rows
  <2>2. {rows} \in SUBSET AnyRows /\ Single({rows}) /\ "csv" \in Hows \ {"exact", "file", "remote"}
    BY <2>1 DEF Single, Hows
  <2>3. Answer(c, calls[c], "csv", {rows})
    BY <1>3 DEF rows
  <2>. QED BY <2>2, <2>3, QuietAnswerOk
<1>4. CASE Answer(c, calls[c], "failed", {})
  <2>1. {} \in SUBSET AnyRows /\ Single({}) /\ "failed" \in Hows \ {"exact", "file", "remote"}
    BY DEF Single, Hows
  <2>. QED BY <1>4, <2>1, QuietAnswerOk
<1>. QED BY <1>2, <1>3, <1>4 DEF FallBack

LEMMA NextFeedOk ==
  ASSUME CandlesInv, UNCHANGED now, NEW c \in Callers, Calling(c), calls[c].want = "AUTO",
         StartOnDhan(c, calls[c])
  PROVE  CandlesInv'
BY CallingIs, StartOnDhanOk

LEMMA ReplyOk == ASSUME CandlesInv, NEW c \in Callers, Reply(c) PROVE CandlesInv'
<1>1. CASE ReplyRows(c)
  BY <1>1, ReplyRowsOk
<1>2. CASE ReplyFails(c)
  <2>1. Calling(c) /\ UNCHANGED now
    BY <1>2 DEF ReplyFails
  <2>2. CASE calls[c].want = "AUTO" /\ calls[c].feed = "YAHOO"
    BY <1>2, <2>1, <2>2, NextFeedOk DEF ReplyFails
  <2>3. CASE ~(calls[c].want = "AUTO" /\ calls[c].feed = "YAHOO")
    BY <1>2, <2>1, <2>3, FallBackOk DEF ReplyFails
  <2>. QED BY <2>2, <2>3
<1>3. CASE ReplyEmpty(c)
  <2>1. Calling(c) /\ UNCHANGED now
    BY <1>3 DEF ReplyEmpty
  <2>2. CASE calls[c].want = "AUTO" /\ calls[c].feed = "YAHOO"
    BY <1>3, <2>1, <2>2, NextFeedOk DEF ReplyEmpty
  <2>3. CASE ~(calls[c].want = "AUTO" /\ calls[c].feed = "YAHOO")
    <3>1. UNCHANGED <<now, exact, latest, saved>>
      BY <1>3, <2>3 DEF ReplyEmpty
    <3>2. \/ Answer(c, calls[c], "stale", calls[c].stale)
          \/ Answer(c, calls[c], "empty", {})
          \/ FallBack(c)
      BY <1>3, <2>3 DEF ReplyEmpty
    <3>3. CASE Answer(c, calls[c], "stale", calls[c].stale)
      BY <2>1, <3>1, <3>3, QuietAnswerOk, CallingIs, FeedRowsAreRows DEF Hows
    <3>4. CASE Answer(c, calls[c], "empty", {})
      <4>1. {} \in SUBSET AnyRows /\ Single({}) /\ "empty" \in Hows \ {"exact", "file", "remote"}
        BY DEF Single, Hows
      <4>. QED BY <3>1, <3>4, <4>1, QuietAnswerOk
    <3>. QED BY <2>1, <3>1, <3>2, <3>3, <3>4, FallBackOk
  <2>. QED BY <2>2, <2>3
<1>. QED BY <1>1, <1>2, <1>3 DEF Reply

-----------------------------------------------------------------------------
(* Time, and the loss of what is kept *)

LEMMA TickOk == ASSUME CandlesInv, Tick PROVE CandlesInv'
<1>1. now \in Nat /\ now' = now + 1 /\ UNCHANGED calls
  BY DEF CandlesInv, Tick
<1>2. ASSUME NEW e \in Entries, EntryOk(e), now + 1 < e.until PROVE EntryOk(e)'
  BY <1>1, <1>2, CandlesAssumption DEF EntryOk, Entries, FeedRows
<1>3. ExactInv'
  <2>1. exact' = [key \in Feeds \X Periods |-> {e \in exact[key] : now + 1 < e.until}]
    BY DEF Tick
  <2>2. exact' \in [Feeds \X Periods -> SUBSET Entries]
    BY <2>1 DEF CandlesInv, ExactInv
  <2>3. ASSUME NEW f \in Feeds, NEW p \in Periods, NEW e \in exact'[<<f, p>>]
        PROVE  EntryOk(e)' /\ e.rows.feed = f /\ e.rows.period = p
    <3>1. e \in exact[<<f, p>>] /\ now + 1 < e.until
      BY <2>1
    <3>2. e \in Entries /\ EntryOk(e) /\ e.rows.feed = f /\ e.rows.period = p
      BY <3>1 DEF CandlesInv, ExactInv
    <3>. QED BY <1>2, <3>1, <3>2
  <2>. QED BY <2>2, <2>3 DEF ExactInv
<1>4. LatestInv' /\ \A f \in Feeds : latest'[f] \subseteq latest[f]
  <2>1. latest' = [feed \in Feeds |-> {e \in latest[feed] : now + 1 < e.until}]
    BY DEF Tick
  <2>2. latest' \in [Feeds -> SUBSET Entries]
    BY <2>1 DEF CandlesInv, LatestInv
  <2>3. ASSUME NEW f \in Feeds PROVE latest'[f] \subseteq latest[f] /\ Single(latest'[f])
    BY <2>1 DEF CandlesInv, LatestInv, Single
  <2>4. ASSUME NEW f \in Feeds, NEW e \in latest'[f] PROVE EntryOk(e)'
    <3>1. e \in latest[f] /\ now + 1 < e.until
      BY <2>1
    <3>2. e \in Entries /\ EntryOk(e)
      BY <3>1 DEF CandlesInv, LatestInv
    <3>. QED BY <1>2, <3>1, <3>2
  <2>. QED BY <2>2, <2>3, <2>4 DEF LatestInv, Single
<1>5. SavedInv'
  <2>1. saved' = [feed \in Feeds |-> [saved[feed] EXCEPT !.files = {}]]
    BY DEF Tick
  <2>2. ASSUME NEW f \in Feeds
        PROVE  saved'[f] \in FileStates /\ saved'[f].newest = saved[f].newest /\ saved'[f].files = {}
    BY <2>1 DEF CandlesInv, SavedInv, FileStates
  <2>3. saved' \in [Feeds -> FileStates]
    BY <2>1, <2>2
  <2>. QED BY <2>2, <2>3 DEF CandlesInv, SavedInv
<1>6. CallsInv'
  <2>1. ASSUME NEW d \in Callers PROVE CallOk(calls[d], latest)'
    <3>1. calls[d] \in CallRecords /\ CallOk(calls[d], latest)
      BY DEF CandlesInv, CallsInv
    <3>2. calls[d].phase = "calling" => now - calls[d].began < MaxCall
      BY DEF Tick, Calling
    <3>3. calls[d].feed \in Feeds /\ calls[d].began \in Nat
      BY <3>1 DEF CallRecords
    <3>. QED BY <1>1, <1>4, <3>1, <3>2, <3>3, CandlesAssumption DEF CallOk
  <2>. QED BY <1>1, <2>1 DEF CandlesInv, CallsInv, AnswerOk, Single
<1>. QED BY <1>1, <1>3, <1>4, <1>5, <1>6 DEF CandlesInv

LEMMA RedisLostOk == ASSUME CandlesInv, RedisLost PROVE CandlesInv'
<1>1. /\ exact' = [key \in Feeds \X Periods |-> {}] /\ latest' = [feed \in Feeds |-> {}]
      /\ UNCHANGED <<now, saved, calls>>
  BY DEF RedisLost
<1>2. ExactInv' /\ LatestInv' /\ LaterOnly
  BY <1>1 DEF ExactInv, LatestInv, Single, LaterOnly
<1>. QED BY <1>1, <1>2, CallsStay, FilesStay DEF CandlesInv

LEMMA CandlesUnchanged == ASSUME CandlesInv, UNCHANGED candleVars PROVE CandlesInv'
BY NowStays DEF CandlesInv, candleVars, ExactInv, LatestInv, SavedInv, CallsInv, CallOk, AnswerOk, Single

LEMMA CandlesInitOk == CandlesInit => CandlesInv
<1> SUFFICES ASSUME CandlesInit PROVE CandlesInv
  OBVIOUS
<1>1. ExactInv /\ LatestInv
  BY DEF CandlesInit, ExactInv, LatestInv, Single
<1>2. SavedInv
  <2>1. [files |-> {}, newest |-> {}] \in FileStates
    BY DEF FileStates
  <2>. QED BY <2>1 DEF CandlesInit, SavedInv, Single
<1>3. CallsInv
  <2>1. \A c \in Callers : calls[c] = NotCalled
    BY DEF CandlesInit
  <2>2. CallOk(NotCalled, latest) /\ AnswerOk(NotCalled) /\ Single(NotCalled.stale) /\ Single(NotCalled.rows)
    BY DEF NotCalled, CallOk, AnswerOk, Single
  <2>. QED BY <2>1, <2>2, NotCalledOk DEF CandlesInit, CallsInv
<1>. QED BY <1>1, <1>2, <1>3 DEF CandlesInit, CandlesInv

LEMMA CandlesNextOk == ASSUME CandlesInv, CandlesNext PROVE CandlesInv'
<1>1. ASSUME NEW c \in Callers, NEW ask \in Asks, ask[1] = c, Ask(c, ask[2], ask[3], ask[4])
      PROVE  CandlesInv'
  <2>1. ask[2] \in Wants /\ ask[3] \in Periods /\ ask[4] \in Flags
    BY CandlesAssumption DEF Wants, Feeds, Flags
  <2>. QED BY <1>1, <2>1, AskOk
<1>. QED BY <1>1, TickOk, RedisLostOk, ReplyOk DEF CandlesNext

-----------------------------------------------------------------------------
(* Requests for signals *)

LEMMA NotRunOk == NotRun \in RequestRecords
<1>1. "none" \in Served
  BY DEF Served
<1>. QED BY <1>1 DEF NotRun, RequestRecords

\* While only time passes, or candles are asked for, the rest stays as it is.
LEMMA SignalsStay ==
  ASSUME SignalsInv, now \in Nat, now' \in Nat, now' >= now, UNCHANGED <<openUntil, requests>>,
         frames30' \subseteq frames30, results' \subseteq results
  PROVE  SignalsInv'
<1>1. FramesInv' /\ ResultsInv'
  BY DEF SignalsInv, FramesInv, ResultsInv
<1>2. CircuitInv'
  BY DEF SignalsInv, CircuitInv
<1>3. \A c \in Callers : requests[c].began <= now'
  BY DEF SignalsInv, RequestsInv, RequestRecords
<1>. QED BY <1>1, <1>2, <1>3 DEF SignalsInv, RequestsInv, SignalsNotOld

\* An answer to a request, no older than the caches allow.
LEMMA ServeOk ==
  ASSUME SignalsInv, now \in Nat, UNCHANGED now, NEW c \in Callers, NEW how \in Served, NEW bar \in Nat, NEW n \in Nat,
         Serve(c, how, bar, n),
         how \in {"result", "frame", "provider"} => now - bar <= StaleAfter + FrameTtl + ResultTtl
  PROVE  /\ RequestsInv'
         /\ \A d \in Callers : requests'[d].phase = "fetching" => requests'[d] = requests[d]
<1>. DEFINE r == [NotRun EXCEPT !.how = how, !.bar = bar, !.served = now, !.asked = n]
<1>1. /\ r \in RequestRecords /\ r.how = how /\ r.bar = bar /\ r.served = now /\ r.phase = "done" /\ r.began = 0
  BY DEF NotRun, RequestRecords
<1>2. requests' = [requests EXCEPT ![c] = r]
  BY DEF Serve
<1>. HIDE DEF r
<1>3. requests \in [Callers -> RequestRecords] /\ requests' \in [Callers -> RequestRecords]
  BY <1>1, <1>2 DEF SignalsInv, RequestsInv
<1>4. requests'[c] = r /\ \A d \in Callers \ {c} : requests'[d] = requests[d]
  BY <1>2, <1>3
<1>5. ASSUME NEW d \in Callers, requests'[d].how \in {"result", "frame", "provider"}
      PROVE  requests'[d].served - requests'[d].bar <= StaleAfter + FrameTtl + ResultTtl
  <2>1. CASE d = c
    BY <1>1, <1>4, <1>5, <2>1
  <2>2. CASE d # c
    BY <1>4, <1>5, <2>2 DEF SignalsInv, RequestsInv, SignalsNotOld
  <2>. QED BY <2>1, <2>2
<1>6. \A d \in Callers : requests'[d].began <= now
  BY <1>1, <1>3, <1>4 DEF SignalsInv, RequestsInv
<1>. QED BY <1>1, <1>3, <1>4, <1>5, <1>6 DEF RequestsInv, SignalsNotOld

LEMMA CircuitKept ==
  ASSUME CircuitInv, UNCHANGED <<now, openUntil>>,
         \A d \in Callers : requests'[d].phase = "fetching" => requests'[d] = requests[d]
  PROVE  CircuitInv'
BY DEF CircuitInv

\* What a batch is cached with is not older than a frame may be.
LEMMA StoreOk ==
  ASSUME SignalsInv, now \in Nat, NEW bar \in Nat, now - bar <= StaleAfter + FrameTtl, StoreResult(bar)
  PROVE  ResultsInv'
<1>1. CASE ResultTtl <= 0
  BY <1>1 DEF StoreResult, ResultsInv
<1>2. CASE ~(ResultTtl <= 0)
  <2>1. results' = {[bar |-> bar, until |-> now + ResultTtl]}
    BY <1>2 DEF StoreResult
  <2>2. now + ResultTtl \in Nat /\ now + ResultTtl <= bar + StaleAfter + FrameTtl + ResultTtl
    BY AgesAssumption
  <2>. QED BY <2>1, <2>2 DEF ResultsInv
<1>. QED BY <1>1, <1>2

LEMMA CountOk ==
  ASSUME SignalsInv, NEW c \in Callers
  PROVE  requests[c] \in RequestRecords /\ requests[c].asked + 1 \in Nat /\ requests[c].asked \in Nat
BY DEF SignalsInv, RequestsInv, RequestRecords

LEMMA AttemptOk == ASSUME CandlesInv, NEW c \in Callers, Attempt(c) PROVE CandlesInv' /\ UNCHANGED now
<1>1. "YAHOO" \in Wants /\ 1 \in Periods /\ FALSE \in Flags
  BY AgesAssumption DEF Wants, Feeds, Flags
<1>2. UNCHANGED now
  BY DEF Attempt, Ask
<1>. QED BY <1>1, <1>2, AskOk DEF Attempt

LEMMA RunSignalsOk == ASSUME MarketInv, NEW c \in Callers, RunSignals(c) PROVE MarketInv'
<1>. DEFINE n == requests[c].asked + 1
<1>1. CandlesInv /\ SignalsInv /\ now \in Nat /\ n \in Nat
  BY CountOk DEF MarketInv, CandlesInv
<1>2. UNCHANGED <<frames30, openUntil>>
  BY DEF RunSignals
<1>3. \/ /\ \E bar \in ResultKept : Serve(c, "result", bar, n)
         /\ UNCHANGED <<candleVars, results>>
      \/ /\ \E bar \in FrameKept : Serve(c, "frame", bar, n) /\ StoreResult(bar)
         /\ UNCHANGED candleVars
      \/ /\ Serve(c, "refused", 0, n)
         /\ UNCHANGED <<candleVars, results>>
      \/ /\ ~Broken
         /\ requests' = [requests EXCEPT ![c] = [NotRun EXCEPT !.phase = "fetching", !.attempt = 1, !.began = now,
                                                       !.asked = n]]
         /\ Attempt(c)
         /\ UNCHANGED results
  BY DEF RunSignals
<1>. HIDE DEF n
<1>4. FramesInv'
  BY <1>1, <1>2 DEF SignalsInv, FramesInv
<1>5. ASSUME NEW bar \in ResultKept, Serve(c, "result", bar, n), UNCHANGED <<candleVars, results>>
      PROVE  MarketInv'
  <2>1. PICK e \in results : now < e.until /\ bar = e.bar
    BY DEF ResultKept
  <2>2. bar \in Nat /\ now - bar <= StaleAfter + FrameTtl + ResultTtl
    BY <1>1, <2>1, AgesAssumption DEF SignalsInv, ResultsInv
  <2>3. UNCHANGED now /\ CandlesInv' /\ ResultsInv'
    BY <1>1, <1>5, CandlesUnchanged DEF candleVars, SignalsInv, ResultsInv
  <2>4. /\ RequestsInv'
        /\ \A d \in Callers : requests'[d].phase = "fetching" => requests'[d] = requests[d]
    BY <1>1, <1>5, <2>2, <2>3, ServeOk DEF Served
  <2>5. CircuitInv'
    BY <1>1, <1>2, <2>3, <2>4, CircuitKept DEF SignalsInv
  <2>. QED BY <1>4, <2>3, <2>4, <2>5 DEF MarketInv, SignalsInv
<1>6. ASSUME NEW bar \in FrameKept, Serve(c, "frame", bar, n), StoreResult(bar), UNCHANGED candleVars
      PROVE  MarketInv'
  <2>1. PICK e \in frames30 : now <= e.until /\ bar = e.bar
    BY DEF FrameKept
  <2>2. bar \in Nat /\ now - bar <= StaleAfter + FrameTtl /\ now - bar <= StaleAfter + FrameTtl + ResultTtl
    BY <1>1, <2>1, AgesAssumption DEF SignalsInv, FramesInv
  <2>3. UNCHANGED now /\ CandlesInv'
    BY <1>1, <1>6, CandlesUnchanged DEF candleVars
  <2>4. ResultsInv'
    BY <1>1, <1>6, <2>2, StoreOk
  <2>5. /\ RequestsInv'
        /\ \A d \in Callers : requests'[d].phase = "fetching" => requests'[d] = requests[d]
    BY <1>1, <1>6, <2>2, <2>3, ServeOk DEF Served
  <2>6. CircuitInv'
    BY <1>1, <1>2, <2>3, <2>5, CircuitKept DEF SignalsInv
  <2>. QED BY <1>4, <2>3, <2>4, <2>5, <2>6 DEF MarketInv, SignalsInv
<1>7. ASSUME Serve(c, "refused", 0, n), UNCHANGED <<candleVars, results>>
      PROVE  MarketInv'
  <2>1. UNCHANGED now /\ CandlesInv' /\ ResultsInv'
    BY <1>1, <1>7, CandlesUnchanged DEF candleVars, SignalsInv, ResultsInv
  <2>2. /\ RequestsInv'
        /\ \A d \in Callers : requests'[d].phase = "fetching" => requests'[d] = requests[d]
    BY <1>1, <1>7, <2>1, ServeOk DEF Served
  <2>3. CircuitInv'
    BY <1>1, <1>2, <2>1, <2>2, CircuitKept DEF SignalsInv
  <2>. QED BY <1>4, <2>1, <2>2, <2>3 DEF MarketInv, SignalsInv
<1>8. ASSUME ~Broken, Attempt(c), UNCHANGED results,
             requests' = [requests EXCEPT ![c] = [NotRun EXCEPT !.phase = "fetching", !.attempt = 1, !.began = now,
                                                       !.asked = n]]
      PROVE  MarketInv'
  <2>. DEFINE r == [NotRun EXCEPT !.phase = "fetching", !.attempt = 1, !.began = now, !.asked = n]
  <2>1. CandlesInv' /\ UNCHANGED now
    BY <1>1, <1>8, AttemptOk
  <2>2. r \in RequestRecords /\ r.how = "none" /\ r.began = now
    BY <1>1 DEF NotRun, RequestRecords, Served
  <2>3. requests' = [requests EXCEPT ![c] = r]
    BY <1>8
  <2>. HIDE DEF r
  <2>4. RequestsInv'
    <3>1. ASSUME NEW d \in Callers
          PROVE  requests'[d] = r \/ requests'[d] = requests[d]
      BY <1>1, <2>3 DEF SignalsInv, RequestsInv
    <3>2. requests' \in [Callers -> RequestRecords]
      BY <1>1, <2>2, <2>3 DEF SignalsInv, RequestsInv
    <3>3. SignalsNotOld'
      BY <1>1, <2>2, <3>1 DEF SignalsInv, RequestsInv, SignalsNotOld
    <3>4. \A d \in Callers : requests'[d].began <= now'
      BY <1>1, <2>1, <2>2, <3>1 DEF SignalsInv, RequestsInv
    <3>. QED BY <3>2, <3>3, <3>4 DEF RequestsInv
  <2>5. CircuitInv' /\ ResultsInv'
    BY <1>1, <1>2, <1>8, <2>1 DEF SignalsInv, CircuitInv, Broken, ResultsInv
  <2>. QED BY <1>4, <2>1, <2>4, <2>5 DEF MarketInv, SignalsInv
<1>. QED BY <1>3, <1>5, <1>6, <1>7, <1>8

LEMMA SucceedOk == ASSUME MarketInv, NEW c \in Callers, Succeed(c) PROVE MarketInv'
<1>1. CandlesInv /\ SignalsInv /\ now \in Nat /\ requests[c].asked \in Nat
  BY CountOk DEF MarketInv, CandlesInv
<1>2. CandlesInv' /\ UNCHANGED now /\ openUntil' = 0
  BY <1>1, CandlesUnchanged DEF Succeed, candleVars
<1>3. PICK rows \in calls[c].rows :
        /\ frames30' = {[bar |-> rows.asOf, until |-> now + FrameTtl]}
        /\ StoreResult(rows.asOf)
        /\ Serve(c, "provider", rows.asOf, requests[c].asked)
  BY DEF Succeed
<1>4. now - rows.asOf <= StaleAfter /\ rows.asOf \in Nat
  <2>1. calls[c].rows \in SUBSET AnyRows /\ Single(calls[c].rows)
    BY <1>1 DEF CandlesInv, CallsInv, CallRecords
  <2>2. PICK usable \in calls[c].rows : now - usable.asOf <= StaleAfter
    BY DEF Succeed, Usable
  <2>. QED BY <2>1, <2>2 DEF Single, AnyRows, FeedRows
<1>. DEFINE bar == rows.asOf
<1>5. now - bar <= StaleAfter + FrameTtl /\ now - bar <= StaleAfter + FrameTtl + ResultTtl
  BY <1>1, <1>4, AgesAssumption
<1>6. FramesInv'
  <2>1. now + FrameTtl \in Nat /\ now + FrameTtl <= bar + StaleAfter + FrameTtl
    BY <1>1, <1>4, AgesAssumption
  <2>. QED BY <1>3, <1>4, <2>1 DEF FramesInv
<1>7. ResultsInv'
  BY <1>1, <1>3, <1>4, <1>5, StoreOk
<1>8. RequestsInv'
  BY <1>1, <1>2, <1>3, <1>4, <1>5, ServeOk DEF Served
<1>9. CircuitInv'
  BY <1>1, <1>2 DEF CircuitInv
<1>. QED BY <1>2, <1>6, <1>7, <1>8, <1>9 DEF MarketInv, SignalsInv

LEMMA RetryOk == ASSUME MarketInv, NEW c \in Callers, Retry(c) PROVE MarketInv'
<1>1. CandlesInv /\ SignalsInv /\ now \in Nat /\ requests[c] \in RequestRecords
  BY CountOk DEF MarketInv, CandlesInv
<1>2. CandlesInv' /\ UNCHANGED now
  BY <1>1, AttemptOk DEF Retry
<1>3. openUntil' = 0 /\ UNCHANGED <<results, frames30>>
  BY DEF Retry
<1>4. RequestsInv'
  <2>1. requests' = [requests EXCEPT ![c].attempt = @ + 1]
    BY DEF Retry
  <2>2. requests' \in [Callers -> RequestRecords]
    BY <1>1, <2>1 DEF SignalsInv, RequestsInv, RequestRecords
  <2>3. \A d \in Callers : /\ requests'[d].how = requests[d].how /\ requests'[d].served = requests[d].served
                           /\ requests'[d].bar = requests[d].bar /\ requests'[d].began = requests[d].began
    BY <1>1, <2>1 DEF SignalsInv, RequestsInv, RequestRecords
  <2>. QED BY <1>1, <1>2, <2>2, <2>3 DEF SignalsInv, RequestsInv, SignalsNotOld
<1>5. CircuitInv' /\ FramesInv' /\ ResultsInv'
  BY <1>1, <1>2, <1>3 DEF CircuitInv, SignalsInv, FramesInv, ResultsInv
<1>. QED BY <1>2, <1>4, <1>5 DEF MarketInv, SignalsInv

LEMMA GiveUpOk == ASSUME MarketInv, NEW c \in Callers, GiveUp(c) PROVE MarketInv'
<1>1. CandlesInv /\ SignalsInv /\ now \in Nat /\ requests[c].asked \in Nat
  BY CountOk DEF MarketInv, CandlesInv
<1>2. CandlesInv' /\ UNCHANGED <<now, results, frames30>>
  BY <1>1, CandlesUnchanged DEF GiveUp, candleVars
<1>3. /\ RequestsInv'
      /\ \A d \in Callers : requests'[d].phase = "fetching" => requests'[d] = requests[d]
  BY <1>1, <1>2, ServeOk DEF Served, GiveUp
<1>4. FramesInv' /\ ResultsInv'
  BY <1>1, <1>2 DEF SignalsInv, FramesInv, ResultsInv
<1>5. CircuitInv'
  <2>1. openUntil' = now + BreakTime /\ now' = now
    BY <1>2 DEF GiveUp
  <2>2. \A d \in Callers : requests'[d].phase = "fetching" => requests'[d].began <= now /\ requests[d].began \in Nat
    BY <1>1, <1>3 DEF SignalsInv, RequestsInv, RequestRecords
  <2>. QED BY <1>1, <1>3, <2>1, <2>2, AgesAssumption DEF CircuitInv, RequestsInv, RequestRecords
<1>. QED BY <1>2, <1>3, <1>4, <1>5 DEF MarketInv, SignalsInv

-----------------------------------------------------------------------------
(* The invariant *)

LEMMA MarketInitOk == CandlesInit /\ ProductionInit => MarketInv
<1> SUFFICES ASSUME CandlesInit, ProductionInit PROVE MarketInv
  OBVIOUS
<1>1. CandlesInv /\ now = 0
  BY CandlesInitOk DEF CandlesInit
<1>2. FramesInv /\ ResultsInv /\ CircuitInv
  BY <1>1 DEF ProductionInit, FramesInv, ResultsInv, CircuitInv
<1>3. RequestsInv
  <2>1. \A c \in Callers : requests[c] = NotRun
    BY DEF ProductionInit
  <2>2. NotRun.how = "none" /\ NotRun.began = 0
    BY DEF NotRun
  <2>. QED BY <1>1, <2>1, <2>2, NotRunOk DEF ProductionInit, RequestsInv, SignalsNotOld
<1>. QED BY <1>1, <1>2, <1>3 DEF MarketInv, SignalsInv

LEMMA MarketStaysOk ==
  ASSUME MarketInv, UNCHANGED <<candleVars, productionVars>>
  PROVE  MarketInv'
<1>1. CandlesInv' /\ now \in Nat /\ now' = now
  BY CandlesUnchanged DEF MarketInv, CandlesInv, candleVars
<1>. QED BY <1>1, SignalsStay DEF MarketInv, productionVars

LEMMA CandlesStepOk ==
  ASSUME MarketInv, CandlesInv', now' >= now, UNCHANGED productionVars
  PROVE  MarketInv'
BY SignalsStay DEF MarketInv, CandlesInv, productionVars

\* The clock of the candles never goes back.
LEMMA ClockOk ==
  ASSUME CandlesInv, CandlesNext PROVE now' >= now
<1>1. now \in Nat
  BY DEF CandlesInv
<1>2. Tick => now' = now + 1
  BY DEF Tick
<1>3. \A c \in Callers : Reply(c) => now' = now
  BY DEF Reply, ReplyRows, ReplyFails, ReplyEmpty
<1>4. \A c \in Callers, ask \in Asks : Ask(c, ask[2], ask[3], ask[4]) => now' = now
  BY DEF Ask
<1>5. RedisLost => now' = now
  BY DEF RedisLost
<1>. QED BY <1>1, <1>2, <1>3, <1>4, <1>5 DEF CandlesNext

LEMMA MarketNextOk == ASSUME MarketInv, MarketNext PROVE MarketInv'
<1>1. CandlesInv /\ SignalsInv /\ now \in Nat
  BY DEF MarketInv, CandlesInv
<1>2. ASSUME Tick, Expire, UNCHANGED <<openUntil, requests>> PROVE MarketInv'
  <2>1. CandlesInv' /\ now' \in Nat /\ now' >= now
    BY <1>1, <1>2, TickOk DEF CandlesInv, Tick
  <2>2. frames30' \subseteq frames30 /\ results' \subseteq results
    BY <1>2 DEF Expire
  <2>. QED BY <1>1, <1>2, <2>1, <2>2, SignalsStay DEF MarketInv
<1>3. ASSUME NEW c \in Callers, Reply(c), UNCHANGED productionVars PROVE MarketInv'
  <2>1. CandlesNext
    BY <1>3 DEF CandlesNext
  <2>. QED BY <1>1, <1>3, <2>1, CandlesNextOk, ClockOk, CandlesStepOk
<1>4. ASSUME CandlesNext, UNCHANGED productionVars PROVE MarketInv'
  BY <1>1, <1>4, CandlesNextOk, ClockOk, CandlesStepOk
<1>. QED BY <1>2, <1>3, <1>4, RunSignalsOk, SucceedOk, RetryOk, GiveUpOk DEF MarketNext, ProductionNext

-----------------------------------------------------------------------------
(* The steps of the candles *)

\* What a step of the market does to candles, whoever takes it.
CandleStep ==
  \/ Tick \/ RedisLost
  \/ \E c \in Callers :
       \/ \E want \in Wants, period \in Periods, force \in Flags : Ask(c, want, period, force)
       \/ Reply(c)

LEMMA CandlesNextSteps == CandlesNext => CandleStep
<1>1. ASSUME NEW c \in Callers, NEW ask \in Asks, Ask(c, ask[2], ask[3], ask[4]) PROVE CandleStep
  <2>1. ask[2] \in Wants /\ ask[3] \in Periods /\ ask[4] \in Flags
    BY CandlesAssumption DEF Wants, Feeds, Flags
  <2>. QED BY <1>1, <2>1 DEF CandleStep
<1>2. (\E c \in Callers : Reply(c)) => CandleStep
  BY DEF CandleStep
<1>3. Tick \/ RedisLost => CandleStep
  BY DEF CandleStep
<1>. QED BY <1>1, <1>2, <1>3 DEF CandlesNext

LEMMA MarketSteps == MarketNext => CandleStep \/ UNCHANGED candleVars
<1>1. ASSUME NEW c \in Callers, Attempt(c) PROVE CandleStep
  <2>1. "YAHOO" \in Wants /\ 1 \in Periods /\ FALSE \in Flags
    BY AgesAssumption DEF Wants, Feeds, Flags
  <2>. QED BY <1>1, <2>1 DEF Attempt, CandleStep
<1>2. ASSUME NEW c \in Callers, RunSignals(c) PROVE CandleStep \/ UNCHANGED candleVars
  BY <1>1, <1>2 DEF RunSignals
<1>3. ASSUME NEW c \in Callers, Succeed(c) \/ Retry(c) \/ GiveUp(c) PROVE CandleStep \/ UNCHANGED candleVars
  BY <1>1, <1>3 DEF Succeed, Retry, GiveUp
<1>4. (\E c \in Callers : Reply(c)) => CandleStep
  BY DEF CandleStep
<1>5. Tick => CandleStep
  BY DEF CandleStep
<1>. QED BY <1>2, <1>3, <1>4, <1>5, CandlesNextSteps DEF MarketNext, ProductionNext

-----------------------------------------------------------------------------
(* What a step keeps *)

LEMMA KeptLater ==
  ASSUME CandlesInv, NEW feed \in Feeds, NEW period, NEW rows, KeepInRedis(feed, period, rows)
  PROVE  LaterOnly
<1>1. Entry(rows) = {[rows |-> rows, until |-> now + RedisTtl]}
  BY DEF Entry
<1>2. latest' = [latest EXCEPT ![feed] = Entry(rows)]
  BY DEF KeepInRedis
<1>3. ASSUME NEW f \in Feeds, NEW e \in latest'[f] PROVE e \in latest[f] \/ e.until = now + RedisTtl
  BY <1>1, <1>2 DEF CandlesInv, LatestInv
<1>. QED BY <1>3 DEF LaterOnly

LEMMA NothingLater == ASSUME UNCHANGED latest PROVE LaterOnly
BY DEF LaterOnly

LEMMA StartOnLater ==
  ASSUME CandlesInv, NEW c, NEW asked, NEW feed \in Feeds, StartOn(c, asked, feed)
  PROVE  LaterOnly
<1>1. \/ UNCHANGED latest
      \/ \E period, rows : KeepInRedis(feed, period, rows)
  BY DEF StartOn
<1>. QED BY <1>1, KeptLater, NothingLater

LEMMA StartOnDhanLater ==
  ASSUME CandlesInv, NEW c, NEW asked, StartOnDhan(c, asked) PROVE LaterOnly
BY StartOnLater, NothingLater DEF StartOnDhan, Feeds

LEMMA StepLater == ASSUME CandlesInv, CandleStep PROVE LaterOnly
<1>1. ASSUME Tick \/ RedisLost PROVE LaterOnly
  BY <1>1 DEF Tick, RedisLost, LaterOnly
<1>2. ASSUME NEW c \in Callers, NEW want \in Wants, NEW period \in Periods, NEW force \in Flags,
             Ask(c, want, period, force)
      PROVE  LaterOnly
  BY <1>2, StartOnLater, StartOnDhanLater DEF Ask, Feeds
<1>3. ASSUME NEW c \in Callers, ReplyRows(c) PROVE LaterOnly
  <2>1. PICK rows : KeepInRedis(calls[c].feed, rows.period, rows)
    BY <1>3 DEF ReplyRows
  <2>. QED BY <1>3, <2>1, CallingIs, KeptLater DEF ReplyRows
<1>4. ASSUME NEW c \in Callers, ReplyFails(c) \/ ReplyEmpty(c) PROVE LaterOnly
  BY <1>4, StartOnDhanLater, NothingLater DEF ReplyFails, ReplyEmpty
<1>. QED BY <1>1, <1>2, <1>3, <1>4 DEF CandleStep, Reply

\* What is kept anew was new when the call of it began: at most that long before now.
LEMMA NeverFarBack ==
  ASSUME CandlesInv, CandlesInv', CandleStep
  PROVE  \A feed \in Feeds : \A old \in latest[feed], new \in latest'[feed] :
           new.rows.asOf >= old.rows.asOf - MaxCall
<1>1. TAKE feed \in Feeds
<1>2. TAKE old \in latest[feed], new \in latest'[feed]
<1>3. old \in Entries /\ EntryOk(old) /\ now \in Nat /\ Single(latest[feed])
  BY DEF CandlesInv, LatestInv
<1>4. new \in Entries /\ EntryOk(new)'
  BY DEF CandlesInv, LatestInv
<1>5. CASE new \in latest[feed]
  BY <1>3, <1>5, CandlesAssumption DEF Single, Entries, FeedRows
<1>6. CASE new \notin latest[feed]
  <2>1. new.until = now + RedisTtl
    BY <1>6, StepLater DEF LaterOnly
  <2>. QED BY <1>3, <1>4, <2>1, CandlesAssumption DEF EntryOk, Entries, FeedRows
<1>. QED BY <1>5, <1>6

-----------------------------------------------------------------------------
(* Failures *)

\* What a step answers to the callers it is not about.
OthersWait(c) == \A d \in Callers \ {c} : calls'[d] = calls[d]

\* Only who has nothing to fall back on is told of the failure.
HasNothing(c) == calls'[c].how = "failed" => calls[c].stale = {}

LEMMA AnswerTells ==
  ASSUME CandlesInv, NEW c \in Callers, NEW call, NEW how, NEW rows, Answer(c, call, how, rows)
  PROVE  calls'[c].how = how /\ OthersWait(c)
<1>1. calls' = [calls EXCEPT ![c] = Answered(call, how, rows)]
  BY DEF Answer
<1>2. calls'[c] = Answered(call, how, rows) /\ OthersWait(c)
  BY <1>1 DEF CandlesInv, CallsInv, OthersWait
<1>3. Answered(call, how, rows).how = how
  BY DEF Answered, NotCalled
<1>. QED BY <1>2, <1>3

LEMMA StartOnTells ==
  ASSUME CandlesInv, NEW c \in Callers, NEW asked \in CallRecords, asked.how = "empty", NEW feed \in Feeds,
         StartOn(c, asked, feed)
  PROVE  calls'[c].how # "failed" /\ OthersWait(c)
<1>. DEFINE call == [asked EXCEPT !.feed = feed]
            start == [call EXCEPT !.phase = "calling", !.began = now, !.stale = Stale(feed)]
<1>1. \/ \E rows : Answer(c, call, "exact", {rows})
      \/ \E rows : Answer(c, call, "file", {rows})
      \/ calls' = [calls EXCEPT ![c] = start]
  BY DEF StartOn
<1>2. start.how = "empty"
  BY DEF CallRecords
<1>. HIDE DEF call, start
<1>3. CASE calls' = [calls EXCEPT ![c] = start]
  BY <1>2, <1>3 DEF CandlesInv, CallsInv, OthersWait
<1>4. ASSUME NEW how \in {"exact", "file"}, NEW rows, Answer(c, call, how, {rows})
      PROVE  calls'[c].how # "failed" /\ OthersWait(c)
  BY <1>4, AnswerTells
<1>. QED BY <1>1, <1>3, <1>4

LEMMA StartOnDhanTells ==
  ASSUME CandlesInv, NEW c \in Callers, NEW asked \in CallRecords, asked.how = "empty", StartOnDhan(c, asked)
  PROVE  calls'[c].how # "failed" /\ OthersWait(c)
BY StartOnTells, AnswerTells DEF StartOnDhan, Feeds

LEMMA FallBackTells ==
  ASSUME CandlesInv, NEW c \in Callers, FallBack(c)
  PROVE  HasNothing(c) /\ OthersWait(c)
BY AnswerTells DEF FallBack, HasNothing

LEMMA ReplyTells ==
  ASSUME CandlesInv, NEW c \in Callers, Reply(c)
  PROVE  HasNothing(c) /\ OthersWait(c)
<1>1. Calling(c)
  BY DEF Reply, ReplyRows, ReplyFails, ReplyEmpty
<1>2. calls[c] \in CallRecords /\ calls[c].how = "empty"
  BY <1>1, CallingIs
<1>3. CASE ReplyRows(c)
  <2>1. \E rows : Answer(c, calls[c], "remote", {rows})
    BY <1>3 DEF ReplyRows
  <2>. QED BY <2>1, AnswerTells DEF HasNothing
<1>4. CASE ReplyFails(c)
  BY <1>2, <1>4, StartOnDhanTells, FallBackTells DEF ReplyFails, HasNothing
<1>5. CASE ReplyEmpty(c)
  <2>1. \/ StartOnDhan(c, calls[c])
        \/ Answer(c, calls[c], "stale", calls[c].stale)
        \/ Answer(c, calls[c], "empty", {})
        \/ FallBack(c)
    BY <1>5 DEF ReplyEmpty
  <2>. QED BY <1>2, <2>1, StartOnDhanTells, FallBackTells, AnswerTells DEF HasNothing
<1>. QED BY <1>3, <1>4, <1>5 DEF Reply

LEMMA FailedOk ==
  ASSUME CandlesInv, CandleStep
  PROVE  \A c \in Callers :
           Calling(c) /\ calls'[c].how = "failed" =>
             \A entry \in latest[calls[c].feed] : entry.until - RedisTtl >= calls[c].began
<1> SUFFICES ASSUME NEW c \in Callers, Calling(c), calls'[c].how = "failed" PROVE calls[c].stale = {}
  BY CallingIs
<1>1. calls[c].how = "empty" /\ calls'[c] # calls[c]
  BY CallingIs
<1>2. CASE Tick \/ RedisLost
  BY <1>1, <1>2 DEF Tick, RedisLost
<1>3. ASSUME NEW d \in Callers, NEW want \in Wants, NEW period \in Periods, NEW force \in Flags,
             Ask(d, want, period, force)
      PROVE  FALSE
  <2>. DEFINE first == Asked(want, period, force, now, calls[d].asked + 1)
  <2>1. now \in Nat /\ calls[d].asked + 1 \in Nat /\ d # c
    BY <1>3 DEF CandlesInv, CallsInv, CallRecords, Ask, Calling
  <2>2. first \in CallRecords /\ first.period = period /\ first.want = want /\ first.how = "empty" /\ first.rows = {}
    BY <2>1, AskedIs
  <2>3. IF want = "DHAN" THEN StartOnDhan(d, first) ELSE StartOn(d, first, "YAHOO")
    BY <1>3 DEF Ask, Asked
  <2>. HIDE DEF first
  <2>4. OthersWait(d)
    BY <2>2, <2>3, StartOnTells, StartOnDhanTells DEF Feeds
  <2>. QED BY <1>1, <2>1, <2>4 DEF OthersWait
<1>4. ASSUME NEW d \in Callers, Reply(d) PROVE calls[c].stale = {}
  BY <1>1, <1>4, ReplyTells DEF HasNothing, OthersWait
<1>. QED BY <1>2, <1>3, <1>4 DEF CandleStep

-----------------------------------------------------------------------------
(* The circuit, and what is promised *)

\* Who closes or opens the circuit was fetching before it opened.
LEMMA CircuitOk ==
  ASSUME MarketInv, MarketNext, openUntil > now, openUntil' # openUntil
  PROVE  \E c \in Callers : requests[c].phase = "fetching" /\ requests[c].began <= openUntil - BreakTime
<1>1. \E c \in Callers : Succeed(c) \/ Retry(c) \/ GiveUp(c)
  BY DEF MarketNext, ProductionNext, RunSignals, productionVars
<1>2. PICK c \in Callers : Fetched(c)
  BY <1>1 DEF Succeed, Retry, GiveUp
<1>. QED BY <1>2 DEF Fetched, MarketInv, SignalsInv, CircuitInv

\* For any callers, questions and ages, and however calls overlap: what callers of the
\* candles are answered from a cache or by the feed is of their question and no older than
\* the caches allow; a call fails only with nothing to fall back on; rows are never
\* replaced by much older ones (live_ohlcv.py:570,653); signals are no older than the ages
\* of the caches they came through (market_data/service.py:118, production_runtime.py:97);
\* and an open circuit stays open (market_data/service.py:135).
THEOREM MarketDataKept == MarketSpec => MarketDataHolds
<1>1. CandlesInit /\ ProductionInit => MarketInv
  BY MarketInitOk
<1>2. MarketInv /\ [MarketNext]_<<candleVars, productionVars>> => MarketInv'
  BY MarketNextOk, MarketStaysOk
<1>3. MarketInv => AnswersAreOwn /\ SignalsNotOld
  <2>1. MarketInv => AnswersAreOwn
    BY DEF MarketInv, CandlesInv, CallsInv, AnswerOk, AnswersAreOwn, Done
  <2>. QED BY <2>1 DEF MarketInv, SignalsInv, RequestsInv
<1>4. MarketInv /\ MarketInv' /\ [MarketNext]_<<candleVars, productionVars>> =>
        [\A c \in Callers :
           Calling(c) /\ calls'[c].how = "failed" =>
             \A entry \in latest[calls[c].feed] : entry.until - RedisTtl >= calls[c].began]_candleVars
  <2>1. UNCHANGED <<candleVars, productionVars>> => UNCHANGED candleVars
    OBVIOUS
  <2>. QED BY <2>1, MarketSteps, FailedOk DEF MarketInv
<1>5. MarketInv /\ MarketInv' /\ [MarketNext]_<<candleVars, productionVars>> =>
        [\A feed \in Feeds : \A old \in latest[feed], new \in latest'[feed] :
           new.rows.asOf >= old.rows.asOf - MaxCall]_candleVars
  <2>1. UNCHANGED <<candleVars, productionVars>> => UNCHANGED candleVars
    OBVIOUS
  <2>. QED BY <2>1, MarketSteps, NeverFarBack DEF MarketInv
<1>6. MarketInv /\ [MarketNext]_<<candleVars, productionVars>> =>
        [openUntil > now /\ openUntil' # openUntil =>
           \E c \in Callers :
             requests[c].phase = "fetching" /\ requests[c].began <= openUntil - BreakTime]_<<candleVars, productionVars>>
  BY CircuitOk
<1>. QED BY <1>1, <1>2, <1>3, <1>4, <1>5, <1>6, PTL
     DEF MarketSpec, MarketDataHolds, FailedHadNothing, CachedNeverFarBack, OpenCircuitHolds
=============================================================================
