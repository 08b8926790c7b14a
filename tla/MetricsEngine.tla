---------------------------- MODULE MetricsEngine ----------------------------
(***************************************************************************)
(* The metrics over a journal of trades (observability/metrics) and what   *)
(* readiness.py makes of them: records are brought to one form, those of   *)
(* one trade become its last one, and figures of profit, risk, execution   *)
(* and validation are checked against thresholds.                          *)
(*                                                                         *)
(* A record tells of a trade: its id (0: none), the contract (symbol, side *)
(* and entry time), the exit time (0: none), profit, the status, the       *)
(* verdict of the validation with its reasons, the points (Unknown: not    *)
(* recorded), the score, and whether the setup was of high quality.        *)
(* Profits are integers, rates are compared by cross-multiplication.       *)
(***************************************************************************)
EXTENDS StableOrder, Sequences, SequencesExt, FiniteSetsExt

CONSTANTS BookEntries,   \* what a record may be
          MaxBook,       \* bound of the records
          Capital        \* starting_capital

VARIABLE book   \* the records, in their order

Unknown == -1

\* What a record may be; points are given from zero (validation/engine.py:119).
ASSUME BookAssumption ==
  /\ Capital \in Nat
  /\ \A e \in BookEntries :
       e \in [id : {e.id}, contract : {e.contract}, exit : Nat, pnl : Int, status : {e.status}, verdict : {e.verdict},
             reasons : {e.reasons}, points : Nat \cup {Unknown}, score : Nat \cup {Unknown}, strong : {e.strong}]

Succeeded == {"FILLED", "EXECUTED", "SENT", "ACCEPTED", "CLOSED", "OPEN"}
Failed == {"FAILED", "REJECTED", "ERROR", "BLOCKED"}

-----------------------------------------------------------------------------
(* One form. *)

\* Points that nobody recorded are made up from the score, and in any case
\* brought to the side of the threshold on which the verdict is.
InferStrictScore(row) ==
  LET told == IF row.points # Unknown THEN row.points
              ELSE IF row.score = Unknown THEN 7
              ELSE IF row.score <= 10 THEN row.score ELSE row.score \div 10
  IN  CASE row.verdict = "FAIL" /\ row.reasons # {} -> Min({told, 6})
        [] row.verdict = "PASS" /\ row.reasons = {} -> Max({told, 7})
        [] OTHER -> told

Backfilled(row) == [row EXCEPT !.points = InferStrictScore(row)]

DedupeKey(row) == IF row.id # 0 THEN <<row.id>> ELSE row.contract

\* Of the records of one trade the last is kept, where it is.
CoerceTradeRecords(rows) ==
  LET last == Chosen(rows, {k \in DOMAIN rows : \A n \in DOMAIN rows : n > k => DedupeKey(rows[n]) # DedupeKey(rows[k])})
  IN  [n \in DOMAIN last |-> Backfilled(last[n])]

HasExited(row) == row.exit # 0 \/ row.status \in {"CLOSED", "EXITED"}
ClosedTradesOnly(rows) == Chosen(rows, {k \in DOMAIN rows : HasExited(rows[k])})

Those(rows, Test(_)) == {k \in DOMAIN rows : Test(rows[k])}
HowMany(rows, Test(_)) == Cardinality(Those(rows, Test))
SumOver(rows, Test(_)) == SumFunction([k \in Those(rows, Test) |-> rows[k].pnl])
Won(row) == row.pnl > 0
Lost(row) == row.pnl < 0

-----------------------------------------------------------------------------
(* Figures. *)

\* What the win rate is a rate of.
RatedTrades(closed) == Len(closed)

\* A fraction, its denominator positive: the win rate times the average win,
\* less the rest of the trades times the average loss.
ExpectancyRatio(closed) ==
  LET wins == HowMany(closed, Won)
      losses == Max({HowMany(closed, Lost), 1})
      rated == Max({RatedTrades(closed), 1})
      lost == -SumOver(closed, Lost)
  IN  [over |-> SumOver(closed, Won) * losses - (rated - wins) * lost, under |-> rated * losses]

\* The closed trades by the time of the exit; one without comes last.
ByExit(rows) ==
  LET closed == {k \in DOMAIN rows : HasExited(rows[k])}
      never == 1 + Max({0} \cup {rows[k].exit : k \in closed})
  IN  InOrder(rows, closed, [k \in closed |-> IF rows[k].exit = 0 THEN never ELSE rows[k].exit])

\* The capital after each trade.
EquityCurve(rows) ==
  LET ordered == ByExit(rows)
  IN  [n \in DOMAIN ordered |-> Capital + SumFunction([k \in 1..n |-> ordered[k].pnl])]

\* Against the highest so far: the first is the capital after the first trade.
PeakOf(curve, n) == Max({curve[j] : j \in 1..n})
WorstDrawdown(curve) == Max({0} \cup {PeakOf(curve, n) - curve[n] : n \in DOMAIN curve})
DrawdownTooHigh(curve) == \E n \in DOMAIN curve : 100 * (PeakOf(curve, n) - curve[n]) > 20 * PeakOf(curve, n)

\* Over all records, those of one trade included.
DuplicateAttempts(rows) ==
  Cardinality({k \in DOMAIN rows : \E n \in DOMAIN rows \ {k} : rows[n].contract = rows[k].contract})
Executions(rows) == HowMany(rows, LAMBDA row : row.status \in Succeeded)
OrderFailures(rows) == HowMany(rows, LAMBDA row : row.status \in Failed)
Validated(rows) == HowMany(rows, LAMBDA row : row.verdict = "PASS")
HighQuality(rows) == HowMany(rows, LAMBDA row : row.strong)

-----------------------------------------------------------------------------
(* The report on readiness. *)

\* The rate of an empty list of snapshots is zero: health says whether there
\* are any, all of them well.
Rated(health) == IF health THEN 100 ELSE 0

\* What fails.  A profit factor without a loss is zero.
FailedChecks(rows, health) ==
  LET all == CoerceTradeRecords(rows)
      closed == ClosedTradesOnly(all)
      executed == Executions(rows)
      lost == -SumOver(closed, Lost)
  IN  (IF ExpectancyRatio(closed).over > 0 THEN {} ELSE {"expectancy"})
        \cup (IF lost > 0 /\ 10 * SumOver(closed, Won) >= 13 * lost THEN {} ELSE {"profit_factor"})
        \cup (IF 100 * HowMany(closed, Won) >= 35 * Max({Len(closed), 1}) THEN {} ELSE {"win_rate"})
        \cup (IF DrawdownTooHigh(EquityCurve(all)) THEN {"max_drawdown_pct"} ELSE {})
        \cup (IF DuplicateAttempts(rows) > 0 THEN {"duplicate_trade_rate"} ELSE {})
        \cup (IF 100 * executed >= 95 * Max({executed + OrderFailures(rows), 1}) THEN {} ELSE {"execution_success_rate"})
        \cup (IF 100 * Validated(all) >= 60 * Max({Len(all), 1}) THEN {} ELSE {"validation_pass_rate"})
        \cup (IF 100 * HighQuality(all) >= 50 * Max({Len(all), 1}) THEN {} ELSE {"high_quality_setup_rate"})
        \cup (IF Rated(health) >= 95 THEN {} ELSE {"pipeline_health_rate", "broker_health_rate"})

\* The checks that only warn.
Warned == {"win_rate", "validation_pass_rate", "high_quality_setup_rate"}

GenerateReadinessReport(rows, health) ==
  LET failed == FailedChecks(rows, health)
  IN  [ status |-> IF failed = {} THEN "PASS" ELSE IF failed \subseteq Warned THEN "WARNING" ELSE "FAIL",
        score |-> Max({0, 100 - 8 * Cardinality(failed \cap Warned) - 18 * Cardinality(failed \ Warned)}) ]

\* Nobody who runs the engine has snapshots of the health to give.
RunFullMetricsEngine(rows) == GenerateReadinessReport(rows, FALSE)

-----------------------------------------------------------------------------
(* What readiness.py tells of trades and rejects. *)

AllCandidates(trades, rejects) == Len(trades) + Len(rejects)

\* Counted among the trades, as a share of all candidates: at least 55 of 100.
PassRateReached(trades, rejects) == 100 * Validated(trades) >= 55 * Max({AllCandidates(trades, rejects), 1})

\* The live workspace gives the same rows as trades and as rejects.
WorkspacePassRateReached(rows) == PassRateReached(rows, rows)

-----------------------------------------------------------------------------
BookInit == book = <<>>
BookNext == Len(book) < MaxBook /\ \E entry \in BookEntries : book' = Append(book, entry)

-----------------------------------------------------------------------------
(* Properties. *)

\* Without snapshots of the health the report of the engine is FAIL, whatever
\* the trades are: the readiness that falls back on it is never more.
EngineNeverReady == RunFullMetricsEngine(book).status = "FAIL"

\* The validation rate of the live workspace counts every row twice and so
\* never reaches its threshold, though every row passed.
WorkspaceRateNeverReached == ~WorkspacePassRateReached(book)

\* The drawdown is at most that from the starting capital, and less by no more
\* than the first trade lost; the order of the records says nothing.
DrawdownMissesFirstLoss ==
  LET rows == CoerceTradeRecords(book)
      curve == EquityCurve(rows)
      whole == WorstDrawdown(<<Capital>> \o curve)
  IN  /\ whole >= WorstDrawdown(curve)
      /\ curve # <<>> => whole - WorstDrawdown(curve) <= Max({0, Capital - curve[1]})
      /\ (\A j, k \in DOMAIN rows : j # k => rows[j].exit # rows[k].exit)
           => WorstDrawdown(EquityCurve(Reverse(rows))) = WorstDrawdown(curve)

\* The expectancy is never above what a trade earned on average, and it is the
\* average where no trade broke even.
ExpectancyIsCautious ==
  LET closed == ClosedTradesOnly(CoerceTradeRecords(book))
      expected == ExpectancyRatio(closed)
      earned == SumOver(closed, LAMBDA row : TRUE)
      gap == earned * expected.under - expected.over * Len(closed)
  IN  closed # <<>> => /\ gap >= 0
                       /\ (\A k \in DOMAIN closed : closed[k].pnl # 0) => gap = 0

\* What is brought to the form stays as it is, and its points are on the side
\* of the threshold on which the verdict is: those who read the records again,
\* as the figures of risk do, see the same trades.
FormIsFinal ==
  LET once == CoerceTradeRecords(book)
  IN  /\ CoerceTradeRecords(once) = once
      /\ \A k \in DOMAIN once : /\ once[k].verdict = "PASS" /\ once[k].reasons = {} => once[k].points >= 7
                                /\ once[k].verdict = "FAIL" /\ once[k].reasons # {} => once[k].points < 7
=============================================================================
