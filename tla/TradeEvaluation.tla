--------------------------- MODULE TradeEvaluation ---------------------------
(***************************************************************************)
(* What a journal of trades shows: the metrics of its clean trades, the    *)
(* strict paper verdict, the walk-forward test, and what follows for going *)
(* live and for promotion.  Ratios are exact here and rounded to two or    *)
(* four digits in the code; a ratio is a pair <<numerator, denominator>>   *)
(* with a positive denominator.                                            *)
(***************************************************************************)
EXTENDS StableOrder, Sequences, SequencesExt

CONSTANTS
  MinTrades, LiveTrades,          \* clean trades of a sample, of a live one (100, 150)
  AdvancedTrades,                 \* trades of the advanced validation (50)
  SegmentFloor, SegmentSteps,     \* segments start at 40 trades, and grow at 160 and 240
  BaseSegments,                   \* 4
  TrainTrades, TestTrades,        \* a walk-forward window (40, 20); windows are 20 apart
  StepTrades,
  MinWindows, MinOutOfSample,     \* windows and trades of a walk-forward test (4, 30)
  RevengeMinutes,                 \* cooldown of a row that gives none (30)
  Rows, MaxRows                   \* rows a journal is made of, and how many of them

VARIABLE journal   \* the rows of the paper log, as they are written

\* Profits are of one unit, the smallest there is.
ASSUME JournalAssumption == \A r \in Rows : r.pnl \in Int /\ {r.entry, r.exit} \subseteq Nat

\* Windows are as far apart as a test is long, or further (trade_evaluation.py:900).
ASSUME WindowAssumption == {TrainTrades, TestTrades, StepTrades} \subseteq Nat \ {0} /\ TestTrades <= StepTrades

ASSUME SegmentAssumption == BaseSegments \in Nat \ {0} /\ SegmentFloor \in Nat \ {0} /\ IsFiniteSet(SegmentSteps)

None == 0     \* the time of a trade that has not happened

Le(a, b) == a[1] * b[2] <= b[1] * a[2]
Lt(a, b) == a[1] * b[2] < b[1] * a[2]
Plus(a, b) == <<a[1] * b[2] + b[1] * a[2], a[2] * b[2]>>
Unbounded == <<99, 1>>

Positive(pnls) == SelectSeq(pnls, LAMBDA p : p > 0)
Negative(pnls) == SelectSeq(pnls, LAMBDA p : p < 0)
Total(pnls) == SumFunction(pnls)
Largest(s, S) == Max({s} \cup Range(S))

-----------------------------------------------------------------------------
\* Rows.  A rejection is read as a duplicate and as an error of the row.
Counts(r) == r.status \in {"OPEN", "CLOSED"} \/ (r.entry # None /\ r.fault = "" /\ r.status = "")
IsClosed(r) == r.exit # None \/ r.status = "CLOSED" \/ (r.pnl # 0 /\ Counts(r))
Anchor(r) == IF r.exit # None THEN r.exit ELSE r.entry

\* By the time of their anchor; trades of the same time stay as recorded.
ByTime(rows, trades) == InOrder(rows, trades, [k \in trades |-> Anchor(rows[k])])

Closed(rows) == ByTime(rows, {k \in DOMAIN rows : Counts(rows[k]) /\ IsClosed(rows[k])})
IsClean(r) == Counts(r) /\ IsClosed(r) /\ r.entry # None /\ r.exit # None /\ r.fault = ""
Clean(rows) == ByTime(rows, {k \in DOMAIN rows : IsClean(rows[k])})
Pnls(rows) == [i \in DOMAIN rows |-> rows[i].pnl]

-----------------------------------------------------------------------------
\* Metrics.  The peak of the equity starts at zero, and a fall has a percentage
\* only below a positive peak.
EquityStep(s, pnl) ==
  LET equity == s.equity + pnl
      peak   == IF equity > s.peak THEN equity ELSE s.peak
      fall   == peak - equity
      share  == IF peak > 0 THEN <<fall, peak>> ELSE <<0, 1>>
      run    == IF fall > 0 THEN s.run + 1 ELSE 0
  IN  [equity |-> equity, peak |-> peak, run |-> run,
       fall |-> IF fall > s.fall THEN fall ELSE s.fall,
       share |-> IF Lt(s.share, share) THEN share ELSE s.share,
       longest |-> IF run > s.longest THEN run ELSE s.longest]

Equity(pnls) ==
  LET after[k \in 0..Len(pnls)] ==
        IF k = 0 THEN [equity |-> 0, peak |-> 0, run |-> 0, fall |-> 0, share |-> <<0, 1>>, longest |-> 0]
        ELSE EquityStep(after[k - 1], pnls[k])
  IN  after[Len(pnls)]

\* Lengths of the streaks of trades that match.
StreakStep(s, match) ==
  IF match THEN [s EXCEPT !.now = @ + 1]
  ELSE IF s.now > 0 THEN [now |-> 0, all |-> Append(s.all, s.now)] ELSE s

Streaks(matches) ==
  LET after[k \in 0..Len(matches)] ==
        IF k = 0 THEN [now |-> 0, all |-> <<>>] ELSE StreakStep(after[k - 1], matches[k])
      end == after[Len(matches)]
  IN  IF end.now > 0 THEN Append(end.all, end.now) ELSE end.all

\* The longest streaks, counted on their own.
CountStep(s, pnl) ==
  LET wins == IF pnl > 0 THEN s.wins + 1 ELSE 0
      losses == IF pnl < 0 THEN s.losses + 1 ELSE 0
  IN  [wins |-> wins, losses |-> losses,
       maxWins |-> IF wins > s.maxWins THEN wins ELSE s.maxWins,
       maxLosses |-> IF losses > s.maxLosses THEN losses ELSE s.maxLosses]

MaxConsecutive(pnls) ==
  LET after[k \in 0..Len(pnls)] ==
        IF k = 0 THEN [wins |-> 0, losses |-> 0, maxWins |-> 0, maxLosses |-> 0]
        ELSE CountStep(after[k - 1], pnls[k])
  IN  after[Len(pnls)]

SegmentCount(n) ==
  IF n < SegmentFloor THEN 0 ELSE BaseSegments + Cardinality({s \in SegmentSteps : n >= s})

\* Mutant: every segment has the same length.
EqualSegments(items, n) ==
  IF n = 0 THEN <<>> ELSE
  LET size == Max({Len(items) \div n, 1})
  IN  [k \in 1 .. Min({n, Len(items)}) |-> SubSeq(items, (k - 1) * size + 1, k * size)]

\* The last segment takes what the division leaves; of fewer items than segments
\* every one is a segment.
Segments(items, n) ==
  IF n = 0 THEN <<>> ELSE
  LET size == Max({Len(items) \div n, 1})
  IN  [k \in 1 .. Min({n, Len(items)}) |-> SubSeq(items, (k - 1) * size + 1, IF k = n THEN Len(items) ELSE k * size)]

Expectancy(pnls) == IF pnls = <<>> THEN <<0, 1>> ELSE <<Total(pnls), Len(pnls)>>
ProfitFactor(pnls) ==
  CASE Negative(pnls) # <<>> -> <<Total(Positive(pnls)), -Total(Negative(pnls))>>
    [] Negative(pnls) = <<>> /\ Positive(pnls) # <<>> -> Unbounded
    [] OTHER -> <<0, 1>>

\* What one row of the evaluation reads off the clean trades, and off their equity.
Figures(pnls, equity) ==
  LET segments == Segments(pnls, SegmentCount(Len(pnls)))
      gross == Total(Positive(pnls))
  IN  [ trades     |-> Len(pnls),
        expectancy |-> Expectancy(pnls),
        loss       |-> -Total(Negative(pnls)), losses |-> Len(Negative(pnls)),
        win        |-> gross, wins |-> Len(Positive(pnls)),
        factor     |-> ProfitFactor(pnls),
        drawdown   |-> equity.share,
        recovery   |-> IF equity.fall > 0 THEN <<Total(pnls), equity.fall>>
                       ELSE IF Total(pnls) > 0 THEN Unbounded ELSE <<0, 1>>,
        lossStreak |-> MaxConsecutive(pnls).maxLosses,
        segments   |-> Len(segments),
        rising     |-> Len(SelectSeq(segments, LAMBDA s : Total(s) > 0)),
        largest    |-> Largest(0, pnls) ]

Metrics(rows) == CHOOSE m \in {Figures(p, Equity(p)) : p \in {Pnls(Clean(rows))}} : TRUE

\* The average win over the average loss, and the expectancy in losses.
RewardRisk(m) ==
  IF m.loss > 0 THEN <<m.win * m.losses, IF m.wins = 0 THEN 1 ELSE m.wins * m.loss>>
  ELSE IF m.win > 0 THEN Unbounded ELSE <<0, 1>>
ExpectancyR(m) ==
  IF m.loss > 0 THEN <<m.expectancy[1] * m.losses, m.expectancy[2] * m.loss>>
  ELSE IF m.expectancy[1] > 0 THEN Unbounded ELSE <<0, 1>>

\* Entries made too soon after the closed trade before, a loss of the same setup.
Revenge(rows) ==
  LET closed == Closed(rows)
  IN  {i \in 2..Len(closed) :
         /\ closed[i - 1].pnl < 0 /\ closed[i - 1].setup = closed[i].setup
         /\ closed[i].entry # None
         /\ LET elapsed == closed[i].entry - Anchor(closed[i - 1])
            IN  elapsed >= 0 /\ elapsed < RevengeMinutes}
Duplicated(rows) == \E i \in DOMAIN rows : rows[i].fault \in {"DUPLICATE_TRADE", "DUPLICATE_SIGNAL_COOLDOWN"}
Disciplined(rows) ==
  /\ ~Duplicated(rows) /\ Revenge(rows) = {}
  /\ \A i \in DOMAIN rows : rows[i].fault # "MAX_TRADES_PER_DAY"

\* "steady" stands for the deviations of segments and trades and for the share of
\* the three best trades.
EquityStable(m, steady) ==
  /\ steady
  /\ m.segments > 0 /\ 10 * m.rising >= 6 * m.segments
  /\ m.win > 0 => 10 * m.largest <= 3 * m.win

\* Any of the blockers of the strict verdict.
HardFail(rows, m, stable) ==
  \/ m.trades < MinTrades \/ ~Lt(<<0, 1>>, ExpectancyR(m)) \/ Lt(m.factor, <<13, 10>>)
  \/ Lt(<<1, 4>>, m.drawdown) \/ Duplicated(rows) \/ ~stable
  \/ Lt(RewardRisk(m), <<3, 2>>) \/ 10 * m.wins < 3 * m.trades \/ m.lossStreak > 7
  \/ Le(m.recovery, <<3, 2>>) \/ ~Disciplined(rows)

\* Thresholds of a live candidate: they are asked before the blockers.
LiveReady(rows, m, stable) ==
  /\ Lt(<<3, 10>>, ExpectancyR(m)) /\ Lt(<<3, 2>>, m.factor)
  /\ Lt(m.drawdown, <<15, 100>>) /\ m.trades >= LiveTrades
  /\ stable /\ Disciplined(rows)

PaperStatus(rows, m, stable) ==
  IF LiveReady(rows, m, stable) THEN "PASS"
  ELSE IF HardFail(rows, m, stable) THEN "FAIL" ELSE "NEED_MORE_DATA"

-----------------------------------------------------------------------------
\* Walk-forward: windows over the closed trades, in the order they were closed.
WindowCount(n) ==
  IF n < TrainTrades + TestTrades THEN 0 ELSE (n - TrainTrades - TestTrades) \div StepTrades + 1

Windows(pairs) ==
  [w \in 1..WindowCount(Len(pairs)) |->
     [train |-> SubSeq(pairs, (w - 1) * StepTrades + 1, (w - 1) * StepTrades + TrainTrades),
      test  |-> SubSeq(pairs, (w - 1) * StepTrades + TrainTrades + 1,
                              (w - 1) * StepTrades + TrainTrades + TestTrades)]]

\* How much of a value is lost out of sample, between 0 and what it was.
Degradation(inside, outside) ==
  LET drop == inside[1] * outside[2] - outside[1] * inside[2]
  IN  IF inside[1] = 0 THEN IF outside[1] = 0 THEN <<0, 1>> ELSE <<1, 1>>
      ELSE IF drop <= 0 THEN <<0, 1>>
      ELSE <<drop, (IF inside[1] > 0 THEN inside[1] ELSE -inside[1]) * outside[2]>>

\* The metrics of the two parts of every window.
Judged(windows) ==
  [k \in DOMAIN windows |-> [is |-> Metrics(windows[k].train), oos |-> Metrics(windows[k].test)]]

WindowPasses(is, oos) ==
  LET growth == Plus(oos.drawdown, <<-is.drawdown[1], is.drawdown[2]>>)
      base   == IF Lt(<<1, 100>>, is.drawdown) THEN is.drawdown ELSE <<1, 100>>
  IN  /\ oos.trades > 0 /\ oos.expectancy[1] > 0
      /\ Le(<<6, 5>>, oos.factor) /\ Le(oos.drawdown, <<1, 10>>)
      /\ Le(Degradation(is.expectancy, oos.expectancy), <<2, 5>>)
      /\ Le(Degradation(is.factor, oos.factor), <<3, 10>>)
      /\ Le(growth, <<base[1], 2 * base[2]>>)

\* The scores of instability, decay and concentration, out of one each.
Overfit(judged) ==
  LET n == Len(judged)
      oos(k) == judged[k].oos.expectancy
      mean(a, b) == LET s == FoldLeft(LAMBDA x, k : Plus(x, oos(k)), <<0, 1>>, [i \in 1..(b - a + 1) |-> a + i - 1])
                    IN  <<s[1], s[2] * (b - a + 1)>>
      half == n \div 2
      decay == Degradation(mean(1, IF half > 1 THEN half ELSE 1), mean(half + 1, n))
      turned == {k \in 1..n : judged[k].is.expectancy[1] > 0 /\ oos(k)[1] <= 0}
      profits == [k \in 1..n |-> oos(k)[1]]
      gain == Total(Positive(profits))
      focus == IF gain > 0 THEN <<Largest(0, profits), gain>> ELSE <<0, 1>>
      weigh(r, w) == <<r[1] * w, r[2]>>
  IN  Plus(Plus(weigh(<<Cardinality(turned), n>>, 35), weigh(focus, 35)),
           weigh(IF Lt(<<1, 1>>, decay) THEN <<1, 1>> ELSE decay, 30))

\* The walk-forward status, and the overfit score in percent.
Walked(judged) ==
  LET n == Len(judged)
      passed == Cardinality({k \in 1..n : WindowPasses(judged[k].is, judged[k].oos)})
      tested == FoldLeft(LAMBDA x, w : x + w.oos.trades, 0, judged)
  IN  IF n = 0 THEN [status |-> "OOS_NEED_MORE_DATA", overfit |-> <<100, 1>>]
      ELSE [overfit |-> Overfit(judged),
            status |-> CASE n < MinWindows \/ tested < MinOutOfSample -> "OOS_NEED_MORE_DATA"
                         [] ~(n < MinWindows \/ tested < MinOutOfSample)
                              /\ (10 * passed < 4 * n \/ n - passed > passed) -> "OOS_FAIL"
                         [] OTHER -> IF 10 * passed < 6 * n THEN "OOS_BORDERLINE" ELSE "OOS_PASS"]

WalkForward(rows) == CHOOSE w \in {Walked(judged) : judged \in {Judged(Windows(Closed(rows)))}} : TRUE

-----------------------------------------------------------------------------
\* Scores that the summary does not hold and that are read as zero, and the files
\* the monitoring looks for, of which its directory has none.
StreakQuality == 0
RegimeConsistency == 0
Sharpe == 0
MonitoringScore == 0

GoLive(m, paper) ==
  IF \/ paper = "FAIL" \/ m.expectancy[1] <= 0 \/ Lt(m.factor, <<6, 5>>)
     \/ Lt(<<1, 10>>, m.drawdown) \/ 2 * StreakQuality < 7 \/ 2 * RegimeConsistency < 7
  THEN "REJECT"
  ELSE IF \/ m.trades < AdvancedTrades \/ (m.win > 0 /\ 10 * m.largest > 3 * m.win)
          \/ 2 * RegimeConsistency < 11
       THEN "PAPER_ONLY"
       ELSE IF 2 * Sharpe < 1 \/ 2 * StreakQuality < 11 THEN "SHADOW_LIVE"
            ELSE IF /\ m.trades >= MinTrades /\ Sharpe >= 1 /\ Le(<<3, 2>>, m.factor)
                    /\ Le(m.drawdown, <<8, 100>>) /\ 4 * m.largest <= m.win
                    /\ StreakQuality >= 7 /\ 2 * RegimeConsistency >= 13
                 THEN "LIVE_READY" ELSE "SMALL_LIVE"

Promotion(paper, oos, goLive) ==
  IF paper = "FAIL" \/ oos.status = "OOS_FAIL" \/ Le(<<75, 1>>, oos.overfit) THEN "REJECT"
  ELSE IF "NEED_MORE_DATA" = paper \/ oos.status = "OOS_NEED_MORE_DATA" THEN "RESEARCH_ONLY"
  ELSE IF oos.status = "OOS_BORDERLINE" \/ MonitoringScore < 6 THEN "BACKTEST_OK"
  ELSE CASE goLive = "PAPER_ONLY"  -> "PAPER_READY"
         [] goLive = "SHADOW_LIVE" -> "LIVE_SHADOW_READY"
         [] goLive \in {"SMALL_LIVE", "LIVE_READY"} /\ MonitoringScore >= 8 -> "SMALL_LIVE_CANDIDATE"
         [] OTHER -> "PAPER_CONTINUE"

\* The verdict of the system: an overfit score of zero is taken for a missing one.
Readiness(paper, oos, goLive) ==
  LET score == IF oos.overfit[1] = 0 THEN <<100, 1>> ELSE oos.overfit
  IN  IF oos.status = "OOS_FAIL" \/ Le(<<75, 1>>, score) \/ 2 * RegimeConsistency < 7 THEN "NOT_READY"
      ELSE IF goLive = "LIVE_READY" /\ oos.status = "OOS_PASS" /\ Lt(score, <<50, 1>>) THEN "READY"
      ELSE "PAPER_ONLY"

Verdicts(rows, m, oos, steady) ==
  LET paper  == PaperStatus(rows, m, EquityStable(m, steady))
      goLive == GoLive(m, paper)
  IN  [paper |-> paper, oos |-> oos.status, goLive |-> goLive,
       promotion |-> Promotion(paper, oos, goLive), system |-> Readiness(paper, oos, goLive)]

Summary(rows, steady) ==
  CHOOSE s \in {Verdicts(rows, m, oos, steady) : m \in {Metrics(rows)}, oos \in {WalkForward(rows)}} : TRUE

EvalInit == journal = <<>>
Record ==
  /\ Len(journal) < MaxRows
  /\ \E r \in Rows : journal' = Append(journal, r)

-----------------------------------------------------------------------------
\* The order in which the rows were written does not change the verdict, as long as
\* no two trades were closed at the same time (trade_evaluation.py:252).
OrderIrrelevant ==
  (\A i, j \in DOMAIN journal : Anchor(journal[i]) = Anchor(journal[j]) => i = j)
    => \A rows \in {Reverse(journal)}, s \in {Summary(journal, TRUE)} : Summary(rows, TRUE) = s

\* The drawdown found in one pass is the worst fall between two moments, the
\* beginning included (trade_evaluation.py:172).
DrawdownIsWorst ==
  LET p == Pnls(Closed(journal))
      at(i) == Total(SubSeq(p, 1, i))
      worst == Equity(p).fall
  IN  /\ \A i \in 0..Len(p), j \in 0..Len(p) : i <= j => at(i) - at(j) <= worst
      /\ \E i \in 0..Len(p), j \in 0..Len(p) : i <= j /\ at(i) - at(j) = worst

\* The longest streaks and the lists of streaks are counted apart and agree
\* (trade_evaluation.py:210,225).
StreaksAgree ==
  LET p == Pnls(Closed(journal))
  IN  /\ MaxConsecutive(p).maxWins = Largest(0, Streaks([i \in DOMAIN p |-> p[i] > 0]))
      /\ MaxConsecutive(p).maxLosses = Largest(0, Streaks([i \in DOMAIN p |-> p[i] < 0]))

\* The segments hold every clean trade once, in order (trade_evaluation.py:1302).
SegmentsPartition ==
  LET p == Pnls(Clean(journal))
  IN  Len(p) >= SegmentFloor => FlattenSeq(Segments(p, SegmentCount(Len(p)))) = p

\* A walk-forward window tests only trades closed after those it trains on, and no
\* trade is tested twice (trade_evaluation.py:976).
TestedOnce ==
  LET w == Windows([i \in DOMAIN Closed(journal) |-> i])
  IN  \A k, l \in DOMAIN w :
        /\ \A i \in Range(w[k].train), j \in Range(w[k].test) : i < j
        /\ k # l => Range(w[k].test) \cap Range(w[l].test) = {}

\* No journal opens the live gate or is promoted beyond the backtest, not even one
\* the strict verdict passes: the go-live verdict is made from scores that the
\* summary lacks, and the monitoring looks into a directory without its files
\* (trade_evaluation.py:776,1100, readiness.py:142).
LiveStaysShut ==
  \A s \in {Summary(journal, TRUE)} :
      /\ s.goLive = "REJECT" /\ s.system = "NOT_READY"
      /\ s.promotion \in {"REJECT", "RESEARCH_ONLY", "BACKTEST_OK"}
=============================================================================
