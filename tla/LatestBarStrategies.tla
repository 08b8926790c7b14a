------------------------- MODULE LatestBarStrategies -------------------------
(***************************************************************************)
(* The strategies of the production routes (domain/strategies/             *)
(* implementations), which judge the latest bar of a batch alone, the      *)
(* signal they build, which validates itself, and the engine that          *)
(* backtests signals: the routes make one, and do not run it yet.          *)
(*                                                                         *)
(* A bar has high, low, close, volume and vwap (0: none, which is all the  *)
(* production service gives).  The prices of a signal are in thousandths   *)
(* of those of the bars.  Periods and windows are constants.               *)
(***************************************************************************)
EXTENDS StableOrder, Sequences, SequencesExt, FiniteSetsExt, Folds

CONSTANTS
  SeenBars,        \* bars that may come
  MaxSeen,         \* bound of the bars
  OpeningWindow,   \* 5
  VolumeWindow,    \* 10
  RangeWindow,     \* 14
  StopWindow,      \* 5
  RetestWindow,    \* 20
  FastPeriod,      \* 9
  SlowPeriod,      \* 21
  Slippage,        \* slippage_bps
  Brokerage        \* brokerage_per_trade, in thousandths

VARIABLE seen   \* the bars of the batch

\* A bar is made of prices above zero, with the close between low and high
\* (models.py:86,104).
ASSUME SeenAssumption ==
  /\ \A bar \in SeenBars : {bar.low, bar.high, bar.close} \subseteq Nat \ {0} /\ bar.close \in bar.low .. bar.high
  /\ {OpeningWindow, RangeWindow, StopWindow, RetestWindow} \subseteq Nat \ {0}
  /\ {Slippage, Brokerage} \subseteq Nat

LastOf(bars, n) == SubSeq(bars, Max({1, Len(bars) - n + 1}), Len(bars))
TopOf(bars) == Max({bars[k].high : k \in DOMAIN bars})
BottomOf(bars) == Min({bars[k].low : k \in DOMAIN bars})
Current(bars) == bars[Len(bars)]
Previous(bars) == bars[Max({1, Len(bars) - 1})]

-----------------------------------------------------------------------------
(* The signal. *)

NoTrade(bars) == [side |-> "NO_TRADE", time |-> Len(bars)]

\* A signal with its prices on the wrong side, or not above zero, is refused by
\* its own validation: the strategy raises.
BuildEntrySignal(bars, side, stop, target) ==
  LET entry == 1000 * Current(bars).close
      sound == IF side = "BUY" THEN stop < entry /\ entry < target ELSE target < entry /\ entry < stop
  IN  [side |-> side, time |-> Len(bars), entry |-> entry, stop |-> stop, target |-> target,
       refused |-> ~sound \/ stop <= 0 \/ target <= 0]

\* Stop and target at a distance from the close.
Around(bars, side, risk, reward) ==
  LET entry == 1000 * Current(bars).close
  IN  IF side = "BUY" THEN BuildEntrySignal(bars, side, entry - risk, entry + reward)
      ELSE BuildEntrySignal(bars, side, entry + risk, entry - reward)

-----------------------------------------------------------------------------
(* Breakout. *)

FirstBars(bars) == SubSeq(bars, 1, Min({Len(bars), OpeningWindow}))

\* The volume is at least 1.2 times the average, its own included.
VolumeConfirms(bars) ==
  LET recent == LastOf(bars, VolumeWindow)
  IN  10 * Current(bars).volume * Len(recent) >= 12 * MapThenSumSet(LAMBDA k : recent[k].volume, DOMAIN recent)

\* At least a thousandth of the close.
BreakoutRisk(bars, distance) == Max({Current(bars).close, 1000 * distance})

BreakoutSignal(bars) ==
  LET close == Current(bars).close
      long == BreakoutRisk(bars, close - Previous(bars).low)
      short == BreakoutRisk(bars, Previous(bars).high - close)
  IN  IF close > TopOf(FirstBars(bars)) /\ VolumeConfirms(bars) THEN Around(bars, "BUY", long, 2 * long)
      ELSE IF close < BottomOf(FirstBars(bars)) /\ VolumeConfirms(bars) THEN Around(bars, "SELL", short, 2 * short)
      ELSE NoTrade(bars)

-----------------------------------------------------------------------------
(* Confirmation. *)

\* The exponential average of the last closes, a numerator over its scale.
Ema(bars, period) ==
  LET closes == LastOf(bars, period)
      Add(sum, bar) == [over |-> sum.over * (period - 1) + 2 * bar.close * sum.scale, scale |-> sum.scale * (period + 1)]
  IN  FoldLeft(Add, [over |-> closes[1].close, scale |-> 1], SubSeq(closes, 2, Len(closes)))

ConfirmationSignal(bars) ==
  LET latest == Current(bars)
      fast == Ema(bars, FastPeriod)
      slow == Ema(bars, SlowPeriod)
      range == LastOf(bars, RangeWindow)
      moves == 100 * (TopOf(range) - BottomOf(range)) >= Max({latest.close, 1})
      long == Max({1000 * (latest.close - BottomOf(LastOf(range, StopWindow))), 50})
      short == Max({1000 * (TopOf(LastOf(range, StopWindow)) - latest.close), 50})
  IN  IF fast.over * slow.scale > slow.over * fast.scale /\ moves /\ latest.vwap # 0 /\ latest.close > latest.vwap
      THEN Around(bars, "BUY", long, 2 * long)
      ELSE IF fast.over * slow.scale < slow.over * fast.scale /\ moves /\ latest.vwap # 0 /\ latest.close < latest.vwap
      THEN Around(bars, "SELL", short, 2 * short)
      ELSE NoTrade(bars)

-----------------------------------------------------------------------------
(* Demand and supply: the recent extremes are the zone. *)

DemandSupplySignal(bars) ==
  LET latest == Current(bars)
      low == BottomOf(LastOf(bars, RetestWindow))
      high == TopOf(LastOf(bars, RetestWindow))
      entry == 1000 * latest.close
      long == Max({entry - 1000 * low, 50})
      short == Max({1000 * high - entry, 50})
  IN  IF 1000 * latest.low <= 1002 * low /\ 2 * latest.close > low + high
      THEN BuildEntrySignal(bars, "BUY", 1000 * low, entry + (5 * long) \div 2)
      ELSE IF 1000 * latest.high >= 998 * high /\ 2 * latest.close < low + high
      THEN BuildEntrySignal(bars, "SELL", 1000 * high, entry - (5 * short) \div 2)
      ELSE NoTrade(bars)

Strategies(bars) == <<BreakoutSignal(bars), ConfirmationSignal(bars), DemandSupplySignal(bars)>>

-----------------------------------------------------------------------------
(* The backtest of signals, of one unit each. *)

\* At the target, whatever the bars: slippage both times, on the entry price.
GrossOf(signal) ==
  (IF signal.side = "BUY" THEN signal.target - signal.entry ELSE signal.entry - signal.target)
    - (2 * Slippage * signal.entry) \div 10000

BacktestTrades(signals) ==
  LET entries == Chosen(signals, {k \in DOMAIN signals : signals[k].side # "NO_TRADE"})
  IN  [k \in DOMAIN entries |-> GrossOf(entries[k]) - Brokerage]

\* Sums of the trades, from nothing; the drawdown from their highest.
BacktestReport(signals) ==
  LET pnl == BacktestTrades(signals)
      Equity(n) == SumFunction([k \in 1..n |-> pnl[k]])
      Peak(n) == Max({Equity(j) : j \in 0..n})
  IN  [ trades |-> Len(pnl),
        won |-> Cardinality({k \in DOMAIN pnl : pnl[k] > 0}),
        drawdown |-> Max({Peak(n) - Equity(n) : n \in 0..Len(pnl)}) ]

-----------------------------------------------------------------------------
SeenInit == seen = <<>>
SeenNext == Len(seen) < MaxSeen /\ \E bar \in SeenBars : seen' = Append(seen, bar)

-----------------------------------------------------------------------------
(* Properties. *)

\* Stop and target are always on their sides, however far the previous bar is
\* from the latest: a strategy raises only for a price at or below zero.
RefusedOnlyBelowZero ==
  seen # <<>> => \A k \in 1..3 :
    LET signal == Strategies(seen)[k]
    IN  signal.side # "NO_TRADE" =>
          /\ signal.refused <=> signal.stop <= 0 \/ signal.target <= 0
          /\ signal.stop < signal.entry <=> signal.entry < signal.target
          /\ signal.stop # signal.entry

\* The opening range holds the latest bar of a young batch, so that nothing
\* breaks out of it; and without a vwap nothing is confirmed.
YoungBatchesAreSilent ==
  seen # <<>> => /\ Len(seen) <= OpeningWindow => BreakoutSignal(seen).side = "NO_TRADE"
                 /\ Current(seen).vwap = 0 => ConfirmationSignal(seen).side = "NO_TRADE"

\* What all beginnings of the batch signal, and the signals of it that are not refused.
AllSignalled == [n \in DOMAIN seen |-> BreakoutSignal(SubSeq(seen, 1, n))]
              \o [n \in DOMAIN seen |-> DemandSupplySignal(SubSeq(seen, 1, n))]
Taken(found) == Chosen(found, {k \in DOMAIN found : found[k].side # "NO_TRADE" /\ ~found[k].refused})

\* What a signal is worth at its target, and what its trade costs.
Promise(signal) == Max({signal.target - signal.entry, signal.entry - signal.target})
Costs(signal) == (2 * Slippage * signal.entry) \div 10000 + Brokerage

LosesByCosts(list) ==
  LET report == BacktestReport(list)
  IN  /\ report.won = Cardinality({k \in DOMAIN list : Promise(list[k]) > Costs(list[k])})
      /\ report.won = report.trades => report.drawdown = 0

\* The backtest knows no losing trade but for costs: whatever the bars were
\* after a signal, if its target is worth more than the costs it is won.
BacktestKnowsNoLoss == LosesByCosts(Taken(AllSignalled))
=============================================================================
