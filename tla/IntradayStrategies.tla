-------------------------- MODULE IntradayStrategies --------------------------
(***************************************************************************)
(* The strategies that read the indicators of breakout/service.py: Breakout*)
(* (breakout/service.py), BTST (btst/service.py), Indicator (indicator/),  *)
(* One Trade/Day (one_trade_day/) and MTF 5m (mtf/).                       *)
(*                                                                         *)
(* Prices are small integers.  The moving averages and the MACD depend on  *)
(* the past alone, and only their order is read: a candle carries the sides*)
(* that the averages of 9, 21 and 50 (ema), those of 50 and 200 (slow) and *)
(* the MACD against its signal (macd) back, both when they are equal.  The *)
(* average price of the day and the RSI, which is filled backwards, are    *)
(* computed.  The lengths of the bars and the periods are constants.       *)
(***************************************************************************)
EXTENDS CandleFrame

CONSTANTS RsiPeriod,      \* 14
          HourBars,       \* 4: the bars of the first hour of a Breakout day
          BreakoutBars,   \* 5: the bars a Breakout day must have
          SetupBars,      \* 3: the bars of a setup bar of MTF
          BiasBars,       \* 12: the bars of a bias bar of MTF
          MtfBars,        \* 18: the bars an MTF day must have
          MtfFirst,       \* 16: the first bar that may trigger MTF
          Reward,         \* rr_ratio
          Budget,         \* capital * risk_pct
          Buffer          \* the least distance of an Indicator stop

VARIABLE intraday   \* the frame the strategies are run over

ASSUME IntradayAssumption ==
  /\ {RsiPeriod, Buffer, Reward, HourBars, SetupBars, BiasBars, MtfFirst} \subseteq Nat \ {0}
  /\ {Budget, BreakoutBars, MtfBars, Ceiling} \subseteq Nat /\ HourBars <= BreakoutBars

-----------------------------------------------------------------------------
(* Indicators. *)

\* Whether the close is above (1), at (0) or below (-1) the volume weighted
\* average of the closes of its day, which is the close itself while nothing
\* was traded.
VwapSide(f, k) ==
  LET volume == SumFunction([j \in SoFar(f, k) |-> f[j].volume])
      paid == SumFunction([j \in SoFar(f, k) |-> f[j].close * f[j].volume])
  IN  IF f[k].close * volume > paid THEN 1 ELSE IF f[k].close * volume < paid THEN -1 ELSE 0

\* The gain of bar k over the bar before it, and its loss.
Gain(f, k) == Higher(f[k].close - f[k - 1].close, 0)
Loss(f, k) == Higher(f[k - 1].close - f[k].close, 0)

\* The period of the RSI: as long as the frame allows, and no longer than asked.
Period(f) == Higher(1, Lower(RsiPeriod, Len(f) - 1))

\* The average gain and loss at every bar, in a unit that grows from bar to bar.
\* The first average, at bar Period + 1, is that of the moves so far; every later
\* one smooths the one before it; the bars before the first take its value.
SmoothStep(p, avg, move) ==
  [gain |-> avg.gain * (p - 1) + move.gain * avg.unit,
   loss |-> avg.loss * (p - 1) + move.loss * avg.unit, unit |-> avg.unit * p]
SmoothedOver(p, first, moves) ==
  LET avg[k \in 0..Len(moves)] == IF k = 0 THEN first ELSE SmoothStep(p, avg[k - 1], moves[k])
  IN  avg[Len(moves)]
Smoothed(f) ==
  LET p == Period(f)
      first == [gain |-> SumFunction([j \in 2 .. p + 1 |-> Gain(f, j)]),
                loss |-> SumFunction([j \in 2 .. p + 1 |-> Loss(f, j)]), unit |-> p]
      Moves(k) == [j \in 1 .. Higher(k - p - 1, 0) |-> [gain |-> Gain(f, p + 1 + j), loss |-> Loss(f, p + 1 + j)]]
  IN  [k \in Bars(f) |-> IF Len(f) = 1 THEN [gain |-> 0, loss |-> 0, unit |-> 1]
                                       ELSE SmoothedOver(p, first, Moves(k))]

\* The bars with their indicators, as the strategies read them.
Read(f) ==
  LET rsi == Smoothed(f)
  IN  [k \in Bars(f) |->
         [day |-> f[k].day, open |-> f[k].open, high |-> f[k].high, low |-> f[k].low,
          close |-> f[k].close, ema |-> f[k].ema, slow |-> f[k].slow, macd |-> f[k].macd,
          vwap |-> VwapSide(f, k), rsi |-> rsi[k]]]

\* Whether an RSI is level at least, or at most: 50 when nothing moved.
RsiAtLeast(s, level) ==
  IF s.gain + s.loss = 0 THEN 50 >= level ELSE 100 * s.gain >= level * (s.gain + s.loss)
RsiAtMost(s, level) ==
  IF s.gain + s.loss = 0 THEN 50 <= level ELSE 100 * s.gain <= level * (s.gain + s.loss)

\* The RSI is so far on the side that a trade of that side wants it.
RsiBacks(s, side, margin) ==
  IF side = Buy THEN RsiAtLeast(s, 50 + margin) ELSE RsiAtMost(s, 50 - margin)

\* The price, the averages of 9, 21 and 50, the MACD and the RSI all back side.
Backed(bar, side, margin) ==
  /\ bar.vwap = IF side = Buy THEN 1 ELSE -1
  /\ side \in bar.ema /\ side \in bar.macd
  /\ RsiBacks(bar.rsi, side, margin)

-----------------------------------------------------------------------------
(* Signals. *)

\* How far b is from a in the direction in which side wins.
Ahead(side, a, b) == IF side = Buy THEN b - a ELSE a - b

\* The price of a bar that is worst for the side, and the one that is best.
Worst(bar, side) == IF side = Buy THEN bar.low ELSE bar.high
Best(bar, side) == IF side = Buy THEN bar.high ELSE bar.low

\* What a trade may lose fits the budget.
Quantity(entry, stop) == IF entry = stop THEN 0 ELSE Budget \div Gap(entry, stop)

\* A signal whose target is so many times as far from the entry as its stop.
Signal(name, k, side, entry, stop, times, quantity) ==
  [name |-> name, at |-> k, side |-> side, entry |-> entry, stop |-> stop, quantity |-> quantity,
   target |-> IF side = Buy THEN entry + (entry - stop) * times ELSE entry - (stop - entry) * times]

Days(f) == {f[k].day : k \in Bars(f)}
BarsOf(f, day) == {k \in Bars(f) : f[k].day = day}

\* A scan of bars that stops at the first that has what it looks for.
FirstOf(bars) == IF bars = {} THEN {} ELSE {Min(bars)}

\* Breakout: the side of the first hour; the first bar after the opening one
\* that leaves its range with the indicators.  A quantity of zero ends the day.
BreakoutOf(f, day) ==
  LET bars == BarsOf(f, day)
      first == Min(bars)
      hour == Ahead(Buy, f[first].open, f[first + HourBars - 1].close)
      side == IF hour > 0 THEN Buy ELSE Sell
      entry == Best(f[first], side)
      broken == {k \in bars \ {first} :
                   /\ Ahead(side, entry, Best(f[k], side)) > 0
                   /\ Backed(f[k], side, 5) /\ side \in f[k].slow
                   /\ Ahead(side, Worst(f[k], side), entry) > 0}
      trades == {Signal("Breakout", k, side, entry, Worst(f[k], side), Reward,
                        Quantity(entry, Worst(f[k], side))) : k \in FirstOf(broken)}
  IN  IF Cardinality(bars) < BreakoutBars \/ hour = 0 THEN {} ELSE {s \in trades : s.quantity > 0}

Breakout(f) == UNION {BreakoutOf(f, day) : day \in Days(f)}

\* BTST: the last bar of a day that has a next one, sold at the next open.
Btst(f) ==
  LET held == {k \in Bars(f) : k < Len(f) /\ f[k + 1].day # f[k].day}
      Trade(k, side) ==
        [name |-> "BTST", at |-> k, side |-> side, entry |-> f[k].close,
         stop |-> Worst(f[k], side), target |-> f[k + 1].open,
         quantity |-> Quantity(f[k].close, Worst(f[k], side))]
      Backs(k, side) ==
        Backed(f[k], side, 5) /\ side \in f[k].slow /\ Ahead(side, f[k].open, f[k].close) > 0
      TradesAt(k) == {Trade(k, side) : side \in {side \in Sides : Backs(k, side)}}
  IN  {s \in UNION {TradesAt(k) : k \in held} : s.quantity > 0}

\* Indicator: the side of a bar, of its trend or of an RSI that went too far.
Extreme(bar, side) ==
  /\ side \in bar.macd
  /\ IF side = Sell THEN ~RsiAtMost(bar.rsi, 70) ELSE ~RsiAtLeast(bar.rsi, 30)
MarketSides(bar) ==
  LET trend == {side \in Sides : Backed(bar, side, 8)}
  IN  IF trend # {} THEN trend ELSE {side \in Sides : Extreme(bar, side)}

Indicator(f) ==
  LET Trade(k, side) == Signal("Indicator", k, side, f[k].close,
                               IF side = Buy THEN f[k].low - Buffer ELSE f[k].high + Buffer, 2, 0)
  IN  UNION {{Trade(k, side) : side \in MarketSides(f[k])} : k \in Bars(f)}

\* One Trade/Day: the first bar of the day with an Indicator signal that can
\* be sized.
OneTradeOf(f, found, day) ==
  LET Sized(s) == Signal("One Trade/Day", s.at, s.side, s.entry, Worst(f[s.at], s.side), Reward,
                         Quantity(s.entry, Worst(f[s.at], s.side)))
      sized == {Sized(s) : s \in {s \in found : f[s.at].day = day /\ Sized(s).quantity > 0}}
  IN  {s \in sized : \A other \in sized : s.at <= other.at}

OneTradeDay(f) ==
  LET found == Indicator(f) IN UNION {OneTradeOf(f, found, day) : day \in Days(f)}

-----------------------------------------------------------------------------
(* MTF 5m. *)

\* The bars of n bars each that are complete before bar i of the day.
Chunk(bars) ==
  [open |-> bars[1].open, close |-> Last(bars).close,
   high |-> Max({bars[j].high : j \in DOMAIN bars}), low |-> Min({bars[j].low : j \in DOMAIN bars})]
Chunks(bars, n, i) ==
  [c \in 1 .. (i - 1) \div n |-> Chunk(SubSeq(bars, (c - 1) * n + 1, c * n))]

\* The average of the closes of the first n bias bars, twice as heavy for every
\* later one (ema_period 3), in a unit that doubles from bar to bar.
MeanStep(mean, bar) == [over |-> mean.over + bar.close * mean.unit, unit |-> 2 * mean.unit]
BiasMean(bias, n) ==
  LET mean[k \in 0 .. n - 1] ==
        IF k = 0 THEN [over |-> bias[1].close, unit |-> 1] ELSE MeanStep(mean[k - 1], bias[k + 1])
  IN  mean[n - 1]

\* The side of the last bias bar, when the average agrees and does not turn.
Bias(bias) ==
  LET n == Len(bias)
      now == BiasMean(bias, n)
  IN  {side \in Sides :
         /\ Ahead(side, bias[n].open, bias[n].close) > 0
         /\ Ahead(side, now.over, bias[n].close * now.unit) >= 0
         /\ n = 1 \/ Ahead(side, BiasMean(bias, n - 1).over * 2, now.over) >= 0}

\* The zone that a break of structure or a gap between the last setup bars
\* leaves: a set of at most one.
SetupZones(setup, side) ==
  LET n == Len(setup)
      bos == /\ Ahead(side, setup[n].open, setup[n].close) > 0
             /\ Ahead(side, Best(setup[n - 1], side), setup[n].close) > 0
      fvg == n >= 3 /\ Ahead(side, Best(setup[n - 2], side), Worst(setup[n], side)) > 0
      near == IF fvg THEN Worst(setup[n], side) ELSE Best(setup[n - 1], side)
      far == IF bos THEN Best(setup[n - 1], side) ELSE Best(setup[n - 2], side)
  IN  IF bos \/ fvg THEN {[low |-> Lower(near, far), high |-> Higher(near, far)]} ELSE {}

\* A bar that closed strongly for the side.
StrongRetest(bar, side) ==
  LET range == bar.high - bar.low
  IN  /\ range > 0 /\ Ahead(side, bar.open, bar.close) > 0
      /\ Gap(bar.open, bar.close) * 100 >= 35 * range
      /\ Ahead(side, Worst(bar, side), bar.close) * 100 >= 65 * range

MtfOf(f, day) ==
  LET offset == Min(BarsOf(f, day)) - 1
      bars == SubSeq(f, Min(BarsOf(f, day)), Max(BarsOf(f, day)))
      Zones(i, side) == SetupZones(Chunks(bars, SetupBars, i), side)
      Entry(zone, side) == IF side = Buy THEN zone.high ELSE zone.low
      Stop(i, zone, side) == IF side = Buy THEN Lower(bars[i].low, zone.low)
                                           ELSE Higher(bars[i].high, zone.high)
      Trade(i, zone, side) ==
        Signal("MTF 5m", offset + i, side, Entry(zone, side), Stop(i, zone, side), Reward,
               Quantity(Entry(zone, side), Stop(i, zone, side)))
      Retested(i, zone, side) ==
        /\ Ahead(side, Worst(bars[i], side), Entry(zone, side)) >= 0
        /\ Ahead(side, Entry(zone, side), bars[i].close) >= 0
        /\ StrongRetest(bars[i], side)
      TradesAt(i) ==
        {t \in UNION {{Trade(i, zone, side) : zone \in {z \in Zones(i, side) : Retested(i, z, side)}} :
                        side \in Bias(Chunks(bars, BiasBars, i))} : t.quantity > 0}
      ready == {i \in MtfFirst .. Len(bars) : /\ (i - 1) \div BiasBars >= 1
                                              /\ (i - 1) \div SetupBars >= 3
                                              /\ TradesAt(i) # {}}
  IN  IF Len(bars) < MtfBars THEN {} ELSE UNION {TradesAt(i) : i \in FirstOf(ready)}

Mtf(f) == UNION {MtfOf(f, day) : day \in Days(f)}

Signals(f) ==
  LET bars == Read(f)
  IN  Breakout(bars) \cup Btst(bars) \cup Indicator(bars) \cup OneTradeDay(bars) \cup Mtf(bars)

-----------------------------------------------------------------------------
(* Properties. *)

\* The signals at earlier bars that only the newest one brings to light: of BTST, which
\* trades what the next day opened at, and of a Breakout or an MTF day that is looked at
\* since it has the bars it must have.
FoundWithLast(f, s) ==
  LET today == BarsOf(f, Last(f).day)
  IN  \/ s.name = "BTST" /\ s.at = Len(f) - 1 /\ f[s.at].day # Last(f).day
      \/ s.name = "Breakout" /\ s.at \in today /\ Cardinality(today) = BreakoutBars
      \/ s.name = "MTF 5m" /\ s.at \in today /\ Cardinality(today) = MtfBars

\* Once the frame is longer than the period of the RSI, a bar that comes withdraws no
\* signal that a request has returned and moves none of its prices, and adds none at an
\* earlier bar but those that wait for it (the strategies are run again over the whole
\* frame).  Until then every bar fills the RSI of all bars before it anew, and their
\* signals may change.
SignalsStay ==
  [][LET found == {s \in Signals(intraday') : s.at <= Len(intraday)}
     IN  Len(intraday) > RsiPeriod =>
           /\ Signals(intraday) \subseteq found
           /\ \A s \in found \ Signals(intraday) : FoundWithLast(intraday', s)]_intraday

\* Every signal loses at its stop; all but those of BTST, whose target is the
\* next open, win at their target; and a sized one may lose no more than the
\* budget.
SignalsAreTrades ==
  \A s \in Signals(intraday) :
    /\ Ahead(s.side, s.stop, s.entry) > 0
    /\ s.name # "BTST" => Ahead(s.side, s.entry, s.target) > 0
    /\ s.quantity * Gap(s.entry, s.stop) <= Budget

\* The two sides are written out one after the other in every strategy, and
\* are each other's image: over a frame turned upside down every strategy
\* gives the signals it gives over the frame, turned.
TurnedBar(bar) ==
  [day |-> bar.day, volume |-> bar.volume, open |-> Turned(bar.open), close |-> Turned(bar.close),
   high |-> Turned(bar.low), low |-> Turned(bar.high), ema |-> {Flip(s) : s \in bar.ema},
   slow |-> {Flip(s) : s \in bar.slow}, macd |-> {Flip(s) : s \in bar.macd}]
TurnedSignal(s) ==
  [name |-> s.name, at |-> s.at, quantity |-> s.quantity, side |-> Flip(s.side),
   entry |-> Turned(s.entry), stop |-> Turned(s.stop), target |-> Turned(s.target)]
SidesMirror ==
  Signals([k \in Bars(intraday) |-> TurnedBar(intraday[k])]) = {TurnedSignal(s) : s \in Signals(intraday)}
=============================================================================
