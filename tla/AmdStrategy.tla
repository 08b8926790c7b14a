------------------------------ MODULE AmdStrategy ------------------------------
(***************************************************************************)
(* The AMD strategy (amd/service.py): bars that swept the recent extreme,  *)
(* left a gap and broke out, at most so many a day and none too soon after *)
(* the last one of its side.                                               *)
(*                                                                         *)
(* Prices are small integers.  Of the moving averages, the MACD and the    *)
(* RSI, which depend on the past alone, a bar carries the sides that the   *)
(* whole stack of averages backs (ema), those on which the close is of the *)
(* fast average (fast), and those that the MACD and the RSI back (macd).   *)
(* The gates are those of the balanced mode.                               *)
(***************************************************************************)
EXTENDS CandleFrame

CONSTANTS WarmUp,         \* the bars before the first that is evaluated: 10
          RecentBars,     \* 6: the bars an extreme is the extreme of
          LookBack,       \* max_retest_bars
          MinGap,         \* min_fvg_size
          AmdScore,       \* min_score_balanced
          AmdCooldown,    \* duplicate_signal_cooldown_bars
          AmdDaily,       \* max_trades_per_day
          AmdReward,      \* rr_ratio
          AmdBudget,      \* capital * risk_pct
          AmdBuffer       \* the least distance of a stop from its anchor

VARIABLE tape   \* the frame the strategy is run over

ASSUME AmdAssumption ==
  /\ {WarmUp, LookBack, RecentBars, AmdBudget} \subseteq Nat
  /\ {AmdBuffer, AmdDaily, AmdCooldown, AmdReward} \subseteq Nat \ {0}

\* How far b is from a in the direction in which side wins, the price of a bar
\* that is worst for the side, and the one that is best.
Toward(side, a, b) == IF side = Buy THEN b - a ELSE a - b
Behind(bar, side) == IF side = Buy THEN bar.low ELSE bar.high
Fore(bar, side) == IF side = Buy THEN bar.high ELSE bar.low

\* The extreme of the bars before bar k on the side behind, or in front: known
\* from the second bar before on.
Recent(k) == Higher(1, k - RecentBars) .. k - 1
Furthest(prices, side) == IF side = Buy THEN Max(prices) ELSE Min(prices)
Trough(f, k, side) == Furthest({Behind(f[j], side) : j \in Recent(k)}, Flip(side))
Peak(f, k, side) == Furthest({Fore(f[j], side) : j \in Recent(k)}, side)

\* Below the trough and closed above it; closed above the peak and the fast
\* average; clear of the bar before the last by a gap.
Manipulation(f, k, side) ==
  k > 2 /\ Toward(side, Behind(f[k], side), Trough(f, k, side)) > 0
        /\ Toward(side, Trough(f, k, side), f[k].close) > 0
Distribution(f, k, side) ==
  k > 2 /\ Toward(side, Peak(f, k, side), f[k].close) > 0 /\ side \in f[k].fast
GapSize(f, k, side) == IF k <= 2 THEN 0 ELSE Higher(0, Toward(side, Fore(f[k - 2], side), Behind(f[k], side)))

\* The last of the recent bars, this one included, that has a property.
LastWith(k, P(_)) ==
  LET found == {j \in Higher(1, k - LookBack) .. k : P(j)}
  IN  IF found = {} THEN {} ELSE {Max(found)}
Swept(f, k, side) == LastWith(k, LAMBDA j : Manipulation(f, j, side))
Gapped(f, k, side) == LastWith(k, LAMBDA j : GapSize(f, j, side) >= MinGap)

\* The close is not behind the average price of the day.
FairlyPriced(f, k, side) ==
  LET volume == SumFunction([j \in SoFar(f, k) |-> f[j].volume])
      paid == SumFunction([j \in SoFar(f, k) |-> (f[j].high + f[j].low + f[j].close) * f[j].volume])
  IN  Toward(side, paid, 3 * f[k].close * volume) >= 0

Score(f, k, side) ==
  (IF Swept(f, k, side) # {} THEN 40 ELSE 0) + (IF Distribution(f, k, side) THEN 30 ELSE 0)
    + (IF Gapped(f, k, side) # {} THEN 30 ELSE 0)
    + (IF 4 * GapSize(f, k, side) >= 5 * MinGap THEN 10 ELSE 0)
    + (IF side \in f[k].ema THEN 20 ELSE 0) + (IF FairlyPriced(f, k, side) THEN 10 ELSE 0)
    + (IF side \in f[k].macd THEN 10 ELSE 0)

Passes(f, k, side) ==
  /\ Swept(f, k, side) # {} /\ Gapped(f, k, side) # {} /\ Distribution(f, k, side)
  /\ side \in f[k].ema /\ FairlyPriced(f, k, side)

\* The stop is behind the bar and the gap that it came from, and behind the close.
AmdStop(f, k, side) ==
  LET anchor == Furthest({Behind(f[k], side)} \cup {Fore(f[j], side) : j \in Gapped(f, k, side)}, Flip(side))
      stop == IF side = Buy THEN anchor - AmdBuffer ELSE anchor + AmdBuffer
  IN  IF Toward(side, stop, f[k].close) > 0 THEN stop
      ELSE IF side = Buy THEN f[k].close - AmdBuffer ELSE f[k].close + AmdBuffer

\* One at least.
AmdQuantity(entry, stop) == Higher(1, AmdBudget \div Gap(entry, stop))

\* The signal of a bar for a side, if it has one.
AmdSignal(f, k, side) ==
  LET stop == AmdStop(f, k, side)
  IN  IF Passes(f, k, side) /\ Score(f, k, side) >= AmdScore
      THEN {[at |-> k, side |-> side, entry |-> f[k].close, stop |-> stop,
             target |-> IF side = Buy THEN f[k].close + (f[k].close - stop) * AmdReward
                                      ELSE f[k].close - (stop - f[k].close) * AmdReward,
             quantity |-> AmdQuantity(f[k].close, stop)]}
      ELSE {}

-----------------------------------------------------------------------------
(* The scan. *)

\* No signal of the side within the cooldown before bar k.
AmdCooled(signals, k, side) == \A s \in signals : s.side = side => k - s.at >= AmdCooldown

\* The day of bar k has a signal left.
DayOpen(f, signals, k) == Cardinality({s \in signals : f[s.at].day = f[k].day}) < AmdDaily

\* One bar, of the signals found: nothing on a day that is full; else the buy
\* signal, else the sell.
Scan(f, found, signals, k) ==
  LET On(side) == IF AmdCooled(signals, k, side) THEN found[k][side] ELSE {}
  IN  IF ~DayOpen(f, signals, k) THEN signals
      ELSE signals \cup (IF On(Buy) # {} THEN On(Buy) ELSE On(Sell))

ScanAll(f, found) ==
  LET upto[k \in 0 .. Len(f)] == IF k <= WarmUp THEN {} ELSE Scan(f, found, upto[k - 1], k)
  IN  upto[Len(f)]

AmdSignals(f) == ScanAll(f, [k \in Bars(f) |-> [side \in Sides |-> AmdSignal(f, k, side)]])

-----------------------------------------------------------------------------
(* Properties. *)

\* A day has no more signals than it may have, and two of a side are never
\* within the cooldown, days apart or not.
AmdSignalsSpaced ==
  LET signals == AmdSignals(tape)
  IN  /\ \A k \in Bars(tape) : Cardinality({s \in signals : tape[s.at].day = tape[k].day}) <= AmdDaily
      /\ \A s, t \in signals : s # t /\ s.side = t.side => Gap(s.at, t.at) >= AmdCooldown

\* Bars that come later neither withdraw a signal nor add one before them: the
\* daily limit is spent on the first bars of a day, whatever follows.
AmdSignalsStay ==
  [][AmdSignals(tape) = {s \in AmdSignals(tape') : s.at <= Len(tape)}]_tape

\* Every signal loses at its stop and wins at its target, whatever the gap it
\* is anchored in; and may lose no more than the budget, unless it is of one.
AmdSignalsAreTrades ==
  \A s \in AmdSignals(tape) :
    /\ Toward(s.side, s.stop, s.entry) > 0 /\ Toward(s.side, s.entry, s.target) > 0
    /\ s.quantity = 1 \/ s.quantity * Gap(s.entry, s.stop) <= AmdBudget
=============================================================================
