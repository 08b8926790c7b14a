---------------------------- MODULE CleanTrading ----------------------------
(***************************************************************************)
(* The API beside the platform (src/app/trading_main.py): one request runs *)
(* one strategy over the candles it brings.  Its AMD strategy is that of   *)
(* the platform line by line, and runs over the same frame here.           *)
(*                                                                         *)
(* A bar also carries where the average of 21 is (average), the sides that *)
(* the RSI is worn out for (worn: below its lower bound, above its upper)  *)
(* and those that the MACD leaves its signal for (turning).                *)
(***************************************************************************)
EXTENDS AmdStrategy

CONSTANTS ScanFrom,    \* the bars before the first that is looked at: 20
          RangeBars,   \* lookback
          Stake,       \* capital
          RiskPcts     \* values of risk_pct, in tenths

ASSUME CleanAssumption == ScanFrom \in Nat \ {0} /\ RangeBars \in Nat \ {0} /\ Stake \in Nat /\ RiskPcts \subseteq Nat

\* The capital at risk, in thousandths: a percentage above one, else a fraction.
RiskAmount(pct) == Stake * (IF pct > 10 THEN pct ELSE 100 * pct)

PositionSize(pct, entry, stop) ==
  IF entry = stop THEN 0
  ELSE IF RiskAmount(pct) = 0 THEN 1
  ELSE Higher(1, RiskAmount(pct) \div (1000 * Gap(entry, stop)))

ValidateSignal(s) ==
  /\ s.entry > 0 /\ s.stop > 0 /\ s.target > 0
  /\ Toward(s.side, s.stop, s.entry) > 0 /\ Toward(s.side, s.entry, s.target) > 0

\* A price moved in the direction of a side, and what a stop promises.
Moved(price, by, side) == IF side = Buy THEN price + by ELSE price - by
Reach(close, stop, side) == Moved(close, Gap(close, stop) * AmdReward, side)

\* The signal of a bar that has the points, one at most.
Passed(f, k, side, points, stop, target) ==
  IF points >= 3
  THEN {[at |-> k, side |-> side, entry |-> f[k].close, stop |-> stop, target |-> target]}
  ELSE {}

-----------------------------------------------------------------------------
(* Breakout: of the range of the bars before. *)

RangeEdge(f, k, side) ==
  Furthest({Fore(f[j], side) : j \in Higher(1, k - RangeBars) .. k - 1}, side)

\* The volume of a bar against the average of the range.
Busy(f, k) ==
  LET range == Higher(1, k - RangeBars) .. k - 1
  IN  f[k].volume * Cardinality(range) >= SumFunction([j \in range |-> f[j].volume])

BreakoutPoints(f, k, side) ==
  (IF Toward(side, RangeEdge(f, k, side), f[k].close) > 0 THEN 2 ELSE 0)
    + (IF FairlyPriced(f, k, side) THEN 1 ELSE 0) + (IF Busy(f, k) THEN 1 ELSE 0)

BreakoutAt(f, k, side) ==
  LET anchor == Furthest({Behind(f[k], side), RangeEdge(f, k, side)}, Flip(side))
      stop == Moved(anchor, -AmdBuffer, side)
  IN  Passed(f, k, side, BreakoutPoints(f, k, side), stop, Reach(f[k].close, stop, side))

-----------------------------------------------------------------------------
(* Mean reversion: back to the average of 21, if that is ahead. *)

ReversionPoints(f, k, side) ==
  (IF side \in f[k].worn THEN 2 ELSE 0)
    + (IF Toward(side, f[k].close, f[k].average) > 0 THEN 1 ELSE 0)
    + (IF side \in f[k].turning THEN 1 ELSE 0)

ReversionTarget(f, k, side, stop) ==
  LET reach == Reach(f[k].close, stop, side)
      nearer == Furthest({f[k].average, reach}, Flip(side))
  IN  IF Toward(side, f[k].close, nearer) > 0 THEN nearer ELSE reach

ReversionAt(f, k, side) ==
  LET stop == Moved(Behind(f[k], side), -AmdBuffer, side)
  IN  Passed(f, k, side, ReversionPoints(f, k, side), stop, ReversionTarget(f, k, side, stop))

-----------------------------------------------------------------------------
(* The scan of a frame. *)

SignalAt(name, f, k, side) ==
  IF name = "breakout" THEN BreakoutAt(f, k, side) ELSE ReversionAt(f, k, side)

ScanBar(found, signals, k) ==
  LET On(side) == IF AmdCooled(signals, k, side) THEN found[k][side] ELSE {}
  IN  signals \cup (IF On(Buy) # {} THEN On(Buy) ELSE On(Sell))

ScanBars(found) ==
  LET upto[k \in 0 .. Len(found)] == IF k <= ScanFrom THEN {} ELSE ScanBar(found, upto[k - 1], k)
  IN  upto[Len(found)]

ScanFrame(name, f) == ScanBars([k \in Bars(f) |-> [side \in Sides |-> SignalAt(name, f, k, side)]])

Confluence(f) == AmdSignals(f)

\* The names supply_demand, mtf and btst stand for mean reversion, too.
Registered == {"amd", "breakout", "mean_reversion"}
RunStrategy(name, f) == IF name = "amd" THEN Confluence(f) ELSE ScanFrame(name, f)

\* What a request is answered.
GenerateSignals(name, f) == {s \in RunStrategy(name, f) : ValidateSignal(s)}

-----------------------------------------------------------------------------
(* Properties. *)

\* Stops and targets are on their sides, whichever way the anchor, the range and
\* the average lie: all that the last check takes out are prices that are not
\* above zero (trading_engine.py:20, mean_reversion.py:49, breakout.py:60).
OnlyPricesAreRefused ==
  \A name \in Registered : \A s \in RunStrategy(name, tape) :
    ValidateSignal(s) \/ s.entry <= 0 \/ s.stop <= 0 \/ s.target <= 0

\* Who risks more holds no less, as long as the numbers mean the same: up to one
\* they are fractions, so that one percent is the whole capital
\* (risk_manager.py:9).
MoreRiskHoldsMore ==
  \A name \in Registered : \A s \in RunStrategy(name, tape) : \A p, q \in RiskPcts :
    LET Size(pct) == PositionSize(pct, s.entry, s.stop)
    IN  /\ p <= q /\ ~(p <= 10 /\ q > 10) => Size(p) <= Size(q)
        /\ Size(10) = Higher(1, Stake \div Gap(s.entry, s.stop))

\* Bars that come later neither withdraw a signal nor add one before them, refused
\* or not.
ScansStay ==
  [][\A name \in Registered \ {"amd"} :
       RunStrategy(name, tape) = {s \in RunStrategy(name, tape') : s.at <= Len(tape)}]_tape
=============================================================================
