----------------------------- MODULE DemandSupply -----------------------------
(***************************************************************************)
(* The demand and supply strategy (demand_supply/service.py): the bases    *)
(* that price departed from, the zones around them, and the bars that came *)
(* back to a zone and confirmed it.                                        *)
(*                                                                         *)
(* Prices and volumes are small integers, ratios are percentages rounded   *)
(* down.  Of the moving averages, which depend on the past alone, a bar    *)
(* carries the sides that those of 21 and 50 back (ema), of the average    *)
(* price of the day the sides that the close is not behind of (fair).  The *)
(* session filter is off, as it is by default.                             *)
(***************************************************************************)
EXTENDS CandleFrame

CONSTANTS MinBase, MaxBase,      \* min_base_candles, max_base_candles
          MaxBasePct,            \* max_base_range_pct, in percent
          MaxOverlap,            \* max_base_overlap_ratio, in percent
          MinDeparture,          \* min_departure_ratio, in percent
          MinImpulse,            \* min_impulse_strength, in percent
          MinVolume,             \* min_volume_expansion, in percent
          MinScore,              \* min_total_score
          MaxTests,              \* max_retests
          MaxRetestBars,         \* max_retest_bars
          CutoffBar,             \* entry_cutoff_time: the last bar of a day that may enter
          CooldownBars,          \* cooldown_minutes
          MeanBars, AtrBars,     \* 20 and 14: the bars that the means are of
          ZoneReward,            \* min_rr_ratio
          ZoneBudget,            \* capital * risk_pct
          StopBuffer,            \* the distance of a stop from its zone
          MinReaction,           \* 45: the strength a confirmation must have
          VolFloor               \* volatility_floor_pct, in percent

VARIABLE history   \* the frame the strategy is run over

ASSUME ZonesAssumption ==
  /\ {MinBase, StopBuffer, ZoneReward, MinDeparture, MinImpulse, MinVolume, AtrBars, MeanBars} \subseteq Nat \ {0}
  /\ {MaxBase, ZoneBudget, MaxRetestBars, CooldownBars, MaxBasePct, MaxTests, MinScore} \subseteq Nat /\ MaxBase >= MinBase

Percent(part, whole) == IF whole = 0 THEN 0 ELSE (100 * part) \div whole

Span(bar) == bar.high - bar.low
Body(bar) == Gap(bar.open, bar.close)
LastBars(k, bars) == Higher(1, k - bars + 1) .. k
Mean(values) == [sum |-> SumFunction(values), of |-> Cardinality(DOMAIN values)]

TrueRange(f, k) ==
  IF k = 1 THEN Span(f[k])
  ELSE Max({Span(f[k]), Gap(f[k].high, f[k - 1].close), Gap(f[k].low, f[k - 1].close)})
Atr(f, k) == Mean([j \in LastBars(k, AtrBars) |-> TrueRange(f, j)])

\* The volume of a bar as a percentage of the mean volume by then.
VolumeRatio(f, k) ==
  LET mean == Mean([j \in LastBars(k, MeanBars) |-> f[j].volume])
  IN  IF mean.sum = 0 THEN 100 ELSE Percent(f[k].volume * mean.of, mean.sum)

-----------------------------------------------------------------------------
(* Bases and zones. *)

Highest(f, bars) == Max({f[k].high : k \in bars})
Lowest(f, bars) == Min({f[k].low : k \in bars})

\* How much of what two bars span they share.
Overlap(left, right) ==
  Percent(Higher(0, Lower(left.high, right.high) - Higher(left.low, right.low)),
          Higher(left.high, right.high) - Lower(left.low, right.low))

\* The moves into a base of n bars that starts at bar s, and out of it.
LegIn(f, s) == f[s - 1].close - f[Higher(s - 2, 1)].close
LegOut(f, s, n) == f[s + n].close - f[s + n - 1].close

\* Mutant: the range is that of the newest bar's time.
DepartureNow(f, s, n) ==
  LET base == s .. s + n - 1
      height == Highest(f, base) - Lowest(f, base)
      move == Gap(LegOut(f, s, n), 0)
      atr == Atr(f, Len(f))
  IN  [ratio |-> IF height = 0 THEN 100 * MinDeparture ELSE Percent(move, height),
       impulse |-> IF atr.sum = 0 THEN 100 * MinImpulse ELSE Percent(move * atr.of, atr.sum)]

\* Strong against the size of the base, and against the range of the time.
Departure(f, s, n) ==
  LET base == s .. s + n - 1
      height == Highest(f, base) - Lowest(f, base)
      move == Gap(LegOut(f, s, n), 0)
      atr == Atr(f, s + n)
  IN  [ratio |-> IF height = 0 THEN 100 * MinDeparture ELSE Percent(move, height),
       impulse |-> IF atr.sum = 0 THEN 100 * MinImpulse ELSE Percent(move * atr.of, atr.sum)]

\* The height of a base as a percentage of its middle.
BasePct(f, base) ==
  Percent(2 * (Highest(f, base) - Lowest(f, base)), Highest(f, base) + Lowest(f, base))

IsStructure(f, s, n) ==
  LET base == s .. s + n - 1
  IN  /\ BasePct(f, base) <= MaxBasePct
      /\ SumFunction([k \in s + 1 .. s + n - 1 |-> Overlap(f[k - 1], f[k])])
           <= MaxOverlap * Higher(n - 1, 1)
      /\ \A k \in base : 100 * Body(f[k]) <= 55 * Span(f[k])
      /\ LegIn(f, s) # 0 /\ LegOut(f, s, n) # 0
      /\ Departure(f, s, n).ratio >= MinDeparture
      /\ Departure(f, s, n).impulse >= MinImpulse

\* The structures: the departure may not be the last bar.
Structures(f) ==
  {at \in (2 .. Len(f)) \X (MinBase .. MaxBase) : at[1] + at[2] < Len(f) /\ IsStructure(f, at[1], at[2])}

\* The bases are looked at one after the other, the shorter ones first.
BaseCount(f) == Len(f) * (MaxBase - MinBase + 1)
BaseAt(f, i) == <<1 + ((i - 1) % Len(f)), MinBase + ((i - 1) \div Len(f))>>

\* A base that price left upwards is demand: from its lowest low to its highest
\* body; one that it left downwards is supply.
Bounds(f, at) ==
  LET base == at[1] .. at[1] + at[2] - 1
      Bodies(Of(_)) == {Of({f[k].open : k \in base}), Of({f[k].close : k \in base})}
      whole == [low |-> Lowest(f, base), high |-> Highest(f, base)]
      zone == IF LegOut(f, at[1], at[2]) > 0 THEN [whole EXCEPT !.high = Min(Bodies(Max))]
                                             ELSE [whole EXCEPT !.low = Max(Bodies(Min))]
  IN  IF zone.high <= zone.low THEN whole ELSE zone

\* The name of a zone is its kind and the positions of its base in the frame.
ZoneId(f, at) == <<LegIn(f, at[1]) > 0, LegOut(f, at[1], at[2]) > 0, at>>

Zone(f, at) ==
  [id |-> ZoneId(f, at), side |-> IF LegOut(f, at[1], at[2]) > 0 THEN Buy ELSE Sell,
   low |-> Bounds(f, at).low, high |-> Bounds(f, at).high, start |-> at[1], end |-> at[1] + at[2] - 1]

After(f, zone) == zone.end + 1 .. Len(f)
Touches(bar, zone) == bar.low <= zone.high /\ bar.high >= zone.low
Tests(f, zone) == {k \in After(f, zone) : Touches(f[k], zone)}
Violated(f, zone) ==
  \E k \in After(f, zone) :
    IF zone.side = Buy THEN f[k].close < zone.low ELSE f[k].close > zone.high

-----------------------------------------------------------------------------
(* Scores, of 100 each. *)

MoveAway(f, zone) ==
  Lower(100, (40 * Departure(f, zone.start, zone.end + 1 - zone.start).ratio) \div MinDeparture)
Tightness(f, zone) ==
  Higher(0, 100 - Percent(BasePct(f, zone.start .. zone.end), MaxBasePct))
Freshness(f, zone) ==
  Higher(0, 100 - 35 * Cardinality(Tests(f, zone)) - IF Violated(f, zone) THEN 30 ELSE 0)
VolumeScore(f, zone) == Lower(100, (70 * VolumeRatio(f, zone.end + 1)) \div MinVolume)
Clarity(f, zone) ==
  Lower(100, (55 * Departure(f, zone.start, zone.end + 1 - zone.start).impulse) \div MinImpulse
               + (45 * (2 - Lower(2, Cardinality(Tests(f, zone))))) \div 2)
Strength(f, zone) == (45 * MoveAway(f, zone) + 35 * Clarity(f, zone) + 20 * VolumeScore(f, zone)) \div 100
Cleanliness(f, zone) == (55 * Tightness(f, zone) + 45 * Clarity(f, zone)) \div 100
TotalScore(f, zone) ==
  (30 * Strength(f, zone) + 25 * Freshness(f, zone) + 20 * Cleanliness(f, zone)
     + 10 * VolumeScore(f, zone) + 10 * (IF zone.side \in f[zone.end].ema THEN 100 ELSE 35)
     + 5 * (IF zone.side \in f[zone.end].fair THEN 100 ELSE 40)) \div 100

-----------------------------------------------------------------------------
(* Trades. *)

\* The first bar that came back to the zone, if any did.
FirstTouch(f, zone) == IF Tests(f, zone) = {} THEN {} ELSE {Min(Tests(f, zone))}

\* A bar that closed away from the zone, with a body; the first such bar soon
\* after the first touch, if there is one.
Confirms(bar, zone) ==
  /\ 100 * Body(bar) >= 50 * Span(bar)
  /\ IF zone.side = Buy THEN bar.close > bar.open /\ bar.close >= zone.high
                        ELSE bar.close < bar.open /\ bar.close <= zone.low
Confirmations(f, zone) ==
  UNION {{k \in touch + 1 .. Lower(Len(f), touch + Higher(MaxRetestBars, 1)) : Confirms(f[k], zone)} :
           touch \in FirstTouch(f, zone)}
Entries(f, zone) ==
  IF Confirmations(f, zone) = {} THEN {} ELSE {Min(Confirmations(f, zone))}

\* The strength of a bar for a side: its body and the wick behind it.
Rejection(bar, side) ==
  LET wick == IF side = Buy THEN Lower(bar.open, bar.close) - bar.low
                            ELSE bar.high - Higher(bar.open, bar.close)
  IN  IF Span(bar) = 0 THEN 0 ELSE (60 * Body(bar) + 40 * wick) \div Span(bar)

\* A zone that was left strongly, or was tight, besides what Accepted asks.
StrictScore(f, zone) ==
  (IF Cardinality(Tests(f, zone)) <= 1 /\ ~Violated(f, zone) THEN 2 ELSE 0)
    + (IF MoveAway(f, zone) >= 50 THEN 2 ELSE 0) + (IF Cleanliness(f, zone) >= 45 THEN 2 ELSE 0)
    + 4   \* a confirmed retest, a strong rejection, a clear structure

StopOf(zone) == IF zone.side = Buy THEN zone.low - StopBuffer ELSE zone.high + StopBuffer
Risk(f, k, zone) == Gap(f[k].close, StopOf(zone))

\* The bars that the zone alone may be traded at: every reason to reject it but
\* the trades before it.
Accepted(f, zone) ==
  {k \in Entries(f, zone) :
     /\ Cardinality(SoFar(f, k)) <= CutoffBar
     /\ zone.side \in f[k].ema /\ zone.side \in f[k].fair
     /\ 100 * Atr(f, k).sum >= VolFloor * Atr(f, k).of * f[k].close
     /\ Rejection(f[k], zone.side) >= MinReaction
     /\ ~Violated(f, zone) /\ Cardinality(Tests(f, zone)) <= MaxTests
     /\ Clarity(f, zone) >= 50
     /\ TotalScore(f, zone) >= MinScore /\ TotalScore(f, zone) >= 40
     /\ StrictScore(f, zone) >= 7}

\* Mutant: the trades of the request itself are not counted.
CooledBefore(trades, k) == TRUE

\* A bar at least the cooldown after the entry of the last trade.
Cooled(trades, k) == trades = <<>> \/ k - Last(trades).at >= CooldownBars

\* The trade of a base, if it makes a zone that leaves one.
Offers(f, at) ==
  LET zone == Zone(f, at)
      Trade(k) == [zone |-> zone, at |-> k, entry |-> f[k].close, stop |-> StopOf(zone),
                   quantity |-> IF Risk(f, k, zone) = 0 THEN 0 ELSE ZoneBudget \div Risk(f, k, zone),
                   target |-> IF zone.side = Buy
                              THEN f[k].close + (f[k].close - StopOf(zone)) * ZoneReward
                              ELSE f[k].close - (StopOf(zone) - f[k].close) * ZoneReward]
  IN  IF at \in Structures(f) THEN {t \in {Trade(k) : k \in Accepted(f, zone)} : t.quantity > 0} ELSE {}

\* What is offered is taken, unless it is too soon after the last one.
Consider(trades, offers) ==
  LET taken == {t \in offers : Cooled(trades, t.at)}
  IN  IF taken = {} THEN trades ELSE Append(trades, CHOOSE t \in taken : TRUE)

ConsiderAll(offers) ==
  LET upto[i \in 0 .. Len(offers)] == IF i = 0 THEN <<>> ELSE Consider(upto[i - 1], offers[i])
  IN  upto[Len(offers)]

\* The candidates, base by base.
Candidates(f) == ConsiderAll([i \in 1 .. BaseCount(f) |-> Offers(f, BaseAt(f, i))])

-----------------------------------------------------------------------------
(* Properties. *)

\* The zones and the bars each may be traded at.
Tradable(f) == UNION {{<<Zone(f, at), k>> : k \in Accepted(f, Zone(f, at))} : at \in Structures(f)}

\* Later bars only withdraw: the structures of a frame keep their bounds and their names,
\* and no zone may be traded at a bar but the newest that could not be before it came
\* (every request scores all zones again, with all bars after them).  The candidates are
\* then chosen anew: one that is withdrawn may make room for another.
ZonesOnlyFade ==
  [][/\ {Zone(history, at) : at \in Structures(history)}
          \subseteq {Zone(history', at) : at \in Structures(history')}
     /\ \A offer \in Tradable(history') \ Tradable(history) : offer[2] = Len(history')]_history

\* The candidates of one request enter one after the other, never two within the
\* cooldown, whatever the order in which the zones were found.
CandidatesSpaced ==
  \A trades \in {Candidates(history)} :
    \A i, j \in DOMAIN trades : i < j => trades[j].at - trades[i].at >= CooldownBars

\* A candidate enters after the base of its zone, on the winning side of the
\* zone; loses at its stop, beyond the zone; and may lose no more than the budget.
CandidatesAreTrades ==
  \A t \in ToSet(Candidates(history)) :
    /\ t.at > t.zone.end + 1
    /\ IF t.zone.side = Buy THEN t.stop < t.zone.low /\ t.zone.high <= t.entry /\ t.entry < t.target
                            ELSE t.stop > t.zone.high /\ t.zone.low >= t.entry /\ t.entry > t.target
    /\ t.quantity * Gap(t.entry, t.stop) <= ZoneBudget
=============================================================================
