---------------------------- MODULE AllStrategies ----------------------------
(***************************************************************************)
(* Every strategy of the platform and of the API beside it, each over a    *)
(* frame of its own that grows by a candle at a time, and the rows of a    *)
(* feed that candles are made of.                                          *)
(***************************************************************************)
EXTENDS IntradayStrategies, DemandSupply, CleanTrading, LatestBarStrategies, CandleProcessing

CONSTANT NextCandles   \* candles that may come

\* A candle as market data leaves it: no price or volume is below zero, and no price is
\* outside of its low and its high (processing.py:178); its averages back sides alone.
\* The API beside the platform takes the candles that are posted, which are assumed to
\* be such.
IsCandle(bar) ==
  /\ {"day", "open", "high", "low", "close", "volume", "average", "ema", "slow", "macd"} \subseteq DOMAIN bar
  /\ {bar.ema, bar.slow, bar.macd} \subseteq SUBSET Sides
  /\ {bar.open, bar.high, bar.low, bar.close, bar.volume, bar.average} \subseteq Nat
  /\ {bar.open, bar.close} \subseteq bar.low .. bar.high

ASSUME FramesAssumption == \A candle \in NextCandles : IsCandle(candle)

frameVars == <<intraday, history, tape, seen, received>>

FramesInit == intraday = <<>> /\ history = <<>> /\ tape = <<>> /\ SeenInit /\ FrameInit

\* The next candle is of the same day, or of the next.
Grown(f) == UNION {Longer(f, candle, {0, 1}) : candle \in NextCandles}

FramesNext ==
  \/ intraday' \in Grown(intraday) /\ UNCHANGED <<history, tape, seen, received>>
  \/ history' \in Grown(history) /\ UNCHANGED <<intraday, tape, seen, received>>
  \/ tape' \in Grown(tape) /\ UNCHANGED <<intraday, history, seen, received>>
  \/ SeenNext /\ UNCHANGED <<intraday, history, tape, received>>
  \/ Receive /\ UNCHANGED <<intraday, history, tape, seen>>

FramesSpec == FramesInit /\ [][FramesNext]_frameVars

\* Whatever the candles, none is lost, made up or out of order, and the signals of each
\* strategy are trades that can win and lose, and are spaced as they should be
\* (processing.py:190,209, breakout/service.py:197, demand_supply/service.py:584,608,
\* amd/service.py:378,505, implementations/breakout.py:17,26).
SignalsAreSound ==
  /\ ProcessedSound /\ LossesCounted /\ ServicesAgree
  /\ SignalsAreTrades
  /\ CandidatesSpaced /\ CandidatesAreTrades
  /\ AmdSignalsSpaced /\ AmdSignalsAreTrades /\ OnlyPricesAreRefused /\ MoreRiskHoldsMore
  /\ RefusedOnlyBelowZero /\ YoungBatchesAreSilent

\* What comes later plays a part only where the code waits for it.  The metrics of earlier
\* candles stay, but their opening range while it lasts.  Once a frame is longer than the
\* period of the RSI, which until then is filled backwards with every bar, no signal is
\* withdrawn or moved, and none appears at an earlier bar but of BTST with the next day's
\* first bar, and of a Breakout or MTF day with the bar that makes it long enough.  Zones
\* are only withdrawn; the signals of the others are those they were (processing.py:303,318,
\* breakout/service.py:73,197, demand_supply/service.py:375, amd/service.py:505,
\* implementations/breakout.py:17).
NothingLooksAhead == NoLookAhead /\ SignalsStay /\ ZonesOnlyFade /\ AmdSignalsStay /\ ScansStay
=============================================================================
