----------------------------- MODULE MCServices -----------------------------
(***************************************************************************)
(* The services that share no state, side by side in one run: each         *)
(* behaviour is one of one service, which the first step never changes.    *)
(***************************************************************************)
EXTENDS DirectExecution, DashboardViews, Figures, ProductionSignals, Identities, Observability, TradeValidation,
        AnalysisRun, TLC

CONSTANTS i1, i2, i3, r1, r2, c1, c2, w1, w2, a1, a2

\* Renaming readers, writers and runs of analyses changes nothing.
MCSymmetry == Permutations({r1, r2}) \cup Permutations({w1, w2}) \cup Permutations({a1, a2})

VARIABLE service   \* the one that moves

MCRequestedStatus == (i1 :> "") @@ (i2 :> "") @@ (i3 :> "PENDING")

Trade(entry, exit, pnl, status, fault) ==
  [entry |-> entry, exit |-> exit, pnl |-> pnl, status |-> status, fault |-> fault, setup |-> "setup"]
MCRows ==
  { Trade(1, 2, 2, "CLOSED", ""), Trade(2, 3, -1, "CLOSED", ""), Trade(3, 4, 2, "CLOSED", ""),
    Trade(4, 5, -3, "CLOSED", ""), Trade(5, 7, 2, "CLOSED", ""), Trade(3, 0, 0, "OPEN", ""),
    Trade(4, 6, 2, "", "DUPLICATE_TRADE") }

-----------------------------------------------------------------------------
(* The candles that may come next: every one backs the same sides with all *)
(* its indicators, but where a strategy tells them apart.                  *)

Candle(o, h, l, c, v, sides) ==
  [day |-> 1, open |-> o, high |-> h, low |-> l, close |-> c, volume |-> v,
   ema |-> sides, slow |-> sides, fast |-> sides, macd |-> sides, fair |-> sides,
   average |-> l, worn |-> {}, turning |-> {}]
UpsideDown(bar) ==
  [Candle(Turned(bar.open), Turned(bar.low), Turned(bar.high), Turned(bar.close), bar.volume,
          {Flip(side) : side \in bar.ema}) EXCEPT !.macd = {Flip(side) : side \in bar.macd},
     !.average = Turned(bar.average), !.worn = {Flip(side) : side \in bar.worn},
     !.turning = {Flip(side) : side \in bar.turning}]
Both(bars) == bars \cup {UpsideDown(bar) : bar \in bars}

IntradayCandles ==
  { Candle(3, 6, 2, 6, 1, {Buy}), Candle(5, 6, 2, 2, 1, {Sell}),
    [Candle(5, 8, 4, 8, 2, {Buy}) EXCEPT !.macd = Sides],
    [Candle(4, 4, 0, 1, 1, {Sell}) EXCEPT !.macd = Sides] }

\* A base, a departure and a confirmation, and the same once more above them.
Base1 == Candle(4, 5, 3, 4, 1, Sides)
Base2 == Candle(11, 12, 10, 11, 1, Sides)
Leaves1 == Candle(4, 9, 4, 9, 2, {Buy})
Leaves2 == Candle(11, 16, 11, 16, 2, {Buy})
Confirms1 == Candle(7, 10, 6, 10, 2, {Buy})
Confirms2 == Candle(14, 17, 13, 17, 2, {Buy})
Drifts == Candle(6, 7, 5, 5, 1, Sides)
Slips == Candle(5, 5, 4, 4, 2, Sides)
ZoneCandles ==
  << {Candle(2, 4, 1, 1, 1, Sides)}, {Drifts}, {Base1}, {Leaves1, Base1}, {Confirms1, Leaves1},
     {Base2, Confirms1, Slips}, {Leaves2, Slips}, {Confirms2} >>

\* A sweep, and breakouts that leave a gap.
Flat == Candle(10, 12, 8, 10, 1, {})
Sweeps == [Candle(9, 10, 6, 9, 1, {Buy}) EXCEPT !.average = 11, !.worn = {Buy}]
Breaks == Candle(11, 15, 11, 14, 1, {Buy})
BreaksAgain == [Candle(17, 20, 16, 20, 3, {Buy}) EXCEPT !.average = 21, !.worn = {Sell}, !.turning = {Sell}]
AmdCandles == {Flat, BreaksAgain} \cup Both({Sweeps, Breaks})

\* Two days are enough: no strategy looks further than from one day into the next.
OneNight(frame) == Last(frame).day <= 2

MCArrives ==
  \/ /\ service = "intraday" /\ Len(intraday) < 5
     /\ \E candle \in IntradayCandles : intraday' \in Longer(intraday, candle, {0, 1}) /\ OneNight(intraday')
     /\ UNCHANGED <<history, tape>>
  \/ /\ service = "zones" /\ Len(history) < Len(ZoneCandles)
     /\ \E candle \in Both(ZoneCandles[Len(history) + 1]) : history' \in Longer(history, candle, {0})
     /\ UNCHANGED <<intraday, tape>>
  \/ /\ service = "amd" /\ Len(tape) < 6
     /\ \/ \E candle \in IF Len(tape) = 0 THEN {Flat} ELSE AmdCandles : tape' \in Longer(tape, candle, {0})
        \/ /\ Len(tape) = 3
           /\ \E candle \in {BreaksAgain, UpsideDown(Breaks)} : tape' \in Longer(tape, candle, {1})
     /\ UNCHANGED <<intraday, history>>

MCNextCandles ==
  IntradayCandles \cup UNION {Both(ZoneCandles[i]) : i \in DOMAIN ZoneCandles}
    \cup AmdCandles \cup {Flat, UpsideDown(Breaks)}

MCAsks == {<<c1, "YAHOO", 1, FALSE>>, <<c1, "DHAN", 2, TRUE>>, <<c2, "AUTO", 1, FALSE>>}

Fact(time, side, entry, stop, target) ==
  [time |-> time, side |-> side, entry |-> entry, stop |-> stop, target |-> target, quantity |-> 2,
   zone |-> <<"zone", time>>, zoneType |-> <<"DEMAND">>, setup |-> <<"DBR">>, score |-> 70]
MCFacts ==
  { Fact(1, "BUY", 10, 8, 14), Fact(2, "BUY", 10, 8, 14), Fact(2, "BUY", 11, 8, 17),
    Fact(2, "SELL", 11, 12, 9), Fact(3, "SELL", 3, 6, -3) }

Row(time, o, h, l, c, v, gaps) ==
  [time |-> time, open |-> o, high |-> h, low |-> l, close |-> c, volume |-> v, gaps |-> gaps]
MCRowsSeen ==
  { Row(11, 5, 6, 4, 5, 2, {}), Row(12, 5, 8, 5, 7, 1, {}), Row(12, 5, 9, 5, 8, 0, {"volume"}), Row(13, 7, 7, 0, 3, 1, {}),
    Row(12, 5, 6, 4, 5, -1, {}), Row(0, 5, 6, 4, 5, 1, {"time"}), Row(11, 5, 6, 4, 0, 1, {"price"}),
    Row(12, 5, 8, 5, 6, 1, {}), Row(21, 6, 9, 6, 8, 0, {}), Row(22, 8, 8, 3, 4, 1, {}) }

MCRawScores == {-1, 1, 4, 9, 10, 11, 60, 100}

Noted(id, entry, exit, pnl, status, verdict) ==
  [id |-> id, contract |-> <<"N", "BUY", entry>>, exit |-> exit, pnl |-> pnl, status |-> status, verdict |-> verdict,
   reasons |-> IF verdict = "FAIL" THEN {"weak_zone_score"} ELSE {}, points |-> Unknown, score |-> 50, strong |-> TRUE]
MCBookEntries ==
  { Noted(1, 1, 0, 0, "EXECUTED", "PASS"), Noted(1, 1, 4, 5, "CLOSED", "PASS"), Noted(0, 2, 3, -2, "CLOSED", "PASS"),
    Noted(3, 3, 5, -3, "CLOSED", ""), Noted(4, 4, 7, 0, "CLOSED", "PASS"), Noted(5, 5, 0, 0, "BLOCKED", "FAIL"),
    [Noted(6, 6, 2, 4, "CLOSED", "PASS") EXCEPT !.points = 10], [Noted(7, 7, 8, 1, "CLOSED", "FAIL") EXCEPT !.score = 9] }

Ordered(route, auto, type, send, deliver) == [route |-> route, auto |-> auto, type |-> type, send |-> send, deliver |-> deliver]
MCRunAsks ==
  { Ordered(TRUE, TRUE, "LIVE", TRUE, TRUE), Ordered(TRUE, FALSE, "LIVE", FALSE, FALSE),
    Ordered(FALSE, TRUE, "LIVE", TRUE, FALSE), Ordered(FALSE, FALSE, "PAPER", FALSE, FALSE) }

\* A run that notifies is alone: the chat is nothing to the reports.
AloneOrSilent == \A r, other \in Runs : r # other /\ run[r].at # "asked" /\ run[r].ask.send => run[other].at = "asked"

Bar(high, low, close, volume, vwap) == [high |-> high, low |-> low, close |-> close, volume |-> volume, vwap |-> vwap]
MCSeenBars ==
  { Bar(50, 48, 49, 10, 0), Bar(54, 48, 53, 30, 51), Bar(60, 57, 58, 10, 0), Bar(49, 43, 44, 30, 46), Bar(50, 1, 1, 30, 0) }

Listed(id, symbol, underlying, trading, head, instrument, told) ==
  [id |-> id, symbol |-> symbol, underlying |-> underlying, trading |-> trading, head |-> head, instrument |-> instrument,
   option |-> instrument \in {"OPTIDX", "OPTSTK"}, exchange |-> "NSE",
   segment |-> IF instrument \in Derivatives THEN "D" ELSE "E", told |-> told]
MCListedRows ==
  { Listed(1, "NIFTY", "", "NIFTY", "NIFTY", "INDEX", <<"IDX", "I">>), Listed(2, "", "NIFTY", "NIFTY-CE", "NIFTY", "OPTIDX", <<>>),
    Listed(3, "", "", "NIFTY-PE", "NIFTY", "OPTIDX", <<"NSE", "FNO">>), Listed(4, "RELIANCE", "", "RELIANCE", "RELIANCE", "EQUITY", <<>>),
    Listed(5, "", "RELIANCE", "RELIANCE-CE", "RELIANCE", "OPTSTK", <<>>), Listed(6, "", "RELIANCE", "RIL", "RIL", "EQUITY", <<"BSE", "EQ">>),
    Listed(7, "BREAKOUT", "", "BREAKOUT", "BREAKOUT", "EQUITY", <<"NSE", "EQ">>) }

MCFeed == {<<1, 2, 0>>, <<2, 0, 1>>}

\* Bounds: a third operation on the metrics only after two that were alone, two at once
\* only while they have six writes to do, a second request for candles only by the first
\* caller, requests of the production route first by the first caller (both ask the same),
\* a page with the report for one reader at a time, one of the two files rewritten,
\* frames of four rows of which none comes twice.
ThirdAlone == operations = 2 /\ operations' = 3 => ~disturbed'
SixWrites == Len(writer[w1].todo) + Len(writer[w2].todo) <= 6
SecondOnce == calls[c2].asked <= 1
FourRows == Len(received) = MaxFrame => IsInjective(received)
FirstOne == requests[c2].asked <= requests[c1].asked
OneFile == \E f \in DOMAIN files : files[f].signature = 1
OneReport == Cardinality({r \in Readers : request[r].kind = "analysis" \/ "analysis" \in request[r].needs}) <= 1

Services == {"direct", "evaluation", "views", "intraday", "zones", "amd", "candles", "production", "rows", "frame", "metrics", "validation", "book", "analysis", "latest", "instruments"}

frames == <<intraday, history, tape>>

-----------------------------------------------------------------------------
MCInit ==
  /\ service \in Services
  /\ DirectInit /\ EvalInit /\ ViewInit /\ intraday = <<>> /\ history = <<>> /\ tape = <<>>
  /\ CandlesInit /\ ProductionInit /\ SignalsInit /\ FrameInit /\ ObservabilityInit
  /\ ValidationInit /\ BookInit /\ AnalysisInit /\ SeenInit /\ ListingInit

markets == <<candleVars, productionVars, signals, received, observabilityVars>>
ledgers == <<setup, book, analysisVars, seen, listing>>

MCNext ==
  \/ service = "direct" /\ DirectNext /\ UNCHANGED <<service, journal, viewVars, frames, markets, ledgers>>
  \/ service = "evaluation" /\ Record /\ UNCHANGED <<service, directVars, viewVars, frames, markets, ledgers>>
  \/ service = "views" /\ ViewNext /\ OneReport' /\ OneFile' /\ UNCHANGED <<service, directVars, journal, frames, markets, ledgers>>
  \/ MCArrives /\ UNCHANGED <<service, directVars, journal, viewVars, markets, ledgers>>
  \/ service = "candles" /\ CandlesNext /\ now' <= RedisTtl /\ SecondOnce' /\ UNCHANGED <<service, directVars, journal, viewVars, frames, productionVars, signals, received, observabilityVars, ledgers>>
  \/ service = "production" /\ ProductionNext /\ FirstOne' /\ UNCHANGED <<service, directVars, journal, viewVars, frames, signals, received, observabilityVars, ledgers>>
  \/ service = "rows" /\ SignalsNext /\ UNCHANGED <<service, directVars, journal, viewVars, frames, candleVars, productionVars, received, observabilityVars, ledgers>>
  \/ service = "frame" /\ Receive /\ FourRows' /\ UNCHANGED <<service, directVars, journal, viewVars, frames, candleVars, productionVars, signals, observabilityVars, ledgers>>
  \/ service = "metrics" /\ ObservabilityNext /\ ThirdAlone /\ SixWrites'
     /\ UNCHANGED <<service, directVars, journal, viewVars, frames, candleVars, productionVars, signals, received, ledgers>>
  \/ service = "validation" /\ ValidationNext /\ UNCHANGED <<service, directVars, journal, viewVars, frames, markets, book, analysisVars, seen, listing>>
  \/ service = "book" /\ BookNext /\ UNCHANGED <<service, directVars, journal, viewVars, frames, markets, setup, analysisVars, seen, listing>>
  \/ service = "analysis" /\ AnalysisNext /\ AloneOrSilent' /\ UNCHANGED <<service, directVars, journal, viewVars, frames, markets, setup, book, seen, listing>>
  \/ service = "latest" /\ SeenNext /\ UNCHANGED <<service, directVars, journal, viewVars, frames, markets, setup, book, analysisVars, listing>>
  \/ service = "instruments" /\ ListingNext /\ UNCHANGED <<service, directVars, journal, viewVars, frames, markets, setup, book, analysisVars, seen>>

MCSpec == MCInit /\ [][MCNext]_<<service, directVars, journal, viewVars, frames, markets, ledgers>>
=============================================================================
