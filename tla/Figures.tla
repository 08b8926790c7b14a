------------------------------ MODULE Figures ------------------------------
(***************************************************************************)
(* What is made of trades and signals once they are written down: the      *)
(* evaluation of a journal, the metrics over a book of records, and the    *)
(* backtest, beside the frames that the signals come from.                 *)
(***************************************************************************)
EXTENDS AllStrategies, TradeEvaluation, MetricsEngine

figureVars == <<journal, book, frameVars>>

FiguresInit == EvalInit /\ BookInit /\ FramesInit
FiguresNext ==
  \/ Record /\ UNCHANGED <<book, frameVars>>
  \/ BookNext /\ UNCHANGED <<journal, frameVars>>
  \/ FramesNext /\ UNCHANGED <<journal, book>>
FiguresSpec == FiguresInit /\ [][FiguresNext]_figureVars

\* The figures of a journal of trades do not depend on how they were written down,
\* lose no trade and count none twice, and make none ready for live trading; a backtest
\* loses by its costs alone; the two sides of a strategy are treated alike
\* (trade_evaluation.py:172-252,776,976,1302, performance_metrics.py:29, risk_metrics.py:25,
\* utils.py:192, readiness.py:117,142, breakout/service.py:197).
FiguresAddUp ==
  /\ journal # <<>> => OrderIrrelevant /\ DrawdownIsWorst /\ StreaksAgree /\ SegmentsPartition /\ TestedOnce
  /\ book # <<>> => DrawdownMissesFirstLoss /\ ExpectancyIsCautious /\ FormIsFinal
  /\ LiveStaysShut /\ EngineNeverReady /\ WorkspaceRateNeverReached
  /\ BacktestKnowsNoLoss
  /\ SidesMirror
=============================================================================
