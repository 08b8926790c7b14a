----------------------------- MODULE SignalRows -----------------------------
(***************************************************************************)
(* What becomes of a strategy's signal on its way into an analysis report  *)
(* (strategy_workflow.py, contracts.py): it is given a trade id, becomes a *)
(* row, the row is brought into the contract of trade candidates, and rows *)
(* that break the contract are left out.                                   *)
(*                                                                         *)
(* Prices and scores are integers; a name is written as its words, so that *)
(* <<>> is an empty one; UUID5 and SHA1 are taken for injective.           *)
(***************************************************************************)
EXTENDS Integers, Sequences

CONSTANTS Facts,       \* what a strategy may have found: time, side, levels, zone...
          MaxSignals   \* bound of the signals

VARIABLES signals      \* the signals of the strategy, in their order: those of one
                       \* analysis after another, which may see the last bar again

-----------------------------------------------------------------------------
(* Signals. *)

\* The strategies, and what else than levels and side their signals carry.
Carried ==
  [ Breakout |-> {"quantity"}, DemandSupply |-> {"quantity", "zone", "zoneType", "setup", "score"},
    Indicator |-> {}, OneTradeDay |-> {"quantity"}, MTF |-> {"quantity"}, BTST |-> {"quantity"},
    AMD |-> {"quantity", "zoneType", "score"} ]

\* Names are words.  That of a zone has fewer than that of a trade: it is made of the
\* symbol, the kind and the positions of the zone, without the bars that are between
\* the words of a trade (demand_supply/service.py:398).
IsName(name) == Len(name) \in Nat /\ name = [i \in 1..Len(name) |-> name[i]]
ASSUME FactsAssumption ==
  \A fact \in Facts : /\ IsName(fact.zone) /\ Len(fact.zone) < 5
                      /\ IsName(fact.zoneType) /\ IsName(fact.setup)

Blank == [quantity |-> 0, zone |-> <<>>, zoneType |-> <<>>, setup |-> <<>>, score |-> 0]

\* Mutant: the id forgets the entry price.
TradeIdOfBar(signal) ==
  <<"uuid">> \o IF signal.zone # <<>> THEN signal.zone
                ELSE <<signal.strategy, signal.time, signal.side>> \o signal.setup

\* A zone is one trade; without one, a side and a price at a time are.
TradeId(signal) ==
  <<"uuid">> \o IF signal.zone # <<>> THEN signal.zone
                ELSE <<signal.strategy, signal.time, signal.side, signal.entry>> \o signal.setup

\* The first name there is.
FirstName(names) == LET found == {k \in DOMAIN names : names[k] # <<>>}
                  IN  IF found = {} THEN <<>> ELSE names[CHOOSE k \in found : \A n \in found : k <= n]

StrategySignal(strategy, fact) ==
  LET metadata == [field \in DOMAIN Blank |-> IF field \in Carried[strategy] THEN fact[field] ELSE Blank[field]]
  IN  [strategy |-> strategy, time |-> fact.time, side |-> fact.side, entry |-> fact.entry,
       stop |-> fact.stop, target |-> fact.target, quantity |-> metadata.quantity,
       zone |-> metadata.zone, zoneType |-> metadata.zoneType, score |-> metadata.score,
       setup |-> FirstName(<<metadata.setup, metadata.zoneType, <<strategy>>>>),
       status |-> "PENDING", allowed |-> FALSE]

-----------------------------------------------------------------------------
(* Rows. *)

\* The signal, under its id.  A timeframe is not among what is written to a row.
StrategySignalToRow(signal) ==
  [f \in DOMAIN signal \cup {"id", "timeframe"} |->
     CASE f = "id" -> TradeId(signal) [] f = "timeframe" -> <<>> [] OTHER -> signal[f]]

RowZone(row) ==
  IF row.zone # <<>> THEN row.zone
  ELSE <<row.strategy, "sha1", row.strategy>> \o row.setup \o <<row.time, row.side>>

\* The id a row brings, or else one of its zone.
RowId(row) == IF row.id # <<>> THEN row.id ELSE <<"uuid">> \o RowZone(row)

NormalizeCandidate(row) == [row EXCEPT !.zone = RowZone(row), !.id = RowId(row)]

\* A row as the contract wants it: a strategy's name stands for a missing setup.
StandardizeRow(row) == NormalizeCandidate([row EXCEPT !.setup = FirstName(<<row.setup, row.zoneType, <<row.strategy>>>>)])

Missing(row) == {f \in {"id", "setup", "zone", "timeframe"} : row[f] = <<>>}
NotPositive(row) == {f \in {"score", "entry", "stop", "target", "quantity"} : row[f] <= 0}

\* Why a row is refused.
Reasons(row) ==
  Missing(row) \cup NotPositive(row)
  \cup {f \in {"side"} : row.side \notin {"BUY", "SELL"}}
  \cup {f \in {"status"} : row.status \notin {"PASS", "FAIL", "PENDING"}}

StandardRows(batch) == [k \in DOMAIN batch |-> StandardizeRow(StrategySignalToRow(batch[k]))]

\* What the analysis reports.
ValidRows(rows) == {rows[k] : k \in {k \in DOMAIN rows : Reasons(rows[k]) = {}}}

-----------------------------------------------------------------------------
(* Analyses, as their strategy finds one signal after the other. *)

SignalsInit == signals = <<>>

FindSignal(strategy) ==
  /\ Len(signals) < MaxSignals
  /\ Len(signals) > 0 => signals[1].strategy = strategy
  /\ \E fact \in Facts :
       /\ Len(signals) > 0 => signals[Len(signals)].time <= fact.time
       /\ signals' = Append(signals, StrategySignal(strategy, fact))

SignalsNext == \E strategy \in DOMAIN Carried : FindSignal(strategy)

-----------------------------------------------------------------------------
(* Properties. *)

\* Whatever a strategy finds, the report of a live analysis has no signals: the
\* contract asks for a timeframe, and no signal brings one.
NothingReported == ValidRows(StandardRows(signals)) = {}

\* The id under which a signal is known downstream (reviewed trades, the guard,
\* the ledger) is the one it was created with, however often its row is brought
\* into the contract.
IdsKept ==
  \A k \in DOMAIN signals :
    LET row == StandardizeRow(StrategySignalToRow(signals[k]))
    IN  row.id = TradeId(signals[k]) /\ StandardizeRow(row) = row

\* Two signals, of one analysis or of several, have one id only if they trade the
\* same zone, or are the same trade: same time, side and entry.  A bar that is
\* seen again at another price gives another trade.
IdsTellApart ==
  \A j, k \in DOMAIN signals :
    StandardRows(signals)[j].id = StandardRows(signals)[k].id =>
      \/ signals[j].zone # <<>> /\ signals[j].zone = signals[k].zone
      \/ \A f \in {"zone", "time", "side", "entry"} : signals[j][f] = signals[k][f]
=============================================================================
