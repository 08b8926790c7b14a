----------------------------- MODULE Instruments -----------------------------
(***************************************************************************)
(* The list of instruments of the broker (data/dhan_security_map.csv), as  *)
(* two parts of the program read it: dhan_security_map.py for candles and  *)
(* payload_builder.py for orders.                                          *)
(*                                                                         *)
(* A row has the columns security_id, symbol, underlying, trading_symbol   *)
(* and the name before its hyphen, instrument, option (whether             *)
(* option_type is one), exchange, segment ("E" or "D") and told, its       *)
(* exchange_segment (<<>>: blank).  A segment is written as the two words  *)
(* of its name.  Rows without an id are not read.                          *)
(***************************************************************************)
EXTENDS Integers, Sequences, FiniteSetsExt

CONSTANTS
  ListedRows,   \* rows that may be listed
  MaxListed,    \* bound of the rows
  Symbols,      \* symbols of trades
  Strategy      \* the strategy of a trade

VARIABLE listing   \* the rows, in their order

ASSUME ListingAssumption == \A row \in ListedRows : row.option \in BOOLEAN

Unlisted == [id |-> 0]
Indexes == {"NIFTY", "BANKNIFTY", "FINNIFTY", "MIDCPNIFTY"}
Derivatives == {"OPTIDX", "OPTSTK", "FUTIDX", "FUTSTK"}

-----------------------------------------------------------------------------
(* Candles. *)

\* YAHOO_SYMBOL_ALIASES.
NormalizeTradingSymbol(name) ==
  CASE name \in {"^NSEI", "NSEI"} -> "NIFTY" [] name \in {"^NSEBANK", "NSEBANK"} -> "BANKNIFTY" [] OTHER -> name

\* What is told, or the head of the name of a derivative, or the name.
InferUnderlyingSymbol(row) ==
  NormalizeTradingSymbol(IF row.underlying # "" THEN row.underlying
                         ELSE IF row.instrument \in Derivatives THEN row.head ELSE row.trading)

\* Whatever has an index as its underlying is one, its options and futures too.
InferExchangeSegment(row) ==
  IF row.instrument = "INDEX" \/ InferUnderlyingSymbol(row) \in Indexes THEN <<"IDX", "I">>
  ELSE <<row.exchange, IF row.segment = "D" THEN "FNO" ELSE "EQ">>

CandleSegment(row) == IF row.told # <<>> THEN row.told ELSE InferExchangeSegment(row)

\* Every name of a row, which its first row keeps.
InstrumentAliases(row) == {row.trading, row.symbol, InferUnderlyingSymbol(row)} \ {""}

\* Of some of the rows, by their places, the first and the last.
FirstRow(rows, places) == IF places = {} THEN Unlisted ELSE rows[Min(places)]
LastRow(rows, places) == IF places = {} THEN Unlisted ELSE rows[Max(places)]

OfUnderlying(rows, name) == {k \in DOMAIN rows : InferUnderlyingSymbol(rows[k]) = name}

\* The first that is no option, else the first.
PreferCash(rows, places) ==
  LET cash == {k \in places : ~rows[k].option}
  IN  FirstRow(rows, IF cash # {} THEN cash ELSE places)

FindCashInstrument(rows, symbol) ==
  LET name == NormalizeTradingSymbol(symbol)
      listed == OfUnderlying(rows, name)
  IN  IF listed # {} THEN PreferCash(rows, listed)
      ELSE FirstRow(rows, {k \in DOMAIN rows : name \in InstrumentAliases(rows[k])})

-----------------------------------------------------------------------------
(* Orders. *)

\* Letters and digits alone.
NormalizedKey(name) == CASE name = "^NSEI" -> "NSEI" [] name = "^NSEBANK" -> "NSEBANK" [] OTHER -> name

\* The instrument class is a name too.
AliasesForRow(row) == {NormalizedKey(name) : name \in {row.symbol, row.underlying, row.trading, row.instrument}} \ {""}

\* If nothing has the symbol as a name, the name of the strategy will do.
CandidateKeys(symbol) == <<NormalizedKey(symbol), NormalizedKey(Strategy)>>

\* The last row of a name takes it.
ResolveSecurity(rows, symbol) ==
  LET Of(key) == {k \in DOMAIN rows : key \in AliasesForRow(rows[k])}
      keys == CandidateKeys(symbol)
  IN  LastRow(rows, IF Of(keys[1]) # {} THEN Of(keys[1]) ELSE Of(keys[2]))

\* A segment that is blank is taken for derivatives.
OrderSegment(row) == IF row.told # <<>> THEN row.told ELSE <<"NSE", "FNO">>

\* A trade of a symbol that nothing names is refused.  The instrument and its
\* segment, a side, market orders without a price.
BuildDhanOrderRequest(rows, symbol, side) ==
  LET row == ResolveSecurity(rows, symbol)
  IN  IF row = Unlisted THEN Unlisted
      ELSE [id |-> row.id, segment |-> OrderSegment(row), side |-> IF side = "BUY" THEN "BUY" ELSE "SELL",
            option |-> row.option]

-----------------------------------------------------------------------------
ListingInit == listing = <<>>
ListingNext ==
  Len(listing) < MaxListed /\ \E row \in ListedRows : (\A k \in DOMAIN listing : listing[k] # row) /\ listing' = Append(listing, row)

-----------------------------------------------------------------------------
(* Properties. *)

Candles(symbol) == FindCashInstrument(listing, symbol)
Order(symbol) == BuildDhanOrderRequest(listing, symbol, "BUY")
Named(symbol) == {k \in DOMAIN listing : NormalizedKey(symbol) \in AliasesForRow(listing[k])
                                          \/ NormalizeTradingSymbol(symbol) \in InstrumentAliases(listing[k])}

\* Rows that are added never take the candles of a symbol away from an
\* instrument that is no option; its orders they do take.
CandlesStay ==
  [][\A symbol \in Symbols :
       LET before == FindCashInstrument(listing, symbol)
           after == FindCashInstrument(listing', symbol)
       IN  before # Unlisted /\ after # before => before.option \/ OfUnderlying(listing, NormalizeTradingSymbol(symbol)) = {}]_listing

\* Candles and orders are of one instrument if one row alone has the name, and
\* has it for both.  With several the order may be for an option listed after
\* the share whose candles were judged; with a name for candles alone, as
\* ^NSEI, it is refused or for what has the name of the strategy.
OneInstrumentAlone ==
  \A symbol \in Symbols : \A k \in DOMAIN listing :
    Named(symbol) = {k} /\ NormalizedKey(symbol) \in AliasesForRow(listing[k]) /\ Candles(symbol) # Unlisted
      => Order(symbol).id = Candles(symbol).id

\* The segments of candles and orders are the same where the row tells them;
\* where it does not they are never for a derivative of an index, and for
\* every share the order goes to the derivatives.
SegmentsAgreeWhereTold ==
  \A k \in DOMAIN listing :
    LET row == listing[k]
    IN  CandleSegment(row) = OrderSegment(row)
          <=> row.told # <<>> \/ (row.segment = "D" /\ row.exchange = "NSE" /\ row.instrument # "INDEX"
                                 /\ InferUnderlyingSymbol(row) \notin Indexes)
=============================================================================
