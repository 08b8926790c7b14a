--------------------------- MODULE Signals_proofs ---------------------------
(***************************************************************************)
(* What signals, trades and instruments are known by, for whatever a       *)
(* strategy may find and whatever the broker may list; and what every      *)
(* strategy promises of its signals, for whatever candles may come.        *)
(***************************************************************************)
EXTENDS Identities, AllStrategies, SequenceTheorems, WellFoundedInduction, FiniteSetTheorems, TLAPS

-----------------------------------------------------------------------------
(* Places *)

\* Of some numbers one is the first.
LEMMA FirstOfNumbers ==
  ASSUME NEW S, S \subseteq Nat, S # {}
  PROVE  \E x \in S : \A y \in S : x <= y
<1>1. PICK x \in S : \A y \in S : ~(<<y, x>> \in OpToRel(<, Nat))
  BY NatLessThanWellFounded, WFMin
<1>2. \A y \in S : ~(y < x)
  BY <1>1 DEF OpToRel
<1>. QED BY <1>2

LEMMA MinIs ==
  ASSUME NEW S, S \subseteq Nat, S # {}
  PROVE  Min(S) \in S /\ \A y \in S : Min(S) <= y
BY FirstOfNumbers DEF Min

\* The same of a set that has a bound, read from its end.
LEMMA MaxIs ==
  ASSUME NEW n \in Nat, NEW S, S \subseteq 1..n, S # {}
  PROVE  Max(S) \in S /\ \A y \in S : y <= Max(S)
<1>. DEFINE R == {n - y : y \in S}
<1>1. \A y \in S : y \in Int /\ n - y \in Nat
  OBVIOUS
<1>2. R \subseteq Nat /\ R # {}
  BY <1>1
<1>3. PICK x \in R : \A r \in R : x <= r
  <2>. HIDE DEF R
  <2>. QED BY <1>2, FirstOfNumbers
<1>4. PICK z \in S : x = n - z
  OBVIOUS
<1>5. ASSUME NEW y \in S PROVE z >= y
  <2>1. n - y \in R
    OBVIOUS
  <2>. QED BY <1>1, <1>3, <1>4, <2>1, SMTT(30)
<1>6. \E m \in S : \A y \in S : m >= y
  BY <1>5
<1>7. Max(S) \in S /\ \A y \in S : Max(S) >= y
  BY <1>6 DEF Max
<1>. QED BY <1>1, <1>7

LEMMA MinAlone == ASSUME NEW k \in Nat PROVE Min({k}) = k
BY MinIs

LEMMA MaxAlone == ASSUME NEW k \in Nat \ {0} PROVE Max({k}) = k
<1>1. {k} \subseteq 1..k /\ {k} # {}
  OBVIOUS
<1>. QED BY <1>1, MaxIs

-----------------------------------------------------------------------------
(* Instruments *)

\* A row that is added has no underlying but its own.
LEMMA OfUnderlyingGrows ==
  ASSUME NEW R, NEW rows \in Seq(R), NEW row \in R, NEW name
  PROVE  /\ OfUnderlying(rows, name) = OfUnderlying(Append(rows, row), name) \cap (1..Len(rows))
         /\ \A k \in 1..Len(rows) : Append(rows, row)[k] = rows[k]
         /\ OfUnderlying(Append(rows, row), name) \subseteq 1..Len(rows) + 1
<1>1. DOMAIN rows = 1..Len(rows) /\ DOMAIN Append(rows, row) = 1..Len(rows) + 1 /\ Len(rows) \in Nat
  OBVIOUS
<1>2. \A k \in 1..Len(rows) : Append(rows, row)[k] = rows[k]
  OBVIOUS
<1>. HIDE DEF InferUnderlyingSymbol
<1>. QED BY <1>1, <1>2 DEF OfUnderlying

\* Of the rows of an underlying the first that is no option stays the first.
LEMMA CandlesStayStep ==
  ASSUME NEW rows \in Seq(ListedRows), NEW row \in ListedRows, NEW symbol,
         NEW later, later = Append(rows, row),
         FindCashInstrument(later, symbol) # FindCashInstrument(rows, symbol),
         OfUnderlying(rows, NormalizeTradingSymbol(symbol)) # {}
  PROVE  FindCashInstrument(rows, symbol).option
<1>. DEFINE name == NormalizeTradingSymbol(symbol)
            listed == OfUnderlying(rows, name)
            listed2 == OfUnderlying(later, name)
            cash == {k \in listed : ~rows[k].option}
            cash2 == {k \in listed2 : ~later[k].option}
<1>. HIDE DEF name, listed, listed2, cash, cash2
<1>1. /\ listed = listed2 \cap (1..Len(rows))
      /\ \A k \in 1..Len(rows) : later[k] = rows[k]
      /\ listed2 \subseteq 1..Len(rows) + 1 /\ Len(rows) \in Nat
  BY OfUnderlyingGrows DEF listed, listed2
<1>2. listed # {} /\ listed2 # {} /\ listed \subseteq Nat /\ listed2 \subseteq Nat
  BY <1>1 DEF listed, name
<1>3. /\ FindCashInstrument(rows, symbol) = rows[Min(IF cash # {} THEN cash ELSE listed)]
      /\ FindCashInstrument(later, symbol) = later[Min(IF cash2 # {} THEN cash2 ELSE listed2)]
  BY <1>2 DEF FindCashInstrument, PreferCash, FirstRow, listed, listed2, cash, cash2, name
<1>4. CASE cash = {}
  <2>1. Min(listed) \in listed
    BY <1>2, MinIs
  <2>2. rows[Min(listed)].option
    BY <1>4, <2>1 DEF cash
  <2>. QED BY <1>3, <1>4, <2>2
<1>5. CASE cash # {}
  <2>. DEFINE n == Len(rows)
  <2>. HIDE DEF n
  <2>0. /\ listed = listed2 \cap (1..n) /\ listed2 \subseteq 1..n + 1 /\ n \in Nat
        /\ \A k \in 1..n : later[k] = rows[k]
    BY <1>1 DEF n
  <2>1. /\ cash = cash2 \cap (1..n) /\ cash2 \subseteq 1..n + 1
    BY <2>0 DEF cash, cash2
  <2>2. cash2 \subseteq Nat /\ cash \subseteq Nat /\ cash2 # {}
    BY <1>2, <1>5, <2>1 DEF cash, cash2
  <2>3. Min(cash) \in cash /\ \A y \in cash : Min(cash) <= y
    BY <1>5, <2>2, MinIs
  <2>4. Min(cash2) \in cash2 /\ \A y \in cash2 : Min(cash2) <= y
    BY <2>2, MinIs
  <2>. DEFINE a == Min(cash)
              b == Min(cash2)
  <2>. HIDE DEF a, b
  <2>5. a \in cash /\ b \in cash2 /\ (\A y \in cash : a <= y) /\ \A y \in cash2 : b <= y
    BY <2>3, <2>4 DEF a, b
  <2>6. a \in 1..n /\ b \in 1..n + 1 /\ b <= a
    BY <2>1, <2>5
  <2>7. b \in 1..n
    BY <2>0, <2>6
  <2>8. b \in cash /\ a <= b
    BY <2>1, <2>5, <2>7
  <2>9. a = b
    BY <2>0, <2>6, <2>8
  <2>. QED BY <1>3, <1>5, <2>0, <2>2, <2>6, <2>9 DEF a, b
<1>. QED BY <1>4, <1>5

LEMMA OneInstrumentAloneHolds ==
  ASSUME listing \in Seq(ListedRows) PROVE OneInstrumentAlone
<1>. SUFFICES ASSUME NEW symbol \in Symbols, NEW k \in DOMAIN listing, Named(symbol) = {k},
                     NormalizedKey(symbol) \in AliasesForRow(listing[k]), Candles(symbol) # Unlisted
              PROVE  Order(symbol).id = Candles(symbol).id
  BY DEF OneInstrumentAlone
<1>. DEFINE name == NormalizeTradingSymbol(symbol)
            key == NormalizedKey(symbol)
            row == listing[k]
            listed == OfUnderlying(listing, name)
            called == {n \in DOMAIN listing : name \in InstrumentAliases(listing[n])}
<1>1. k \in Nat \ {0}
  OBVIOUS
<1>2. key # "" /\ name # ""
  <2>1. key # ""
    BY DEF AliasesForRow
  <2>. QED BY <2>1 DEF NormalizedKey, NormalizeTradingSymbol
<1>3. called \subseteq {k} /\ listed \subseteq called
  <2>1. called \subseteq {k}
    BY DEF Named
  <2>. HIDE DEF name
  <2>2. listed \subseteq called
    BY <1>2 DEF OfUnderlying, InstrumentAliases
  <2>. QED BY <2>1, <2>2
<1>4. Candles(symbol) = row
  <2>. HIDE DEF name, called
  <2>1. FirstRow(listing, {k}) = row
    BY <1>1, MinAlone DEF FirstRow
  <2>2. Candles(symbol) = IF listed # {} THEN PreferCash(listing, listed) ELSE FirstRow(listing, called)
    BY DEF Candles, FindCashInstrument, name, called
  <2>. HIDE DEF listed, row
  <2>3. CASE listed # {}
    <3>1. listed = {k}
      BY <1>3, <2>3
    <3>2. \/ {n \in {k} : ~listing[n].option} = {}
          \/ {n \in {k} : ~listing[n].option} = {k}
      OBVIOUS
    <3>3. PreferCash(listing, {k}) = FirstRow(listing, {k})
      BY <3>2 DEF PreferCash
    <3>. QED BY <2>1, <2>2, <2>3, <3>1, <3>3
  <2>4. CASE listed = {}
    <3>1. called = {k}
      BY <1>3, <2>2, <2>4 DEF FirstRow
    <3>. QED BY <2>1, <2>2, <2>4, <3>1
  <2>. QED BY <2>3, <2>4
<1>5. ResolveSecurity(listing, symbol) = row
  <2>. DEFINE places == {n \in DOMAIN listing : key \in AliasesForRow(listing[n])}
  <2>1. places = {k}
    BY DEF Named
  <2>2. CandidateKeys(symbol)[1] = key
    BY DEF CandidateKeys
  <2>. HIDE DEF key
  <2>3. ResolveSecurity(listing, symbol) = LastRow(listing, places)
    BY <2>1, <2>2 DEF ResolveSecurity
  <2>. HIDE DEF places
  <2>. QED BY <1>1, <2>1, <2>3, MaxAlone DEF LastRow
<1>. HIDE DEF name, key, row
<1>6. Order(symbol).id = row.id
  BY <1>4, <1>5 DEF Order, BuildDhanOrderRequest
<1>. QED BY <1>4, <1>6

LEMMA SegmentsAgreeHolds == SegmentsAgreeWhereTold
<1>. SUFFICES ASSUME NEW k \in DOMAIN listing, NEW row, row = listing[k]
              PROVE  CandleSegment(row) = OrderSegment(row)
                       <=> row.told # <<>> \/ (row.segment = "D" /\ row.exchange = "NSE" /\ row.instrument # "INDEX"
                                              /\ InferUnderlyingSymbol(row) \notin Indexes)
  BY DEF SegmentsAgreeWhereTold
<1>. DEFINE index == row.instrument = "INDEX" \/ InferUnderlyingSymbol(row) \in Indexes
<1>1. CASE row.told # <<>>
  BY <1>1 DEF CandleSegment, OrderSegment
<1>2. CASE row.told = <<>>
  <2>1. OrderSegment(row) = <<"NSE", "FNO">> /\ CandleSegment(row) = InferExchangeSegment(row)
    BY <1>2 DEF OrderSegment, CandleSegment
  <2>2. CASE index
    <3>1. <<"IDX", "I">> # <<"NSE", "FNO">>
      OBVIOUS
    <3>. HIDE DEF index
    <3>2. InferExchangeSegment(row) = <<"IDX", "I">>
      BY <2>2 DEF InferExchangeSegment, index
    <3>3. ~(row.segment = "D" /\ row.exchange = "NSE" /\ row.instrument # "INDEX" /\ InferUnderlyingSymbol(row) \notin Indexes)
      BY <2>2 DEF index
    <3>. QED BY <1>2, <2>1, <3>1, <3>2, <3>3
  <2>3. CASE ~index /\ row.segment = "D"
    BY <1>2, <2>1, <2>3 DEF InferExchangeSegment
  <2>4. CASE ~index /\ row.segment # "D"
    BY <1>2, <2>1, <2>4 DEF InferExchangeSegment
  <2>. QED BY <2>2, <2>3, <2>4
<1>. QED BY <1>1, <1>2

-----------------------------------------------------------------------------
(* Names *)

LEMMA NameIsSeq ==
  ASSUME NEW name, IsName(name), NEW W, \A i \in 1..Len(name) : name[i] \in W
  PROVE  name \in Seq(W)
<1>. DEFINE n == Len(name)
<1>1. n \in Nat /\ name = [i \in 1..n |-> name[i]] /\ \A i \in 1..n : name[i] \in W
  BY DEF IsName
<1>. HIDE DEF n
<1>2. name \in [1..n -> W]
  BY <1>1
<1>. QED BY <1>1, <1>2, SeqDef

LEMMA SeqIsName == ASSUME NEW W, NEW name \in Seq(W) PROVE IsName(name)
BY LenProperties DEF IsName

\* Two names put together.
LEMMA NamesJoin ==
  ASSUME NEW a, IsName(a), NEW b, IsName(b)
  PROVE  /\ IsName(a \o b)
         /\ Len(a \o b) = Len(a) + Len(b)
         /\ \A i \in 1..Len(a) : (a \o b)[i] = a[i]
         /\ \A i \in 1..Len(b) : (a \o b)[Len(a) + i] = b[i]
<1>. DEFINE W == {a[i] : i \in 1..Len(a)} \cup {b[i] : i \in 1..Len(b)}
<1>1. a \in Seq(W) /\ b \in Seq(W)
  <2>1. (\A i \in 1..Len(a) : a[i] \in W) /\ \A i \in 1..Len(b) : b[i] \in W
    OBVIOUS
  <2>. HIDE DEF W
  <2>. QED BY <2>1, NameIsSeq
<1>. HIDE DEF W
<1>2. /\ a \o b \in Seq(W)
      /\ Len(a \o b) = Len(a) + Len(b)
      /\ \A i \in 1 .. Len(a) + Len(b) : (a \o b)[i] = IF i <= Len(a) THEN a[i] ELSE b[i - Len(a)]
  BY <1>1, ConcatProperties
<1>3. Len(a) \in Nat /\ Len(b) \in Nat
  BY <1>1
<1>. DEFINE c == a \o b
            m == Len(a)
            n == Len(b)
<1>4. \A i \in 1..m + n : c[i] = IF i <= m THEN a[i] ELSE b[i - m]
  BY <1>2
<1>. HIDE DEF c, m, n
<1>5. m \in Nat /\ n \in Nat
  BY <1>3 DEF m, n
<1>6. \A i \in 1..m : c[i] = a[i]
  BY <1>4, <1>5
<1>7. ASSUME NEW i \in 1..n PROVE c[m + i] = b[i]
  <2>1. m + i \in 1..m + n /\ ~(m + i <= m) /\ (m + i) - m = i
    BY <1>5
  <2>. QED BY <1>4, <2>1
<1>. QED BY <1>2, <1>6, <1>7, SeqIsName DEF c, m, n

LEMMA ShortNames ==
  ASSUME NEW a, NEW b, NEW c, NEW d
  PROVE  /\ IsName(<<>>) /\ Len(<<>>) = 0
         /\ IsName(<<a>>) /\ Len(<<a>>) = 1
         /\ IsName(<<a, b>>) /\ Len(<<a, b>>) = 2
         /\ IsName(<<a, b, c>>) /\ Len(<<a, b, c>>) = 3
         /\ IsName(<<a, b, c, d>>) /\ Len(<<a, b, c, d>>) = 4
<1>. DEFINE W == {a, b, c, d}
<1>1. /\ <<>> \in Seq(W) /\ <<a>> \in Seq(W) /\ <<a, b>> \in Seq(W)
      /\ <<a, b, c>> \in Seq(W) /\ <<a, b, c, d>> \in Seq(W)
  OBVIOUS
<1>. HIDE DEF W
<1>. QED BY <1>1, SeqIsName

\* Words make a name that is not empty.
LEMMA NotEmpty ==
  ASSUME NEW name, IsName(name) PROVE name # <<>> <=> Len(name) > 0
<1>1. IsName(<<>>) /\ Len(<<>>) = 0
  BY ShortNames
<1>2. ASSUME Len(name) = 0 PROVE name = <<>>
  <2>1. name \in Seq({}) /\ <<>> \in Seq({})
    BY <1>2, NameIsSeq
  <2>. QED BY <1>2, <2>1
<1>. QED BY <1>1, <1>2 DEF IsName

LEMMA FirstNameIs ==
  ASSUME NEW a, NEW b, NEW c, c # <<>>
  PROVE  FirstName(<<a, b, c>>) = IF a # <<>> THEN a ELSE IF b # <<>> THEN b ELSE c
<1>. DEFINE names == <<a, b, c>>
            found == {k \in DOMAIN names : names[k] # <<>>}
            first == CHOOSE k \in found : \A n \in found : k <= n
<1>1. names[1] = a /\ names[2] = b /\ names[3] = c /\ DOMAIN names = {1, 2, 3}
  <2>1. DOMAIN names = 1..3
    OBVIOUS
  <2>. QED BY <2>1
<1>2. FirstName(names) = names[first] /\ 3 \in found /\ found \subseteq {1, 2, 3}
  <2>1. 3 \in found /\ found \subseteq {1, 2, 3}
    BY <1>1
  <2>. HIDE DEF names
  <2>. QED BY <2>1 DEF FirstName
<1>3. found = {k \in {1, 2, 3} : names[k] # <<>>}
  BY <1>1
<1>. HIDE DEF found, names
<1>4. first \in found /\ \A n \in found : first <= n
  <2>1. \E k \in found : \A n \in found : k <= n
    <3>1. CASE 1 \in found
      BY <1>2, <3>1
    <3>2. CASE 1 \notin found /\ 2 \in found
      BY <1>2, <3>2
    <3>3. CASE 1 \notin found /\ 2 \notin found
      BY <1>2, <3>3
    <3>. QED BY <3>1, <3>2, <3>3
  <2>. QED BY <2>1
<1>. HIDE DEF first
<1>5. CASE a # <<>>
  <2>1. 1 \in found
    BY <1>1, <1>3, <1>5
  <2>2. first = 1
    BY <1>2, <1>4, <2>1
  <2>. QED BY <1>1, <1>2, <1>5, <2>2 DEF names
<1>6. CASE a = <<>> /\ b # <<>>
  <2>1. 1 \notin found /\ 2 \in found
    BY <1>1, <1>3, <1>6
  <2>2. first = 2
    BY <1>2, <1>4, <2>1
  <2>. QED BY <1>1, <1>2, <1>6, <2>2 DEF names
<1>7. CASE a = <<>> /\ b = <<>>
  <2>1. 1 \notin found /\ 2 \notin found
    BY <1>1, <1>3, <1>7
  <2>2. first = 3
    BY <1>2, <1>4, <2>1
  <2>. QED BY <1>1, <1>2, <1>7, <2>2 DEF names
<1>. QED BY <1>5, <1>6, <1>7

-----------------------------------------------------------------------------
(* Signals and their rows *)

SignalFields ==
  {"strategy", "time", "side", "entry", "stop", "target", "quantity", "zone", "zoneType", "score", "setup", "status", "allowed"}

\* What is known of every signal that a strategy finds.
Sound(signal) ==
  /\ signal = [f \in SignalFields |-> signal[f]]
  /\ IsName(signal.zone) /\ Len(signal.zone) < 5
  /\ IsName(signal.setup) /\ signal.setup # <<>>

\* The row of a signal, brought into the contract.
Standard(signal) == StandardizeRow(StrategySignalToRow(signal))

LEMMA SignalIsSound ==
  ASSUME NEW strategy, NEW fact \in Facts PROVE Sound(StrategySignal(strategy, fact))
<1>. DEFINE carried == Carried[strategy]
            metadata == [field \in DOMAIN Blank |-> IF field \in carried THEN fact[field] ELSE Blank[field]]
            signal == StrategySignal(strategy, fact)
            third == <<strategy>>
<1>1. IsName(<<>>) /\ Len(<<>>) = 0 /\ IsName(third) /\ third # <<>>
  BY ShortNames, NotEmpty
<1>2. IsName(fact.zone) /\ Len(fact.zone) < 5 /\ IsName(fact.zoneType) /\ IsName(fact.setup)
  BY FactsAssumption
<1>3. /\ metadata.zone \in {fact.zone, <<>>}
      /\ metadata.zoneType \in {fact.zoneType, <<>>}
      /\ metadata.setup \in {fact.setup, <<>>}
  <2>. HIDE DEF carried
  <2>. QED BY DEF Blank
<1>. HIDE DEF metadata, third
<1>4. /\ signal = [f \in SignalFields |-> signal[f]]
      /\ signal.zone = metadata.zone
      /\ signal.setup = FirstName(<<metadata.setup, metadata.zoneType, third>>)
  BY DEF StrategySignal, SignalFields, metadata, third
<1>. HIDE DEF signal
<1>5. signal.setup = IF metadata.setup # <<>> THEN metadata.setup
                     ELSE IF metadata.zoneType # <<>> THEN metadata.zoneType ELSE third
  BY <1>1, <1>4, FirstNameIs
<1>6. IsName(signal.zone) /\ Len(signal.zone) < 5
  BY <1>1, <1>2, <1>3, <1>4
<1>7. IsName(signal.setup) /\ signal.setup # <<>>
  BY <1>1, <1>2, <1>3, <1>5
<1>8. Sound(signal)
  BY <1>4, <1>6, <1>7 DEF Sound
<1>. QED BY <1>8 DEF signal

\* The id is made of words: fewer of them for a zone.
LEMMA TradeIdIs ==
  ASSUME NEW signal, Sound(signal)
  PROVE  /\ IsName(TradeId(signal)) /\ TradeId(signal) # <<>>
         /\ signal.zone # <<>> => /\ Len(TradeId(signal)) < 6
                                  /\ TradeId(signal) = <<"uuid">> \o signal.zone
         /\ signal.zone = <<>> => /\ Len(TradeId(signal)) >= 6
                                  /\ TradeId(signal)[3] = signal.time
                                  /\ TradeId(signal)[4] = signal.side
                                  /\ TradeId(signal)[5] = signal.entry
<1>. DEFINE head == <<"uuid">>
            words == <<signal.strategy, signal.time, signal.side, signal.entry>>
            setup == signal.setup
            trade == words \o setup
<1>1. IsName(head) /\ Len(head) = 1 /\ IsName(words) /\ Len(words) = 4
  BY ShortNames
<1>2. IsName(setup) /\ setup # <<>> /\ IsName(signal.zone) /\ Len(signal.zone) < 5
  BY DEF Sound
<1>3. words[2] = signal.time /\ words[3] = signal.side /\ words[4] = signal.entry
  OBVIOUS
<1>. HIDE DEF head, words, setup
<1>4. IsName(trade) /\ Len(trade) = 4 + Len(setup) /\ \A i \in 1..4 : trade[i] = words[i]
  <2>1. /\ IsName(words \o setup) /\ Len(words \o setup) = Len(words) + Len(setup)
        /\ \A i \in 1..Len(words) : (words \o setup)[i] = words[i]
    BY <1>1, <1>2, NamesJoin, ZenonT(60)
  <2>. QED BY <1>1, <2>1
<1>5. Len(setup) > 0 /\ Len(setup) \in Nat /\ Len(signal.zone) \in Nat
  BY <1>2, NotEmpty DEF IsName
<1>6. TradeId(signal) = head \o IF signal.zone # <<>> THEN signal.zone ELSE trade
  BY DEF TradeId, head, words, setup
<1>7. CASE signal.zone # <<>>
  <2>1. TradeId(signal) = head \o signal.zone
    BY <1>6, <1>7
  <2>2. IsName(head \o signal.zone) /\ Len(head \o signal.zone) = 1 + Len(signal.zone)
    <3>0. IsName(head) /\ IsName(signal.zone)
      BY <1>1, <1>2
    <3>1. IsName(head \o signal.zone) /\ Len(head \o signal.zone) = Len(head) + Len(signal.zone)
      BY <3>0, NamesJoin
    <3>. QED BY <1>1, <3>1
  <2>3. head \o signal.zone # <<>>
    BY <1>5, <2>2, NotEmpty
  <2>. QED BY <1>2, <1>5, <1>7, <2>1, <2>2, <2>3 DEF head
<1>8. CASE signal.zone = <<>>
  <2>. HIDE DEF trade
  <2>1. TradeId(signal) = head \o trade
    BY <1>6, <1>8
  <2>2. /\ IsName(head \o trade) /\ Len(head \o trade) = 1 + Len(trade)
        /\ \A i \in 1..Len(trade) : (head \o trade)[1 + i] = trade[i]
    <3>0. IsName(head) /\ IsName(trade)
      BY <1>1, <1>4
    <3>1. /\ IsName(head \o trade) /\ Len(head \o trade) = Len(head) + Len(trade)
          /\ \A i \in 1..Len(trade) : (head \o trade)[Len(head) + i] = trade[i]
      BY <3>0, NamesJoin
    <3>. QED BY <1>1, <3>1
  <2>3. head \o trade # <<>>
    BY <1>4, <1>5, <2>2, NotEmpty
  <2>4. 2 \in 1..Len(trade) /\ 3 \in 1..Len(trade) /\ 4 \in 1..Len(trade)
    BY <1>4, <1>5
  <2>5. (head \o trade)[3] = signal.time /\ (head \o trade)[4] = signal.side /\ (head \o trade)[5] = signal.entry
    <3>. DEFINE id == head \o trade
    <3>1. id[3] = trade[2] /\ id[4] = trade[3] /\ id[5] = trade[4]
      <4>1. \A i \in 1..Len(trade) : id[1 + i] = trade[i]
        BY <2>2
      <4>. HIDE DEF id
      <4>. QED BY <2>4, <4>1
    <3>2. trade[2] = words[2] /\ trade[3] = words[3] /\ trade[4] = words[4]
      BY <1>4
    <3>. QED BY <1>3, <3>1, <3>2
  <2>. QED BY <1>4, <1>5, <1>8, <2>1, <2>2, <2>3, <2>5
<1>. QED BY <1>7, <1>8

\* The contract changes the zone of a row, and nothing else of what a signal wrote.
LEMMA StandardIs ==
  ASSUME NEW signal, Sound(signal)
  PROVE  LET row == Standard(signal)
         IN  /\ row.id = TradeId(signal)
             /\ row.timeframe = <<>>
             /\ row.setup = signal.setup
             /\ row.zone # <<>>
             /\ StandardizeRow(row) = row
<1>. DEFINE written == StrategySignalToRow(signal)
            fields == SignalFields \cup {"id", "timeframe"}
            row == Standard(signal)
<1>1. DOMAIN signal = SignalFields
  BY DEF Sound
<1>2. /\ written = [f \in fields |-> written[f]]
      /\ written.id = TradeId(signal) /\ written.timeframe = <<>>
      /\ written.setup = signal.setup /\ written.zone = signal.zone
      /\ written.strategy = signal.strategy /\ written.zoneType = signal.zoneType
  BY <1>1 DEF StrategySignalToRow, SignalFields
<1>. HIDE DEF written
<1>3. signal.setup # <<>> /\ IsName(signal.setup) /\ TradeId(signal) # <<>> /\ IsName(signal.zone)
  BY TradeIdIs DEF Sound
<1>4. RowZone(written) # <<>>
  <2>1. CASE signal.zone # <<>>
    BY <1>2, <2>1 DEF RowZone
  <2>2. CASE signal.zone = <<>>
    <3>. DEFINE a == <<written.strategy, "sha1", written.strategy>>
                b == <<written.time, written.side>>
                setup == signal.setup
    <3>1. IsName(a) /\ Len(a) = 3 /\ IsName(b) /\ Len(b) = 2
      BY ShortNames
    <3>2. RowZone(written) = a \o setup \o b
      BY <1>2, <2>2 DEF RowZone
    <3>3. IsName(setup) /\ Len(setup) \in Nat
      BY <1>3 DEF IsName
    <3>. HIDE DEF a, b, setup
    <3>4. IsName(a \o setup) /\ Len(a \o setup) = 3 + Len(setup)
      <4>1. IsName(a \o setup) /\ Len(a \o setup) = Len(a) + Len(setup)
        BY <3>1, <3>3, NamesJoin
      <4>. QED BY <3>1, <4>1
    <3>5. IsName(a \o setup \o b) /\ Len(a \o setup \o b) = 3 + Len(setup) + 2
      <4>1. IsName(a \o setup \o b) /\ Len(a \o setup \o b) = Len(a \o setup) + Len(b)
        BY <3>1, <3>4, NamesJoin
      <4>. QED BY <3>1, <3>4, <4>1
    <3>. QED BY <3>2, <3>3, <3>5, NotEmpty
  <2>. QED BY <2>1, <2>2
<1>5. ASSUME NEW r, r.setup # <<>>, r = [f \in fields |-> r[f]]
      PROVE  StandardizeRow(r) = NormalizeCandidate(r)
  <2>1. <<r.strategy>> # <<>>
    BY ShortNames, NotEmpty
  <2>2. FirstName(<<r.setup, r.zoneType, <<r.strategy>>>>) = r.setup
    BY <1>5, <2>1, FirstNameIs
  <2>3. [r EXCEPT !.setup = r.setup] = r
    BY <1>5
  <2>. QED BY <2>2, <2>3 DEF StandardizeRow
<1>6. RowId(written) = TradeId(signal)
  BY <1>2, <1>3 DEF RowId
<1>7. row = [written EXCEPT !.zone = RowZone(written), !.id = RowId(written)]
  BY <1>2, <1>3, <1>5 DEF NormalizeCandidate, Standard, written
<1>8. /\ row.id = TradeId(signal) /\ row.timeframe = <<>> /\ row.setup = signal.setup
      /\ row.zone = RowZone(written) /\ row = [f \in fields |-> row[f]]
  <2>1. {"id", "timeframe", "setup", "zone"} \subseteq fields
    BY DEF SignalFields
  <2>. HIDE DEF fields, row
  <2>. QED BY <1>2, <1>6, <1>7, <2>1
<1>9. StandardizeRow(row) = row
  <2>1. StandardizeRow(row) = NormalizeCandidate(row)
    <3>. HIDE DEF row
    <3>. QED BY <1>3, <1>5, <1>8
  <2>. HIDE DEF row
  <2>2. RowZone(row) = row.zone /\ RowId(row) = row.id
    BY <1>3, <1>4, <1>8 DEF RowZone, RowId
  <2>3. [row EXCEPT !.zone = row.zone, !.id = row.id] = row
    BY <1>8
  <2>. QED BY <2>1, <2>2, <2>3 DEF NormalizeCandidate
<1>. QED BY <1>4, <1>8, <1>9

-----------------------------------------------------------------------------
(* Analyses *)

FoundSignals == {StrategySignal(strategy, fact) : strategy \in DOMAIN Carried, fact \in Facts}
SignalsFound == signals \in Seq(FoundSignals)
RowsListed == listing \in Seq(ListedRows)

LEMMA RowsAre ==
  ASSUME SignalsFound
  PROVE  \A k \in DOMAIN signals : Sound(signals[k]) /\ StandardRows(signals)[k] = Standard(signals[k])
<1>1. \A k \in DOMAIN signals : signals[k] \in FoundSignals
  BY DEF SignalsFound
<1>2. \A k \in DOMAIN signals : Sound(signals[k])
  BY <1>1, SignalIsSound DEF FoundSignals
<1>. QED BY <1>2 DEF StandardRows, Standard

LEMMA NothingReportedHolds == ASSUME SignalsFound PROVE NothingReported
<1>. DEFINE rows == StandardRows(signals)
<1>1. DOMAIN rows = DOMAIN signals
  BY DEF StandardRows
<1>2. ASSUME NEW k \in DOMAIN signals PROVE Reasons(rows[k]) # {}
  <2>1. Standard(signals[k]).timeframe = <<>>
    BY RowsAre, StandardIs
  <2>2. rows[k].timeframe = <<>>
    BY <2>1, RowsAre
  <2>3. "timeframe" \in Missing(rows[k])
    BY <2>2 DEF Missing
  <2>. QED BY <2>3 DEF Reasons
<1>. HIDE DEF rows
<1>3. ValidRows(rows) = {}
  BY <1>1, <1>2 DEF ValidRows
<1>. QED BY <1>3 DEF NothingReported, rows

LEMMA IdsKeptHolds == ASSUME SignalsFound PROVE IdsKept
<1>1. ASSUME NEW k \in DOMAIN signals
      PROVE  Standard(signals[k]).id = TradeId(signals[k]) /\ StandardizeRow(Standard(signals[k])) = Standard(signals[k])
  BY RowsAre, StandardIs
<1>. QED BY <1>1 DEF IdsKept, Standard

LEMMA IdsTellApartHolds == ASSUME SignalsFound PROVE IdsTellApart
<1>. SUFFICES ASSUME NEW j \in DOMAIN signals, NEW k \in DOMAIN signals,
                     StandardRows(signals)[j].id = StandardRows(signals)[k].id
              PROVE  \/ signals[j].zone # <<>> /\ signals[j].zone = signals[k].zone
                     \/ \A f \in {"zone", "time", "side", "entry"} : signals[j][f] = signals[k][f]
  BY DEF IdsTellApart
<1>. DEFINE a == signals[j]
            b == signals[k]
<1>1. Sound(a) /\ Sound(b) /\ StandardRows(signals)[j] = Standard(a) /\ StandardRows(signals)[k] = Standard(b)
  BY RowsAre
<1>. HIDE DEF a, b
<1>2. TradeId(a) = TradeId(b)
  BY <1>1, StandardIs
<1>3. Len(TradeId(a)) \in Nat
  BY <1>1, TradeIdIs DEF IsName
<1>4. CASE a.zone # <<>>
  <2>1. Len(TradeId(a)) < 6
    BY <1>1, <1>4, TradeIdIs
  <2>2. b.zone # <<>>
    BY <1>1, <1>2, <1>3, <2>1, TradeIdIs
  <2>3. <<"uuid">> \o a.zone = <<"uuid">> \o b.zone
    BY <1>1, <1>2, <1>4, <2>2, TradeIdIs
  <2>4. a.zone = b.zone
    <3>. DEFINE head == <<"uuid">>
                y == a.zone
                z == b.zone
    <3>0. IsName(head) /\ Len(head) = 1 /\ IsName(y) /\ IsName(z) /\ Len(y) \in Nat /\ Len(z) \in Nat
      BY <1>1, ShortNames DEF Sound, IsName
    <3>1. head \o y = head \o z
      BY <2>3
    <3>. HIDE DEF head, y, z
    <3>2. /\ Len(head \o y) = 1 + Len(y) /\ \A i \in 1..Len(y) : (head \o y)[1 + i] = y[i]
          /\ Len(head \o z) = 1 + Len(z) /\ \A i \in 1..Len(z) : (head \o z)[1 + i] = z[i]
      <4>1. Len(head \o y) = Len(head) + Len(y) /\ \A i \in 1..Len(y) : (head \o y)[Len(head) + i] = y[i]
        <5>1. IsName(head) /\ IsName(y)
          BY <3>0
        <5>. QED BY <5>1, NamesJoin
      <4>2. Len(head \o z) = Len(head) + Len(z) /\ \A i \in 1..Len(z) : (head \o z)[Len(head) + i] = z[i]
        <5>1. IsName(head) /\ IsName(z)
          BY <3>0
        <5>. QED BY <5>1, NamesJoin
      <4>. QED BY <3>0, <4>1, <4>2
    <3>3. Len(y) = Len(z)
      BY <3>0, <3>1, <3>2
    <3>4. \A i \in 1..Len(y) : y[i] = z[i]
      BY <3>1, <3>2, <3>3
    <3>5. y = [i \in 1..Len(y) |-> y[i]] /\ z = [i \in 1..Len(z) |-> z[i]]
      BY <3>0 DEF IsName
    <3>6. y = z
      BY <3>3, <3>4, <3>5
    <3>. QED BY <3>6 DEF y, z
  <2>. QED BY <1>4, <2>4 DEF a, b
<1>5. CASE a.zone = <<>>
  <2>1. Len(TradeId(a)) >= 6
    BY <1>1, <1>5, TradeIdIs
  <2>2. b.zone = <<>>
    BY <1>1, <1>2, <1>3, <2>1, TradeIdIs
  <2>3. a.time = b.time /\ a.side = b.side /\ a.entry = b.entry
    BY <1>1, <1>2, <1>5, <2>2, TradeIdIs
  <2>. QED BY <1>5, <2>2, <2>3 DEF a, b
<1>. QED BY <1>4, <1>5

\* What signals, trades and instruments are known by is the same wherever it is looked
\* up and tells them apart, whatever a strategy may find and whatever may be listed.
THEOREM IdentitiesHoldAlways == IdentitiesSpec => IdentitiesHold
<1>1. SignalsInit /\ ListingInit => SignalsFound /\ RowsListed
  BY DEF SignalsInit, ListingInit, SignalsFound, RowsListed
<1>2. SignalsFound /\ RowsListed /\ [IdentitiesNext]_identities => SignalsFound' /\ RowsListed'
  <2>1. ASSUME SignalsFound, SignalsNext PROVE SignalsFound'
    <3>1. PICK strategy \in DOMAIN Carried, fact \in Facts : signals' = Append(signals, StrategySignal(strategy, fact))
      BY <2>1 DEF SignalsNext, FindSignal
    <3>2. StrategySignal(strategy, fact) \in FoundSignals
      BY DEF FoundSignals
    <3>. QED BY <2>1, <3>1, <3>2 DEF SignalsFound
  <2>2. ASSUME RowsListed, ListingNext PROVE RowsListed'
    BY <2>2 DEF ListingNext, RowsListed
  <2>3. SignalsFound /\ UNCHANGED signals => SignalsFound'
    BY DEF SignalsFound, FoundSignals
  <2>4. RowsListed /\ UNCHANGED listing => RowsListed'
    BY DEF RowsListed
  <2>. QED BY <2>1, <2>2, <2>3, <2>4 DEF IdentitiesNext, identities
<1>3. SignalsFound /\ RowsListed => NothingReported /\ IdsKept /\ IdsTellApart /\ OneInstrumentAlone /\ SegmentsAgreeWhereTold
  BY NothingReportedHolds, IdsKeptHolds, IdsTellApartHolds, OneInstrumentAloneHolds, SegmentsAgreeHolds DEF RowsListed
<1>. DEFINE Stay == \A symbol \in Symbols :
                      LET before == FindCashInstrument(listing, symbol)
                          after == FindCashInstrument(listing', symbol)
                      IN  before # Unlisted /\ after # before =>
                            before.option \/ OfUnderlying(listing, NormalizeTradingSymbol(symbol)) = {}
<1>4. RowsListed /\ [IdentitiesNext]_identities => [Stay]_listing
  <2>. SUFFICES ASSUME RowsListed, ListingNext PROVE Stay
    BY DEF IdentitiesNext, identities
  <2>1. PICK row \in ListedRows : listing' = Append(listing, row)
    BY DEF ListingNext
  <2>. DEFINE later == listing'
  <2>. HIDE DEF later
  <2>. QED BY <2>1, CandlesStayStep DEF RowsListed
<1>. QED BY <1>1, <1>2, <1>3, <1>4, PTL DEF IdentitiesSpec, IdentitiesHold, CandlesStay

-----------------------------------------------------------------------------
(* Scans *)

\* What holds of the first and passes from each to the next holds of all.
LEMMA Climb ==
  ASSUME NEW n \in Nat, NEW S, 0 \in S, \A k \in 1..n : k - 1 \in S => k \in S
  PROVE  0..n \subseteq S
<1>. DEFINE R == {k \in 0..n : k \notin S}
<1>1. CASE R = {}
  BY <1>1
<1>2. CASE R # {}
  <2>1. PICK x \in R : \A y \in R : x <= y
    <3>1. R \subseteq Nat
      OBVIOUS
    <3>. HIDE DEF R
    <3>. QED BY <1>2, <3>1, FirstOfNumbers
  <2>2. x \in 1..n /\ x - 1 \in 0..n /\ ~(x <= x - 1)
    BY <2>1
  <2>3. x - 1 \in S
    BY <2>1, <2>2
  <2>. QED BY <2>1, <2>2, <2>3
<1>. QED BY <1>1, <1>2

\* A scan of n places, each step of which is a function of what was found by then.
IsSteps(step, n, A) == step \in [1..n -> [A -> A]]
IsScan(t, step, n, A, a) == t \in [0..n -> A] /\ t[0] = a /\ \A k \in 1..n : t[k] = step[k][t[k - 1]]

LEMMA ScanExists ==
  ASSUME NEW n \in Nat, NEW A, NEW a \in A, NEW step, IsSteps(step, n, A)
  PROVE  \E t : IsScan(t, step, n, A, a)
<1>0. step \in [1..n -> [A -> A]]
  BY DEF IsSteps
<1>. DEFINE Upto(m) == \E t \in [0..m -> A] : t[0] = a /\ \A k \in 1..m : t[k] = step[k][t[k - 1]]
            S == {m \in 0..n : Upto(m)}
<1>1. 0 \in S
  <2>. DEFINE t == [k \in 0..0 |-> a]
  <2>1. t \in [0..0 -> A] /\ t[0] = a /\ \A k \in 1..0 : t[k] = step[k][t[k - 1]]
    OBVIOUS
  <2>. HIDE DEF t
  <2>. QED BY <2>1
<1>2. ASSUME NEW m \in 1..n, m - 1 \in S PROVE m \in S
  <2>1. PICK t \in [0..m - 1 -> A] : t[0] = a /\ \A k \in 1..m - 1 : t[k] = step[k][t[k - 1]]
    BY <1>2
  <2>. DEFINE u == [k \in 0..m |-> IF k = m THEN step[m][t[m - 1]] ELSE t[k]]
  <2>2. t[m - 1] \in A /\ step[m] \in [A -> A]
    BY <1>0, <2>1
  <2>3. step[m][t[m - 1]] \in A
    BY <2>2
  <2>4. \A k \in 0..m - 1 : t[k] \in A /\ u[k] = t[k]
    BY <2>1
  <2>5. u \in [0..m -> A] /\ u[0] = a /\ u[m] = step[m][t[m - 1]]
    BY <2>1, <2>3, <2>4
  <2>6. \A k \in 1..m : u[k] = step[k][u[k - 1]]
    BY <2>1, <2>4, <2>5
  <2>. HIDE DEF u
  <2>. QED BY <2>5, <2>6
<1>3. 0..n \subseteq S
  <2>. HIDE DEF S
  <2>. QED BY <1>1, <1>2, Climb
<1>. QED BY <1>3 DEF IsScan

\* Of some places one has the greatest value, and one the least.
LEMMA Greatest ==
  ASSUME NEW n \in Nat, NEW S, S \subseteq 1..n, S # {}, NEW g, \A k \in S : g[k] \in Int
  PROVE  \E j \in S : \A k \in S : g[k] <= g[j]
<1>. DEFINE Part(m) == S \cap (1..m)
            T == {m \in 0..n : Part(m) = {} \/ \E j \in Part(m) : \A k \in Part(m) : g[k] <= g[j]}
<1>1. 0 \in T
  OBVIOUS
<1>2. ASSUME NEW m \in 1..n, m - 1 \in T PROVE m \in T
  <2>1. Part(m) = Part(m - 1) \cup (S \cap {m})
    OBVIOUS
  <2>2. CASE m \notin S
    BY <1>2, <2>1, <2>2
  <2>3. CASE m \in S /\ Part(m - 1) = {}
    BY <2>1, <2>3
  <2>4. CASE m \in S /\ Part(m - 1) # {}
    <3>1. PICK j \in Part(m - 1) : \A k \in Part(m - 1) : g[k] <= g[j]
      BY <1>2, <2>4
    <3>2. g[m] \in Int /\ g[j] \in Int
      BY <2>4, <3>1
    <3>3. CASE g[m] <= g[j]
      BY <2>1, <3>1, <3>3
    <3>4. CASE ~(g[m] <= g[j])
      <4>1. \A k \in Part(m - 1) : g[k] \in Int /\ g[k] <= g[m]
        BY <3>1, <3>2, <3>4
      <4>2. m \in Part(m) /\ \A k \in Part(m) : g[k] <= g[m]
        BY <2>1, <2>4, <3>2, <4>1
      <4>. QED BY <4>2
    <3>. QED BY <3>3, <3>4
  <2>. QED BY <2>2, <2>3, <2>4
<1>3. 0..n \subseteq T
  <2>. HIDE DEF T
  <2>. QED BY <1>1, <1>2, Climb
<1>4. n \in T
  <2>1. n \in 0..n
    OBVIOUS
  <2>. HIDE DEF T
  <2>. QED BY <1>3, <2>1
<1>5. Part(n) = S
  OBVIOUS
<1>. QED BY <1>4, <1>5

LEMMA Least ==
  ASSUME NEW n \in Nat, NEW S, S \subseteq 1..n, S # {}, NEW g, \A k \in S : g[k] \in Int
  PROVE  \E j \in S : \A k \in S : g[j] <= g[k]
<1>. DEFINE h == [k \in S |-> - g[k]]
<1>1. \A k \in S : h[k] \in Int /\ h[k] = - g[k]
  OBVIOUS
<1>2. \E j \in S : \A k \in S : h[k] <= h[j]
  <2>. HIDE DEF h
  <2>. QED BY <1>1, Greatest
<1>. HIDE DEF h
<1>. QED BY <1>1, <1>2

\* Of the values at some places Max is one, and the greatest; Min is one, and the least.
LEMMA MaxAmong ==
  ASSUME NEW n \in Nat, NEW S, S \subseteq 1..n, S # {}, NEW g, \A k \in S : g[k] \in Int,
         NEW V, V = {g[k] : k \in S}
  PROVE  Max(V) \in V /\ Max(V) \in Int /\ \A k \in S : g[k] <= Max(V)
<1>1. \E j \in S : \A k \in S : g[k] <= g[j]
  BY Greatest
<1>2. \E x \in V : \A y \in V : x >= y
  BY <1>1
<1>3. Max(V) \in V /\ \A y \in V : Max(V) >= y
  BY <1>2 DEF Max
<1>. QED BY <1>3

LEMMA MinAmong ==
  ASSUME NEW n \in Nat, NEW S, S \subseteq 1..n, S # {}, NEW g, \A k \in S : g[k] \in Int,
         NEW V, V = {g[k] : k \in S}
  PROVE  Min(V) \in V /\ Min(V) \in Int /\ \A k \in S : Min(V) <= g[k]
<1>1. \E j \in S : \A k \in S : g[j] <= g[k]
  BY Least
<1>2. \E x \in V : \A y \in V : x <= y
  BY <1>1
<1>3. Min(V) \in V /\ \A y \in V : Min(V) <= y
  BY <1>2 DEF Min
<1>. QED BY <1>3

LEMMA MaxOfTwo ==
  ASSUME NEW a \in Int, NEW b \in Int
  PROVE  Max({a, b}) \in {a, b} /\ Max({a, b}) >= a /\ Max({a, b}) >= b
<1>1. \E x \in {a, b} : \A y \in {a, b} : x >= y
  OBVIOUS
<1>. QED BY <1>1 DEF Max

LEMMA MinOfTwo ==
  ASSUME NEW a \in Int, NEW b \in Int
  PROVE  Min({a, b}) \in {a, b} /\ Min({a, b}) <= a /\ Min({a, b}) <= b
<1>1. \E x \in {a, b} : \A y \in {a, b} : x <= y
  OBVIOUS
<1>. QED BY <1>1 DEF Min

-----------------------------------------------------------------------------
(* Quotients *)

LEMMA Quotient ==
  ASSUME NEW a \in Nat, NEW b \in Nat \ {0}
  PROVE  a \div b \in Nat /\ (a \div b) * b <= a /\ a < (a \div b + 1) * b
OBVIOUS

LEMMA QuotientGrows ==
  ASSUME NEW a \in Nat, NEW c \in Nat, a <= c, NEW b \in Nat \ {0}
  PROVE  a \div b <= c \div b
<1>. DEFINE q == a \div b
            r == c \div b
<1>1. q \in Nat /\ q * b <= a /\ r \in Nat /\ c < (r + 1) * b
  BY Quotient
<1>. HIDE DEF q, r
<1>2. CASE q >= r + 1
  <2>1. PICK d \in Nat : q = r + 1 + d
    <3>1. q - r - 1 \in Nat /\ q = r + 1 + (q - r - 1)
      BY <1>1, <1>2
    <3>. QED BY <3>1
  <2>2. q * b = (r + 1) * b + d * b /\ d * b \in Nat
    BY <1>1, <2>1
  <2>. QED BY <1>1, <2>2
<1>3. q <= r
  BY <1>1, <1>2
<1>. QED BY <1>3 DEF q, r

\* Both scaled alike.
LEMMA QuotientScales ==
  ASSUME NEW a \in Nat, NEW b \in Nat \ {0}
  PROVE  (1000 * a) \div (1000 * b) = a \div b
<1>. DEFINE q == a \div b
            r == (1000 * a) \div (1000 * b)
<1>1. q \in Nat /\ q * b <= a /\ a < (q + 1) * b
  BY Quotient
<1>2. r \in Nat /\ r * (1000 * b) <= 1000 * a /\ 1000 * a < (r + 1) * (1000 * b)
  <2>. DEFINE c == 1000 * a
              e == 1000 * b
  <2>1. c \in Nat /\ e \in Nat \ {0}
    OBVIOUS
  <2>. HIDE DEF c, e
  <2>2. c \div e \in Nat /\ (c \div e) * e <= c /\ c < (c \div e + 1) * e
    BY <2>1, Quotient
  <2>. QED BY <2>2 DEF c, e
<1>. HIDE DEF q, r
<1>3. r * b \in Nat /\ r * (1000 * b) = 1000 * (r * b) /\ (r + 1) * (1000 * b) = 1000 * (r * b + b)
  BY <1>2
<1>4. r * b <= a /\ a < r * b + b /\ (q + 1) * b = q * b + b /\ q * b \in Nat
  BY <1>1, <1>2, <1>3
<1>5. CASE q >= r + 1
  <2>1. PICK d \in Nat : q = r + 1 + d
    <3>1. q - r - 1 \in Nat /\ q = r + 1 + (q - r - 1)
      BY <1>1, <1>2, <1>5
    <3>. QED BY <3>1
  <2>2. q * b = r * b + b + d * b /\ d * b \in Nat
    BY <1>2, <2>1
  <2>. QED BY <1>1, <1>4, <2>2
<1>6. CASE r >= q + 1
  <2>1. PICK d \in Nat : r = q + 1 + d
    <3>1. r - q - 1 \in Nat /\ r = q + 1 + (r - q - 1)
      BY <1>1, <1>2, <1>6
    <3>. QED BY <3>1
  <2>2. r * b = q * b + b + d * b /\ d * b \in Nat
    BY <1>1, <2>1
  <2>. QED BY <1>1, <1>4, <2>2
<1>7. q = r
  BY <1>1, <1>2, <1>5, <1>6
<1>. QED BY <1>7 DEF q, r

-----------------------------------------------------------------------------
(* Frames *)

\* A candle that may come, on some day.
OnDay(c, d) == [c EXCEPT !.day = d]
Placed == UNION {{OnDay(c, d) : d \in Nat} : c \in NextCandles}

LEMMA PlacedIs ==
  ASSUME NEW bar \in Placed
  PROVE  /\ bar.day \in Nat /\ bar.open \in Nat /\ bar.high \in Nat /\ bar.low \in Nat
         /\ bar.close \in Nat /\ bar.volume \in Nat /\ bar.average \in Nat
         /\ bar.low <= bar.open /\ bar.open <= bar.high /\ bar.low <= bar.close /\ bar.close <= bar.high
<1>1. PICK c \in NextCandles, d \in Nat : bar = OnDay(c, d)
  BY DEF Placed
<1>2. IsCandle(c)
  BY FramesAssumption
<1>3. /\ bar.day = d /\ bar.open = c.open /\ bar.high = c.high /\ bar.low = c.low
      /\ bar.close = c.close /\ bar.volume = c.volume /\ bar.average = c.average
  BY <1>1, <1>2 DEF IsCandle, OnDay
<1>. QED BY <1>2, <1>3 DEF IsCandle

LEMMA FrameGrows ==
  ASSUME NEW f \in Seq(Placed), NEW later \in Grown(f)
  PROVE  later \in Seq(Placed)
<1>1. PICK c \in NextCandles, d \in {0, 1} :
        later = Append(f, OnDay(c, IF f = <<>> THEN 1 ELSE Last(f).day + d))
  BY DEF Grown, Longer, OnDay
<1>2. (IF f = <<>> THEN 1 ELSE Last(f).day + d) \in Nat
  <2>1. CASE f # <<>>
    <3>1. Last(f) \in Placed
      BY <2>1 DEF Last
    <3>. QED BY <2>1, <3>1, PlacedIs
  <2>. QED BY <2>1
<1>. DEFINE day == IF f = <<>> THEN 1 ELSE Last(f).day + d
<1>. HIDE DEF day
<1>3. OnDay(c, day) \in Placed
  <2>1. day \in Nat
    BY <1>2 DEF day
  <2>. QED BY <2>1 DEF Placed
<1>. QED BY <1>1, <1>3 DEF day

LEMMA BarIs ==
  ASSUME NEW f \in Seq(Placed)
  PROVE  Len(f) \in Nat /\ Bars(f) = 1..Len(f) /\ \A k \in Bars(f) : f[k] \in Placed
BY DEF Bars

-----------------------------------------------------------------------------
(* The AMD strategy *)

\* What is behind a bar and in front of it are whole numbers, around its close.
LEMMA AroundClose ==
  ASSUME NEW bar \in Placed, NEW side \in Sides
  PROVE  /\ Behind(bar, side) \in Int /\ Fore(bar, side) \in Int
         /\ Toward(side, Behind(bar, side), bar.close) >= 0
BY PlacedIs DEF Behind, Fore, Toward, Sides

LEMMA FurthestOfTwo ==
  ASSUME NEW a \in Int, NEW b \in Int, NEW side \in Sides
  PROVE  /\ Furthest({a, b}, side) \in Int /\ Furthest({a, b}, side) \in {a, b}
         /\ Toward(side, a, Furthest({a, b}, side)) >= 0 /\ Toward(side, b, Furthest({a, b}, side)) >= 0
         /\ Toward(side, Furthest({a, b}, Flip(side)), a) >= 0 /\ Toward(side, Furthest({a, b}, Flip(side)), b) >= 0
         /\ Furthest({a, b}, Flip(side)) \in Int /\ Furthest({a, b}, Flip(side)) \in {a, b}
<1>1. /\ Max({a, b}) \in {a, b} /\ Max({a, b}) >= a /\ Max({a, b}) >= b
      /\ Min({a, b}) \in {a, b} /\ Min({a, b}) <= a /\ Min({a, b}) <= b
  BY MaxOfTwo, MinOfTwo
<1>2. Flip(Buy) = Sell /\ Flip(Sell) = Buy /\ Buy # Sell
  BY DEF Flip, Buy, Sell
<1>3. CASE side = Buy
  BY <1>1, <1>2, <1>3 DEF Furthest, Toward
<1>4. CASE side = Sell
  BY <1>1, <1>2, <1>4 DEF Furthest, Toward
<1>. QED BY <1>3, <1>4 DEF Sides

LEMMA GappedIs ==
  ASSUME NEW f \in Seq(Placed), NEW k \in Bars(f), NEW side \in Sides
  PROVE  Gapped(f, k, side) = {} \/ \E j \in Bars(f) : Gapped(f, k, side) = {j}
<1>. DEFINE found == {j \in Higher(1, k - LookBack) .. k : GapSize(f, j, side) >= MinGap}
<1>1. found \subseteq 1..Len(f)
  BY BarIs, AmdAssumption DEF Higher
<1>2. Gapped(f, k, side) = IF found = {} THEN {} ELSE {Max(found)}
  BY DEF Gapped, LastWith
<1>. HIDE DEF found
<1>3. CASE found # {}
  <2>1. Max(found) \in found
    BY <1>1, <1>3, BarIs, MaxIs
  <2>. QED BY <1>1, <1>2, <1>3, <2>1, BarIs
<1>. QED BY <1>2, <1>3

\* The stop is behind the close, wherever the gap was.
LEMMA AmdStopIs ==
  ASSUME NEW f \in Seq(Placed), NEW k \in Bars(f), NEW side \in Sides
  PROVE  AmdStop(f, k, side) \in Int /\ Toward(side, AmdStop(f, k, side), f[k].close) > 0
<1>. DEFINE mine == Behind(f[k], side)
            anchor == Furthest({mine} \cup {Fore(f[j], side) : j \in Gapped(f, k, side)}, Flip(side))
            stop == IF side = Buy THEN anchor - AmdBuffer ELSE anchor + AmdBuffer
            near == IF side = Buy THEN f[k].close - AmdBuffer ELSE f[k].close + AmdBuffer
<1>1. f[k] \in Placed /\ f[k].close \in Int /\ mine \in Int
  BY BarIs, PlacedIs, AroundClose
<1>2. anchor \in Int
  <2>1. CASE Gapped(f, k, side) = {}
    <3>1. anchor = Furthest({mine, mine}, Flip(side))
      BY <2>1
    <3>. HIDE DEF mine, anchor
    <3>. QED BY <1>1, <3>1, FurthestOfTwo
  <2>2. CASE \E j \in Bars(f) : Gapped(f, k, side) = {j}
    <3>1. PICK j \in Bars(f) : Gapped(f, k, side) = {j}
      BY <2>2
    <3>2. Fore(f[j], side) \in Int
      BY BarIs, AroundClose
    <3>3. anchor = Furthest({mine, Fore(f[j], side)}, Flip(side))
      <4>1. {mine} \cup {Fore(f[i], side) : i \in {j}} = {mine, Fore(f[j], side)}
        OBVIOUS
      <4>. QED BY <3>1, <4>1
    <3>. HIDE DEF mine, anchor
    <3>. QED BY <1>1, <3>2, <3>3, FurthestOfTwo
  <2>. QED BY <2>1, <2>2, GappedIs
<1>3. AmdStop(f, k, side) = IF Toward(side, stop, f[k].close) > 0 THEN stop ELSE near
  BY DEF AmdStop
<1>. HIDE DEF anchor
<1>4. AmdBuffer \in Nat \ {0}
  BY AmdAssumption
<1>5. stop \in Int /\ near \in Int
  BY <1>1, <1>2, <1>4
<1>6. Toward(side, near, f[k].close) > 0
  <2>. DEFINE close == f[k].close
  <2>1. close \in Int
    BY <1>1
  <2>. HIDE DEF close
  <2>2. CASE side = Buy
    <3>1. near = close - AmdBuffer
      BY <2>2 DEF close
    <3>2. close - near > 0
      BY <1>4, <2>1, <3>1
    <3>. QED BY <2>2, <3>2 DEF Toward, close
  <2>3. CASE side # Buy
    <3>1. near = close + AmdBuffer
      BY <2>3 DEF close
    <3>2. near - close > 0
      BY <1>4, <2>1, <3>1
    <3>. QED BY <2>3, <3>2 DEF Toward, close
  <2>. QED BY <2>2, <2>3
<1>. QED BY <1>3, <1>5, <1>6

\* What a size within a budget may lose.
LEMMA SizeIsIn ==
  ASSUME NEW budget \in Nat, NEW a \in Int, NEW b \in Int, a # b
  PROVE  /\ Gap(a, b) \in Nat \ {0}
         /\ budget \div Gap(a, b) \in Nat /\ (budget \div Gap(a, b)) * Gap(a, b) <= budget
<1>1. Gap(a, b) \in Nat \ {0}
  BY DEF Gap, Higher, Lower
<1>. QED BY <1>1, Quotient

IsTrade(s) ==
  /\ s.side \in Sides /\ s.entry \in Int /\ s.stop \in Int /\ s.target \in Int
  /\ Toward(s.side, s.stop, s.entry) > 0 /\ Toward(s.side, s.entry, s.target) > 0

\* A bar has one signal of a side at most, and that is a trade.
LEMMA AmdSignalIs ==
  ASSUME NEW f \in Seq(Placed), NEW k \in Bars(f), NEW side \in Sides, NEW s \in AmdSignal(f, k, side)
  PROVE  /\ s.at = k /\ s.side = side /\ IsTrade(s) /\ AmdSignal(f, k, side) = {s}
         /\ s.quantity = 1 \/ s.quantity * Gap(s.entry, s.stop) <= AmdBudget
<1>. DEFINE close == f[k].close
            stop == AmdStop(f, k, side)
            target == IF side = Buy THEN close + (close - stop) * AmdReward ELSE close - (stop - close) * AmdReward
            quantity == AmdQuantity(close, stop)
<1>1. /\ s = [at |-> k, side |-> side, entry |-> close, stop |-> stop, target |-> target, quantity |-> quantity]
      /\ AmdSignal(f, k, side) = {s}
  BY DEF AmdSignal
<1>2. close \in Int /\ stop \in Int /\ Toward(side, stop, close) > 0
  BY BarIs, PlacedIs, AmdStopIs
<1>. HIDE DEF close, stop
<1>3. target \in Int /\ Toward(side, close, target) > 0
  <2>1. AmdReward \in Nat \ {0}
    BY AmdAssumption
  <2>2. \A d \in Nat \ {0} : d * AmdReward \in Nat \ {0}
    BY <2>1
  <2>3. CASE side = Buy
    <3>1. close - stop \in Nat \ {0}
      BY <1>2, <2>3 DEF Toward
    <3>2. (close - stop) * AmdReward \in Nat \ {0}
      BY <2>2, <3>1
    <3>. QED BY <1>2, <2>3, <3>2 DEF Toward
  <2>4. CASE side # Buy
    <3>1. stop - close \in Nat \ {0}
      BY <1>2, <2>4 DEF Toward
    <3>2. (stop - close) * AmdReward \in Nat \ {0}
      BY <2>2, <3>1
    <3>. QED BY <1>2, <2>4, <3>2 DEF Toward
  <2>. QED BY <2>3, <2>4
<1>4. quantity = 1 \/ quantity * Gap(close, stop) <= AmdBudget
  <2>1. close # stop
    BY <1>2 DEF Toward
  <2>2. (AmdBudget \div Gap(close, stop)) * Gap(close, stop) <= AmdBudget
    BY <1>2, <2>1, SizeIsIn, AmdAssumption
  <2>. QED BY <2>2 DEF AmdQuantity, Higher
<1>. HIDE DEF target, quantity
<1>. QED BY <1>1, <1>2, <1>3, <1>4 DEF IsTrade

-----------------------------------------------------------------------------
(* Its scan *)

\* What was found at some bars, on both sides.
AllFound(found, n) == UNION {found[k][side] : k \in 1..n, side \in Sides}

LEMMA ScanIs ==
  ASSUME NEW f, NEW found, NEW n \in Nat, NEW k \in 1..n, NEW old
  PROVE  /\ old \subseteq Scan(f, found, old, k)
         /\ Scan(f, found, old, k) \subseteq old \cup found[k][Buy] \cup found[k][Sell]
         /\ old \subseteq AllFound(found, n) => Scan(f, found, old, k) \subseteq AllFound(found, n)
<1>1. /\ old \subseteq Scan(f, found, old, k)
      /\ Scan(f, found, old, k) \subseteq old \cup found[k][Buy] \cup found[k][Sell]
  BY DEF Scan
<1>2. found[k][Buy] \subseteq AllFound(found, n) /\ found[k][Sell] \subseteq AllFound(found, n)
  BY DEF AllFound, Sides
<1>. QED BY <1>1, <1>2

LEMMA ScanAllIs ==
  ASSUME NEW f, Len(f) \in Nat, NEW found
  PROVE  \E u : /\ ScanAll(f, found) = u[Len(f)]
                /\ \A k \in 0..Len(f) : u[k] = IF k <= WarmUp THEN {} ELSE Scan(f, found, u[k - 1], k)
<1>. DEFINE n == Len(f)
            A == SUBSET AllFound(found, n)
            step == [k \in 1..n |-> [x \in A |-> IF k <= WarmUp THEN {} ELSE Scan(f, found, x, k)]]
            Is(u) == u = [k \in 0..n |-> IF k <= WarmUp THEN {} ELSE Scan(f, found, u[k - 1], k)]
            upto == CHOOSE u : Is(u)
<1>1. ScanAll(f, found) = upto[n]
  BY DEF ScanAll
<1>2. IsSteps(step, n, A)
  <2>1. ASSUME NEW k \in 1..n, NEW x \in A PROVE (IF k <= WarmUp THEN {} ELSE Scan(f, found, x, k)) \in A
    BY ScanIs
  <2>. QED BY <2>1 DEF IsSteps
<1>3. PICK t \in [0..n -> A] : t[0] = {} /\ \A k \in 1..n : t[k] = step[k][t[k - 1]]
  <2>. DEFINE none == {}
  <2>1. none \in A
    OBVIOUS
  <2>. HIDE DEF step, A, n, none
  <2>2. n \in Nat
    BY DEF n
  <2>3. \E t : IsScan(t, step, n, A, none)
    BY <1>2, <2>1, <2>2, ScanExists
  <2>. QED BY <2>3 DEF none, IsScan
<1>4. ASSUME NEW k \in 1..n
      PROVE  t[k] = IF k <= WarmUp THEN {} ELSE Scan(f, found, t[k - 1], k)
  <2>1. t[k - 1] \in A
    <3>. HIDE DEF A
    <3>. QED BY <1>3
  <2>2. step[k] = [x \in A |-> IF k <= WarmUp THEN {} ELSE Scan(f, found, x, k)]
    OBVIOUS
  <2>. HIDE DEF A, step
  <2>. QED BY <1>3, <2>1, <2>2
<1>5. 0 <= WarmUp
  BY AmdAssumption
<1>6. Is(t)
  BY <1>3, <1>4, <1>5
<1>7. Is(upto)
  <2>. HIDE DEF Is
  <2>. QED BY <1>6
<1>8. \A k \in 0..n : upto[k] = IF k <= WarmUp THEN {} ELSE Scan(f, found, upto[k - 1], k)
  <2>. HIDE DEF upto
  <2>. QED BY <1>7
<1>. QED BY <1>1, <1>8

\* What the scan of a frame is over.
Found(f) == [k \in Bars(f) |-> [side \in Sides |-> AmdSignal(f, k, side)]]

\* One bar adds nothing, or one signal that nothing forbids.
LEMMA ScanPicks ==
  ASSUME NEW f \in Seq(Placed), NEW k \in Bars(f), NEW old
  PROVE  \/ Scan(f, Found(f), old, k) = old
         \/ /\ DayOpen(f, old, k)
            /\ \E side \in Sides : \E x \in AmdSignal(f, k, side) :
                 AmdCooled(old, k, side) /\ Scan(f, Found(f), old, k) = old \cup {x}
<1>. DEFINE On(side) == IF AmdCooled(old, k, side) THEN Found(f)[k][side] ELSE {}
            picked == IF On(Buy) # {} THEN On(Buy) ELSE On(Sell)
<1>1. Scan(f, Found(f), old, k) = IF ~DayOpen(f, old, k) THEN old ELSE old \cup picked
  BY DEF Scan
<1>2. \A side \in Sides : Found(f)[k][side] = AmdSignal(f, k, side)
  BY DEF Found
<1>3. Buy \in Sides /\ Sell \in Sides
  BY DEF Sides
<1>4. picked = {} \/ \E side \in Sides : AmdCooled(old, k, side) /\ picked = AmdSignal(f, k, side) /\ picked # {}
  BY <1>2, <1>3
<1>. HIDE DEF picked
<1>5. CASE picked = {}
  BY <1>1, <1>5
<1>6. ASSUME NEW side \in Sides, AmdCooled(old, k, side), picked = AmdSignal(f, k, side), picked # {}
      PROVE  \E x \in AmdSignal(f, k, side) : picked = {x}
  <2>1. PICK x \in AmdSignal(f, k, side) : TRUE
    BY <1>6
  <2>2. AmdSignal(f, k, side) = {x}
    BY AmdSignalIs
  <2>. QED BY <1>6, <2>2
<1>. QED BY <1>1, <1>4, <1>5, <1>6

\* What a scan has found by bar k.
OfBars(S, f, k) == \A s \in S : s.at \in 1..k /\ s.side \in Sides /\ s \in AmdSignal(f, s.at, s.side)
Spaced(S) == \A s, t \in S : s # t /\ s.side = t.side => Gap(s.at, t.at) >= AmdCooldown
OnDayOf(S, f, j) == {s \in S : f[s.at].day = f[j].day}
Daily(S, f) == \A j \in Bars(f) : Cardinality(OnDayOf(S, f, j)) <= AmdDaily

LEMMA ScanKeeps ==
  ASSUME NEW f \in Seq(Placed), NEW k \in Bars(f), NEW old,
         IsFiniteSet(old), OfBars(old, f, k - 1), Spaced(old), Daily(old, f),
         NEW next, next = Scan(f, Found(f), old, k)
  PROVE  IsFiniteSet(next) /\ OfBars(next, f, k) /\ Spaced(next) /\ Daily(next, f)
<1>0. k \in 1..Len(f) /\ Len(f) \in Nat
  BY BarIs
<1>1. CASE next = old
  <2>1. OfBars(next, f, k)
    BY <1>0, <1>1 DEF OfBars
  <2>. QED BY <1>1, <2>1
<1>2. ASSUME DayOpen(f, old, k), NEW side \in Sides, NEW x \in AmdSignal(f, k, side),
             AmdCooled(old, k, side), next = old \cup {x}
      PROVE  IsFiniteSet(next) /\ OfBars(next, f, k) /\ Spaced(next) /\ Daily(next, f)
  <2>1. x.at = k /\ x.side = side
    BY AmdSignalIs
  <2>2. IsFiniteSet(next)
    BY <1>2, FS_AddElement
  <2>3. OfBars(next, f, k)
    BY <1>0, <1>2, <2>1 DEF OfBars
  <2>4. Spaced(next)
    <3>1. ASSUME NEW s \in old, s.side = x.side PROVE Gap(s.at, x.at) >= AmdCooldown /\ Gap(x.at, s.at) >= AmdCooldown
      <4>1. s.at \in 1..k - 1 /\ k - s.at >= AmdCooldown
        BY <1>2, <2>1, <3>1 DEF OfBars, AmdCooled
      <4>2. Gap(s.at, k) = k - s.at /\ Gap(k, s.at) = k - s.at
        BY <1>0, <4>1 DEF Gap, Higher, Lower
      <4>. QED BY <2>1, <4>1, <4>2
    <3>. QED BY <1>2, <3>1 DEF Spaced
  <2>5. ASSUME NEW j \in Bars(f) PROVE Cardinality(OnDayOf(next, f, j)) <= AmdDaily
    <3>1. CASE f[k].day = f[j].day
      <4>1. OnDayOf(next, f, j) = OnDayOf(old, f, j) \cup {x}
        BY <1>2, <2>1, <3>1 DEF OnDayOf
      <4>2. OnDayOf(old, f, j) = {s \in old : f[s.at].day = f[k].day}
        BY <3>1 DEF OnDayOf
      <4>3. Cardinality(OnDayOf(old, f, j)) < AmdDaily
        BY <1>2, <4>2 DEF DayOpen
      <4>4. IsFiniteSet(OnDayOf(old, f, j))
        BY FS_Subset DEF OnDayOf
      <4>5. Cardinality(OnDayOf(old, f, j)) \in Nat
        BY <4>4, FS_CardinalityType
      <4>6. Cardinality(OnDayOf(next, f, j)) \in {Cardinality(OnDayOf(old, f, j)), Cardinality(OnDayOf(old, f, j)) + 1}
        BY <4>1, <4>4, FS_AddElement
      <4>. QED BY <4>3, <4>5, <4>6, AmdAssumption
    <3>2. CASE f[k].day # f[j].day
      <4>1. OnDayOf(next, f, j) = OnDayOf(old, f, j)
        BY <1>2, <2>1, <3>2 DEF OnDayOf
      <4>. QED BY <4>1 DEF Daily
    <3>. QED BY <3>1, <3>2
  <2>6. Daily(next, f)
    BY <2>5 DEF Daily
  <2>. QED BY <2>2, <2>3, <2>4, <2>6
<1>. QED BY <1>1, <1>2, ScanPicks

\* The signals of a frame.
LEMMA AmdScanned ==
  ASSUME NEW f \in Seq(Placed)
  PROVE  OfBars(AmdSignals(f), f, Len(f)) /\ Spaced(AmdSignals(f)) /\ Daily(AmdSignals(f), f)
<1>. DEFINE n == Len(f)
            Holds(S, k) == IsFiniteSet(S) /\ OfBars(S, f, k) /\ Spaced(S) /\ Daily(S, f)
<1>0. n \in Nat /\ Bars(f) = 1..n
  BY BarIs
<1>1. PICK u : /\ ScanAll(f, Found(f)) = u[n]
               /\ \A k \in 0..n : u[k] = IF k <= WarmUp THEN {} ELSE Scan(f, Found(f), u[k - 1], k)
  BY <1>0, ScanAllIs
<1>2. ASSUME NEW k \in 0..n PROVE Holds({}, k)
  <2>1. IsFiniteSet({}) /\ Cardinality({}) = 0
    BY FS_EmptySet
  <2>2. \A j \in Bars(f) : OnDayOf({}, f, j) = {}
    BY DEF OnDayOf
  <2>3. 0 <= AmdDaily
    BY AmdAssumption
  <2>4. \A j \in Bars(f) : Cardinality(OnDayOf({}, f, j)) <= AmdDaily
    BY <2>1, <2>2, <2>3
  <2>5. OfBars({}, f, k) /\ Spaced({})
    BY DEF OfBars, Spaced
  <2>. QED BY <2>1, <2>4, <2>5 DEF Daily
<1>. DEFINE T == {k \in 0..n : Holds(u[k], k)}
<1>3. 0 \in T
  <2>1. u[0] = {}
    BY <1>0, <1>1, AmdAssumption
  <2>2. 0 \in 0..n
    BY <1>0
  <2>. HIDE DEF Holds
  <2>. QED BY <1>2, <2>1, <2>2
<1>4. ASSUME NEW k \in 1..n, k - 1 \in T PROVE k \in T
  <2>0. k \in 0..n /\ k \in Bars(f)
    BY <1>0
  <2>1. CASE k <= WarmUp
    <3>1. u[k] = {}
      BY <1>1, <2>0, <2>1
    <3>. HIDE DEF Holds
    <3>. QED BY <1>2, <2>0, <3>1
  <2>2. CASE ~(k <= WarmUp)
    <3>1. u[k] = Scan(f, Found(f), u[k - 1], k)
      BY <1>1, <2>0, <2>2
    <3>2. Holds(u[k - 1], k - 1)
      BY <1>4
    <3>3. Holds(u[k], k)
      BY <2>0, <3>1, <3>2, ScanKeeps
    <3>. HIDE DEF Holds
    <3>. QED BY <2>0, <3>3
  <2>. QED BY <2>1, <2>2
<1>5. n \in T
  <2>. HIDE DEF T, n
  <2>1. 0..n \subseteq T
    BY <1>0, <1>3, <1>4, Climb
  <2>. QED BY <1>0, <2>1
<1>6. AmdSignals(f) = u[n]
  BY <1>1 DEF AmdSignals, Found
<1>. QED BY <1>5, <1>6

LEMMA AmdSound ==
  ASSUME tape \in Seq(Placed)
  PROVE  AmdSignalsSpaced /\ AmdSignalsAreTrades
<1>1. /\ OfBars(AmdSignals(tape), tape, Len(tape)) /\ Spaced(AmdSignals(tape)) /\ Daily(AmdSignals(tape), tape)
  BY AmdScanned
<1>2. AmdSignalsSpaced
  BY <1>1 DEF AmdSignalsSpaced, Spaced, Daily, OnDayOf
<1>3. ASSUME NEW s \in AmdSignals(tape)
      PROVE  IsTrade(s) /\ (s.quantity = 1 \/ s.quantity * Gap(s.entry, s.stop) <= AmdBudget)
  <2>1. s.at \in Bars(tape) /\ s.side \in Sides /\ s \in AmdSignal(tape, s.at, s.side)
    BY <1>1, <1>3, BarIs DEF OfBars
  <2>. QED BY <2>1, AmdSignalIs
<1>4. AmdSignalsAreTrades
  BY <1>3 DEF AmdSignalsAreTrades, IsTrade
<1>. QED BY <1>2, <1>4

-----------------------------------------------------------------------------
(* The API beside the platform *)

\* A price moved behind is behind, one that is reached ahead.
LEMMA MovedIs ==
  ASSUME NEW price \in Int, NEW by \in Int, NEW side \in Sides
  PROVE  Moved(price, by, side) \in Int /\ Toward(side, price, Moved(price, by, side)) = by
BY DEF Moved, Toward

LEMMA ReachIs ==
  ASSUME NEW close \in Int, NEW stop \in Int, close # stop, NEW side \in Sides
  PROVE  Reach(close, stop, side) \in Int /\ Toward(side, close, Reach(close, stop, side)) > 0
<1>1. Gap(close, stop) \in Nat \ {0}
  BY DEF Gap, Higher, Lower
<1>2. AmdReward \in Nat \ {0}
  BY AmdAssumption
<1>3. Gap(close, stop) * AmdReward \in Nat \ {0}
  BY <1>1, <1>2
<1>. QED BY <1>3, MovedIs DEF Reach

\* The edge of a range of bars.
LEMMA FurthestAmong ==
  ASSUME NEW n \in Nat, NEW S, S \subseteq 1..n, S # {}, NEW g, \A k \in S : g[k] \in Int,
         NEW V, V = {g[k] : k \in S}, NEW side
  PROVE  Furthest(V, side) \in Int
BY MaxAmong, MinAmong, ZenonT(60) DEF Furthest

LEMMA RangeEdgeIs ==
  ASSUME NEW f \in Seq(Placed), NEW k \in Bars(f), k > ScanFrom, NEW side \in Sides
  PROVE  RangeEdge(f, k, side) \in Int
<1>. DEFINE S == Higher(1, k - RangeBars) .. k - 1
            g == [j \in S |-> Fore(f[j], side)]
            V == {g[j] : j \in S}
<1>1. k \in 1..Len(f) /\ Len(f) \in Nat
  BY BarIs
<1>2. S \subseteq 1..Len(f) /\ k - 1 \in S
  BY <1>1, CleanAssumption DEF Higher
<1>3. \A j \in S : g[j] \in Int
  BY <1>2, BarIs, AroundClose
<1>4. RangeEdge(f, k, side) = Furthest(V, side)
  <2>1. V = {Fore(f[j], side) : j \in S}
    OBVIOUS
  <2>. HIDE DEF V
  <2>. QED BY <2>1 DEF RangeEdge
<1>5. Furthest(V, side) \in Int
  <2>1. S # {}
    BY <1>2
  <2>. HIDE DEF S, g
  <2>. QED BY <1>1, <1>2, <1>3, <2>1, FurthestAmong
<1>. QED BY <1>4, <1>5

\* The signals of a bar of these two strategies are trades, too.
LEMMA SignalAtIs ==
  ASSUME NEW f \in Seq(Placed), NEW k \in Bars(f), k > ScanFrom, NEW side \in Sides,
         NEW name, NEW s \in SignalAt(name, f, k, side)
  PROVE  s.at = k /\ s.side = side /\ IsTrade(s)
<1>. DEFINE close == f[k].close
            behind == Behind(f[k], side)
            buffer == -AmdBuffer
<1>0. close \in Int /\ behind \in Int /\ Toward(side, behind, close) >= 0 /\ f[k].average \in Int
  BY BarIs, PlacedIs, AroundClose
<1>1. buffer \in Int /\ buffer < 0
  BY AmdAssumption
<1>. HIDE DEF close, behind, buffer
\* A stop that is moved behind from a price that is not in front of the close.
<1>2. ASSUME NEW anchor \in Int, Toward(side, anchor, close) >= 0
      PROVE  /\ Moved(anchor, buffer, side) \in Int
             /\ Toward(side, Moved(anchor, buffer, side), close) > 0 /\ close # Moved(anchor, buffer, side)
  <2>. DEFINE stop == Moved(anchor, buffer, side)
  <2>1. stop \in Int /\ Toward(side, anchor, stop) = buffer
    BY <1>1, MovedIs
  <2>. HIDE DEF stop
  <2>2. /\ Toward(side, anchor, close) = Toward(side, anchor, stop) + Toward(side, stop, close)
        /\ Toward(side, stop, close) \in Int /\ Toward(side, anchor, close) \in Int
    BY <1>0, <2>1 DEF Toward
  <2>3. Toward(side, stop, close) > 0
    BY <1>1, <1>2, <2>1, <2>2
  <2>4. close # stop
    BY <1>0, <2>1, <2>3 DEF Toward
  <2>. QED BY <2>1, <2>3, <2>4 DEF stop
<1>3. ASSUME NEW points, NEW stop \in Int, Toward(side, stop, close) > 0,
             NEW target \in Int, Toward(side, close, target) > 0, s \in Passed(f, k, side, points, stop, target)
      PROVE  s.at = k /\ s.side = side /\ IsTrade(s)
  <2>1. s = [at |-> k, side |-> side, entry |-> close, stop |-> stop, target |-> target]
    BY <1>3 DEF Passed, close
  <2>. QED BY <1>0, <1>3, <2>1 DEF IsTrade
<1>4. CASE name = "breakout"
  <2>. DEFINE edge == RangeEdge(f, k, side)
              anchor == Furthest({behind, edge}, Flip(side))
              stop == Moved(anchor, buffer, side)
              points == BreakoutPoints(f, k, side)
  <2>1. s \in Passed(f, k, side, points, stop, Reach(close, stop, side))
    BY <1>4 DEF SignalAt, BreakoutAt, close, behind, buffer
  <2>2. edge \in Int
    BY RangeEdgeIs
  <2>3. anchor \in Int /\ Toward(side, anchor, behind) >= 0
    <3>. HIDE DEF edge
    <3>. QED BY <1>0, <2>2, FurthestOfTwo
  <2>. HIDE DEF anchor
  <2>4. Toward(side, anchor, close) >= 0
    <3>1. /\ Toward(side, anchor, close) = Toward(side, anchor, behind) + Toward(side, behind, close)
          /\ Toward(side, anchor, behind) \in Int /\ Toward(side, behind, close) \in Int
      BY <1>0, <2>3 DEF Toward
    <3>. QED BY <1>0, <2>3, <3>1
  <2>5. stop \in Int /\ Toward(side, stop, close) > 0 /\ close # stop
    BY <1>2, <2>3, <2>4
  <2>. HIDE DEF stop, points
  <2>6. Reach(close, stop, side) \in Int /\ Toward(side, close, Reach(close, stop, side)) > 0
    BY <1>0, <2>5, ReachIs
  <2>. QED BY <1>3, <2>1, <2>5, <2>6
<1>5. CASE name # "breakout"
  <2>. DEFINE stop == Moved(behind, buffer, side)
              points == ReversionPoints(f, k, side)
              reach == Reach(close, stop, side)
              nearer == Furthest({f[k].average, reach}, Flip(side))
              target == ReversionTarget(f, k, side, stop)
  <2>1. s \in Passed(f, k, side, points, stop, target)
    BY <1>5 DEF SignalAt, ReversionAt, behind, buffer
  <2>2. stop \in Int /\ Toward(side, stop, close) > 0 /\ close # stop
    BY <1>0, <1>2
  <2>. HIDE DEF stop, points
  <2>3. reach \in Int /\ Toward(side, close, reach) > 0
    BY <1>0, <2>2, ReachIs
  <2>4. target = IF Toward(side, close, nearer) > 0 THEN nearer ELSE reach
    BY DEF ReversionTarget, close
  <2>. HIDE DEF reach
  <2>5. nearer \in Int
    BY <1>0, <2>3, FurthestOfTwo
  <2>. HIDE DEF nearer, target
  <2>6. target \in Int /\ Toward(side, close, target) > 0
    BY <2>3, <2>4, <2>5
  <2>. QED BY <1>3, <2>1, <2>2, <2>6
<1>. QED BY <1>4, <1>5

LEMMA ScanBarsIs ==
  ASSUME NEW found, Len(found) \in Nat
  PROVE  \E u : /\ ScanBars(found) = u[Len(found)]
                /\ \A k \in 0..Len(found) : u[k] = IF k <= ScanFrom THEN {} ELSE ScanBar(found, u[k - 1], k)
<1>. DEFINE n == Len(found)
            A == SUBSET AllFound(found, n)
            step == [k \in 1..n |-> [x \in A |-> IF k <= ScanFrom THEN {} ELSE ScanBar(found, x, k)]]
            Is(u) == u = [k \in 0..n |-> IF k <= ScanFrom THEN {} ELSE ScanBar(found, u[k - 1], k)]
            upto == CHOOSE u : Is(u)
<1>1. ScanBars(found) = upto[n]
  BY DEF ScanBars
<1>2. IsSteps(step, n, A)
  <2>1. ASSUME NEW k \in 1..n, NEW x \in A PROVE (IF k <= ScanFrom THEN {} ELSE ScanBar(found, x, k)) \in A
    <3>1. found[k][Buy] \subseteq AllFound(found, n) /\ found[k][Sell] \subseteq AllFound(found, n)
      BY DEF AllFound, Sides
    <3>. QED BY <3>1 DEF ScanBar
  <2>. QED BY <2>1 DEF IsSteps
<1>3. PICK t \in [0..n -> A] : t[0] = {} /\ \A k \in 1..n : t[k] = step[k][t[k - 1]]
  <2>. DEFINE none == {}
  <2>1. none \in A
    OBVIOUS
  <2>. HIDE DEF step, A, n, none
  <2>2. n \in Nat
    BY DEF n
  <2>3. \E t : IsScan(t, step, n, A, none)
    BY <1>2, <2>1, <2>2, ScanExists
  <2>. QED BY <2>3 DEF none, IsScan
<1>4. ASSUME NEW k \in 1..n
      PROVE  t[k] = IF k <= ScanFrom THEN {} ELSE ScanBar(found, t[k - 1], k)
  <2>1. t[k - 1] \in A
    <3>. HIDE DEF A
    <3>. QED BY <1>3
  <2>2. step[k] = [x \in A |-> IF k <= ScanFrom THEN {} ELSE ScanBar(found, x, k)]
    OBVIOUS
  <2>. HIDE DEF A, step
  <2>. QED BY <1>3, <2>1, <2>2
<1>5. 0 <= ScanFrom
  BY CleanAssumption
<1>6. Is(t)
  BY <1>3, <1>4, <1>5
<1>7. Is(upto)
  <2>. HIDE DEF Is
  <2>. QED BY <1>6
<1>8. \A k \in 0..n : upto[k] = IF k <= ScanFrom THEN {} ELSE ScanBar(found, upto[k - 1], k)
  <2>. HIDE DEF upto
  <2>. QED BY <1>7
<1>. QED BY <1>1, <1>8

\* What a bar is looked at for.
Looked(name, f) == [k \in Bars(f) |-> [side \in Sides |-> SignalAt(name, f, k, side)]]

\* Every signal of a scan is one of a bar behind the first ones.
OfScan(S, name, f) == \A s \in S : \E k \in Bars(f), side \in Sides : k > ScanFrom /\ s \in SignalAt(name, f, k, side)

LEMMA FrameScanned ==
  ASSUME NEW f \in Seq(Placed), NEW name
  PROVE  OfScan(ScanFrame(name, f), name, f)
<1>. DEFINE n == Len(f)
            found == Looked(name, f)
<1>0. n \in Nat /\ Bars(f) = 1..n /\ Len(found) = n
  BY BarIs DEF Looked
<1>1. \A k \in Bars(f) : found[k][Buy] = SignalAt(name, f, k, Buy) /\ found[k][Sell] = SignalAt(name, f, k, Sell)
  BY DEF Looked, Sides
<1>2. ScanFrame(name, f) = ScanBars(found)
  BY DEF ScanFrame, Looked
<1>. HIDE DEF found
<1>3. PICK u : /\ ScanBars(found) = u[n]
               /\ \A k \in 0..n : u[k] = IF k <= ScanFrom THEN {} ELSE ScanBar(found, u[k - 1], k)
  BY <1>0, ScanBarsIs
<1>. DEFINE T == {k \in 0..n : OfScan(u[k], name, f)}
<1>4. 0 \in T
  <2>1. u[0] = {} /\ 0 \in 0..n
    BY <1>0, <1>3, CleanAssumption
  <2>. QED BY <2>1 DEF OfScan
<1>5. ASSUME NEW k \in 1..n, k - 1 \in T PROVE k \in T
  <2>0. k \in 0..n /\ k \in Bars(f)
    BY <1>0
  <2>1. CASE k <= ScanFrom
    <3>1. u[k] = {}
      BY <1>3, <2>0, <2>1
    <3>. QED BY <2>0, <3>1 DEF OfScan
  <2>2. CASE ~(k <= ScanFrom)
    <3>1. u[k] = ScanBar(found, u[k - 1], k)
      BY <1>3, <2>0, <2>2
    <3>2. u[k] \subseteq u[k - 1] \cup SignalAt(name, f, k, Buy) \cup SignalAt(name, f, k, Sell)
      BY <1>1, <2>0, <3>1 DEF ScanBar
    <3>3. k > ScanFrom /\ Buy \in Sides /\ Sell \in Sides
      BY <2>2, CleanAssumption DEF Sides
    <3>4. OfScan(u[k - 1], name, f)
      BY <1>5
    <3>5. OfScan(u[k], name, f)
      BY <2>0, <3>2, <3>3, <3>4 DEF OfScan
    <3>. QED BY <2>0, <3>5
  <2>. QED BY <2>1, <2>2
<1>6. n \in T
  <2>. HIDE DEF T, n
  <2>1. 0..n \subseteq T
    BY <1>0, <1>4, <1>5, Climb
  <2>. QED BY <1>0, <2>1
<1>. QED BY <1>2, <1>3, <1>6

\* Whatever is asked for, the signals of a frame are trades.
LEMMA RunIsTrades ==
  ASSUME NEW f \in Seq(Placed), NEW name, NEW s \in RunStrategy(name, f)
  PROVE  IsTrade(s)
<1>1. CASE name = "amd"
  <2>1. s \in AmdSignals(f)
    BY <1>1 DEF RunStrategy, Confluence
  <2>2. s.at \in Bars(f) /\ s.side \in Sides /\ s \in AmdSignal(f, s.at, s.side)
    BY <2>1, AmdScanned, BarIs DEF OfBars
  <2>. QED BY <2>2, AmdSignalIs
<1>2. CASE name # "amd"
  <2>1. s \in ScanFrame(name, f)
    BY <1>2 DEF RunStrategy
  <2>2. \E k \in Bars(f), side \in Sides : k > ScanFrom /\ s \in SignalAt(name, f, k, side)
    BY <2>1, FrameScanned DEF OfScan
  <2>. QED BY <2>2, SignalAtIs
<1>. QED BY <1>1, <1>2

LEMMA PricesRefused ==
  ASSUME tape \in Seq(Placed)
  PROVE  OnlyPricesAreRefused
<1>1. ASSUME NEW name \in Registered, NEW s \in RunStrategy(name, tape)
      PROVE  ValidateSignal(s) \/ s.entry <= 0 \/ s.stop <= 0 \/ s.target <= 0
  <2>1. IsTrade(s)
    BY RunIsTrades
  <2>. QED BY <2>1 DEF IsTrade, ValidateSignal
<1>. QED BY <1>1 DEF OnlyPricesAreRefused

\* More capital at risk is held against the same distance.
LEMMA SizeGrows ==
  ASSUME NEW p \in RiskPcts, NEW q \in RiskPcts, p <= q, ~(p <= 10 /\ q > 10), NEW a \in Int, NEW b \in Int, a # b
  PROVE  PositionSize(p, a, b) <= PositionSize(q, a, b)
<1>1. p \in Nat /\ q \in Nat /\ Stake \in Nat
  BY CleanAssumption
<1>2. \A x, y \in Nat : x <= y => Stake * x \in Nat /\ Stake * y \in Nat /\ Stake * x <= Stake * y
  BY <1>1
<1>. DEFINE little == RiskAmount(p)
            much == RiskAmount(q)
            unit == 1000 * Gap(a, b)
<1>3. little \in Nat /\ much \in Nat /\ little <= much
  BY <1>1, <1>2 DEF RiskAmount
<1>4. unit \in Nat \ {0}
  <2>1. Gap(a, b) \in Nat \ {0}
    BY <1>1, SizeIsIn
  <2>. QED BY <2>1
<1>5. /\ PositionSize(p, a, b) = IF little = 0 THEN 1 ELSE Higher(1, little \div unit)
      /\ PositionSize(q, a, b) = IF much = 0 THEN 1 ELSE Higher(1, much \div unit)
  BY DEF PositionSize
<1>. HIDE DEF little, much, unit
<1>6. little \div unit <= much \div unit /\ little \div unit \in Nat /\ much \div unit \in Nat
  BY <1>3, <1>4, QuotientGrows, Quotient
<1>. QED BY <1>3, <1>5, <1>6 DEF Higher

\* One percent is the whole capital.
LEMMA SizeOfOne ==
  ASSUME NEW a \in Int, NEW b \in Int, a # b
  PROVE  PositionSize(10, a, b) = Higher(1, Stake \div Gap(a, b))
<1>1. Stake \in Nat /\ Gap(a, b) \in Nat \ {0}
  BY SizeIsIn, CleanAssumption
<1>2. RiskAmount(10) = 1000 * Stake
  BY <1>1 DEF RiskAmount
<1>3. (1000 * Stake) \div (1000 * Gap(a, b)) = Stake \div Gap(a, b)
  BY <1>1, QuotientScales
<1>4. CASE Stake = 0
  <2>1. Stake \div Gap(a, b) = 0
    <3>. DEFINE q == Stake \div Gap(a, b)
                g == Gap(a, b)
    <3>1. q \in Nat /\ q * g <= 0 /\ g \in Nat \ {0}
      BY <1>1, <1>4, Quotient
    <3>. HIDE DEF q, g
    <3>2. q = 0
      BY <3>1
    <3>. QED BY <3>2 DEF q
  <2>. QED BY <1>2, <1>4, <2>1 DEF PositionSize, Higher
<1>5. CASE Stake # 0
  BY <1>1, <1>2, <1>3, <1>5 DEF PositionSize
<1>. QED BY <1>4, <1>5

LEMMA RiskHolds ==
  ASSUME tape \in Seq(Placed)
  PROVE  MoreRiskHoldsMore
<1>1. ASSUME NEW name \in Registered, NEW s \in RunStrategy(name, tape)
      PROVE  s.entry \in Int /\ s.stop \in Int /\ s.entry # s.stop
  <2>1. IsTrade(s)
    BY RunIsTrades
  <2>. QED BY <2>1 DEF IsTrade, Toward
<1>. QED BY <1>1, SizeGrows, SizeOfOne DEF MoreRiskHoldsMore

-----------------------------------------------------------------------------
(* The latest bar *)

LEMMA SeenIs ==
  ASSUME NEW bar \in SeenBars
  PROVE  /\ bar.low \in Nat \ {0} /\ bar.high \in Nat \ {0} /\ bar.close \in Nat \ {0}
         /\ bar.low <= bar.close /\ bar.close <= bar.high
BY SeenAssumption

\* Some bars of a batch: as many as there are, and the last is the latest.
LEMMA LastOfIs ==
  ASSUME NEW bars \in Seq(SeenBars), bars # <<>>, NEW w \in Nat \ {0}
  PROVE  /\ LastOf(bars, w) \in Seq(SeenBars) /\ LastOf(bars, w) # <<>>
         /\ Current(LastOf(bars, w)) = Current(bars)
<1>. DEFINE n == Len(bars)
            m == Max({1, n - w + 1})
<1>1. n \in Nat \ {0}
  OBVIOUS
<1>2. m \in 1..n
  <2>1. n - w + 1 \in Int /\ n - w + 1 <= n
    BY <1>1
  <2>. DEFINE x == n - w + 1
  <2>0. 1 \in Int /\ x \in Int
    BY <2>1
  <2>. HIDE DEF n, x
  <2>2. Max({1, x}) \in {1, x} /\ Max({1, x}) >= 1
    BY <2>0, MaxOfTwo
  <2>. QED BY <1>1, <2>1, <2>2 DEF x
<1>3. LastOf(bars, w) = SubSeq(bars, m, n)
  BY DEF LastOf
<1>. HIDE DEF m
<1>4. /\ SubSeq(bars, m, n) \in Seq(SeenBars) /\ Len(SubSeq(bars, m, n)) = n - m + 1
      /\ SubSeq(bars, m, n)[n - m + 1] = bars[n]
  BY <1>1, <1>2
<1>. DEFINE last == SubSeq(bars, m, n)
<1>5. n - m + 1 \in Nat \ {0}
  BY <1>1, <1>2
<1>. HIDE DEF last, n
<1>6. last # <<>> /\ last[Len(last)] = bars[n]
  BY <1>4, <1>5 DEF last
<1>. QED BY <1>3, <1>4, <1>6 DEF Current, last, n

LEMMA TopIs ==
  ASSUME NEW bars \in Seq(SeenBars), bars # <<>>
  PROVE  /\ TopOf(bars) \in Nat \ {0} /\ BottomOf(bars) \in Nat \ {0}
         /\ \A k \in 1..Len(bars) : BottomOf(bars) <= bars[k].low /\ bars[k].high <= TopOf(bars)
<1>. DEFINE n == Len(bars)
            S == 1..n
            tops == [k \in S |-> bars[k].high]
            bottoms == [k \in S |-> bars[k].low]
            Tops == {tops[k] : k \in S}
            Bottoms == {bottoms[k] : k \in S}
<1>1. n \in Nat \ {0} /\ DOMAIN bars = S
  OBVIOUS
<1>2. \A k \in S : /\ bars[k] \in SeenBars /\ tops[k] = bars[k].high /\ bottoms[k] = bars[k].low
                   /\ tops[k] \in Nat \ {0} /\ bottoms[k] \in Nat \ {0}
  BY SeenIs
<1>3. TopOf(bars) = Max(Tops) /\ BottomOf(bars) = Min(Bottoms)
  <2>1. Tops = {bars[k].high : k \in DOMAIN bars} /\ Bottoms = {bars[k].low : k \in DOMAIN bars}
    BY <1>1
  <2>. HIDE DEF Tops, Bottoms
  <2>. QED BY <2>1 DEF TopOf, BottomOf
<1>4. S # {} /\ S \subseteq 1..n
  BY <1>1
<1>. HIDE DEF S, n, tops, bottoms, Tops, Bottoms
<1>9. \A k \in S : tops[k] \in Int /\ bottoms[k] \in Int
  BY <1>2
<1>5. Max(Tops) \in Tops /\ \A k \in S : tops[k] <= Max(Tops)
  <2>1. n \in Nat /\ Tops = {tops[k] : k \in S}
    BY <1>1 DEF Tops
  <2>. QED BY <1>4, <1>9, <2>1, MaxAmong, Zenon
<1>6. Min(Bottoms) \in Bottoms /\ \A k \in S : Min(Bottoms) <= bottoms[k]
  <2>1. n \in Nat /\ Bottoms = {bottoms[k] : k \in S}
    BY <1>1 DEF Bottoms
  <2>. QED BY <1>4, <1>9, <2>1, MinAmong, Zenon
<1>7. TopOf(bars) \in Nat \ {0} /\ BottomOf(bars) \in Nat \ {0}
  BY <1>2, <1>3, <1>5, <1>6 DEF Tops, Bottoms
<1>8. ASSUME NEW k \in S PROVE BottomOf(bars) <= bars[k].low /\ bars[k].high <= TopOf(bars)
  BY <1>2, <1>3, <1>5, <1>6, <1>8
<1>. QED BY <1>7, <1>8 DEF S, n

LEMMA CurrentIs ==
  ASSUME NEW bars \in Seq(SeenBars), bars # <<>>
  PROVE  /\ Current(bars) \in SeenBars /\ Current(bars).close \in Nat \ {0}
         /\ BottomOf(bars) <= Current(bars).close /\ Current(bars).close <= TopOf(bars)
<1>1. Len(bars) \in 1..Len(bars) /\ Current(bars) = bars[Len(bars)] /\ Current(bars) \in SeenBars
  BY DEF Current
<1>. QED BY <1>1, TopIs, SeenIs

\* The extremes of the last bars are around the latest close.
LEMMA WindowIs ==
  ASSUME NEW bars \in Seq(SeenBars), bars # <<>>, NEW w \in Nat \ {0}
  PROVE  /\ BottomOf(LastOf(bars, w)) \in Nat \ {0} /\ TopOf(LastOf(bars, w)) \in Nat \ {0}
         /\ BottomOf(LastOf(bars, w)) <= Current(bars).close
         /\ Current(bars).close <= TopOf(LastOf(bars, w))
BY LastOfIs, TopIs, CurrentIs

\* A signal is none, or has its prices on their sides and is refused for one below zero.
JudgedRight(signal) ==
  signal.side # "NO_TRADE" =>
    /\ signal.refused <=> signal.stop <= 0 \/ signal.target <= 0
    /\ signal.stop < signal.entry <=> signal.entry < signal.target
    /\ signal.stop # signal.entry
    /\ signal.entry \in Int /\ signal.target \in Int
    /\ IF signal.side = "BUY" THEN signal.entry < signal.target ELSE signal.target < signal.entry

LEMMA NoTradeIs == ASSUME NEW bars PROVE NoTrade(bars).side = "NO_TRADE" /\ JudgedRight(NoTrade(bars))
BY DEF NoTrade, JudgedRight

LEMMA EntryJudged ==
  ASSUME NEW bars \in Seq(SeenBars), bars # <<>>, NEW side, NEW stop \in Int, NEW target \in Int,
         NEW entry, entry = 1000 * Current(bars).close,
         IF side = "BUY" THEN stop < entry /\ entry < target ELSE target < entry /\ entry < stop
  PROVE  JudgedRight(BuildEntrySignal(bars, side, stop, target))
<1>. DEFINE sound == IF side = "BUY" THEN stop < entry /\ entry < target ELSE target < entry /\ entry < stop
            signal == BuildEntrySignal(bars, side, stop, target)
<1>1. entry \in Int
  BY CurrentIs
<1>2. signal = [side |-> side, time |-> Len(bars), entry |-> entry, stop |-> stop, target |-> target,
                refused |-> ~sound \/ stop <= 0 \/ target <= 0]
  BY DEF BuildEntrySignal
<1>3. sound = TRUE
  OBVIOUS
<1>. HIDE DEF signal, sound
<1>4. signal.entry = entry /\ signal.stop = stop /\ signal.target = target /\ signal.side = side
  BY <1>2
<1>5. signal.refused <=> stop <= 0 \/ target <= 0
  BY <1>2, <1>3
<1>6. stop < entry <=> entry < target
  BY <1>1
<1>. QED BY <1>1, <1>4, <1>5, <1>6 DEF JudgedRight, signal

LEMMA AroundJudged ==
  ASSUME NEW bars \in Seq(SeenBars), bars # <<>>, NEW side, NEW risk \in Nat \ {0}, NEW reward \in Nat \ {0}
  PROVE  JudgedRight(Around(bars, side, risk, reward))
<1>. DEFINE entry == 1000 * Current(bars).close
<1>1. entry \in Int
  BY CurrentIs
<1>2. CASE side = "BUY"
  <2>. DEFINE stop == entry - risk
              target == entry + reward
  <2>1. stop \in Int /\ target \in Int /\ stop < entry /\ entry < target
    BY <1>1
  <2>2. Around(bars, side, risk, reward) = BuildEntrySignal(bars, "BUY", stop, target)
    BY <1>2 DEF Around
  <2>. HIDE DEF stop, target
  <2>. QED BY <1>2, <2>1, <2>2, EntryJudged
<1>3. CASE side # "BUY"
  <2>. DEFINE stop == entry + risk
              target == entry - reward
  <2>1. stop \in Int /\ target \in Int /\ target < entry /\ entry < stop
    BY <1>1
  <2>2. Around(bars, side, risk, reward) = BuildEntrySignal(bars, side, stop, target)
    BY <1>3 DEF Around
  <2>. HIDE DEF stop, target
  <2>. QED BY <1>3, <2>1, <2>2, EntryJudged
<1>. QED BY <1>2, <1>3

LEMMA BreakoutJudged ==
  ASSUME NEW bars \in Seq(SeenBars), bars # <<>>
  PROVE  JudgedRight(BreakoutSignal(bars))
<1>. DEFINE close == Current(bars).close
            long == BreakoutRisk(bars, close - Previous(bars).low)
            short == BreakoutRisk(bars, Previous(bars).high - close)
<1>1. close \in Nat \ {0}
  BY CurrentIs
<1>2. Previous(bars) \in SeenBars
  <2>1. 1 \in Int /\ Len(bars) - 1 \in Int /\ Len(bars) \in Nat \ {0}
    OBVIOUS
  <2>. DEFINE x == Len(bars) - 1
  <2>. HIDE DEF x
  <2>2. Max({1, x}) \in {1, x} /\ Max({1, x}) >= 1
    BY <2>1, MaxOfTwo DEF x
  <2>3. Max({1, x}) \in 1..Len(bars)
    BY <2>1, <2>2 DEF x
  <2>. QED BY <2>3 DEF Previous, x
<1>3. ASSUME NEW d \in Int PROVE BreakoutRisk(bars, d) \in Nat \ {0}
  <2>. DEFINE x == 1000 * d
  <2>1. x \in Int /\ close \in Int
    BY <1>1
  <2>. HIDE DEF x, close
  <2>2. Max({close, x}) \in {close, x} /\ Max({close, x}) >= close
    BY <2>1, MaxOfTwo
  <2>. QED BY <1>1, <2>1, <2>2 DEF BreakoutRisk, x, close
<1>4. long \in Nat \ {0} /\ short \in Nat \ {0}
  <2>1. close - Previous(bars).low \in Int /\ Previous(bars).high - close \in Int
    BY <1>1, <1>2, SeenIs
  <2>. QED BY <1>3, <2>1
<1>5. \/ BreakoutSignal(bars) = Around(bars, "BUY", long, 2 * long)
      \/ BreakoutSignal(bars) = Around(bars, "SELL", short, 2 * short)
      \/ BreakoutSignal(bars) = NoTrade(bars)
  BY DEF BreakoutSignal
<1>. HIDE DEF long, short
<1>6. 2 * long \in Nat \ {0} /\ 2 * short \in Nat \ {0}
  BY <1>4
<1>. QED BY <1>4, <1>5, <1>6, AroundJudged, NoTradeIs

\* A distance of at least the least one.
LEMMA AtLeastFifty ==
  ASSUME NEW d \in Int
  PROVE  Max({d, 50}) \in Nat \ {0} /\ Max({d, 50}) >= 50
<1>1. Max({d, 50}) \in {d, 50} /\ Max({d, 50}) >= 50
  BY MaxOfTwo
<1>. QED BY <1>1

LEMMA ConfirmationJudged ==
  ASSUME NEW bars \in Seq(SeenBars), bars # <<>>
  PROVE  JudgedRight(ConfirmationSignal(bars))
<1>. DEFINE latest == Current(bars)
            range == LastOf(bars, RangeWindow)
            away == 1000 * (latest.close - BottomOf(LastOf(range, StopWindow)))
            under == 1000 * (TopOf(LastOf(range, StopWindow)) - latest.close)
            long == Max({away, 50})
            short == Max({under, 50})
<1>1. /\ BottomOf(LastOf(range, StopWindow)) \in Int /\ TopOf(LastOf(range, StopWindow)) \in Int
      /\ latest.close \in Int
  <2>0. RangeWindow \in Nat \ {0} /\ StopWindow \in Nat \ {0}
    BY SeenAssumption
  <2>1. range \in Seq(SeenBars) /\ range # <<>>
    BY <2>0, LastOfIs
  <2>. HIDE DEF range
  <2>. QED BY <2>0, <2>1, WindowIs, CurrentIs
<1>2. \/ ConfirmationSignal(bars) = Around(bars, "BUY", long, 2 * long)
      \/ ConfirmationSignal(bars) = Around(bars, "SELL", short, 2 * short)
      \/ ConfirmationSignal(bars) = NoTrade(bars)
  BY DEF ConfirmationSignal
<1>3. away \in Int /\ under \in Int
  BY <1>1
<1>. HIDE DEF away, under
<1>4. long \in Nat \ {0} /\ short \in Nat \ {0}
  BY <1>3, AtLeastFifty
<1>. HIDE DEF long, short
<1>5. 2 * long \in Nat \ {0} /\ 2 * short \in Nat \ {0}
  BY <1>4
<1>. QED BY <1>2, <1>4, <1>5, AroundJudged, NoTradeIs

LEMMA DemandSupplyJudged ==
  ASSUME NEW bars \in Seq(SeenBars), bars # <<>>
  PROVE  JudgedRight(DemandSupplySignal(bars))
<1>. DEFINE latest == Current(bars)
            low == BottomOf(LastOf(bars, RetestWindow))
            high == TopOf(LastOf(bars, RetestWindow))
            entry == 1000 * latest.close
            away == entry - 1000 * low
            under == 1000 * high - entry
            long == Max({away, 50})
            short == Max({under, 50})
            buys == 1000 * latest.low <= 1002 * low /\ 2 * latest.close > low + high
            sells == 1000 * latest.high >= 998 * high /\ 2 * latest.close < low + high
<1>1. /\ low \in Nat /\ high \in Nat /\ latest.close \in Nat /\ low <= latest.close /\ latest.close <= high
  BY WindowIs, CurrentIs, SeenAssumption
<1>2. DemandSupplySignal(bars) =
        IF buys THEN BuildEntrySignal(bars, "BUY", 1000 * low, entry + (5 * long) \div 2)
        ELSE IF sells THEN BuildEntrySignal(bars, "SELL", 1000 * high, entry - (5 * short) \div 2)
        ELSE NoTrade(bars)
  BY DEF DemandSupplySignal
<1>. HIDE DEF low, high
<1>3. entry \in Int /\ away \in Int /\ under \in Int
  BY <1>1
<1>4. long \in Nat /\ long >= 50 /\ short \in Nat /\ short >= 50
  <2>. HIDE DEF away, under
  <2>. QED BY <1>3, AtLeastFifty
<1>. HIDE DEF long, short
<1>5. (5 * long) \div 2 \in Nat \ {0} /\ (5 * short) \div 2 \in Nat \ {0}
  BY <1>4
<1>6. CASE buys
  <2>. DEFINE stop == 1000 * low
              gain == (5 * long) \div 2
              target == entry + gain
  <2>0. gain \in Nat \ {0}
    BY <1>5
  <2>. HIDE DEF gain
  <2>3. low < latest.close
    BY <1>1, <1>6
  <2>1. stop \in Int /\ target \in Int /\ stop < entry /\ entry < target
    BY <1>1, <2>0, <2>3
  <2>2. DemandSupplySignal(bars) = BuildEntrySignal(bars, "BUY", stop, target)
    BY <1>2, <1>6 DEF gain
  <2>. HIDE DEF stop, target
  <2>. QED BY <2>1, <2>2, EntryJudged
<1>7. CASE ~buys /\ sells
  <2>. DEFINE stop == 1000 * high
              gain == (5 * short) \div 2
              target == entry - gain
  <2>0. gain \in Nat \ {0}
    BY <1>5
  <2>. HIDE DEF gain
  <2>3. latest.close < high
    BY <1>1, <1>7
  <2>1. stop \in Int /\ target \in Int /\ target < entry /\ entry < stop
    BY <1>1, <2>0, <2>3
  <2>2. DemandSupplySignal(bars) = BuildEntrySignal(bars, "SELL", stop, target)
    BY <1>2, <1>7 DEF gain
  <2>. HIDE DEF stop, target
  <2>. QED BY <2>1, <2>2, EntryJudged
<1>8. CASE ~buys /\ ~sells
  BY <1>2, <1>8, NoTradeIs
<1>. QED BY <1>6, <1>7, <1>8

LEMMA SeenSound ==
  ASSUME seen \in Seq(SeenBars)
  PROVE  RefusedOnlyBelowZero /\ YoungBatchesAreSilent
<1>1. ASSUME seen # <<>>, NEW k \in 1..3 PROVE JudgedRight(Strategies(seen)[k])
  <2>1. Strategies(seen)[k] \in {BreakoutSignal(seen), ConfirmationSignal(seen), DemandSupplySignal(seen)}
    BY DEF Strategies
  <2>. QED BY <1>1, <2>1, BreakoutJudged, ConfirmationJudged, DemandSupplyJudged
<1>2. RefusedOnlyBelowZero
  BY <1>1 DEF RefusedOnlyBelowZero, JudgedRight
<1>3. ASSUME seen # <<>>, Len(seen) <= OpeningWindow PROVE BreakoutSignal(seen).side = "NO_TRADE"
  <2>. DEFINE n == Len(seen)
              first == FirstBars(seen)
  <2>1. n \in Nat \ {0} /\ OpeningWindow \in Nat
    BY <1>3, SeenAssumption
  <2>2. Min({n, OpeningWindow}) = n
    <3>0. n \in Int /\ OpeningWindow \in Int
      BY <2>1
    <3>. HIDE DEF n
    <3>1. Min({n, OpeningWindow}) \in {n, OpeningWindow} /\ Min({n, OpeningWindow}) <= n
      BY <3>0, MinOfTwo
    <3>. QED BY <1>3, <2>1, <3>1 DEF n
  <2>3. first = SubSeq(seen, 1, n)
    BY <2>2 DEF FirstBars
  <2>4. first \in Seq(SeenBars) /\ first # <<>> /\ Current(first) = Current(seen)
    BY <2>1, <2>3 DEF Current
  <2>. HIDE DEF first
  <2>5. BottomOf(first) <= Current(seen).close /\ Current(seen).close <= TopOf(first)
    BY <2>4, CurrentIs
  <2>6. TopOf(first) \in Int /\ BottomOf(first) \in Int /\ Current(seen).close \in Int
    BY <1>3, <2>4, TopIs, CurrentIs
  <2>7. ~(Current(seen).close > TopOf(first)) /\ ~(Current(seen).close < BottomOf(first))
    BY <2>5, <2>6
  <2>8. BreakoutSignal(seen) = NoTrade(seen)
    BY <2>7 DEF BreakoutSignal, first
  <2>. QED BY <2>8, NoTradeIs
<1>4. ASSUME seen # <<>>, Current(seen).vwap = 0 PROVE ConfirmationSignal(seen).side = "NO_TRADE"
  <2>1. ConfirmationSignal(seen) = NoTrade(seen)
    BY <1>4 DEF ConfirmationSignal
  <2>. QED BY <2>1, NoTradeIs
<1>5. YoungBatchesAreSilent
  BY <1>3, <1>4 DEF YoungBatchesAreSilent
<1>. QED BY <1>2, <1>5

-----------------------------------------------------------------------------
(* Demand and supply *)

\* The extremes of the bars of a base.
LEMMA ExtremesAre ==
  ASSUME NEW f \in Seq(Placed), NEW S, S \subseteq Bars(f), S # {}
  PROVE  /\ Highest(f, S) \in Int /\ Lowest(f, S) \in Int /\ Lowest(f, S) <= Highest(f, S)
         /\ Max({f[k].open : k \in S}) \in Int /\ Min({f[k].open : k \in S}) \in Int
         /\ Max({f[k].close : k \in S}) \in Int /\ Min({f[k].close : k \in S}) \in Int
<1>. DEFINE tops == [k \in S |-> f[k].high]
            bottoms == [k \in S |-> f[k].low]
            opens == [k \in S |-> f[k].open]
            closes == [k \in S |-> f[k].close]
            Tops == {tops[k] : k \in S}
            Bottoms == {bottoms[k] : k \in S}
            Starts == {opens[k] : k \in S}
            Closes == {closes[k] : k \in S}
            n == Len(f)
<1>1. n \in Nat /\ S \subseteq 1..n
  BY BarIs
<1>2. \A k \in S : /\ tops[k] \in Int /\ bottoms[k] \in Int /\ opens[k] \in Int /\ closes[k] \in Int
                   /\ bottoms[k] <= tops[k]
  BY BarIs, PlacedIs
<1>3. /\ Tops = {f[k].high : k \in S} /\ Bottoms = {f[k].low : k \in S}
      /\ Starts = {f[k].open : k \in S} /\ Closes = {f[k].close : k \in S}
  OBVIOUS
<1>4. /\ Tops = {tops[k] : k \in S} /\ Bottoms = {bottoms[k] : k \in S}
      /\ Starts = {opens[k] : k \in S} /\ Closes = {closes[k] : k \in S}
  OBVIOUS
<1>. HIDE DEF tops, bottoms, opens, closes, n, Tops, Bottoms, Starts, Closes
<1>5. Max(Tops) \in Int /\ \A k \in S : tops[k] <= Max(Tops)
  BY <1>1, <1>2, <1>4, MaxAmong, Zenon
<1>6. Min(Bottoms) \in Int /\ \A k \in S : Min(Bottoms) <= bottoms[k]
  BY <1>1, <1>2, <1>4, MinAmong, Zenon
<1>7. Max(Starts) \in Int /\ Min(Starts) \in Int
  BY <1>1, <1>2, <1>4, MaxAmong, MinAmong, ZenonT(60)
<1>8. Max(Closes) \in Int /\ Min(Closes) \in Int
  BY <1>1, <1>2, <1>4, MaxAmong, MinAmong, ZenonT(60)
<1>9. Min(Bottoms) <= Max(Tops)
  BY <1>2, <1>5, <1>6
<1>10. Highest(f, S) = Max(Tops) /\ Lowest(f, S) = Min(Bottoms)
  BY <1>3 DEF Highest, Lowest
<1>. QED BY <1>3, <1>5, <1>6, <1>7, <1>8, <1>9, <1>10

\* A structure is made of bars of the frame, with one after it.
LEMMA StructureIs ==
  ASSUME NEW f \in Seq(Placed), NEW at \in Structures(f)
  PROVE  /\ at[1] \in Nat /\ at[2] \in Nat \ {0} /\ at[1] + at[2] < Len(f)
         /\ at[1] .. at[1] + at[2] - 1 \subseteq Bars(f) /\ at[1] .. at[1] + at[2] - 1 # {}
<1>1. at \in (2 .. Len(f)) \X (MinBase .. MaxBase) /\ at[1] + at[2] < Len(f) /\ Len(f) \in Nat
  BY BarIs DEF Structures
<1>2. at[1] \in Nat /\ at[1] >= 2 /\ at[2] \in Nat \ {0}
  <2>1. at[1] \in 2 .. Len(f) /\ at[2] \in MinBase .. MaxBase
    BY <1>1
  <2>2. MinBase \in Nat \ {0} /\ MaxBase \in Nat
    BY ZonesAssumption
  <2>. QED BY <1>1, <2>1, <2>2
<1>3. at[1] \in at[1] .. at[1] + at[2] - 1
  BY <1>2
<1>. QED BY <1>1, <1>2, <1>3, BarIs

\* A zone lies the right way round, about a base.
LEMMA ZoneIs ==
  ASSUME NEW f \in Seq(Placed), NEW at \in Structures(f)
  PROVE  /\ Zone(f, at).side \in Sides
         /\ Zone(f, at).low \in Int /\ Zone(f, at).high \in Int /\ Zone(f, at).low <= Zone(f, at).high
         /\ Zone(f, at).end \in Nat
<1>. DEFINE base == at[1] .. at[1] + at[2] - 1
            opens == {f[k].open : k \in base}
            closes == {f[k].close : k \in base}
            whole == [low |-> Lowest(f, base), high |-> Highest(f, base)]
            top == Min({Max(opens), Max(closes)})
            bottom == Max({Min(opens), Min(closes)})
            zone == IF LegOut(f, at[1], at[2]) > 0 THEN [whole EXCEPT !.high = top]
                                                   ELSE [whole EXCEPT !.low = bottom]
<1>1. /\ Highest(f, base) \in Int /\ Lowest(f, base) \in Int /\ Lowest(f, base) <= Highest(f, base)
      /\ Max(opens) \in Int /\ Min(opens) \in Int /\ Max(closes) \in Int /\ Min(closes) \in Int
  BY StructureIs, ExtremesAre
<1>2. Bounds(f, at) = IF zone.high <= zone.low THEN whole ELSE zone
  BY DEF Bounds
<1>. HIDE DEF opens, closes, base
<1>3. top \in Int /\ bottom \in Int
  BY <1>1, MinOfTwo, MaxOfTwo
<1>. HIDE DEF top, bottom
<1>4. Bounds(f, at).low \in Int /\ Bounds(f, at).high \in Int /\ Bounds(f, at).low <= Bounds(f, at).high
  BY <1>1, <1>2, <1>3
<1>5. at[1] + at[2] - 1 \in Nat
  BY StructureIs
<1>. QED BY <1>4, <1>5 DEF Zone, Sides

\* A zone is entered after a bar that came back to it.
LEMMA EntryIs ==
  ASSUME NEW f \in Seq(Placed), NEW zone, zone.end \in Nat, NEW k \in Entries(f, zone)
  PROVE  k \in Bars(f) /\ k > zone.end + 1 /\ Confirms(f[k], zone)
<1>0. Len(f) \in Nat /\ Bars(f) = 1..Len(f)
  BY BarIs
<1>1. Tests(f, zone) \subseteq zone.end + 1 .. Len(f)
  BY DEF Tests, After
<1>2. ASSUME NEW touch \in FirstTouch(f, zone) PROVE touch \in zone.end + 1 .. Len(f)
  <2>1. Tests(f, zone) # {} /\ touch = Min(Tests(f, zone))
    BY <1>2 DEF FirstTouch
  <2>2. Tests(f, zone) \subseteq Nat
    BY <1>0, <1>1
  <2>. QED BY <1>1, <2>1, <2>2, MinIs
<1>3. ASSUME NEW j \in Confirmations(f, zone)
      PROVE  j \in Bars(f) /\ j > zone.end + 1 /\ Confirms(f[j], zone)
  <2>1. PICK touch \in FirstTouch(f, zone) :
          j \in touch + 1 .. Lower(Len(f), touch + Higher(MaxRetestBars, 1)) /\ Confirms(f[j], zone)
    BY <1>3 DEF Confirmations
  <2>2. touch \in Nat /\ touch >= zone.end + 1
    BY <1>0, <1>2
  <2>3. Higher(MaxRetestBars, 1) \in Nat
    BY ZonesAssumption DEF Higher
  <2>. DEFINE last == touch + Higher(MaxRetestBars, 1)
  <2>4. last \in Nat
    BY <2>2, <2>3
  <2>. HIDE DEF last
  <2>5. Lower(Len(f), last) \in Nat /\ Lower(Len(f), last) <= Len(f)
    BY <1>0, <2>4 DEF Lower
  <2>6. j \in touch + 1 .. Lower(Len(f), last)
    BY <2>1 DEF last
  <2>. QED BY <1>0, <2>1, <2>2, <2>5, <2>6
<1>4. Confirmations(f, zone) # {} /\ k = Min(Confirmations(f, zone))
  BY DEF Entries
<1>5. Confirmations(f, zone) \subseteq Nat
  BY <1>0, <1>3
<1>6. k \in Confirmations(f, zone)
  BY <1>4, <1>5, MinIs
<1>. QED BY <1>3, <1>6

\* What CandidatesAreTrades says of one.
IsCandidate(t) ==
  /\ t.at \in Int /\ t.at > t.zone.end + 1
  /\ IF t.zone.side = Buy THEN t.stop < t.zone.low /\ t.zone.high <= t.entry /\ t.entry < t.target
                          ELSE t.stop > t.zone.high /\ t.zone.low >= t.entry /\ t.entry > t.target
  /\ t.quantity * Gap(t.entry, t.stop) <= ZoneBudget

LEMMA OfferIs ==
  ASSUME NEW f \in Seq(Placed), NEW at, NEW t \in Offers(f, at)
  PROVE  IsCandidate(t)
<1>. DEFINE zone == Zone(f, at)
            stop == StopOf(zone)
            Trade(k) == [zone |-> zone, at |-> k, entry |-> f[k].close, stop |-> stop,
                         quantity |-> IF Risk(f, k, zone) = 0 THEN 0 ELSE ZoneBudget \div Risk(f, k, zone),
                         target |-> IF zone.side = Buy THEN f[k].close + (f[k].close - stop) * ZoneReward
                                                       ELSE f[k].close - (stop - f[k].close) * ZoneReward]
<1>1. at \in Structures(f) /\ \E k \in Accepted(f, zone) : t = Trade(k)
  BY DEF Offers
<1>2. PICK k \in Accepted(f, zone) : t = Trade(k)
  BY <1>1
<1>3. zone.side \in Sides /\ zone.low \in Int /\ zone.high \in Int /\ zone.low <= zone.high /\ zone.end \in Nat
  BY <1>1, ZoneIs
<1>. DEFINE close == f[k].close
            risk == Gap(close, stop)
            target == IF zone.side = Buy THEN close + (close - stop) * ZoneReward ELSE close - (stop - close) * ZoneReward
            quantity == IF risk = 0 THEN 0 ELSE ZoneBudget \div risk
<1>4. t = [zone |-> zone, at |-> k, entry |-> close, stop |-> stop, quantity |-> quantity, target |-> target]
  BY <1>2 DEF Risk
<1>. HIDE DEF zone
<1>5. k \in Bars(f) /\ k > zone.end + 1 /\ Confirms(f[k], zone)
  <2>1. k \in Entries(f, zone)
    BY DEF Accepted
  <2>. QED BY <1>3, <2>1, EntryIs
<1>6. close \in Int /\ k \in Int
  BY <1>5, BarIs, PlacedIs
<1>7. IF zone.side = Buy THEN close >= zone.high ELSE close <= zone.low
  BY <1>5 DEF Confirms
<1>. HIDE DEF close
<1>8. StopBuffer \in Nat \ {0} /\ ZoneReward \in Nat \ {0} /\ ZoneBudget \in Nat
  BY ZonesAssumption
<1>9. stop \in Int /\ IF zone.side = Buy THEN stop < zone.low ELSE stop > zone.high
  BY <1>3, <1>8 DEF StopOf
<1>. HIDE DEF stop
<1>10. \A d \in Nat \ {0} : d * ZoneReward \in Nat \ {0}
  BY <1>8
<1>11. IF zone.side = Buy THEN close < target ELSE close > target
  <2>1. CASE zone.side = Buy
    <3>1. close - stop \in Nat \ {0}
      BY <1>3, <1>6, <1>7, <1>9, <2>1
    <3>2. (close - stop) * ZoneReward \in Nat \ {0}
      BY <1>10, <3>1
    <3>. QED BY <1>6, <2>1, <3>2
  <2>2. CASE zone.side # Buy
    <3>1. stop - close \in Nat \ {0}
      BY <1>3, <1>6, <1>7, <1>9, <2>2
    <3>2. (stop - close) * ZoneReward \in Nat \ {0}
      BY <1>10, <3>1
    <3>. QED BY <1>6, <2>2, <3>2
  <2>. QED BY <2>1, <2>2
<1>12. quantity * risk <= ZoneBudget
  <2>1. close # stop
    BY <1>3, <1>6, <1>7, <1>9
  <2>2. risk \in Nat \ {0} /\ (ZoneBudget \div risk) * risk <= ZoneBudget
    BY <1>6, <1>8, <1>9, <2>1, SizeIsIn
  <2>. QED BY <2>2
<1>. HIDE DEF target, quantity
<1>. QED BY <1>4, <1>5, <1>6, <1>7, <1>9, <1>11, <1>12 DEF IsCandidate

\* Offers are considered one after the other.
Offered(offers, n) == UNION {offers[i] : i \in 1..n}

LEMMA ConsiderIs ==
  ASSUME NEW O, NEW trades \in Seq(O), NEW offers, offers \subseteq O
  PROVE  /\ Consider(trades, offers) \in Seq(O)
         /\ \/ Consider(trades, offers) = trades
            \/ \E t \in offers : Cooled(trades, t.at) /\ Consider(trades, offers) = Append(trades, t)
<1>. DEFINE taken == {t \in offers : Cooled(trades, t.at)}
<1>1. Consider(trades, offers) = IF taken = {} THEN trades ELSE Append(trades, CHOOSE t \in taken : TRUE)
  BY DEF Consider
<1>2. CASE taken # {}
  <2>1. (CHOOSE t \in taken : TRUE) \in taken
    BY <1>2
  <2>2. PICK t \in taken : Consider(trades, offers) = Append(trades, t)
    BY <1>1, <1>2, <2>1
  <2>. QED BY <2>2
<1>. QED BY <1>1, <1>2

LEMMA ConsiderAllIs ==
  ASSUME NEW offers, Len(offers) \in Nat
  PROVE  \E u : /\ ConsiderAll(offers) = u[Len(offers)]
                /\ \A i \in 0..Len(offers) : u[i] = IF i = 0 THEN <<>> ELSE Consider(u[i - 1], offers[i])
<1>. DEFINE n == Len(offers)
            O == Offered(offers, n)
            A == Seq(O)
            step == [k \in 1..n |-> [x \in A |-> Consider(x, offers[k])]]
            Is(u) == u = [i \in 0..n |-> IF i = 0 THEN <<>> ELSE Consider(u[i - 1], offers[i])]
            upto == CHOOSE u : Is(u)
<1>1. ConsiderAll(offers) = upto[n]
  BY DEF ConsiderAll
<1>2. IsSteps(step, n, A)
  <2>1. ASSUME NEW k \in 1..n, NEW x \in A PROVE Consider(x, offers[k]) \in A
    <3>1. offers[k] \subseteq O
      BY DEF Offered
    <3>. HIDE DEF O
    <3>. QED BY <3>1, ConsiderIs
  <2>. QED BY <2>1 DEF IsSteps
<1>3. PICK t \in [0..n -> A] : t[0] = <<>> /\ \A k \in 1..n : t[k] = step[k][t[k - 1]]
  <2>. DEFINE none == <<>>
  <2>1. none \in A
    OBVIOUS
  <2>. HIDE DEF step, A, n, none
  <2>2. n \in Nat
    BY DEF n
  <2>3. \E t : IsScan(t, step, n, A, none)
    BY <1>2, <2>1, <2>2, ScanExists
  <2>. QED BY <2>3 DEF none, IsScan
<1>4. ASSUME NEW k \in 1..n PROVE t[k] = Consider(t[k - 1], offers[k])
  <2>1. t[k - 1] \in A
    <3>. HIDE DEF A
    <3>. QED BY <1>3
  <2>2. step[k] = [x \in A |-> Consider(x, offers[k])]
    OBVIOUS
  <2>. HIDE DEF A, step
  <2>. QED BY <1>3, <2>1, <2>2
<1>5. \A i \in 0..n : t[i] = IF i = 0 THEN <<>> ELSE Consider(t[i - 1], offers[i])
  BY <1>3, <1>4
<1>6. Is(t)
  <2>. HIDE DEF A
  <2>. QED BY <1>3, <1>5
<1>7. Is(upto)
  <2>. HIDE DEF Is
  <2>. QED BY <1>6
<1>8. \A i \in 0..n : upto[i] = IF i = 0 THEN <<>> ELSE Consider(upto[i - 1], offers[i])
  <2>. HIDE DEF upto
  <2>. QED BY <1>7
<1>. QED BY <1>1, <1>8

\* Trades that are candidates each, none too soon after another.
Apart(trades) == \A i, j \in DOMAIN trades : i < j => trades[j].at - trades[i].at >= CooldownBars

LEMMA ApartGrows ==
  ASSUME NEW O, \A t \in O : t.at \in Int, NEW trades \in Seq(O), Apart(trades),
         NEW t \in O, Cooled(trades, t.at)
  PROVE  Apart(Append(trades, t))
<1>. DEFINE n == Len(trades)
            more == Append(trades, t)
<1>1. n \in Nat /\ DOMAIN trades = 1..n /\ DOMAIN more = 1..n + 1
  OBVIOUS
<1>2. more[n + 1] = t /\ \A i \in 1..n : more[i] = trades[i] /\ trades[i] \in O
  OBVIOUS
<1>3. ASSUME NEW i \in 1..n PROVE t.at - trades[i].at >= CooldownBars
  <2>1. t.at - trades[n].at >= CooldownBars
    BY <1>1 DEF Cooled, Last
  <2>2. CASE i = n
    BY <2>1, <2>2
  <2>3. CASE i < n
    <3>1. n \in 1..n /\ trades[n].at - trades[i].at >= CooldownBars
      BY <1>1, <2>3 DEF Apart
    <3>2. t.at \in Int /\ trades[i].at \in Int /\ trades[n].at \in Int /\ CooldownBars \in Nat
      BY <1>2, <3>1, ZonesAssumption
    <3>. QED BY <2>1, <3>1, <3>2
  <2>4. i = n \/ i < n
    <3>. HIDE DEF n
    <3>. QED BY <1>1
  <2>. QED BY <2>2, <2>3, <2>4
<1>4. ASSUME NEW i \in 1..n + 1, NEW j \in 1..n + 1, i < j PROVE more[j].at - more[i].at >= CooldownBars
  <2>1. i \in 1..n
    BY <1>1, <1>4
  <2>2. CASE j = n + 1
    BY <1>2, <1>3, <2>1, <2>2
  <2>3. CASE j # n + 1
    <3>1. j \in 1..n
      BY <1>1, <2>3
    <3>. QED BY <1>1, <1>2, <1>4, <2>1, <3>1 DEF Apart
  <2>. QED BY <2>2, <2>3
<1>. QED BY <1>1, <1>4 DEF Apart

LEMMA CandidatesAre ==
  ASSUME NEW f \in Seq(Placed)
  PROVE  Apart(Candidates(f)) /\ \A t \in ToSet(Candidates(f)) : IsCandidate(t)
<1>. DEFINE n == BaseCount(f)
            offers == [i \in 1 .. n |-> Offers(f, BaseAt(f, i))]
            O == Offered(offers, n)
<1>0. n \in Nat
  <2>1. Len(f) \in Nat /\ MaxBase - MinBase + 1 \in Nat
    BY BarIs, ZonesAssumption, SMTT(30)
  <2>. DEFINE l == Len(f)
              m == MaxBase - MinBase + 1
  <2>. HIDE DEF l, m
  <2>2. l * m \in Nat
    BY <2>1 DEF l, m
  <2>. QED BY <2>2 DEF BaseCount, l, m
<1>. HIDE DEF n
<1>1. Len(offers) = n
  BY <1>0
<1>2. \A t \in O : IsCandidate(t)
  BY OfferIs DEF Offered
<1>3. \A i \in 1..n : offers[i] \subseteq O
  BY DEF Offered
<1>4. Candidates(f) = ConsiderAll(offers)
  BY DEF Candidates, n
<1>. HIDE DEF offers, O
<1>5. PICK u : /\ ConsiderAll(offers) = u[n]
               /\ \A i \in 0..n : u[i] = IF i = 0 THEN <<>> ELSE Consider(u[i - 1], offers[i])
  BY <1>0, <1>1, ConsiderAllIs
<1>. DEFINE T == {i \in 0..n : u[i] \in Seq(O) /\ Apart(u[i])}
<1>6. 0 \in T
  <2>1. u[0] = <<>> /\ 0 \in 0..n
    BY <1>0, <1>5
  <2>2. Apart(<<>>) /\ <<>> \in Seq(O)
    BY DEF Apart
  <2>3. u[0] \in Seq(O) /\ Apart(u[0])
    BY <2>1, <2>2
  <2>. QED BY <2>1, <2>3
<1>7. ASSUME NEW i \in 1..n, i - 1 \in T PROVE i \in T
  <2>1. u[i - 1] \in Seq(O) /\ Apart(u[i - 1])
    BY <1>7
  <2>2. i \in 0..n /\ u[i] = Consider(u[i - 1], offers[i])
    BY <1>0, <1>5
  <2>3. u[i] \in Seq(O)
    BY <1>3, <2>1, <2>2, ConsiderIs
  <2>4. CASE u[i] = u[i - 1]
    BY <2>1, <2>2, <2>3, <2>4
  <2>5. ASSUME NEW t \in offers[i], Cooled(u[i - 1], t.at), u[i] = Append(u[i - 1], t)
        PROVE  Apart(u[i])
    <3>1. t \in O /\ \A x \in O : x.at \in Int
      BY <1>2, <1>3 DEF IsCandidate
    <3>. QED BY <2>1, <2>5, <3>1, ApartGrows
  <2>6. Apart(u[i])
    BY <1>3, <2>1, <2>2, <2>4, <2>5, ConsiderIs
  <2>. QED BY <2>2, <2>3, <2>6
<1>8. n \in T
  <2>. HIDE DEF T
  <2>1. 0..n \subseteq T
    BY <1>0, <1>6, <1>7, Climb
  <2>. QED BY <1>0, <2>1
<1>9. Candidates(f) \in Seq(O) /\ Apart(Candidates(f))
  BY <1>4, <1>5, <1>8
<1>10. ToSet(Candidates(f)) \subseteq O
  BY <1>9 DEF ToSet
<1>. QED BY <1>2, <1>9, <1>10

LEMMA CandidatesSound ==
  ASSUME history \in Seq(Placed)
  PROVE  CandidatesSpaced /\ CandidatesAreTrades
<1>1. Apart(Candidates(history)) /\ \A t \in ToSet(Candidates(history)) : IsCandidate(t)
  BY CandidatesAre
<1>2. CandidatesSpaced
  BY <1>1 DEF CandidatesSpaced, Apart
<1>3. CandidatesAreTrades
  BY <1>1 DEF CandidatesAreTrades, IsCandidate
<1>. QED BY <1>2, <1>3

-----------------------------------------------------------------------------
(* The intraday strategies *)

\* A bar as the strategies read it: whole numbers, none outside of low and high.
IsBar(bar) ==
  /\ bar.open \in Int /\ bar.high \in Int /\ bar.low \in Int /\ bar.close \in Int
  /\ bar.low <= bar.open /\ bar.open <= bar.high /\ bar.low <= bar.close /\ bar.close <= bar.high
AreBars(b) == Len(b) \in Nat /\ b \in Seq({b[k] : k \in 1..Len(b)}) /\ \A k \in 1..Len(b) : IsBar(b[k])

LEMMA ReadIs ==
  ASSUME NEW f \in Seq(Placed)
  PROVE  AreBars(Read(f))
<1>. DEFINE b == Read(f)
            n == Len(f)
            rsi == Smoothed(f)
            bar(k) == [day |-> f[k].day, open |-> f[k].open, high |-> f[k].high, low |-> f[k].low,
                       close |-> f[k].close, ema |-> f[k].ema, slow |-> f[k].slow, macd |-> f[k].macd,
                       vwap |-> VwapSide(f, k), rsi |-> rsi[k]]
<1>1. n \in Nat /\ Bars(f) = 1..n
  BY BarIs
<1>. HIDE DEF rsi
<1>2. b = [k \in 1..n |-> bar(k)]
  BY <1>1 DEF Read, rsi
<1>3. \A k \in 1..n : IsBar(bar(k))
  BY <1>1, BarIs, PlacedIs DEF IsBar
<1>. HIDE DEF b, bar, n
<1>4. Len(b) = n /\ \A k \in 1..n : b[k] = bar(k)
  BY <1>1, <1>2
<1>5. b \in [1..n -> {b[k] : k \in 1..n}]
  BY <1>2, <1>4
<1>6. b \in Seq({b[k] : k \in 1..n})
  BY <1>1, <1>5
<1>. QED BY <1>1, <1>3, <1>4, <1>6 DEF AreBars, b

\* What SignalsAreTrades says of one signal.
IsSound(s) ==
  /\ Ahead(s.side, s.stop, s.entry) > 0
  /\ s.name # "BTST" => Ahead(s.side, s.entry, s.target) > 0
  /\ s.quantity * Gap(s.entry, s.stop) <= Budget

LEMMA QuantityIs ==
  ASSUME NEW entry \in Int, NEW stop \in Int
  PROVE  /\ Quantity(entry, stop) * Gap(entry, stop) <= Budget
         /\ Quantity(entry, stop) > 0 => entry # stop
<1>1. Budget \in Nat
  BY IntradayAssumption
<1>2. CASE entry = stop
  <2>1. Gap(entry, stop) = 0
    BY <1>2 DEF Gap, Higher, Lower
  <2>. QED BY <1>1, <1>2, <2>1 DEF Quantity
<1>3. CASE entry # stop
  BY <1>1, <1>3, SizeIsIn DEF Quantity
<1>. QED BY <1>2, <1>3

\* A stop behind makes a signal sound, if it is sized within the budget.
LEMMA SignalIs ==
  ASSUME NEW name, NEW k, NEW side \in Sides, NEW entry \in Int, NEW stop \in Int, NEW times \in Nat \ {0},
         NEW quantity, Ahead(side, stop, entry) > 0, quantity * Gap(entry, stop) <= Budget
  PROVE  IsSound(Signal(name, k, side, entry, stop, times, quantity))
<1>. DEFINE target == IF side = Buy THEN entry + (entry - stop) * times ELSE entry - (stop - entry) * times
<1>1. Signal(name, k, side, entry, stop, times, quantity)
        = [name |-> name, at |-> k, side |-> side, entry |-> entry, stop |-> stop, quantity |-> quantity, target |-> target]
  BY DEF Signal
<1>2. \A d \in Nat \ {0} : d * times \in Nat \ {0}
  OBVIOUS
<1>3. Ahead(side, entry, target) > 0
  <2>1. CASE side = Buy
    <3>1. entry - stop \in Nat \ {0}
      BY <2>1 DEF Ahead
    <3>2. (entry - stop) * times \in Nat \ {0}
      BY <1>2, <3>1
    <3>. QED BY <2>1, <3>2 DEF Ahead
  <2>2. CASE side # Buy
    <3>1. stop - entry \in Nat \ {0}
      BY <2>2 DEF Ahead
    <3>2. (stop - entry) * times \in Nat \ {0}
      BY <1>2, <3>1
    <3>. QED BY <2>2, <3>2 DEF Ahead
  <2>. QED BY <2>1, <2>2
<1>. HIDE DEF target
<1>. QED BY <1>1, <1>3 DEF IsSound

LEMMA SidesOfBar ==
  ASSUME NEW bar, IsBar(bar), NEW side \in Sides
  PROVE  /\ Worst(bar, side) \in Int /\ Best(bar, side) \in Int
         /\ Ahead(side, Worst(bar, side), bar.open) >= 0 /\ Ahead(side, Worst(bar, side), bar.close) >= 0
BY DEF IsBar, Worst, Best, Ahead, Sides

\* The bars of a day.
LEMMA DayIs ==
  ASSUME NEW b, AreBars(b), NEW day \in Days(b)
  PROVE  /\ BarsOf(b, day) \subseteq 1..Len(b) /\ BarsOf(b, day) # {}
         /\ Min(BarsOf(b, day)) \in BarsOf(b, day) /\ Max(BarsOf(b, day)) \in BarsOf(b, day)
<1>1. BarsOf(b, day) \subseteq 1..Len(b) /\ BarsOf(b, day) # {} /\ Len(b) \in Nat
  BY DEF BarsOf, Days, Bars, AreBars
<1>2. BarsOf(b, day) \subseteq Nat
  BY <1>1
<1>. QED BY <1>1, <1>2, MinIs, MaxIs

LEMMA BreakoutSound ==
  ASSUME NEW b, AreBars(b), NEW s \in Breakout(b)
  PROVE  IsSound(s)
<1>1. PICK day \in Days(b) : s \in BreakoutOf(b, day)
  BY DEF Breakout
<1>. DEFINE bars == BarsOf(b, day)
            first == Min(bars)
            hour == Ahead(Buy, b[first].open, b[first + HourBars - 1].close)
            side == IF hour > 0 THEN Buy ELSE Sell
            entry == Best(b[first], side)
            broken == {k \in bars \ {first} :
                         /\ Ahead(side, entry, Best(b[k], side)) > 0
                         /\ Backed(b[k], side, 5) /\ side \in b[k].slow
                         /\ Ahead(side, Worst(b[k], side), entry) > 0}
<1>2. \E k \in FirstOf(broken) :
        s = Signal("Breakout", k, side, entry, Worst(b[k], side), Reward, Quantity(entry, Worst(b[k], side)))
  BY <1>1 DEF BreakoutOf
<1>3. side \in Sides
  BY DEF Sides
<1>4. bars \subseteq 1..Len(b) /\ first \in bars
  BY DayIs
<1>. HIDE DEF hour, side
<1>5. entry \in Int
  BY <1>3, <1>4, SidesOfBar DEF AreBars
<1>6. broken \subseteq bars /\ \A k \in broken : Ahead(side, Worst(b[k], side), entry) > 0
  OBVIOUS
<1>. HIDE DEF broken, bars, first, entry
<1>7. PICK k \in FirstOf(broken) :
        s = Signal("Breakout", k, side, entry, Worst(b[k], side), Reward, Quantity(entry, Worst(b[k], side)))
  BY <1>2
<1>8. k \in broken
  <2>1. broken # {} /\ k = Min(broken)
    BY <1>7 DEF FirstOf
  <2>2. broken \subseteq Nat
    BY <1>4, <1>6
  <2>. QED BY <2>1, <2>2, MinIs
<1>9. Worst(b[k], side) \in Int
  BY <1>3, <1>4, <1>6, <1>8, SidesOfBar DEF AreBars
<1>10. Reward \in Nat \ {0}
  BY IntradayAssumption
<1>. QED BY <1>3, <1>5, <1>6, <1>7, <1>8, <1>9, <1>10, QuantityIs, SignalIs

LEMMA BtstSound ==
  ASSUME NEW b, AreBars(b), NEW s \in Btst(b)
  PROVE  IsSound(s)
<1>. DEFINE held == {k \in Bars(b) : k < Len(b) /\ b[k + 1].day # b[k].day}
            Trade(k, side) ==
              [name |-> "BTST", at |-> k, side |-> side, entry |-> b[k].close,
               stop |-> Worst(b[k], side), target |-> b[k + 1].open,
               quantity |-> Quantity(b[k].close, Worst(b[k], side))]
            Backs(k, side) ==
              Backed(b[k], side, 5) /\ side \in b[k].slow /\ Ahead(side, b[k].open, b[k].close) > 0
<1>1. PICK k \in held, side \in Sides : s = Trade(k, side) /\ Backs(k, side)
  BY DEF Btst
<1>2. k \in 1..Len(b) /\ IsBar(b[k])
  BY DEF AreBars, Bars
<1>3. b[k].close \in Int /\ b[k].open \in Int
  BY <1>2 DEF IsBar
<1>4. Worst(b[k], side) \in Int /\ Ahead(side, Worst(b[k], side), b[k].open) >= 0
  BY <1>2, SidesOfBar
<1>5. Ahead(side, b[k].open, b[k].close) > 0
  BY <1>1
<1>. DEFINE stop == Worst(b[k], side)
            open == b[k].open
            close == b[k].close
<1>. HIDE DEF stop, open, close
<1>6. Ahead(side, stop, close) > 0
  BY <1>3, <1>4, <1>5 DEF Ahead, stop, open, close
<1>7. Quantity(close, stop) * Gap(close, stop) <= Budget
  BY <1>3, <1>4, QuantityIs DEF stop, close
<1>8. /\ s.name = "BTST" /\ s.side = side /\ s.entry = close /\ s.stop = stop /\ s.quantity = Quantity(close, stop)
  BY <1>1 DEF stop, close
<1>. QED BY <1>6, <1>7, <1>8 DEF IsSound

LEMMA IndicatorIs ==
  ASSUME NEW b, AreBars(b), NEW s \in Indicator(b)
  PROVE  /\ IsSound(s) /\ s.at \in 1..Len(b) /\ s.side \in Sides /\ s.entry = b[s.at].close
<1>. DEFINE Stop(k, side) == IF side = Buy THEN b[k].low - Buffer ELSE b[k].high + Buffer
            Trade(k, side) == Signal("Indicator", k, side, b[k].close, Stop(k, side), 2, 0)
<1>0. PICK k \in Bars(b) : \E side \in MarketSides(b[k]) : s = Trade(k, side)
  BY DEF Indicator
<1>1. PICK side \in MarketSides(b[k]) : s = Trade(k, side)
  BY <1>0
<1>2. side \in Sides
  BY DEF MarketSides
<1>3. k \in 1..Len(b) /\ IsBar(b[k])
  BY DEF AreBars, Bars
<1>4. Buffer \in Nat \ {0} /\ Budget \in Nat
  BY IntradayAssumption
<1>5. b[k].close \in Int /\ Stop(k, side) \in Int /\ Ahead(side, Stop(k, side), b[k].close) > 0
  BY <1>3, <1>4 DEF IsBar, Ahead
<1>. DEFINE close == b[k].close
            stop == Stop(k, side)
<1>6. 0 * Gap(close, stop) <= Budget
  BY <1>4, <1>5 DEF Gap, Higher, Lower
<1>7. s = Signal("Indicator", k, side, close, stop, 2, 0)
  BY <1>1
<1>. HIDE DEF stop
<1>8. IsSound(s)
  BY <1>2, <1>5, <1>6, <1>7, SignalIs DEF stop
<1>9. s.at = k /\ s.side = side /\ s.entry = close
  BY <1>7 DEF Signal
<1>. QED BY <1>2, <1>3, <1>8, <1>9

LEMMA OneTradeSound ==
  ASSUME NEW b, AreBars(b), NEW s \in OneTradeDay(b)
  PROVE  IsSound(s)
<1>. DEFINE Sized(x) == Signal("One Trade/Day", x.at, x.side, x.entry, Worst(b[x.at], x.side), Reward,
                               Quantity(x.entry, Worst(b[x.at], x.side)))
<1>1. PICK x \in Indicator(b) : s = Sized(x) /\ Sized(x).quantity > 0
  BY DEF OneTradeDay, OneTradeOf
<1>2. x.at \in 1..Len(b) /\ x.side \in Sides /\ x.entry = b[x.at].close
  BY IndicatorIs
<1>. DEFINE side == x.side
            entry == x.entry
            stop == Worst(b[x.at], x.side)
<1>3. entry \in Int /\ stop \in Int /\ Ahead(side, stop, entry) >= 0
  BY <1>2, SidesOfBar DEF AreBars, IsBar
<1>4. s = Signal("One Trade/Day", x.at, side, entry, stop, Reward, Quantity(entry, stop))
  BY <1>1
<1>5. Quantity(entry, stop) > 0
  BY <1>1 DEF Signal
<1>6. side \in Sides
  BY <1>2
<1>. HIDE DEF side, entry, stop
<1>7. Quantity(entry, stop) * Gap(entry, stop) <= Budget /\ entry # stop
  BY <1>3, <1>5, QuantityIs
<1>8. Ahead(side, stop, entry) > 0
  BY <1>3, <1>7 DEF Ahead
<1>9. Reward \in Nat \ {0}
  BY IntradayAssumption
<1>. QED BY <1>3, <1>4, <1>6, <1>7, <1>8, <1>9, SignalIs

\* A part of some bars.
LEMMA PartIs ==
  ASSUME NEW b, AreBars(b), NEW lo \in 1..Len(b), NEW hi \in lo..Len(b)
  PROVE  AreBars(SubSeq(b, lo, hi)) /\ Len(SubSeq(b, lo, hi)) = hi - lo + 1
<1>. DEFINE R == {b[k] : k \in 1..Len(b)}
            part == SubSeq(b, lo, hi)
<1>0. b \in Seq(R) /\ Len(b) \in Nat
  BY DEF AreBars
<1>. HIDE DEF R
<1>1. Len(part) = hi - lo + 1 /\ part \in Seq(R) /\ \A j \in 1..hi - lo + 1 : part[j] = b[lo + j - 1]
  BY <1>0
<1>2. hi - lo + 1 \in Nat /\ \A j \in 1..hi - lo + 1 : lo + j - 1 \in 1..Len(b)
  BY <1>0
<1>. DEFINE n == hi - lo + 1
<1>. HIDE DEF n, part
<1>3. part \in [1..n -> R] /\ Len(part) = n /\ n \in Nat
  BY <1>1, <1>2 DEF n
<1>4. \A j \in 1..n : IsBar(part[j])
  BY <1>1, <1>2 DEF AreBars, n
<1>5. part \in Seq({part[j] : j \in 1..n})
  BY <1>3
<1>. QED BY <1>3, <1>4, <1>5 DEF AreBars, part, n

\* The high and the low of a bar that is made of others.
LEMMA ExtremaAre ==
  ASSUME NEW b, NEW n \in Nat, NEW S, S \subseteq 1..n, S # {},
         \A j \in S : b[j].high \in Int /\ b[j].low \in Int
  PROVE  Max({b[j].high : j \in S}) \in Int /\ Min({b[j].low : j \in S}) \in Int
<1>. DEFINE tops == [j \in S |-> b[j].high]
            bottoms == [j \in S |-> b[j].low]
            Tops == {tops[j] : j \in S}
            Bottoms == {bottoms[j] : j \in S}
<1>1. \A j \in S : tops[j] \in Int /\ bottoms[j] \in Int
  OBVIOUS
<1>2. Tops = {b[j].high : j \in S} /\ Bottoms = {b[j].low : j \in S}
  OBVIOUS
<1>3. Tops = {tops[j] : j \in S} /\ Bottoms = {bottoms[j] : j \in S}
  OBVIOUS
<1>. HIDE DEF tops, bottoms, Tops, Bottoms
<1>4. Max(Tops) \in Int
  BY <1>1, <1>3, MaxAmong, Zenon
<1>5. Min(Bottoms) \in Int
  BY <1>1, <1>3, MinAmong, Zenon
<1>. QED BY <1>2, <1>4, <1>5

LEMMA ChunkIs ==
  ASSUME NEW b, AreBars(b), Len(b) > 0
  PROVE  Chunk(b).high \in Int /\ Chunk(b).low \in Int
<1>1. /\ Len(b) \in Nat /\ DOMAIN b = 1..Len(b) /\ DOMAIN b # {}
      /\ \A j \in DOMAIN b : b[j].high \in Int /\ b[j].low \in Int
  BY DEF AreBars, IsBar
<1>. DEFINE n == Len(b)
            S == DOMAIN b
<1>2. n \in Nat /\ S \subseteq 1..n /\ S # {} /\ \A j \in S : b[j].high \in Int /\ b[j].low \in Int
  BY <1>1
<1>3. Max({b[j].high : j \in S}) \in Int /\ Min({b[j].low : j \in S}) \in Int
  <2>. HIDE DEF n, S
  <2>. QED BY <1>2, ExtremaAre
<1>. QED BY <1>3 DEF Chunk

LEMMA ChunksAre ==
  ASSUME NEW b, AreBars(b), NEW n \in Nat \ {0}, NEW i \in 1..Len(b)
  PROVE  /\ (i - 1) \div n \in Nat /\ Len(Chunks(b, n, i)) = (i - 1) \div n
         /\ \A c \in 1 .. (i - 1) \div n : Chunks(b, n, i)[c].high \in Int /\ Chunks(b, n, i)[c].low \in Int
<1>. DEFINE q == (i - 1) \div n
<1>0. Len(b) \in Nat /\ i - 1 \in Nat
  BY DEF AreBars
<1>1. q \in Nat /\ q * n <= i - 1
  <2>. DEFINE a == i - 1
  <2>1. a \in Nat
    BY <1>0
  <2>. HIDE DEF a
  <2>2. a \div n \in Nat /\ (a \div n) * n <= a
    BY <2>1, Quotient
  <2>. QED BY <2>2 DEF a
<1>2. Chunks(b, n, i) = [c \in 1..q |-> Chunk(SubSeq(b, (c - 1) * n + 1, c * n))]
  BY DEF Chunks
<1>. HIDE DEF q
<1>3. Len(Chunks(b, n, i)) = q
  BY <1>1, <1>2
<1>4. ASSUME NEW c \in 1..q PROVE Chunks(b, n, i)[c].high \in Int /\ Chunks(b, n, i)[c].low \in Int
  <2>. DEFINE lo == (c - 1) * n + 1
              hi == c * n
              part == SubSeq(b, lo, hi)
  <2>1. c \in Nat /\ c - 1 \in Nat /\ q - c \in Nat
    BY <1>1
  <2>2. (c - 1) * n \in Nat /\ (q - c) * n \in Nat /\ c * n = (c - 1) * n + n /\ q * n = c * n + (q - c) * n
    BY <1>1, <2>1
  <2>3. lo \in Nat /\ hi \in Nat /\ lo >= 1 /\ lo <= hi /\ hi <= i - 1
    BY <1>1, <2>2
  <2>. HIDE DEF lo, hi
  <2>4. lo \in 1..Len(b) /\ hi \in lo..Len(b)
    BY <1>0, <2>3
  <2>5. AreBars(part) /\ Len(part) = hi - lo + 1
    BY <2>4, PartIs
  <2>6. Len(part) > 0
    BY <2>3, <2>5
  <2>. HIDE DEF part
  <2>7. Chunk(part).high \in Int /\ Chunk(part).low \in Int
    BY <2>5, <2>6, ChunkIs
  <2>. QED BY <1>2, <2>7 DEF part, lo, hi
<1>. QED BY <1>1, <1>3, <1>4 DEF q

\* A zone lies the right way round.
LEMMA SetupZonesAre ==
  ASSUME NEW b, AreBars(b), NEW i \in 1..Len(b), (i - 1) \div SetupBars >= 3, NEW side \in Sides,
         NEW zone \in SetupZones(Chunks(b, SetupBars, i), side)
  PROVE  zone.low \in Int /\ zone.high \in Int /\ zone.low <= zone.high
<1>. DEFINE bars == Chunks(b, SetupBars, i)
            n == Len(bars)
            bos == /\ Ahead(side, bars[n].open, bars[n].close) > 0
                   /\ Ahead(side, Best(bars[n - 1], side), bars[n].close) > 0
            fvg == n >= 3 /\ Ahead(side, Best(bars[n - 2], side), Worst(bars[n], side)) > 0
            near == IF fvg THEN Worst(bars[n], side) ELSE Best(bars[n - 1], side)
            far == IF bos THEN Best(bars[n - 1], side) ELSE Best(bars[n - 2], side)
<1>1. n \in Nat /\ n >= 3 /\ \A c \in 1..n : bars[c].high \in Int /\ bars[c].low \in Int
  BY ChunksAre, IntradayAssumption
<1>2. zone = [low |-> Lower(near, far), high |-> Higher(near, far)]
  BY DEF SetupZones
<1>. HIDE DEF bars, bos, fvg
<1>3. n \in 1..n /\ n - 1 \in 1..n /\ n - 2 \in 1..n
  BY <1>1
<1>. HIDE DEF n
<1>4. \A c \in 1..n : Worst(bars[c], side) \in Int /\ Best(bars[c], side) \in Int
  BY <1>1 DEF Worst, Best
<1>5. near \in Int /\ far \in Int
  BY <1>3, <1>4
<1>. HIDE DEF near, far
<1>. QED BY <1>2, <1>5 DEF Lower, Higher

LEMMA MtfSound ==
  ASSUME NEW b, AreBars(b), NEW s \in Mtf(b)
  PROVE  IsSound(s)
<1>1. PICK day \in Days(b) : s \in MtfOf(b, day)
  BY DEF Mtf
<1>. DEFINE offset == Min(BarsOf(b, day)) - 1
            bars == SubSeq(b, Min(BarsOf(b, day)), Max(BarsOf(b, day)))
            Zones(i, side) == SetupZones(Chunks(bars, SetupBars, i), side)
            Entry(zone, side) == IF side = Buy THEN zone.high ELSE zone.low
            Stop(i, zone, side) == IF side = Buy THEN Lower(bars[i].low, zone.low) ELSE Higher(bars[i].high, zone.high)
            Trade(i, zone, side) ==
              Signal("MTF 5m", offset + i, side, Entry(zone, side), Stop(i, zone, side), Reward,
                     Quantity(Entry(zone, side), Stop(i, zone, side)))
            Retested(i, zone, side) ==
              /\ Ahead(side, Worst(bars[i], side), Entry(zone, side)) >= 0
              /\ Ahead(side, Entry(zone, side), bars[i].close) >= 0
              /\ StrongRetest(bars[i], side)
            TradesAt(i) ==
              {t \in UNION {{Trade(i, zone, side) : zone \in {z \in Zones(i, side) : Retested(i, z, side)}} :
                              side \in Bias(Chunks(bars, BiasBars, i))} : t.quantity > 0}
            ready == {i \in MtfFirst .. Len(bars) : /\ (i - 1) \div BiasBars >= 1
                                                    /\ (i - 1) \div SetupBars >= 3
                                                    /\ TradesAt(i) # {}}
<1>2. \E i \in FirstOf(ready) : s \in TradesAt(i)
  BY <1>1 DEF MtfOf
<1>3. AreBars(bars)
  <2>. DEFINE lo == Min(BarsOf(b, day))
              hi == Max(BarsOf(b, day))
  <2>1. lo \in BarsOf(b, day) /\ hi \in BarsOf(b, day) /\ BarsOf(b, day) \subseteq 1..Len(b) /\ Len(b) \in Nat
    BY DayIs DEF AreBars
  <2>2. lo <= hi
    <3>1. BarsOf(b, day) \subseteq Nat
      BY <2>1
    <3>. QED BY <2>1, <3>1, MinIs
  <2>. HIDE DEF lo, hi
  <2>3. lo \in 1..Len(b) /\ hi \in lo..Len(b)
    BY <2>1, <2>2
  <2>4. AreBars(SubSeq(b, lo, hi))
    BY <2>3, PartIs
  <2>. QED BY <2>4 DEF lo, hi
<1>4. ready \subseteq MtfFirst .. Len(bars) /\ \A i \in ready : (i - 1) \div SetupBars >= 3
  OBVIOUS
<1>0. \A i : Bias(Chunks(bars, BiasBars, i)) \subseteq Sides
  BY DEF Bias
<1>5. ASSUME NEW i, NEW t \in TradesAt(i)
      PROVE  t.quantity > 0 /\ \E side \in Sides : \E zone \in Zones(i, side) : t = Trade(i, zone, side)
  <2>. DEFINE Biased == Bias(Chunks(bars, BiasBars, i))
  <2>. HIDE DEF bars, Trade, Zones, Retested, Biased
  <2>1. t.quantity > 0 /\ \E side \in Biased : \E zone \in Zones(i, side) : t = Trade(i, zone, side)
    BY DEF Biased
  <2>. QED BY <1>0, <2>1 DEF Biased
<1>. HIDE DEF bars, ready, TradesAt
<1>6. PICK i \in FirstOf(ready) : s \in TradesAt(i)
  BY <1>2
<1>7. i \in ready /\ i \in 1..Len(bars)
  <2>1. ready # {} /\ i = Min(ready)
    BY DEF FirstOf
  <2>2. MtfFirst \in Nat \ {0} /\ Len(bars) \in Nat
    BY <1>3, IntradayAssumption DEF AreBars
  <2>3. ready \subseteq Nat
    BY <1>4, <2>2
  <2>4. i \in ready
    BY <2>1, <2>3, MinIs
  <2>. QED BY <1>4, <2>2, <2>4
<1>8. PICK side \in Sides : \E zone \in Zones(i, side) : s = Trade(i, zone, side)
  BY <1>5, <1>6
<1>9. PICK zone \in Zones(i, side) : s = Trade(i, zone, side)
  BY <1>8
<1>10. zone.low \in Int /\ zone.high \in Int /\ zone.low <= zone.high
  BY <1>3, <1>4, <1>7, SetupZonesAre
<1>11. bars[i].low \in Int /\ bars[i].high \in Int
  BY <1>3, <1>7 DEF AreBars, IsBar
<1>. DEFINE entry == Entry(zone, side)
            stop == Stop(i, zone, side)
<1>12. entry \in Int /\ stop \in Int /\ Ahead(side, stop, entry) >= 0
  BY <1>10, <1>11 DEF Ahead, Lower, Higher
<1>13. s = Signal("MTF 5m", offset + i, side, entry, stop, Reward, Quantity(entry, stop))
  BY <1>9
<1>. HIDE DEF entry, stop, offset
<1>14. Quantity(entry, stop) > 0
  <2>1. s.quantity = Quantity(entry, stop)
    BY <1>13 DEF Signal
  <2>. QED BY <1>5, <1>6, <2>1
<1>15. Quantity(entry, stop) * Gap(entry, stop) <= Budget /\ entry # stop
  BY <1>12, <1>14, QuantityIs
<1>16. Ahead(side, stop, entry) > 0
  BY <1>12, <1>15 DEF Ahead
<1>17. Reward \in Nat \ {0}
  BY IntradayAssumption
<1>. QED BY <1>12, <1>13, <1>15, <1>16, <1>17, SignalIs

LEMMA IntradaySound ==
  ASSUME intraday \in Seq(Placed)
  PROVE  SignalsAreTrades
<1>. DEFINE b == Read(intraday)
<1>1. AreBars(b)
  BY ReadIs
<1>2. Signals(intraday) = Breakout(b) \cup Btst(b) \cup Indicator(b) \cup OneTradeDay(b) \cup Mtf(b)
  BY DEF Signals
<1>. HIDE DEF b
<1>3. \A s \in Signals(intraday) : IsSound(s)
  BY <1>1, <1>2, BreakoutSound, BtstSound, IndicatorIs, OneTradeSound, MtfSound
<1>. QED BY <1>3 DEF SignalsAreTrades, IsSound

-----------------------------------------------------------------------------
(* All frames *)

\* The bars of a frame are in the order of their days.
DaysRise(f) == \A j, k \in Bars(f) : j <= k => f[j].day <= f[k].day

LEMMA OrderGrows ==
  ASSUME NEW f \in Seq(Placed), DaysRise(f), NEW g \in Grown(f)
  PROVE  DaysRise(g)
<1>1. PICK c \in NextCandles, d \in {0, 1} :
        g = Append(f, OnDay(c, IF f = <<>> THEN 1 ELSE Last(f).day + d))
  BY DEF Grown, Longer, OnDay
<1>. DEFINE day == IF f = <<>> THEN 1 ELSE Last(f).day + d
            bar == OnDay(c, day)
            n == Len(f)
<1>2. n \in Nat /\ Bars(f) = 1..n /\ \A k \in 1..n : f[k].day \in Nat
  BY BarIs, PlacedIs
<1>3. \A k \in 1..n : f[k].day <= day
  <2>. SUFFICES ASSUME NEW k \in 1..n PROVE f[k].day <= day
    OBVIOUS
  <2>1. f # <<>> /\ n \in 1..n /\ k <= n
    BY <1>2
  <2>2. Last(f) = f[n] /\ f[k].day <= f[n].day
    BY <1>2, <2>1 DEF DaysRise, Last
  <2>. QED BY <1>2, <2>1, <2>2
<1>4. bar.day = day /\ day \in Int
  <2>1. bar.day = day
    <3>1. IsCandle(c)
      BY FramesAssumption
    <3>. HIDE DEF day
    <3>. QED BY <3>1 DEF IsCandle, OnDay
  <2>2. f # <<>> => Last(f).day \in Nat
    BY <1>2 DEF Last
  <2>. QED BY <2>1, <2>2
<1>. HIDE DEF day
<1>5. g = Append(f, bar)
  BY <1>1 DEF day
<1>. HIDE DEF bar
<1>6. Bars(g) = 1..n + 1 /\ g[n + 1] = bar /\ \A k \in 1..n : g[k] = f[k]
  BY <1>2, <1>5 DEF Bars
<1>7. ASSUME NEW j \in 1..n + 1, NEW k \in 1..n + 1, j <= k PROVE g[j].day <= g[k].day
  <2>1. CASE k \in 1..n
    <3>1. j \in 1..n
      BY <1>2, <1>7, <2>1
    <3>. QED BY <1>2, <1>6, <1>7, <2>1, <3>1 DEF DaysRise
  <2>2. CASE k = n + 1 /\ j \in 1..n
    BY <1>3, <1>4, <1>6, <2>2
  <2>3. CASE k = n + 1 /\ j = n + 1
    BY <1>4, <1>6, <2>3
  <2>. QED BY <1>2, <1>7, <2>1, <2>2, <2>3
<1>. QED BY <1>6, <1>7 DEF DaysRise

\* Frames are made of the candles that may come.
FramesInv ==
  /\ intraday \in Seq(Placed) /\ history \in Seq(Placed) /\ tape \in Seq(Placed) /\ DaysRise(intraday)
  /\ seen \in Seq(SeenBars) /\ received \in Seq(RowsSeen)

LEMMA FramesStep ==
  ASSUME FramesInv, [FramesNext]_frameVars
  PROVE  FramesInv'
<1>1. CASE intraday' \in Grown(intraday) /\ UNCHANGED <<history, tape, seen, received>>
  <2>. DEFINE later == intraday'
  <2>1. later \in Grown(intraday) /\ intraday \in Seq(Placed) /\ DaysRise(intraday)
    BY <1>1 DEF FramesInv
  <2>. HIDE DEF later
  <2>2. later \in Seq(Placed) /\ DaysRise(later)
    BY <2>1, FrameGrows, OrderGrows
  <2>3. DaysRise(intraday)' = DaysRise(later)
    BY DEF DaysRise, later
  <2>. QED BY <1>1, <2>2, <2>3 DEF FramesInv, later
<1>2. CASE history' \in Grown(history) /\ UNCHANGED <<intraday, tape, seen, received>>
  <2>1. history' \in Seq(Placed)
    BY <1>2, FrameGrows DEF FramesInv
  <2>. QED BY <1>2, <2>1 DEF FramesInv, DaysRise, Bars
<1>3. CASE tape' \in Grown(tape) /\ UNCHANGED <<intraday, history, seen, received>>
  <2>1. tape' \in Seq(Placed)
    BY <1>3, FrameGrows DEF FramesInv
  <2>. QED BY <1>3, <2>1 DEF FramesInv, DaysRise, Bars
<1>4. CASE SeenNext /\ UNCHANGED <<intraday, history, tape, received>>
  <2>1. seen' \in Seq(SeenBars)
    BY <1>4 DEF SeenNext, FramesInv
  <2>. QED BY <1>4, <2>1 DEF FramesInv, DaysRise, Bars
<1>5. CASE Receive /\ UNCHANGED <<intraday, history, tape, seen>>
  <2>1. received' \in Seq(RowsSeen)
    BY <1>5 DEF Receive, FramesInv
  <2>. QED BY <1>5, <2>1 DEF FramesInv, DaysRise, Bars
<1>6. CASE UNCHANGED frameVars
  BY <1>6 DEF frameVars, FramesInv, DaysRise, Bars
<1>. QED BY <1>1, <1>2, <1>3, <1>4, <1>5, <1>6 DEF FramesNext

LEMMA FramesKept == FramesSpec => []FramesInv
<1>1. FramesInit => FramesInv
  BY DEF FramesInit, SeenInit, FrameInit, FramesInv, DaysRise, Bars
<1>2. FramesInv /\ [FramesNext]_frameVars => FramesInv'
  BY FramesStep
<1>. QED BY <1>1, <1>2, PTL DEF FramesSpec

-----------------------------------------------------------------------------
(* Later bars *)

\* A frame that goes on where another ends.
Follows(f, g) ==
  /\ f \in Seq(Placed) /\ g \in Seq(Placed) /\ Len(f) <= Len(g)
  /\ \A k \in Bars(f) : g[k] = f[k]

LEMMA GrownFollows ==
  ASSUME NEW f \in Seq(Placed), NEW g \in Grown(f)
  PROVE  Follows(f, g) /\ Len(g) = Len(f) + 1
<1>1. g \in Seq(Placed)
  BY FrameGrows
<1>2. PICK c \in NextCandles, d \in {0, 1} :
        g = Append(f, OnDay(c, IF f = <<>> THEN 1 ELSE Last(f).day + d))
  BY DEF Grown, Longer, OnDay
<1>. DEFINE bar == OnDay(c, IF f = <<>> THEN 1 ELSE Last(f).day + d)
<1>3. g = Append(f, bar)
  BY <1>2
<1>. HIDE DEF bar
<1>. QED BY <1>1, <1>3 DEF Follows, Bars

LEMMA SoFarStays ==
  ASSUME NEW f, NEW g, Follows(f, g), NEW k \in Bars(f)
  PROVE  SoFar(g, k) = SoFar(f, k) /\ SoFar(f, k) \subseteq Bars(f)
BY DEF Follows, SoFar, DayOf, Bars

LEMMA RecentIs ==
  ASSUME NEW f \in Seq(Placed), NEW k \in Bars(f)
  PROVE  /\ Recent(k) \subseteq Bars(f)
         /\ Higher(1, k - RangeBars) .. k - 1 \subseteq Bars(f)
         /\ Higher(1, k - LookBack) .. k \subseteq Bars(f)
BY AmdAssumption, CleanAssumption DEF Recent, Higher, Bars

LEMMA PricedStays ==
  ASSUME NEW f, NEW g, Follows(f, g), NEW k \in Bars(f), NEW side
  PROVE  FairlyPriced(g, k, side) = FairlyPriced(f, k, side)
<1>. DEFINE S == SoFar(f, k)
<1>1. SoFar(g, k) = S /\ \A j \in S : g[j] = f[j]
  BY SoFarStays DEF Follows
<1>2. g[k] = f[k]
  BY DEF Follows
<1>. HIDE DEF S
<1>3. /\ [j \in S |-> g[j].volume] = [j \in S |-> f[j].volume]
      /\ [j \in S |-> (g[j].high + g[j].low + g[j].close) * g[j].volume]
           = [j \in S |-> (f[j].high + f[j].low + f[j].close) * f[j].volume]
  BY <1>1
<1>. QED BY <1>1, <1>2, <1>3 DEF FairlyPriced, S

LEMMA ExtremesStay ==
  ASSUME NEW f, NEW g, Follows(f, g), NEW k \in Bars(f), NEW side
  PROVE  /\ Manipulation(g, k, side) = Manipulation(f, k, side)
         /\ Distribution(g, k, side) = Distribution(f, k, side)
         /\ GapSize(g, k, side) = GapSize(f, k, side)
<1>1. g[k] = f[k] /\ \A j \in Recent(k) : g[j] = f[j]
  BY RecentIs DEF Follows
<1>2. /\ {Behind(g[j], side) : j \in Recent(k)} = {Behind(f[j], side) : j \in Recent(k)}
      /\ {Fore(g[j], side) : j \in Recent(k)} = {Fore(f[j], side) : j \in Recent(k)}
  BY <1>1
<1>3. Trough(g, k, side) = Trough(f, k, side) /\ Peak(g, k, side) = Peak(f, k, side)
  BY <1>2 DEF Trough, Peak
<1>4. k > 2 => g[k - 2] = f[k - 2]
  BY DEF Follows, Bars
<1>5. Manipulation(g, k, side) = Manipulation(f, k, side)
  BY <1>1, <1>3 DEF Manipulation
<1>6. Distribution(g, k, side) = Distribution(f, k, side)
  BY <1>1, <1>3 DEF Distribution
<1>7. GapSize(g, k, side) = GapSize(f, k, side)
  <2>1. CASE k <= 2
    BY <2>1 DEF GapSize
  <2>2. CASE ~(k <= 2)
    <3>1. k > 2
      BY <2>2 DEF Bars
    <3>. QED BY <1>1, <1>4, <3>1 DEF GapSize
  <2>. QED BY <2>1, <2>2
<1>. QED BY <1>5, <1>6, <1>7

LEMMA SweptStays ==
  ASSUME NEW f, NEW g, Follows(f, g), NEW k \in Bars(f), NEW side
  PROVE  /\ Swept(g, k, side) = Swept(f, k, side)
         /\ Gapped(g, k, side) = Gapped(f, k, side) /\ Gapped(f, k, side) \subseteq Bars(f)
<1>. DEFINE R == Higher(1, k - LookBack) .. k
<1>0. f \in Seq(Placed)
  BY DEF Follows
<1>1. R \subseteq Bars(f)
  BY <1>0, RecentIs
<1>. HIDE DEF R
<1>2. \A j \in R : /\ Manipulation(g, j, side) = Manipulation(f, j, side)
                   /\ GapSize(g, j, side) = GapSize(f, j, side)
  BY <1>1, ExtremesStay
<1>3. /\ {j \in R : Manipulation(g, j, side)} = {j \in R : Manipulation(f, j, side)}
      /\ {j \in R : GapSize(g, j, side) >= MinGap} = {j \in R : GapSize(f, j, side) >= MinGap}
  BY <1>2
<1>4. Swept(g, k, side) = Swept(f, k, side) /\ Gapped(g, k, side) = Gapped(f, k, side)
  BY <1>3 DEF Swept, Gapped, LastWith, R
<1>. DEFINE found == {j \in R : GapSize(f, j, side) >= MinGap}
<1>5. found \subseteq R /\ Gapped(f, k, side) = IF found = {} THEN {} ELSE {Max(found)}
  BY DEF Gapped, LastWith, R
<1>6. found # {} => Max(found) \in found
  <2>1. Len(f) \in Nat /\ found \subseteq 1..Len(f)
    BY <1>0, <1>1, BarIs
  <2>. HIDE DEF found
  <2>. QED BY <2>1, MaxIs
<1>. HIDE DEF found
<1>. QED BY <1>1, <1>4, <1>5, <1>6

\* The signals of a bar do not depend on the bars after it.
LEMMA AmdSignalStays ==
  ASSUME NEW f, NEW g, Follows(f, g), NEW k \in Bars(f), NEW side
  PROVE  AmdSignal(g, k, side) = AmdSignal(f, k, side)
<1>1. g[k] = f[k] /\ \A j \in Gapped(f, k, side) : g[j] = f[j]
  BY SweptStays DEF Follows
<1>2. /\ Swept(g, k, side) = Swept(f, k, side) /\ Gapped(g, k, side) = Gapped(f, k, side)
      /\ Distribution(g, k, side) = Distribution(f, k, side) /\ GapSize(g, k, side) = GapSize(f, k, side)
      /\ FairlyPriced(g, k, side) = FairlyPriced(f, k, side)
  BY SweptStays, ExtremesStay, PricedStays
<1>3. Score(g, k, side) = Score(f, k, side)
  BY <1>1, <1>2 DEF Score
<1>4. Passes(g, k, side) = Passes(f, k, side)
  BY <1>1, <1>2 DEF Passes
<1>5. {Fore(g[j], side) : j \in Gapped(g, k, side)} = {Fore(f[j], side) : j \in Gapped(f, k, side)}
  BY <1>1, <1>2
<1>6. AmdStop(g, k, side) = AmdStop(f, k, side)
  BY <1>1, <1>5 DEF AmdStop
<1>. QED BY <1>1, <1>3, <1>4, <1>6 DEF AmdSignal

\* Two scans that found the same up to some bar differ by later signals alone.
LEMMA ScansPart ==
  ASSUME NEW n \in Nat, NEW m \in Nat, n <= m, NEW u, NEW w, u[n] = w[n],
         \A s \in u[n] : s.at \in 1..n,
         \A k \in n + 1 .. m : w[k - 1] \subseteq w[k] /\ \A s \in w[k] \ w[k - 1] : s.at = k
  PROVE  u[n] = {s \in w[m] : s.at <= n}
<1>. DEFINE T == {d \in 0..m - n : u[n] = {s \in w[n + d] : s.at <= n}}
<1>1. 0 \in T
  <2>1. n + 0 = n /\ \A s \in u[n] : s.at <= n
    OBVIOUS
  <2>. QED BY <2>1
<1>2. ASSUME NEW d \in 1..m - n, d - 1 \in T PROVE d \in T
  <2>1. n + d \in n + 1 .. m /\ n + (d - 1) = n + d - 1
    OBVIOUS
  <2>2. u[n] = {s \in w[n + d - 1] : s.at <= n}
    BY <1>2, <2>1
  <2>3. w[n + d - 1] \subseteq w[n + d] /\ \A s \in w[n + d] \ w[n + d - 1] : s.at = n + d
    BY <2>1
  <2>4. \A s : s.at = n + d => ~(s.at <= n)
    OBVIOUS
  <2>. QED BY <2>2, <2>3, <2>4
<1>3. m - n \in Nat /\ m - n \in 0..m - n /\ n + (m - n) = m
  OBVIOUS
<1>4. m - n \in T
  <2>. DEFINE e == m - n
  <2>1. e \in Nat /\ e \in 0..e /\ \A d \in 1..e : d - 1 \in T => d \in T
    BY <1>2, <1>3
  <2>. HIDE DEF T, e
  <2>2. 0..e \subseteq T
    BY <1>1, <2>1, Climb
  <2>. QED BY <2>1, <2>2 DEF e
<1>. QED BY <1>3, <1>4

LEMMA ScanStays ==
  ASSUME NEW f, NEW g, Follows(f, g), NEW k \in Bars(f), NEW old, \A s \in old : s.at \in Bars(f)
  PROVE  /\ Scan(g, Found(g), old, k) = Scan(f, Found(f), old, k)
         /\ \A s \in Scan(f, Found(f), old, k) \ old : s.at = k
<1>0. k \in Bars(g) /\ g[k] = f[k] /\ \A s \in old : g[s.at] = f[s.at]
  BY DEF Follows, Bars
<1>1. \A side \in Sides : /\ Found(g)[k][side] = AmdSignal(g, k, side)
                          /\ Found(f)[k][side] = AmdSignal(f, k, side)
  BY <1>0 DEF Found
<1>2. \A side \in Sides : Found(g)[k][side] = Found(f)[k][side]
  BY <1>1, AmdSignalStays
<1>3. Found(g)[k][Buy] = Found(f)[k][Buy] /\ Found(g)[k][Sell] = Found(f)[k][Sell]
  BY <1>2 DEF Sides
<1>4. DayOpen(g, old, k) = DayOpen(f, old, k)
  <2>1. {s \in old : g[s.at].day = g[k].day} = {s \in old : f[s.at].day = f[k].day}
    BY <1>0
  <2>. QED BY <2>1 DEF DayOpen
<1>5. \A side \in Sides : \A s \in Found(f)[k][side] : s.at = k
  BY <1>1, AmdSignalIs DEF Follows
<1>6. Scan(g, Found(g), old, k) = Scan(f, Found(f), old, k)
  BY <1>3, <1>4 DEF Scan
<1>7. Scan(f, Found(f), old, k) \subseteq old \cup Found(f)[k][Buy] \cup Found(f)[k][Sell]
  BY DEF Scan
<1>. QED BY <1>5, <1>6, <1>7 DEF Sides

\* The signals of a frame are those of the frames that follow it, up to its end.
LEMMA AmdStays ==
  ASSUME NEW f, NEW g, Follows(f, g)
  PROVE  AmdSignals(f) = {s \in AmdSignals(g) : s.at <= Len(f)}
<1>. DEFINE n == Len(f)
            m == Len(g)
<1>0. n \in Nat /\ m \in Nat /\ n <= m /\ Bars(f) = 1..n /\ Bars(g) = 1..m
  BY BarIs DEF Follows
<1>1. PICK u : /\ ScanAll(f, Found(f)) = u[n]
               /\ \A k \in 0..n : u[k] = IF k <= WarmUp THEN {} ELSE Scan(f, Found(f), u[k - 1], k)
  BY <1>0, ScanAllIs
<1>2. PICK w : /\ ScanAll(g, Found(g)) = w[m]
               /\ \A k \in 0..m : w[k] = IF k <= WarmUp THEN {} ELSE Scan(g, Found(g), w[k - 1], k)
  BY <1>0, ScanAllIs
<1>3. AmdSignals(f) = u[n] /\ AmdSignals(g) = w[m]
  BY <1>1, <1>2 DEF AmdSignals, Found
<1>. DEFINE S == {k \in 0..m : \A s \in w[k] : s.at \in 1..k}
            T == {k \in 0..n : u[k] = w[k]}
<1>. HIDE DEF n, m
<1>4. u[0] = {} /\ w[0] = {} /\ 0 \in 0..n /\ 0 \in 0..m
  BY <1>0, <1>1, <1>2, AmdAssumption
<1>5. Follows(g, g) /\ g \in Seq(Placed)
  BY DEF Follows
<1>6. 0..m \subseteq S
  <2>1. 0 \in S
    BY <1>4
  <2>2. ASSUME NEW k \in 1..m, k - 1 \in S PROVE k \in S
    <3>1. k \in 0..m /\ k \in Bars(g) /\ k - 1 \in 0..m /\ \A s \in w[k - 1] : s.at \in 1..k - 1
      BY <1>0, <2>2
    <3>2. \A s \in w[k - 1] : s.at \in Bars(g) /\ s.at \in 1..k
      BY <1>0, <3>1
    <3>3. \A s \in Scan(g, Found(g), w[k - 1], k) \ w[k - 1] : s.at = k
      BY <1>5, <3>1, <3>2, ScanStays
    <3>4. k \in 1..k
      OBVIOUS
    <3>. QED BY <1>2, <3>1, <3>2, <3>3, <3>4
  <2>. HIDE DEF S
  <2>. QED BY <1>0, <2>1, <2>2, Climb
<1>7. 0..n \subseteq T
  <2>1. 0 \in T
    BY <1>4
  <2>2. ASSUME NEW k \in 1..n, k - 1 \in T PROVE k \in T
    <3>1. k \in 0..n /\ k \in 0..m /\ k \in Bars(f) /\ k - 1 \in 0..m /\ u[k - 1] = w[k - 1]
      BY <1>0, <2>2
    <3>2. \A s \in w[k - 1] : s.at \in 1..k - 1
      BY <1>6, <3>1
    <3>3. \A s \in w[k - 1] : s.at \in Bars(f)
      BY <1>0, <3>2
    <3>4. Scan(g, Found(g), w[k - 1], k) = Scan(f, Found(f), w[k - 1], k)
      BY <3>1, <3>3, ScanStays
    <3>. QED BY <1>1, <1>2, <3>1, <3>4
  <2>. HIDE DEF T
  <2>. QED BY <1>0, <2>1, <2>2, Climb
<1>8. u[n] = w[n] /\ \A s \in u[n] : s.at \in 1..n
  <2>1. n \in 0..n /\ n \in 0..m
    BY <1>0
  <2>. QED BY <1>6, <1>7, <2>1
<1>9. ASSUME NEW k \in n + 1 .. m PROVE w[k - 1] \subseteq w[k] /\ \A s \in w[k] \ w[k - 1] : s.at = k
  <2>1. k \in 0..m /\ k \in Bars(g) /\ k - 1 \in 0..m
    BY <1>0
  <2>2. \A s \in w[k - 1] : s.at \in 1..k - 1
    BY <1>6, <2>1
  <2>3. \A s \in w[k - 1] : s.at \in Bars(g)
    BY <1>0, <2>1, <2>2
  <2>4. CASE k <= WarmUp
    <3>1. k - 1 <= WarmUp
      BY <1>0, <2>4, AmdAssumption
    <3>. QED BY <1>2, <2>1, <2>4, <3>1
  <2>5. CASE ~(k <= WarmUp)
    <3>1. w[k] = Scan(g, Found(g), w[k - 1], k)
      BY <1>2, <2>1, <2>5
    <3>2. w[k - 1] \subseteq Scan(g, Found(g), w[k - 1], k)
      BY <1>0, <2>1, ScanIs
    <3>3. \A s \in Scan(g, Found(g), w[k - 1], k) \ w[k - 1] : s.at = k
      BY <1>5, <2>1, <2>3, ScanStays
    <3>. QED BY <3>1, <3>2, <3>3
  <2>. QED BY <2>4, <2>5
<1>10. u[n] = {s \in w[m] : s.at <= n}
  BY <1>0, <1>8, <1>9, ScansPart
<1>. QED BY <1>3, <1>10 DEF n

-----------------------------------------------------------------------------
(* Later bars and the API beside the platform *)

LEMMA BreakoutAtStays ==
  ASSUME NEW f, NEW g, Follows(f, g), NEW k \in Bars(f), NEW side
  PROVE  BreakoutAt(g, k, side) = BreakoutAt(f, k, side)
<1>. DEFINE R == Higher(1, k - RangeBars) .. k - 1
<1>1. R \subseteq Bars(f)
  BY RecentIs DEF Follows
<1>2. g[k] = f[k] /\ \A j \in R : g[j] = f[j]
  BY <1>1 DEF Follows
<1>. HIDE DEF R
<1>3. {Fore(g[j], side) : j \in R} = {Fore(f[j], side) : j \in R}
  BY <1>2
<1>4. RangeEdge(g, k, side) = RangeEdge(f, k, side)
  BY <1>3 DEF RangeEdge, R
<1>5. [j \in R |-> g[j].volume] = [j \in R |-> f[j].volume]
  BY <1>2
<1>6. Busy(g, k) = Busy(f, k)
  BY <1>2, <1>5 DEF Busy, R
<1>7. FairlyPriced(g, k, side) = FairlyPriced(f, k, side)
  BY PricedStays
<1>8. BreakoutPoints(g, k, side) = BreakoutPoints(f, k, side)
  BY <1>2, <1>4, <1>6, <1>7 DEF BreakoutPoints
<1>. QED BY <1>2, <1>4, <1>8 DEF BreakoutAt, Passed

LEMMA SignalAtStays ==
  ASSUME NEW f, NEW g, Follows(f, g), NEW k \in Bars(f), NEW side, NEW name
  PROVE  SignalAt(name, g, k, side) = SignalAt(name, f, k, side)
<1>1. g[k] = f[k]
  BY DEF Follows
<1>2. BreakoutAt(g, k, side) = BreakoutAt(f, k, side)
  BY BreakoutAtStays
<1>3. ReversionAt(g, k, side) = ReversionAt(f, k, side)
  BY <1>1 DEF ReversionAt, ReversionPoints, ReversionTarget, Passed
<1>. QED BY <1>2, <1>3 DEF SignalAt

LEMMA ScanBarStays ==
  ASSUME NEW f, NEW g, Follows(f, g), NEW k \in Bars(f), NEW old, NEW name
  PROVE  /\ ScanBar(Looked(name, g), old, k) = ScanBar(Looked(name, f), old, k)
         /\ old \subseteq ScanBar(Looked(name, f), old, k)
         /\ \A s \in ScanBar(Looked(name, f), old, k) \ old : s.at = k
<1>0. k \in Bars(g)
  BY DEF Follows, Bars
<1>1. \A side \in Sides : /\ Looked(name, g)[k][side] = SignalAt(name, g, k, side)
                          /\ Looked(name, f)[k][side] = SignalAt(name, f, k, side)
  BY <1>0 DEF Looked
<1>2. \A side \in Sides : Looked(name, g)[k][side] = Looked(name, f)[k][side]
  BY <1>1, SignalAtStays
<1>3. Looked(name, g)[k][Buy] = Looked(name, f)[k][Buy] /\ Looked(name, g)[k][Sell] = Looked(name, f)[k][Sell]
  BY <1>2 DEF Sides
<1>4. ASSUME NEW side \in Sides, NEW s \in Looked(name, f)[k][side] PROVE s.at = k
  <2>1. s \in SignalAt(name, f, k, side)
    BY <1>1
  <2>2. \A points, stop, target : \A t \in Passed(f, k, side, points, stop, target) : t.at = k
    BY DEF Passed
  <2>. QED BY <2>1, <2>2 DEF SignalAt, BreakoutAt, ReversionAt
<1>5. ScanBar(Looked(name, g), old, k) = ScanBar(Looked(name, f), old, k)
  BY <1>3 DEF ScanBar
<1>6. /\ ScanBar(Looked(name, f), old, k) \subseteq old \cup Looked(name, f)[k][Buy] \cup Looked(name, f)[k][Sell]
      /\ old \subseteq ScanBar(Looked(name, f), old, k)
  BY DEF ScanBar
<1>. QED BY <1>4, <1>5, <1>6 DEF Sides

LEMMA ScanFrameStays ==
  ASSUME NEW f, NEW g, Follows(f, g), NEW name
  PROVE  ScanFrame(name, f) = {s \in ScanFrame(name, g) : s.at <= Len(f)}
<1>. DEFINE n == Len(f)
            m == Len(g)
            F == Looked(name, f)
            G == Looked(name, g)
<1>0. n \in Nat /\ m \in Nat /\ n <= m /\ Bars(f) = 1..n /\ Bars(g) = 1..m /\ Len(F) = n /\ Len(G) = m
  BY BarIs DEF Follows, Looked
<1>1. ScanFrame(name, f) = ScanBars(F) /\ ScanFrame(name, g) = ScanBars(G)
  BY DEF ScanFrame, Looked
<1>. HIDE DEF F, G, n, m
<1>2. PICK u : /\ ScanBars(F) = u[n]
               /\ \A k \in 0..n : u[k] = IF k <= ScanFrom THEN {} ELSE ScanBar(F, u[k - 1], k)
  BY <1>0, ScanBarsIs
<1>3. PICK w : /\ ScanBars(G) = w[m]
               /\ \A k \in 0..m : w[k] = IF k <= ScanFrom THEN {} ELSE ScanBar(G, w[k - 1], k)
  BY <1>0, ScanBarsIs
<1>. DEFINE S == {k \in 0..n : \A s \in u[k] : s.at \in 1..k}
            T == {k \in 0..n : u[k] = w[k]}
<1>4. u[0] = {} /\ w[0] = {} /\ 0 \in 0..n /\ 0 \in 0..m
  BY <1>0, <1>2, <1>3, CleanAssumption
<1>5. Follows(g, g)
  BY DEF Follows
<1>6. 0..n \subseteq S
  <2>1. 0 \in S
    BY <1>4
  <2>2. ASSUME NEW k \in 1..n, k - 1 \in S PROVE k \in S
    <3>1. k \in 0..n /\ k \in Bars(f) /\ \A s \in u[k - 1] : s.at \in 1..k - 1
      BY <1>0, <2>2
    <3>2. \A s \in ScanBar(F, u[k - 1], k) \ u[k - 1] : s.at = k
      BY <3>1, ScanBarStays DEF F
    <3>3. k \in 1..k /\ 1..k - 1 \subseteq 1..k
      OBVIOUS
    <3>. QED BY <1>2, <3>1, <3>2, <3>3
  <2>. HIDE DEF S
  <2>. QED BY <1>0, <2>1, <2>2, Climb
<1>7. 0..n \subseteq T
  <2>1. 0 \in T
    BY <1>4
  <2>2. ASSUME NEW k \in 1..n, k - 1 \in T PROVE k \in T
    <3>1. k \in 0..n /\ k \in 0..m /\ k \in Bars(f) /\ u[k - 1] = w[k - 1]
      BY <1>0, <2>2
    <3>2. ScanBar(G, w[k - 1], k) = ScanBar(F, w[k - 1], k)
      BY <3>1, ScanBarStays DEF F, G
    <3>. QED BY <1>2, <1>3, <3>1, <3>2
  <2>. HIDE DEF T
  <2>. QED BY <1>0, <2>1, <2>2, Climb
<1>8. u[n] = w[n] /\ \A s \in u[n] : s.at \in 1..n
  <2>1. n \in 0..n
    BY <1>0
  <2>. QED BY <1>6, <1>7, <2>1
<1>9. ASSUME NEW k \in n + 1 .. m PROVE w[k - 1] \subseteq w[k] /\ \A s \in w[k] \ w[k - 1] : s.at = k
  <2>1. k \in 0..m /\ k \in Bars(g) /\ k - 1 \in 0..m
    BY <1>0
  <2>2. CASE k <= ScanFrom
    <3>1. k - 1 <= ScanFrom
      BY <1>0, <2>2, CleanAssumption
    <3>. QED BY <1>3, <2>1, <2>2, <3>1
  <2>3. CASE ~(k <= ScanFrom)
    <3>1. w[k] = ScanBar(G, w[k - 1], k)
      BY <1>3, <2>1, <2>3
    <3>2. w[k - 1] \subseteq ScanBar(G, w[k - 1], k) /\ \A s \in ScanBar(G, w[k - 1], k) \ w[k - 1] : s.at = k
      BY <1>5, <2>1, ScanBarStays DEF G
    <3>. QED BY <3>1, <3>2
  <2>. QED BY <2>2, <2>3
<1>10. u[n] = {s \in w[m] : s.at <= n}
  <2>1. n \in Nat /\ m \in Nat /\ n <= m
    BY <1>0
  <2>. HIDE DEF S, T
  <2>. QED BY <2>1, <1>8, <1>9, ScansPart
<1>. QED BY <1>1, <1>2, <1>3, <1>10 DEF n

\* A step of the frames leaves them as they were, but for one that grows.
LEMMA TapeStays ==
  ASSUME FramesInv, [FramesNext]_frameVars, tape' # tape
  PROVE  Follows(tape, tape')
BY GrownFollows DEF FramesInv, FramesNext, frameVars

-----------------------------------------------------------------------------
(* Later bars and the intraday strategies *)

LEMMA PeriodOf ==
  ASSUME NEW p \in Nat \ {0}, NEW n \in Nat, n > p
  PROVE  Higher(1, Lower(p, n - 1)) = p /\ n # 1
<1>1. n - 1 >= p /\ n # 1
  OBVIOUS
<1>2. Lower(p, n - 1) = p
  BY <1>1 DEF Lower
<1>3. Higher(1, p) = p
  BY DEF Higher
<1>. QED BY <1>1, <1>2, <1>3

LEMMA PeriodIs ==
  ASSUME NEW f, Len(f) \in Nat, Len(f) > RsiPeriod
  PROVE  Period(f) = RsiPeriod /\ Len(f) # 1
<1>1. RsiPeriod \in Nat \ {0}
  BY IntradayAssumption
<1>. QED BY <1>1, PeriodOf DEF Period

LEMMA MovesStay ==
  ASSUME NEW f, NEW g, Follows(f, g), NEW j \in Bars(f), j > 1
  PROVE  Gain(g, j) = Gain(f, j) /\ Loss(g, j) = Loss(f, j)
<1>1. g[j] = f[j] /\ g[j - 1] = f[j - 1]
  BY DEF Follows, Bars
<1>. QED BY <1>1 DEF Gain, Loss

LEMMA VwapStays ==
  ASSUME NEW f, NEW g, Follows(f, g), NEW k \in Bars(f)
  PROVE  VwapSide(g, k) = VwapSide(f, k)
<1>. DEFINE S == SoFar(f, k)
<1>1. SoFar(g, k) = S /\ (\A j \in S : g[j] = f[j]) /\ g[k] = f[k]
  BY SoFarStays DEF Follows
<1>. HIDE DEF S
<1>2. /\ [j \in S |-> g[j].volume] = [j \in S |-> f[j].volume]
      /\ [j \in S |-> g[j].close * g[j].volume] = [j \in S |-> f[j].close * f[j].volume]
  BY <1>1
<1>. QED BY <1>1, <1>2 DEF VwapSide, S

\* The first average is over bars that are there once the frame is longer than the period.
LEMMA SmoothedStays ==
  ASSUME NEW f, NEW g, Follows(f, g), Len(f) > RsiPeriod, NEW k \in Bars(f)
  PROVE  Smoothed(g)[k] = Smoothed(f)[k]
<1>. DEFINE p == RsiPeriod
            First(h) == [gain |-> SumFunction([j \in 2 .. p + 1 |-> Gain(h, j)]),
                         loss |-> SumFunction([j \in 2 .. p + 1 |-> Loss(h, j)]), unit |-> p]
            Moves(h) == [j \in 1 .. Higher(k - p - 1, 0) |-> [gain |-> Gain(h, p + 1 + j), loss |-> Loss(h, p + 1 + j)]]
<1>0. /\ Len(f) \in Nat /\ Len(g) \in Nat /\ Len(f) <= Len(g) /\ Bars(f) = 1..Len(f) /\ Bars(g) = 1..Len(g)
      /\ p \in Nat \ {0}
  BY BarIs, IntradayAssumption DEF Follows
<1>1. Period(f) = p /\ Len(f) # 1 /\ Period(g) = p /\ Len(g) # 1
  BY <1>0, PeriodIs
<1>2. ASSUME NEW j \in 2..p + 1 PROVE Gain(g, j) = Gain(f, j) /\ Loss(g, j) = Loss(f, j)
  BY <1>0, MovesStay
<1>3. ASSUME NEW j \in 1 .. Higher(k - p - 1, 0)
      PROVE  Gain(g, p + 1 + j) = Gain(f, p + 1 + j) /\ Loss(g, p + 1 + j) = Loss(f, p + 1 + j)
  <2>. DEFINE i == p + 1 + j
  <2>1. i \in Bars(f) /\ i > 1
    BY <1>0 DEF Higher
  <2>. HIDE DEF i
  <2>2. Gain(g, i) = Gain(f, i) /\ Loss(g, i) = Loss(f, i)
    BY <2>1, MovesStay
  <2>. QED BY <2>2 DEF i
<1>4. Smoothed(f)[k] = SmoothedOver(p, First(f), Moves(f))
  <2>1. Smoothed(f) = [i \in Bars(f) |-> IF Len(f) = 1 THEN [gain |-> 0, loss |-> 0, unit |-> 1]
                         ELSE SmoothedOver(p, First(f), [j \in 1 .. Higher(i - p - 1, 0) |-> [gain |-> Gain(f, p + 1 + j), loss |-> Loss(f, p + 1 + j)]])]
    BY <1>1 DEF Smoothed
  <2>. QED BY <1>1, <2>1
<1>5. Smoothed(g)[k] = SmoothedOver(p, First(g), Moves(g))
  <2>1. Smoothed(g) = [i \in Bars(g) |-> IF Len(g) = 1 THEN [gain |-> 0, loss |-> 0, unit |-> 1]
                         ELSE SmoothedOver(p, First(g), [j \in 1 .. Higher(i - p - 1, 0) |-> [gain |-> Gain(g, p + 1 + j), loss |-> Loss(g, p + 1 + j)]])]
    BY <1>1 DEF Smoothed
  <2>2. k \in Bars(g)
    BY <1>0
  <2>. QED BY <1>1, <2>1, <2>2
<1>6. First(g) = First(f)
  <2>1. [j \in 2 .. p + 1 |-> Gain(g, j)] = [j \in 2 .. p + 1 |-> Gain(f, j)]
    BY <1>2
  <2>2. [j \in 2 .. p + 1 |-> Loss(g, j)] = [j \in 2 .. p + 1 |-> Loss(f, j)]
    BY <1>2
  <2>. QED BY <2>1, <2>2
<1>7. Moves(g) = Moves(f)
  BY <1>3
<1>. QED BY <1>4, <1>5, <1>6, <1>7

\* Bars with their indicators that go on where others end.
GoesOn(a, b) == AreBars(a) /\ AreBars(b) /\ Len(a) <= Len(b) /\ \A k \in 1..Len(a) : b[k] = a[k]

LEMMA ReadGoesOn ==
  ASSUME NEW f, NEW g, Follows(f, g), Len(f) > RsiPeriod
  PROVE  GoesOn(Read(f), Read(g))
<1>0. /\ Len(f) \in Nat /\ Len(g) \in Nat /\ Len(f) <= Len(g) /\ Bars(f) = 1..Len(f) /\ Bars(g) = 1..Len(g)
  BY BarIs DEF Follows
<1>1. AreBars(Read(f)) /\ AreBars(Read(g))
  BY ReadIs DEF Follows
<1>2. Len(Read(f)) = Len(f) /\ Len(Read(g)) = Len(g)
  BY <1>0 DEF Read
<1>3. ASSUME NEW k \in Bars(f) PROVE Read(g)[k] = Read(f)[k]
  <2>0. k \in Bars(g)
    BY <1>0
  <2>1. g[k] = f[k] /\ VwapSide(g, k) = VwapSide(f, k) /\ Smoothed(g)[k] = Smoothed(f)[k]
    BY VwapStays, SmoothedStays DEF Follows
  <2>2. Read(f)[k] = [day |-> f[k].day, open |-> f[k].open, high |-> f[k].high, low |-> f[k].low,
                      close |-> f[k].close, ema |-> f[k].ema, slow |-> f[k].slow, macd |-> f[k].macd,
                      vwap |-> VwapSide(f, k), rsi |-> Smoothed(f)[k]]
    BY DEF Read
  <2>3. Read(g)[k] = [day |-> g[k].day, open |-> g[k].open, high |-> g[k].high, low |-> g[k].low,
                      close |-> g[k].close, ema |-> g[k].ema, slow |-> g[k].slow, macd |-> g[k].macd,
                      vwap |-> VwapSide(g, k), rsi |-> Smoothed(g)[k]]
    BY <2>0 DEF Read
  <2>. QED BY <2>1, <2>2, <2>3
<1>. QED BY <1>0, <1>1, <1>2, <1>3 DEF GoesOn

\* What comes after some places does not change which of them is the first.
LEMMA FirstStays ==
  ASSUME NEW n \in Nat, NEW S, S \subseteq 1..n, NEW R, R \subseteq Nat, S \subseteq R, \A x \in R \ S : x > n
  PROVE  FirstOf(S) \subseteq FirstOf(R) /\ (S # {} => Min(R) = Min(S))
<1>1. CASE S = {}
  BY <1>1 DEF FirstOf
<1>2. ASSUME S # {}, NEW p \in S, \A x \in S : p <= x, NEW q \in R, \A x \in R : q <= x PROVE p = q
  <2>1. p \in Nat /\ q \in Nat /\ p <= n /\ q <= p
    BY <1>2
  <2>2. q \in S
    BY <2>1
  <2>. QED BY <1>2, <2>1, <2>2
<1>3. CASE S # {}
  <2>1. Min(S) \in S /\ \A x \in S : Min(S) <= x
    <3>1. S \subseteq Nat
      OBVIOUS
    <3>. QED BY <1>3, <3>1, MinIs
  <2>2. Min(R) \in R /\ \A x \in R : Min(R) <= x
    BY <1>3, MinIs
  <2>3. Min(R) = Min(S)
    BY <1>2, <1>3, <2>1, <2>2
  <2>. QED BY <1>3, <2>3 DEF FirstOf
<1>. QED BY <1>1, <1>3

LEMMA FirstIsStill ==
  ASSUME NEW n \in Nat, NEW S, S \subseteq 1..n, NEW R, R \subseteq Nat, S \subseteq R, \A x \in R \ S : x > n
  PROVE  FirstOf(S) = {k \in FirstOf(R) : k <= n}
<1>1. FirstOf(S) \subseteq FirstOf(R) /\ (S # {} => Min(R) = Min(S))
  BY FirstStays
<1>2. S # {} => Min(S) \in S
  <2>1. S \subseteq Nat
    OBVIOUS
  <2>. QED BY <2>1, MinIs
<1>3. R # {} => Min(R) \in R
  BY MinIs
<1>4. ASSUME NEW k \in FirstOf(S) PROVE k \in FirstOf(R) /\ k <= n
  <2>1. S # {} /\ k = Min(S)
    BY <1>4 DEF FirstOf
  <2>2. k \in 1..n
    BY <1>2, <2>1
  <2>. QED BY <1>1, <1>4, <2>2
<1>5. ASSUME NEW k \in FirstOf(R), k <= n PROVE k \in FirstOf(S)
  <2>1. R # {} /\ k = Min(R) /\ k \in R
    BY <1>3, <1>5 DEF FirstOf
  <2>2. k \in S
    <3>1. k \in Nat /\ ~(k > n)
      BY <1>5, <2>1
    <3>. QED BY <2>1, <3>1
  <2>. QED BY <1>1, <2>1, <2>2 DEF FirstOf
<1>. QED BY <1>4, <1>5

LEMMA DayStays ==
  ASSUME NEW a, NEW b, GoesOn(a, b), NEW day \in Days(a)
  PROVE  /\ day \in Days(b) /\ BarsOf(a, day) \subseteq BarsOf(b, day)
         /\ BarsOf(a, day) \subseteq 1..Len(a) /\ BarsOf(a, day) # {}
         /\ BarsOf(b, day) \subseteq 1..Len(b)
         /\ \A k \in BarsOf(b, day) \ BarsOf(a, day) : k > Len(a)
         /\ Min(BarsOf(b, day)) = Min(BarsOf(a, day)) /\ Min(BarsOf(a, day)) \in BarsOf(a, day)
<1>0. Len(a) \in Nat /\ Len(b) \in Nat /\ Len(a) <= Len(b) /\ \A k \in 1..Len(a) : b[k] = a[k]
  BY DEF GoesOn, AreBars
<1>1. /\ BarsOf(a, day) \subseteq 1..Len(a) /\ BarsOf(a, day) # {}
      /\ Min(BarsOf(a, day)) \in BarsOf(a, day)
  BY DayIs DEF GoesOn
<1>2. /\ BarsOf(a, day) \subseteq BarsOf(b, day) /\ BarsOf(b, day) \subseteq 1..Len(b)
      /\ \A k \in BarsOf(b, day) \ BarsOf(a, day) : k > Len(a)
  BY <1>0 DEF BarsOf, Bars
<1>3. day \in Days(b)
  BY <1>1, <1>2 DEF Days, BarsOf
<1>4. Min(BarsOf(b, day)) = Min(BarsOf(a, day))
  <2>1. BarsOf(b, day) \subseteq Nat
    BY <1>0, <1>2
  <2>. QED BY <1>0, <1>1, <1>2, <2>1, FirstStays
<1>. QED BY <1>1, <1>2, <1>3, <1>4


\* A Breakout day that is long enough keeps its signal, and takes none before it.
LEMMA BreakoutOfStays ==
  ASSUME NEW a, NEW b, GoesOn(a, b), NEW day \in Days(a), ~(Cardinality(BarsOf(a, day)) < BreakoutBars)
  PROVE  BreakoutOf(a, day) = {s \in BreakoutOf(b, day) : s.at <= Len(a)}
<1>. DEFINE first == Min(BarsOf(a, day))
            last == first + HourBars - 1
            hour == Ahead(Buy, a[first].open, a[last].close)
            side == IF hour > 0 THEN Buy ELSE Sell
            entry == Best(a[first], side)
            Breaks(bar) == /\ Ahead(side, entry, Best(bar, side)) > 0
                           /\ Backed(bar, side, 5) /\ side \in bar.slow
                           /\ Ahead(side, Worst(bar, side), entry) > 0
            Broken(h) == {k \in BarsOf(h, day) \ {first} : Breaks(h[k])}
            Trade(h, k) == Signal("Breakout", k, side, entry, Worst(h[k], side), Reward,
                                  Quantity(entry, Worst(h[k], side)))
            Trades(h) == {Trade(h, k) : k \in FirstOf(Broken(h))}
<1>0. Len(a) \in Nat /\ Len(b) \in Nat /\ Len(a) <= Len(b) /\ \A k \in 1..Len(a) : b[k] = a[k]
  BY DEF GoesOn, AreBars
<1>1. /\ BarsOf(a, day) \subseteq BarsOf(b, day) /\ BarsOf(a, day) \subseteq 1..Len(a)
      /\ BarsOf(b, day) \subseteq 1..Len(b) /\ \A k \in BarsOf(b, day) \ BarsOf(a, day) : k > Len(a)
      /\ Min(BarsOf(b, day)) = first /\ first \in BarsOf(a, day)
  BY DayStays
<1>2. /\ BreakoutBars \in Nat /\ HourBars \in Nat \ {0} /\ HourBars <= BreakoutBars
  BY IntradayAssumption
<1>3. /\ Cardinality(BarsOf(b, day)) \in Nat /\ Cardinality(BarsOf(a, day)) \in Nat
      /\ Cardinality(BarsOf(a, day)) <= Cardinality(BarsOf(b, day))
      /\ Cardinality(BarsOf(a, day)) <= Len(a) - first + 1
  <2>. DEFINE A == BarsOf(a, day)
              B == BarsOf(b, day)
  <2>1. IsFiniteSet(1..Len(b)) /\ first \in 1..Len(a)
    BY <1>0, <1>1, FS_Interval
  <2>2. IsFiniteSet(B)
    BY <1>1, <2>1, FS_Subset
  <2>3. Cardinality(B) \in Nat /\ Cardinality(A) \in Nat /\ Cardinality(A) <= Cardinality(B)
    BY <1>1, <2>2, FS_Subset, FS_CardinalityType
  <2>4. \A k \in A : first <= k
    <3>1. A \subseteq Nat /\ A # {}
      BY <1>0, <1>1
    <3>. QED BY <3>1, MinIs
  <2>5. A \subseteq first..Len(a)
    BY <1>0, <1>1, <2>1, <2>4
  <2>. HIDE DEF A, first
  <2>6. IsFiniteSet(first..Len(a)) /\ Cardinality(first..Len(a)) = Len(a) - first + 1
    <3>1. first \in Int /\ Len(a) \in Int /\ first <= Len(a)
      BY <1>0, <2>1
    <3>. QED BY <3>1, FS_Interval
  <2>7. Cardinality(A) <= Len(a) - first + 1
    BY <2>5, <2>6, FS_Subset, ZenonT(60)
  <2>. QED BY <2>3, <2>7 DEF A
<1>4. last \in 1..Len(a) /\ first \in 1..Len(a)
  <2>1. first \in 1..Len(a) /\ Cardinality(BarsOf(a, day)) >= BreakoutBars
    BY <1>1, <1>2, <1>3
  <2>. HIDE DEF first
  <2>. QED BY <1>0, <1>2, <1>3, <2>1
<1>5. b[first] = a[first] /\ b[last] = a[last]
  BY <1>0, <1>4
<1>6. ~(Cardinality(BarsOf(b, day)) < BreakoutBars)
  BY <1>2, <1>3
<1>7. CASE hour = 0
  <2>1. BreakoutOf(a, day) = {}
    BY <1>7 DEF BreakoutOf
  <2>2. BreakoutOf(b, day) = {}
    BY <1>1, <1>5, <1>7 DEF BreakoutOf
  <2>. QED BY <2>1, <2>2
<1>8. CASE hour # 0
  <2>1. BreakoutOf(a, day) = {s \in Trades(a) : s.quantity > 0}
    BY <1>8 DEF BreakoutOf
  <2>2. BreakoutOf(b, day) = {s \in Trades(b) : s.quantity > 0}
    BY <1>1, <1>5, <1>6, <1>8 DEF BreakoutOf
  <2>. HIDE DEF first, hour, side, entry, Breaks
  <2>3. /\ Broken(a) \subseteq 1..Len(a) /\ Broken(b) \subseteq Nat /\ Broken(a) \subseteq Broken(b)
        /\ \A k \in Broken(b) \ Broken(a) : k > Len(a)
    BY <1>0, <1>1
  <2>4. FirstOf(Broken(a)) = {k \in FirstOf(Broken(b)) : k <= Len(a)} /\ FirstOf(Broken(a)) \subseteq 1..Len(a)
    <3>. DEFINE S == Broken(a)
                R == Broken(b)
    <3>1. S \subseteq 1..Len(a) /\ R \subseteq Nat /\ S \subseteq R /\ \A k \in R \ S : k > Len(a)
      BY <2>3
    <3>. HIDE DEF S, R
    <3>2. FirstOf(S) = {k \in FirstOf(R) : k <= Len(a)}
      BY <1>0, <3>1, FirstIsStill
    <3>3. FirstOf(S) \subseteq S
      <4>1. S \subseteq Nat
        BY <3>1
      <4>. QED BY <4>1, MinIs DEF FirstOf
    <3>. QED BY <3>1, <3>2, <3>3 DEF S, R
  <2>5. \A k \in FirstOf(Broken(a)) : k \in FirstOf(Broken(b)) /\ Trade(b, k) = Trade(a, k)
    BY <1>0, <2>4
  <2>6. \A h, k : Trade(h, k).at = k
    BY DEF Signal
  <2>. HIDE DEF Broken, Trade
  <2>7. Trades(a) = {s \in Trades(b) : s.at <= Len(a)}
    <3>1. ASSUME NEW s \in Trades(a) PROVE s \in Trades(b) /\ s.at <= Len(a)
      BY <2>4, <2>5, <2>6, <3>1
    <3>2. ASSUME NEW s \in Trades(b), s.at <= Len(a) PROVE s \in Trades(a)
      <4>1. PICK k \in FirstOf(Broken(b)) : s = Trade(b, k)
        OBVIOUS
      <4>2. k \in FirstOf(Broken(a))
        BY <2>4, <2>6, <3>2, <4>1
      <4>. QED BY <2>5, <4>1, <4>2
    <3>. QED BY <3>1, <3>2
  <2>. QED BY <2>1, <2>2, <2>7
<1>. QED BY <1>7, <1>8

\* A Breakout signal is at a bar of a day that is long enough.
LEMMA BreakoutAtDay ==
  ASSUME NEW b, AreBars(b), NEW day \in Days(b), NEW s \in BreakoutOf(b, day)
  PROVE  s.name = "Breakout" /\ s.at \in BarsOf(b, day) /\ ~(Cardinality(BarsOf(b, day)) < BreakoutBars)
<1>. DEFINE bars == BarsOf(b, day)
            first == Min(bars)
            hour == Ahead(Buy, b[first].open, b[first + HourBars - 1].close)
            side == IF hour > 0 THEN Buy ELSE Sell
            entry == Best(b[first], side)
            broken == {k \in bars \ {first} :
                         /\ Ahead(side, entry, Best(b[k], side)) > 0
                         /\ Backed(b[k], side, 5) /\ side \in b[k].slow
                         /\ Ahead(side, Worst(b[k], side), entry) > 0}
            Trade(k) == Signal("Breakout", k, side, entry, Worst(b[k], side), Reward, Quantity(entry, Worst(b[k], side)))
<1>1. ~(Cardinality(bars) < BreakoutBars)
  BY DEF BreakoutOf
<1>2. s \in {Trade(k) : k \in FirstOf(broken)}
  BY DEF BreakoutOf
<1>3. broken \subseteq bars /\ bars \subseteq Nat
  BY DayIs
<1>. HIDE DEF broken
<1>4. PICK k \in FirstOf(broken) : s = Trade(k)
  BY <1>2
<1>5. k \in bars
  BY <1>3, MinIs DEF FirstOf
<1>6. s.at = k /\ s.name = "Breakout"
  BY <1>4 DEF Signal
<1>. QED BY <1>1, <1>5, <1>6

\* A bar of the newest day alone makes that day longer.
LEMMA OnlyToday ==
  ASSUME NEW a, NEW b, GoesOn(a, b), Len(b) = Len(a) + 1, NEW day \in Days(a), day # Last(b).day
  PROVE  BarsOf(b, day) = BarsOf(a, day)
<1>0. Len(a) \in Nat /\ Len(b) \in Nat /\ \A k \in 1..Len(a) : b[k] = a[k]
  BY DEF GoesOn, AreBars
<1>1. Last(b) = b[Len(a) + 1]
  BY DEF Last
<1>. QED BY <1>0, <1>1 DEF BarsOf, Bars

LEMMA BreakoutStays ==
  ASSUME NEW a, NEW b, GoesOn(a, b), Len(b) = Len(a) + 1
  PROVE  /\ Breakout(a) \subseteq {s \in Breakout(b) : s.at <= Len(a)}
         /\ \A s \in Breakout(b) \ Breakout(a) : s.at <= Len(a) =>
              /\ s.name = "Breakout" /\ s.at \in BarsOf(b, Last(b).day)
              /\ Cardinality(BarsOf(b, Last(b).day)) = BreakoutBars
<1>0. Len(a) \in Nat /\ Len(b) \in Nat /\ AreBars(a) /\ AreBars(b) /\ \A k \in 1..Len(a) : b[k] = a[k]
  BY DEF GoesOn, AreBars
<1>1. ASSUME NEW s \in Breakout(a) PROVE s \in Breakout(b) /\ s.at <= Len(a)
  <2>1. PICK day \in Days(a) : s \in BreakoutOf(a, day)
    BY DEF Breakout
  <2>2. ~(Cardinality(BarsOf(a, day)) < BreakoutBars)
    BY <1>0, <2>1, BreakoutAtDay
  <2>3. s \in BreakoutOf(b, day) /\ s.at <= Len(a) /\ day \in Days(b)
    BY <2>1, <2>2, BreakoutOfStays, DayStays
  <2>. QED BY <2>3 DEF Breakout
<1>2. ASSUME NEW s \in Breakout(b), s \notin Breakout(a), s.at <= Len(a)
      PROVE  /\ s.name = "Breakout" /\ s.at \in BarsOf(b, Last(b).day)
             /\ Cardinality(BarsOf(b, Last(b).day)) = BreakoutBars
  <2>1. PICK day \in Days(b) : s \in BreakoutOf(b, day)
    BY DEF Breakout
  <2>2. s.name = "Breakout" /\ s.at \in BarsOf(b, day) /\ ~(Cardinality(BarsOf(b, day)) < BreakoutBars)
    BY <1>0, <2>1, BreakoutAtDay
  <2>3. day \in Days(a)
    <3>1. s.at \in 1..Len(a) /\ b[s.at].day = day
      BY <1>0, <1>2, <2>2 DEF BarsOf, Bars
    <3>. QED BY <1>0, <3>1 DEF Days, Bars
  <2>4. Cardinality(BarsOf(a, day)) < BreakoutBars
    <3>1. SUFFICES ASSUME ~(Cardinality(BarsOf(a, day)) < BreakoutBars) PROVE FALSE
      OBVIOUS
    <3>2. s \in BreakoutOf(a, day)
      BY <1>2, <2>1, <2>3, <3>1, BreakoutOfStays
    <3>. QED BY <1>2, <2>3, <3>2 DEF Breakout
  <2>5. day = Last(b).day
    BY <2>2, <2>3, <2>4, OnlyToday
  <2>6. Cardinality(BarsOf(b, day)) = BreakoutBars
    <3>. DEFINE A == BarsOf(a, day)
                B == BarsOf(b, day)
    <3>1. A \subseteq 1..Len(a) /\ B \subseteq A \cup {Len(a) + 1}
      BY <1>0, <2>3 DEF BarsOf, Bars
    <3>2. IsFiniteSet(1..Len(a))
      BY <1>0, FS_Interval
    <3>3. IsFiniteSet(A)
      BY <3>1, <3>2, FS_Subset
    <3>. HIDE DEF A, B
    <3>4. /\ IsFiniteSet(A \cup {Len(a) + 1}) /\ Cardinality(A) \in Nat
          /\ Cardinality(A \cup {Len(a) + 1}) \in Nat /\ Cardinality(A \cup {Len(a) + 1}) <= Cardinality(A) + 1
      BY <3>3, FS_AddElement, FS_CardinalityType
    <3>5. Cardinality(B) \in Nat /\ Cardinality(B) <= Cardinality(A \cup {Len(a) + 1})
      BY <3>1, <3>4, FS_Subset, FS_CardinalityType
    <3>6. BreakoutBars \in Nat
      BY IntradayAssumption
    <3>7. Cardinality(A) < BreakoutBars /\ ~(Cardinality(B) < BreakoutBars)
      BY <2>2, <2>4 DEF A, B
    <3>8. Cardinality(B) = BreakoutBars
      BY <3>4, <3>5, <3>6, <3>7
    <3>. QED BY <3>8 DEF B
  <2>. QED BY <2>2, <2>5, <2>6
<1>. QED BY <1>1, <1>2

LEMMA BtstStays ==
  ASSUME NEW a, NEW b, GoesOn(a, b), Len(b) = Len(a) + 1
  PROVE  /\ Btst(a) \subseteq {s \in Btst(b) : s.at <= Len(a)}
         /\ \A s \in Btst(b) \ Btst(a) : s.at <= Len(a) =>
              s.name = "BTST" /\ s.at = Len(b) - 1 /\ s.at \in 1..Len(b) /\ b[s.at].day # Last(b).day
<1>. DEFINE Held(h) == {k \in Bars(h) : k < Len(h) /\ h[k + 1].day # h[k].day}
            Trade(h, k, side) ==
              [name |-> "BTST", at |-> k, side |-> side, entry |-> h[k].close,
               stop |-> Worst(h[k], side), target |-> h[k + 1].open,
               quantity |-> Quantity(h[k].close, Worst(h[k], side))]
            Backs(h, k, side) ==
              Backed(h[k], side, 5) /\ side \in h[k].slow /\ Ahead(side, h[k].open, h[k].close) > 0
            TradesAt(h, i) == {Trade(h, i, x) : x \in {x \in Sides : Backs(h, i, x)}}
<1>0. Len(a) \in Nat /\ Len(b) \in Nat /\ Len(a) <= Len(b) /\ \A k \in 1..Len(a) : b[k] = a[k]
  BY DEF GoesOn, AreBars
<1>1. Held(a) = {k \in Held(b) : k < Len(a)} /\ Held(b) \subseteq 1..Len(a)
  BY <1>0 DEF Bars
<1>2. ASSUME NEW k \in Held(a) PROVE TradesAt(b, k) = TradesAt(a, k)
  <2>1. k \in 1..Len(a) /\ k + 1 \in 1..Len(a)
    BY <1>0 DEF Bars
  <2>2. b[k] = a[k] /\ b[k + 1] = a[k + 1]
    BY <1>0, <2>1
  <2>. QED BY <2>2
<1>3. \A h, k : \A s \in TradesAt(h, k) : s.at = k /\ s.name = "BTST"
  OBVIOUS
<1>4. /\ Btst(a) = {t \in UNION {TradesAt(a, i) : i \in Held(a)} : t.quantity > 0}
      /\ Btst(b) = {t \in UNION {TradesAt(b, i) : i \in Held(b)} : t.quantity > 0}
  BY DEF Btst
<1>5. ASSUME NEW k \in Held(b), k \notin Held(a)
      PROVE  k = Len(b) - 1 /\ k \in 1..Len(b) /\ b[k].day # Last(b).day
  <2>1. k = Len(a) /\ k \in 1..Len(b) /\ b[k + 1].day # b[k].day
    BY <1>0, <1>1, <1>5 DEF Bars
  <2>2. Last(b) = b[k + 1]
    BY <2>1 DEF Last
  <2>. QED BY <1>0, <2>1, <2>2
<1>. HIDE DEF TradesAt, Held
<1>6. ASSUME NEW s \in Btst(a) PROVE s \in Btst(b) /\ s.at <= Len(a)
  <2>1. PICK k \in Held(a) : s \in TradesAt(a, k) /\ s.quantity > 0
    BY <1>4
  <2>2. k \in Held(b) /\ k \in 1..Len(a) /\ s \in TradesAt(b, k) /\ s.at = k
    BY <1>1, <1>2, <1>3, <2>1
  <2>. QED BY <1>0, <1>4, <2>1, <2>2
<1>7. ASSUME NEW s \in Btst(b), s \notin Btst(a)
      PROVE  s.name = "BTST" /\ s.at = Len(b) - 1 /\ s.at \in 1..Len(b) /\ b[s.at].day # Last(b).day
  <2>1. PICK k \in Held(b) : s \in TradesAt(b, k) /\ s.quantity > 0
    BY <1>4
  <2>2. s.at = k /\ s.name = "BTST"
    BY <1>3, <2>1
  <2>3. k \notin Held(a)
    BY <1>2, <1>4, <1>7, <2>1
  <2>. QED BY <1>5, <2>2, <2>3
<1>. QED BY <1>6, <1>7

\* The signals of a bar that was there are those it had.
LEMMA IndicatorStays ==
  ASSUME NEW a, NEW b, GoesOn(a, b)
  PROVE  Indicator(a) = {s \in Indicator(b) : s.at <= Len(a)}
<1>. DEFINE Trade(h, k, side) ==
              Signal("Indicator", k, side, h[k].close, IF side = Buy THEN h[k].low - Buffer ELSE h[k].high + Buffer, 2, 0)
            Of(h, k) == {Trade(h, k, side) : side \in MarketSides(h[k])}
<1>0. /\ Len(a) \in Nat /\ Len(b) \in Nat /\ Len(a) <= Len(b) /\ \A k \in 1..Len(a) : b[k] = a[k]
      /\ Bars(a) = 1..Len(a) /\ Bars(b) = 1..Len(b)
  BY DEF GoesOn, AreBars, Bars
<1>1. Indicator(a) = UNION {Of(a, k) : k \in Bars(a)} /\ Indicator(b) = UNION {Of(b, k) : k \in Bars(b)}
  BY DEF Indicator
<1>2. \A h, k : \A s \in Of(h, k) : s.at = k
  BY DEF Signal
<1>3. \A k \in 1..Len(a) : Of(b, k) = Of(a, k)
  BY <1>0
<1>. HIDE DEF Of
<1>4. ASSUME NEW s \in Indicator(a) PROVE s \in Indicator(b) /\ s.at <= Len(a)
  <2>1. PICK k \in 1..Len(a) : s \in Of(a, k)
    BY <1>0, <1>1
  <2>2. k \in Bars(b) /\ s \in Of(b, k) /\ s.at = k
    BY <1>0, <1>2, <1>3, <2>1
  <2>. QED BY <1>1, <2>2
<1>5. ASSUME NEW s \in Indicator(b), s.at <= Len(a) PROVE s \in Indicator(a)
  <2>1. PICK k \in 1..Len(b) : s \in Of(b, k)
    BY <1>0, <1>1
  <2>2. k \in Bars(a) /\ s \in Of(a, k)
    BY <1>0, <1>2, <1>3, <1>5, <2>1
  <2>. QED BY <1>1, <2>2
<1>. QED BY <1>4, <1>5

LEMMA OneTradeStays ==
  ASSUME NEW a, NEW b, GoesOn(a, b)
  PROVE  OneTradeDay(a) = {s \in OneTradeDay(b) : s.at <= Len(a)}
<1>. DEFINE Sized(h, x) == Signal("One Trade/Day", x.at, x.side, x.entry, Worst(h[x.at], x.side), Reward,
                                  Quantity(x.entry, Worst(h[x.at], x.side)))
            Caught(h, day) == {x \in Indicator(h) : h[x.at].day = day /\ Sized(h, x).quantity > 0}
            All(h, day) == {Sized(h, x) : x \in Caught(h, day)}
            Of(h, day) == {t \in All(h, day) : \A other \in All(h, day) : t.at <= other.at}
<1>0. /\ Len(a) \in Nat /\ Len(b) \in Nat /\ Len(a) <= Len(b) /\ \A k \in 1..Len(a) : b[k] = a[k]
      /\ AreBars(a) /\ AreBars(b)
  BY DEF GoesOn, AreBars
<1>1. /\ OneTradeDay(a) = UNION {Of(a, day) : day \in Days(a)}
      /\ OneTradeDay(b) = UNION {Of(b, day) : day \in Days(b)}
  BY DEF OneTradeDay, OneTradeOf
<1>2. \A h, x : Sized(h, x).at = x.at
  BY DEF Signal
<1>3. ASSUME NEW x \in Indicator(b), x.at <= Len(a)
      PROVE  x \in Indicator(a) /\ b[x.at] = a[x.at] /\ Sized(b, x) = Sized(a, x)
  <2>1. x \in Indicator(a)
    BY <1>3, IndicatorStays
  <2>2. x.at \in 1..Len(a)
    BY <1>0, <2>1, IndicatorIs
  <2>. QED BY <1>0, <2>1, <2>2
<1>4. \A x \in Indicator(a) : x \in Indicator(b) /\ x.at <= Len(a) /\ x.at \in Int
  BY <1>0, IndicatorStays, IndicatorIs
<1>5. \A x \in Indicator(b) : x.at \in Int
  BY <1>0, IndicatorIs
<1>. HIDE DEF Sized
<1>6. ASSUME NEW day \in Days(a)
      PROVE  Caught(a, day) = {x \in Caught(b, day) : x.at <= Len(a)}
  <2>1. ASSUME NEW x \in Indicator(a) PROVE x \in Indicator(b) /\ x.at <= Len(a) /\ b[x.at] = a[x.at] /\ Sized(b, x) = Sized(a, x)
    BY <1>3, <1>4, <2>1
  <2>2. ASSUME NEW x \in Caught(a, day) PROVE x \in Caught(b, day) /\ x.at <= Len(a)
    BY <2>1, <2>2
  <2>3. ASSUME NEW x \in Caught(b, day), x.at <= Len(a) PROVE x \in Caught(a, day)
    BY <1>3, <2>3
  <2>. QED BY <2>2, <2>3
<1>7. ASSUME NEW s \in OneTradeDay(a) PROVE s \in OneTradeDay(b) /\ s.at <= Len(a)
  <2>1. PICK day \in Days(a) : s \in Of(a, day)
    BY <1>1
  <2>2. PICK x \in Caught(a, day) : s = Sized(a, x)
    BY <2>1
  <2>3. x \in Caught(b, day) /\ s = Sized(b, x) /\ s.at = x.at /\ x.at <= Len(a) /\ x.at \in Int
    BY <1>2, <1>3, <1>4, <1>6, <2>2
  <2>4. ASSUME NEW other \in All(b, day) PROVE s.at <= other.at
    <3>1. PICK y \in Caught(b, day) : other = Sized(b, y)
      BY <2>4
    <3>2. CASE y.at <= Len(a)
      <4>1. y \in Caught(a, day) /\ other = Sized(a, y)
        BY <1>3, <1>6, <3>1, <3>2
      <4>. QED BY <2>1, <4>1
    <3>3. CASE ~(y.at <= Len(a))
      <4>1. y.at \in Int /\ other.at = y.at
        BY <1>2, <1>5, <3>1
      <4>. QED BY <1>0, <2>3, <3>3, <4>1
    <3>. QED BY <3>2, <3>3
  <2>5. s \in Of(b, day) /\ day \in Days(b)
    BY <2>3, <2>4, DayStays
  <2>. QED BY <1>1, <2>3, <2>5
<1>8. ASSUME NEW s \in OneTradeDay(b), s.at <= Len(a) PROVE s \in OneTradeDay(a)
  <2>1. PICK day \in Days(b) : s \in Of(b, day)
    BY <1>1
  <2>2. PICK x \in Caught(b, day) : s = Sized(b, x)
    BY <2>1
  <2>3. x.at = s.at /\ x.at <= Len(a) /\ x \in Indicator(b) /\ b[x.at].day = day
    BY <1>2, <1>8, <2>2
  <2>4. day \in Days(a)
    <3>1. x.at \in 1..Len(a) /\ a[x.at].day = day
      BY <1>0, <1>3, <2>3, IndicatorIs
    <3>. QED BY <1>0, <3>1 DEF Days, Bars
  <2>5. s \in All(a, day)
    BY <1>3, <1>6, <2>2, <2>3, <2>4
  <2>6. ASSUME NEW other \in All(a, day) PROVE s.at <= other.at
    <3>1. PICK y \in Caught(a, day) : other = Sized(a, y)
      BY <2>6
    <3>2. y \in Caught(b, day) /\ Sized(b, y) = Sized(a, y)
      BY <1>3, <1>4, <1>6, <2>4, <3>1
    <3>. QED BY <2>1, <3>1, <3>2
  <2>7. s \in Of(a, day)
    BY <2>5, <2>6
  <2>. QED BY <1>1, <2>4, <2>7
<1>. QED BY <1>7, <1>8


\* The bars of a part.
LEMMA PartOf ==
  ASSUME NEW b, AreBars(b), NEW lo \in 1..Len(b), NEW hi \in lo..Len(b)
  PROVE  /\ SubSeq(b, lo, hi) \in Seq({b[k] : k \in 1..Len(b)}) /\ Len(SubSeq(b, lo, hi)) = hi - lo + 1
         /\ \A j \in 1..hi - lo + 1 : SubSeq(b, lo, hi)[j] = b[lo + j - 1]
<1>. DEFINE R == {b[k] : k \in 1..Len(b)}
<1>1. b \in Seq(R) /\ Len(b) \in Nat
  BY DEF AreBars
<1>. HIDE DEF R
<1>2. /\ SubSeq(b, lo, hi) \in Seq(R) /\ Len(SubSeq(b, lo, hi)) = hi - lo + 1
      /\ \A j \in 1..hi - lo + 1 : SubSeq(b, lo, hi)[j] = b[lo + j - 1]
  BY <1>1
<1>. QED BY <1>2 DEF R

\* A part of bars that were there is what it was, and a part that goes on goes on.
LEMMA PartStays ==
  ASSUME NEW a, NEW b, GoesOn(a, b), NEW lo \in 1..Len(a), NEW hi \in lo..Len(a)
  PROVE  SubSeq(b, lo, hi) = SubSeq(a, lo, hi)
<1>0. /\ Len(a) \in Nat /\ Len(b) \in Nat /\ Len(a) <= Len(b) /\ \A k \in 1..Len(a) : b[k] = a[k]
      /\ AreBars(a) /\ AreBars(b)
  BY DEF GoesOn, AreBars
<1>1. lo \in 1..Len(b) /\ hi \in lo..Len(b)
  BY <1>0
<1>. DEFINE p == SubSeq(a, lo, hi)
            q == SubSeq(b, lo, hi)
            n == hi - lo + 1
<1>2. p \in Seq({a[k] : k \in 1..Len(a)}) /\ Len(p) = n /\ \A j \in 1..n : p[j] = a[lo + j - 1]
  BY <1>0, PartOf
<1>3. q \in Seq({b[k] : k \in 1..Len(b)}) /\ Len(q) = n /\ \A j \in 1..n : q[j] = b[lo + j - 1]
  BY <1>0, <1>1, PartOf
<1>4. \A j \in 1..n : lo + j - 1 \in 1..Len(a)
  BY <1>0
<1>5. \A j \in 1..n : q[j] = p[j]
  BY <1>0, <1>2, <1>3, <1>4
<1>. HIDE DEF p, q, n
<1>6. DOMAIN p = 1..n /\ DOMAIN q = 1..n /\ p = [j \in DOMAIN p |-> p[j]] /\ q = [j \in DOMAIN q |-> q[j]]
  BY <1>2, <1>3
<1>7. p = q
  BY <1>5, <1>6
<1>. QED BY <1>7 DEF p, q

LEMMA PartGoesOn ==
  ASSUME NEW a, NEW b, GoesOn(a, b), NEW lo \in 1..Len(a), NEW hi \in lo..Len(a), NEW top \in hi..Len(b)
  PROVE  GoesOn(SubSeq(a, lo, hi), SubSeq(b, lo, top)) /\ Len(SubSeq(a, lo, hi)) = hi - lo + 1
<1>0. /\ Len(a) \in Nat /\ Len(b) \in Nat /\ Len(a) <= Len(b) /\ \A k \in 1..Len(a) : b[k] = a[k]
      /\ AreBars(a) /\ AreBars(b)
  BY DEF GoesOn, AreBars
<1>1. lo \in 1..Len(b) /\ top \in lo..Len(b)
  BY <1>0
<1>. DEFINE p == SubSeq(a, lo, hi)
            q == SubSeq(b, lo, top)
<1>2. AreBars(p) /\ Len(p) = hi - lo + 1 /\ AreBars(q) /\ Len(q) = top - lo + 1
  BY <1>0, <1>1, PartIs
<1>3. \A j \in 1..hi - lo + 1 : p[j] = a[lo + j - 1]
  BY <1>0, PartOf
<1>4. \A j \in 1..top - lo + 1 : q[j] = b[lo + j - 1]
  BY <1>0, <1>1, PartOf
<1>5. \A j \in 1..hi - lo + 1 : lo + j - 1 \in 1..Len(a) /\ j \in 1..top - lo + 1
  BY <1>0, <1>1
<1>6. \A j \in 1..hi - lo + 1 : q[j] = p[j]
  BY <1>0, <1>3, <1>4, <1>5
<1>7. hi - lo + 1 <= top - lo + 1
  BY <1>0, <1>1
<1>. HIDE DEF p, q
<1>. QED BY <1>2, <1>6, <1>7 DEF GoesOn, p, q

LEMMA ChunksStay ==
  ASSUME NEW a, NEW b, GoesOn(a, b), NEW n \in Nat \ {0}, NEW i \in 1..Len(a)
  PROVE  Chunks(b, n, i) = Chunks(a, n, i)
<1>. DEFINE c == i - 1
            q == c \div n
<1>0. Len(a) \in Nat /\ c \in Nat /\ c < Len(a)
  <2>1. Len(a) \in Nat
    BY DEF GoesOn, AreBars
  <2>. QED BY <2>1
<1>. HIDE DEF c
<1>1. q \in Nat /\ q * n <= c
  BY <1>0, Quotient
<1>. HIDE DEF q
<1>2. ASSUME NEW k \in 1..q PROVE SubSeq(b, (k - 1) * n + 1, k * n) = SubSeq(a, (k - 1) * n + 1, k * n)
  <2>. DEFINE lo == (k - 1) * n + 1
              hi == k * n
  <2>1. q - k \in Nat /\ k \in Nat /\ k - 1 \in Nat
    BY <1>1
  <2>2. (q - k) * n \in Nat /\ q * n = k * n + (q - k) * n /\ k * n = (k - 1) * n + n /\ (k - 1) * n \in Nat
    BY <1>1, <2>1
  <2>3. lo \in 1..Len(a) /\ hi \in lo..Len(a)
    BY <1>0, <1>1, <2>2
  <2>. HIDE DEF lo, hi
  <2>4. SubSeq(b, lo, hi) = SubSeq(a, lo, hi)
    BY <2>3, PartStays
  <2>. QED BY <2>4 DEF lo, hi
<1>3. /\ Chunks(a, n, i) = [k \in 1..q |-> Chunk(SubSeq(a, (k - 1) * n + 1, k * n))]
      /\ Chunks(b, n, i) = [k \in 1..q |-> Chunk(SubSeq(b, (k - 1) * n + 1, k * n))]
  BY DEF Chunks, q, c
<1>. QED BY <1>2, <1>3

\* An MTF day that is long enough keeps its signal, and takes none before it.
LEMMA MtfOfStays ==
  ASSUME NEW a, NEW b, GoesOn(a, b), NEW day \in Days(a)
  PROVE  /\ MtfOf(a, day) \subseteq MtfOf(b, day)
         /\ \A s \in MtfOf(b, day) \ MtfOf(a, day) : s.at <= Max(BarsOf(a, day)) =>
              Max(BarsOf(a, day)) - Min(BarsOf(a, day)) + 1 < MtfBars
<1>. DEFINE lo == Min(BarsOf(a, day))
            hi == Max(BarsOf(a, day))
            top == Max(BarsOf(b, day))
            part == SubSeq(a, lo, hi)
            whole == SubSeq(b, lo, top)
            Zones(h, i, side) == SetupZones(Chunks(h, SetupBars, i), side)
            Entry(zone, side) == IF side = Buy THEN zone.high ELSE zone.low
            Stop(h, i, zone, side) == IF side = Buy THEN Lower(h[i].low, zone.low) ELSE Higher(h[i].high, zone.high)
            Trade(h, i, zone, side) ==
              Signal("MTF 5m", lo - 1 + i, side, Entry(zone, side), Stop(h, i, zone, side), Reward,
                     Quantity(Entry(zone, side), Stop(h, i, zone, side)))
            Retested(h, i, zone, side) ==
              /\ Ahead(side, Worst(h[i], side), Entry(zone, side)) >= 0
              /\ Ahead(side, Entry(zone, side), h[i].close) >= 0
              /\ StrongRetest(h[i], side)
            TradesAt(h, i) ==
              {t \in UNION {{Trade(h, i, zone, side) : zone \in {z \in Zones(h, i, side) : Retested(h, i, z, side)}} :
                              side \in Bias(Chunks(h, BiasBars, i))} : t.quantity > 0}
            Ready(h) == {i \in MtfFirst .. Len(h) : /\ (i - 1) \div BiasBars >= 1
                                                    /\ (i - 1) \div SetupBars >= 3
                                                    /\ TradesAt(h, i) # {}}
            Of(h) == IF Len(h) < MtfBars THEN {} ELSE UNION {TradesAt(h, i) : i \in FirstOf(Ready(h))}
<1>0. Len(a) \in Nat /\ Len(b) \in Nat /\ Len(a) <= Len(b) /\ AreBars(a) /\ AreBars(b)
  BY DEF GoesOn, AreBars
<1>1. /\ day \in Days(b) /\ BarsOf(a, day) \subseteq BarsOf(b, day) /\ BarsOf(a, day) \subseteq 1..Len(a)
      /\ BarsOf(a, day) # {} /\ BarsOf(b, day) \subseteq 1..Len(b)
      /\ Min(BarsOf(b, day)) = lo /\ lo \in BarsOf(a, day)
  BY DayStays
<1>2. /\ hi \in BarsOf(a, day) /\ \A k \in BarsOf(a, day) : k <= hi
      /\ top \in BarsOf(b, day) /\ \A k \in BarsOf(b, day) : k <= top
  <2>1. BarsOf(b, day) # {}
    BY <1>1
  <2>. QED BY <1>0, <1>1, <2>1, MaxIs
<1>3. MtfOf(a, day) = Of(part) /\ MtfOf(b, day) = Of(whole)
  BY <1>1 DEF MtfOf
<1>4. lo \in 1..Len(a) /\ hi \in lo..Len(a) /\ top \in hi..Len(b)
  <2>. DEFINE A == BarsOf(a, day)
              B == BarsOf(b, day)
  <2>1. A \subseteq 1..Len(a) /\ B \subseteq 1..Len(b) /\ lo \in A /\ hi \in A /\ hi \in B /\ top \in B /\ lo <= hi /\ hi <= top
    BY <1>1, <1>2
  <2>. HIDE DEF A, B, lo, hi, top
  <2>. QED BY <1>0, <2>1
<1>5. GoesOn(part, whole) /\ Len(part) \in Nat /\ Len(whole) \in Nat /\ Len(part) = hi - lo + 1
  <2>. HIDE DEF lo, hi, top
  <2>1. GoesOn(part, whole) /\ Len(part) = hi - lo + 1
    BY <1>4, PartGoesOn
  <2>. QED BY <2>1 DEF GoesOn, AreBars
<1>. HIDE DEF part, whole, lo, hi, top
<1>6. ASSUME NEW i \in 1..Len(part) PROVE TradesAt(whole, i) = TradesAt(part, i)
  <2>1. whole[i] = part[i]
    BY <1>5 DEF GoesOn
  <2>2. Chunks(whole, SetupBars, i) = Chunks(part, SetupBars, i) /\ Chunks(whole, BiasBars, i) = Chunks(part, BiasBars, i)
    <3>1. SetupBars \in Nat \ {0} /\ BiasBars \in Nat \ {0}
      BY IntradayAssumption
    <3>. QED BY <1>5, <3>1, ChunksStay
  <2>. QED BY <2>1, <2>2
<1>14. \A h, i : \A t \in TradesAt(h, i) : t.at = lo - 1 + i
  <2>1. \A h, i, zone, side : Trade(h, i, zone, side).at = lo - 1 + i
    BY DEF Signal
  <2>. HIDE DEF Trade, Zones, Retested
  <2>. SUFFICES ASSUME NEW h, NEW i, NEW t \in TradesAt(h, i) PROVE t.at = lo - 1 + i
    OBVIOUS
  <2>2. PICK side : t \in {Trade(h, i, zone, side) : zone \in {z \in Zones(h, i, side) : Retested(h, i, z, side)}}
    OBVIOUS
  <2>3. PICK zone : t = Trade(h, i, zone, side)
    BY <2>2
  <2>. QED BY <2>1, <2>3
<1>. HIDE DEF TradesAt
<1>7. /\ Ready(part) \subseteq 1..Len(part) /\ Ready(whole) \subseteq Nat /\ Ready(part) \subseteq Ready(whole)
      /\ \A i \in Ready(whole) \ Ready(part) : i > Len(part)
  <2>1. MtfFirst \in Nat \ {0} /\ Len(part) <= Len(whole)
    BY <1>5, IntradayAssumption DEF GoesOn
  <2>. QED BY <1>5, <1>6, <2>1
<1>8. FirstOf(Ready(part)) = {i \in FirstOf(Ready(whole)) : i <= Len(part)} /\ FirstOf(Ready(part)) \subseteq 1..Len(part)
  <2>. DEFINE S == Ready(part)
              R == Ready(whole)
  <2>1. S \subseteq 1..Len(part) /\ R \subseteq Nat /\ S \subseteq R /\ \A i \in R \ S : i > Len(part)
    BY <1>7
  <2>. HIDE DEF S, R
  <2>2. FirstOf(S) = {i \in FirstOf(R) : i <= Len(part)}
    BY <1>5, <2>1, FirstIsStill
  <2>3. FirstOf(S) \subseteq S
    <3>1. S \subseteq Nat
      BY <2>1
    <3>. QED BY <3>1, MinIs DEF FirstOf
  <2>. QED BY <2>1, <2>2, <2>3 DEF S, R
<1>13. FirstOf(Ready(whole)) \subseteq Nat
  <2>1. Ready(whole) \subseteq Nat
    BY <1>7
  <2>. HIDE DEF Ready
  <2>. QED BY <2>1, MinIs DEF FirstOf
<1>. HIDE DEF Ready
<1>9. CASE Len(part) < MtfBars
  <2>1. hi - lo + 1 < MtfBars
    BY <1>5, <1>9
  <2>2. MtfOf(a, day) = {}
    BY <1>3, <1>9
  <2>. QED BY <2>1, <2>2 DEF hi, lo
<1>10. CASE ~(Len(part) < MtfBars)
  <2>1. ~(Len(whole) < MtfBars)
    <3>1. Len(part) <= Len(whole) /\ MtfBars \in Nat
      BY <1>5, IntradayAssumption DEF GoesOn
    <3>. QED BY <1>5, <1>10, <3>1
  <2>2. UNION {TradesAt(part, i) : i \in FirstOf(Ready(part))} \subseteq UNION {TradesAt(whole, i) : i \in FirstOf(Ready(whole))}
    BY <1>6, <1>8
  <2>3. MtfOf(a, day) \subseteq MtfOf(b, day)
    BY <1>3, <1>10, <2>1, <2>2
  <2>4. ASSUME NEW s \in MtfOf(b, day), s.at <= hi PROVE s \in MtfOf(a, day)
    <3>1. PICK i \in FirstOf(Ready(whole)) : s \in TradesAt(whole, i)
      BY <1>3, <2>1
    <3>2. s.at = lo - 1 + i /\ i \in Nat
      BY <1>13, <1>14, <3>1
    <3>3. lo \in Int /\ hi \in Int
      BY <1>0, <1>4
    <3>4. i <= Len(part)
      BY <1>5, <2>4, <3>2, <3>3
    <3>5. i \in FirstOf(Ready(part)) /\ s \in TradesAt(part, i)
      BY <1>6, <1>8, <3>1, <3>4
    <3>. QED BY <1>3, <1>10, <3>5
  <2>. QED BY <2>3, <2>4 DEF hi, lo
<1>. QED BY <1>9, <1>10

\* An MTF signal is within a day that is long enough.
LEMMA MtfAtDay ==
  ASSUME NEW b, AreBars(b), NEW day \in Days(b), NEW s \in MtfOf(b, day)
  PROVE  /\ s.name = "MTF 5m" /\ s.at \in Min(BarsOf(b, day)) .. Max(BarsOf(b, day))
         /\ ~(Max(BarsOf(b, day)) - Min(BarsOf(b, day)) + 1 < MtfBars)
<1>. DEFINE lo == Min(BarsOf(b, day))
            hi == Max(BarsOf(b, day))
            part == SubSeq(b, lo, hi)
            Zones(i, side) == SetupZones(Chunks(part, SetupBars, i), side)
            Entry(zone, side) == IF side = Buy THEN zone.high ELSE zone.low
            Stop(i, zone, side) == IF side = Buy THEN Lower(part[i].low, zone.low) ELSE Higher(part[i].high, zone.high)
            Trade(i, zone, side) ==
              Signal("MTF 5m", lo - 1 + i, side, Entry(zone, side), Stop(i, zone, side), Reward,
                     Quantity(Entry(zone, side), Stop(i, zone, side)))
            Retested(i, zone, side) ==
              /\ Ahead(side, Worst(part[i], side), Entry(zone, side)) >= 0
              /\ Ahead(side, Entry(zone, side), part[i].close) >= 0
              /\ StrongRetest(part[i], side)
            TradesAt(i) ==
              {t \in UNION {{Trade(i, zone, side) : zone \in {z \in Zones(i, side) : Retested(i, z, side)}} :
                              side \in Bias(Chunks(part, BiasBars, i))} : t.quantity > 0}
            ready == {i \in MtfFirst .. Len(part) : /\ (i - 1) \div BiasBars >= 1
                                                    /\ (i - 1) \div SetupBars >= 3
                                                    /\ TradesAt(i) # {}}
<1>1. MtfOf(b, day) = IF Len(part) < MtfBars THEN {} ELSE UNION {TradesAt(i) : i \in FirstOf(ready)}
  BY DEF MtfOf
<1>2. \A i : \A t \in TradesAt(i) : t.at = lo - 1 + i /\ t.name = "MTF 5m"
  <2>1. \A i, zone, side : Trade(i, zone, side).at = lo - 1 + i /\ Trade(i, zone, side).name = "MTF 5m"
    BY DEF Signal
  <2>. HIDE DEF Trade, Zones, Retested
  <2>. SUFFICES ASSUME NEW i, NEW t \in TradesAt(i) PROVE t.at = lo - 1 + i /\ t.name = "MTF 5m"
    OBVIOUS
  <2>2. PICK side : t \in {Trade(i, zone, side) : zone \in {z \in Zones(i, side) : Retested(i, z, side)}}
    OBVIOUS
  <2>3. PICK zone : t = Trade(i, zone, side)
    BY <2>2
  <2>. QED BY <2>1, <2>3
<1>. HIDE DEF TradesAt
<1>3. lo \in 1..Len(b) /\ hi \in lo..Len(b) /\ Len(b) \in Nat
  <2>. DEFINE B == BarsOf(b, day)
  <2>1. B \subseteq 1..Len(b) /\ B # {} /\ Len(b) \in Nat
    BY DayIs DEF AreBars
  <2>2. B \subseteq Nat
    BY <2>1
  <2>. HIDE DEF B
  <2>3. Min(B) \in B /\ \A x \in B : Min(B) <= x
    BY <2>1, <2>2, MinIs
  <2>4. Max(B) \in B
    BY <2>1, MaxIs
  <2>. QED BY <2>1, <2>3, <2>4 DEF B
<1>. HIDE DEF lo, hi
<1>4. Len(part) = hi - lo + 1
  BY <1>3, PartIs
<1>5. ready \subseteq 1..Len(part) /\ Len(part) \in Nat
  <2>1. MtfFirst \in Nat \ {0}
    BY IntradayAssumption
  <2>. QED BY <1>3, <1>4, <2>1
<1>. HIDE DEF ready
<1>6. ~(Len(part) < MtfBars)
  BY <1>1
<1>7. PICK i \in FirstOf(ready) : s \in TradesAt(i)
  BY <1>1, <1>6
<1>. HIDE DEF part
<1>8. i \in 1..Len(part)
  <2>1. ready \subseteq Nat
    BY <1>5
  <2>. QED BY <1>5, <2>1, MinIs DEF FirstOf
<1>9. s.name = "MTF 5m" /\ s.at \in lo..hi
  <2>1. s.name = "MTF 5m" /\ s.at = lo - 1 + i
    BY <1>2, <1>7
  <2>2. i \in 1..hi - lo + 1
    BY <1>4, <1>8
  <2>3. lo - 1 + i \in lo..hi
    BY <1>3, <2>2
  <2>. QED BY <2>1, <2>3
<1>10. ~(hi - lo + 1 < MtfBars)
  BY <1>4, <1>6
<1>. QED BY <1>9, <1>10 DEF lo, hi

LEMMA MtfStays ==
  ASSUME NEW a, NEW b, GoesOn(a, b), Len(b) = Len(a) + 1,
         NEW first \in 1..Len(b), BarsOf(b, Last(b).day) = first..Len(b)
  PROVE  /\ Mtf(a) \subseteq {s \in Mtf(b) : s.at <= Len(a)}
         /\ \A s \in Mtf(b) \ Mtf(a) : s.at <= Len(a) =>
              /\ s.name = "MTF 5m" /\ s.at \in BarsOf(b, Last(b).day)
              /\ Cardinality(BarsOf(b, Last(b).day)) = MtfBars
<1>0. Len(a) \in Nat /\ Len(b) \in Nat /\ AreBars(a) /\ AreBars(b) /\ \A k \in 1..Len(a) : b[k] = a[k]
  BY DEF GoesOn, AreBars
<1>1. ASSUME NEW s \in Mtf(a) PROVE s \in Mtf(b) /\ s.at <= Len(a)
  <2>1. PICK day \in Days(a) : s \in MtfOf(a, day)
    BY DEF Mtf
  <2>2. s.at \in Min(BarsOf(a, day)) .. Max(BarsOf(a, day))
    BY <1>0, <2>1, MtfAtDay
  <2>3. Max(BarsOf(a, day)) \in 1..Len(a) /\ Min(BarsOf(a, day)) \in 1..Len(a)
    BY <1>0, DayIs
  <2>4. s \in MtfOf(b, day) /\ day \in Days(b)
    BY <2>1, MtfOfStays, DayStays
  <2>5. s.at <= Len(a)
    BY <1>0, <2>2, <2>3
  <2>. QED BY <2>4, <2>5 DEF Mtf
<1>2. ASSUME NEW s \in Mtf(b), s \notin Mtf(a), s.at <= Len(a)
      PROVE  /\ s.name = "MTF 5m" /\ s.at \in BarsOf(b, Last(b).day)
             /\ Cardinality(BarsOf(b, Last(b).day)) = MtfBars
  <2>1. PICK day \in Days(b) : s \in MtfOf(b, day)
    BY DEF Mtf
  <2>. DEFINE A == BarsOf(a, day)
              B == BarsOf(b, day)
  <2>2. s.name = "MTF 5m" /\ s.at \in Min(B) .. Max(B) /\ ~(Max(B) - Min(B) + 1 < MtfBars)
    BY <1>0, <2>1, MtfAtDay
  <2>3. B \subseteq 1..Len(b) /\ Min(B) \in B /\ Max(B) \in B
    BY <1>0, DayIs
  <2>. DEFINE lo == Min(B)
              hi == Max(B)
              last == Max(A)
  <2>13. lo \in 1..Len(b) /\ hi \in 1..Len(b) /\ s.at \in lo..hi /\ ~(hi - lo + 1 < MtfBars)
    BY <2>2, <2>3
  <2>. HIDE DEF lo, hi, last
  <2>4. day \in Days(a)
    <3>1. lo \in 1..Len(a)
      BY <1>0, <1>2, <2>13
    <3>4. Min(B) \in 1..Len(a)
      BY <3>1 DEF lo
    <3>2. b[Min(B)].day = day
      BY <2>3 DEF BarsOf
    <3>. HIDE DEF B
    <3>. QED BY <1>0, <3>2, <3>4 DEF Days, Bars
  <2>5. s \notin MtfOf(a, day)
    BY <1>2, <2>4 DEF Mtf
  <2>6. A \subseteq 1..Len(a) /\ Min(A) = Min(B) /\ Max(A) \in A /\ \A k \in A : k <= Max(A)
    <3>1. A \subseteq 1..Len(a) /\ A # {} /\ Min(A) = Min(B)
      BY <2>4, DayStays
    <3>. HIDE DEF A
    <3>. QED BY <1>0, <3>1, MaxIs
  <2>7. s.at <= last => last - lo + 1 < MtfBars
    <3>1. s.at <= Max(A) => Max(A) - Min(A) + 1 < MtfBars
      BY <2>1, <2>4, <2>5, MtfOfStays
    <3>. HIDE DEF A, B
    <3>. QED BY <2>6, <3>1 DEF last, lo
  <2>8. day = Last(b).day
    <3>1. SUFFICES ASSUME day # Last(b).day PROVE FALSE
      OBVIOUS
    <3>2. B = A
      BY <2>4, <3>1, OnlyToday
    <3>3. last = hi
      BY <3>2 DEF last, hi
    <3>. QED BY <1>0, <2>7, <2>13, <3>3
  <2>9. B = first..Len(b)
    BY <2>8
  <2>10. s.at \in B /\ lo = first /\ hi = Len(b)
    <3>1. lo \in first..Len(b) /\ hi \in first..Len(b)
      BY <2>3, <2>9 DEF lo, hi
    <3>2. lo <= first /\ Len(b) <= hi
      <4>1. B \subseteq Nat /\ B \subseteq 1..Len(b) /\ B # {} /\ first \in B /\ Len(b) \in B
        BY <1>0, <2>3, <2>9
      <4>. HIDE DEF B
      <4>. QED BY <1>0, <4>1, MinIs, MaxIs DEF lo, hi
    <3>3. lo = first /\ hi = Len(b)
      BY <1>0, <3>1, <3>2
    <3>. HIDE DEF B
    <3>. QED BY <2>9, <2>13, <3>3
  <2>11. last = Len(a)
    <3>1. Len(a) \in A
      <4>1. first <= Len(a)
        BY <1>0, <1>2, <2>10, <2>13
      <4>2. Len(a) \in B /\ Len(a) \in 1..Len(a)
        BY <1>0, <2>9, <4>1
      <4>. QED BY <1>0, <4>2 DEF BarsOf, Bars
    <3>2. last \in 1..Len(a) /\ Len(a) <= last
      <4>. HIDE DEF A
      <4>. QED BY <2>6, <3>1 DEF last
    <3>. QED BY <1>0, <3>2
  <2>12. Cardinality(B) = MtfBars
    <3>1. Cardinality(B) = Len(b) - first + 1
      <4>. HIDE DEF B
      <4>. QED BY <1>0, <2>9, FS_Interval
    <3>2. MtfBars \in Nat
      BY IntradayAssumption
    <3>. HIDE DEF A, B
    <3>. QED BY <1>0, <1>2, <2>7, <2>10, <2>11, <2>13, <3>1, <3>2
  <2>. QED BY <2>2, <2>8, <2>10, <2>12
<1>. QED BY <1>1, <1>2

\* The bars of the newest day are the last ones.
LEMMA TodayIs ==
  ASSUME NEW g \in Seq(Placed), DaysRise(g), Len(g) > 0
  PROVE  \E first \in 1..Len(g) : BarsOf(g, Last(g).day) = first..Len(g)
<1>. DEFINE n == Len(g)
            T == BarsOf(g, Last(g).day)
            first == Min(T)
<1>1. n \in Nat /\ Bars(g) = 1..n /\ n \in 1..n /\ Last(g) = g[n]
  BY BarIs DEF Last
<1>2. T \subseteq 1..n /\ n \in T /\ T \subseteq Nat
  BY <1>1 DEF BarsOf
<1>3. \A k \in 1..n : g[k].day \in Nat
  BY <1>1, BarIs, PlacedIs
<1>4. first \in T /\ \A x \in T : first <= x
  <2>. HIDE DEF T
  <2>. QED BY <1>2, MinIs
<1>5. g[first].day = g[n].day
  BY <1>1, <1>4 DEF BarsOf
<1>. HIDE DEF first
<1>6. ASSUME NEW k \in first..n PROVE k \in T
  <2>1. k \in 1..n /\ first \in 1..n /\ first <= k /\ k <= n
    BY <1>1, <1>2, <1>4
  <2>2. g[first].day <= g[k].day /\ g[k].day <= g[n].day
    BY <1>1, <2>1 DEF DaysRise
  <2>3. g[k].day = g[n].day
    BY <1>1, <1>3, <1>5, <2>1, <2>2
  <2>. QED BY <1>1, <2>1, <2>3 DEF BarsOf
<1>7. T = first..n
  <2>1. T \subseteq first..n
    <3>1. first \in 1..n
      BY <1>2, <1>4
    <3>. HIDE DEF T, n
    <3>. QED BY <1>2, <1>4, <3>1
  <2>. QED BY <1>6, <2>1
<1>. QED BY <1>2, <1>4, <1>7

\* Once the frame is longer than the period of the RSI, its signals stay, and those that
\* a bar adds before itself have waited for it.
LEMMA IntradayStays ==
  ASSUME NEW f, NEW g, Follows(f, g), Len(g) = Len(f) + 1, DaysRise(g), Len(f) > RsiPeriod,
         NEW found, found = {s \in Signals(g) : s.at <= Len(f)}
  PROVE  Signals(f) \subseteq found /\ \A s \in found \ Signals(f) : FoundWithLast(g, s)
<1>. DEFINE a == Read(f)
            b == Read(g)
            day == Last(g).day
<1>0. f \in Seq(Placed) /\ g \in Seq(Placed) /\ Len(f) \in Nat /\ Len(g) \in Nat /\ Len(g) > 0
  <2>1. f \in Seq(Placed) /\ g \in Seq(Placed)
    BY DEF Follows
  <2>. QED BY <2>1
<1>1. GoesOn(a, b)
  BY ReadGoesOn
<1>2. /\ Signals(f) = Breakout(a) \cup Btst(a) \cup Indicator(a) \cup OneTradeDay(a) \cup Mtf(a)
      /\ Signals(g) = Breakout(b) \cup Btst(b) \cup Indicator(b) \cup OneTradeDay(b) \cup Mtf(b)
  BY DEF Signals
<1>3. /\ Len(a) = Len(f) /\ Len(b) = Len(g) /\ (\A k \in 1..Len(g) : b[k].day = g[k].day)
      /\ Last(b).day = day /\ BarsOf(b, day) = BarsOf(g, day)
  <2>1. Len(a) = Len(f) /\ Len(b) = Len(g) /\ \A k \in 1..Len(g) : b[k].day = g[k].day
    BY <1>0 DEF Read, Bars
  <2>2. Last(b).day = day
    BY <1>0, <2>1 DEF Last
  <2>. HIDE DEF a, b, day
  <2>3. BarsOf(b, day) = BarsOf(g, day)
    BY <2>1 DEF BarsOf, Bars
  <2>. QED BY <2>1, <2>2, <2>3
<1>4. PICK first \in 1..Len(g) : BarsOf(g, day) = first..Len(g)
  BY <1>0, TodayIs
<1>. HIDE DEF a, b, day
<1>5. /\ Breakout(a) \subseteq {s \in Breakout(b) : s.at <= Len(a)}
      /\ \A s \in Breakout(b) \ Breakout(a) : s.at <= Len(a) =>
           s.name = "Breakout" /\ s.at \in BarsOf(g, day) /\ Cardinality(BarsOf(g, day)) = BreakoutBars
  BY <1>1, <1>3, BreakoutStays
<1>6. /\ Btst(a) \subseteq {s \in Btst(b) : s.at <= Len(a)}
      /\ \A s \in Btst(b) \ Btst(a) : s.at <= Len(a) =>
           s.name = "BTST" /\ s.at = Len(g) - 1 /\ g[s.at].day # day
  BY <1>1, <1>3, BtstStays
<1>7. Indicator(a) = {s \in Indicator(b) : s.at <= Len(a)} /\ OneTradeDay(a) = {s \in OneTradeDay(b) : s.at <= Len(a)}
  BY <1>1, IndicatorStays, OneTradeStays
<1>8. /\ Mtf(a) \subseteq {s \in Mtf(b) : s.at <= Len(a)}
      /\ \A s \in Mtf(b) \ Mtf(a) : s.at <= Len(a) =>
           s.name = "MTF 5m" /\ s.at \in BarsOf(g, day) /\ Cardinality(BarsOf(g, day)) = MtfBars
  <2>1. first \in 1..Len(b) /\ BarsOf(b, Last(b).day) = first..Len(b) /\ Len(b) = Len(a) + 1
    BY <1>3, <1>4
  <2>2. /\ Mtf(a) \subseteq {s \in Mtf(b) : s.at <= Len(a)}
        /\ \A s \in Mtf(b) \ Mtf(a) : s.at <= Len(a) =>
             /\ s.name = "MTF 5m" /\ s.at \in BarsOf(b, Last(b).day)
             /\ Cardinality(BarsOf(b, Last(b).day)) = MtfBars
    BY <1>1, <2>1, MtfStays
  <2>. QED BY <1>3, <2>2
<1>9. Signals(f) \subseteq found
  BY <1>2, <1>3, <1>5, <1>6, <1>7, <1>8
<1>10. ASSUME NEW s \in Signals(g), s.at <= Len(f), s \notin Signals(f) PROVE FoundWithLast(g, s)
  <2>1. \/ s \in Breakout(b) \ Breakout(a) \/ s \in Btst(b) \ Btst(a) \/ s \in Mtf(b) \ Mtf(a)
    BY <1>2, <1>3, <1>7, <1>10
  <2>. QED BY <1>3, <1>5, <1>6, <1>8, <1>10, <2>1 DEF FoundWithLast, day
<1>. QED BY <1>9, <1>10

-----------------------------------------------------------------------------
(* Sums over finite sets, as in the proofs of the workspace *)

\* A sum over a set picks one element after the other; t holds the sums over the
\* subsets of S.
Pick(T) == CHOOSE x \in T : TRUE
Tallies(a, S, t) ==
  t = [T \in SUBSET S |-> IF T = {} THEN 0 ELSE a[Pick(T)] + t[T \ {Pick(T)}]]
Tally(a, S) == CHOOSE t : Tallies(a, S, t)

\* Of the subsets of a finite set with some property, one is smallest.
LEMMA SmallestSubset ==
  ASSUME NEW S, IsFiniteSet(S), NEW Bad, Bad \subseteq SUBSET S, Bad # {}
  PROVE  \E T \in Bad : \A U \in Bad : U \subseteq T => U = T
<1>1. Bad \subseteq FiniteSubsetsOf(S)
  BY FS_FiniteSubsetsOfFinite
<1>2. PICK T \in Bad : \A U \in Bad : ~(<<U, T>> \in StrictSubsetOrdering(S))
  BY <1>1, FS_StrictSubsetOrderingWellFounded, WFMin
<1>. QED BY <1>2 DEF StrictSubsetOrdering

LEMMA PickIn == ASSUME NEW T, T # {} PROVE Pick(T) \in T
BY DEF Pick

\* Tallies of functions that agree on a set agree on its subsets.
LEMMA TalliesAgree ==
  ASSUME NEW S, IsFiniteSet(S), NEW R, S \subseteq R, NEW a, NEW b, \A i \in S : a[i] = b[i],
         NEW t, Tallies(a, S, t), NEW u, Tallies(b, R, u)
  PROVE  \A T \in SUBSET S : t[T] = u[T]
<1>. DEFINE Bad == {T \in SUBSET S : t[T] # u[T]}
<1>. SUFFICES ASSUME Bad # {} PROVE FALSE
  OBVIOUS
<1>1. PICK T \in Bad : \A U \in Bad : U \subseteq T => U = T
  <2>1. Bad \subseteq SUBSET S
    OBVIOUS
  <2>. HIDE DEF Bad
  <2>. QED BY <2>1, SmallestSubset
<1>2. T \in SUBSET S /\ T \in SUBSET R
  OBVIOUS
<1>3. /\ t[T] = IF T = {} THEN 0 ELSE a[Pick(T)] + t[T \ {Pick(T)}]
      /\ u[T] = IF T = {} THEN 0 ELSE b[Pick(T)] + u[T \ {Pick(T)}]
  BY <1>2 DEF Tallies
<1>4. T # {}
  BY <1>3
<1>5. Pick(T) \in T
  BY <1>4, PickIn
<1>6. T \ {Pick(T)} \in SUBSET S /\ T \ {Pick(T)} # T
  BY <1>5
<1>7. t[T \ {Pick(T)}] = u[T \ {Pick(T)}]
  BY <1>1, <1>6
<1>. QED BY <1>2, <1>3, <1>4, <1>5, <1>7

\* Every finite set has its tallies.
LEMMA TalliesExist ==
  ASSUME NEW S, IsFiniteSet(S), NEW a
  PROVE  Tallies(a, S, Tally(a, S))
<1>. DEFINE Bad == {T \in SUBSET S : ~(Tallies(a, T, Tally(a, T)))}
<1>. SUFFICES ASSUME Bad # {} PROVE FALSE
  OBVIOUS
<1>1. PICK T \in Bad : \A U \in Bad : U \subseteq T => U = T
  <2>1. Bad \subseteq SUBSET S
    OBVIOUS
  <2>. HIDE DEF Bad
  <2>. QED BY <2>1, SmallestSubset
<1>2. \A U \in SUBSET T : U # T => Tallies(a, U, Tally(a, U))
  BY <1>1
<1>. DEFINE rest(U) == U \ {Pick(U)}
            t == [U \in SUBSET T |-> IF U = {} THEN 0 ELSE a[Pick(U)] + Tally(a, rest(U))[rest(U)]]
<1>3. ASSUME NEW U \in SUBSET T, U # {}
      PROVE  t[rest(U)] = Tally(a, rest(U))[rest(U)]
  <2>. DEFINE W == rest(U)
  <2>1. W \in SUBSET T /\ W # T /\ IsFiniteSet(W)
    BY <1>3, PickIn, FS_Subset
  <2>2. Tallies(a, W, Tally(a, W))
    BY <1>2, <2>1
  <2>. HIDE DEF W
  <2>3. Tally(a, W)[W] = IF W = {} THEN 0 ELSE a[Pick(W)] + Tally(a, W)[rest(W)]
    BY <2>2 DEF Tallies
  <2>4. W # {} => Tally(a, W)[rest(W)] = Tally(a, rest(W))[rest(W)]
    <3>. SUFFICES ASSUME W # {} PROVE Tally(a, W)[rest(W)] = Tally(a, rest(W))[rest(W)]
      OBVIOUS
    <3>1. rest(W) \subseteq W /\ rest(W) # T /\ IsFiniteSet(rest(W)) /\ rest(W) \in SUBSET T
      BY <2>1, PickIn, FS_Subset
    <3>2. Tallies(a, rest(W), Tally(a, rest(W)))
      BY <1>2, <3>1
    <3>. HIDE DEF rest
    <3>. QED BY <2>2, <3>1, <3>2, TalliesAgree
  <2>5. t[W] = IF W = {} THEN 0 ELSE a[Pick(W)] + Tally(a, rest(W))[rest(W)]
    BY <2>1
  <2>. HIDE DEF t, rest
  <2>6. t[W] = Tally(a, W)[W]
    BY <2>3, <2>4, <2>5
  <2>. QED BY <2>6 DEF W
<1>4. Tallies(a, T, t)
  <2>. DEFINE next == [U \in SUBSET T |-> IF U = {} THEN 0 ELSE a[Pick(U)] + t[rest(U)]]
  <2>1. ASSUME NEW U \in SUBSET T PROVE t[U] = next[U]
    <3>. HIDE DEF rest
    <3>1. t[U] = IF U = {} THEN 0 ELSE a[Pick(U)] + Tally(a, rest(U))[rest(U)]
      OBVIOUS
    <3>. HIDE DEF t
    <3>. QED BY <1>3, <3>1
  <2>2. t = next
    <3>. HIDE DEF rest
    <3>1. t \in [SUBSET T -> {t[U] : U \in SUBSET T}] /\ DOMAIN t = SUBSET T /\ DOMAIN next = SUBSET T
      OBVIOUS
    <3>2. t = [U \in SUBSET T |-> t[U]] /\ next = [U \in SUBSET T |-> next[U]]
      OBVIOUS
    <3>. HIDE DEF t, next
    <3>. QED BY <2>1, <3>2
  <2>. QED BY <2>2 DEF Tallies
<1>5. Tallies(a, T, Tally(a, T))
  <2>. HIDE DEF t
  <2>. QED BY <1>4 DEF Tally
<1>. QED BY <1>1, <1>5

LEMMA SumIs ==
  ASSUME NEW a, NEW S PROVE SumFunctionOnSet(a, S) = Tally(a, S)[S]
BY DEF SumFunctionOnSet, FoldFunctionOnSet, MapThenFoldSet, Tally, Tallies, Pick

LEMMA SumEmpty ==
  ASSUME NEW a PROVE SumFunctionOnSet(a, {}) = 0
<1>1. IsFiniteSet({})
  BY FS_EmptySet
<1>2. Tallies(a, {}, Tally(a, {}))
  BY <1>1, TalliesExist
<1>. QED BY <1>2, SumIs DEF Tallies

LEMMA TallyOfPart ==
  ASSUME NEW S, NEW R, IsFiniteSet(S), R \subseteq S, NEW a
  PROVE  Tally(a, S)[R] = Tally(a, R)[R]
<1>1. IsFiniteSet(R)
  BY FS_Subset
<1>2. Tallies(a, S, Tally(a, S))
  BY TalliesExist
<1>3. Tallies(a, R, Tally(a, R))
  BY <1>1, TalliesExist
<1>4. \A T \in SUBSET R : Tally(a, R)[T] = Tally(a, S)[T]
  BY <1>1, <1>2, <1>3, TalliesAgree
<1>. QED BY <1>4

LEMMA SumPicks ==
  ASSUME NEW S, IsFiniteSet(S), S # {}, NEW a
  PROVE  SumFunctionOnSet(a, S) = a[Pick(S)] + SumFunctionOnSet(a, S \ {Pick(S)})
<1>1. Tallies(a, S, Tally(a, S))
  BY TalliesExist
<1>2. Tally(a, S)[S] = a[Pick(S)] + Tally(a, S)[S \ {Pick(S)}]
  BY <1>1 DEF Tallies
<1>. QED BY <1>2, TallyOfPart, SumIs

LEMMA SumType ==
  ASSUME NEW S, IsFiniteSet(S), NEW a, \A i \in S : a[i] \in Nat
  PROVE  SumFunctionOnSet(a, S) \in Nat
<1>. DEFINE Bad == {T \in SUBSET S : SumFunctionOnSet(a, T) \notin Nat}
<1>. SUFFICES ASSUME Bad # {} PROVE FALSE
  OBVIOUS
<1>1. PICK T \in Bad : \A U \in Bad : U \subseteq T => U = T
  <2>1. Bad \subseteq SUBSET S
    OBVIOUS
  <2>. HIDE DEF Bad
  <2>. QED BY <2>1, SmallestSubset
<1>2. T # {} /\ T \subseteq S /\ IsFiniteSet(T)
  <2>1. T # {}
    BY SumEmpty
  <2>. QED BY <2>1, FS_Subset
<1>3. Pick(T) \in T
  BY <1>2, PickIn
<1>4. SumFunctionOnSet(a, T \ {Pick(T)}) \in Nat
  BY <1>1, <1>2, <1>3
<1>5. a[Pick(T)] \in Nat
  BY <1>2, <1>3
<1>6. SumFunctionOnSet(a, T) = a[Pick(T)] + SumFunctionOnSet(a, T \ {Pick(T)})
  BY <1>2, SumPicks
<1>. QED BY <1>4, <1>5, <1>6

-----------------------------------------------------------------------------
(* Zones and later bars *)

\* A sum of numbers at some places is a number, and so is how many there are.
LEMMA MeanIs ==
  ASSUME NEW S, IsFiniteSet(S), NEW values, DOMAIN values = S, \A k \in S : values[k] \in Nat
  PROVE  Mean(values).sum \in Nat /\ Mean(values).of \in Nat
<1>1. SumFunctionOnSet(values, S) \in Nat
  BY SumType
<1>2. Cardinality(S) \in Nat
  BY FS_CardinalityType
<1>. QED BY <1>1, <1>2 DEF Mean, SumFunction

LEMMA PercentIs ==
  ASSUME NEW part \in Nat, NEW whole \in Nat
  PROVE  Percent(part, whole) \in Nat
<1>1. CASE whole = 0
  BY <1>1 DEF Percent
<1>2. CASE whole # 0
  <2>. DEFINE a == 100 * part
  <2>1. a \in Nat
    OBVIOUS
  <2>. HIDE DEF a
  <2>2. a \div whole \in Nat
    BY <1>2, <2>1, Quotient
  <2>. QED BY <1>2, <2>2 DEF Percent, a
<1>. QED BY <1>1, <1>2

LEMMA LastBarsIs ==
  ASSUME NEW f \in Seq(Placed), NEW k \in Bars(f), NEW n \in Nat \ {0}
  PROVE  LastBars(k, n) \subseteq Bars(f) /\ IsFiniteSet(LastBars(k, n))
<1>1. Higher(1, k - n + 1) \in Int /\ Higher(1, k - n + 1) >= 1 /\ k \in Int /\ k <= Len(f)
  BY DEF Higher, Bars
<1>2. LastBars(k, n) \subseteq Bars(f)
  BY <1>1 DEF LastBars, Bars
<1>3. IsFiniteSet(LastBars(k, n))
  BY <1>1, FS_Interval DEF LastBars
<1>. QED BY <1>2, <1>3

\* The true range of a bar is a number, and stays.
LEMMA TrueRangeIs ==
  ASSUME NEW f \in Seq(Placed), NEW k \in Bars(f)
  PROVE  TrueRange(f, k) \in Nat
<1>1. f[k] \in Placed /\ (k # 1 => f[k - 1] \in Placed)
  BY DEF Bars
<1>2. Span(f[k]) \in Nat
  BY <1>1, PlacedIs DEF Span
<1>3. CASE k = 1
  BY <1>2, <1>3 DEF TrueRange
<1>4. CASE k # 1
  <2>. DEFINE a == Span(f[k])
              b == Gap(f[k].high, f[k - 1].close)
              c == Gap(f[k].low, f[k - 1].close)
  <2>1. a \in Nat /\ b \in Nat /\ c \in Nat
    <3>1. f[k].high \in Nat /\ f[k].low \in Nat
      BY <1>1, PlacedIs
    <3>2. f[k - 1].close \in Nat
      BY <1>1, <1>4, PlacedIs
    <3>3. \A x, y \in Nat : Gap(x, y) \in Nat
      BY DEF Gap, Higher, Lower
    <3>. QED BY <1>2, <3>1, <3>2, <3>3
  <2>. HIDE DEF a, b, c
  <2>2. \E x \in {a, b, c} : \A y \in {a, b, c} : x >= y
    BY <2>1
  <2>3. Max({a, b, c}) \in {a, b, c}
    BY <2>2 DEF Max
  <2>. QED BY <1>4, <2>1, <2>3 DEF TrueRange, a, b, c
<1>. QED BY <1>3, <1>4

LEMMA TrueRangeStays ==
  ASSUME NEW f, NEW g, Follows(f, g), NEW k \in Bars(f)
  PROVE  TrueRange(g, k) = TrueRange(f, k)
<1>1. g[k] = f[k] /\ (k # 1 => g[k - 1] = f[k - 1])
  BY DEF Follows, Bars
<1>2. CASE k = 1
  BY <1>1, <1>2 DEF TrueRange
<1>3. CASE k # 1
  BY <1>1, <1>3 DEF TrueRange
<1>. QED BY <1>2, <1>3

LEMMA AtrStays ==
  ASSUME NEW f, NEW g, Follows(f, g), NEW k \in Bars(f)
  PROVE  Atr(g, k) = Atr(f, k) /\ Atr(f, k).sum \in Nat /\ Atr(f, k).of \in Nat
<1>. DEFINE S == LastBars(k, AtrBars)
            values == [j \in S |-> TrueRange(f, j)]
            after == [j \in S |-> TrueRange(g, j)]
<1>1. S \subseteq Bars(f) /\ IsFiniteSet(S) /\ f \in Seq(Placed)
  BY LastBarsIs, ZonesAssumption DEF Follows
<1>. HIDE DEF S
<1>2. after = values
  BY <1>1, TrueRangeStays
<1>3. DOMAIN values = S /\ \A j \in S : values[j] \in Nat
  BY <1>1, TrueRangeIs
<1>4. Atr(f, k) = Mean(values) /\ Atr(g, k) = Mean(after)
  BY DEF Atr, S
<1>. HIDE DEF values, after
<1>5. Mean(values).sum \in Nat /\ Mean(values).of \in Nat
  BY <1>1, <1>3, MeanIs
<1>. QED BY <1>2, <1>4, <1>5

LEMMA VolumeStays ==
  ASSUME NEW f, NEW g, Follows(f, g), NEW k \in Bars(f)
  PROVE  VolumeRatio(g, k) = VolumeRatio(f, k) /\ VolumeRatio(f, k) \in Nat
<1>. DEFINE S == LastBars(k, MeanBars)
            values == [j \in S |-> f[j].volume]
            after == [j \in S |-> g[j].volume]
<1>1. S \subseteq Bars(f) /\ IsFiniteSet(S) /\ f \in Seq(Placed) /\ g[k] = f[k]
  BY LastBarsIs, ZonesAssumption DEF Follows
<1>. HIDE DEF S
<1>2. after = values
  BY <1>1 DEF Follows
<1>3. DOMAIN values = S /\ \A j \in S : values[j] \in Nat
  BY <1>1, BarIs, PlacedIs
<1>4. /\ VolumeRatio(f, k) = IF Mean(values).sum = 0 THEN 100 ELSE Percent(f[k].volume * Mean(values).of, Mean(values).sum)
      /\ VolumeRatio(g, k) = IF Mean(after).sum = 0 THEN 100 ELSE Percent(g[k].volume * Mean(after).of, Mean(after).sum)
  BY DEF VolumeRatio, S
<1>. HIDE DEF values, after
<1>5. Mean(values).sum \in Nat /\ Mean(values).of \in Nat
  BY <1>1, <1>3, MeanIs
<1>6. f[k].volume * Mean(values).of \in Nat
  BY <1>1, <1>5, BarIs, PlacedIs
<1>7. Percent(f[k].volume * Mean(values).of, Mean(values).sum) \in Nat
  BY <1>5, <1>6, PercentIs
<1>. QED BY <1>1, <1>2, <1>4, <1>7

\* The range of a base that stays, and what it is worth.
LEMMA BaseStays ==
  ASSUME NEW f, NEW g, Follows(f, g), NEW S, S \subseteq Bars(f), S # {}
  PROVE  /\ Highest(g, S) = Highest(f, S) /\ Lowest(g, S) = Lowest(f, S)
         /\ BasePct(g, S) = BasePct(f, S) /\ BasePct(f, S) \in Nat
         /\ Highest(f, S) - Lowest(f, S) \in Nat
<1>. DEFINE tops == [k \in S |-> f[k].high]
            bottoms == [k \in S |-> f[k].low]
            Tops == {tops[k] : k \in S}
            Bottoms == {bottoms[k] : k \in S}
            n == Len(f)
<1>0. f \in Seq(Placed) /\ \A k \in S : g[k] = f[k]
  BY DEF Follows
<1>1. n \in Nat /\ S \subseteq 1..n
  BY <1>0, BarIs
<1>2. \A k \in S : tops[k] \in Nat /\ bottoms[k] \in Nat /\ bottoms[k] <= tops[k]
  BY <1>0, BarIs, PlacedIs
<1>3. /\ Tops = {f[k].high : k \in S} /\ Bottoms = {f[k].low : k \in S}
      /\ Tops = {g[k].high : k \in S} /\ Bottoms = {g[k].low : k \in S}
  BY <1>0
<1>4. Tops = {tops[k] : k \in S} /\ Bottoms = {bottoms[k] : k \in S}
  OBVIOUS
<1>. HIDE DEF tops, bottoms, n, Tops, Bottoms
<1>5. \A k \in S : tops[k] \in Int /\ bottoms[k] \in Int
  BY <1>2
<1>6. Max(Tops) \in Tops /\ \A k \in S : tops[k] <= Max(Tops)
  BY <1>1, <1>4, <1>5, MaxAmong, Zenon
<1>7. Min(Bottoms) \in Bottoms /\ \A k \in S : Min(Bottoms) <= bottoms[k]
  BY <1>1, <1>4, <1>5, MinAmong, Zenon
<1>8. Max(Tops) \in Nat /\ Min(Bottoms) \in Nat /\ Min(Bottoms) <= Max(Tops)
  <2>1. Max(Tops) \in Nat /\ Min(Bottoms) \in Nat
    BY <1>2, <1>4, <1>6, <1>7
  <2>. QED BY <1>2, <1>6, <1>7, <2>1
<1>9. /\ Highest(f, S) = Max(Tops) /\ Lowest(f, S) = Min(Bottoms)
      /\ Highest(g, S) = Max(Tops) /\ Lowest(g, S) = Min(Bottoms)
  BY <1>3 DEF Highest, Lowest
<1>10. 2 * (Max(Tops) - Min(Bottoms)) \in Nat /\ Max(Tops) + Min(Bottoms) \in Nat
  BY <1>8
<1>11. Percent(2 * (Max(Tops) - Min(Bottoms)), Max(Tops) + Min(Bottoms)) \in Nat
  BY <1>10, PercentIs
<1>12. Max(Tops) - Min(Bottoms) \in Nat
  BY <1>8
<1>. QED BY <1>9, <1>11, <1>12 DEF BasePct

\* A base, its legs and its departure; the frame goes on after it.
IsBase(f, s, n) == s \in Nat /\ s >= 2 /\ n \in Nat \ {0} /\ s + n < Len(f)

LEMMA BaseIs ==
  ASSUME NEW f \in Seq(Placed), NEW s, NEW n, IsBase(f, s, n)
  PROVE  /\ s .. s + n - 1 \subseteq Bars(f) /\ s .. s + n - 1 # {}
         /\ s - 1 \in Bars(f) /\ Higher(s - 2, 1) \in Bars(f) /\ s + n \in Bars(f) /\ s + n - 1 \in Bars(f)
         /\ s \in Bars(f)
<1>1. Len(f) \in Nat /\ Bars(f) = 1..Len(f) /\ s \in Nat /\ s >= 2 /\ n \in Nat \ {0} /\ s + n < Len(f)
  BY BarIs DEF IsBase
<1>2. s \in s .. s + n - 1
  BY <1>1
<1>3. Higher(s - 2, 1) \in 1..s
  BY <1>1 DEF Higher
<1>4. s .. s + n - 1 \subseteq 1..Len(f)
  BY <1>1
<1>5. /\ s - 1 \in 1..Len(f) /\ s + n \in 1..Len(f) /\ s + n - 1 \in 1..Len(f) /\ s \in 1..Len(f)
      /\ 1..s \subseteq 1..Len(f)
  BY <1>1
<1>. QED BY <1>1, <1>2, <1>3, <1>4, <1>5

LEMMA LegsStay ==
  ASSUME NEW f, NEW g, Follows(f, g), NEW s, NEW n, IsBase(f, s, n)
  PROVE  LegIn(g, s) = LegIn(f, s) /\ LegOut(g, s, n) = LegOut(f, s, n) /\ LegOut(f, s, n) \in Int
<1>1. f \in Seq(Placed) /\ \A k \in Bars(f) : g[k] = f[k]
  BY DEF Follows
<1>2. s - 1 \in Bars(f) /\ Higher(s - 2, 1) \in Bars(f) /\ s + n \in Bars(f) /\ s + n - 1 \in Bars(f)
  BY <1>1, BaseIs
<1>3. f[s + n].close \in Nat /\ f[s + n - 1].close \in Nat
  BY <1>1, <1>2, BarIs, PlacedIs
<1>. QED BY <1>1, <1>2, <1>3 DEF LegIn, LegOut

LEMMA DepartureStays ==
  ASSUME NEW f, NEW g, Follows(f, g), NEW s, NEW n, IsBase(f, s, n)
  PROVE  /\ Departure(g, s, n) = Departure(f, s, n)
         /\ Departure(f, s, n).ratio \in Nat /\ Departure(f, s, n).impulse \in Nat
<1>. DEFINE base == s .. s + n - 1
            height == Highest(f, base) - Lowest(f, base)
            move == Gap(LegOut(f, s, n), 0)
            atr == Atr(f, s + n)
            ratio == IF height = 0 THEN 100 * MinDeparture ELSE Percent(move, height)
            impulse == IF atr.sum = 0 THEN 100 * MinImpulse ELSE Percent(move * atr.of, atr.sum)
<1>0. f \in Seq(Placed)
  BY DEF Follows
<1>1. base \subseteq Bars(f) /\ base # {} /\ s + n \in Bars(f)
  BY <1>0, BaseIs
<1>2. Highest(g, base) = Highest(f, base) /\ Lowest(g, base) = Lowest(f, base) /\ height \in Nat
  <2>. HIDE DEF base
  <2>. QED BY <1>1, BaseStays
<1>3. Atr(g, s + n) = atr /\ atr.sum \in Nat /\ atr.of \in Nat
  BY <1>1, AtrStays
<1>4. LegOut(g, s, n) = LegOut(f, s, n) /\ LegOut(f, s, n) \in Int
  BY LegsStay
<1>5. move \in Nat
  BY <1>4 DEF Gap, Higher, Lower
<1>6. Departure(f, s, n) = [ratio |-> ratio, impulse |-> impulse]
  BY DEF Departure
<1>7. Departure(g, s, n) = [ratio |-> ratio, impulse |-> impulse]
  <2>. DEFINE high == Highest(g, base)
              low == Lowest(g, base)
              leg == LegOut(g, s, n)
              range == Atr(g, s + n)
  <2>1. Departure(g, s, n) =
          [ratio |-> IF high - low = 0 THEN 100 * MinDeparture ELSE Percent(Gap(leg, 0), high - low),
           impulse |-> IF range.sum = 0 THEN 100 * MinImpulse ELSE Percent(Gap(leg, 0) * range.of, range.sum)]
    BY DEF Departure
  <2>2. high = Highest(f, base) /\ low = Lowest(f, base) /\ leg = LegOut(f, s, n) /\ range = Atr(f, s + n)
    BY <1>2, <1>3, <1>4
  <2>. HIDE DEF high, low, leg, range, base
  <2>. QED BY <2>1, <2>2
<1>. HIDE DEF base, height, move, atr
<1>8. MinDeparture \in Nat \ {0} /\ MinImpulse \in Nat \ {0}
  BY ZonesAssumption
<1>9. Percent(move, height) \in Nat
  BY <1>2, <1>5, PercentIs
<1>10. move * atr.of \in Nat
  BY <1>3, <1>5
<1>11. Percent(move * atr.of, atr.sum) \in Nat
  BY <1>3, <1>10, PercentIs
<1>12. ratio \in Nat /\ impulse \in Nat
  BY <1>8, <1>9, <1>11
<1>. HIDE DEF ratio, impulse
<1>. QED BY <1>6, <1>7, <1>12

LEMMA IsStructureStays ==
  ASSUME NEW f, NEW g, Follows(f, g), NEW s, NEW n, IsBase(f, s, n)
  PROVE  IsStructure(g, s, n) = IsStructure(f, s, n)
<1>. DEFINE base == s .. s + n - 1
            rest == s + 1 .. s + n - 1
            Small(h) == BasePct(h, base) <= MaxBasePct
            shares(h) == [k \in rest |-> Overlap(h[k - 1], h[k])]
            Aloof(h) == SumFunction(shares(h)) <= MaxOverlap * Higher(n - 1, 1)
            Narrow(h) == \A k \in base : 100 * Body(h[k]) <= 55 * Span(h[k])
            Legged(h) == LegIn(h, s) # 0 /\ LegOut(h, s, n) # 0
            Strong(h) == Departure(h, s, n).ratio >= MinDeparture /\ Departure(h, s, n).impulse >= MinImpulse
<1>1. f \in Seq(Placed) /\ \A k \in Bars(f) : g[k] = f[k]
  BY DEF Follows
<1>2. base \subseteq Bars(f) /\ base # {}
  BY <1>1, BaseIs
<1>3. \A k \in rest : k \in base /\ k - 1 \in base
  BY DEF IsBase
<1>4. BasePct(g, base) = BasePct(f, base)
  <2>. HIDE DEF base
  <2>. QED BY <1>2, BaseStays
<1>5. Small(g) = Small(f)
  BY <1>4
<1>6. shares(g) = shares(f)
  <2>. HIDE DEF base, rest
  <2>. QED BY <1>1, <1>2, <1>3
<1>7. Aloof(g) = Aloof(f)
  <2>. HIDE DEF shares
  <2>. QED BY <1>6
<1>8. Narrow(g) = Narrow(f)
  <2>. HIDE DEF base
  <2>. QED BY <1>1, <1>2
<1>9. Legged(g) = Legged(f)
  BY LegsStay
<1>10. Strong(g) = Strong(f)
  BY DepartureStays
<1>11. IsStructure(f, s, n) = (Small(f) /\ Aloof(f) /\ Narrow(f) /\ Legged(f) /\ Strong(f))
  BY DEF IsStructure
<1>12. IsStructure(g, s, n) = (Small(g) /\ Aloof(g) /\ Narrow(g) /\ Legged(g) /\ Strong(g))
  BY DEF IsStructure
<1>. HIDE DEF Small, Aloof, Narrow, Legged, Strong
<1>. QED BY <1>5, <1>7, <1>8, <1>9, <1>10, <1>11, <1>12

\* A structure is a base, and stays one.
LEMMA StructureStays ==
  ASSUME NEW f, NEW g, Follows(f, g), NEW at \in Structures(f)
  PROVE  at \in Structures(g) /\ IsBase(f, at[1], at[2])
<1>1. f \in Seq(Placed) /\ g \in Seq(Placed) /\ Len(f) <= Len(g)
  BY DEF Follows
<1>2. Len(f) \in Nat /\ Len(g) \in Nat
  BY <1>1, BarIs
<1>3. at \in (2 .. Len(f)) \X (MinBase .. MaxBase) /\ at[1] + at[2] < Len(f) /\ IsStructure(f, at[1], at[2])
  BY DEF Structures
<1>4. at[1] \in 2 .. Len(f) /\ at[2] \in MinBase .. MaxBase /\ at = <<at[1], at[2]>>
  BY <1>3
<1>5. MinBase \in Nat \ {0} /\ MaxBase \in Nat
  BY ZonesAssumption
<1>6. IsBase(f, at[1], at[2])
  BY <1>2, <1>3, <1>4, <1>5 DEF IsBase
<1>7. at[1] \in 2 .. Len(g) /\ at[1] + at[2] < Len(g)
  BY <1>1, <1>2, <1>3, <1>4, <1>5
<1>8. IsStructure(g, at[1], at[2])
  BY <1>3, <1>6, IsStructureStays
<1>9. at \in (2 .. Len(g)) \X (MinBase .. MaxBase)
  BY <1>4, <1>7
<1>. QED BY <1>6, <1>7, <1>8, <1>9 DEF Structures

LEMMA ZoneStays ==
  ASSUME NEW f, NEW g, Follows(f, g), NEW at \in Structures(f)
  PROVE  Zone(g, at) = Zone(f, at)
<1>. DEFINE s == at[1]
            n == at[2]
            base == s .. s + n - 1
            Starts(h) == {h[k].open : k \in base}
            Closes(h) == {h[k].close : k \in base}
            Whole(h) == [low |-> Lowest(h, base), high |-> Highest(h, base)]
            Shape(h) == IF LegOut(h, s, n) > 0
                        THEN [Whole(h) EXCEPT !.high = Min({Max(Starts(h)), Max(Closes(h))})]
                        ELSE [Whole(h) EXCEPT !.low = Max({Min(Starts(h)), Min(Closes(h))})]
<1>1. f \in Seq(Placed) /\ \A k \in Bars(f) : g[k] = f[k]
  BY DEF Follows
<1>2. IsBase(f, s, n)
  BY StructureStays
<1>3. base \subseteq Bars(f) /\ base # {}
  BY <1>1, <1>2, BaseIs
<1>4. LegIn(g, s) = LegIn(f, s) /\ LegOut(g, s, n) = LegOut(f, s, n)
  BY <1>2, LegsStay
<1>5. Starts(g) = Starts(f) /\ Closes(g) = Closes(f) /\ Whole(g) = Whole(f)
  <2>. HIDE DEF base
  <2>1. Highest(g, base) = Highest(f, base) /\ Lowest(g, base) = Lowest(f, base)
    BY <1>3, BaseStays
  <2>. QED BY <1>1, <1>3, <2>1
<1>6. Bounds(f, at) = (IF Shape(f).high <= Shape(f).low THEN Whole(f) ELSE Shape(f))
  BY DEF Bounds
<1>7. Bounds(g, at) = (IF Shape(g).high <= Shape(g).low THEN Whole(g) ELSE Shape(g))
  BY DEF Bounds
<1>8. Shape(g) = Shape(f)
  <2>. HIDE DEF Starts, Closes, Whole, s, n
  <2>. QED BY <1>4, <1>5
<1>9. Bounds(g, at) = Bounds(f, at)
  <2>. HIDE DEF Shape, Whole
  <2>. QED BY <1>5, <1>6, <1>7, <1>8
<1>. QED BY <1>4, <1>9 DEF Zone, ZoneId

LEMMA ZoneBase ==
  ASSUME NEW f \in Seq(Placed), NEW at \in Structures(f), NEW zone, zone = Zone(f, at)
  PROVE  /\ zone.start \in Nat /\ zone.end \in Nat /\ IsBase(f, zone.start, zone.end + 1 - zone.start)
         /\ zone.start .. zone.end \subseteq Bars(f) /\ zone.start .. zone.end # {}
         /\ zone.end \in Bars(f) /\ zone.end + 1 \in Bars(f)
<1>1. Follows(f, f)
  <2>1. Len(f) \in Nat
    BY BarIs
  <2>. QED BY <2>1 DEF Follows
<1>2. IsBase(f, at[1], at[2])
  BY <1>1, StructureStays
<1>3. zone.start = at[1] /\ zone.end = at[1] + at[2] - 1
  BY DEF Zone
<1>4. at[1] \in Nat /\ at[2] \in Nat \ {0}
  BY <1>2 DEF IsBase
<1>5. zone.start \in Nat /\ zone.end \in Nat /\ zone.end + 1 - zone.start = at[2] /\ zone.end + 1 = at[1] + at[2]
  BY <1>3, <1>4, SMTT(30)
<1>6. /\ at[1] .. at[1] + at[2] - 1 \subseteq Bars(f) /\ at[1] .. at[1] + at[2] - 1 # {}
      /\ at[1] + at[2] \in Bars(f) /\ at[1] + at[2] - 1 \in Bars(f)
  BY <1>2, BaseIs
<1>. QED BY <1>2, <1>3, <1>5, <1>6

\* The bars that came back to a zone stay, and so does what is broken.
LEMMA TestsStay ==
  ASSUME NEW f, NEW g, Follows(f, g), NEW zone, zone.end \in Nat
  PROVE  /\ Tests(f, zone) \subseteq 1..Len(f) /\ Tests(g, zone) \subseteq Nat
         /\ Tests(f, zone) \subseteq Tests(g, zone)
         /\ \A x \in Tests(g, zone) \ Tests(f, zone) : x > Len(f)
         /\ Cardinality(Tests(f, zone)) \in Nat /\ Cardinality(Tests(g, zone)) \in Nat
         /\ Cardinality(Tests(f, zone)) <= Cardinality(Tests(g, zone))
         /\ Violated(f, zone) => Violated(g, zone)
<1>1. f \in Seq(Placed) /\ g \in Seq(Placed) /\ Len(f) <= Len(g) /\ \A k \in Bars(f) : g[k] = f[k]
  BY DEF Follows
<1>2. Len(f) \in Nat /\ Len(g) \in Nat /\ Bars(f) = 1..Len(f)
  BY <1>1, BarIs
<1>3. After(f, zone) \subseteq After(g, zone) /\ After(f, zone) \subseteq Bars(f) /\ After(g, zone) \subseteq 1..Len(g)
  BY <1>1, <1>2 DEF After
<1>4. \A x \in After(g, zone) : x \in Nat /\ (x \notin After(f, zone) => x > Len(f))
  BY <1>1, <1>2 DEF After
<1>5. Tests(f, zone) \subseteq Tests(g, zone)
  BY <1>1, <1>3 DEF Tests
<1>6. ASSUME NEW x \in Tests(g, zone), x \notin Tests(f, zone) PROVE x > Len(f)
  <2>1. x \in After(g, zone) /\ Touches(g[x], zone)
    BY DEF Tests
  <2>2. x \in After(f, zone) => g[x] = f[x]
    BY <1>1, <1>3
  <2>3. x \notin After(f, zone)
    BY <1>6, <2>1, <2>2 DEF Tests
  <2>. QED BY <1>4, <2>1, <2>3
<1>7. Tests(f, zone) \subseteq 1..Len(f) /\ Tests(g, zone) \subseteq 1..Len(g)
  BY <1>2, <1>3 DEF Tests
<1>8. IsFiniteSet(Tests(g, zone))
  <2>1. IsFiniteSet(1..Len(g))
    BY <1>2, FS_Interval
  <2>. QED BY <1>7, <2>1, FS_Subset
<1>9. /\ Cardinality(Tests(f, zone)) \in Nat /\ Cardinality(Tests(g, zone)) \in Nat
      /\ Cardinality(Tests(f, zone)) <= Cardinality(Tests(g, zone))
  BY <1>5, <1>8, FS_Subset, FS_CardinalityType
<1>10. Violated(f, zone) => Violated(g, zone)
  BY <1>1, <1>3 DEF Violated
<1>. QED BY <1>5, <1>6, <1>7, <1>9, <1>10

\* Numbers that stay.
LEMMA MeasuresStay ==
  ASSUME NEW f, NEW g, Follows(f, g), NEW at \in Structures(f), NEW zone, zone = Zone(f, at)
  PROVE  /\ MoveAway(g, zone) = MoveAway(f, zone) /\ MoveAway(f, zone) \in Nat
         /\ Tightness(g, zone) = Tightness(f, zone) /\ Tightness(f, zone) \in Nat
         /\ VolumeScore(g, zone) = VolumeScore(f, zone) /\ VolumeScore(f, zone) \in Nat
<1>. DEFINE s == zone.start
            n == zone.end + 1 - zone.start
            base == zone.start .. zone.end
            k == zone.end + 1
<1>1. /\ IsBase(f, s, n) /\ base \subseteq Bars(f) /\ base # {} /\ k \in Bars(f)
  BY ZoneBase DEF Follows
<1>2. {MinDeparture, MinVolume} \subseteq Nat \ {0} /\ MaxBasePct \in Nat
  BY ZonesAssumption
<1>3. \A a, b \in Nat : Lower(a, b) \in Nat
  BY DEF Lower
<1>4. MoveAway(g, zone) = MoveAway(f, zone) /\ MoveAway(f, zone) \in Nat
  <2>. DEFINE ratio == Departure(f, s, n).ratio
  <2>1. Departure(g, s, n) = Departure(f, s, n) /\ ratio \in Nat
    BY <1>1, DepartureStays
  <2>2. MoveAway(f, zone) = Lower(100, (40 * ratio) \div MinDeparture)
    BY DEF MoveAway
  <2>3. MoveAway(g, zone) = Lower(100, (40 * ratio) \div MinDeparture)
    BY <2>1 DEF MoveAway
  <2>. HIDE DEF ratio
  <2>4. 40 * ratio \in Nat
    BY <2>1
  <2>5. (40 * ratio) \div MinDeparture \in Nat
    BY <1>2, <2>4, Quotient
  <2>. QED BY <1>3, <2>2, <2>3, <2>5
<1>5. Tightness(g, zone) = Tightness(f, zone) /\ Tightness(f, zone) \in Nat
  <2>. DEFINE pct == BasePct(f, base)
  <2>1. BasePct(g, base) = pct /\ pct \in Nat
    <3>. HIDE DEF base
    <3>. QED BY <1>1, BaseStays
  <2>2. Tightness(f, zone) = Higher(0, 100 - Percent(pct, MaxBasePct))
    BY DEF Tightness
  <2>3. Tightness(g, zone) = Higher(0, 100 - Percent(pct, MaxBasePct))
    BY <2>1 DEF Tightness
  <2>. HIDE DEF pct
  <2>4. Percent(pct, MaxBasePct) \in Nat
    BY <1>2, <2>1, PercentIs
  <2>. QED BY <2>2, <2>3, <2>4 DEF Higher
<1>6. VolumeScore(g, zone) = VolumeScore(f, zone) /\ VolumeScore(f, zone) \in Nat
  <2>. DEFINE ratio == VolumeRatio(f, k)
  <2>1. VolumeRatio(g, k) = ratio /\ ratio \in Nat
    <3>. HIDE DEF k
    <3>. QED BY <1>1, VolumeStays
  <2>2. VolumeScore(f, zone) = Lower(100, (70 * ratio) \div MinVolume)
    BY DEF VolumeScore
  <2>3. VolumeScore(g, zone) = Lower(100, (70 * ratio) \div MinVolume)
    BY <2>1 DEF VolumeScore
  <2>. HIDE DEF ratio
  <2>4. 70 * ratio \in Nat
    BY <2>1
  <2>5. (70 * ratio) \div MinVolume \in Nat
    BY <1>2, <2>4, Quotient
  <2>. QED BY <1>3, <2>2, <2>3, <2>5
<1>. QED BY <1>4, <1>5, <1>6

\* Scores only fall.
Falls(a, b) == a \in Nat /\ b \in Nat /\ b <= a

LEMMA ClarityFalls ==
  ASSUME NEW f, NEW g, Follows(f, g), NEW at \in Structures(f), NEW zone, zone = Zone(f, at)
  PROVE  Falls(Clarity(f, zone), Clarity(g, zone))
<1>. DEFINE s == zone.start
            n == zone.end + 1 - zone.start
            impulse == Departure(f, s, n).impulse
            c == Cardinality(Tests(f, zone))
            d == Cardinality(Tests(g, zone))
            left(e) == 45 * (2 - Lower(2, e))
            base == (55 * impulse) \div MinImpulse
<1>1. IsBase(f, s, n) /\ zone.end \in Nat
  BY ZoneBase DEF Follows
<1>2. Departure(g, s, n) = Departure(f, s, n) /\ impulse \in Nat
  BY <1>1, DepartureStays
<1>3. c \in Nat /\ d \in Nat /\ c <= d
  BY <1>1, TestsStay
<1>4. Clarity(f, zone) = Lower(100, base + left(c) \div 2) /\ Clarity(g, zone) = Lower(100, base + left(d) \div 2)
  BY <1>2 DEF Clarity
<1>. HIDE DEF impulse, c, d
<1>5. base \in Nat
  <2>1. 55 * impulse \in Nat /\ MinImpulse \in Nat \ {0}
    BY <1>2, ZonesAssumption
  <2>. QED BY <2>1, Quotient
<1>6. left(c) \in Nat /\ left(d) \in Nat /\ left(d) <= left(c)
  BY <1>3 DEF Lower
<1>. HIDE DEF base, left
<1>7. left(c) \div 2 \in Nat /\ left(d) \div 2 \in Nat /\ left(d) \div 2 <= left(c) \div 2
  BY <1>6, Quotient, QuotientGrows
<1>. DEFINE y == left(d) \div 2
            z == left(c) \div 2
<1>8. y \in Nat /\ z \in Nat /\ y <= z /\ Clarity(f, zone) = Lower(100, base + z) /\ Clarity(g, zone) = Lower(100, base + y)
  BY <1>4, <1>7
<1>. HIDE DEF y, z
<1>9. base + y \in Nat /\ base + z \in Nat /\ base + y <= base + z
  BY <1>5, <1>8
<1>. QED BY <1>8, <1>9 DEF Falls, Lower

LEMMA FreshnessFalls ==
  ASSUME NEW f, NEW g, Follows(f, g), NEW at \in Structures(f), NEW zone, zone = Zone(f, at)
  PROVE  Falls(Freshness(f, zone), Freshness(g, zone))
<1>. DEFINE c == Cardinality(Tests(f, zone))
            d == Cardinality(Tests(g, zone))
            a == IF Violated(f, zone) THEN 30 ELSE 0
            b == IF Violated(g, zone) THEN 30 ELSE 0
<1>1. zone.end \in Nat
  BY ZoneBase DEF Follows
<1>2. c \in Nat /\ d \in Nat /\ c <= d /\ (Violated(f, zone) => Violated(g, zone))
  BY <1>1, TestsStay
<1>3. a \in Nat /\ b \in Nat /\ a <= b
  BY <1>2
<1>4. Freshness(f, zone) = Higher(0, 100 - 35 * c - a) /\ Freshness(g, zone) = Higher(0, 100 - 35 * d - b)
  BY DEF Freshness
<1>. HIDE DEF a, b, c, d
<1>. QED BY <1>2, <1>3, <1>4 DEF Falls, Higher

LEMMA QuotientFalls ==
  ASSUME NEW a, NEW b, Falls(a, b), NEW n \in Nat \ {0}
  PROVE  Falls(a \div n, b \div n)
<1>1. a \in Nat /\ b \in Nat /\ b <= a
  BY DEF Falls
<1>2. a \div n \in Nat /\ b \div n \in Nat
  BY <1>1, Quotient
<1>3. b \div n <= a \div n
  BY <1>1, QuotientGrows
<1>. QED BY <1>2, <1>3 DEF Falls

LEMMA CleanlinessFalls ==
  ASSUME NEW f, NEW g, Follows(f, g), NEW at \in Structures(f), NEW zone, zone = Zone(f, at)
  PROVE  Falls(Cleanliness(f, zone), Cleanliness(g, zone))
<1>. DEFINE tight == Tightness(f, zone)
            a == Clarity(f, zone)
            b == Clarity(g, zone)
<1>1. Falls(a, b) /\ Tightness(g, zone) = tight /\ tight \in Nat
  BY ClarityFalls, MeasuresStay
<1>2. Cleanliness(f, zone) = (55 * tight + 45 * a) \div 100 /\ Cleanliness(g, zone) = (55 * tight + 45 * b) \div 100
  BY <1>1 DEF Cleanliness
<1>. HIDE DEF tight, a, b
<1>3. Falls(55 * tight + 45 * a, 55 * tight + 45 * b)
  BY <1>1 DEF Falls
<1>4. 100 \in Nat \ {0}
  OBVIOUS
<1>. QED BY <1>2, <1>3, <1>4, QuotientFalls

LEMMA StrengthFalls ==
  ASSUME NEW f, NEW g, Follows(f, g), NEW at \in Structures(f), NEW zone, zone = Zone(f, at)
  PROVE  Falls(Strength(f, zone), Strength(g, zone))
<1>. DEFINE m == MoveAway(f, zone)
            v == VolumeScore(f, zone)
            a == Clarity(f, zone)
            b == Clarity(g, zone)
<1>1. Falls(a, b)
  BY ClarityFalls
<1>2. MoveAway(g, zone) = m /\ m \in Nat /\ VolumeScore(g, zone) = v /\ v \in Nat
  BY MeasuresStay
<1>3. /\ Strength(f, zone) = (45 * m + 35 * a + 20 * v) \div 100
      /\ Strength(g, zone) = (45 * m + 35 * b + 20 * v) \div 100
  BY <1>2 DEF Strength
<1>. HIDE DEF m, v, a, b
<1>4. Falls(45 * m + 35 * a + 20 * v, 45 * m + 35 * b + 20 * v)
  BY <1>1, <1>2 DEF Falls
<1>5. 100 \in Nat \ {0}
  OBVIOUS
<1>. QED BY <1>3, <1>4, <1>5, QuotientFalls

LEMMA TotalFalls ==
  ASSUME NEW f, NEW g, Follows(f, g), NEW at \in Structures(f), NEW zone, zone = Zone(f, at)
  PROVE  Falls(TotalScore(f, zone), TotalScore(g, zone))
<1>. DEFINE v == VolumeScore(f, zone)
            ema == IF zone.side \in f[zone.end].ema THEN 100 ELSE 35
            fair == IF zone.side \in f[zone.end].fair THEN 100 ELSE 40
            s == Strength(f, zone)
            t == Strength(g, zone)
            p == Freshness(f, zone)
            q == Freshness(g, zone)
            x == Cleanliness(f, zone)
            y == Cleanliness(g, zone)
<1>1. Falls(s, t) /\ Falls(p, q) /\ Falls(x, y)
  BY StrengthFalls, FreshnessFalls, CleanlinessFalls
<1>2. VolumeScore(g, zone) = v /\ v \in Nat
  BY MeasuresStay
<1>3. g[zone.end] = f[zone.end]
  BY ZoneBase DEF Follows
<1>4. TotalScore(f, zone) = (30 * s + 25 * p + 20 * x + 10 * v + 10 * ema + 5 * fair) \div 100
  BY DEF TotalScore
<1>5. TotalScore(g, zone) = (30 * t + 25 * q + 20 * y + 10 * v + 10 * ema + 5 * fair) \div 100
  BY <1>2, <1>3 DEF TotalScore
<1>6. ema \in Nat /\ fair \in Nat
  OBVIOUS
<1>. HIDE DEF v, ema, fair, s, t, p, q, x, y
<1>7. Falls(30 * s + 25 * p + 20 * x + 10 * v + 10 * ema + 5 * fair,
            30 * t + 25 * q + 20 * y + 10 * v + 10 * ema + 5 * fair)
  BY <1>1, <1>2, <1>6 DEF Falls
<1>8. 100 \in Nat \ {0}
  OBVIOUS
<1>. QED BY <1>4, <1>5, <1>7, <1>8, QuotientFalls

LEMMA StrictFalls ==
  ASSUME NEW f, NEW g, Follows(f, g), NEW at \in Structures(f), NEW zone, zone = Zone(f, at)
  PROVE  Falls(StrictScore(f, zone), StrictScore(g, zone))
<1>. DEFINE c == Cardinality(Tests(f, zone))
            d == Cardinality(Tests(g, zone))
            x == Cleanliness(f, zone)
            y == Cleanliness(g, zone)
            fresh == IF c <= 1 /\ ~Violated(f, zone) THEN 2 ELSE 0
            worn == IF d <= 1 /\ ~Violated(g, zone) THEN 2 ELSE 0
            away == IF MoveAway(f, zone) >= 50 THEN 2 ELSE 0
            clean == IF x >= 45 THEN 2 ELSE 0
            less == IF y >= 45 THEN 2 ELSE 0
<1>1. zone.end \in Nat
  BY ZoneBase DEF Follows
<1>2. c \in Nat /\ d \in Nat /\ c <= d /\ (Violated(f, zone) => Violated(g, zone))
  BY <1>1, TestsStay
<1>3. Falls(x, y) /\ MoveAway(g, zone) = MoveAway(f, zone)
  BY CleanlinessFalls, MeasuresStay
<1>4. StrictScore(f, zone) = fresh + away + clean + 4
  BY DEF StrictScore
<1>5. StrictScore(g, zone) = worn + away + less + 4
  BY <1>3 DEF StrictScore
<1>. HIDE DEF c, d, x, y
<1>6. worn \in {0, 2} /\ fresh \in {0, 2} /\ worn <= fresh
  BY <1>2
<1>7. less \in {0, 2} /\ clean \in {0, 2} /\ less <= clean
  BY <1>3 DEF Falls
<1>8. away \in {0, 2}
  OBVIOUS
<1>. HIDE DEF worn, fresh, less, clean, away
<1>. QED BY <1>4, <1>5, <1>6, <1>7, <1>8 DEF Falls

\* A bar that enters a zone entered it before later bars came.
LEMMA EntriesStay ==
  ASSUME NEW f, NEW g, Follows(f, g), NEW zone, zone.end \in Nat, NEW k \in Entries(g, zone), k <= Len(f)
  PROVE  k \in Entries(f, zone) /\ k \in Bars(f)
<1>0. f \in Seq(Placed) /\ g \in Seq(Placed) /\ Len(f) <= Len(g) /\ \A j \in Bars(f) : g[j] = f[j]
  BY DEF Follows
<1>1. Len(f) \in Nat /\ Len(g) \in Nat /\ Bars(f) = 1..Len(f) /\ Bars(g) = 1..Len(g)
  BY <1>0, BarIs
<1>. DEFINE reach == Higher(MaxRetestBars, 1)
<1>2. reach \in Nat \ {0}
  BY ZonesAssumption DEF Higher
<1>. HIDE DEF reach
<1>3. Confirmations(g, zone) # {} /\ k = Min(Confirmations(g, zone))
  BY DEF Entries
<1>4. \A touch \in FirstTouch(g, zone) : touch \in Nat
  <2>1. Tests(g, zone) \subseteq Nat
    BY TestsStay
  <2>. QED BY <2>1, MinIs DEF FirstTouch
<1>5. Confirmations(g, zone) =
        UNION {{j \in touch + 1 .. Lower(Len(g), touch + reach) : Confirms(g[j], zone)} : touch \in FirstTouch(g, zone)}
  BY DEF Confirmations, reach
<1>6. Confirmations(f, zone) =
        UNION {{j \in touch + 1 .. Lower(Len(f), touch + reach) : Confirms(f[j], zone)} : touch \in FirstTouch(f, zone)}
  BY DEF Confirmations, reach
<1>7. Confirmations(g, zone) \subseteq Nat
  BY <1>4, <1>5
<1>8. k \in Confirmations(g, zone)
  BY <1>3, <1>7, MinIs
<1>9. PICK touch \in FirstTouch(g, zone) : k \in touch + 1 .. Lower(Len(g), touch + reach) /\ Confirms(g[k], zone)
  BY <1>5, <1>8
<1>10. touch \in Nat /\ k \in Nat /\ touch < k /\ touch < Len(f) + 1
  <2>1. touch \in Nat
    BY <1>4
  <2>2. Lower(Len(g), touch + reach) \in Nat
    BY <1>1, <1>2, <2>1 DEF Lower
  <2>. QED BY <1>1, <1>9, <2>1, <2>2
<1>11. touch = Min(Tests(g, zone)) /\ Tests(g, zone) # {}
  BY DEF FirstTouch
<1>12. touch \in Tests(f, zone)
  <2>1. touch \in Tests(g, zone)
    BY <1>11, MinIs, TestsStay
  <2>. QED BY <1>1, <1>10, <2>1, TestsStay
<1>13. Min(Tests(g, zone)) = Min(Tests(f, zone))
  BY <1>1, <1>12, FirstStays, TestsStay
<1>14. FirstTouch(f, zone) = {touch} /\ FirstTouch(g, zone) = {touch}
  BY <1>11, <1>12, <1>13 DEF FirstTouch
<1>15. k \in Bars(f)
  BY <1>1, <1>10
<1>16. ASSUME NEW j \in Nat
       PROVE  j \in Confirmations(f, zone) <=> j \in Confirmations(g, zone) /\ j <= Len(f)
  <2>1. j \in touch + 1 .. Lower(Len(f), touch + reach) <=>
          j \in touch + 1 .. Lower(Len(g), touch + reach) /\ j <= Len(f)
    BY <1>0, <1>1, <1>2, <1>10 DEF Lower
  <2>2. j \in touch + 1 .. Lower(Len(f), touch + reach) => j \in Bars(f)
    BY <1>1, <1>2, <1>10 DEF Lower
  <2>3. j \in Confirmations(f, zone) <=> j \in touch + 1 .. Lower(Len(f), touch + reach) /\ Confirms(f[j], zone)
    BY <1>6, <1>14
  <2>4. j \in Confirmations(g, zone) <=> j \in touch + 1 .. Lower(Len(g), touch + reach) /\ Confirms(g[j], zone)
    BY <1>5, <1>14
  <2>. QED BY <1>0, <2>1, <2>2, <2>3, <2>4
<1>17. Confirmations(f, zone) \subseteq 1..Len(f)
  <2>1. ASSUME NEW j \in Confirmations(f, zone) PROVE j \in 1..Len(f)
    <3>1. j \in touch + 1 .. Lower(Len(f), touch + reach)
      BY <1>6, <1>14
    <3>. QED BY <1>1, <1>2, <1>10, <3>1 DEF Lower
  <2>. QED BY <2>1
<1>18. k \in Confirmations(f, zone)
  BY <1>8, <1>10, <1>16
<1>19. Confirmations(f, zone) \subseteq Confirmations(g, zone)
  BY <1>16, <1>17
<1>20. \A x \in Confirmations(g, zone) \ Confirmations(f, zone) : x > Len(f)
  BY <1>1, <1>7, <1>16
<1>21. Min(Confirmations(g, zone)) = Min(Confirmations(f, zone))
  BY <1>1, <1>7, <1>17, <1>18, <1>19, <1>20, FirstStays
<1>. QED BY <1>3, <1>15, <1>18, <1>21 DEF Entries

\* What may be traded at a bar that is not the newest could be traded at it before.
LEMMA AcceptedStays ==
  ASSUME NEW f, NEW g, Follows(f, g), NEW at \in Structures(f), NEW zone, zone = Zone(f, at),
         NEW k \in Accepted(g, zone), k <= Len(f)
  PROVE  k \in Accepted(f, zone)
<1>1. zone.end \in Nat
  BY ZoneBase DEF Follows
<1>2. /\ k \in Entries(g, zone)
      /\ Cardinality(SoFar(g, k)) <= CutoffBar
      /\ zone.side \in g[k].ema /\ zone.side \in g[k].fair
      /\ 100 * Atr(g, k).sum >= VolFloor * Atr(g, k).of * g[k].close
      /\ Rejection(g[k], zone.side) >= MinReaction
      /\ ~Violated(g, zone) /\ Cardinality(Tests(g, zone)) <= MaxTests
      /\ Clarity(g, zone) >= 50
      /\ TotalScore(g, zone) >= MinScore /\ TotalScore(g, zone) >= 40
      /\ StrictScore(g, zone) >= 7
  BY DEF Accepted
<1>3. k \in Entries(f, zone) /\ k \in Bars(f)
  BY <1>1, <1>2, EntriesStay
<1>4. SoFar(g, k) = SoFar(f, k) /\ g[k] = f[k] /\ Atr(g, k) = Atr(f, k)
  BY <1>3, SoFarStays, AtrStays DEF Follows
<1>5. ~Violated(f, zone)
  BY <1>1, <1>2, TestsStay
<1>6. Cardinality(Tests(f, zone)) <= MaxTests
  <2>1. MaxTests \in Nat
    BY ZonesAssumption
  <2>2. /\ Cardinality(Tests(f, zone)) \in Nat /\ Cardinality(Tests(g, zone)) \in Nat
        /\ Cardinality(Tests(f, zone)) <= Cardinality(Tests(g, zone))
    BY <1>1, TestsStay
  <2>. QED BY <1>2, <2>1, <2>2
<1>7. /\ Falls(Clarity(f, zone), Clarity(g, zone)) /\ Falls(TotalScore(f, zone), TotalScore(g, zone))
      /\ Falls(StrictScore(f, zone), StrictScore(g, zone))
  BY ClarityFalls, TotalFalls, StrictFalls
<1>8. \A a, b : \A n \in Nat : Falls(a, b) /\ b >= n => a >= n
  BY DEF Falls
<1>9. Clarity(f, zone) >= 50 /\ TotalScore(f, zone) >= 40 /\ StrictScore(f, zone) >= 7
  BY <1>2, <1>7, <1>8
<1>10. TotalScore(f, zone) >= MinScore
  <2>1. MinScore \in Nat
    BY ZonesAssumption
  <2>. QED BY <1>2, <1>7, <1>8, <2>1
<1>. QED BY <1>2, <1>3, <1>4, <1>5, <1>6, <1>9, <1>10 DEF Accepted

\* A structure that a bar adds ends with the bar before it, and is entered there or later.
LEMMA NewZonesAreYoung ==
  ASSUME NEW f, NEW g, Follows(f, g), Len(g) = Len(f) + 1, NEW at \in Structures(g), at \notin Structures(f),
         NEW zone, zone = Zone(g, at), NEW k \in Accepted(g, zone)
  PROVE  k = Len(g)
<1>1. f \in Seq(Placed) /\ g \in Seq(Placed)
  BY DEF Follows
<1>2. Len(f) \in Nat /\ Len(g) \in Nat /\ Bars(g) = 1..Len(g)
  BY <1>1, BarIs
<1>3. Follows(g, g)
  BY <1>1, <1>2 DEF Follows
<1>4. IsBase(g, at[1], at[2])
  BY <1>3, StructureStays
<1>5. /\ at \in (2 .. Len(g)) \X (MinBase .. MaxBase) /\ at = <<at[1], at[2]>>
      /\ IsStructure(g, at[1], at[2])
  BY DEF Structures
<1>6. at[1] \in Nat /\ at[1] >= 2 /\ at[2] \in Nat \ {0} /\ at[1] + at[2] < Len(g)
  BY <1>4 DEF IsBase
<1>7. at[1] + at[2] >= Len(f)
  <2>1. SUFFICES ASSUME at[1] + at[2] < Len(f) PROVE FALSE
    BY <1>2, <1>6
  <2>2. IsBase(f, at[1], at[2])
    BY <1>6, <2>1 DEF IsBase
  <2>3. IsStructure(f, at[1], at[2])
    BY <1>5, <2>2, IsStructureStays
  <2>4. at[1] \in 2 .. Len(f) /\ at[2] \in MinBase .. MaxBase
    BY <1>2, <1>5, <1>6, <2>1
  <2>5. at \in (2 .. Len(f)) \X (MinBase .. MaxBase)
    BY <1>5, <2>4
  <2>. QED BY <2>1, <2>3, <2>5 DEF Structures
<1>8. zone.end \in Nat /\ zone.end = at[1] + at[2] - 1
  <2>1. zone.end = at[1] + at[2] - 1
    BY DEF Zone
  <2>. QED BY <1>6, <2>1
<1>9. k \in Bars(g) /\ k > zone.end + 1
  <2>1. k \in Entries(g, zone)
    BY DEF Accepted
  <2>. QED BY <1>1, <1>8, <2>1, EntryIs
<1>. QED BY <1>2, <1>6, <1>7, <1>8, <1>9

\* One more bar at a time: zones keep their bounds and only fade.
LEMMA ZonesFade ==
  ASSUME NEW f, NEW g, Follows(f, g), Len(g) = Len(f) + 1
  PROVE  /\ {Zone(f, at) : at \in Structures(f)} \subseteq {Zone(g, at) : at \in Structures(g)}
         /\ \A offer \in Tradable(g) \ Tradable(f) : offer[2] = Len(g)
<1>1. \A at \in Structures(f) : at \in Structures(g) /\ Zone(g, at) = Zone(f, at)
  BY StructureStays, ZoneStays
<1>2. {Zone(f, at) : at \in Structures(f)} \subseteq {Zone(g, at) : at \in Structures(g)}
  BY <1>1
<1>3. ASSUME NEW at \in Structures(f), NEW k \in Accepted(g, Zone(f, at))
      PROVE  k \in Accepted(f, Zone(f, at)) \/ k = Len(g)
  <2>. DEFINE zone == Zone(f, at)
  <2>1. zone.end \in Nat /\ f \in Seq(Placed) /\ g \in Seq(Placed)
    BY ZoneBase DEF Follows
  <2>2. k \in Entries(g, zone)
    BY <1>3 DEF Accepted
  <2>. HIDE DEF zone
  <2>3. k \in Bars(g)
    BY <2>1, <2>2, EntryIs
  <2>4. k <= Len(f) \/ k = Len(g)
    BY <2>1, <2>3, BarIs
  <2>5. k <= Len(f) => k \in Accepted(f, zone)
    BY <1>3, AcceptedStays DEF zone
  <2>. QED BY <2>4, <2>5 DEF zone
<1>4. ASSUME NEW offer \in Tradable(g), offer \notin Tradable(f) PROVE offer[2] = Len(g)
  <2>1. PICK at \in Structures(g) : offer \in {<<Zone(g, at), k>> : k \in Accepted(g, Zone(g, at))}
    BY DEF Tradable
  <2>2. PICK k \in Accepted(g, Zone(g, at)) : offer = <<Zone(g, at), k>>
    BY <2>1
  <2>3. CASE at \in Structures(f)
    <3>1. Zone(g, at) = Zone(f, at) /\ k \in Accepted(g, Zone(f, at))
      BY <1>1, <2>2, <2>3
    <3>2. k \notin Accepted(f, Zone(f, at))
      BY <1>4, <2>2, <2>3, <3>1 DEF Tradable
    <3>. QED BY <1>3, <2>2, <2>3, <3>1, <3>2
  <2>4. CASE at \notin Structures(f)
    <3>1. k = Len(g)
      BY <2>2, <2>4, NewZonesAreYoung
    <3>. QED BY <2>2, <3>1
  <2>. QED BY <2>3, <2>4
<1>. QED BY <1>2, <1>4

\* The steps of the frames, one after the other.
LEMMA OthersStay ==
  ASSUME FramesInv, [FramesNext]_frameVars
  PROVE  /\ intraday' # intraday =>
              Follows(intraday, intraday') /\ Len(intraday') = Len(intraday) + 1 /\ DaysRise(intraday')
         /\ history' # history => Follows(history, history') /\ Len(history') = Len(history) + 1
<1>1. intraday' # intraday => intraday' \in Grown(intraday) /\ intraday \in Seq(Placed) /\ DaysRise(intraday)
  BY DEF FramesInv, FramesNext, frameVars
<1>2. history' # history => history' \in Grown(history) /\ history \in Seq(Placed)
  BY DEF FramesInv, FramesNext, frameVars
<1>. DEFINE later == intraday'
<1>3. later # intraday => Follows(intraday, later) /\ Len(later) = Len(intraday) + 1 /\ DaysRise(later)
  <2>1. later # intraday => later \in Grown(intraday) /\ intraday \in Seq(Placed) /\ DaysRise(intraday)
    BY <1>1
  <2>. HIDE DEF later
  <2>. QED BY <2>1, GrownFollows, OrderGrows
<1>. DEFINE longer == history'
<1>4. longer # history => Follows(history, longer) /\ Len(longer) = Len(history) + 1
  <2>1. longer # history => longer \in Grown(history) /\ history \in Seq(Placed)
    BY <1>2
  <2>. HIDE DEF longer
  <2>. QED BY <2>1, GrownFollows
<1>. QED BY <1>3, <1>4 DEF DaysRise, Bars

-----------------------------------------------------------------------------
(* Candles *)

\* Places in the order of what is at them.
IsOrder(s, K, time) ==
  s \in [1..Cardinality(K) -> K] /\ \A i, j \in DOMAIN s : i < j => time[s[i]] < time[s[j]]

Onto(s, K) == \A k \in K : \E i \in DOMAIN s : s[i] = k

\* Places that differ in what is at them can be put in order.
LEMMA OrderExists ==
  ASSUME NEW n \in Nat, NEW K, K \subseteq 1..n, NEW time,
         \A k \in K : time[k] \in Int, \A j, k \in K : j # k => time[j] # time[k]
  PROVE  \E s : IsOrder(s, K, time)
<1>. DEFINE Sorts(L, m) == \E s \in [1..m -> L] : \A i, j \in 1..m : i < j => time[s[i]] < time[s[j]]
            T == {m \in 0..n : \A L \in SUBSET K : Cardinality(L) = m => Sorts(L, m)}
<1>1. \A L \in SUBSET K : IsFiniteSet(L) /\ Cardinality(L) \in 0..n
  <2>1. IsFiniteSet(1..n) /\ Cardinality(1..n) = n
    BY FS_Interval
  <2>2. ASSUME NEW L \in SUBSET K PROVE IsFiniteSet(L) /\ Cardinality(L) \in 0..n
    <3>1. L \subseteq 1..n
      OBVIOUS
    <3>2. IsFiniteSet(L) /\ Cardinality(L) <= Cardinality(1..n)
      BY <2>1, <3>1, FS_Subset, Zenon
    <3>. QED BY <2>1, <3>2, FS_CardinalityType
  <2>. QED BY <2>2
<1>2. 0 \in T
  <2>1. ASSUME NEW L \in SUBSET K PROVE Sorts(L, 0)
    <3>. DEFINE s == [i \in 1..0 |-> 0]
    <3>1. s \in [1..0 -> L] /\ \A i, j \in 1..0 : i < j => time[s[i]] < time[s[j]]
      OBVIOUS
    <3>. HIDE DEF s
    <3>. QED BY <3>1
  <2>. QED BY <2>1
<1>3. ASSUME NEW m \in 1..n, m - 1 \in T PROVE m \in T
  <2>1. ASSUME NEW L \in SUBSET K, Cardinality(L) = m PROVE Sorts(L, m)
    <3>1. L # {}
      BY <2>1, FS_EmptySet
    <3>2. PICK j \in L : \A k \in L : time[k] <= time[j]
      BY <3>1, Greatest
    <3>3. L \ {j} \in SUBSET K /\ Cardinality(L \ {j}) = m - 1
      BY <1>1, <2>1, FS_RemoveElement
    <3>4. PICK s \in [1..m - 1 -> L \ {j}] : \A i, k \in 1..m - 1 : i < k => time[s[i]] < time[s[k]]
      BY <1>3, <3>3
    <3>. DEFINE t == [i \in 1..m |-> IF i = m THEN j ELSE s[i]]
    <3>5. \A i \in 1..m - 1 : s[i] \in L /\ s[i] # j /\ time[s[i]] < time[j]
      <4>1. ASSUME NEW i \in 1..m - 1 PROVE s[i] \in L /\ s[i] # j
        BY <3>4
      <4>2. ASSUME NEW k \in L, k # j PROVE time[k] < time[j]
        <5>1. time[k] \in Int /\ time[j] \in Int /\ time[k] # time[j] /\ time[k] <= time[j]
          BY <3>2, <4>2
        <5>. QED BY <5>1
      <4>. QED BY <4>1, <4>2
    <3>6. t \in [1..m -> L] /\ t[m] = j /\ \A i \in 1..m - 1 : t[i] = s[i]
      BY <3>5
    <3>. HIDE DEF t
    <3>7. ASSUME NEW i \in 1..m, NEW k \in 1..m, i < k PROVE time[t[i]] < time[t[k]]
      <4>1. i \in 1..m - 1 /\ (k = m \/ k \in 1..m - 1)
        BY <3>7
      <4>. QED BY <3>4, <3>5, <3>6, <3>7, <4>1
    <3>. QED BY <3>6, <3>7
  <2>. QED BY <2>1
<1>4. 0..n \subseteq T
  <2>. HIDE DEF T
  <2>. QED BY <1>2, <1>3, Climb
<1>5. Sorts(K, Cardinality(K))
  <2>1. K \in SUBSET K /\ Cardinality(K) \in 0..n
    BY <1>1
  <2>. QED BY <1>4, <2>1
<1>. QED BY <1>5 DEF IsOrder

\* An order leaves no place out.
LEMMA OrderIsOnto ==
  ASSUME NEW n \in Nat, NEW K, K \subseteq 1..n, NEW time, \A k \in K : time[k] \in Int,
         NEW s, IsOrder(s, K, time)
  PROVE  /\ Cardinality(K) \in Nat /\ Cardinality(K) <= n
         /\ DOMAIN s = 1..Cardinality(K) /\ \A i \in DOMAIN s : s[i] \in K
         /\ Onto(s, K)
<1>. DEFINE m == Cardinality(K)
<1>1. IsFiniteSet(K) /\ m \in Nat /\ m <= n
  <2>1. IsFiniteSet(1..n) /\ Cardinality(1..n) = n
    BY FS_Interval
  <2>2. IsFiniteSet(K) /\ m <= n
    BY <2>1, FS_Subset
  <2>. QED BY <2>2, FS_CardinalityType
<1>2. s \in [1..m -> K] /\ \A i, j \in 1..m : i < j => time[s[i]] < time[s[j]]
  BY DEF IsOrder
<1>3. IsFiniteSet(1..m) /\ Cardinality(1..m) = m
  BY <1>1, FS_Interval
<1>. HIDE DEF m
<1>4. \A i, j \in 1..m : s[i] = s[j] => i = j
  <2>1. ASSUME NEW i \in 1..m, NEW j \in 1..m, s[i] = s[j], i < j PROVE FALSE
    <3>1. time[s[i]] < time[s[j]] /\ time[s[i]] \in Int
      BY <1>2, <2>1
    <3>. QED BY <2>1, <3>1
  <2>2. ASSUME NEW i \in 1..m, NEW j \in 1..m, i # j PROVE i < j \/ j < i
    BY <1>1, <2>2
  <2>. QED BY <2>1, <2>2
<1>5. s \in Injection(1..m, K)
  BY <1>2, <1>4 DEF Injection, IsInjective
<1>6. s \in Surjection(1..m, K)
  BY <1>1, <1>3, <1>5, FS_Injection DEF m
<1>7. \A k \in K : \E i \in 1..m : s[i] = k
  BY <1>6 DEF Surjection
<1>. QED BY <1>1, <1>2, <1>7 DEF m, Onto

\* The places that are kept, and what is made of them.
KeptOf(rows, good) == {k \in good : \A n \in good : n > k => rows[n].time # rows[k].time}
TimesOf(rows, S) == [k \in S |-> rows[k].time]
IsOrdered(c, s, K, rows) ==
  /\ Cardinality(K) \in Nat /\ DOMAIN s = 1..Cardinality(K)
  /\ \A i \in DOMAIN s : s[i] \in K
  /\ Onto(s, K)
  /\ \A i, j \in DOMAIN s : i < j => rows[s[i]].time < rows[s[j]].time
  /\ c = [i \in 1..Cardinality(K) |-> rows[s[i]]]

LEMMA LastRowsAre ==
  ASSUME NEW n \in Nat, NEW good, good \subseteq 1..n, NEW rows, \A k \in good : rows[k].time \in Int
  PROVE  /\ \E s : IsOrdered(LastRowsInOrder(rows, good), s, KeptOf(rows, good), rows)
         /\ Cardinality(KeptOf(rows, good)) <= n
<1>. DEFINE K == KeptOf(rows, good)
            time == TimesOf(rows, K)
            s == CHOOSE t \in [1..Cardinality(K) -> K] :
                   \A i, j \in DOMAIN t : i < j => rows[t[i]].time < rows[t[j]].time
<1>1. K \subseteq good
  BY DEF KeptOf
<1>2. \A k \in K : time[k] = rows[k].time /\ time[k] \in Int
  BY <1>1 DEF TimesOf
<1>3. ASSUME NEW j \in K, NEW k \in K, j # k PROVE time[j] # time[k]
  <2>1. j \in good /\ k \in good
    BY <1>1
  <2>2. j > k \/ k > j
    BY <1>3, <2>1
  <2>. QED BY <1>2, <2>1, <2>2 DEF KeptOf
<1>4. LastRowsInOrder(rows, good) = [i \in DOMAIN s |-> rows[s[i]]]
  BY DEF LastRowsInOrder, KeptOf
<1>. HIDE DEF K, time
<1>5. PICK t : IsOrder(t, K, time)
  <2>1. K \subseteq 1..n
    BY <1>1
  <2>. QED BY <1>2, <1>3, <2>1, OrderExists
<1>6. t \in [1..Cardinality(K) -> K] /\ \A i, j \in DOMAIN t : i < j => rows[t[i]].time < rows[t[j]].time
  <2>1. t \in [1..Cardinality(K) -> K] /\ \A i, j \in DOMAIN t : i < j => time[t[i]] < time[t[j]]
    BY <1>5 DEF IsOrder
  <2>2. \A i \in DOMAIN t : t[i] \in K
    BY <2>1
  <2>. QED BY <1>2, <2>1, <2>2
<1>7. s \in [1..Cardinality(K) -> K] /\ \A i, j \in DOMAIN s : i < j => rows[s[i]].time < rows[s[j]].time
  BY <1>6
<1>. HIDE DEF s
<1>8. \A i \in DOMAIN s : s[i] \in K
  BY <1>7
<1>9. IsOrder(s, K, time)
  BY <1>2, <1>7, <1>8 DEF IsOrder
<1>10. Cardinality(K) \in Nat /\ Cardinality(K) <= n /\ DOMAIN s = 1..Cardinality(K) /\ Onto(s, K)
  <2>1. K \subseteq 1..n /\ \A k \in K : time[k] \in Int
    BY <1>1, <1>2
  <2>. QED BY <1>9, <2>1, OrderIsOnto
<1>11. IsOrdered(LastRowsInOrder(rows, good), s, K, rows)
  BY <1>4, <1>7, <1>8, <1>10 DEF IsOrdered
<1>. QED BY <1>10, <1>11 DEF K

\* The last good row of a time is kept.
LEMMA LastIsKept ==
  ASSUME NEW n \in Nat, NEW good, good \subseteq 1..n, NEW rows, NEW k \in good,
         NEW same, same = {j \in good : rows[j].time = rows[k].time}
  PROVE  /\ Max(same) \in KeptOf(rows, good) /\ Max(same) >= k
         /\ rows[Max(same)].time = rows[k].time
         /\ k \in KeptOf(rows, good) => Max(same) = k
<1>1. k \in same /\ same \subseteq 1..n
  OBVIOUS
<1>2. Max(same) \in same /\ \A y \in same : y <= Max(same)
  BY <1>1, MaxIs
<1>. DEFINE m == Max(same)
<1>. HIDE DEF m
<1>3. m \in good /\ rows[m].time = rows[k].time /\ k <= m /\ m \in Nat /\ k \in Nat
  BY <1>1, <1>2 DEF m
<1>4. ASSUME NEW j \in good, j > m PROVE rows[j].time # rows[m].time
  <2>1. j \in Nat
    OBVIOUS
  <2>. QED BY <1>2, <1>3, <1>4, <2>1 DEF m
<1>5. m \in KeptOf(rows, good)
  BY <1>3, <1>4 DEF KeptOf
<1>6. k \in KeptOf(rows, good) => m = k
  <2>. SUFFICES ASSUME k \in KeptOf(rows, good), m # k PROVE FALSE
    OBVIOUS
  <2>1. m > k
    BY <1>3
  <2>. QED BY <1>3, <2>1 DEF KeptOf
<1>. QED BY <1>3, <1>5, <1>6 DEF m

\* Rows as they come, and as they are made.
Known == RowsSeen \cup {Normalized(row) : row \in RowsSeen}
Ordinary(rows) == rows \in Seq(Known)

LEMMA NormalizedIs ==
  ASSUME NEW row, IsRow(row)
  PROVE  /\ Normalized(row).time = row.time /\ row.time \in Nat
         /\ Normalized(row).high = row.high /\ Normalized(row).low = row.low
         /\ Normalized(row).open = row.open /\ Normalized(row).close = row.close
         /\ row.open \in Int /\ row.high \in Int /\ row.low \in Int /\ row.close \in Int
         /\ Normalized(row).gaps = row.gaps \ {"volume"} /\ Normalized(row).volume \in Int
         /\ Removed(Normalized(row)) = Removed(row)
         /\ Normalized(Normalized(row)) = Normalized(row)
         /\ "volume" \notin row.gaps => Normalized(row) = row
<1>. DEFINE new == Normalized(row)
<1>1. IsRow(row)
  OBVIOUS
<1>2. CASE "volume" \notin row.gaps
  BY <1>1, <1>2 DEF IsRow, Normalized
<1>3. CASE "volume" \in row.gaps
  <2>1. /\ new.time = row.time /\ new.open = row.open /\ new.high = row.high /\ new.low = row.low
        /\ new.close = row.close /\ new.volume = 0 /\ new.gaps = row.gaps \ {"volume"}
    BY <1>1, <1>3 DEF IsRow, Normalized
  <2>2. Normalized(new) = new
    BY <2>1 DEF Normalized
  <2>. HIDE DEF new
  <2>3. Unread(new) = Unread(row)
    BY <2>1 DEF Unread
  <2>4. Misordered(new) = Misordered(row)
    BY <2>1 DEF Misordered
  <2>5. \A r : BelowZero(r) = (r.open < 0 \/ r.high < 0 \/ r.low < 0 \/ r.close < 0 \/ r.volume < 0)
    BY DEF BelowZero
  <2>6. BelowZero(new) = BelowZero(row)
    <3>1. ~(row.volume < 0) /\ ~(new.volume < 0)
      BY <1>1, <1>3, <2>1 DEF IsRow
    <3>. QED BY <2>1, <2>5, <3>1
  <2>7. Removed(new) = Removed(row)
    BY <2>3, <2>4, <2>6 DEF Removed
  <2>8. row.time \in Nat /\ row.open \in Int /\ row.high \in Int /\ row.low \in Int /\ row.close \in Int
    BY <1>1 DEF IsRow
  <2>. QED BY <1>3, <2>1, <2>2, <2>7, <2>8 DEF new
<1>. QED BY <1>2, <1>3

LEMMA KnownIsRow ==
  ASSUME NEW row \in Known
  PROVE  IsRow(row)
<1>1. CASE row \in RowsSeen
  BY <1>1, RowsAssumption
<1>2. CASE row \notin RowsSeen
  <2>1. PICK old \in RowsSeen : row = Normalized(old)
    BY <1>2 DEF Known
  <2>2. IsRow(old)
    BY RowsAssumption
  <2>3. DOMAIN Normalized(old) = DOMAIN old
    BY <2>2 DEF Normalized
  <2>4. row.time = old.time /\ row.open = old.open /\ row.high = old.high /\ row.low = old.low
        /\ row.close = old.close /\ row.gaps = old.gaps \ {"volume"} /\ row.volume \in Int
    BY <2>1, <2>2, NormalizedIs
  <2>. QED BY <2>1, <2>2, <2>3, <2>4 DEF IsRow
<1>. QED BY <1>1, <1>2

\* The rows of a feed that are candles, by what was received.
GoodIn(rows) == {k \in DOMAIN rows : ~Removed(rows[k])}

LEMMA RowsNormalized ==
  ASSUME NEW rows, Ordinary(rows)
  PROVE  /\ Len(rows) \in Nat /\ DOMAIN rows = 1..Len(rows) /\ DOMAIN NormalizedRows(rows) = DOMAIN rows
         /\ \A k \in DOMAIN rows : /\ IsRow(rows[k]) /\ NormalizedRows(rows)[k] = Normalized(rows[k])
                                   /\ NormalizedRows(rows)[k].time = rows[k].time /\ rows[k].time \in Nat
         /\ Processed(rows) = LastRowsInOrder(NormalizedRows(rows), GoodIn(rows))
<1>1. Len(rows) \in Nat /\ DOMAIN rows = 1..Len(rows) /\ \A k \in DOMAIN rows : IsRow(rows[k])
  BY KnownIsRow DEF Ordinary
<1>2. DOMAIN NormalizedRows(rows) = DOMAIN rows /\ \A k \in DOMAIN rows : NormalizedRows(rows)[k] = Normalized(rows[k])
  BY DEF NormalizedRows
<1>3. \A k \in DOMAIN rows : Removed(NormalizedRows(rows)[k]) = Removed(rows[k])
  BY <1>1, <1>2, NormalizedIs
<1>4. {k \in DOMAIN rows : ~Removed(NormalizedRows(rows)[k])} = GoodIn(rows)
  BY <1>3 DEF GoodIn
<1>5. Processed(rows) = LastRowsInOrder(NormalizedRows(rows), GoodIn(rows))
  BY <1>4 DEF Processed
<1>6. \A k \in DOMAIN rows : NormalizedRows(rows)[k].time = rows[k].time /\ rows[k].time \in Nat
  BY <1>1, <1>2, NormalizedIs
<1>. QED BY <1>1, <1>2, <1>5, <1>6

\* What is processed: kept rows, in the order of time.
LEMMA ProcessedIs ==
  ASSUME NEW rows, Ordinary(rows)
  PROVE  /\ \E s : IsOrdered(Processed(rows), s, KeptOf(NormalizedRows(rows), GoodIn(rows)), NormalizedRows(rows))
         /\ KeptOf(NormalizedRows(rows), GoodIn(rows)) \subseteq GoodIn(rows) /\ GoodIn(rows) \subseteq 1..Len(rows)
<1>. DEFINE norm == NormalizedRows(rows)
            good == GoodIn(rows)
<1>1. Len(rows) \in Nat /\ good \subseteq 1..Len(rows) /\ \A k \in good : norm[k].time \in Int
  <2>1. Len(rows) \in Nat /\ DOMAIN rows = 1..Len(rows)
    BY RowsNormalized
  <2>2. good \subseteq DOMAIN rows
    BY DEF GoodIn
  <2>3. \A k \in DOMAIN rows : norm[k].time \in Int
    BY RowsNormalized
  <2>. HIDE DEF norm, good
  <2>. QED BY <2>1, <2>2, <2>3
<1>2. Processed(rows) = LastRowsInOrder(norm, good)
  BY RowsNormalized
<1>. HIDE DEF norm, good
<1>3. \E s : IsOrdered(LastRowsInOrder(norm, good), s, KeptOf(norm, good), norm)
  BY <1>1, LastRowsAre
<1>4. KeptOf(norm, good) \subseteq good
  BY DEF KeptOf
<1>. QED BY <1>1, <1>2, <1>3, <1>4 DEF norm, good

\* The candles of a frame are rows of it, one for every time, in the order of time.
LEMMA CandlesAre ==
  ASSUME NEW rows, Ordinary(rows), NEW K, K = KeptOf(NormalizedRows(rows), GoodIn(rows)),
         NEW c, c = Processed(rows)
  PROVE  /\ c \in Seq(Known) /\ Cardinality(K) \in Nat /\ DOMAIN c = 1..Cardinality(K) /\ Len(c) = Cardinality(K)
         /\ K \subseteq GoodIn(rows)
         /\ \A i \in DOMAIN c : \E k \in K : c[i] = Normalized(rows[k])
         /\ \A k \in K : \E i \in DOMAIN c : c[i] = Normalized(rows[k])
         /\ \A i \in DOMAIN c : c[i].time \in Nat
         /\ \A i, j \in DOMAIN c : i < j => c[i].time < c[j].time
<1>. DEFINE norm == NormalizedRows(rows)
<1>1. PICK s : IsOrdered(c, s, K, norm)
  BY ProcessedIs
<1>2. K \subseteq GoodIn(rows) /\ GoodIn(rows) \subseteq DOMAIN rows
  BY ProcessedIs DEF GoodIn
<1>3. \A k \in DOMAIN rows : /\ norm[k] = Normalized(rows[k]) /\ norm[k].time \in Nat
                             /\ Normalized(rows[k]) \in Known
  <2>1. \A k \in DOMAIN rows : rows[k] \in Known /\ IsRow(rows[k])
    BY KnownIsRow DEF Ordinary
  <2>2. ASSUME NEW row \in Known PROVE Normalized(row) \in Known
    <3>1. CASE row \in RowsSeen
      BY <3>1 DEF Known
    <3>2. CASE row \notin RowsSeen
      <4>1. PICK old \in RowsSeen : row = Normalized(old)
        BY <3>2 DEF Known
      <4>2. Normalized(row) = row
        BY <4>1, NormalizedIs, RowsAssumption
      <4>. QED BY <4>2
    <3>. QED BY <3>1, <3>2
  <2>3. \A k \in DOMAIN rows : norm[k] = Normalized(rows[k]) /\ norm[k].time \in Nat
    BY RowsNormalized
  <2>. QED BY <2>1, <2>2, <2>3
<1>. HIDE DEF norm
<1>4. /\ Cardinality(K) \in Nat /\ DOMAIN s = 1..Cardinality(K) /\ Onto(s, K)
      /\ \A i \in DOMAIN s : s[i] \in K
      /\ \A i, j \in DOMAIN s : i < j => norm[s[i]].time < norm[s[j]].time
      /\ c = [i \in 1..Cardinality(K) |-> norm[s[i]]]
  BY <1>1 DEF IsOrdered
<1>5. DOMAIN c = DOMAIN s /\ \A i \in DOMAIN c : c[i] = norm[s[i]] /\ s[i] \in K /\ s[i] \in DOMAIN rows
  BY <1>2, <1>4
<1>6. \A i \in DOMAIN c : c[i] \in Known
  BY <1>3, <1>5
<1>7. c \in Seq(Known) /\ Len(c) = Cardinality(K)
  <2>1. c \in [1..Cardinality(K) -> Known]
    BY <1>4, <1>5, <1>6
  <2>. QED BY <1>4, <2>1
<1>8. \A i \in DOMAIN c : \E k \in K : c[i] = Normalized(rows[k])
  BY <1>3, <1>5
<1>9. \A k \in K : \E i \in DOMAIN c : c[i] = Normalized(rows[k])
  <2>1. ASSUME NEW k \in K PROVE \E i \in DOMAIN c : c[i] = Normalized(rows[k])
    <3>1. PICK i \in DOMAIN s : s[i] = k
      BY <1>4 DEF Onto
    <3>. QED BY <1>3, <1>5, <3>1
  <2>. QED BY <2>1
<1>10. \A i \in DOMAIN c : c[i].time \in Nat
  BY <1>3, <1>5
<1>11. \A i, j \in DOMAIN c : i < j => c[i].time < c[j].time
  BY <1>4, <1>5
<1>. QED BY <1>2, <1>4, <1>5, <1>7, <1>8, <1>9, <1>10, <1>11

\* Of the rows of one time the last one is kept.
LEMMA LastOfTime ==
  ASSUME NEW rows, Ordinary(rows), NEW K, K = KeptOf(NormalizedRows(rows), GoodIn(rows)),
         NEW k \in GoodIn(rows), NEW same, same = {j \in GoodIn(rows) : rows[j].time = rows[k].time}
  PROVE  /\ Max(same) \in K /\ Max(same) >= k /\ rows[Max(same)].time = rows[k].time
         /\ k \in K => Max(same) = k
<1>. DEFINE norm == NormalizedRows(rows)
            good == GoodIn(rows)
            n == Len(rows)
<1>1. n \in Nat /\ good \subseteq 1..n /\ \A j \in good : norm[j].time = rows[j].time
  BY RowsNormalized DEF GoodIn
<1>. HIDE DEF norm, good, n
<1>2. K = KeptOf(norm, good) /\ k \in good /\ same = {j \in good : rows[j].time = rows[k].time}
  BY DEF norm, good
<1>3. same = {j \in good : norm[j].time = norm[k].time}
  BY <1>1, <1>2
<1>4. /\ Max(same) \in KeptOf(norm, good) /\ Max(same) >= k
      /\ norm[Max(same)].time = norm[k].time
      /\ k \in KeptOf(norm, good) => Max(same) = k
  BY <1>1, <1>2, <1>3, LastIsKept
<1>5. Max(same) \in good
  BY <1>4 DEF KeptOf
<1>. QED BY <1>1, <1>2, <1>4, <1>5

\* Places that are put in the order they are in.
LEMMA InPlace ==
  ASSUME NEW m \in Nat, NEW s \in [1..m -> 1..m], \A i, j \in 1..m : i < j => s[i] < s[j]
  PROVE  \A i \in 1..m : s[i] = i
<1>. DEFINE Up == {i \in 0..m : i = 0 \/ s[i] >= i}
            Down == {i \in 0..m : i = m \/ s[m - i] <= m - i}
<1>0. \A i \in 1..m : s[i] \in 1..m
  OBVIOUS
<1>1. 0..m \subseteq Up
  <2>1. 0 \in Up
    OBVIOUS
  <2>2. ASSUME NEW i \in 1..m, i - 1 \in Up PROVE i \in Up
    <3>1. CASE i = 1
      BY <1>0, <3>1
    <3>2. CASE i # 1
      <4>1. i - 1 \in 1..m /\ i - 1 < i /\ s[i - 1] >= i - 1
        BY <2>2, <3>2
      <4>2. s[i - 1] < s[i] /\ s[i - 1] \in Nat /\ s[i] \in Nat
        BY <1>0, <4>1
      <4>. QED BY <4>1, <4>2
    <3>. QED BY <3>1, <3>2
  <2>. HIDE DEF Up
  <2>. QED BY <2>1, <2>2, Climb
<1>2. 0..m \subseteq Down
  <2>1. 0 \in Down
    BY <1>0
  <2>2. ASSUME NEW i \in 1..m, i - 1 \in Down PROVE i \in Down
    <3>1. CASE i = m
      BY <3>1
    <3>2. CASE i # m
      <4>. DEFINE j == m - i
      <4>1. j \in 1..m /\ j + 1 \in 1..m /\ m - (i - 1) = j + 1 /\ i - 1 # m
        BY <3>2
      <4>2. s[j + 1] <= j + 1
        BY <2>2, <4>1
      <4>. HIDE DEF j
      <4>3. s[j] < s[j + 1] /\ s[j] \in Nat /\ s[j + 1] \in Nat
        BY <1>0, <4>1
      <4>4. s[j] <= j
        BY <4>1, <4>2, <4>3
      <4>. QED BY <4>4 DEF j
    <3>. QED BY <3>1, <3>2
  <2>. HIDE DEF Down
  <2>. QED BY <2>1, <2>2, Climb
<1>3. ASSUME NEW i \in 1..m PROVE s[i] = i
  <2>1. s[i] >= i
    BY <1>1
  <2>2. m - i \in 0..m /\ m - i # m /\ m - (m - i) = i
    OBVIOUS
  <2>3. s[i] <= i
    BY <1>2, <2>2
  <2>. QED BY <1>0, <2>1, <2>3
<1>. QED BY <1>3

\* Candles are their own.
LEMMA OnceIsEnough ==
  ASSUME NEW rows, Ordinary(rows), NEW c, c = Processed(rows)
  PROVE  Processed(c) = c
<1>. DEFINE K == KeptOf(NormalizedRows(rows), GoodIn(rows))
            m == Cardinality(K)
<1>1. /\ c \in Seq(Known) /\ m \in Nat /\ DOMAIN c = 1..m
      /\ K \subseteq GoodIn(rows)
      /\ \A i \in DOMAIN c : \E k \in K : c[i] = Normalized(rows[k])
      /\ \A i \in DOMAIN c : c[i].time \in Nat
      /\ \A i, j \in DOMAIN c : i < j => c[i].time < c[j].time
  BY CandlesAre
<1>. HIDE DEF K, m
<1>2. ASSUME NEW i \in DOMAIN c PROVE Normalized(c[i]) = c[i] /\ ~Removed(c[i])
  <2>1. PICK k \in K : c[i] = Normalized(rows[k])
    BY <1>1
  <2>2. k \in DOMAIN rows /\ ~Removed(rows[k])
    BY <1>1 DEF GoodIn
  <2>3. IsRow(rows[k])
    BY <2>2, RowsNormalized
  <2>. QED BY <2>1, <2>2, <2>3, NormalizedIs
<1>3. Ordinary(c)
  BY <1>1 DEF Ordinary
<1>4. NormalizedRows(c) = c
  <2>1. NormalizedRows(c) = [i \in 1..m |-> c[i]]
    BY <1>1, <1>2 DEF NormalizedRows
  <2>2. c \in [1..m -> Known]
    BY <1>1
  <2>. QED BY <2>1, <2>2
<1>5. GoodIn(c) = 1..m
  BY <1>1, <1>2 DEF GoodIn
<1>6. KeptOf(c, 1..m) = 1..m
  <2>1. ASSUME NEW i \in 1..m, NEW j \in 1..m, j > i PROVE c[j].time # c[i].time
    <3>1. c[i].time < c[j].time /\ c[i].time \in Nat
      BY <1>1, <2>1
    <3>. QED BY <3>1
  <2>. QED BY <2>1 DEF KeptOf
<1>7. Cardinality(1..m) = m
  BY <1>1, FS_Interval
<1>8. PICK s : IsOrdered(Processed(c), s, 1..m, c)
  BY <1>3, <1>4, <1>5, <1>6, ProcessedIs
<1>9. /\ DOMAIN s = 1..m /\ \A i \in DOMAIN s : s[i] \in 1..m
      /\ \A i, j \in DOMAIN s : i < j => c[s[i]].time < c[s[j]].time
      /\ Processed(c) = [i \in 1..m |-> c[s[i]]]
  BY <1>7, <1>8 DEF IsOrdered
<1>. DEFINE r == [i \in 1..m |-> s[i]]
<1>10. r \in [1..m -> 1..m] /\ \A i \in 1..m : r[i] = s[i]
  BY <1>9
<1>. HIDE DEF r
<1>11. ASSUME NEW i \in 1..m, NEW j \in 1..m, i < j PROVE r[i] < r[j]
  <2>1. c[r[i]].time < c[r[j]].time /\ r[i] \in 1..m /\ r[j] \in 1..m
    BY <1>9, <1>10, <1>11
  <2>2. CASE r[j] < r[i]
    <3>1. c[r[j]].time < c[r[i]].time
      BY <1>1, <2>1, <2>2
    <3>. QED BY <1>1, <2>1, <3>1
  <2>3. CASE r[j] = r[i]
    BY <1>1, <2>1, <2>3
  <2>. QED BY <2>1, <2>2, <2>3
<1>12. \A i \in 1..m : r[i] = i
  BY <1>1, <1>10, <1>11, InPlace
<1>13. Processed(c) = [i \in 1..m |-> c[i]]
  BY <1>9, <1>10, <1>12
<1>14. c \in [1..m -> Known]
  BY <1>1
<1>. QED BY <1>13, <1>14

\* Whatever was received, candles are in the order of time and as last received.
LEMMA ProcessedHolds == ASSUME received \in Seq(RowsSeen) PROVE ProcessedSound
<1>. DEFINE rows == received
            c == Processed(rows)
            K == KeptOf(NormalizedRows(rows), GoodIn(rows))
            good(time) == {k \in DOMAIN rows : ~Removed(rows[k]) /\ rows[k].time = time}
            times == {rows[k].time : k \in {n \in DOMAIN rows : ~Removed(rows[n])}}
<1>0. Ordinary(rows)
  BY DEF Ordinary, Known
<1>1. /\ DOMAIN c = 1..Cardinality(K) /\ Cardinality(K) \in Nat
      /\ K \subseteq GoodIn(rows)
      /\ \A i \in DOMAIN c : \E k \in K : c[i] = Normalized(rows[k])
      /\ \A k \in K : \E i \in DOMAIN c : c[i] = Normalized(rows[k])
      /\ \A i, j \in DOMAIN c : i < j => c[i].time < c[j].time
  BY <1>0, CandlesAre
<1>2. \A k \in DOMAIN rows : IsRow(rows[k]) /\ Normalized(rows[k]).time = rows[k].time
  BY <1>0, RowsNormalized, NormalizedIs
<1>3. GoodIn(rows) = {k \in DOMAIN rows : ~Removed(rows[k])}
  BY DEF GoodIn
<1>4. \A k \in K : k \in GoodIn(rows) /\ k \in DOMAIN rows /\ ~Removed(rows[k])
  BY <1>1, <1>3
<1>5. ASSUME NEW k \in GoodIn(rows)
      PROVE  /\ Max(good(rows[k].time)) \in K /\ rows[Max(good(rows[k].time))].time = rows[k].time
             /\ k \in K => Max(good(rows[k].time)) = k
  <2>. DEFINE same == good(rows[k].time)
  <2>1. same = {j \in GoodIn(rows) : rows[j].time = rows[k].time}
    BY <1>3
  <2>. HIDE DEF same, K, rows
  <2>2. K = KeptOf(NormalizedRows(rows), GoodIn(rows))
    BY DEF K
  <2>3. Max(same) \in K /\ rows[Max(same)].time = rows[k].time /\ (k \in K => Max(same) = k)
    BY <1>0, <1>5, <2>1, <2>2, LastOfTime
  <2>. QED BY <2>3 DEF same
<1>. HIDE DEF rows, c, K, good
<1>6. {c[i].time : i \in DOMAIN c} = times
  <2>1. ASSUME NEW i \in DOMAIN c PROVE c[i].time \in times
    <3>1. PICK k \in K : c[i] = Normalized(rows[k])
      BY <1>1
    <3>. QED BY <1>2, <1>4, <3>1
  <2>2. ASSUME NEW time \in times PROVE \E i \in DOMAIN c : c[i].time = time
    <3>1. PICK k \in DOMAIN rows : ~Removed(rows[k]) /\ rows[k].time = time
      OBVIOUS
    <3>2. k \in GoodIn(rows)
      BY <1>3, <3>1
    <3>. DEFINE last == Max(good(rows[k].time))
    <3>3. last \in K /\ rows[last].time = time
      BY <1>5, <3>1, <3>2
    <3>. HIDE DEF last
    <3>4. PICK i \in DOMAIN c : c[i] = Normalized(rows[last])
      BY <1>1, <3>3
    <3>5. last \in DOMAIN rows
      BY <1>4, <3>3
    <3>6. c[i].time = time
      BY <1>2, <3>3, <3>4, <3>5
    <3>. QED BY <3>6
  <2>. HIDE DEF times
  <2>. QED BY <2>1, <2>2
<1>7. ASSUME NEW i \in DOMAIN c PROVE c[i] = Normalized(rows[Max(good(c[i].time))])
  <2>1. PICK k \in K : c[i] = Normalized(rows[k])
    BY <1>1
  <2>2. k \in GoodIn(rows) /\ c[i].time = rows[k].time
    BY <1>2, <1>4, <2>1
  <2>3. Max(good(rows[k].time)) = k
    BY <1>5, <2>2
  <2>. QED BY <2>1, <2>2, <2>3
<1>8. ASSUME NEW i \in DOMAIN c, i > 1 PROVE c[i - 1].time < c[i].time
  <2>1. i - 1 \in DOMAIN c /\ i - 1 < i
    BY <1>1, <1>8
  <2>. QED BY <1>1, <2>1
<1>9. Processed(c) = c
  BY <1>0, OnceIsEnough DEF c
<1>. QED BY <1>6, <1>7, <1>8, <1>9 DEF ProcessedSound, rows, c, good, times

\* What the production service makes of the rows that it takes.
DrawnFrom(c, K, rows) == \A i \in DOMAIN c : \E k \in K : c[i] = rows[k]

LEMMA StrictRowsAre ==
  ASSUME NEW rows, Ordinary(rows), NEW good, good = {k \in DOMAIN rows : Strict(rows[k])},
         NEW c, c = LastRowsInOrder(rows, good)
  PROVE  DrawnFrom(c, KeptOf(rows, good), rows)
<1>. DEFINE K == KeptOf(rows, good)
<1>1. Len(rows) \in Nat /\ good \subseteq 1..Len(rows) /\ \A k \in good : rows[k].time \in Int
  <2>1. Len(rows) \in Nat /\ DOMAIN rows = 1..Len(rows) /\ \A k \in DOMAIN rows : rows[k].time \in Int
    BY RowsNormalized
  <2>. QED BY <2>1
<1>2. PICK s : IsOrdered(c, s, K, rows)
  BY <1>1, LastRowsAre
<1>3. DOMAIN s = 1..Cardinality(K) /\ (\A i \in DOMAIN s : s[i] \in K) /\ c = [i \in 1..Cardinality(K) |-> rows[s[i]]]
  BY <1>2 DEF IsOrdered
<1>. QED BY <1>3 DEF DrawnFrom

\* Whatever was received, the two services see the same candles where both see one,
\* but for a later row that only the workspace takes.
LEMMA ServicesAgreeHolds == ASSUME received \in Seq(RowsSeen) PROVE ServicesAgree
<1>. DEFINE rows == received
            c == Processed(rows)
            K == KeptOf(NormalizedRows(rows), GoodIn(rows))
            good == {k \in DOMAIN rows : Strict(rows[k])}
            d == LastRowsInOrder(rows, good)
<1>0. Ordinary(rows)
  BY DEF Ordinary, Known
<1>1. /\ K \subseteq GoodIn(rows) /\ \A k \in K : \E i \in DOMAIN c : c[i] = Normalized(rows[k])
  BY <1>0, CandlesAre
<1>2. DrawnFrom(d, KeptOf(rows, good), rows)
  <2>. HIDE DEF rows
  <2>1. good = {k \in DOMAIN rows : Strict(rows[k])} /\ d = LastRowsInOrder(rows, good)
    OBVIOUS
  <2>. HIDE DEF good, d
  <2>. QED BY <1>0, <2>1, StrictRowsAre
<1>3. \A k \in DOMAIN rows : IsRow(rows[k]) /\ Normalized(rows[k]).time = rows[k].time /\ k \in Nat
  BY <1>0, RowsNormalized, NormalizedIs
<1>4. ASSUME NEW k \in DOMAIN rows, Strict(rows[k]) PROVE k \in GoodIn(rows) /\ Normalized(rows[k]) = rows[k]
  <2>. DEFINE row == rows[k]
  <2>1. row.gaps = {} /\ ~Misordered(row) /\ row.volume >= 0 /\ row.open > 0 /\ row.high > 0 /\ row.low > 0 /\ row.close > 0
    BY <1>4 DEF Strict
  <2>2. IsRow(row)
    BY <1>3
  <2>. HIDE DEF row
  <2>3. ~Unread(row)
    BY <2>1 DEF Unread
  <2>4. ~BelowZero(row)
    BY <2>1, <2>2 DEF BelowZero, IsRow
  <2>5. ~Removed(row)
    BY <2>1, <2>3, <2>4 DEF Removed
  <2>6. Normalized(row) = row
    BY <2>1 DEF Normalized
  <2>. QED BY <2>5, <2>6 DEF GoodIn, row
<1>5. ASSUME NEW i \in DOMAIN d
      PROVE  \E n \in DOMAIN c :
               /\ c[n].time = d[i].time
               /\ \/ c[n] = d[i]
                  \/ \E m \in DOMAIN rows : rows[m].time = d[i].time /\ Normalized(rows[m]) = c[n] /\ ~Strict(rows[m])
  <2>1. PICK k \in KeptOf(rows, good) : d[i] = rows[k]
    BY <1>2 DEF DrawnFrom
  <2>2. k \in DOMAIN rows /\ Strict(rows[k]) /\ \A n \in good : n > k => rows[n].time # rows[k].time
    BY DEF KeptOf
  <2>3. k \in GoodIn(rows) /\ Normalized(rows[k]) = rows[k]
    BY <1>4, <2>2
  <2>. DEFINE same == {j \in GoodIn(rows) : rows[j].time = rows[k].time}
              last == Max(same)
  <2>4. last \in K /\ last >= k /\ rows[last].time = rows[k].time
    <3>1. K = KeptOf(NormalizedRows(rows), GoodIn(rows))
      OBVIOUS
    <3>. HIDE DEF rows, K
    <3>. QED BY <1>0, <2>3, <3>1, LastOfTime
  <2>. HIDE DEF last, K
  <2>5. last \in DOMAIN rows
    BY <1>1, <2>4 DEF GoodIn
  <2>. HIDE DEF c, d, rows
  <2>6. PICK n \in DOMAIN c : c[n] = Normalized(rows[last])
    BY <1>1, <2>4
  <2>7. c[n].time = d[i].time
    BY <1>3, <2>1, <2>4, <2>5, <2>6
  <2>8. CASE last = k
    BY <2>1, <2>3, <2>6, <2>7, <2>8
  <2>9. CASE last # k
    <3>1. last > k
      BY <1>3, <2>2, <2>4, <2>5, <2>9
    <3>2. ~Strict(rows[last])
      BY <2>2, <2>4, <2>5, <3>1
    <3>. QED BY <2>1, <2>4, <2>5, <2>6, <2>7, <3>2
  <2>. QED BY <2>8, <2>9
<1>6. StrictlyProcessed(rows) = IF Refused(rows) THEN <<>> ELSE d
  BY DEF StrictlyProcessed
<1>7. CASE Refused(rows)
  <2>1. StrictlyProcessed(received) = <<>>
    BY <1>6, <1>7
  <2>. QED BY <2>1 DEF ServicesAgree
<1>8. CASE ~Refused(rows)
  <2>1. StrictlyProcessed(received) = d
    BY <1>6, <1>8
  <2>. HIDE DEF d
  <2>. QED BY <1>5, <2>1 DEF ServicesAgree
<1>. QED BY <1>7, <1>8

\* Whatever was received, the report accounts for every row that is gone.
LEMMA LossesHold == ASSUME received \in Seq(RowsSeen) PROVE LossesCounted
<1>. DEFINE rows == received
            n == Len(rows)
            K == KeptOf(NormalizedRows(rows), GoodIn(rows))
            A == {k \in DOMAIN rows : Unread(rows[k])}
            B == {k \in DOMAIN rows : Misordered(rows[k]) \/ BelowZero(rows[k])}
            C == {j \in DOMAIN rows : \E k \in (j + 1)..n :
                    \/ "time" \in rows[j].gaps \cap rows[k].gaps
                    \/ "time" \notin rows[j].gaps \cup rows[k].gaps /\ rows[j].time = rows[k].time}
<1>0. Ordinary(rows)
  BY DEF Ordinary, Known
<1>1. Len(Processed(rows)) = Cardinality(K) /\ K \subseteq GoodIn(rows)
  BY <1>0, CandlesAre
<1>2. /\ Report(rows).rowsIn = n /\ Report(rows).rowsOut = Len(Processed(rows))
      /\ Report(rows).missing = Cardinality(A) /\ Report(rows).invalid = Cardinality(B)
      /\ Report(rows).duplicates = Cardinality(C)
  BY DEF Report, Count
<1>3. /\ n \in Nat /\ DOMAIN rows = 1..n
      /\ \A k \in DOMAIN rows : NormalizedRows(rows)[k].time = rows[k].time
  BY <1>0, RowsNormalized
<1>4. ASSUME NEW k \in DOMAIN rows, k \notin K PROVE k \in A \cup B \cup C
  <2>1. CASE k \notin GoodIn(rows)
    <3>1. Removed(rows[k])
      BY <1>4, <2>1 DEF GoodIn
    <3>. QED BY <1>4, <3>1 DEF Removed
  <2>2. CASE k \in GoodIn(rows)
    <3>1. PICK m \in GoodIn(rows) : m > k /\ NormalizedRows(rows)[m].time = NormalizedRows(rows)[k].time
      BY <1>4, <2>2 DEF KeptOf
    <3>2. m \in DOMAIN rows /\ ~Removed(rows[m]) /\ ~Removed(rows[k])
      BY <2>2 DEF GoodIn
    <3>3. rows[k].time = rows[m].time /\ "time" \notin rows[k].gaps \cup rows[m].gaps
      BY <1>3, <1>4, <3>1, <3>2 DEF Removed, Unread
    <3>4. m \in (k + 1)..n
      BY <1>3, <1>4, <3>1, <3>2
    <3>. QED BY <1>4, <3>3, <3>4
  <2>. QED BY <2>1, <2>2
<1>. HIDE DEF rows, n, K, A, B, C
<1>5. K \subseteq 1..n /\ A \subseteq 1..n /\ B \subseteq 1..n /\ C \subseteq 1..n
  BY <1>1, <1>3 DEF A, B, C, GoodIn
<1>6. 1..n \subseteq K \cup (A \cup B \cup C)
  BY <1>3, <1>4
<1>7. IsFiniteSet(1..n) /\ Cardinality(1..n) = n
  BY <1>3, FS_Interval
<1>8. IsFiniteSet(K) /\ IsFiniteSet(A) /\ IsFiniteSet(B) /\ IsFiniteSet(C)
  BY <1>5, <1>7, FS_Subset, Zenon
<1>9. /\ Cardinality(K) \in Nat /\ Cardinality(A) \in Nat /\ Cardinality(B) \in Nat /\ Cardinality(C) \in Nat
  BY <1>8, FS_CardinalityType
<1>10. ASSUME NEW S, IsFiniteSet(S), NEW T, IsFiniteSet(T)
       PROVE  IsFiniteSet(S \cup T) /\ Cardinality(S \cup T) <= Cardinality(S) + Cardinality(T) /\ Cardinality(S \cup T) \in Nat
  <2>1. /\ IsFiniteSet(S \cup T) /\ IsFiniteSet(S \cap T)
        /\ Cardinality(S \cup T) = Cardinality(S) + Cardinality(T) - Cardinality(S \cap T)
    BY <1>10, FS_Union, FS_Intersection
  <2>2. /\ Cardinality(S) \in Nat /\ Cardinality(T) \in Nat /\ Cardinality(S \cap T) \in Nat
        /\ Cardinality(S \cup T) \in Nat
    BY <1>10, <2>1, FS_CardinalityType
  <2>. DEFINE a == Cardinality(S)
              b == Cardinality(T)
              both == Cardinality(S \cap T)
              either == Cardinality(S \cup T)
  <2>3. a \in Nat /\ b \in Nat /\ both \in Nat /\ either \in Nat /\ either = a + b - both
    BY <2>1, <2>2
  <2>. HIDE DEF a, b, both, either
  <2>4. either <= a + b
    BY <2>3
  <2>. QED BY <2>1, <2>3, <2>4 DEF a, b, either
<1>11. /\ IsFiniteSet(A \cup B) /\ Cardinality(A \cup B) <= Cardinality(A) + Cardinality(B) /\ Cardinality(A \cup B) \in Nat
  BY <1>8, <1>10
<1>12. /\ IsFiniteSet(A \cup B \cup C) /\ Cardinality(A \cup B \cup C) <= Cardinality(A \cup B) + Cardinality(C)
       /\ Cardinality(A \cup B \cup C) \in Nat
  BY <1>8, <1>10, <1>11
<1>. DEFINE all == K \cup (A \cup B \cup C)
<1>13. IsFiniteSet(all) /\ Cardinality(all) <= Cardinality(K) + Cardinality(A \cup B \cup C) /\ Cardinality(all) \in Nat
  BY <1>8, <1>10, <1>12
<1>14. Cardinality(1..n) <= Cardinality(all)
  BY <1>6, <1>13, FS_Subset, Zenon
<1>. HIDE DEF all
<1>15. n - Cardinality(K) <= Cardinality(A) + Cardinality(B) + Cardinality(C)
  BY <1>3, <1>7, <1>9, <1>11, <1>12, <1>13, <1>14
<1>. QED BY <1>1, <1>2, <1>15 DEF LossesCounted, rows

\* Candles that go on where others end: one more, and later.
OneMore(b, a) ==
  /\ b \in Seq(Known) /\ a \in Seq(Known) /\ Len(a) = Len(b) + 1
  /\ \A j \in 1..Len(b) : a[j] = b[j]
  /\ \A j \in DOMAIN a : a[j].time \in Nat
  /\ \A i, j \in DOMAIN a : i < j => a[i].time < a[j].time

LEMMA OneMoreIs ==
  ASSUME NEW b, NEW a, OneMore(b, a)
  PROVE  /\ Len(b) \in Nat /\ DOMAIN b = 1..Len(b) /\ DOMAIN a = 1..Len(b) + 1
         /\ \A j \in 1..Len(b) : j \in DOMAIN a /\ a[j] = b[j] /\ Day(b[j]) \in Nat /\ Day(b[j]) <= Day(a[Len(b) + 1])
         /\ Last(a) = a[Len(b) + 1]
<1>. DEFINE n == Len(b)
<1>1. n \in Nat /\ DOMAIN b = 1..n /\ DOMAIN a = 1..n + 1 /\ Len(a) = n + 1
  BY DEF OneMore
<1>. HIDE DEF n
<1>2. ASSUME NEW j \in 1..n PROVE j \in DOMAIN a /\ a[j] = b[j] /\ Day(b[j]) \in Nat /\ Day(b[j]) <= Day(a[n + 1])
  <2>1. j \in DOMAIN a /\ n + 1 \in DOMAIN a /\ j < n + 1
    BY <1>1
  <2>2. a[j] = b[j] /\ a[j].time \in Nat /\ a[n + 1].time \in Nat /\ a[j].time <= a[n + 1].time
    <3>1. a[j].time < a[n + 1].time /\ a[j].time \in Nat /\ a[n + 1].time \in Nat
      BY <2>1 DEF OneMore
    <3>. QED BY <3>1 DEF OneMore, n
  <2>3. DayLength \in Nat \ {0}
    BY RowsAssumption
  <2>4. a[j].time \div DayLength \in Nat /\ a[j].time \div DayLength <= a[n + 1].time \div DayLength
    BY <2>2, <2>3, Quotient, QuotientGrows
  <2>. QED BY <2>1, <2>2, <2>4 DEF Day
<1>3. Last(a) = a[n + 1]
  BY <1>1 DEF Last
<1>. QED BY <1>1, <1>2, <1>3 DEF n

LEMMA SessionStays ==
  ASSUME NEW b, NEW a, OneMore(b, a), NEW k \in 1..Len(b)
  PROVE  /\ SessionSoFar(a, k) = SessionSoFar(b, k) /\ SessionSoFar(b, k) \subseteq 1..k /\ 1..k \subseteq 1..Len(b)
         /\ k \in Session(b, k) /\ k \in SessionSoFar(b, k)
         /\ Session(b, k) \subseteq 1..Len(b)
         /\ Session(a, k) \in {Session(b, k), Session(b, k) \cup {Len(b) + 1}}
<1>. DEFINE n == Len(b)
<1>1. /\ n \in Nat /\ DOMAIN b = 1..n /\ DOMAIN a = 1..n + 1
      /\ \A j \in 1..n : a[j] = b[j]
  BY OneMoreIs
<1>2. k \in 1..n
  OBVIOUS
<1>. HIDE DEF n
<1>3. \A j \in 1..n : j \in Session(a, k) <=> j \in Session(b, k)
  BY <1>1, <1>2 DEF Session
<1>4. Session(b, k) \subseteq 1..n /\ Session(a, k) \subseteq 1..n + 1 /\ k \in Session(b, k)
  BY <1>1, <1>2 DEF Session
<1>5. \A j \in 1..n + 1 : j <= k => j \in 1..n
  BY <1>1, <1>2
<1>6. SessionSoFar(a, k) = SessionSoFar(b, k)
  BY <1>3, <1>4, <1>5, <1>1 DEF SessionSoFar
<1>7. SessionSoFar(b, k) \subseteq 1..k /\ 1..k \subseteq 1..n /\ k \in SessionSoFar(b, k)
  BY <1>1, <1>2, <1>4 DEF SessionSoFar
<1>8. 1..n + 1 = 1..n \cup {n + 1} /\ n + 1 \notin 1..n
  BY <1>1
<1>9. CASE n + 1 \in Session(a, k)
  <2>1. Session(a, k) = Session(b, k) \cup {n + 1}
    BY <1>3, <1>4, <1>8, <1>9
  <2>. QED BY <1>4, <1>6, <1>7, <2>1 DEF n
<1>10. CASE n + 1 \notin Session(a, k)
  <2>1. Session(a, k) = Session(b, k)
    BY <1>3, <1>4, <1>8, <1>10
  <2>. QED BY <1>4, <1>6, <1>7, <2>1 DEF n
<1>. QED BY <1>9, <1>10

LEMMA EdgesStay ==
  ASSUME NEW b, NEW a, OneMore(b, a), NEW S, S \subseteq 1..Len(b)
  PROVE  HighestOf(a, S) = HighestOf(b, S) /\ LowestOf(a, S) = LowestOf(b, S)
<1>1. \A j \in S : a[j] = b[j]
  BY OneMoreIs
<1>2. {a[j].high : j \in S} = {b[j].high : j \in S} /\ {a[j].low : j \in S} = {b[j].low : j \in S}
  BY <1>1
<1>. QED BY <1>2 DEF HighestOf, LowestOf

LEMMA VwapBefore ==
  ASSUME NEW b, NEW a, OneMore(b, a), NEW k \in 1..Len(b)
  PROVE  Vwap(a, k) = Vwap(b, k)
<1>. DEFINE Traded(c) == {n \in 1..k : \E m \in SessionSoFar(c, n) : c[m].volume > 0}
            last == SessionSoFar(b, Max(Traded(b)))
            paid(c, S) == [n \in S |-> (c[n].high + c[n].low + c[n].close) * c[n].volume]
            sold(c, S) == [n \in S |-> c[n].volume]
<1>1. /\ Len(b) \in Nat /\ 1..k \subseteq 1..Len(b)
      /\ \A j \in 1..Len(b) : a[j] = b[j]
  BY OneMoreIs, SessionStays
<1>2. ASSUME NEW n \in 1..k
      PROVE  /\ SessionSoFar(a, n) = SessionSoFar(b, n) /\ SessionSoFar(b, n) \subseteq 1..Len(b)
             /\ \A m \in SessionSoFar(b, n) : a[m] = b[m]
  <2>1. n \in 1..Len(b)
    BY <1>1
  <2>2. SessionSoFar(a, n) = SessionSoFar(b, n) /\ SessionSoFar(b, n) \subseteq 1..n /\ 1..n \subseteq 1..Len(b)
    BY <2>1, SessionStays
  <2>. QED BY <1>1, <2>2
<1>3. Traded(a) = Traded(b)
  BY <1>2
<1>4. Traded(b) \subseteq 1..k /\ k \in Nat
  BY <1>1
<1>5. Vwap(a, k) = IF Traded(a) = {} THEN <<3 * a[k].close, 1>>
                   ELSE <<SumFunction(paid(a, SessionSoFar(a, Max(Traded(a))))), SumFunction(sold(a, SessionSoFar(a, Max(Traded(a)))))>>
  BY DEF Vwap
<1>6. Vwap(b, k) = IF Traded(b) = {} THEN <<3 * b[k].close, 1>>
                   ELSE <<SumFunction(paid(b, last)), SumFunction(sold(b, last))>>
  BY DEF Vwap
<1>. HIDE DEF Traded
<1>7. CASE Traded(b) = {}
  <2>1. Vwap(a, k) = <<3 * a[k].close, 1>> /\ Vwap(b, k) = <<3 * b[k].close, 1>>
    BY <1>3, <1>5, <1>6, <1>7
  <2>. QED BY <1>1, <2>1
<1>8. CASE Traded(b) # {}
  <2>1. Max(Traded(b)) \in 1..k
    BY <1>4, <1>8, MaxIs
  <2>2. SessionSoFar(a, Max(Traded(b))) = last /\ \A m \in last : a[m] = b[m]
    BY <1>2, <2>1
  <2>. HIDE DEF last
  <2>3. paid(a, last) = paid(b, last) /\ sold(a, last) = sold(b, last)
    BY <2>2
  <2>4. Vwap(a, k) = <<SumFunction(paid(a, last)), SumFunction(sold(a, last))>>
    BY <1>3, <1>5, <1>8, <2>2
  <2>5. Vwap(b, k) = <<SumFunction(paid(b, last)), SumFunction(sold(b, last))>>
    BY <1>6, <1>8
  <2>. HIDE DEF paid, sold
  <2>. QED BY <2>3, <2>4, <2>5
<1>. QED BY <1>7, <1>8

LEMMA PreviousDayStays ==
  ASSUME NEW b, NEW a, OneMore(b, a), NEW k \in 1..Len(b)
  PROVE  PreviousDay(a, k) = PreviousDay(b, k)
<1>. DEFINE n == Len(b)
            today == Day(b[k])
            Days0(c) == {Day(c[j]) : j \in DOMAIN c} \cap 0..(today - 1)
            past == {j \in 1..n : Day(b[j]) < today}
            g == [j \in past |-> Day(b[j])]
            Of(c, day) == {j \in DOMAIN c : Day(c[j]) = day}
<1>1. /\ n \in Nat /\ DOMAIN b = 1..n /\ DOMAIN a = 1..n + 1
      /\ \A j \in 1..n : a[j] = b[j] /\ Day(b[j]) \in Nat /\ Day(b[j]) <= Day(a[n + 1])
      /\ 1..n + 1 = 1..n \cup {n + 1}
  BY OneMoreIs
<1>2. today \in Nat /\ today <= Day(a[n + 1]) /\ Day(a[k]) = today
  BY <1>1
<1>. HIDE DEF n, today
<1>3. Days0(a) = Days0(b)
  <2>1. Day(a[n + 1]) \notin 0..(today - 1)
    BY <1>2
  <2>2. {Day(a[j]) : j \in DOMAIN a} = {Day(b[j]) : j \in DOMAIN b} \cup {Day(a[n + 1])}
    BY <1>1
  <2>. QED BY <2>1, <2>2
<1>4. Days0(b) = {g[j] : j \in past}
  <2>1. \A x : x \in Days0(b) <=> \E j \in 1..n : x = Day(b[j]) /\ Day(b[j]) \in 0..(today - 1)
    BY <1>1
  <2>2. \A j \in 1..n : Day(b[j]) \in 0..(today - 1) <=> Day(b[j]) < today
    BY <1>1, <1>2
  <2>3. \A j \in past : g[j] = Day(b[j])
    OBVIOUS
  <2>4. \A x : x \in {g[j] : j \in past} <=> \E j \in 1..n : x = Day(b[j]) /\ Day(b[j]) < today
    BY <2>3
  <2>. HIDE DEF Days0, past, g
  <2>. QED BY <2>1, <2>2, <2>4
<1>5. past \subseteq 1..n /\ \A j \in past : g[j] \in Int /\ g[j] < today
  BY <1>1
<1>6. PreviousDay(a, k) = IF Days0(a) = {} THEN <<>>
                          ELSE <<HighestOf(a, Of(a, Max(Days0(a)))), LowestOf(a, Of(a, Max(Days0(a)))),
                                 a[Max(Of(a, Max(Days0(a))))].close>>
  BY <1>2 DEF PreviousDay
<1>7. PreviousDay(b, k) = IF Days0(b) = {} THEN <<>>
                          ELSE <<HighestOf(b, Of(b, Max(Days0(b)))), LowestOf(b, Of(b, Max(Days0(b)))),
                                 b[Max(Of(b, Max(Days0(b))))].close>>
  BY DEF PreviousDay, today
<1>. DEFINE days == Days0(b)
            day == Max(days)
            of == Of(b, day)
<1>8. CASE days = {}
  <2>. HIDE DEF Days0, Of
  <2>. QED BY <1>3, <1>6, <1>7, <1>8
<1>9. CASE days # {}
  <2>1. day \in days /\ day < today /\ day \in Int
    <3>. DEFINE V == {g[j] : j \in past}
    <3>1. past # {} /\ V = days
      BY <1>4, <1>9
    <3>2. \A x \in V : x \in Int /\ x < today
      BY <1>5
    <3>3. n \in Nat /\ past \subseteq 1..n /\ past # {}
      BY <1>1, <1>5, <3>1
    <3>4. \A j \in past : g[j] \in Int
      BY <1>5
    <3>5. V = {g[j] : j \in past}
      OBVIOUS
    <3>. HIDE DEF g, past, V, days
    <3>6. Max(V) \in V
      BY <3>3, <3>4, <3>5, MaxAmong, Zenon
    <3>. QED BY <3>1, <3>2, <3>6 DEF day
  <2>. HIDE DEF days
  <2>. HIDE DEF day
  <2>2. Of(a, day) = of
    <3>1. Day(a[n + 1]) # day
      BY <1>1, <1>2, <2>1
    <3>. QED BY <1>1, <3>1
  <2>3. of \subseteq 1..n
    BY <1>1
  <2>4. of # {}
    <3>1. PICK j \in DOMAIN b : day = Day(b[j])
      BY <2>1 DEF days
    <3>. QED BY <3>1
  <2>. HIDE DEF of
  <2>5. Max(of) \in 1..n /\ a[Max(of)] = b[Max(of)]
    <3>1. Max(of) \in of
      BY <1>1, <2>3, <2>4, MaxIs
    <3>. QED BY <1>1, <2>3, <3>1
  <2>6. HighestOf(a, of) = HighestOf(b, of) /\ LowestOf(a, of) = LowestOf(b, of)
    BY <2>3, EdgesStay DEF n
  <2>7. PreviousDay(a, k) = <<HighestOf(a, of), LowestOf(a, of), a[Max(of)].close>>
    <3>1. Days0(a) = days /\ Max(Days0(a)) = day
      BY <1>3 DEF days, day
    <3>. HIDE DEF Days0, Of
    <3>. QED BY <1>6, <1>9, <2>2, <3>1
  <2>8. PreviousDay(b, k) = <<HighestOf(b, of), LowestOf(b, of), b[Max(of)].close>>
    <3>1. Days0(b) = days /\ Max(Days0(b)) = day /\ Of(b, day) = of
      BY DEF days, day, of
    <3>. HIDE DEF Days0, Of
    <3>. QED BY <1>7, <1>9, <3>1
  <2>. QED BY <2>5, <2>6, <2>7, <2>8
<1>. QED BY <1>8, <1>9

LEMMA MetricsStay ==
  ASSUME NEW b, NEW a, OneMore(b, a), NEW k \in 1..Len(b)
  PROVE  MetricsOf(a, k) = MetricsOf(b, k)
<1>. DEFINE S == SessionSoFar(b, k)
            before == S \ {k}
            Closed(c) == IF before = {} THEN c[k].high ELSE c[Max(before)].close
            Measured(c) ==
              [ trueRange |-> Max({c[k].high, Closed(c)}) - Min({c[k].low, Closed(c)}),
                gap |-> before # {} /\ c[k].time - c[Max(before)].time > 1,
                high |-> HighestOf(c, S), low |-> LowestOf(c, S), vwap |-> Vwap(c, k), previous |-> PreviousDay(c, k) ]
<1>1. SessionSoFar(a, k) = S /\ S \subseteq 1..k /\ 1..k \subseteq 1..Len(b) /\ k \in Nat
  BY SessionStays, OneMoreIs
<1>2. MetricsOf(b, k) = Measured(b)
  BY DEF MetricsOf
<1>3. MetricsOf(a, k) = Measured(a)
  <2>. HIDE DEF S
  <2>. QED BY <1>1 DEF MetricsOf
<1>. HIDE DEF S
<1>4. a[k] = b[k] /\ (before # {} => a[Max(before)] = b[Max(before)])
  <2>1. before # {} => Max(before) \in 1..k
    <3>1. before \subseteq 1..k
      BY <1>1
    <3>. HIDE DEF before
    <3>. QED BY <1>1, <3>1, MaxIs
  <2>. QED BY <1>1, <2>1, OneMoreIs
<1>. HIDE DEF before
<1>5. Closed(a) = Closed(b)
  BY <1>4
<1>6. HighestOf(a, S) = HighestOf(b, S) /\ LowestOf(a, S) = LowestOf(b, S)
  BY <1>1, EdgesStay
<1>7. Vwap(a, k) = Vwap(b, k) /\ PreviousDay(a, k) = PreviousDay(b, k)
  BY VwapBefore, PreviousDayStays
<1>8. (before # {} /\ a[k].time - a[Max(before)].time > 1) = (before # {} /\ b[k].time - b[Max(before)].time > 1)
  BY <1>4
<1>. HIDE DEF Closed
<1>. QED BY <1>2, <1>3, <1>4, <1>5, <1>6, <1>7, <1>8

LEMMA OpeningStays ==
  ASSUME NEW b, NEW a, OneMore(b, a), NEW k \in 1..Len(b), ~(Opens(Last(a)) /\ Day(Last(a)) = Day(b[k]))
  PROVE  OpeningRange(a, k) = OpeningRange(b, k)
<1>. DEFINE n == Len(b)
            window == {j \in Session(b, k) : Opens(b[j])}
            Begin(c) == IF window = {} THEN {Min(Session(c, k))} ELSE window
<1>1. n \in Nat /\ (\A j \in 1..n : a[j] = b[j]) /\ Last(a) = a[n + 1]
  BY OneMoreIs
<1>2. /\ Session(b, k) \subseteq 1..n /\ k \in Session(b, k)
      /\ Session(a, k) \in {Session(b, k), Session(b, k) \cup {n + 1}}
  BY SessionStays
<1>9. n + 1 \in Session(a, k) => Day(Last(a)) = Day(b[k])
  BY <1>1 DEF Session
<1>. HIDE DEF n
<1>3. {j \in Session(a, k) : Opens(a[j])} = window
  BY <1>1, <1>2, <1>9
<1>4. Min(Session(a, k)) = Min(Session(b, k))
  <2>. DEFINE S == Session(b, k)
              R == Session(a, k)
  <2>1. S \subseteq 1..n /\ R \subseteq Nat /\ S \subseteq R /\ (\A x \in R \ S : x > n) /\ S # {}
    BY <1>1, <1>2
  <2>. HIDE DEF S, R
  <2>2. Min(R) = Min(S)
    BY <1>1, <2>1, FirstStays
  <2>. QED BY <2>2 DEF S, R
<1>5. Begin(a) = Begin(b) /\ Begin(b) \subseteq 1..n
  <2>1. Min(Session(b, k)) \in Session(b, k)
    <3>1. Session(b, k) \subseteq Nat /\ Session(b, k) # {}
      BY <1>1, <1>2
    <3>. QED BY <3>1, MinIs
  <2>. QED BY <1>2, <1>4, <2>1
<1>6. OpeningRange(b, k) = <<HighestOf(b, Begin(b)), LowestOf(b, Begin(b))>>
  BY DEF OpeningRange
<1>7. OpeningRange(a, k) = <<HighestOf(a, Begin(a)), LowestOf(a, Begin(a))>>
  <2>. HIDE DEF window
  <2>. QED BY <1>3 DEF OpeningRange
<1>. HIDE DEF Begin
<1>8. HighestOf(a, Begin(b)) = HighestOf(b, Begin(b)) /\ LowestOf(a, Begin(b)) = LowestOf(b, Begin(b))
  BY <1>5, EdgesStay DEF n
<1>. QED BY <1>5, <1>6, <1>7, <1>8

\* A row more leaves at most a candle more.
LEMMA KeptGrows ==
  ASSUME NEW rows \in Seq(RowsSeen), NEW row \in RowsSeen, NEW more, more = Append(rows, row)
  PROVE  /\ Ordinary(rows) /\ Ordinary(more)
         /\ Len(Processed(more)) <= Len(Processed(rows)) + 1
<1>. DEFINE n == Len(rows)
            K == KeptOf(NormalizedRows(rows), GoodIn(rows))
            L == KeptOf(NormalizedRows(more), GoodIn(more))
<1>1. Ordinary(rows) /\ Ordinary(more)
  <2>1. more \in Seq(RowsSeen)
    OBVIOUS
  <2>. QED BY <2>1 DEF Ordinary, Known
<1>2. n \in Nat /\ DOMAIN rows = 1..n /\ DOMAIN more = 1..n + 1 /\ \A k \in 1..n : more[k] = rows[k]
  OBVIOUS
<1>3. /\ \A k \in DOMAIN rows : NormalizedRows(rows)[k].time = rows[k].time
      /\ \A k \in DOMAIN more : NormalizedRows(more)[k].time = more[k].time
  BY <1>1, RowsNormalized
<1>. HIDE DEF n
<1>4. GoodIn(rows) = {k \in 1..n : ~Removed(rows[k])} /\ GoodIn(more) = {k \in 1..n + 1 : ~Removed(more[k])}
  BY <1>2 DEF GoodIn
<1>5. L \subseteq K \cup {n + 1}
  <2>. SUFFICES ASSUME NEW k \in L, k # n + 1 PROVE k \in K
    OBVIOUS
  <2>1. k \in GoodIn(more) /\ \A j \in GoodIn(more) : j > k => NormalizedRows(more)[j].time # NormalizedRows(more)[k].time
    BY DEF KeptOf
  <2>2. k \in 1..n /\ k \in GoodIn(rows)
    BY <1>2, <1>4, <2>1
  <2>3. ASSUME NEW j \in GoodIn(rows), j > k
        PROVE  NormalizedRows(rows)[j].time # NormalizedRows(rows)[k].time
    <3>1. j \in 1..n /\ j \in GoodIn(more)
      BY <1>2, <1>4
    <3>2. NormalizedRows(more)[j].time = rows[j].time /\ NormalizedRows(more)[k].time = rows[k].time
      BY <1>2, <1>3, <2>2, <3>1
    <3>3. NormalizedRows(rows)[j].time = rows[j].time /\ NormalizedRows(rows)[k].time = rows[k].time
      BY <1>2, <1>3, <2>2, <3>1
    <3>. QED BY <2>1, <2>3, <3>1, <3>2, <3>3
  <2>. QED BY <2>2, <2>3 DEF KeptOf
<1>6. Cardinality(K) \in Nat /\ K \subseteq 1..n /\ Len(Processed(rows)) = Cardinality(K)
  <2>1. Cardinality(K) \in Nat /\ K \subseteq GoodIn(rows) /\ Len(Processed(rows)) = Cardinality(K)
    BY <1>1, CandlesAre
  <2>. QED BY <1>4, <2>1
<1>7. Cardinality(L) \in Nat /\ Len(Processed(more)) = Cardinality(L)
  BY <1>1, CandlesAre
<1>. HIDE DEF K, L
<1>8. Cardinality(L) <= Cardinality(K) + 1
  <2>1. IsFiniteSet(1..n)
    BY <1>2, FS_Interval
  <2>2. IsFiniteSet(K)
    BY <1>6, <2>1, FS_Subset
  <2>3. IsFiniteSet(K \cup {n + 1}) /\ (Cardinality(K \cup {n + 1}) = Cardinality(K) \/ Cardinality(K \cup {n + 1}) = Cardinality(K) + 1)
    BY <2>2, FS_AddElement
  <2>4. Cardinality(L) <= Cardinality(K \cup {n + 1})
    BY <1>5, <2>3, FS_Subset
  <2>. QED BY <1>6, <1>7, <2>3, <2>4
<1>. QED BY <1>1, <1>6, <1>7, <1>8

LEMMA PrefixIsOneMore ==
  ASSUME NEW rows, Ordinary(rows), NEW more, Ordinary(more),
         NEW b, b = Processed(rows), NEW a, a = Processed(more),
         Len(a) <= Len(b) + 1, IsPrefix(b, a), Len(a) > Len(b)
  PROVE  OneMore(b, a)
<1>1. b \in Seq(Known) /\ a \in Seq(Known)
  BY CandlesAre
<1>2. Len(a) = Len(b) + 1
  BY <1>1
<1>3. \A j \in 1..Len(b) : a[j] = b[j]
  <2>1. Len(b) <= Len(a) /\ SubSeq(b, 1, Len(b)) = SubSeq(a, 1, Len(b))
    BY DEF IsPrefix
  <2>2. \A j \in 1..Len(b) : SubSeq(b, 1, Len(b))[j] = b[j] /\ SubSeq(a, 1, Len(b))[j] = a[j]
    BY <1>1, <2>1
  <2>. QED BY <2>1, <2>2
<1>4. (\A j \in DOMAIN a : a[j].time \in Nat) /\ (\A i, j \in DOMAIN a : i < j => a[i].time < a[j].time)
  BY CandlesAre
<1>. QED BY <1>1, <1>2, <1>3, <1>4 DEF OneMore

LEMMA ReceivedStays ==
  ASSUME FramesInv, [FramesNext]_frameVars, received' # received,
         NEW b, b = Processed(received), NEW a, a = Processed(received'), IsPrefix(b, a), Len(a) > Len(b),
         NEW k \in DOMAIN b
  PROVE  /\ MetricsOf(a, k) = MetricsOf(b, k)
         /\ OpeningRange(a, k) # OpeningRange(b, k) => Opens(Last(a)) /\ Day(Last(a)) = Day(b[k])
<1>. DEFINE rows == received
            more == received'
<1>1. rows \in Seq(RowsSeen) /\ \E row \in RowsSeen : more = Append(rows, row)
  BY DEF FramesInv, FramesNext, frameVars, Receive
<1>. HIDE DEF rows, more
<1>2. b = Processed(rows) /\ a = Processed(more)
  BY DEF rows, more
<1>3. PICK row \in RowsSeen : more = Append(rows, row)
  BY <1>1
<1>4. Ordinary(rows) /\ Ordinary(more) /\ Len(a) <= Len(b) + 1
  BY <1>1, <1>2, <1>3, KeptGrows
<1>5. OneMore(b, a)
  BY <1>2, <1>4, PrefixIsOneMore
<1>6. k \in 1..Len(b)
  BY <1>5, OneMoreIs
<1>. QED BY <1>5, <1>6, MetricsStay, OpeningStays

-----------------------------------------------------------------------------
(* What is promised *)

\* Whatever the candles, none is lost, made up or out of order, and every strategy gives
\* trades only: each loses at its stop and wins at its target, within its budget and as far
\* from the others as it should be (processing.py:190,209, breakout/service.py:197,
\* demand_supply/service.py:584,608, amd/service.py:378,505,
\* implementations/breakout.py:17,26).
THEOREM SignalsAreAlwaysSound == FramesSpec => []SignalsAreSound
<1>1. FramesInv => SignalsAreSound
  BY ProcessedHolds, LossesHold, ServicesAgreeHolds, IntradaySound, CandidatesSound, AmdSound, PricesRefused,
     RiskHolds, SeenSound DEF FramesInv, SignalsAreSound
<1>. QED BY <1>1, FramesKept, PTL

\* Whatever candles come, what they change of the past is what the code waits for: the
\* metrics of earlier candles stay, but their opening range while it lasts; once the frame is
\* longer than the period of the RSI no signal is withdrawn or moved, and none appears at an
\* earlier bar but of BTST with the next day's first bar, and of a Breakout or MTF day with
\* the bar that makes it long enough; zones are only withdrawn; and the signals of the others
\* are those they were (processing.py:303,318, breakout/service.py:73,197,
\* demand_supply/service.py:375, amd/service.py:505, implementations/breakout.py:17).
THEOREM NothingEverLooksAhead == FramesSpec => NothingLooksAhead
<1>1. FramesInv /\ [FramesNext]_frameVars =>
        [LET found == {s \in Signals(intraday') : s.at <= Len(intraday)}
         IN  Len(intraday) > RsiPeriod =>
               /\ Signals(intraday) \subseteq found
               /\ \A s \in found \ Signals(intraday) : FoundWithLast(intraday', s)]_intraday
  <2>. DEFINE later == intraday'
              found == {s \in Signals(later) : s.at <= Len(intraday)}
  <2>. SUFFICES ASSUME FramesInv, [FramesNext]_frameVars, later # intraday, Len(intraday) > RsiPeriod
                PROVE  /\ Signals(intraday) \subseteq found
                       /\ \A s \in found \ Signals(intraday) : FoundWithLast(later, s)
    OBVIOUS
  <2>1. Follows(intraday, later) /\ Len(later) = Len(intraday) + 1 /\ DaysRise(later)
    BY OthersStay DEF DaysRise, Bars
  <2>. HIDE DEF later
  <2>. QED BY <2>1, IntradayStays
<1>2. FramesInv /\ [FramesNext]_frameVars =>
        [/\ {Zone(history, at) : at \in Structures(history)}
              \subseteq {Zone(history', at) : at \in Structures(history')}
         /\ \A offer \in Tradable(history') \ Tradable(history) : offer[2] = Len(history')]_history
  <2>. SUFFICES ASSUME FramesInv, [FramesNext]_frameVars, history' # history
                PROVE  /\ {Zone(history, at) : at \in Structures(history)}
                            \subseteq {Zone(history', at) : at \in Structures(history')}
                       /\ \A offer \in Tradable(history') \ Tradable(history) : offer[2] = Len(history')
    OBVIOUS
  <2>. DEFINE later == history'
  <2>1. Follows(history, later) /\ Len(later) = Len(history) + 1
    BY OthersStay
  <2>. HIDE DEF later
  <2>2. /\ {Zone(history, at) : at \in Structures(history)} \subseteq {Zone(later, at) : at \in Structures(later)}
        /\ \A offer \in Tradable(later) \ Tradable(history) : offer[2] = Len(later)
    BY <2>1, ZonesFade
  <2>3. Tradable(later) = Tradable(history')
    BY DEF Tradable, later
  <2>. QED BY <2>2, <2>3 DEF later
<1>3. FramesInv /\ [FramesNext]_frameVars =>
        [AmdSignals(tape) = {s \in AmdSignals(tape') : s.at <= Len(tape)}]_tape
  <2>. SUFFICES ASSUME FramesInv, [FramesNext]_frameVars, tape' # tape
                PROVE  AmdSignals(tape) = {s \in AmdSignals(tape') : s.at <= Len(tape)}
    OBVIOUS
  <2>. DEFINE later == tape'
  <2>1. Follows(tape, later)
    BY TapeStays
  <2>. HIDE DEF later
  <2>2. AmdSignals(tape) = {s \in AmdSignals(later) : s.at <= Len(tape)}
    BY <2>1, AmdStays
  <2>. QED BY <2>2 DEF later
<1>4. FramesInv /\ [FramesNext]_frameVars =>
        [\A name \in Registered \ {"amd"} :
           RunStrategy(name, tape) = {s \in RunStrategy(name, tape') : s.at <= Len(tape)}]_tape
  <2>. SUFFICES ASSUME FramesInv, [FramesNext]_frameVars, tape' # tape, NEW name \in Registered \ {"amd"}
                PROVE  RunStrategy(name, tape) = {s \in RunStrategy(name, tape') : s.at <= Len(tape)}
    OBVIOUS
  <2>. DEFINE later == tape'
  <2>1. Follows(tape, later)
    BY TapeStays
  <2>. HIDE DEF later
  <2>2. RunStrategy(name, tape) = ScanFrame(name, tape) /\ RunStrategy(name, later) = ScanFrame(name, later)
    BY DEF RunStrategy
  <2>3. ScanFrame(name, tape) = {s \in ScanFrame(name, later) : s.at <= Len(tape)}
    BY <2>1, ScanFrameStays
  <2>. QED BY <2>2, <2>3 DEF later
<1>5. FramesInv /\ [FramesNext]_frameVars =>
        [LET before == Processed(received)
             after == Processed(received')
         IN  IsPrefix(before, after) /\ Len(after) > Len(before) =>
               \A k \in DOMAIN before :
                 /\ MetricsOf(after, k) = MetricsOf(before, k)
                 /\ OpeningRange(after, k) # OpeningRange(before, k) =>
                      Opens(Last(after)) /\ Day(Last(after)) = Day(before[k])]_received
  <2>. SUFFICES ASSUME FramesInv, [FramesNext]_frameVars, received' # received,
                       IsPrefix(Processed(received), Processed(received')),
                       Len(Processed(received')) > Len(Processed(received)),
                       NEW k \in DOMAIN Processed(received)
                PROVE  /\ MetricsOf(Processed(received'), k) = MetricsOf(Processed(received), k)
                       /\ OpeningRange(Processed(received'), k) # OpeningRange(Processed(received), k)
                            => /\ Opens(Last(Processed(received')))
                               /\ Day(Last(Processed(received'))) = Day(Processed(received)[k])
    OBVIOUS
  <2>. QED BY ReceivedStays
<1>. QED BY <1>1, <1>2, <1>3, <1>4, <1>5, FramesKept, PTL
       DEF FramesSpec, NothingLooksAhead, NoLookAhead, SignalsStay, ZonesOnlyFade, AmdSignalsStay, ScansStay
=============================================================================
