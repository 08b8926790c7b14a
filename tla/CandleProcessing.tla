-------------------------- MODULE CandleProcessing --------------------------
(***************************************************************************)
(* Rows of candles become candles in two ways: the workspace repairs and   *)
(* drops rows (infrastructure/market_data/processing.py), the production   *)
(* service (domain/market_data/normalization.py) is stricter and may       *)
(* refuse them all.  Candles are then given the metrics of their session.  *)
(*                                                                         *)
(* A row is [time, open, high, low, close, volume, gaps]: gaps are the     *)
(* parts of it that could not be read, out of time, price and volume.      *)
(***************************************************************************)
EXTENDS Integers, Sequences, FiniteSets, SequencesExt, FiniteSetsExt

CONSTANTS RowsSeen,     \* the rows that may come
          MaxFrame,     \* bound of the rows of a frame
          DayLength,    \* times are in day time \div DayLength
          OpeningBars   \* the first times of a day, its opening window

VARIABLES received      \* the rows of the feed, in the order they came

\* Prices are whole numbers; a volume that could not be read is not below zero.
IsRow(row) ==
  /\ {"time", "open", "high", "low", "close", "volume", "gaps"} = DOMAIN row
  /\ row.time \in Nat /\ {row.open, row.high, row.low, row.close, row.volume} \subseteq Int
  /\ row.gaps \subseteq {"time", "price", "volume"} /\ ("volume" \in row.gaps => row.volume >= 0)

ASSUME RowsAssumption == DayLength \in Nat \ {0} /\ \A row \in RowsSeen : IsRow(row)

-----------------------------------------------------------------------------
(* Which rows are candles. *)

Unread(row) == row.gaps \cap {"time", "price"} # {}

\* Comparisons with a price that was not read are false.
Misordered(row) ==
  \/ "price" \in row.gaps
  \/ row.high < row.open \/ row.high < row.close \/ row.low > row.open \/ row.low > row.close
BelowZero(row) == \E f \in {"open", "high", "low", "close", "volume"} : row[f] < 0

Removed(row) == Unread(row) \/ Misordered(row) \/ BelowZero(row)

\* A volume that could not be read is none.
Normalized(row) == IF "volume" \in row.gaps THEN [row EXCEPT !.volume = 0, !.gaps = @ \ {"volume"}] ELSE row

\* Of the good rows the last of every time, in their order.
LastRowsInOrder(rows, good) ==
  LET kept == {k \in good : \A n \in good : n > k => rows[n].time # rows[k].time}
      order == CHOOSE s \in [1..Cardinality(kept) -> kept] :
                 \A m, n \in DOMAIN s : m < n => rows[s[m]].time < rows[s[n]].time
  IN  [n \in DOMAIN order |-> rows[order[n]]]

NormalizedRows(rows) == [k \in DOMAIN rows |-> Normalized(rows[k])]
Processed(rows) ==
  LastRowsInOrder(NormalizedRows(rows), {k \in DOMAIN rows : ~Removed(NormalizedRows(rows)[k])})

Count(rows, Test(_)) == Cardinality({k \in DOMAIN rows : Test(rows[k])})

\* Duplicates are counted among all rows, the removed ones too; a time that could
\* not be read is a duplicate of another one.
Report(rows) ==
  [rowsIn |-> Len(rows), rowsOut |-> Len(Processed(rows)), missing |-> Count(rows, Unread),
   invalid |-> Count(rows, LAMBDA row : Misordered(row) \/ BelowZero(row)),
   duplicates |-> Cardinality({j \in DOMAIN rows : \E k \in (j + 1)..Len(rows) :
                    \/ "time" \in rows[j].gaps \cap rows[k].gaps
                    \/ "time" \notin rows[j].gaps \cup rows[k].gaps /\ rows[j].time = rows[k].time})]

\* What the production service takes for a candle, and when it refuses a frame.
Strict(row) ==
  /\ row.gaps = {} /\ ~Misordered(row) /\ row.volume >= 0
  /\ \A f \in {"open", "high", "low", "close"} : row[f] > 0
Refused(rows) ==
  \/ \E k \in DOMAIN rows : "time" \in rows[k].gaps
  \/ \E part \in {"price", "volume"} : \A k \in DOMAIN rows : part \in rows[k].gaps
  \/ \A k \in DOMAIN rows : ~Strict(rows[k])
StrictlyProcessed(rows) ==
  IF Refused(rows) THEN <<>> ELSE LastRowsInOrder(rows, {k \in DOMAIN rows : Strict(rows[k])})

-----------------------------------------------------------------------------
(* The metrics of a candle, of which some look at the whole frame. *)

Day(candle) == candle.time \div DayLength
Opens(candle) == candle.time % DayLength <= OpeningBars
Session(candles, k) == {n \in DOMAIN candles : Day(candles[n]) = Day(candles[k])}
SessionSoFar(candles, k) == {n \in Session(candles, k) : n <= k}
HighestOf(candles, set) == Max({candles[n].high : n \in set})
LowestOf(candles, set) == Min({candles[n].low : n \in set})

\* The average price of the session by volume, three times as a ratio; a session
\* that has none goes on with the one of the candle before.
Vwap(candles, k) ==
  LET traded == {n \in 1..k : \E m \in SessionSoFar(candles, n) : candles[m].volume > 0}
      last == SessionSoFar(candles, Max(traded))
  IN  IF traded = {} THEN <<3 * candles[k].close, 1>>
      ELSE << SumFunction([n \in last |-> (candles[n].high + candles[n].low + candles[n].close) * candles[n].volume]),
              SumFunction([n \in last |-> candles[n].volume]) >>

\* The opening range: of the opening window, whether or not it is over, or of the
\* first candle of a session that has none.
OpeningRange(candles, k) ==
  LET window == {n \in Session(candles, k) : Opens(candles[n])}
      first == IF window = {} THEN {Min(Session(candles, k))} ELSE window
  IN  <<HighestOf(candles, first), LowestOf(candles, first)>>

\* High, low and close of the last day before that has candles.
PreviousDay(candles, k) ==
  LET days == {Day(candles[n]) : n \in DOMAIN candles} \cap 0..(Day(candles[k]) - 1)
      of == {n \in DOMAIN candles : Day(candles[n]) = Max(days)}
  IN  IF days = {} THEN <<>> ELSE <<HighestOf(candles, of), LowestOf(candles, of), candles[Max(of)].close>>

\* Range, gap from the candle before it, and the extremes so far.
MetricsOf(candles, k) ==
  LET before == SessionSoFar(candles, k) \ {k}
      closed == IF before = {} THEN candles[k].high ELSE candles[Max(before)].close
  IN  [ trueRange |-> Max({candles[k].high, closed}) - Min({candles[k].low, closed}),
        gap |-> before # {} /\ candles[k].time - candles[Max(before)].time > 1,
        high |-> HighestOf(candles, SessionSoFar(candles, k)), low |-> LowestOf(candles, SessionSoFar(candles, k)),
        vwap |-> Vwap(candles, k), previous |-> PreviousDay(candles, k) ]

-----------------------------------------------------------------------------
FrameInit == received = <<>>

Receive == /\ Len(received) < MaxFrame
           /\ \E row \in RowsSeen : received' = Append(received, row)

-----------------------------------------------------------------------------
(* Properties. *)

\* Candles are strictly in the order of time, each is the last row of its time
\* that can be one, none is lost, and doing it again changes nothing.
ProcessedSound ==
  LET candles == Processed(received)
      good(time) == {k \in DOMAIN received : ~Removed(received[k]) /\ received[k].time = time}
      times == {received[k].time : k \in {n \in DOMAIN received : ~Removed(received[n])}}
  IN  /\ {candles[k].time : k \in DOMAIN candles} = times
      /\ \A k \in DOMAIN candles :
           /\ k > 1 => candles[k - 1].time < candles[k].time
           /\ candles[k] = Normalized(received[Max(good(candles[k].time))])
      /\ Processed(candles) = candles

\* The report accounts for every row that is gone (and may count one twice).
LossesCounted ==
  LET report == Report(received)
  IN  report.rowsIn - report.rowsOut <= report.missing + report.invalid + report.duplicates

\* The two services see the same candle, but for a time whose last row only the
\* workspace takes; the production service sees none the workspace does not.
ServicesAgree ==
  LET strict == StrictlyProcessed(received)
      lenient == Processed(received)
  IN  \A k \in DOMAIN strict : \E n \in DOMAIN lenient :
        /\ lenient[n].time = strict[k].time
        /\ \/ lenient[n] = strict[k]
           \/ \E m \in DOMAIN received : /\ received[m].time = strict[k].time
                                         /\ Normalized(received[m]) = lenient[n] /\ ~Strict(received[m])

\* A candle later than all others changes none of their metrics; only their opening
\* range looks ahead, within the day, while the opening window lasts.
NoLookAhead ==
  [][LET before == Processed(received)
         after == Processed(received')
     IN  IsPrefix(before, after) /\ Len(after) > Len(before) =>
           \A k \in DOMAIN before :
             /\ MetricsOf(after, k) = MetricsOf(before, k)
             /\ OpeningRange(after, k) # OpeningRange(before, k) =>
                  Opens(Last(after)) /\ Day(Last(after)) = Day(before[k])]_received
=============================================================================
