----------------------------- MODULE CandleFrame -----------------------------
(***************************************************************************)
(* The candles a strategy is run over.  The frame grows by a candle at a   *)
(* time, and every strategy is a function of the whole frame, run again    *)
(* from nothing on every request.                                          *)
(***************************************************************************)
EXTENDS Integers, Sequences, SequencesExt, FiniteSetsExt

CONSTANT Ceiling   \* prices are 0 .. Ceiling

Buy == "BUY"
Sell == "SELL"
Sides == {Buy, Sell}

Bars(f) == 1 .. Len(f)

\* The largest of two numbers, the smallest, and the distance between two.
Higher(a, b) == IF a >= b THEN a ELSE b
Lower(a, b) == IF a <= b THEN a ELSE b
Gap(a, b) == Higher(a, b) - Lower(a, b)

\* The bars of the day of bar k, and those of them that had come by then.
DayOf(f, k) == {j \in Bars(f) : f[j].day = f[k].day}
SoFar(f, k) == {j \in DayOf(f, k) : j <= k}

\* The prices of the frame turned upside down, and the side that wins there.
Flip(side) == IF side = Buy THEN Sell ELSE Buy
Turned(price) == Ceiling - price

\* The frames after one more candle, so many days after the last one.
Longer(f, candle, days) ==
  {Append(f, [candle EXCEPT !.day = IF f = <<>> THEN 1 ELSE Last(f).day + d]) : d \in days}
=============================================================================
