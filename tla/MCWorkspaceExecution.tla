------------------------ MODULE MCWorkspaceExecution ------------------------
EXTENDS WorkspaceExecution

CONSTANTS w1, w2, redis

Candidate(side, setup, minute, quantity, stop) ==
  [symbol |-> "NIFTY", side |-> side, setup |-> setup, strategy |-> "breakout",
   minute |-> minute, quantity |-> quantity, price |-> 10, stop |-> stop,
   accepted |-> TRUE, inSession |-> TRUE]

\* Two processes share Redis; the second repeats one candidate of the first.
MCBatch ==
  (w1 :> <<Candidate("BUY", "RANGE", 0, 3, 8), Candidate("BUY", "GAP", 20, 2, 9),
           Candidate("BUY", "GAP", 21, 2, 9)>>)
  @@ (w2 :> <<Candidate("BUY", "RANGE", 0, 3, 8), Candidate("SELL", "RANGE", 40, 4, 12)>>)

MCStoreOf == (w1 :> redis) @@ (w2 :> redis)

MCReviewed ==
  {[symbol |-> "NIFTY", side |-> "BUY", strategy |-> "breakout", minute |-> 2,
    quantity |-> 1, price |-> 10, stop |-> 9]}

MCLimits ==
  [tradeRisk |-> 6, position |-> 0, portfolio |-> 30, symbol |-> 50, openRisk |-> 10,
   positions |-> 3, killSwitch |-> FALSE]
=============================================================================
