----------------------- MODULE ReviewedTradeLifecycle -----------------------
(***************************************************************************)
(* What the lifecycle of reviewed trades promises to everyone who reads    *)
(* the reviewed_trades table, whichever requests run at the same time.  A  *)
(* request works on a copy of a trade.  It moves its copy only along the   *)
(* table of allowed transitions, and saves nothing but its copy.  It does  *)
(* not look again before it saves, so what another request saved meanwhile *)
(* is overwritten; with one request at a time the trade itself moves along *)
(* the table.                                                              *)
(***************************************************************************)
EXTENDS TradeStatuses

CONSTANTS
  Trades,      \* identities of reviewed trades
  Requests     \* those who read and write them

VARIABLES
  status,      \* committed status of each trade, "ABSENT" before creation
  copy         \* each request's trade and the status it has given it, or NoCopy

NoCopy == <<>>

Init ==
  /\ status = [t \in Trades |-> "ABSENT"]
  /\ copy = [r \in Requests |-> NoCopy]

Create(t) ==
  /\ status[t] = "ABSENT"
  /\ \E st \in ReviewedTradeStatus : status' = [status EXCEPT ![t] = st]
  /\ UNCHANGED copy

Read(r, t) ==
  /\ status[t] # "ABSENT"
  /\ copy' = [copy EXCEPT ![r] = <<t, status[t]>>]
  /\ UNCHANGED status

Move(r) ==
  /\ copy[r] # NoCopy
  /\ \E st \in AllowedTransitions[copy[r][2]] : copy' = [copy EXCEPT ![r] = <<copy[r][1], st>>]
  /\ UNCHANGED status

Save(r) ==
  /\ copy[r] # NoCopy
  /\ status' = [status EXCEPT ![copy[r][1]] = copy[r][2]]
  /\ \E kept \in {copy[r], NoCopy} : copy' = [copy EXCEPT ![r] = kept]

\* The copy of a request ends with it.
Drop(r) == copy' = [copy EXCEPT ![r] = NoCopy] /\ UNCHANGED status

Next ==
  \/ \E t \in Trades : Create(t)
  \/ \E r \in Requests : Move(r) \/ Save(r) \/ Drop(r) \/ \E t \in Trades : Read(r, t)

Spec == Init /\ [][Next]_<<status, copy>>
=============================================================================
