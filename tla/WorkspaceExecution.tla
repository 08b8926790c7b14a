------------------------- MODULE WorkspaceExecution -------------------------
(***************************************************************************)
(* The limits on automatic trading.  Requests of the API and event workers *)
(* execute batches of candidates at the same time.  Every candidate passes *)
(* two layers of limits.  The workspace guards read the executions table,  *)
(* where only reviewed trades are recorded, and the rows of their own      *)
(* batch.  The execution guard keeps duplicate marks, cooldowns and daily  *)
(* counts in a store (Redis, or the memory of one process): it reads them  *)
(* before the order and writes them after it.                              *)
(***************************************************************************)
EXTENDS RiskAllocation, FiniteSets, FiniteSetsExt, Functions, Sequences, TLC

CONSTANTS
  Sessions,         \* requests and workers that execute batches
  Batch,            \* the candidates of each of them, in order
  StoreOf,          \* the guard store each of them uses
  ExpiringStores,   \* stores whose cooldowns end: Redis, not the in-memory one
  Reviewed,         \* reviewed trades another path may execute meanwhile
  Mode,             \* "PAPER" or "LIVE"
  MaxTradesPerDay,  \* of the request; zero when it has none
  Limits,           \* of the portfolio, in money; zero is off
  Bucket,           \* minutes that make two signals the same
  Cooldown,         \* minutes between two trades
  NoCandidate,
  MaxBatches,       \* bound on the batches of a session
  MaxFaults         \* bound on failures

Candidates == UNION {{Batch[w][i] : i \in 1..Len(Batch[w])} : w \in Sessions}
Stores     == {StoreOf[w] : w \in Sessions}

\* Prices and limits are amounts of money; a candidate may ask for any quantity.
ASSUME WorkspaceAssumption ==
  /\ IsFiniteSet(Sessions) /\ IsFiniteSet(Reviewed)
  /\ \A w \in Sessions : Batch[w] \in Seq(Candidates)
  /\ \A c \in Candidates : c.price \in Nat /\ c.stop \in Nat /\ c.quantity \in Int
  /\ \A r \in Reviewed : r.price \in Nat /\ r.stop \in Nat /\ r.quantity \in Nat
  /\ Limits \in Amounts
  /\ NoCandidate \notin Candidates
  /\ MaxTradesPerDay \in Nat /\ MaxBatches \in Nat /\ MaxFaults \in Nat

VARIABLES
  booked,      \* reviewed trades with an executed row in the executions table
  closed,      \* those of them that are closed
  results,     \* committed executions_v2 status per idempotency key
  dedup,       \* <<store, idempotency key>> marked as executed
  cooldown,    \* <<store, symbol, strategy>> cooling down
  count,       \* trades counted today per store and symbol
  worker,      \* what each session has in memory
  batches,     \* batches started by each session
  faults,
  orders,      \* history: orders placed per store and symbol
  uncounted,   \* history: orders or refusals the count does not show
  burst,       \* history: orders per <<store, symbol, strategy>> since it last cooled down
  unmarked     \* history: those of them that set no cooldown

tables  == <<booked, closed>>
store   == <<dedup, cooldown, count>>
history == <<orders, uncounted, burst, unmarked>>
vars    == <<tables, results, store, worker, batches, faults, history>>

-----------------------------------------------------------------------------
(* Identities of candidates *)

Symbols == {c.symbol : c \in Candidates}
AllSymbols == Symbols \cup {r.symbol : r \in Reviewed}
Slot(minute) == minute \div Bucket

\* Within a batch; in the signals table; as an idempotency key.
TradeKey(c)  == <<c.symbol, c.side, c.setup, Slot(c.minute)>>
SignalKey(c) == <<c.symbol, c.side, c.strategy, Slot(c.minute)>>
RequestId(c) == <<c.symbol, c.setup, c.side, c.minute>>

CoolKey(w, c) == <<StoreOf[w], c.symbol, c.strategy>>
Counter(w, c) == <<StoreOf[w], c.symbol>>
Counters      == Stores \X Symbols
CoolKeys      == Stores \X Symbols \X {c.strategy : c \in Candidates}
RequestIds    == {RequestId(c) : c \in Candidates}

\* `max_trades_per_day or 5`: a request without a limit gets five.
DailyLimit == IF MaxTradesPerDay = 0 THEN 5 ELSE MaxTradesPerDay

Users(s) == {w \in Sessions : StoreOf[w] = s}

None    == "NONE"
Status  == {"EXECUTED", "REJECTED", "BLOCKED", "ERROR"}
Results == {"EXECUTED", "REJECTED"}
\* In the canonical service: the steps before and after the order goes out.
Before  == {"saving", "checking", "counting", "cleared"}
After   == {"placed", "marked", "counted"}
Steps   == {"idle", "next", "refused"} \cup Before \cup After
\* Between its INSERT of a request and the end of the transaction.
Uncommitted == {"checking", "counting", "cleared", "refused"} \cup After

Row ==
  [candidate : Candidates, quantity : Nat, status : Status,
   exhausted : BOOLEAN]   \* some limit left nothing, and the candidate passed

WorkerState ==
  [step : Steps, todo : Seq(Candidates), keys : SUBSET {TradeKey(c) : c \in Candidates},
   rows : Seq(Row), candidate : Candidates \cup {NoCandidate}, quantity : Nat,
   exhausted : BOOLEAN]

Idle == [step |-> "idle", todo |-> <<>>, keys |-> {}, rows |-> <<>>,
         candidate |-> NoCandidate, quantity |-> 0, exhausted |-> FALSE]

At(w, steps)   == worker[w].step \in steps
Current(w)     == worker[w].candidate
Update(w, new) == worker' = [worker EXCEPT ![w] = new]
Goto(w, step)  == Update(w, [worker[w] EXCEPT !.step = step])
Fault          == faults < MaxFaults /\ faults' = faults + 1

Init ==
  /\ booked = {} /\ closed = {}
  /\ results = [r \in RequestIds |-> None]
  /\ dedup = {} /\ cooldown = {}
  /\ count = [k \in Counters |-> 0]
  /\ worker = [w \in Sessions |-> Idle]
  /\ batches = [w \in Sessions |-> 0]
  /\ faults = 0
  /\ orders = [k \in Counters |-> 0] /\ uncounted = [k \in Counters |-> 0]
  /\ burst = [k \in CoolKeys |-> 0] /\ unmarked = [k \in CoolKeys |-> 0]

-----------------------------------------------------------------------------
(* Reviewed trades, which another path executes and closes *)

BookReviewed(r) ==
  /\ r \in Reviewed \ booked
  /\ booked' = booked \cup {r}
  /\ UNCHANGED <<closed, results, store, worker, batches, faults, history>>

CloseReviewed(r) ==
  /\ r \in booked \ closed
  /\ closed' = closed \cup {r}
  /\ UNCHANGED <<booked, results, store, worker, batches, faults, history>>

-----------------------------------------------------------------------------
(* The guards of the workspace *)

\* Rows that count as open positions: of reviewed trades, and of the batch.
OpenRows(w) == {i \in DOMAIN worker[w].rows : worker[w].rows[i].status = "EXECUTED"}
OpenReviewed == booked \ closed

Notional(quantity, c) == quantity * c.price
Risk(quantity, c)     == quantity * UnitRisk(c)

Amount(kind, quantity, c) ==
  IF kind = "notional" THEN Notional(quantity, c) ELSE Risk(quantity, c)

\* Totals of an amount over what is open with a symbol of `symbols`: the rows of
\* the batch, and the reviewed trades.
BatchTotal(w, kind, symbols) ==
  LET rows == worker[w].rows
  IN  SumFunction([i \in {j \in OpenRows(w) : rows[j].candidate.symbol \in symbols} |->
        Amount(kind, rows[i].quantity, rows[i].candidate)])

ReviewedTotal(kind, symbols) ==
  SumFunction([r \in {t \in OpenReviewed : t.symbol \in symbols} |-> Amount(kind, r.quantity, r)])

OpenTotal(w, kind, symbols) == BatchTotal(w, kind, symbols) + ReviewedTotal(kind, symbols)

Open(w, c) ==
  [positions |-> Cardinality(OpenRows(w)) + Cardinality(OpenReviewed),
   notional  |-> OpenTotal(w, "notional", AllSymbols),
   symbol    |-> OpenTotal(w, "notional", {c.symbol}),
   risk      |-> OpenTotal(w, "risk", AllSymbols)]

Allocation(w, c) == Allocate(c, Open(w, c), Limits)

\* A signal of the signals table, or of the batch, in the same slot of time.
Duplicate(w, c) ==
  TradeKey(c) \in worker[w].keys \/ \E r \in booked : SignalKey(r) = SignalKey(c)

\* Minutes since the last executed row: negative for an earlier candidate.
Cooling(c) ==
  booked # {} /\ c.minute - Max({r.minute : r \in booked}) < Cooldown

Blocked(w, c) ==
  \/ ~c.accepted \/ ~c.inSession \/ Duplicate(w, c) \/ Cooling(c)
  \/ MaxTradesPerDay > 0 /\ Cardinality(booked) >= MaxTradesPerDay
  \/ OpenReviewed # {}
  \/ Allocation(w, c).reasons # {}

Start(w) ==
  /\ At(w, {"idle"}) /\ batches[w] < MaxBatches
  /\ batches' = [batches EXCEPT ![w] = @ + 1]
  /\ Update(w, [Idle EXCEPT !.step = "next", !.todo = Batch[w]])
  /\ UNCHANGED <<tables, results, store, faults, history>>

\* Mutant: the session keeps the candidate in hand.
RecordInHand(w, c, quantity, status, exhausted) ==
  Update(w, [worker[w] EXCEPT
    !.step = "next", !.todo = Tail(worker[w].todo), !.keys = @ \cup {TradeKey(c)},
    !.rows = Append(@, [candidate |-> c, quantity |-> quantity, status |-> status,
                        exhausted |-> exhausted])])

\* The row of a candidate is written down and its key remembered; whatever its
\* status, no candidate with the same key follows it in the batch.
Record(w, c, quantity, status, exhausted) ==
  Update(w, [worker[w] EXCEPT
    !.step = "next", !.todo = Tail(worker[w].todo), !.keys = @ \cup {TradeKey(c)},
    !.rows = Append(@, [candidate |-> c, quantity |-> quantity, status |-> status,
                        exhausted |-> exhausted]),
    !.candidate = NoCandidate, !.quantity = 0, !.exhausted = FALSE])

RecordCurrent(w, status) ==
  Record(w, Current(w), worker[w].quantity, status, worker[w].exhausted)

Upcoming(w) == At(w, {"next"}) /\ worker[w].todo # <<>>

Block(w) ==
  /\ Upcoming(w)
  /\ LET c == Head(worker[w].todo)
     IN  Blocked(w, c) /\ Record(w, c, Allocation(w, c).quantity, "BLOCKED", FALSE)
  /\ UNCHANGED <<tables, results, store, batches, faults, history>>

\* A candidate passes the guards.  A result under its idempotency key is taken
\* over; otherwise a request is saved next.
Pass(w) ==
  /\ Upcoming(w)
  /\ LET c == Head(worker[w].todo)
         quantity == Allocation(w, c).quantity
         exhausted == Exhausted(Caps(c, Open(w, c), Limits))
     IN  /\ ~Blocked(w, c)
         /\ \/ /\ results[RequestId(c)] # None
               /\ Record(w, c, quantity, results[RequestId(c)], exhausted)
            \/ /\ results[RequestId(c)] = None
               /\ Update(w, [worker[w] EXCEPT
                    !.step = "saving", !.candidate = c,
                    !.quantity = quantity, !.exhausted = exhausted])
  /\ UNCHANGED <<tables, results, store, batches, faults, history>>

Finish(w) ==
  /\ At(w, {"next"}) /\ worker[w].todo = <<>>
  /\ Update(w, Idle)
  /\ UNCHANGED <<tables, results, store, batches, faults, history>>

-----------------------------------------------------------------------------
(* The canonical service and the execution guard *)

\* Mutant: two INSERTs wait for each other.
KeyWanted(w) ==
  \E v \in Sessions \ {w} :
    At(v, {"saving"} \cup Uncommitted) /\ RequestId(Current(v)) = RequestId(Current(w))

\* The INSERT waits for another transaction that holds the idempotency key.
KeyHeld(w) ==
  \E v \in Sessions \ {w} :
    At(v, Uncommitted) /\ RequestId(Current(v)) = RequestId(Current(w))

SaveRequest(w) ==
  /\ At(w, {"saving"}) /\ ~KeyHeld(w)
  /\ IF results[RequestId(Current(w))] = None
     THEN Goto(w, "checking") ELSE RecordCurrent(w, "ERROR")
  /\ UNCHANGED <<tables, results, store, batches, faults, history>>

\* `live_unlock_token_required` is always set, so a LIVE request is refused.
Marked(w) ==
  \/ Mode = "LIVE"
  \/ <<StoreOf[w], RequestId(Current(w))>> \in dedup
  \/ CoolKey(w, Current(w)) \in cooldown

\* Mutant: the cooldown is not looked at.
CheckOnlyDedup(w) ==
  /\ At(w, {"checking"})
  /\ Goto(w, IF <<StoreOf[w], RequestId(Current(w))>> \in dedup THEN "refused" ELSE "counting")
  /\ UNCHANGED <<tables, results, store, batches, faults, history>>

CheckMarks(w) ==
  /\ At(w, {"checking"})
  /\ Goto(w, IF Marked(w) THEN "refused" ELSE "counting")
  /\ UNCHANGED <<tables, results, store, batches, faults, history>>

\* Redis does not answer: the lock counts as held, or, if it broke down after
\* the lock, no mark is seen.
CheckMarksBlindly(w) ==
  /\ At(w, {"checking"}) /\ StoreOf[w] \in ExpiringStores /\ Mode # "LIVE" /\ Fault
  /\ \/ Goto(w, "refused") /\ UNCHANGED unmarked
     \/ Goto(w, "counting") /\ unmarked' = [unmarked EXCEPT ![CoolKey(w, Current(w))] = @ + 1]
  /\ UNCHANGED <<tables, results, store, batches, orders, uncounted, burst>>

Acceptable(c) == c.inSession /\ UnitRisk(c) > 0

\* Mutant: the limit itself still passes.
CheckCountLate(w) ==
  /\ At(w, {"counting"})
  /\ Goto(w, IF count[Counter(w, Current(w))] <= DailyLimit /\ Acceptable(Current(w))
             THEN "cleared" ELSE "refused")
  /\ UNCHANGED <<tables, results, store, batches, faults, history>>

CheckCount(w) ==
  /\ At(w, {"counting"})
  /\ Goto(w, IF count[Counter(w, Current(w))] < DailyLimit /\ Acceptable(Current(w))
             THEN "cleared" ELSE "refused")
  /\ UNCHANGED <<tables, results, store, batches, faults, history>>

\* No answer counts as zero trades.
CheckCountBlindly(w) ==
  /\ At(w, {"counting"}) /\ StoreOf[w] \in ExpiringStores /\ Fault
  /\ Acceptable(Current(w)) /\ Goto(w, "cleared")
  /\ uncounted' = [uncounted EXCEPT ![Counter(w, Current(w))] = @ + 1]
  /\ UNCHANGED <<tables, results, store, batches, orders, burst, unmarked>>

PlaceOrder(w) ==
  /\ At(w, {"cleared"})
  /\ Goto(w, "placed")
  /\ orders' = [orders EXCEPT ![Counter(w, Current(w))] = @ + 1]
  /\ burst' = [burst EXCEPT ![CoolKey(w, Current(w))] = @ + 1]
  /\ UNCHANGED <<tables, results, store, batches, faults, uncounted, unmarked>>

\* The marks of an executed order: duplicate and cooldown, then the count.  Redis
\* may lose each of them without a word.
SetMarks(w) ==
  /\ At(w, {"placed"})
  /\ Goto(w, "marked")
  /\ dedup' = dedup \cup {<<StoreOf[w], RequestId(Current(w))>>}
  /\ cooldown' = cooldown \cup {CoolKey(w, Current(w))}
  /\ UNCHANGED <<tables, results, count, batches, faults, history>>

LoseMarks(w) ==
  /\ At(w, {"placed"}) /\ StoreOf[w] \in ExpiringStores /\ Fault
  /\ Goto(w, "marked")
  /\ unmarked' = [unmarked EXCEPT ![CoolKey(w, Current(w))] = @ + 1]
  /\ UNCHANGED <<tables, results, store, batches, orders, uncounted, burst>>

CountTrade(w) ==
  /\ At(w, {"marked"})
  /\ Goto(w, "counted")
  /\ count' = [count EXCEPT ![Counter(w, Current(w))] = @ + 1]
  /\ UNCHANGED <<tables, results, dedup, cooldown, batches, faults, history>>

LoseCount(w) ==
  /\ At(w, {"marked"}) /\ StoreOf[w] \in ExpiringStores /\ Fault
  /\ Goto(w, "counted")
  /\ uncounted' = [uncounted EXCEPT ![Counter(w, Current(w))] = @ + 1]
  /\ UNCHANGED <<tables, results, store, batches, orders, burst, unmarked>>

CommitResult(w) ==
  /\ At(w, {"counted", "refused"})
  /\ LET status == IF At(w, {"counted"}) THEN "EXECUTED" ELSE "REJECTED"
     IN  /\ results' = [results EXCEPT ![RequestId(Current(w))] = status]
         /\ RecordCurrent(w, status)
  /\ UNCHANGED <<tables, store, batches, faults, history>>

-----------------------------------------------------------------------------
(* Failures *)

\* What the store will never hear of when the sessions in ws stop where they are.
Forget(ws) ==
  /\ uncounted' = [k \in Counters |-> uncounted[k]
       + Cardinality({w \in ws : At(w, {"placed", "marked"}) /\ Counter(w, Current(w)) = k})]
  /\ unmarked' = [k \in CoolKeys |-> unmarked[k]
       + Cardinality({w \in ws : At(w, {"placed"}) /\ CoolKey(w, Current(w)) = k})]

\* The database fails: the transaction is rolled back, and the batch goes on.
SignalFails(w) ==
  /\ At(w, {"saving", "checking", "cleared", "placed", "counted", "refused"}) /\ Fault
  /\ RecordCurrent(w, "ERROR")
  /\ Forget({w})
  /\ UNCHANGED <<tables, results, store, batches, orders, burst>>

Crash(w) ==
  /\ StoreOf[w] \in ExpiringStores /\ ~At(w, {"idle"}) /\ Fault
  /\ Update(w, Idle)
  /\ Forget({w})
  /\ UNCHANGED <<tables, results, store, batches, orders, burst>>

\* A store loses its marks and counts: a process with an in-memory one restarts
\* with its sessions, or Redis restarts empty.
StoreLost(s) ==
  /\ Fault
  /\ worker' = [w \in Sessions |->
       IF StoreOf[w] = s /\ s \notin ExpiringStores THEN Idle ELSE worker[w]]
  /\ dedup' = {m \in dedup : m[1] # s}
  /\ cooldown' = {m \in cooldown : m[1] # s}
  /\ count' = [k \in Counters |-> IF k[1] = s THEN 0 ELSE count[k]]
  /\ uncounted' = [k \in Counters |-> IF k[1] = s THEN orders[k] ELSE uncounted[k]]
  /\ unmarked' = [k \in CoolKeys |-> IF k[1] = s THEN burst[k] ELSE unmarked[k]]
  /\ UNCHANGED <<tables, results, batches, orders, burst>>

\* Redis ends a cooldown.
Expire(k) ==
  /\ k \in cooldown /\ k[1] \in ExpiringStores
  /\ cooldown' = cooldown \ {k}
  /\ burst' = [burst EXCEPT ![k] = 0]
  /\ UNCHANGED <<tables, results, dedup, count, worker, batches, faults, orders, uncounted, unmarked>>

-----------------------------------------------------------------------------
Decide(w) == Block(w) \/ Pass(w)

\* What a session does between two candidates when nothing fails.
Proceed(w) ==
  \/ SaveRequest(w) \/ CheckMarks(w) \/ CheckCount(w) \/ PlaceOrder(w)
  \/ SetMarks(w) \/ CountTrade(w) \/ CommitResult(w) \/ Finish(w)

Next ==
  \/ \E r \in Reviewed : BookReviewed(r) \/ CloseReviewed(r)
  \/ \E w \in Sessions :
       \/ Start(w) \/ Decide(w) \/ Proceed(w)
       \/ CheckMarksBlindly(w) \/ CheckCountBlindly(w) \/ LoseMarks(w) \/ LoseCount(w)
       \/ SignalFails(w) \/ Crash(w)
  \/ \E s \in Stores : StoreLost(s)
  \/ \E k \in CoolKeys : Expire(k)

Spec == Init /\ [][Next]_vars

\* A session that executes a batch goes on; nothing need fail, start or expire.
\* Decide(w) is enabled whenever Upcoming(w) holds: the second conjunct is its weak
\* fairness, in a form TLC checks faster.
FairSpec ==
  /\ Spec
  /\ \A w \in Sessions : WF_vars(Proceed(w)) /\ ([]<>~Upcoming(w) \/ []<><<Decide(w)>>_vars)

-----------------------------------------------------------------------------
(* Properties *)

\* Tables, store, sessions and histories hold values of their kinds.
TypeOK ==
  /\ booked \subseteq Reviewed /\ closed \subseteq booked
  /\ results \in [RequestIds -> Results \cup {None}]
  /\ dedup \subseteq Stores \X RequestIds /\ cooldown \subseteq CoolKeys
  /\ count \in [Counters -> Nat]
  /\ worker \in [Sessions -> WorkerState]
  /\ \A w \in Sessions : (Current(w) = NoCandidate) <=> At(w, {"idle", "next"})
  /\ batches \in [Sessions -> Nat] /\ faults \in Nat
  /\ orders \in [Counters -> Nat] /\ uncounted \in [Counters -> Nat]
  /\ burst \in [CoolKeys -> Nat] /\ unmarked \in [CoolKeys -> Nat]

\* A symbol gets no more orders a day through one guard store than the limit and
\* one for each other session that was between its check and its count, except for
\* those the store was never told of (guard.py:166 reads the count, guard.py:151
\* writes it after the order).
DailyLimitHolds ==
  \A k \in Counters :
    orders[k] <= DailyLimit + Cardinality(Users(k[1])) - 1 + uncounted[k]

\* Between two ends of its cooldown a strategy places at most one order of a symbol
\* per session of the store, except for those that left no mark (guard.py:150,170).
CooldownHolds ==
  \A k \in CoolKeys : burst[k] <= Cardinality(Users(k[1])) + unmarked[k]

\* What a batch has executed stays within the portfolio, symbol and open-risk
\* limits, unless a limit had nothing left when a candidate passed: the cap of zero
\* is then replaced by the next one (risk_engine.py:155,164,173,182).
BatchExposure ==
  \A w \in Sessions : (\A i \in OpenRows(w) : ~worker[w].rows[i].exhausted) =>
    /\ Limits.portfolio > 0 => BatchTotal(w, "notional", AllSymbols) <= Limits.portfolio
    /\ Limits.openRisk > 0 => BatchTotal(w, "risk", AllSymbols) <= Limits.openRisk
    /\ Limits.symbol > 0 =>
         \A s \in Symbols : BatchTotal(w, "notional", {s}) <= Limits.symbol

\* A batch comes to its end, although its INSERTs wait for the transactions of
\* other sessions (canonical_service.py:82).
BatchesEnd == \A w \in Sessions : ~At(w, {"idle"}) ~> At(w, {"idle"})
=============================================================================
