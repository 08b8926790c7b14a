--------------------------- MODULE ProductionSignals ---------------------------
(***************************************************************************)
(* POST /signals/run (production_runtime.py): a batch of signals is cached *)
(* for a moment; the candles it is made from are cached by the market data *)
(* service (domain/market_data/service.py), which retries its provider,    *)
(* refuses candles whose last bar is old, and breaks the circuit once it   *)
(* gave up; and the provider answers from the caches of LiveCandles.       *)
(*                                                                         *)
(* Every request has the same parameters, so there is one entry of each    *)
(* cache.  The sleeps between attempts are shorter than a tick.  In        *)
(* ProductionNext nobody else asks for candles and Redis keeps what it     *)
(* has; MarketNext is the same among the other callers of LiveCandles.     *)
(***************************************************************************)
EXTENDS LiveCandles

CONSTANTS ResultTtl,    \* result_ttl_seconds
          FrameTtl,     \* cache_ttl_seconds
          StaleAfter,   \* stale_after_seconds
          BreakTime,    \* how long the circuit is open: 30 seconds
          MaxRetries,   \* max_retries
          MaxRequests   \* bound of the requests of a caller

ASSUME AgesAssumption == {ResultTtl, FrameTtl, StaleAfter, BreakTime} \subseteq Nat /\ 1 \in Periods

VARIABLES results,     \* _result_cache: a set of at most one entry
          frames30,    \* the entry of the cache store
          openUntil,   \* breaker.opened_until, 0 when it is closed
          requests         \* per caller: its run_signals

productionVars == <<results, frames30, openUntil, requests>>

NotRun == [phase |-> "done", attempt |-> 0, began |-> 0, how |-> "none", bar |-> 0, served |-> 0, asked |-> 0]

ProductionInit ==
  /\ results = {} /\ frames30 = {} /\ openUntil = 0
  /\ requests = [c \in Callers |-> NotRun]

-----------------------------------------------------------------------------
(* The caches: a frame still counts at the moment it expires, a result not. *)

FrameKept == {e.bar : e \in {x \in frames30 : now <= x.until}}
ResultKept == {e.bar : e \in {x \in results : now < x.until}}

StoreResult(bar) == results' = IF ResultTtl <= 0 THEN {} ELSE {[bar |-> bar, until |-> now + ResultTtl]}

\* The breaker is open: it opens until a later moment.
Broken == openUntil > now

Serve(c, how, bar, asked) ==
  requests' = [requests EXCEPT ![c] = [NotRun EXCEPT !.how = how, !.bar = bar, !.served = now, !.asked = asked]]

-----------------------------------------------------------------------------
(* A request. *)

\* The provider asks Yahoo for the day, and takes what is cached.
Attempt(c) == Ask(c, "YAHOO", 1, FALSE)

RunSignals(c) ==
  /\ requests[c].phase = "done" /\ requests[c].asked < MaxRequests
  /\ LET asked == requests[c].asked + 1
     IN  \/ /\ \E bar \in ResultKept : Serve(c, "result", bar, asked)
            /\ UNCHANGED <<candleVars, results>>
         \/ /\ ResultKept = {}
            /\ \E bar \in FrameKept : Serve(c, "frame", bar, asked) /\ StoreResult(bar)
            /\ UNCHANGED candleVars
         \/ /\ ResultKept = {} /\ FrameKept = {} /\ Broken
            /\ Serve(c, "refused", 0, asked)
            /\ UNCHANGED <<candleVars, results>>
         \/ /\ ResultKept = {} /\ FrameKept = {} /\ ~Broken
            /\ requests' = [requests EXCEPT ![c] = [NotRun EXCEPT !.phase = "fetching", !.attempt = 1, !.began = now,
                                                          !.asked = asked]]
            /\ Attempt(c)
            /\ UNCHANGED results
  /\ UNCHANGED <<frames30, openUntil>>

Fetched(c) == requests[c].phase = "fetching" /\ calls[c].phase = "done"

\* Rows whose last bar is not old.
Usable(call) == \E rows \in call.rows : now - rows.asOf <= StaleAfter

\* Candles are cached, the breaker forgets its failures, and the batch of the
\* strategy is cached in turn.
Succeed(c) ==
  /\ Fetched(c) /\ Usable(calls[c])
  /\ \E rows \in calls[c].rows :
       /\ frames30' = {[bar |-> rows.asOf, until |-> now + FrameTtl]}
       /\ StoreResult(rows.asOf)
       /\ Serve(c, "provider", rows.asOf, requests[c].asked)
  /\ openUntil' = 0
  /\ UNCHANGED candleVars

\* A failed attempt closes the breaker, the last one opens it.
Retry(c) ==
  /\ Fetched(c) /\ ~Usable(calls[c]) /\ requests[c].attempt <= MaxRetries
  /\ openUntil' = 0
  /\ requests' = [requests EXCEPT ![c].attempt = @ + 1]
  /\ Attempt(c)
  /\ UNCHANGED <<results, frames30>>

GiveUp(c) ==
  /\ Fetched(c) /\ ~Usable(calls[c]) /\ requests[c].attempt > MaxRetries
  /\ openUntil' = now + BreakTime
  /\ Serve(c, "failed", 0, requests[c].asked)
  /\ UNCHANGED <<candleVars, results, frames30>>

\* Whoever finds an entry expired takes it out: nobody can find it any more.
Expire ==
  /\ frames30' = {x \in frames30 : now + 1 <= x.until}
  /\ results' = {x \in results : now + 1 < x.until}

ProductionNext ==
  \/ Tick /\ Expire /\ UNCHANGED <<openUntil, requests>>
  \/ \E c \in Callers :
       \/ RunSignals(c) \/ Succeed(c) \/ Retry(c) \/ GiveUp(c)
       \/ Reply(c) /\ UNCHANGED productionVars

MarketNext == ProductionNext \/ (CandlesNext /\ UNCHANGED productionVars)
MarketSpec == CandlesInit /\ ProductionInit /\ [][MarketNext]_<<candleVars, productionVars>>

-----------------------------------------------------------------------------
(* Properties. *)

\* Whatever the caches that signals came through, the last bar they are of is no
\* older than the ages that each of them allows together.
SignalsNotOld ==
  \A c \in Callers : requests[c].how \in {"result", "frame", "provider"} =>
    requests[c].served - requests[c].bar <= StaleAfter + FrameTtl + ResultTtl

\* An open circuit is closed, or kept open longer, only by a request that was
\* at its attempts before it opened.
OpenCircuitHolds ==
  [][openUntil > now /\ openUntil' # openUntil =>
       \E c \in Callers : requests[c].phase = "fetching" /\ requests[c].began <= openUntil - BreakTime]_<<candleVars, productionVars>>

\* Candles on their way from the feed to a strategy: through all caches and fallbacks
\* none is older than they allow, nor of another question than the one that was asked
\* (live_ohlcv.py:570,653, market_data/service.py:118,135, production_runtime.py:97).
MarketDataHolds ==
  /\ [](AnswersAreOwn /\ SignalsNotOld)
  /\ FailedHadNothing /\ CachedNeverFarBack /\ OpenCircuitHolds
=============================================================================
