----------------------- MODULE ReviewedTradeExecution -----------------------
(***************************************************************************)
(* Review and execution of reviewed trades: several API requests, each in  *)
(* a database session of its own, create, review (PATCH) and execute       *)
(* (POST /executions) the same rows at the same time.                      *)
(*                                                                         *)
(* An execution request runs two transactions.  The first claims the trade *)
(* (EXECUTE_REQUESTED), asks the execution guard, hands the order to the   *)
(* broker adapter and commits the canonical request and result.  The       *)
(* second writes the executions row and moves the trade to its outcome.    *)
(* The broker and the guard store take part in neither transaction.        *)
(*                                                                         *)
(* The database is PostgreSQL at READ COMMITTED: a read sees committed     *)
(* values and takes no lock, an UPDATE holds the row from its flush to the *)
(* end of the transaction, and an INSERT waits for an uncommitted INSERT   *)
(* with an equal unique key.                                               *)
(***************************************************************************)
EXTENDS TradeStatuses, Naturals

CONSTANTS
  Trades,          \* identities of reviewed trades
  Sessions,        \* database sessions serving requests
  NoTrade,         \* trade of an idle session
  NoSession,       \* holder of a free row
  CreateStatuses,  \* statuses clients create trades in
  ReviewStatuses,  \* statuses reviewers ask for
  AdapterAnswers,  \* [Modes -> SUBSET Answers]: what each mode's adapter answers
  ExpireOnCommit,  \* does a commit expire the ORM objects of the session?
  Faults,          \* may requests die or fail halfway?
  MaxSubmissions   \* bound on execution requests

Modes == {"PAPER", "LIVE"}
Keys  == Trades \X Modes   \* uq_execution_reviewed_trade_mode, and the idempotency key

ASSUME ConstantsAssumption ==
  /\ NoTrade \notin Trades
  /\ NoSession \notin Sessions
  /\ CreateStatuses \subseteq ReviewedTradeStatus
  /\ ReviewStatuses \subseteq ReviewedTradeStatus
  /\ AdapterAnswers \in [Modes -> SUBSET Answers]
  /\ ExpireOnCommit \in BOOLEAN
  /\ Faults \in BOOLEAN
  /\ MaxSubmissions \in Nat

None == "NONE"   \* no row, no value

VARIABLES
  status,      \* reviewed_trades.status, committed; "ABSENT" before creation
  rowLock,     \* session holding each reviewed_trades row
  results,     \* executions_v2 status per idempotency key, committed
  executions,  \* executions.status per (trade, mode), committed
  events,      \* committed outbox events of the workflow: <<name, trade, mode>>
  dedup,       \* keys the guard store remembers as executed
  session,     \* what each session has in memory
  submitted,   \* execution requests so far
  orders,      \* history: orders handed to the adapter per key
  forgotten    \* history: how many of them nothing remembered at some time

vars == <<status, rowLock, results, executions, events, dedup, session,
          submitted, orders, forgotten>>

-----------------------------------------------------------------------------
(* Sessions *)

Executing == {"resolved", "checked", "claimed", "saved", "cleared", "placed",
              "decided", "committed", "answered", "inserted", "completing"}
Reviewing == {"reviewing", "reviewed"}
Steps     == {"idle"} \cup Executing \cup Reviewing

SessionState ==
  [step   : Steps,
   trade  : Trades \cup {NoTrade},
   mode   : Modes,
   seen   : ReviewedTradeStatus \cup {"ABSENT", None}, \* status of the ORM object
   answer : Answers \cup {None},                       \* execution status so far
   target : ReviewedTradeStatus \cup {None}]           \* status being written

Idle == [step |-> "idle", trade |-> NoTrade, mode |-> "PAPER",
         seen |-> None, answer |-> None, target |-> None]

Key(s)      == <<session[s].trade, session[s].mode>>
At(s, step) == session[s].step = step

Update(s, new) == session' = [session EXCEPT ![s] = new]
Goto(s, step)  == Update(s, [session[s] EXCEPT !.step = step])

\* A request starts by reading its trade.
Begin(s, step, t, m, target) ==
  Update(s, [step |-> step, trade |-> t, mode |-> m, seen |-> status[t],
             answer |-> None, target |-> target])

RowFree(s) == rowLock[session[s].trade] \in {NoSession, s}
LockRow(s) == rowLock' = [rowLock EXCEPT ![session[s].trade] = s]

\* End of a request: its transaction is over and its row locks are gone.
Finish(s) ==
  /\ Update(s, Idle)
  /\ rowLock' = [t \in Trades |-> IF rowLock[t] = s THEN NoSession ELSE rowLock[t]]

\* A session that handed its order to the adapter, or was refused by the
\* guard, and has not committed that yet.
HoldsOutcome(s, k) == session[s].step \in {"placed", "decided"} /\ Key(s) = k

\* Somebody still knows that an order may have gone out for key k.
Remembered(k) ==
  \/ results[k] # None
  \/ k \in dedup
  \/ \E s \in Sessions : HoldsOutcome(s, k)

\* History: orders that this step leaves without any memory of them.
RecordForgotten ==
  forgotten' = [k \in Keys |-> IF Remembered(k)' THEN forgotten[k] ELSE orders[k]]

-----------------------------------------------------------------------------
Init ==
  /\ status = [t \in Trades |-> "ABSENT"]
  /\ rowLock = [t \in Trades |-> NoSession]
  /\ results = [k \in Keys |-> None]
  /\ executions = [k \in Keys |-> None]
  /\ events = {}
  /\ dedup = {}
  /\ session = [s \in Sessions |-> Idle]
  /\ submitted = 0
  /\ orders = [k \in Keys |-> 0]
  /\ forgotten = [k \in Keys |-> 0]

-----------------------------------------------------------------------------
(* POST /reviewed-trades: one flush and one commit. *)

CreateTrade(t) ==
  /\ status[t] = "ABSENT"
  /\ \E st \in CreateStatuses : status' = [status EXCEPT ![t] = st]
  /\ UNCHANGED <<rowLock, results, executions, events, dedup, session,
                 submitted, orders, forgotten>>

(* PATCH /reviewed-trades/{id} *)

\* The row is read, without a lock, and the move is validated against it.
\* Asking for the status the trade has writes no status.
LoadForReview(s) ==
  /\ At(s, "idle")
  /\ \E t \in Trades, target \in ReviewStatuses :
       /\ status[t] # "ABSENT"
       /\ target # status[t]
       /\ CanTransition(status[t], target)
       /\ Begin(s, "reviewing", t, "PAPER", target)
  /\ UNCHANGED <<status, rowLock, results, executions, events, dedup,
                 submitted, orders, forgotten>>

\* The UPDATE is flushed: it waits for the row.
WriteReview(s) ==
  /\ At(s, "reviewing")
  /\ RowFree(s)
  /\ LockRow(s)
  /\ Goto(s, "reviewed")
  /\ UNCHANGED <<status, results, executions, events, dedup, submitted,
                 orders, forgotten>>

CommitReview(s) ==
  /\ At(s, "reviewed")
  /\ status' = [status EXCEPT ![session[s].trade] = session[s].target]
  /\ Finish(s)
  /\ UNCHANGED <<results, executions, events, dedup, submitted, orders, forgotten>>

-----------------------------------------------------------------------------
(* POST /executions, first transaction *)

\* Dependencies are resolved: only an approved trade goes further.  Requests
\* the service-level gates refuse write nothing and are left out.
Resolve(s) ==
  /\ At(s, "idle")
  /\ submitted < MaxSubmissions
  /\ submitted' = submitted + 1
  /\ \E t \in Trades, m \in Modes :
       /\ status[t] = "APPROVED"
       /\ Begin(s, "resolved", t, m, None)
  /\ UNCHANGED <<status, rowLock, results, executions, events, dedup, orders,
                 forgotten>>

\* ensure_no_duplicate_execution: an executions row ends the request.
CheckDuplicate(s) ==
  /\ At(s, "resolved")
  /\ \/ /\ executions[Key(s)] = None
        /\ Goto(s, "checked")
        /\ UNCHANGED rowLock
     \/ /\ executions[Key(s)] # None
        /\ Finish(s)
  /\ UNCHANGED <<status, results, executions, events, dedup, submitted, orders,
                 forgotten>>

\* Mutant: the claim is not flushed before the order, so it locks nothing.
ClaimWithoutFlush(s) ==
  /\ At(s, "checked")
  /\ Update(s, [session[s] EXCEPT !.step = "claimed", !.seen = "EXECUTE_REQUESTED"])
  /\ UNCHANGED <<status, rowLock, results, executions, events, dedup, submitted,
                 orders, forgotten>>

\* The move to EXECUTE_REQUESTED is validated and flushed: from here to the
\* end of the transaction the session holds the row.
ClaimTrade(s) ==
  /\ At(s, "checked")
  /\ CanTransition(session[s].seen, "EXECUTE_REQUESTED")
  /\ RowFree(s)
  /\ LockRow(s)
  /\ Update(s, [session[s] EXCEPT !.step = "claimed", !.seen = "EXECUTE_REQUESTED"])
  /\ UNCHANGED <<status, results, executions, events, dedup, submitted, orders,
                 forgotten>>

\* Mutant: the idempotency key is not looked up.
SaveWithoutLookUp(s) ==
  /\ At(s, "claimed")
  /\ Goto(s, "saved")
  /\ UNCHANGED <<status, rowLock, results, executions, events, dedup, submitted,
                 orders, forgotten>>

\* The canonical service returns a result stored under the idempotency key
\* as it is, without a commit; otherwise it saves the request.
LookUpResult(s) ==
  /\ At(s, "claimed")
  /\ \/ /\ results[Key(s)] # None
        /\ Update(s, [session[s] EXCEPT
             !.step = "answered",
             !.answer = LegacyStatus(results[Key(s)], session[s].mode)])
     \/ /\ results[Key(s)] = None
        /\ Goto(s, "saved")
  /\ UNCHANGED <<status, rowLock, results, executions, events, dedup, submitted,
                 orders, forgotten>>

\* The guard refuses a key it remembers; the other reasons it has (cooldown,
\* daily limits, session hours, store unavailable) may refuse any request.
EvaluateGuard(s) ==
  /\ At(s, "saved")
  /\ \/ /\ Key(s) \notin dedup
        /\ Goto(s, "cleared")
     \/ Update(s, [session[s] EXCEPT !.step = "decided", !.answer = "BLOCKED"])
  /\ UNCHANGED <<status, rowLock, results, executions, events, dedup, submitted,
                 orders, forgotten>>

PlaceOrder(s) ==
  /\ At(s, "cleared")
  /\ \E a \in AdapterAnswers[session[s].mode] :
       Update(s, [session[s] EXCEPT !.step = "placed", !.answer = a])
  /\ orders' = [orders EXCEPT ![Key(s)] = @ + 1]
  /\ UNCHANGED <<status, rowLock, results, executions, events, dedup, submitted,
                 forgotten>>

\* save_result is flushed, then the guard store is told of an executed order:
\* at once, not at the commit.
MarkExecuted(s) ==
  /\ At(s, "placed")
  /\ dedup' = IF CanonicalStatus(session[s].answer) = "EXECUTED"
              THEN dedup \cup {Key(s)} ELSE dedup
  /\ Goto(s, "decided")
  /\ UNCHANGED <<status, rowLock, results, executions, events, submitted,
                 orders, forgotten>>

\* Mutant: the request is not announced.
CommitUnannounced(s) ==
  /\ At(s, "decided")
  /\ status' = [status EXCEPT ![session[s].trade] = "EXECUTE_REQUESTED"]
  /\ results' = [results EXCEPT ![Key(s)] = CanonicalStatus(session[s].answer)]
  /\ rowLock' = [rowLock EXCEPT ![session[s].trade] = NoSession]
  /\ Goto(s, "committed")
  /\ UNCHANGED <<executions, events, dedup, submitted, orders, forgotten>>

CommitResult(s) ==
  /\ At(s, "decided")
  /\ status' = [status EXCEPT ![session[s].trade] = "EXECUTE_REQUESTED"]
  /\ results' = [results EXCEPT ![Key(s)] = CanonicalStatus(session[s].answer)]
  /\ events' = events \cup {<<"trade.execute.requested", Key(s)>>}
  /\ rowLock' = [rowLock EXCEPT ![session[s].trade] = NoSession]
  /\ Goto(s, "committed")
  /\ UNCHANGED <<executions, dedup, submitted, orders, forgotten>>

-----------------------------------------------------------------------------
(* POST /executions, second transaction *)

\* The first access to the trade after the commit reloads it if the commit
\* expired it.
Reload(s) ==
  /\ At(s, "committed")
  /\ Update(s, [session[s] EXCEPT
       !.step = "answered",
       !.seen = IF ExpireOnCommit THEN status[session[s].trade] ELSE @])
  /\ UNCHANGED <<status, rowLock, results, executions, events, dedup, submitted,
                 orders, forgotten>>

\* An uncommitted executions row with the same key makes an INSERT wait.
KeyFree(s) ==
  \A r \in Sessions \ {s} :
    ~(session[r].step \in {"inserted", "completing"} /\ Key(r) = Key(s))

\* Mutant: the failed INSERT is reported without a rollback.
InsertWithoutRollback(s) ==
  /\ At(s, "answered")
  /\ KeyFree(s)
  /\ \/ executions[Key(s)] = None /\ Goto(s, "inserted")
     \/ executions[Key(s)] # None /\ Update(s, Idle)
  /\ UNCHANGED <<status, rowLock, results, executions, events, dedup, submitted,
                 orders, forgotten>>

\* A committed one makes it fail, and the request with it.
InsertExecution(s) ==
  /\ At(s, "answered")
  /\ KeyFree(s)
  /\ \/ /\ executions[Key(s)] = None
        /\ Goto(s, "inserted")
        /\ UNCHANGED rowLock
     \/ /\ executions[Key(s)] # None
        /\ Finish(s)
  /\ UNCHANGED <<status, results, executions, events, dedup, submitted, orders,
                 forgotten>>

\* Can complete_execution move the trade as this session sees it?
Completable(s) ==
  /\ session[s].answer # Unmapped
  /\ CanTransition(session[s].seen, CompletionTarget(session[s].answer))

\* The outcome is flushed, waiting for the row; a trade already seen in its
\* target status is not updated.
CompleteExecution(s) ==
  /\ At(s, "inserted")
  /\ Completable(s)
  /\ LET target == CompletionTarget(session[s].answer) IN
       /\ \/ session[s].seen # target /\ RowFree(s) /\ LockRow(s)
          \/ session[s].seen = target /\ UNCHANGED rowLock
       /\ Update(s, [session[s] EXCEPT !.step = "completing", !.target = target])
  /\ UNCHANGED <<status, results, executions, events, dedup, submitted, orders,
                 forgotten>>

\* An unknown status or a forbidden move raises: the executions row is lost.
AbandonExecution(s) ==
  /\ At(s, "inserted")
  /\ ~Completable(s)
  /\ Finish(s)
  /\ UNCHANGED <<status, results, executions, events, dedup, submitted, orders,
                 forgotten>>

OutcomeEvent(target) ==
  IF target = "EXECUTION_REJECTED" THEN "trade.execution_rejected" ELSE "trade.executed"

CommitExecution(s) ==
  /\ At(s, "completing")
  /\ LET t == session[s].trade IN
       status' = IF rowLock[t] = s
                 THEN [status EXCEPT ![t] = session[s].target] ELSE status
  /\ executions' = [executions EXCEPT ![Key(s)] = session[s].answer]
  /\ events' = events \cup {<<OutcomeEvent(session[s].target), Key(s)>>}
  /\ Finish(s)
  /\ UNCHANGED <<results, dedup, submitted, orders, forgotten>>

-----------------------------------------------------------------------------
(* Failures *)

\* The process dies, a statement or a commit fails, the client's connection
\* is dropped: the open transaction is rolled back.
Abort(s) ==
  /\ Faults
  /\ ~At(s, "idle")
  /\ Finish(s)
  /\ UNCHANGED <<status, results, executions, events, dedup, submitted, orders>>
  /\ RecordForgotten

\* s waits for a row whose holder r waits for the key s has inserted: the
\* database aborts one of them.
Deadlocked(s, r) ==
  /\ At(s, "inserted") /\ Completable(s) /\ ~RowFree(s)
  /\ rowLock[session[s].trade] = r
  /\ At(r, "answered") /\ Key(r) = Key(s)

BreakDeadlock(s) ==
  /\ \E r \in Sessions : Deadlocked(s, r) \/ Deadlocked(r, s)
  /\ Finish(s)
  /\ UNCHANGED <<status, results, executions, events, dedup, submitted, orders,
                 forgotten>>

\* The guard store loses a key: its TTL expires, Redis is down when the key
\* is written, or the process that kept it in memory restarts.
GuardForgets ==
  /\ Faults
  /\ \E k \in dedup : dedup' = dedup \ {k}
  /\ UNCHANGED <<status, rowLock, results, executions, events, session,
                 submitted, orders>>
  /\ RecordForgotten

-----------------------------------------------------------------------------
Waiting(s) ==   \* steps that may have to wait for another session
  WriteReview(s) \/ ClaimTrade(s) \/ InsertExecution(s) \/ CompleteExecution(s)

Running(s) ==   \* steps that go on once they are reached
  \/ CommitReview(s) \/ CheckDuplicate(s) \/ LookUpResult(s) \/ EvaluateGuard(s)
  \/ PlaceOrder(s) \/ MarkExecuted(s) \/ CommitResult(s) \/ Reload(s)
  \/ AbandonExecution(s) \/ CommitExecution(s) \/ BreakDeadlock(s)

Next ==
  \/ \E t \in Trades : CreateTrade(t)
  \/ \E s \in Sessions : \/ LoadForReview(s) \/ Resolve(s)
                         \/ Waiting(s) \/ Running(s) \/ Abort(s)
  \/ GuardForgets

Spec == Init /\ [][Next]_vars

\* A request that can go on does; a row or a key that is released again and
\* again is granted in the end (PostgreSQL queues its lock waiters).
FairSpec ==
  /\ Spec
  /\ \A s \in Sessions : WF_vars(Running(s)) /\ SF_vars(Waiting(s))

-----------------------------------------------------------------------------
(* Properties *)

TypeOK ==
  /\ status \in [Trades -> ReviewedTradeStatus \cup {"ABSENT"}]
  /\ rowLock \in [Trades -> Sessions \cup {NoSession}]
  /\ results \in [Keys -> CanonicalStatuses \cup {None}]
  /\ executions \in [Keys -> Answers \cup {None}]
  /\ events \subseteq {"trade.execute.requested", "trade.executed",
                       "trade.execution_rejected"} \X Keys
  /\ dedup \subseteq Keys
  /\ session \in [Sessions -> SessionState]
  /\ submitted \in Nat
  /\ orders \in [Keys -> Nat]
  /\ forgotten \in [Keys -> Nat]

\* An order for a (trade, mode) is handed to the broker adapter again only
\* when the database has no result for it, the guard store no mark of it and
\* no running request its answer: every repetition was preceded by a failure
\* that erased all three.  Nothing in the code says so in one place; the row
\* lock of the claim, the idempotency lookup and the early mark do together.
OrderNotRepeated == \A k \in Keys : orders[k] <= forgotten[k] + 1

\* An executions row tells what the canonical result of the same idempotency
\* key says, also when the request that wrote the row did not call the adapter
\* and took over the result of another request.
ExecutionTellsResult ==
  \A k \in Keys : executions[k] # None => CanonicalStatus(executions[k]) = results[k]

\* A trade marked EXECUTED has a successful execution in some mode (reviewers
\* and clients who set EXECUTED by hand aside: see ReviewStatuses).
ExecutedIsBacked ==
  \A t \in Trades : status[t] = "EXECUTED" =>
    \E m \in Modes : executions[<<t, m>>] \in Successful

\* Consumers of the outbox never hear two outcomes of one execution, and hear
\* of an outcome only when the request was announced.
AnnouncementsAgree ==
  \A k \in Keys :
    /\ ~({<<"trade.executed", k>>, <<"trade.execution_rejected", k>>} \subseteq events)
    /\ \A e \in {"trade.executed", "trade.execution_rejected"} :
         <<e, k>> \in events => <<"trade.execute.requested", k>> \in events

\* Committed results and executions are never rewritten, whichever requests
\* run at the same time.
OutcomesAreFinal ==
  [][\A k \in Keys : /\ results[k] # None => results'[k] = results[k]
                     /\ executions[k] # None => executions'[k] = executions[k]
    ]_<<results, executions>>

\* Every order goes out while the committed status of its trade is APPROVED:
\* "Real execution must come from an approved reviewed trade."
OrderOnlyFromApproved ==
  [][\A k \in Keys : orders'[k] # orders[k] => status[k[1]] = "APPROVED"]_vars

\* What a request has made of its trade: the status it writes, once that is flushed.
Copy(s) ==
  LET x == session[s]
  IN  IF x.step = "idle" THEN <<>>
      ELSE <<x.trade, IF x.step \in {"reviewed", "completing"} THEN x.target ELSE x.seen>>

\* Reviews and executions, however they overlap, follow the lifecycle: each moves
\* the trade it read along the table of transitions, and saves nothing else.
Lifecycle == INSTANCE ReviewedTradeLifecycle
               WITH Requests <- Sessions, copy <- [s \in Sessions |-> Copy(s)]
LifecycleSpec == Lifecycle!Spec

\* From the flush of a claim to the commit of the result the trade's committed status
\* stands still, whatever other requests have validated before.  The status check
\* (service.py:673) precedes the claim, so a rejection committed between the two is
\* overlooked; none is committed while the guard and the broker are asked.
ClaimHoldsStatus ==
  [][\A s \in Sessions :
       {session[s].step, session'[s].step} \subseteq {"claimed", "saved", "cleared", "placed", "decided"}
         => status'[session[s].trade] = status[session[s].trade]]_vars

\* Every request ends: no request waits for ever for another one, although
\* requests take the trade's row and the execution's key in opposite orders.
RequestsEnd == \A s \in Sessions : ~At(s, "idle") ~> At(s, "idle")

\* Unless something fails, a trade claimed for execution reaches an outcome.
ClaimsResolve ==
  \A t \in Trades :
    status[t] = "EXECUTE_REQUESTED" ~> status[t] # "EXECUTE_REQUESTED"
=============================================================================
