------------------------- MODULE DeferredExecution -------------------------
(***************************************************************************)
(* The consuming end of the bus.  A live analysis has created a deferred   *)
(* execution job, and the outbox its message, possibly more than once.  An *)
(* event worker takes a message, marks the job RUNNING, hands the signals  *)
(* of the job one by one to the canonical execution service, rewrites the  *)
(* CSV ledger and marks the job SUCCEEDED; only then does it acknowledge   *)
(* the message.                                                            *)
(*                                                                         *)
(* All of it runs in one database session, but the canonical service ends  *)
(* the transaction for each signal: it commits a result, and rolls back    *)
(* when anything fails, including what the worker had flushed before.      *)
(*                                                                         *)
(* The broker gives a message back to the queue when the connection of its *)
(* worker breaks, whether the worker died or goes on with its handler.     *)
(***************************************************************************)
EXTENDS Naturals

CONSTANTS
  Jobs,       \* deferred_execution_jobs.id
  Signals,    \* idempotency keys of signals, in the order of a batch
  Batch,      \* the signals in each job's payload
  Workers,    \* event worker processes
  NoJob,      \* job of a worker that waits for a message
  NoSignal,   \* signal of a worker between two signals
  NoWorker,   \* holder of a free row
  MaxCopies,  \* bound on the deliveries of a message by the outbox
  MaxFaults   \* bound on failures

ASSUME DeferredAssumption ==
  /\ Signals \subseteq Nat
  /\ Batch \in [Jobs -> SUBSET Signals \ {{}}]
  /\ NoJob \notin Jobs /\ NoSignal \notin Signals /\ NoWorker \notin Workers
  /\ MaxCopies \in Nat /\ MaxFaults \in Nat

VARIABLES
  deferred,   \* status of each deferred execution job, committed
  rowLock,    \* worker holding each of their rows
  results,    \* executions_v2 status per idempotency key, committed
  dedup,      \* signals the guard store remembers as executed
  ledger,     \* rows of the CSV file
  queue,      \* copies of each job's message waiting at the broker
  sent,       \* copies the outbox has delivered so far
  worker,     \* what each worker has in memory
  faults,     \* failures so far
  orders,     \* history: orders handed to the adapter per signal
  forgotten,  \* history: how many of them nothing remembered at some time
  lost        \* history: jobs whose message was dropped or used up without a mark

stored == <<deferred, rowLock, results, dedup, ledger>>
vars   == <<stored, queue, sent, worker, faults, orders, forgotten, lost>>

-----------------------------------------------------------------------------
Status   == {"PENDING", "RUNNING", "SUCCEEDED", "FAILED"}
Finished == {"SUCCEEDED", "FAILED"}
None     == "NONE"
Result   == {"EXECUTED", "REJECTED"}

\* A ledger row: None stands for BLOCKED by the workspace guards and for the
\* ERROR of an exception.
Row == Signals \X (Result \cup {None})

\* Steps of the canonical service, which roll back when they fail.
Canonical == {"saving", "saved", "cleared", "placed", "decided"}
Steps == {"idle", "received", "working", "logging", "truncated", "marking",
          "done", "raised", "failing"} \cup Canonical

WorkerState ==
  [step      : Steps,
   job       : Jobs \cup {NoJob},
   connected : BOOLEAN,                    \* does the message still count as its own?
   loaded    : Status,                     \* status of the ORM object when it was read
   marked    : BOOLEAN,                    \* RUNNING is flushed and not committed
   todo      : SUBSET Signals,
   signal    : Signals \cup {NoSignal},    \* signal in the canonical service
   answer    : Result \cup {None},
   read      : SUBSET Row,                 \* the ledger when the batch began
   rows      : SUBSET Row]                 \* what the batch adds to it

Idle == [step |-> "idle", job |-> NoJob, connected |-> TRUE, loaded |-> "PENDING",
         marked |-> FALSE, todo |-> {}, signal |-> NoSignal, answer |-> None,
         read |-> {}, rows |-> {}]

At(w, step)    == worker[w].step = step
Update(w, new) == worker' = [worker EXCEPT ![w] = new]
Goto(w, step)  == Update(w, [worker[w] EXCEPT !.step = step])

RowFree(w) == rowLock[worker[w].job] \in {NoWorker, w}
Unlock(w)  == rowLock' = [j \in Jobs |-> IF rowLock[j] = w THEN NoWorker ELSE rowLock[j]]

\* The signal is done with; the next one follows.
NextSignal(w, row, marked) ==
  Update(w, [worker[w] EXCEPT
    !.step = "working", !.todo = @ \ {row[1]}, !.signal = NoSignal,
    !.answer = None, !.marked = marked, !.rows = @ \cup {row}])

\* A worker has an uncommitted request for signal s.
Holds(w, s) == worker[w].step \in Canonical \ {"saving"} /\ worker[w].signal = s

\* Somebody still knows that an order may have gone out for signal s.
Remembered(s) ==
  \/ results[s] # None
  \/ s \in dedup
  \/ \E w \in Workers : worker[w].step \in {"placed", "decided"} /\ worker[w].signal = s

RecordForgotten ==
  forgotten' = [s \in Signals |-> IF Remembered(s)' THEN forgotten[s] ELSE orders[s]]

Fault == faults < MaxFaults /\ faults' = faults + 1

Init ==
  /\ deferred = [j \in Jobs |-> "PENDING"]
  /\ rowLock = [j \in Jobs |-> NoWorker]
  /\ results = [s \in Signals |-> None]
  /\ dedup = {}
  /\ ledger = {}
  /\ queue = [j \in Jobs |-> 0]
  /\ sent = [j \in Jobs |-> 0]
  /\ worker = [w \in Workers |-> Idle]
  /\ faults = 0
  /\ orders = [s \in Signals |-> 0]
  /\ forgotten = [s \in Signals |-> 0]
  /\ lost = {}

-----------------------------------------------------------------------------
(* The message *)

\* The outbox publishes the message, at least once.
Deliver(j) ==
  /\ sent[j] < MaxCopies
  /\ sent' = [sent EXCEPT ![j] = @ + 1]
  /\ queue' = [queue EXCEPT ![j] = @ + 1]
  /\ UNCHANGED <<stored, worker, faults, orders, forgotten, lost>>

\* A message is taken and its job read, whatever the status of the job.
Receive(w) ==
  /\ At(w, "idle")
  /\ \E j \in Jobs :
       /\ queue[j] > 0
       /\ queue' = [queue EXCEPT ![j] = @ - 1]
       /\ Update(w, [Idle EXCEPT !.step = "received", !.job = j,
                                 !.loaded = deferred[j], !.todo = Batch[j]])
  /\ UNCHANGED <<stored, sent, faults, orders, forgotten, lost>>

\* mark_running is flushed, waiting for the row; then the ledger is read.
MarkRunning(w) ==
  /\ At(w, "received")
  /\ RowFree(w)
  /\ rowLock' = [rowLock EXCEPT ![worker[w].job] = w]
  /\ Update(w, [worker[w] EXCEPT !.step = "working", !.marked = TRUE, !.read = ledger])
  /\ UNCHANGED <<deferred, results, dedup, ledger, queue, sent, faults, orders,
                 forgotten, lost>>

-----------------------------------------------------------------------------
(* One signal *)

NextIs(w, s) ==
  /\ At(w, "working")
  /\ s \in worker[w].todo
  /\ \A r \in worker[w].todo : s <= r

\* The workspace guards refuse the signal, or no request can be built from it.
Block(w) ==
  /\ \E s \in worker[w].todo :
       NextIs(w, s) /\ NextSignal(w, <<s, None>>, worker[w].marked)
  /\ UNCHANGED <<stored, queue, sent, faults, orders, forgotten, lost>>

\* Mutant: the signal stays in the loop variable.
LookUpKeepsSignal(w) ==
  /\ \E s \in worker[w].todo :
       /\ NextIs(w, s)
       /\ \/ /\ results[s] # None
             /\ Update(w, [worker[w] EXCEPT
                  !.signal = s, !.todo = @ \ {s}, !.rows = @ \cup {<<s, results[s]>>}])
          \/ /\ results[s] = None
             /\ Update(w, [worker[w] EXCEPT !.step = "saving", !.signal = s])
  /\ UNCHANGED <<stored, queue, sent, faults, orders, forgotten, lost>>

\* A result stored under the idempotency key is taken over, without a commit.
LookUp(w) ==
  /\ \E s \in worker[w].todo :
       /\ NextIs(w, s)
       /\ \/ /\ results[s] # None
             /\ NextSignal(w, <<s, results[s]>>, worker[w].marked)
          \/ /\ results[s] = None
             /\ Update(w, [worker[w] EXCEPT !.step = "saving", !.signal = s])
  /\ UNCHANGED <<stored, queue, sent, faults, orders, forgotten, lost>>

\* Mutant: requests are not unique per idempotency key.
SaveAnyRequest(w) ==
  /\ At(w, "saving")
  /\ Goto(w, "saved")
  /\ UNCHANGED <<stored, queue, sent, faults, orders, forgotten, lost>>

\* The INSERT waits for an uncommitted request with the same key.
SaveRequest(w) ==
  /\ At(w, "saving")
  /\ \A v \in Workers : ~Holds(v, worker[w].signal)
  /\ results[worker[w].signal] = None
  /\ Goto(w, "saved")
  /\ UNCHANGED <<stored, queue, sent, faults, orders, forgotten, lost>>

\* A committed one makes it fail: the transaction is rolled back, with the
\* RUNNING mark if that was in it, and the signal becomes an ERROR row.
RequestExists(w) ==
  /\ At(w, "saving")
  /\ results[worker[w].signal] # None
  /\ NextSignal(w, <<worker[w].signal, None>>, FALSE)
  /\ Unlock(w)
  /\ UNCHANGED <<deferred, results, dedup, ledger, queue, sent, faults, orders,
                 forgotten, lost>>

\* The execution guard: a remembered signal is refused, any other may be
\* (cooldown, daily limits, session hours, LIVE mode, store unavailable).
EvaluateGuard(w) ==
  /\ At(w, "saved")
  /\ \/ worker[w].signal \notin dedup /\ Goto(w, "cleared")
     \/ Update(w, [worker[w] EXCEPT !.step = "decided", !.answer = "REJECTED"])
  /\ UNCHANGED <<stored, queue, sent, faults, orders, forgotten, lost>>

PlaceOrder(w) ==
  /\ At(w, "cleared")
  /\ orders' = [orders EXCEPT ![worker[w].signal] = @ + 1]
  /\ Update(w, [worker[w] EXCEPT !.step = "placed", !.answer = "EXECUTED"])
  /\ UNCHANGED <<stored, queue, sent, faults, forgotten, lost>>

\* The guard store is told before the commit.
MarkExecuted(w) ==
  /\ At(w, "placed")
  /\ dedup' = dedup \cup {worker[w].signal}
  /\ Goto(w, "decided")
  /\ UNCHANGED <<deferred, rowLock, results, ledger, queue, sent, faults, orders,
                 forgotten, lost>>

\* The deferred job after a commit of worker w: the status is in the UPDATE
\* only if it differed from the one that was read.
Marked(w) ==
  IF worker[w].marked /\ worker[w].loaded # "RUNNING"
  THEN [deferred EXCEPT ![worker[w].job] = "RUNNING"] ELSE deferred

\* Mutant: the result is not committed.
CommitForgotten(w) ==
  /\ At(w, "decided")
  /\ NextSignal(w, <<worker[w].signal, worker[w].answer>>, worker[w].marked)
  /\ UNCHANGED <<stored, queue, sent, faults, orders, forgotten, lost>>

\* The commit of a result carries the RUNNING mark with it.
CommitResult(w) ==
  /\ At(w, "decided")
  /\ results' = [results EXCEPT ![worker[w].signal] = worker[w].answer]
  /\ deferred' = Marked(w)
  /\ Unlock(w)
  /\ NextSignal(w, <<worker[w].signal, worker[w].answer>>, FALSE)
  /\ UNCHANGED <<dedup, ledger, queue, sent, faults, orders, forgotten, lost>>

-----------------------------------------------------------------------------
(* The end of a batch *)

EndBatch(w) ==
  /\ At(w, "working")
  /\ worker[w].todo = {}
  /\ Goto(w, "logging")
  /\ UNCHANGED <<stored, queue, sent, faults, orders, forgotten, lost>>

\* The file is opened for writing, which empties it...
OpenLedger(w) ==
  /\ At(w, "logging")
  /\ ledger' = {}
  /\ Goto(w, "truncated")
  /\ UNCHANGED <<deferred, rowLock, results, dedup, queue, sent, faults, orders,
                 forgotten, lost>>

\* ...and gets the rows read at the beginning and those of the batch.
WriteLedger(w) ==
  /\ At(w, "truncated")
  /\ ledger' = worker[w].read \cup worker[w].rows
  /\ Goto(w, "marking")
  /\ UNCHANGED <<deferred, rowLock, results, dedup, queue, sent, faults, orders,
                 forgotten, lost>>

\* mark_succeeded is flushed, waiting for the row, and committed.
MarkSucceeded(w) ==
  /\ At(w, "marking")
  /\ RowFree(w)
  /\ deferred' = [deferred EXCEPT ![worker[w].job] = "SUCCEEDED"]
  /\ Unlock(w)
  /\ Goto(w, "done")
  /\ UNCHANGED <<results, dedup, ledger, queue, sent, faults, orders, forgotten, lost>>

\* The message is acknowledged.  Without its connection the worker dies of it
\* and starts again.
Acknowledge(w) ==
  /\ At(w, "done")
  /\ Update(w, Idle)
  /\ UNCHANGED <<stored, queue, sent, faults, orders, forgotten, lost>>

-----------------------------------------------------------------------------
(* Failures *)

\* A statement of the canonical service fails: rollback, and the batch goes on.
SignalFails(w) ==
  /\ Fault
  /\ worker[w].step \in Canonical
  /\ NextSignal(w, <<worker[w].signal, None>>, FALSE)
  /\ Unlock(w)
  /\ UNCHANGED <<deferred, results, dedup, ledger, queue, sent, orders, lost>>
  /\ RecordForgotten

\* Anything else raises: rollback.  After the commit it is the metrics that may.
HandlerFails(w) ==
  /\ Fault
  /\ worker[w].step \in {"received", "working", "logging", "truncated", "marking", "done"}
  /\ Update(w, [worker[w] EXCEPT !.step = "raised", !.marked = FALSE])
  /\ Unlock(w)
  /\ UNCHANGED <<deferred, results, dedup, ledger, queue, sent, orders, forgotten, lost>>

\* The job is read again, to be marked FAILED.
ReadAgain(w) ==
  /\ At(w, "raised")
  /\ Update(w, [worker[w] EXCEPT !.step = "failing", !.loaded = deferred[worker[w].job]])
  /\ UNCHANGED <<stored, queue, sent, faults, orders, forgotten, lost>>

\* Mutant: the message is dropped and the job left as it is.
DropUnmarked(w) ==
  /\ At(w, "failing")
  /\ Update(w, Idle)
  /\ UNCHANGED <<stored, queue, sent, faults, orders, forgotten, lost>>

\* The job is marked FAILED and its message dropped (nack without requeue).
MarkFailed(w) ==
  /\ At(w, "failing")
  /\ RowFree(w)
  /\ deferred' = IF worker[w].loaded = "FAILED" THEN deferred
                 ELSE [deferred EXCEPT ![worker[w].job] = "FAILED"]
  /\ Update(w, Idle)
  /\ UNCHANGED <<rowLock, results, dedup, ledger, queue, sent, faults, orders,
                 forgotten, lost>>

\* The first read of the job fails, or the mark does as well: the message is
\* dropped all the same.
FailUnmarked(w) ==
  /\ Fault
  /\ worker[w].step \in {"received", "raised", "failing"}
  /\ lost' = lost \cup {worker[w].job}
  /\ Update(w, Idle)
  /\ UNCHANGED <<stored, queue, sent, orders, forgotten>>

\* The broker gives the message of worker w to the queue again.
Requeue(w) == queue' = [queue EXCEPT ![worker[w].job] = @ + 1]

\* The connection breaks under a worker that goes on.
Disconnect(w) ==
  /\ Fault
  /\ ~At(w, "idle") /\ worker[w].connected
  /\ Requeue(w)
  /\ Update(w, [worker[w] EXCEPT !.connected = FALSE])
  /\ UNCHANGED <<stored, sent, orders, forgotten, lost>>

\* Mutant: messages are acknowledged when they are received.
CrashUnacknowledged(w) ==
  /\ Fault
  /\ ~At(w, "idle")
  /\ Update(w, Idle)
  /\ Unlock(w)
  /\ UNCHANGED <<deferred, results, dedup, ledger, queue, sent, orders, lost>>
  /\ RecordForgotten

\* The worker dies.
Crash(w) ==
  /\ Fault
  /\ ~At(w, "idle")
  /\ \/ worker[w].connected /\ Requeue(w) /\ UNCHANGED lost
     \/ ~worker[w].connected /\ lost' = lost \cup {worker[w].job} /\ UNCHANGED queue
  /\ Update(w, Idle)
  /\ Unlock(w)
  /\ UNCHANGED <<deferred, results, dedup, ledger, sent, orders>>
  /\ RecordForgotten

\* The guard store loses a mark.
GuardForgets ==
  /\ Fault
  /\ \E s \in dedup : dedup' = dedup \ {s}
  /\ UNCHANGED <<deferred, rowLock, results, ledger, queue, sent, worker, orders, lost>>
  /\ RecordForgotten

-----------------------------------------------------------------------------
Waiting(w) == MarkRunning(w) \/ SaveRequest(w) \/ MarkSucceeded(w) \/ MarkFailed(w)

Running(w) ==
  \/ Block(w) \/ LookUp(w) \/ RequestExists(w) \/ EvaluateGuard(w) \/ PlaceOrder(w)
  \/ MarkExecuted(w) \/ CommitResult(w) \/ EndBatch(w) \/ OpenLedger(w)
  \/ WriteLedger(w) \/ Acknowledge(w) \/ ReadAgain(w)

Failing(w) ==
  SignalFails(w) \/ HandlerFails(w) \/ FailUnmarked(w) \/ Disconnect(w) \/ Crash(w)

Next ==
  \/ \E j \in Jobs : Deliver(j)
  \/ \E w \in Workers : Receive(w) \/ Waiting(w) \/ Running(w) \/ Failing(w)
  \/ GuardForgets

Spec == Init /\ [][Next]_vars

\* Workers consume for ever, a handler that can go on does, and PostgreSQL
\* queues its lock waiters.
FairSpec ==
  /\ Spec
  /\ \A w \in Workers :
       WF_vars(Receive(w)) /\ WF_vars(Running(w)) /\ SF_vars(Waiting(w))

-----------------------------------------------------------------------------
(* Properties *)

TypeOK ==
  /\ deferred \in [Jobs -> Status]
  /\ rowLock \in [Jobs -> Workers \cup {NoWorker}]
  /\ results \in [Signals -> Result \cup {None}]
  /\ dedup \subseteq Signals
  /\ ledger \subseteq Row
  /\ queue \in [Jobs -> Nat] /\ sent \in [Jobs -> Nat]
  /\ worker \in [Workers -> WorkerState]
  /\ faults \in Nat
  /\ orders \in [Signals -> Nat] /\ forgotten \in [Signals -> Nat]
  /\ lost \subseteq Jobs
  /\ \A w \in Workers : worker[w].signal \in Signals <=> worker[w].step \in Canonical

\* However often its message is delivered, and in however many jobs a signal
\* is, it is ordered again only after failures erased every trace of the order:
\* the result, the mark of the guard store and the worker that placed it.  The
\* handler never looks at the status of its job; the unique idempotency key of
\* the request is all there is.
OrderNotRepeated == \A s \in Signals : orders[s] <= forgotten[s] + 1

\* The ledger says EXECUTED, or REJECTED, of a signal only if the committed
\* result does, although the file takes part in no transaction.
LedgerBacked ==
  \A s \in Signals, r \in Result : <<s, r>> \in ledger => results[s] = r

\* A delivered job that has no outcome has a message or a handler, so it will
\* have one, unless a handler failed before it could mark it or twice, or died after its
\* message was given to another worker.
Handled(j) == queue[j] > 0 \/ \E w \in Workers : worker[w].job = j

UnfinishedIsHandled ==
  \A j \in Jobs : sent[j] > 0 /\ deferred[j] \notin Finished => Handled(j) \/ j \in lost

\* Every delivered job gets an outcome, with the same exceptions.
JobsEnd ==
  \A j \in Jobs : sent[j] > 0 ~> deferred[j] \in Finished \/ j \in lost
=============================================================================
