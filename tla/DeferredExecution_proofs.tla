---------------------- MODULE DeferredExecution_proofs ----------------------
(***************************************************************************)
(* Safety of DeferredExecution for any number of jobs, signals, workers    *)
(* and deliveries, with failures.                                          *)
(***************************************************************************)
EXTENDS DeferredExecution, TLAPS

-----------------------------------------------------------------------------
(* The inductive invariant *)

\* A worker with a message has a job.
Employed == \A w \in Workers : worker[w].job \in Jobs <=> worker[w].step # "idle"

\* One worker at a time has an uncommitted request for a signal, and there is
\* no result for it.
RequestAlone ==
  \A v, w \in Workers, s \in Signals : Holds(v, s) /\ Holds(w, s) => v = w

RequestOpen ==
  \A w \in Workers, s \in Signals : Holds(w, s) => results[s] = None

\* What the guard store did not hold when it was asked is not there when the
\* order goes out.
ClearedKey == \A w \in Workers : At(w, "cleared") => worker[w].signal \notin dedup

\* A signal that is about to be committed has its answer.
AnswerKnown ==
  \A w \in Workers : worker[w].step \in {"placed", "decided"} => worker[w].answer \in Result

\* Orders nobody remembers are all in the history of forgotten ones.
OrdersKnown == \A s \in Signals : ~Remembered(s) => orders[s] = forgotten[s]

\* Rows in memory say what the committed results say, like those of the file.
Backed(rows) == \A s \in Signals, r \in Result : <<s, r>> \in rows => results[s] = r

RowsBacked ==
  /\ Backed(ledger)
  /\ \A w \in Workers : Backed(worker[w].read) /\ Backed(worker[w].rows)

\* A handler that will write no outcome any more: it has succeeded, or it
\* failed and had read FAILED.
Spent(x) == x.step = "done" \/ (x.step = "failing" /\ x.loaded = "FAILED")

\* An unfinished job waits, or has a handler that is not spent.
Cared(j) ==
  \/ queue[j] > 0
  \/ \E w \in Workers : worker[w].job = j /\ ~Spent(worker[w])
  \/ j \in lost

JobsCared == \A j \in Jobs : sent[j] > 0 /\ deferred[j] \notin Finished => Cared(j)

TypeInv == TypeOK /\ Employed

OrderInv ==
  /\ RequestAlone /\ RequestOpen /\ ClearedKey /\ AnswerKnown /\ OrdersKnown
  /\ OrderNotRepeated

Inv == TypeInv /\ OrderInv /\ RowsBacked /\ JobsCared

-----------------------------------------------------------------------------
(* The memory of one worker *)

LEMMA IdleType ==
  /\ Idle \in WorkerState /\ Idle.step = "idle" /\ Idle.job \notin Jobs
  /\ Idle.signal \notin Signals /\ Idle.read = {} /\ Idle.rows = {}
BY DeferredAssumption DEF Idle, WorkerState, Steps, Status

\* What rewriting the memory of one worker means for all of them.
LEMMA UpdateType ==
  ASSUME TypeInv, NEW w \in Workers, NEW new \in WorkerState, Update(w, new),
         new.job \in Jobs <=> new.step # "idle",
         new.signal \in Signals <=> new.step \in Canonical
  PROVE  /\ worker' \in [Workers -> WorkerState]
         /\ worker'[w] = new
         /\ \A v \in Workers \ {w} : worker'[v] = worker[v]
         /\ \A v \in Workers : worker'[v].signal \in Signals <=> worker'[v].step \in Canonical
         /\ Employed'
BY DEF TypeInv, TypeOK, Employed, Update

\* Worker w has memory new, the others are as before.
Becomes(w, new) ==
  /\ worker'[w] = new
  /\ \A v \in Workers \ {w} : worker'[v] = worker[v]

\* What keeps OrderInv: a request is alone, the guard was asked, and an order
\* that has gone out stays known.
OrderKept(w, new) ==
  /\ new.step \in Canonical \ {"saving"} =>
       \/ worker[w].step \in Canonical \ {"saving"} /\ new.signal = worker[w].signal
       \/ results[new.signal] = None /\ \A v \in Workers : ~Holds(v, new.signal)
  /\ new.step = "cleared" => new.signal \notin dedup
  /\ new.step \in {"placed", "decided"} => new.answer \in Result
  /\ worker[w].step \in {"placed", "decided"} =>
       new.step \in {"placed", "decided"} /\ new.signal = worker[w].signal

LEMMA OrderSame ==
  ASSUME Inv, NEW w \in Workers, NEW new, Becomes(w, new), OrderKept(w, new),
         UNCHANGED <<results, dedup, orders, forgotten>>
  PROVE  OrderInv'
<1>1. \A s \in Signals : Holds(w, s)' =>
        Holds(w, s) \/ (results[s] = None /\ \A v \in Workers : ~Holds(v, s))
  BY DEF Becomes, OrderKept, Holds
<1>2. \A v \in Workers \ {w}, s \in Signals : Holds(v, s)' <=> Holds(v, s)
  BY DEF Becomes, Holds
<1>3. RequestAlone'
  BY <1>1, <1>2 DEF Inv, OrderInv, RequestAlone
<1>4. RequestOpen'
  BY <1>1, <1>2 DEF Inv, OrderInv, RequestOpen
<1>5. ClearedKey' /\ AnswerKnown'
  BY DEF Inv, OrderInv, ClearedKey, AnswerKnown, At, Becomes, OrderKept
<1>6. \A s \in Signals : Remembered(s) => Remembered(s)'
  BY DEF Remembered, Becomes, OrderKept
<1>7. OrdersKnown' /\ OrderNotRepeated'
  BY <1>6 DEF Inv, OrderInv, OrdersKnown, OrderNotRepeated
<1>. QED BY <1>3, <1>4, <1>5, <1>7 DEF OrderInv

\* Failures: whatever nobody remembers afterwards is in the history.
LEMMA OrderForgotten ==
  ASSUME Inv, RecordForgotten, UNCHANGED <<results, orders>>, dedup' \subseteq dedup,
         \A v \in Workers : \/ worker'[v] = worker[v]
                            \/ worker'[v].step \notin Canonical \ {"saving"}
  PROVE  OrderInv' /\ forgotten' \in [Signals -> Nat]
<1>1. \A v \in Workers, s \in Signals : Holds(v, s)' => Holds(v, s)
  BY DEF Holds
<1>2. RequestAlone' /\ RequestOpen'
  BY <1>1 DEF Inv, OrderInv, RequestAlone, RequestOpen
<1>3. ClearedKey' /\ AnswerKnown'
  BY DEF Inv, OrderInv, ClearedKey, AnswerKnown, At, Canonical
<1>4. \A s \in Signals : /\ orders[s] \in Nat /\ forgotten[s] \in Nat
                         /\ orders[s] <= forgotten[s] + 1
  BY DEF Inv, TypeInv, TypeOK, OrderInv, OrderNotRepeated
<1>5. \A s \in Signals : IF Remembered(s)' THEN forgotten'[s] = forgotten[s]
                                           ELSE forgotten'[s] = orders[s]
  BY DEF RecordForgotten
<1>6. forgotten' \in [Signals -> Nat]
  BY <1>4 DEF RecordForgotten
<1>7. OrdersKnown' /\ OrderNotRepeated'
  BY <1>4, <1>5 DEF OrdersKnown, OrderNotRepeated
<1>. QED BY <1>2, <1>3, <1>6, <1>7 DEF OrderInv

\* What keeps RowsBacked.
RowsKept(new) == Backed(new.read) /\ Backed(new.rows)

LEMMA RowsSame ==
  ASSUME Inv, NEW w \in Workers, NEW new, Becomes(w, new), RowsKept(new),
         UNCHANGED results,
         \A s \in Signals, r \in Result : <<s, r>> \in ledger' => results[s] = r
  PROVE  RowsBacked'
BY DEF Inv, RowsBacked, RowsKept, Backed, Becomes

\* What keeps JobsCared.
CareKept(w, new) ==
  /\ \A j \in Jobs :
       /\ sent'[j] > 0 => sent[j] > 0
       /\ queue[j] > 0 => queue'[j] > 0 \/ (new.job = j /\ ~Spent(new))
       /\ deferred'[j] \notin Finished =>
            deferred[j] \notin Finished \/ (new.job = j /\ ~Spent(new))
       /\ worker[w].job = j /\ ~Spent(worker[w]) =>
            \/ new.job = j /\ ~Spent(new)
            \/ queue'[j] > 0
            \/ j \in lost'
            \/ deferred'[j] \in Finished
  /\ lost \subseteq lost'

LEMMA CareSame ==
  ASSUME Inv, NEW w \in Workers, NEW new, Becomes(w, new), CareKept(w, new)
  PROVE  JobsCared'
<1>. SUFFICES ASSUME NEW j \in Jobs, sent'[j] > 0, deferred'[j] \notin Finished
              PROVE  Cared(j)'
  BY DEF JobsCared
<1>1. CASE new.job = j /\ ~Spent(new)
  BY <1>1 DEF Cared, Becomes
<1>2. CASE ~(new.job = j /\ ~Spent(new))
  <2>1. Cared(j)
    BY <1>2 DEF CareKept, Inv, JobsCared
  <2>2. CASE queue[j] > 0 \/ j \in lost
    BY <2>2, <1>2 DEF Cared, CareKept
  <2>3. CASE \E v \in Workers : worker[v].job = j /\ ~Spent(worker[v])
    <3>1. PICK v \in Workers : worker[v].job = j /\ ~Spent(worker[v])
      BY <2>3
    <3>2. CASE v = w
      BY <3>1, <3>2, <1>2 DEF Cared, CareKept
    <3>3. CASE v # w
      BY <3>1, <3>3 DEF Cared, Becomes
    <3>. QED BY <3>2, <3>3
  <2>. QED BY <2>1, <2>2, <2>3 DEF Cared
<1>. QED BY <1>1, <1>2

-----------------------------------------------------------------------------
(* Steps of one worker that leave results and guard store alone *)

\* The rest of the type invariant.
StoredType ==
  /\ deferred \in [Jobs -> Status]
  /\ rowLock \in [Jobs -> Workers \cup {NoWorker}]
  /\ queue \in [Jobs -> Nat] /\ sent \in [Jobs -> Nat]
  /\ faults \in Nat
  /\ lost \subseteq Jobs

LedgerType == ledger \subseteq Row /\ Backed(ledger)

\* new is a memory worker w can be in.
Sound(w, new) ==
  /\ new \in WorkerState
  /\ new.job \in Jobs <=> new.step # "idle"
  /\ new.signal \in Signals <=> new.step \in Canonical

LEMMA StoredTypeNow == ASSUME Inv PROVE StoredType /\ LedgerType
BY DEF Inv, TypeInv, TypeOK, StoredType, LedgerType, RowsBacked

LEMMA QuietInv ==
  ASSUME Inv, NEW w \in Workers, NEW new, Update(w, new), Sound(w, new),
         OrderKept(w, new), RowsKept(new), CareKept(w, new),
         UNCHANGED <<results, dedup, orders, forgotten>>, StoredType', LedgerType'
  PROVE  Inv'
<1>1. /\ worker' \in [Workers -> WorkerState] /\ Becomes(w, new)
      /\ \A v \in Workers : worker'[v].signal \in Signals <=> worker'[v].step \in Canonical
      /\ Employed'
  BY UpdateType DEF Inv, Sound, Becomes
<1>2. TypeInv'
  BY <1>1 DEF Inv, TypeInv, TypeOK, StoredType, LedgerType
<1>3. OrderInv'
  BY <1>1, OrderSame
<1>4. RowsBacked'
  BY <1>1, RowsSame DEF LedgerType, Backed
<1>5. JobsCared'
  BY <1>1, CareSame
<1>. QED BY <1>2, <1>3, <1>4, <1>5 DEF Inv

\* What the invariant says of the memory of one worker.
LEMMA SoundNow ==
  ASSUME Inv, NEW w \in Workers
  PROVE  Sound(w, worker[w]) /\ RowsKept(worker[w])
BY DEF Inv, TypeInv, TypeOK, Employed, RowsBacked, RowsKept, Sound

LEMMA UnlockType ==
  ASSUME Inv, NEW w \in Workers, Unlock(w)
  PROVE  rowLock' \in [Jobs -> Workers \cup {NoWorker}]
BY DEF Unlock, Inv, TypeInv, TypeOK

LEMMA DeliverInv ==
  ASSUME Inv, NEW j \in Jobs, Deliver(j) PROVE Inv'
<1>1. /\ queue' \in [Jobs -> Nat] /\ sent' \in [Jobs -> Nat]
      /\ queue'[j] > 0
      /\ \A i \in Jobs \ {j} : queue'[i] = queue[i] /\ sent'[i] = sent[i]
  BY DEF Deliver, Inv, TypeInv, TypeOK
<1>2. TypeInv'
  BY <1>1 DEF Deliver, stored, Inv, TypeInv, TypeOK, Employed
<1>3. OrderInv'
  BY DEF Deliver, stored, Inv, OrderInv, RequestAlone, RequestOpen, ClearedKey, At,
         AnswerKnown, OrdersKnown, OrderNotRepeated, Holds, Remembered
<1>4. RowsBacked'
  BY DEF Deliver, stored, Inv, RowsBacked, Backed
<1>5. JobsCared'
  BY <1>1 DEF Deliver, stored, Inv, JobsCared, Cared
<1>. QED BY <1>2, <1>3, <1>4, <1>5 DEF Inv

LEMMA ReceiveInv ==
  ASSUME Inv, NEW w \in Workers, Receive(w) PROVE Inv'
<1>1. PICK j \in Jobs :
        /\ queue[j] > 0
        /\ queue' = [queue EXCEPT ![j] = @ - 1]
        /\ Update(w, [Idle EXCEPT !.step = "received", !.job = j,
                                  !.loaded = deferred[j], !.todo = Batch[j]])
  BY DEF Receive
<1>. DEFINE new == [Idle EXCEPT !.step = "received", !.job = j,
                                !.loaded = deferred[j], !.todo = Batch[j]]
<1>2. Sound(w, new) /\ RowsKept(new) /\ new.step = "received" /\ new.job = j
  BY IdleType, DeferredAssumption, ZenonT(60) DEF Idle, Sound, WorkerState, Canonical, Steps, RowsKept,
     Backed, Inv, TypeInv, TypeOK
<1>. HIDE DEF new
<1>3. ~Spent(new) /\ OrderKept(w, new)
  BY <1>2 DEF Spent, OrderKept, Canonical, Receive, At
<1>4. queue' \in [Jobs -> Nat] /\ \A i \in Jobs \ {j} : queue'[i] = queue[i]
  BY <1>1 DEF Inv, TypeInv, TypeOK
<1>5. CareKept(w, new)
  BY <1>2, <1>3, <1>4 DEF CareKept, Receive, stored, At, Inv, TypeInv, Employed
<1>6. StoredType' /\ LedgerType'
  BY <1>4, StoredTypeNow DEF Receive, stored, StoredType, LedgerType, Backed
<1>. QED BY <1>1, <1>2, <1>3, <1>5, <1>6, QuietInv DEF Receive, stored, new

LEMMA MarkRunningInv ==
  ASSUME Inv, NEW w \in Workers, MarkRunning(w) PROVE Inv'
<1>. DEFINE new == [worker[w] EXCEPT !.step = "working", !.marked = TRUE, !.read = ledger]
<1>1. Sound(w, new) /\ RowsKept(new) /\ new.step = "working" /\ new.job = worker[w].job
  BY SoundNow, StoredTypeNow, ZenonT(60) DEF MarkRunning, At, Sound, WorkerState, Steps, Canonical, RowsKept, LedgerType
<1>2. Update(w, new)
  BY DEF MarkRunning
<1>. HIDE DEF new
<1>3. ~Spent(new) /\ OrderKept(w, new)
  BY <1>1 DEF Spent, OrderKept, Canonical, MarkRunning, At
<1>4. CareKept(w, new)
  BY <1>1, <1>3 DEF CareKept, MarkRunning
<1>5. StoredType' /\ LedgerType'
  BY StoredTypeNow DEF MarkRunning, StoredType, LedgerType, Backed
<1>. QED BY <1>1, <1>2, <1>3, <1>4, <1>5, QuietInv DEF MarkRunning

\* The memory of worker w after NextSignal.
After(w, row, marked) ==
  [worker[w] EXCEPT
    !.step = "working", !.todo = @ \ {row[1]}, !.signal = NoSignal,
    !.answer = None, !.marked = marked, !.rows = @ \cup {row}]

LEMMA AfterSound ==
  ASSUME Inv, NEW w \in Workers, ~At(w, "idle"), NEW row \in Row, NEW marked \in BOOLEAN
  PROVE  /\ Sound(w, After(w, row, marked))
         /\ After(w, row, marked).step = "working"
         /\ After(w, row, marked).job = worker[w].job
         /\ After(w, row, marked).read = worker[w].read
         /\ After(w, row, marked).rows = worker[w].rows \cup {row}
BY SoundNow, DeferredAssumption, ZenonT(60) DEF At, After, Sound, WorkerState, Steps, Canonical

\* A signal that ends without a new result.
LEMMA NextSignalInv ==
  ASSUME Inv, NEW w \in Workers, ~At(w, "idle"), worker[w].step \notin {"placed", "decided"},
         ~Spent(worker[w]),
         NEW s \in Signals, NEW r \in Result \cup {None},
         r \in Result => results[s] = r,
         NEW marked \in BOOLEAN, NextSignal(w, <<s, r>>, marked),
         UNCHANGED <<deferred, results, dedup, ledger, queue, sent, faults, orders, forgotten, lost>>,
         rowLock' \in [Jobs -> Workers \cup {NoWorker}]
  PROVE  Inv'
<1>. DEFINE new == After(w, <<s, r>>, marked)
<1>1. /\ Sound(w, new) /\ new.step = "working" /\ new.job = worker[w].job
      /\ new.read = worker[w].read /\ new.rows = worker[w].rows \cup {<<s, r>>}
  BY AfterSound DEF Row
<1>2. Update(w, new)
  BY DEF NextSignal, After
<1>. HIDE DEF new
<1>3. ~Spent(new) /\ OrderKept(w, new)
  BY <1>1 DEF Spent, OrderKept, Canonical
<1>4. CareKept(w, new)
  BY <1>1, <1>3 DEF CareKept
<1>5. RowsKept(new)
  BY <1>1, SoundNow DEF RowsKept, Backed
<1>6. StoredType' /\ LedgerType'
  BY StoredTypeNow DEF StoredType, LedgerType, Backed
<1>. QED BY <1>1, <1>2, <1>3, <1>4, <1>5, <1>6, QuietInv

LEMMA MarkedType == ASSUME Inv, NEW w \in Workers PROVE worker[w].marked \in BOOLEAN
BY DEF Inv, TypeInv, TypeOK, WorkerState

LEMMA BlockInv ==
  ASSUME Inv, NEW w \in Workers, Block(w) PROVE Inv'
<1>1. PICK s \in worker[w].todo :
        NextIs(w, s) /\ NextSignal(w, <<s, None>>, worker[w].marked)
  BY DEF Block
<1>2. s \in Signals /\ At(w, "working") /\ worker[w].marked \in BOOLEAN
  BY <1>1 DEF NextIs, Inv, TypeInv, TypeOK, WorkerState
<1>3. ~At(w, "idle") /\ worker[w].step \notin {"placed", "decided"} /\ ~Spent(worker[w])
  BY <1>2 DEF At, Spent
<1>4. rowLock' \in [Jobs -> Workers \cup {NoWorker}]
  BY DEF Block, stored, Inv, TypeInv, TypeOK
<1>. QED BY <1>1, <1>2, <1>3, <1>4, NextSignalInv DEF Block, stored, Result, None

LEMMA LookUpInv ==
  ASSUME Inv, NEW w \in Workers, LookUp(w) PROVE Inv'
<1>1. PICK s \in worker[w].todo :
        /\ NextIs(w, s)
        /\ \/ results[s] # None /\ NextSignal(w, <<s, results[s]>>, worker[w].marked)
           \/ results[s] = None
              /\ Update(w, [worker[w] EXCEPT !.step = "saving", !.signal = s])
  BY DEF LookUp
<1>2. s \in Signals /\ At(w, "working") /\ worker[w].marked \in BOOLEAN
  BY <1>1 DEF NextIs, Inv, TypeInv, TypeOK, WorkerState
<1>3. ~At(w, "idle") /\ worker[w].step \notin {"placed", "decided"} /\ ~Spent(worker[w])
  BY <1>2 DEF At, Spent
<1>4. rowLock' \in [Jobs -> Workers \cup {NoWorker}] /\ StoredType' /\ LedgerType'
  BY StoredTypeNow DEF LookUp, stored, Inv, TypeInv, TypeOK, StoredType, LedgerType, Backed
<1>5. CASE results[s] # None /\ NextSignal(w, <<s, results[s]>>, worker[w].marked)
  <2>1. results[s] \in Result
    BY <1>2, <1>5 DEF Inv, TypeInv, TypeOK
  <2>. QED BY <1>2, <1>3, <1>4, <1>5, <2>1, NextSignalInv DEF LookUp, stored
<1>6. CASE Update(w, [worker[w] EXCEPT !.step = "saving", !.signal = s])
  <2>. DEFINE new == [worker[w] EXCEPT !.step = "saving", !.signal = s]
  <2>1. Sound(w, new) /\ RowsKept(new) /\ new.step = "saving" /\ new.job = worker[w].job
    BY <1>2, <1>3, SoundNow, ZenonT(60) DEF At, Sound, WorkerState, Steps, Canonical, RowsKept
  <2>. HIDE DEF new
  <2>2. ~Spent(new) /\ OrderKept(w, new)
    BY <1>3, <2>1 DEF Spent, OrderKept
  <2>3. CareKept(w, new)
    BY <2>1, <2>2 DEF CareKept, LookUp, stored
  <2>. QED BY <1>4, <1>6, <2>1, <2>2, <2>3, QuietInv DEF LookUp, stored, new
<1>. QED BY <1>1, <1>5, <1>6

\* Steps that only move worker w to another step.
LEMMA GotoSound ==
  ASSUME Inv, NEW w \in Workers, ~At(w, "idle"), NEW step \in Steps \ {"idle"},
         step \in Canonical <=> worker[w].step \in Canonical
  PROVE  LET new == [worker[w] EXCEPT !.step = step]
         IN  /\ Sound(w, new) /\ RowsKept(new) /\ new.step = step
             /\ new.job = worker[w].job /\ new.signal = worker[w].signal
             /\ new.answer = worker[w].answer
BY SoundNow DEF At, Sound, WorkerState, RowsKept

LEMMA GotoInv ==
  ASSUME Inv, NEW w \in Workers, ~At(w, "idle"), ~Spent(worker[w]),
         NEW step \in Steps \ {"idle"}, Goto(w, step),
         step \in Canonical <=> worker[w].step \in Canonical,
         OrderKept(w, [worker[w] EXCEPT !.step = step]),
         \/ step \notin {"done", "failing"}
         \/ step = "done" /\ \A j \in Jobs : worker[w].job = j => deferred'[j] \in Finished,
         \A j \in Jobs : \/ deferred'[j] \in Finished
                         \/ deferred'[j] = deferred[j],
         UNCHANGED <<results, dedup, orders, forgotten, queue, sent, lost>>,
         StoredType', LedgerType'
  PROVE  Inv'
<1>. DEFINE new == [worker[w] EXCEPT !.step = step]
<1>1. /\ Sound(w, new) /\ RowsKept(new) /\ new.step = step /\ new.job = worker[w].job
      /\ Update(w, new) /\ OrderKept(w, new)
  BY GotoSound DEF Goto
<1>. HIDE DEF new
<1>2. CareKept(w, new)
  BY <1>1 DEF CareKept, Spent
<1>. QED BY <1>1, <1>2, QuietInv

LEMMA SaveRequestInv ==
  ASSUME Inv, NEW w \in Workers, SaveRequest(w) PROVE Inv'
<1>. DEFINE new == [worker[w] EXCEPT !.step = "saved"]
<1>1. ~At(w, "idle") /\ ~Spent(worker[w]) /\ worker[w].step = "saving"
  BY DEF SaveRequest, At, Spent
<1>2. new.step = "saved" /\ new.signal = worker[w].signal
  BY <1>1, GotoSound DEF Steps, Canonical
<1>3. OrderKept(w, new)
  BY <1>1, <1>2 DEF OrderKept, SaveRequest
<1>4. StoredType' /\ LedgerType'
  BY StoredTypeNow DEF SaveRequest, stored, StoredType, LedgerType, Backed
<1>. QED BY <1>1, <1>3, <1>4, GotoInv DEF SaveRequest, stored, Steps, Canonical

LEMMA RequestExistsInv ==
  ASSUME Inv, NEW w \in Workers, RequestExists(w) PROVE Inv'
<1>1. /\ worker[w].step = "saving" /\ worker[w].signal \in Signals
      /\ ~At(w, "idle") /\ ~Spent(worker[w])
  BY DEF RequestExists, At, Spent, Canonical, Inv, TypeInv, TypeOK
<1>2. rowLock' \in [Jobs -> Workers \cup {NoWorker}]
  BY UnlockType DEF RequestExists
<1>. QED BY <1>1, <1>2, NextSignalInv DEF RequestExists, Result, None

LEMMA EvaluateGuardInv ==
  ASSUME Inv, NEW w \in Workers, EvaluateGuard(w) PROVE Inv'
<1>1. ~At(w, "idle") /\ ~Spent(worker[w]) /\ worker[w].step = "saved"
  BY DEF EvaluateGuard, At, Spent
<1>2. StoredType' /\ LedgerType'
  BY StoredTypeNow DEF EvaluateGuard, stored, StoredType, LedgerType, Backed
<1>3. CASE worker[w].signal \notin dedup /\ Goto(w, "cleared")
  <2>. DEFINE new == [worker[w] EXCEPT !.step = "cleared"]
  <2>1. new.step = "cleared" /\ new.signal = worker[w].signal
    BY <1>1, GotoSound DEF Steps, Canonical
  <2>2. OrderKept(w, new)
    BY <1>1, <1>3, <2>1 DEF OrderKept, Canonical
  <2>. QED BY <1>1, <1>2, <1>3, <2>2, GotoInv DEF EvaluateGuard, stored, Steps, Canonical
<1>4. CASE Update(w, [worker[w] EXCEPT !.step = "decided", !.answer = "REJECTED"])
  <2>. DEFINE new == [worker[w] EXCEPT !.step = "decided", !.answer = "REJECTED"]
  <2>1. /\ Sound(w, new) /\ RowsKept(new) /\ new.step = "decided" /\ new.job = worker[w].job
        /\ new.signal = worker[w].signal /\ new.answer = "REJECTED"
    BY <1>1, SoundNow DEF At, Sound, WorkerState, Steps, Canonical, Result, RowsKept
  <2>. HIDE DEF new
  <2>2. ~Spent(new) /\ OrderKept(w, new)
    BY <1>1, <2>1 DEF Spent, OrderKept, Canonical, Result
  <2>3. CareKept(w, new)
    BY <2>1, <2>2 DEF CareKept, EvaluateGuard, stored
  <2>. QED BY <1>2, <1>4, <2>1, <2>2, <2>3, QuietInv DEF EvaluateGuard, stored, new
<1>. QED BY <1>3, <1>4 DEF EvaluateGuard

\* An order goes out for a signal nobody else remembers.
LEMMA PlaceOrderInv ==
  ASSUME Inv, NEW w \in Workers, PlaceOrder(w) PROVE Inv'
<1>0. PICK s \in Signals : s = worker[w].signal
  BY DEF PlaceOrder, At, Canonical, Inv, TypeInv, TypeOK
<1>. DEFINE new == [worker[w] EXCEPT !.step = "placed", !.answer = "EXECUTED"]
<1>1. /\ Sound(w, new) /\ RowsKept(new) /\ new.step = "placed" /\ new.job = worker[w].job
      /\ new.signal = s /\ new.answer = "EXECUTED" /\ s \in Signals
      /\ worker[w].step = "cleared"
  BY <1>0, SoundNow DEF PlaceOrder, At, Sound, WorkerState, Steps, Canonical, Result, RowsKept
<1>2. Update(w, new)
  BY DEF PlaceOrder
<1>. HIDE DEF new
<1>3. /\ worker' \in [Workers -> WorkerState] /\ Becomes(w, new)
      /\ \A v \in Workers : worker'[v].signal \in Signals <=> worker'[v].step \in Canonical
      /\ Employed'
  BY <1>1, <1>2, UpdateType DEF Inv, Sound, Becomes
<1>4. TypeInv'
  BY <1>0, <1>1, <1>3 DEF PlaceOrder, stored, Inv, TypeInv, TypeOK
<1>5. RowsBacked'
  BY <1>1, <1>3, RowsSame, StoredTypeNow DEF PlaceOrder, stored, LedgerType, Backed
<1>6. CareKept(w, new)
  BY <1>1 DEF CareKept, Spent, PlaceOrder, stored
<1>7. JobsCared'
  BY <1>3, <1>6, CareSame
<1>8. Holds(w, s) /\ \A v \in Workers, t \in Signals : Holds(v, t)' <=> Holds(v, t)
  BY <1>0, <1>1, <1>3 DEF Holds, Becomes, Canonical
<1>9. RequestAlone' /\ RequestOpen'
  BY <1>8 DEF PlaceOrder, stored, Inv, OrderInv, RequestAlone, RequestOpen
<1>10. ClearedKey' /\ AnswerKnown'
  BY <1>1, <1>3 DEF PlaceOrder, stored, Inv, OrderInv, ClearedKey, AnswerKnown, At, Becomes, Result
<1>11. ~Remembered(s)
  <2>1. results[s] = None /\ s \notin dedup
    BY <1>0, <1>1, <1>8 DEF Inv, OrderInv, RequestOpen, ClearedKey, At
  <2>2. \A v \in Workers : worker[v].step \in {"placed", "decided"} => worker[v].signal # s
    BY <1>1, <1>8 DEF Inv, OrderInv, RequestAlone, Holds, Canonical
  <2>. QED BY <2>1, <2>2 DEF Remembered
<1>12. Remembered(s)'
  BY <1>1, <1>3 DEF Remembered, Becomes
<1>13. \A t \in Signals \ {s} : Remembered(t) => Remembered(t)'
  BY <1>1, <1>3 DEF Remembered, Becomes, PlaceOrder, stored
<1>14. /\ orders'[s] = orders[s] + 1 /\ \A t \in Signals \ {s} : orders'[t] = orders[t]
       /\ forgotten' = forgotten
  BY <1>0, <1>1 DEF PlaceOrder, Inv, TypeInv, TypeOK
<1>15. OrdersKnown'
  BY <1>12, <1>13, <1>14 DEF Inv, OrderInv, OrdersKnown
<1>16. OrderNotRepeated'
  BY <1>1, <1>11, <1>14 DEF Inv, OrderInv, OrdersKnown, OrderNotRepeated, TypeInv, TypeOK
<1>. QED BY <1>4, <1>5, <1>7, <1>9, <1>10, <1>15, <1>16 DEF Inv, OrderInv

LEMMA MarkExecutedInv ==
  ASSUME Inv, NEW w \in Workers, MarkExecuted(w) PROVE Inv'
<1>0. PICK s \in Signals : s = worker[w].signal
  BY DEF MarkExecuted, At, Canonical, Inv, TypeInv, TypeOK
<1>. DEFINE new == [worker[w] EXCEPT !.step = "decided"]
<1>1. worker[w].step = "placed" /\ ~At(w, "idle") 
  BY DEF MarkExecuted, At, Canonical, Inv, TypeInv, TypeOK
<1>2. /\ Sound(w, new) /\ RowsKept(new) /\ new.step = "decided" /\ new.job = worker[w].job
      /\ new.signal = s /\ new.answer = worker[w].answer
  BY <1>0, <1>1, GotoSound DEF Steps, Canonical
<1>3. Update(w, new)
  BY DEF MarkExecuted, Goto
<1>. HIDE DEF new
<1>4. /\ worker' \in [Workers -> WorkerState] /\ Becomes(w, new)
      /\ \A v \in Workers : worker'[v].signal \in Signals <=> worker'[v].step \in Canonical
      /\ Employed'
  BY <1>2, <1>3, UpdateType DEF Inv, Sound, Becomes
<1>5. TypeInv'
  BY <1>0, <1>1, <1>4 DEF MarkExecuted, Inv, TypeInv, TypeOK
<1>6. RowsBacked'
  BY <1>2, <1>4, RowsSame, StoredTypeNow DEF MarkExecuted, LedgerType, Backed
<1>7. JobsCared'
  <2>1. CareKept(w, new)
    BY <1>2 DEF CareKept, Spent, MarkExecuted
  <2>. QED BY <1>4, <2>1, CareSame
<1>8. Holds(w, s) /\ \A v \in Workers, t \in Signals : Holds(v, t)' <=> Holds(v, t)
  BY <1>0, <1>1, <1>2, <1>4 DEF Holds, Becomes, Canonical
<1>9. RequestAlone' /\ RequestOpen'
  BY <1>8 DEF MarkExecuted, Inv, OrderInv, RequestAlone, RequestOpen
<1>10. AnswerKnown'
  BY <1>1, <1>2, <1>4 DEF Inv, OrderInv, AnswerKnown, Becomes
<1>11. ClearedKey'
  <2>1. \A v \in Workers : worker[v].step = "cleared" => worker[v].signal # s
    BY <1>1, <1>8 DEF Inv, OrderInv, RequestAlone, Holds, Canonical
  <2>. QED BY <1>0, <1>2, <1>4, <2>1 DEF MarkExecuted, Inv, OrderInv, ClearedKey, At, Becomes
<1>12. \A t \in Signals : Remembered(t) => Remembered(t)'
  BY <1>1, <1>2, <1>4 DEF Remembered, Becomes, MarkExecuted
<1>13. OrdersKnown' /\ OrderNotRepeated'
  BY <1>12 DEF MarkExecuted, Inv, OrderInv, OrdersKnown, OrderNotRepeated
<1>. QED BY <1>5, <1>6, <1>7, <1>9, <1>10, <1>11, <1>13 DEF Inv, OrderInv

LEMMA CommitResultInv ==
  ASSUME Inv, NEW w \in Workers, CommitResult(w) PROVE Inv'
<1>0. PICK s \in Signals : s = worker[w].signal
  BY DEF CommitResult, At, Canonical, Inv, TypeInv, TypeOK
<1>. DEFINE r == worker[w].answer
            new == After(w, <<s, r>>, FALSE)
<1>1. worker[w].step = "decided" /\ ~At(w, "idle") /\ r \in Result
  BY DEF CommitResult, At, Canonical, Inv, TypeInv, TypeOK, OrderInv, AnswerKnown
<1>2. Holds(w, s) /\ results[s] = None
  BY <1>0, <1>1 DEF Holds, Canonical, Inv, OrderInv, RequestOpen
<1>3. /\ Sound(w, new) /\ new.step = "working" /\ new.job = worker[w].job
      /\ new.read = worker[w].read /\ new.rows = worker[w].rows \cup {<<s, r>>}
  BY <1>1, AfterSound DEF Row
<1>4. Update(w, new)
  BY <1>0 DEF CommitResult, NextSignal, After
<1>5. None \notin Result
  BY DEF None, Result
<1>6. results'[s] = r /\ \A t \in Signals \ {s} : results'[t] = results[t]
  BY <1>0, <1>1 DEF CommitResult, Inv, TypeInv, TypeOK
<1>. HIDE DEF new
<1>7. /\ worker' \in [Workers -> WorkerState] /\ Becomes(w, new)
      /\ \A v \in Workers : worker'[v].signal \in Signals <=> worker'[v].step \in Canonical
      /\ Employed'
  BY <1>3, <1>4, UpdateType DEF Inv, Sound, Becomes
<1>8. rowLock' \in [Jobs -> Workers \cup {NoWorker}]
  BY UnlockType DEF CommitResult
<1>9. deferred' \in [Jobs -> Status]
      /\ \A j \in Jobs : deferred'[j] = deferred[j] \/ j = worker[w].job
  BY DEF CommitResult, Marked, Inv, TypeInv, TypeOK, Status
<1>10. TypeInv'
  BY <1>1, <1>7, <1>8, <1>9 DEF CommitResult, Inv, TypeInv, TypeOK
<1>11. RowsBacked'
  <2>1. \A t \in Signals, a \in Result : results[t] = a => results'[t] = a
    BY <1>2, <1>5, <1>6
  <2>2. Backed(ledger)' /\ \A v \in Workers : Backed(worker[v].read)' /\ Backed(worker[v].rows)'
    BY <1>1, <1>3, <1>6, <1>7, <2>1 DEF CommitResult, Inv, RowsBacked, Backed, Becomes
  <2>. QED BY <2>2 DEF RowsBacked
<1>12. JobsCared'
  <2>1. CareKept(w, new)
    BY <1>3, <1>9 DEF CareKept, Spent, CommitResult
  <2>. QED BY <1>7, <2>1, CareSame
<1>13. \A v \in Workers, t \in Signals : Holds(v, t)' => Holds(v, t) /\ t # s
  BY <1>2, <1>3, <1>7 DEF Holds, Becomes, Canonical, Inv, OrderInv, RequestAlone
<1>14. RequestAlone' /\ RequestOpen'
  BY <1>6, <1>13 DEF Inv, OrderInv, RequestAlone, RequestOpen
<1>15. ClearedKey' /\ AnswerKnown'
  BY <1>3, <1>7 DEF CommitResult, Inv, OrderInv, ClearedKey, AnswerKnown, At, Becomes
<1>16. Remembered(s)' /\ \A t \in Signals \ {s} : Remembered(t) => Remembered(t)'
  BY <1>0, <1>1, <1>3, <1>5, <1>6, <1>7 DEF Remembered, Becomes, CommitResult
<1>17. OrdersKnown' /\ OrderNotRepeated'
  BY <1>16 DEF CommitResult, Inv, OrderInv, OrdersKnown, OrderNotRepeated
<1>. QED BY <1>10, <1>11, <1>12, <1>14, <1>15, <1>17 DEF Inv, OrderInv

LEMMA EndBatchInv ==
  ASSUME Inv, NEW w \in Workers, EndBatch(w) PROVE Inv'
<1>1. ~At(w, "idle") /\ ~Spent(worker[w]) /\ worker[w].step = "working"
  BY DEF EndBatch, At, Spent
<1>2. OrderKept(w, [worker[w] EXCEPT !.step = "logging"])
  BY <1>1, GotoSound DEF OrderKept, Steps, Canonical
<1>3. StoredType' /\ LedgerType'
  BY StoredTypeNow DEF EndBatch, stored, StoredType, LedgerType, Backed
<1>. QED BY <1>1, <1>2, <1>3, GotoInv DEF EndBatch, stored, Steps, Canonical

LEMMA OpenLedgerInv ==
  ASSUME Inv, NEW w \in Workers, OpenLedger(w) PROVE Inv'
<1>1. ~At(w, "idle") /\ ~Spent(worker[w]) /\ worker[w].step = "logging"
  BY DEF OpenLedger, At, Spent
<1>2. OrderKept(w, [worker[w] EXCEPT !.step = "truncated"])
  BY <1>1, GotoSound DEF OrderKept, Steps, Canonical
<1>3. StoredType' /\ LedgerType'
  BY StoredTypeNow DEF OpenLedger, StoredType, LedgerType, Backed
<1>. QED BY <1>1, <1>2, <1>3, GotoInv DEF OpenLedger, Steps, Canonical

LEMMA WriteLedgerInv ==
  ASSUME Inv, NEW w \in Workers, WriteLedger(w) PROVE Inv'
<1>1. ~At(w, "idle") /\ ~Spent(worker[w]) /\ worker[w].step = "truncated"
  BY DEF WriteLedger, At, Spent
<1>2. OrderKept(w, [worker[w] EXCEPT !.step = "marking"])
  BY <1>1, GotoSound DEF OrderKept, Steps, Canonical
<1>3. worker[w].read \subseteq Row /\ worker[w].rows \subseteq Row
  BY DEF Inv, TypeInv, TypeOK, WorkerState
<1>4. LedgerType'
  BY <1>3, SoundNow DEF WriteLedger, LedgerType, RowsKept, Backed
<1>5. StoredType'
  BY StoredTypeNow DEF WriteLedger, StoredType
<1>. QED BY <1>1, <1>2, <1>4, <1>5, GotoInv DEF WriteLedger, Steps, Canonical

LEMMA MarkSucceededInv ==
  ASSUME Inv, NEW w \in Workers, MarkSucceeded(w) PROVE Inv'
<1>1. ~At(w, "idle") /\ ~Spent(worker[w]) /\ worker[w].step = "marking"
  BY DEF MarkSucceeded, At, Spent
<1>2. OrderKept(w, [worker[w] EXCEPT !.step = "done"])
  BY <1>1, GotoSound DEF OrderKept, Steps, Canonical
<1>3. /\ deferred' \in [Jobs -> Status]
      /\ \A j \in Jobs : deferred'[j] = deferred[j] \/ deferred'[j] \in Finished
      /\ \A j \in Jobs : worker[w].job = j => deferred'[j] \in Finished
  BY DEF MarkSucceeded, Inv, TypeInv, TypeOK, Status, Finished
<1>4. StoredType' /\ LedgerType'
  BY <1>3, StoredTypeNow, UnlockType DEF MarkSucceeded, StoredType, LedgerType, Backed
<1>. QED BY <1>1, <1>2, <1>3, <1>4, GotoInv DEF MarkSucceeded, Steps, Canonical

-----------------------------------------------------------------------------
(* A worker that waits again, and failures *)

\* A worker that was spent, or leaves its job to somebody, can go idle.
LEMMA IdleInv ==
  ASSUME Inv, NEW w \in Workers, Update(w, Idle), worker[w].step \notin Canonical,
         UNCHANGED <<results, dedup, orders, forgotten>>,
         CareKept(w, Idle), StoredType', LedgerType'
  PROVE  Inv'
<1>1. Sound(w, Idle) /\ RowsKept(Idle)
  BY IdleType DEF Sound, RowsKept, Backed, Canonical
<1>2. OrderKept(w, Idle)
  BY IdleType DEF OrderKept, Canonical
<1>. QED BY <1>1, <1>2, QuietInv, IdleType

LEMMA AcknowledgeInv ==
  ASSUME Inv, NEW w \in Workers, Acknowledge(w) PROVE Inv'
<1>1. worker[w].step = "done" /\ Spent(worker[w])
  BY DEF Acknowledge, At, Spent
<1>2. CareKept(w, Idle)
  BY <1>1, IdleType DEF CareKept, Acknowledge, stored
<1>3. StoredType' /\ LedgerType'
  BY StoredTypeNow DEF Acknowledge, stored, StoredType, LedgerType, Backed
<1>. QED BY <1>1, <1>2, <1>3, IdleInv DEF Acknowledge, stored, Canonical

LEMMA MarkFailedInv ==
  ASSUME Inv, NEW w \in Workers, MarkFailed(w) PROVE Inv'
<1>1. worker[w].step = "failing" /\ worker[w].job \in Jobs
  BY DEF MarkFailed, At, Inv, TypeInv, Employed
<1>2. /\ deferred' \in [Jobs -> Status]
      /\ \A j \in Jobs : deferred'[j] = deferred[j] \/ deferred'[j] \in Finished
      /\ ~Spent(worker[w]) => deferred'[worker[w].job] \in Finished
  BY <1>1 DEF MarkFailed, Spent, Inv, TypeInv, TypeOK, Status, Finished
<1>3. CareKept(w, Idle)
  BY <1>2 DEF CareKept, MarkFailed
<1>4. StoredType' /\ LedgerType'
  BY <1>2, StoredTypeNow DEF MarkFailed, StoredType, LedgerType, Backed
<1>. QED BY <1>1, <1>3, <1>4, IdleInv DEF MarkFailed, Canonical

LEMMA FaultType == ASSUME Inv, Fault PROVE faults' \in Nat
BY DeferredAssumption DEF Fault, Inv, TypeInv, TypeOK

LEMMA FailUnmarkedInv ==
  ASSUME Inv, NEW w \in Workers, FailUnmarked(w) PROVE Inv'
<1>1. worker[w].step \in {"received", "raised", "failing"} /\ worker[w].job \in Jobs
  BY DEF FailUnmarked, Inv, TypeInv, Employed
<1>2. CareKept(w, Idle)
  BY DEF CareKept, FailUnmarked, stored
<1>3. StoredType' /\ LedgerType'
  BY <1>1, StoredTypeNow, FaultType DEF FailUnmarked, stored, StoredType, LedgerType, Backed
<1>. QED BY <1>1, <1>2, <1>3, IdleInv DEF FailUnmarked, stored, Canonical

LEMMA HandlerFailsInv ==
  ASSUME Inv, NEW w \in Workers, HandlerFails(w) PROVE Inv'
<1>. DEFINE new == [worker[w] EXCEPT !.step = "raised", !.marked = FALSE]
<1>1. /\ worker[w].step \in {"received", "working", "logging", "truncated", "marking", "done"}
      /\ worker[w].job \in Jobs
  BY DEF HandlerFails, Inv, TypeInv, Employed
<1>2. Sound(w, new) /\ RowsKept(new) /\ new.step = "raised" /\ new.job = worker[w].job
  BY <1>1, SoundNow, ZenonT(60) DEF Sound, WorkerState, Steps, Canonical, RowsKept
<1>3. Update(w, new)
  BY DEF HandlerFails
<1>. HIDE DEF new
<1>4. OrderKept(w, new)
  BY <1>1, <1>2 DEF OrderKept, Canonical
<1>5. CareKept(w, new)
  BY <1>2 DEF CareKept, Spent, HandlerFails
<1>6. StoredType' /\ LedgerType'
  BY StoredTypeNow, FaultType, UnlockType DEF HandlerFails, StoredType, LedgerType, Backed
<1>. QED BY <1>2, <1>3, <1>4, <1>5, <1>6, QuietInv DEF HandlerFails

LEMMA ReadAgainInv ==
  ASSUME Inv, NEW w \in Workers, ReadAgain(w) PROVE Inv'
<1>. DEFINE new == [worker[w] EXCEPT !.step = "failing", !.loaded = deferred[worker[w].job]]
<1>1. worker[w].step = "raised" /\ worker[w].job \in Jobs /\ deferred[worker[w].job] \in Status
  BY DEF ReadAgain, At, Inv, TypeInv, TypeOK, Employed
<1>2. /\ Sound(w, new) /\ RowsKept(new) /\ new.step = "failing" /\ new.job = worker[w].job
      /\ new.loaded = deferred[new.job]
  BY <1>1, SoundNow, ZenonT(60) DEF Sound, WorkerState, Steps, Canonical, RowsKept
<1>3. Update(w, new)
  BY DEF ReadAgain
<1>. HIDE DEF new
<1>4. OrderKept(w, new)
  BY <1>1, <1>2 DEF OrderKept, Canonical
<1>5. deferred[new.job] \in Finished \/ ~Spent(new)
  BY <1>2 DEF Spent, Finished
<1>6. CareKept(w, new)
  BY <1>2, <1>5 DEF CareKept, ReadAgain, stored
<1>7. StoredType' /\ LedgerType'
  BY StoredTypeNow DEF ReadAgain, stored, StoredType, LedgerType, Backed
<1>. QED BY <1>2, <1>3, <1>4, <1>6, <1>7, QuietInv DEF ReadAgain, stored

LEMMA RequeueType ==
  ASSUME Inv, NEW w \in Workers, ~At(w, "idle"), Requeue(w)
  PROVE  /\ worker[w].job \in Jobs
         /\ queue' \in [Jobs -> Nat]
         /\ queue'[worker[w].job] > 0
         /\ \A j \in Jobs : queue[j] > 0 => queue'[j] > 0
BY DEF Requeue, At, Inv, TypeInv, TypeOK, Employed

LEMMA DisconnectInv ==
  ASSUME Inv, NEW w \in Workers, Disconnect(w) PROVE Inv'
<1>. DEFINE new == [worker[w] EXCEPT !.connected = FALSE]
<1>1. /\ Sound(w, new) /\ RowsKept(new) /\ new.step = worker[w].step
      /\ new.job = worker[w].job /\ new.signal = worker[w].signal
      /\ new.answer = worker[w].answer /\ new.loaded = worker[w].loaded
  BY SoundNow DEF Sound, WorkerState, RowsKept
<1>2. Update(w, new)
  BY DEF Disconnect
<1>. HIDE DEF new
<1>3. OrderKept(w, new)
  BY <1>1 DEF OrderKept, Canonical, At, Inv, OrderInv, ClearedKey, AnswerKnown
<1>4. CareKept(w, new)
  BY <1>1, RequeueType DEF CareKept, Spent, Disconnect, stored
<1>5. StoredType' /\ LedgerType'
  BY StoredTypeNow, FaultType, RequeueType
     DEF Disconnect, stored, StoredType, LedgerType, Backed
<1>. QED BY <1>1, <1>2, <1>3, <1>4, <1>5, QuietInv DEF Disconnect, stored

\* A failure in which worker w loses an uncommitted request, if it had one.
LEMMA ForgetInv ==
  ASSUME Inv, NEW w \in Workers, NEW new, Update(w, new), Sound(w, new),
         new.step \notin Canonical, RowsKept(new), CareKept(w, new),
         RecordForgotten, UNCHANGED <<results, dedup, orders>>, StoredType', LedgerType'
  PROVE  Inv'
<1>1. /\ worker' \in [Workers -> WorkerState] /\ Becomes(w, new)
      /\ \A v \in Workers : worker'[v].signal \in Signals <=> worker'[v].step \in Canonical
      /\ Employed'
  BY UpdateType DEF Inv, Sound, Becomes
<1>2. OrderInv' /\ forgotten' \in [Signals -> Nat]
  BY <1>1, OrderForgotten DEF Becomes
<1>3. TypeInv'
  BY <1>1, <1>2 DEF Inv, TypeInv, TypeOK, StoredType, LedgerType
<1>4. RowsBacked'
  BY <1>1, RowsSame DEF LedgerType, Backed
<1>5. JobsCared'
  BY <1>1, CareSame
<1>. QED BY <1>2, <1>3, <1>4, <1>5 DEF Inv

LEMMA SignalFailsInv ==
  ASSUME Inv, NEW w \in Workers, SignalFails(w) PROVE Inv'
<1>0. PICK s \in Signals : s = worker[w].signal
  BY DEF SignalFails, Inv, TypeInv, TypeOK
<1>. DEFINE new == After(w, <<s, None>>, FALSE)
<1>1. worker[w].step \in Canonical /\ ~At(w, "idle")
  BY DEF SignalFails, At, Canonical
<1>2. /\ Sound(w, new) /\ new.step = "working" /\ new.job = worker[w].job
      /\ new.read = worker[w].read /\ new.rows = worker[w].rows \cup {<<s, None>>}
  BY <1>1, AfterSound DEF Row
<1>3. Update(w, new)
  BY <1>0 DEF SignalFails, NextSignal, After
<1>. HIDE DEF new
<1>4. RowsKept(new)
  BY <1>2, SoundNow DEF RowsKept, Backed, Result, None
<1>5. CareKept(w, new)
  BY <1>2 DEF CareKept, Spent, SignalFails
<1>6. StoredType' /\ LedgerType'
  BY StoredTypeNow, FaultType, UnlockType DEF SignalFails, StoredType, LedgerType, Backed
<1>. QED BY <1>2, <1>3, <1>4, <1>5, <1>6, ForgetInv DEF SignalFails, Canonical

LEMMA CrashInv ==
  ASSUME Inv, NEW w \in Workers, Crash(w) PROVE Inv'
<1>1. worker[w].job \in Jobs
  BY DEF Crash, At, Inv, TypeInv, Employed
<1>2. Sound(w, Idle) /\ RowsKept(Idle) /\ Idle.step \notin Canonical
  BY IdleType DEF Sound, RowsKept, Backed, Canonical
<1>3. CareKept(w, Idle)
  BY RequeueType DEF CareKept, Crash
<1>4. StoredType' /\ LedgerType'
  BY <1>1, StoredTypeNow, FaultType, UnlockType, RequeueType
     DEF Crash, StoredType, LedgerType, Backed
<1>. QED BY <1>2, <1>3, <1>4, ForgetInv, IdleType DEF Crash

LEMMA GuardForgetsInv ==
  ASSUME Inv, GuardForgets PROVE Inv'
<1>1. dedup' \subseteq dedup /\ worker' = worker
  BY DEF GuardForgets
<1>2. OrderInv' /\ forgotten' \in [Signals -> Nat]
  BY <1>1, OrderForgotten DEF GuardForgets
<1>3. TypeInv'
  BY <1>1, <1>2, FaultType DEF GuardForgets, Inv, TypeInv, TypeOK, Employed
<1>4. RowsBacked' /\ JobsCared'
  BY DEF GuardForgets, Inv, RowsBacked, Backed, JobsCared, Cared
<1>. QED BY <1>2, <1>3, <1>4 DEF Inv

-----------------------------------------------------------------------------
(* The invariant *)

LEMMA InitInv == Init => Inv
<1>. SUFFICES ASSUME Init PROVE Inv
  OBVIOUS
<1>1. \A w \in Workers : worker[w] = Idle
  BY DEF Init
<1>2. TypeInv
  BY <1>1, IdleType DEF Init, TypeInv, TypeOK, Employed, Status, Canonical
<1>3. OrderInv
  BY <1>1, IdleType DEF Init, OrderInv, RequestAlone, RequestOpen, Holds, ClearedKey, At,
     AnswerKnown, OrdersKnown, OrderNotRepeated, Canonical
<1>4. RowsBacked /\ JobsCared
  BY <1>1, IdleType DEF Init, RowsBacked, Backed, JobsCared
<1>. QED BY <1>2, <1>3, <1>4 DEF Inv

LEMMA NextInv == Inv /\ [Next]_vars => Inv'
<1>. SUFFICES ASSUME Inv, [Next]_vars PROVE Inv'
  OBVIOUS
<1>1. ASSUME NEW j \in Jobs, Deliver(j) PROVE Inv'
  BY <1>1, DeliverInv
<1>2. ASSUME NEW w \in Workers, Receive(w) PROVE Inv'
  BY <1>2, ReceiveInv
<1>3. ASSUME NEW w \in Workers, Waiting(w) PROVE Inv'
  BY <1>3, MarkRunningInv, SaveRequestInv, MarkSucceededInv, MarkFailedInv DEF Waiting
<1>4. ASSUME NEW w \in Workers, Running(w) PROVE Inv'
  BY <1>4, BlockInv, LookUpInv, RequestExistsInv, EvaluateGuardInv, PlaceOrderInv,
     MarkExecutedInv, CommitResultInv, EndBatchInv, OpenLedgerInv, WriteLedgerInv,
     AcknowledgeInv, ReadAgainInv DEF Running
<1>5. ASSUME NEW w \in Workers, Failing(w) PROVE Inv'
  BY <1>5, SignalFailsInv, HandlerFailsInv, FailUnmarkedInv, DisconnectInv, CrashInv DEF Failing
<1>6. ASSUME GuardForgets PROVE Inv'
  BY <1>6, GuardForgetsInv
<1>7. CASE UNCHANGED vars
  BY <1>7 DEF vars, stored, Inv, TypeInv, TypeOK, Employed, OrderInv, RequestAlone, RequestOpen,
     Holds, ClearedKey, At, AnswerKnown, OrdersKnown, Remembered, OrderNotRepeated,
     RowsBacked, Backed, JobsCared, Cared
<1>. QED BY <1>1, <1>2, <1>3, <1>4, <1>5, <1>6, <1>7 DEF Next

LEMMA Invariance == Spec => []Inv
BY InitInv, NextInv, PTL DEF Spec

-----------------------------------------------------------------------------
(* Theorems *)

\* Deferred jobs, results, ledger and workers stay well typed, and a signal is
\* in the hands of the canonical service exactly in its own steps.
THEOREM TypeCorrect == Spec => []TypeOK
<1>1. Inv => TypeOK
  BY DEF Inv, TypeInv
<1>. QED BY <1>1, Invariance, PTL

\* A signal goes out once, however often and to however many workers its jobs
\* are delivered, unless failures erased every trace of the first order.
THEOREM OrdersAreNotRepeated == Spec => []OrderNotRepeated
<1>1. Inv => OrderNotRepeated
  BY DEF Inv, OrderInv
<1>. QED BY <1>1, Invariance, PTL

\* The ledger never says of a signal that it was executed or rejected unless
\* the committed result does.
THEOREM LedgerIsBacked == Spec => []LedgerBacked
<1>1. Inv => LedgerBacked
  BY DEF Inv, RowsBacked, Backed, LedgerBacked
<1>. QED BY <1>1, Invariance, PTL

\* A delivered job without an outcome has a message, a handler or a place among
\* the jobs whose message is gone without a mark.
THEOREM UnfinishedJobsAreHandled == Spec => []UnfinishedIsHandled
<1>1. Inv => UnfinishedIsHandled
  BY DEF Inv, JobsCared, Cared, UnfinishedIsHandled, Handled
<1>. QED BY <1>1, Invariance, PTL
=============================================================================
