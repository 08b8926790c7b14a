------------------------------- MODULE Outbox -------------------------------
(***************************************************************************)
(* The transactional outbox.  Business transactions insert events; the     *)
(* outbox worker and POST /outbox/dispatch hand the ready ones to the      *)
(* message bus; POST /outbox/{id}/retry makes an unpublished event ready   *)
(* again.                                                                  *)
(*                                                                         *)
(* A dispatch cycle reads its events once, without locks, publishes them   *)
(* one by one and flushes a mark after each; one commit ends the cycle.    *)
(* The bus takes part in no transaction.  Rows are locked from the flush   *)
(* of a mark to that commit (PostgreSQL, READ COMMITTED), and an UPDATE    *)
(* writes only the columns whose value differs from the one the session    *)
(* read.                                                                   *)
(***************************************************************************)
EXTENDS Integers, FiniteSets

CONSTANTS
  Events,        \* outbox_events.id
  Workers,       \* outbox worker processes
  ApiDispatches, \* sessions serving POST /outbox/dispatch
  Admins,        \* sessions serving POST /outbox/{id}/retry
  NoSession,     \* holder of a free row
  NoEvent,       \* event of a session between two events
  Limit,         \* events per dispatch cycle
  FirstDelay,    \* backoff after the first failure, in polls of the worker
  MaxDelay,      \* cap of the backoff, in polls
  Outcomes,      \* [Events -> SUBSET PublishOutcome]: what publishing may do
  MaxDisturbances \* bound on rollbacks and retry requests

Dispatchers == Workers \cup ApiDispatches
Sessions    == Dispatchers \cup Admins

\* The bus may deliver a message and still report failure (connection lost
\* after the send).  It may also report success and deliver nothing: the
\* RabbitMQ channel has no publisher confirms, and an exchange without a bound
\* queue drops what it gets.
PublishOutcome == [arrives : BOOLEAN, reply : BOOLEAN]

ASSUME OutboxAssumption ==
  /\ Events \subseteq Nat
  /\ NoEvent \notin Events
  /\ NoSession \notin Sessions
  /\ Limit \in Nat \ {0}
  /\ FirstDelay \in Nat \ {0} /\ MaxDelay \in Nat /\ FirstDelay <= MaxDelay
  /\ Outcomes \in [Events -> SUBSET PublishOutcome]
  /\ MaxDisturbances \in Nat
  /\ IsFiniteSet(Workers) /\ IsFiniteSet(ApiDispatches)

VARIABLES
  row,       \* outbox_events, committed
  lock,      \* session holding each row
  session,   \* what each session has in memory
  arrived,   \* history: events the bus has delivered
  dropped,   \* history: events the bus has confirmed and delivered to nobody
  copies,    \* history: acknowledged arrivals no failure accounts for
  disturbed  \* rollbacks and retry requests so far

vars == <<row, lock, session, arrived, dropped, copies, disturbed>>

-----------------------------------------------------------------------------
RowStatus == {"ABSENT", "PENDING", "FAILED", "PUBLISHED"}
Mark      == {"PENDING", "FAILED", "PUBLISHED"}

\* attempt_count is kept as the backoff it leads to (0: no failure yet), and
\* available_at as the number of polls until the event is due.
Row == [status : RowStatus, backoff : 0..MaxDelay, wait : 0..MaxDelay]

NoRow == [status |-> "ABSENT", backoff |-> 0, wait |-> 0]
NoMark == "NONE"

\* What an ORM object keeps of the row it was loaded from.
Loaded == [status : RowStatus, backoff : 0..MaxDelay]
NotLoaded == [status |-> "ABSENT", backoff |-> 0]

SessionState ==
  [step    : {"idle", "working", "marking", "sleeping"},
   batch   : SUBSET Events,                      \* events still to process
   current : Events \cup {NoEvent},              \* event being marked
   target  : Mark \cup {NoMark},                 \* mark it will get
   read    : [Events -> Loaded],                 \* rows as loaded
   marks   : [Events -> Mark \cup {NoMark}]]     \* flushed, not committed

Idle == [step |-> "idle", batch |-> {}, current |-> NoEvent, target |-> NoMark,
         read |-> [e \in Events |-> NotLoaded], marks |-> [e \in Events |-> NoMark]]

Load(batch) ==
  [e \in Events |-> IF e \in batch
                   THEN [status |-> row[e].status, backoff |-> row[e].backoff]
                   ELSE NotLoaded]

At(s, step)    == session[s].step = step
Update(s, new) == session' = [session EXCEPT ![s] = new]

\* End of a transaction: its locks are gone.
Unlock(s) == lock' = [e \in Events |-> IF lock[e] = s THEN NoSession ELSE lock[e]]

Init ==
  /\ row = [e \in Events |-> NoRow]
  /\ lock = [e \in Events |-> NoSession]
  /\ session = [s \in Sessions |-> Idle]
  /\ arrived = {}
  /\ dropped = {}
  /\ copies = [e \in Events |-> 0]
  /\ disturbed = 0

-----------------------------------------------------------------------------
\* A business transaction that inserted the event commits.
Enqueue(e) ==
  /\ row[e].status = "ABSENT"
  /\ row' = [row EXCEPT ![e].status = "PENDING"]
  /\ UNCHANGED <<lock, session, arrived, dropped, copies, disturbed>>

(* Dispatch cycle *)

\* Mutant: the status filter is dropped.
ReadyWhateverStatus == {e \in Events : row[e].status # "ABSENT" /\ row[e].wait = 0}

Ready == {e \in Events : row[e].status \in {"PENDING", "FAILED"} /\ row[e].wait = 0}

\* The Limit ready events with the lowest ids are read, without a lock.
LoadReady(d) ==
  /\ At(d, "idle")
  /\ LET first == {e \in Ready : Cardinality({f \in Ready : f < e}) < Limit} IN
       Update(d, [Idle EXCEPT !.step = "working", !.batch = first, !.read = Load(first)])
  /\ UNCHANGED <<row, lock, arrived, dropped, copies, disturbed>>

\* History of one publish() call.
Deliver(e, o) ==
  /\ arrived' = IF o.arrives THEN arrived \cup {e} ELSE arrived
  /\ dropped' = IF o.reply /\ ~o.arrives THEN dropped \cup {e} ELSE dropped
  /\ copies' = IF o.arrives /\ o.reply THEN [copies EXCEPT ![e] = @ + 1] ELSE copies

ToMark(d, e, mark) ==
  Update(d, [session[d] EXCEPT !.step = "marking", !.current = e, !.target = mark])

\* Mutant: what publish() returns is not looked at.
PublishUnchecked(d) ==
  /\ At(d, "working")
  /\ \E e \in session[d].batch :
       /\ \A f \in session[d].batch : e <= f
       /\ \E o \in Outcomes[e] : Deliver(e, o)
       /\ ToMark(d, e, "PUBLISHED")
  /\ UNCHANGED <<row, lock, disturbed>>

\* Mutant: the batch comes in no particular order.
PublishUnordered(d) ==
  /\ At(d, "working")
  /\ \E e \in session[d].batch : \E o \in Outcomes[e] :
       Deliver(e, o) /\ ToMark(d, e, IF o.reply THEN "PUBLISHED" ELSE "FAILED")
  /\ UNCHANGED <<row, lock, disturbed>>

\* The next event, in the order of ids, is handed to the bus.
Publish(d) ==
  /\ At(d, "working")
  /\ \E e \in session[d].batch :
       /\ \A f \in session[d].batch : e <= f
       /\ \E o \in Outcomes[e] :
            Deliver(e, o) /\ ToMark(d, e, IF o.reply THEN "PUBLISHED" ELSE "FAILED")
  /\ UNCHANGED <<row, lock, disturbed>>

\* mark_published, mark_failed, requeue_event: the UPDATE is flushed, waiting
\* for the row.
FlushMark(s) ==
  LET e == session[s].current IN
  /\ At(s, "marking")
  /\ lock[e] \in {NoSession, s}
  /\ lock' = [lock EXCEPT ![e] = s]
  /\ Update(s, [session[s] EXCEPT
       !.step = "working", !.batch = @ \ {e}, !.current = NoEvent,
       !.target = NoMark, !.marks = [@ EXCEPT ![e] = session[s].target]])
  /\ UNCHANGED <<row, arrived, dropped, copies, disturbed>>

\* Mutant: a failed event stays due.
NoBackoff(b) == 0

\* Mutant: the backoff has no cap.
UncappedBackoff(b) == IF b = 0 THEN FirstDelay ELSE 2 * b

\* The delay after one more failure.
NextBackoff(b) ==
  IF b = 0 THEN FirstDelay ELSE IF 2 * b < MaxDelay THEN 2 * b ELSE MaxDelay

\* Row r after the UPDATE of a session that had loaded it as old.
Written(r, old, mark) ==
  LET status  == IF mark = old.status THEN r.status ELSE mark
      backoff == NextBackoff(old.backoff)
  IN  CASE mark = NoMark      -> r
        [] mark = "PUBLISHED" -> [r EXCEPT !.status = status]
        [] mark = "PENDING"   -> [r EXCEPT !.status = status, !.wait = 0]
        [] mark = "FAILED"    ->
             [status |-> status, backoff |-> backoff, wait |-> backoff]

\* A published event that a stale session reopens is sent again.
Reopened(e) == row[e].status = "PUBLISHED" /\ row'[e].status # "PUBLISHED"

\* The commit; the worker then sleeps until its next poll.
Commit(s) ==
  /\ At(s, "working")
  /\ session[s].batch = {}
  /\ row' = [e \in Events |->
               Written(row[e], session[s].read[e], session[s].marks[e])]
  /\ copies' = [e \in Events |-> IF Reopened(e) THEN 0 ELSE copies[e]]
  /\ Unlock(s)
  /\ Update(s, [Idle EXCEPT !.step = IF s \in Workers THEN "sleeping" ELSE "idle"])
  /\ UNCHANGED <<arrived, dropped, disturbed>>

\* Time passes between the cycles of a worker.
Poll(w) ==
  /\ At(w, "sleeping")
  /\ Update(w, Idle)
  /\ row' = [e \in Events |-> [row[e] EXCEPT !.wait = IF @ > 0 THEN @ - 1 ELSE 0]]
  /\ UNCHANGED <<lock, arrived, dropped, copies, disturbed>>

(* POST /outbox/{id}/retry *)

\* The event is read and refused if it is published.
LoadForRetry(a) ==
  /\ At(a, "idle")
  /\ disturbed < MaxDisturbances
  /\ disturbed' = disturbed + 1
  /\ \E e \in Events :
       /\ row[e].status \in {"PENDING", "FAILED"}
       /\ Update(a, [Idle EXCEPT !.step = "marking", !.current = e,
                                 !.target = "PENDING", !.read = Load({e})])
  /\ UNCHANGED <<row, lock, arrived, dropped, copies>>

(* Failures *)

\* Events this session got through to the bus and has not committed.
Uncommitted(s) ==
  {e \in Events : \/ session[s].marks[e] = "PUBLISHED"
                  \/ session[s].current = e /\ session[s].target = "PUBLISHED"}

\* The process dies or a statement fails: every mark of the cycle is lost.
Abort(s) ==
  /\ disturbed < MaxDisturbances
  /\ disturbed' = disturbed + 1
  /\ session[s].step \in {"working", "marking"}
  /\ Update(s, Idle)
  /\ Unlock(s)
  /\ copies' = [e \in Events |-> IF e \in Uncommitted(s) THEN 0 ELSE copies[e]]
  /\ UNCHANGED <<row, arrived, dropped>>

-----------------------------------------------------------------------------
Next ==
  \/ \E e \in Events : Enqueue(e)
  \/ \E d \in Dispatchers : LoadReady(d) \/ Publish(d)
  \/ \E s \in Sessions : FlushMark(s) \/ Commit(s) \/ Abort(s)
  \/ \E w \in Workers : Poll(w)
  \/ \E a \in Admins : LoadForRetry(a)

Spec == Init /\ [][Next]_vars

PublishSuccess(w, e) ==
  /\ Publish(w)
  /\ session'[w].current = e /\ session'[w].target = "PUBLISHED"

\* A worker loops for ever, a started cycle or retry goes on, PostgreSQL
\* queues its lock waiters, and the bus does not refuse for ever an event it
\* can deliver.
FairSpec ==
  /\ Spec
  /\ \A s \in Sessions : SF_vars(FlushMark(s)) /\ WF_vars(Commit(s))
  /\ \A d \in Dispatchers : WF_vars(Publish(d))
  /\ \A w \in Workers :
       /\ WF_vars(LoadReady(w)) /\ WF_vars(Poll(w))
       /\ \A e \in Events : SF_vars(PublishSuccess(w, e))

-----------------------------------------------------------------------------
(* Properties *)

TypeOK ==
  /\ row \in [Events -> Row]
  /\ lock \in [Events -> Sessions \cup {NoSession}]
  /\ session \in [Sessions -> SessionState]
  /\ arrived \subseteq Events
  /\ dropped \subseteq Events
  /\ copies \in [Events -> Nat]
  /\ disturbed \in Nat

\* A session waits for a row that another one holds.
WaitsFor(s, r) == At(s, "marking") /\ lock[session[s].current] = r /\ r # s

\* Whoever waits for a row holds only rows with lower ids, so no set of
\* dispatchers and retries can wait for one another in a circle.
LocksInOrder ==
  \A s, r \in Sessions : WaitsFor(s, r) =>
    \A e \in Events : lock[e] = s => e < session[s].current

\* An event the table calls PUBLISHED was delivered or is one the bus dropped after it
\* had confirmed it (no exchange is bound before the first event worker starts): no
\* other dispatcher, retry or rollback leaves the mark on a row that was not sent.
PublishedArrived ==
  \A e \in Events : row[e].status = "PUBLISHED" => e \in arrived \cup dropped

\* The ready events are read without locks, so dispatchers that overlap send the same
\* event; but each of them once, and none after one has committed its mark.  A further
\* copy takes a mark lost with a rollback, an acknowledgement lost with the connection,
\* or a stale retry or failure that reopened the published row.
CopiesAccounted == \A e \in Events : copies[e] <= Cardinality(Dispatchers)

\* The bus can deliver event e, and confirms it only when it does.
Deliverable(e) ==
  /\ \E o \in Outcomes[e] : o.arrives
  /\ \A o \in Outcomes[e] : o.reply => o.arrives

\* Every deliverable event is delivered, although other events fail on every attempt
\* and take up whole cycles: failures back off.  Only a lasting stream of rollbacks or
\* retry requests could prevent it.
EventsArrive ==
  \A e \in Events : Deliverable(e) => (row[e].status = "PENDING" ~> e \in arrived)
=============================================================================
