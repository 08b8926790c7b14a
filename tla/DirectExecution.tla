--------------------------- MODULE DirectExecution ---------------------------
(***************************************************************************)
(* ExecutionService: a batch of items is executed one after the other in   *)
(* one database session.  A claim is flushed before the order goes out and *)
(* completed and committed after the answer; what happens to the claim and *)
(* to the rest of the session when something is wrong with the answer      *)
(* depends on where it is noticed.                                         *)
(***************************************************************************)
EXTENDS TradeStatuses, Naturals

CONSTANTS
  Items,             \* reviewed trades named by the items of a batch
  RequestedStatus,   \* the status each item asks for
  DirectMode,        \* "PAPER" or "LIVE"
  ContinueOnError,   \* does a batch go on after an error?
  MaxDirectBatches   \* bound on the batches

VARIABLES
  durable,     \* committed reviewed trade and executions row of each item
  flushed,     \* what the session has changed and not committed
  item,        \* the item in hand, and the step it is at
  pending,     \* items of the batch still to come
  decisions,   \* outcome of each item in the latest batch
  runs,        \* batches begun
  ordered,     \* history: orders sent for each item
  unrecorded   \* history: items with an order whose answer could not be stored

directVars == <<durable, flushed, item, pending, decisions, runs, ordered, unrecorded>>

NoRow   == "NONE"
Approved == [trade |-> "APPROVED", row |-> NoRow]
Claimed  == [trade |-> "EXECUTE_REQUESTED", row |-> "PENDING"]
Nothing  == [trade |-> NoRow, row |-> NoRow]

\* What the session reads: its own changes first.
View(t) == IF flushed[t] = Nothing THEN durable[t] ELSE flushed[t]

\* A commit stores every change of the session, a rollback forgets them all.
Commit(changes) ==
  /\ durable' = [t \in Items |-> IF changes[t] = Nothing THEN durable[t] ELSE changes[t]]
  /\ flushed' = [t \in Items |-> Nothing]
Rollback == UNCHANGED durable /\ flushed' = [t \in Items |-> Nothing]

\* A decision is added, and the batch goes on unless an error ends it.
Decide(t, status, error) ==
  /\ decisions' = [decisions EXCEPT ![t] = status]
  /\ item' = [step |-> "between", of |-> NoRow, answer |-> NoRow]
  /\ pending' = IF error /\ ~ContinueOnError THEN {} ELSE pending \ {t}

DirectInit ==
  /\ durable = [t \in Items |-> Approved]
  /\ flushed = [t \in Items |-> Nothing]
  /\ item = [step |-> "idle", of |-> NoRow, answer |-> NoRow]
  /\ pending = {} /\ decisions = [t \in Items |-> NoRow] /\ runs = 0
  /\ ordered = [t \in Items |-> 0] /\ unrecorded = {}

BeginBatch ==
  /\ item.step = "idle" /\ runs < MaxDirectBatches
  /\ item' = [item EXCEPT !.step = "between"]
  /\ pending' = Items /\ decisions' = [t \in Items |-> NoRow] /\ runs' = runs + 1
  /\ UNCHANGED <<durable, flushed, ordered, unrecorded>>

\* The status an item may ask for.  The default of an item is PENDING.
StatusAllowed(t) ==
  IF DirectMode = "PAPER" THEN RequestedStatus[t] \in {"", "FILLED", "EXECUTED"}
  ELSE RequestedStatus[t] = ""

\* Gates of the item's payload: the batch goes on without an error.
GatePayload(t) ==
  /\ item.step = "between" /\ t \in pending
  /\ Decide(t, "BLOCKED", FALSE)
  /\ UNCHANGED <<durable, flushed, runs, ordered, unrecorded>>

Admissible(t) == StatusAllowed(t) /\ View(t).trade = "APPROVED" /\ View(t).row = NoRow

Refuse(t) ==
  /\ item.step = "between" /\ t \in pending /\ ~Admissible(t)
  /\ Decide(t, "BLOCKED", TRUE)
  /\ UNCHANGED <<durable, flushed, runs, ordered, unrecorded>>

Claim(t) ==
  /\ item.step = "between" /\ t \in pending /\ Admissible(t)
  /\ flushed' = [flushed EXCEPT ![t] = Claimed]
  /\ item' = [step |-> "claimed", of |-> t, answer |-> NoRow]
  /\ UNCHANGED <<durable, pending, decisions, runs, ordered, unrecorded>>

\* Another session has claimed the item first: the INSERT breaks a unique key.
LoseClaim(t) ==
  /\ item.step = "between" /\ t \in pending /\ Admissible(t)
  /\ durable' = [durable EXCEPT ![t] = [trade |-> "EXECUTED", row |-> "FILLED"]]
  /\ flushed' = [u \in Items |-> Nothing]
  /\ Decide(t, "BLOCKED", TRUE)
  /\ UNCHANGED <<runs, ordered, unrecorded>>

\* What an adapter answers; a successful answer may lack its price or reference.
AdapterAnswers ==
  IF DirectMode = "PAPER" THEN {"FILLED"} ELSE (Answers \ {"FAILED"}) \cup {"INCOMPLETE", "RAISED"}

PlaceDirectOrder ==
  /\ item.step = "claimed"
  /\ \E a \in AdapterAnswers : item' = [item EXCEPT !.step = "answered", !.answer = a]
  /\ ordered' = [ordered EXCEPT ![item.of] = @ + 1]
  /\ UNCHANGED <<durable, flushed, pending, decisions, runs, unrecorded>>

\* Mutant: the claim is withdrawn.
RollbackRaised ==
  /\ item.step = "answered" /\ item.answer = "RAISED"
  /\ Rollback /\ Decide(item.of, "FAILED", TRUE)
  /\ UNCHANGED <<runs, ordered, unrecorded>>

\* An adapter that raises leaves a failed execution; the decision is BLOCKED when
\* what it raises is a ValueError.
RecordRaised ==
  /\ item.step = "answered" /\ item.answer = "RAISED"
  /\ Commit([flushed EXCEPT ![item.of] = [trade |-> CompletionTarget("FAILED"), row |-> "FAILED"]])
  /\ \E status \in {"FAILED", "BLOCKED"} : Decide(item.of, status, TRUE)
  /\ UNCHANGED <<runs, ordered, unrecorded>>

\* The answer is checked outside any handler: the claim stays in the session, for
\* the next commit to store or the end of the session to forget.
RefuseIncomplete ==
  /\ item.step = "answered" /\ item.answer = "INCOMPLETE"
  /\ Decide(item.of, "BLOCKED", TRUE)
  /\ unrecorded' = unrecorded \cup {item.of}
  /\ UNCHANGED <<durable, flushed, runs, ordered>>

\* The status of the answer is unknown, or its broker reference is taken: a
\* ValueError, raised after the rollback.
FailToRecord ==
  /\ item.step = "answered" /\ item.answer \notin {"INCOMPLETE", "RAISED"}
  /\ item.answer \in {Unmapped} \cup (IF DirectMode = "LIVE" THEN Successful ELSE {})
  /\ Rollback
  /\ Decide(item.of, "BLOCKED", TRUE)
  /\ unrecorded' = unrecorded \cup {item.of}
  /\ UNCHANGED <<runs, ordered>>

\* What a record's status counts as in the result of the batch.
MappedStatus(a) == IF a \in Blocked \cup {"FAILED"} THEN a ELSE "EXECUTED"

Complete ==
  /\ item.step = "answered" /\ item.answer \notin {"INCOMPLETE", "RAISED", Unmapped}
  /\ Commit([flushed EXCEPT ![item.of] =
               [trade |-> CompletionTarget(item.answer), row |-> item.answer]])
  /\ \/ Decide(item.of, MappedStatus(item.answer), FALSE)
     \/ Decide(item.of, "FAILED", TRUE)   \* the record is committed but not read back
  /\ UNCHANGED <<runs, ordered, unrecorded>>

\* Any other exception, in the gates, around the claim, where the answer is stored,
\* or in the handler of an adapter that raised: all the session holds is rolled back.
Break(t) ==
  /\ \/ item.step = "between" /\ t \in pending
     \/ item.step \in {"claimed", "answered"} /\ t = item.of
  /\ Rollback /\ Decide(t, "FAILED", TRUE)
  /\ unrecorded' = unrecorded \cup (IF item.step = "answered" THEN {t} ELSE {})
  /\ UNCHANGED <<runs, ordered>>

\* The session is closed without a commit.
EndBatch ==
  /\ item.step = "between" /\ pending = {}
  /\ Rollback
  /\ item' = [item EXCEPT !.step = "idle"]
  /\ UNCHANGED <<pending, decisions, runs, ordered, unrecorded>>

DirectNext ==
  \/ BeginBatch \/ PlaceDirectOrder \/ RecordRaised \/ RefuseIncomplete
  \/ FailToRecord \/ Complete \/ EndBatch
  \/ \E t \in Items : GatePayload(t) \/ Refuse(t) \/ Claim(t) \/ LoseClaim(t) \/ Break(t)

DirectSpec == DirectInit /\ [][DirectNext]_directVars

-----------------------------------------------------------------------------
\* However many batches name it, an item is ordered once, unless the answer to its
\* order could not be stored: the claim is then taken back after the order went out
\* (service.py:442) or left to the end of the session (service.py:346).
OrderedOnce == \A t \in Items : ordered[t] > 1 => t \in unrecorded

\* A claim without an outcome is committed only for an order whose answer was
\* incomplete, by the commit of another item (service.py:346,412).
ClaimsEnd == \A t \in Items : durable[t].row = "PENDING" => t \in unrecorded

\* What a batch shows of an item and what the tables say (service.py:518,572).  An
\* item is shown as executed only if its trade and its execution are.  FAILED says
\* less: an item shown so may be approved as before, or executed and not read back;
\* but the outcome of its order is in the tables, unless it could not be stored.
DecisionsTrue ==
  \A t \in Items :
    /\ decisions[t] = "EXECUTED" => durable[t].row \in Successful /\ durable[t].trade = "EXECUTED"
    /\ decisions[t] # NoRow /\ ordered[t] > 0 =>
         durable[t].row \notin {NoRow, "PENDING"} \/ t \in unrecorded

\* What the code promises of a direct execution, together.
DirectOutcomesHold == OrderedOnce /\ ClaimsEnd /\ DecisionsTrue
=============================================================================
