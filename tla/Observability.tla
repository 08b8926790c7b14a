---------------------------- MODULE Observability ----------------------------
(***************************************************************************)
(* The metrics of all processes are one JSON file (observability_metrics). *)
(* Setting or incrementing one reads the file, empties it and writes it    *)
(* again, without a lock; whoever cannot read it starts it over.  Alerts   *)
(* and the market heartbeat are answered from it.                          *)
(*                                                                         *)
(* An operation is a list of writes, each of three steps.  Delays are in   *)
(* classes: 0 unalarming, 1 alarming (over 180 seconds), 2 old (over 300). *)
(***************************************************************************)
EXTENDS Naturals, Sequences, FiniteSets

CONSTANTS Writers,        \* threads and processes
          Feed,           \* the frames there may be: their last bar, their delay, their issues
          MaxOperations   \* bound of the operations

\* A frame has a last bar; its cleaning report, if there is one, lists issues.
ASSUME MetricsAssumption == IsFiniteSet(Writers) /\ Feed \subseteq (Nat \ {0}) \X Nat \X Nat

VARIABLES
  snapshot,   \* the file
  writer,     \* each writer: what it is at
  begun,      \* history: increments begun, of each counter
  due,        \* history: what the counter of schema failures shows if nothing is lost
  loads,      \* history: the frames prepared
  disturbed,  \* history: some operation was not alone, or did not end
  operations

observabilityVars == <<snapshot, writer, begun, due, loads, disturbed, operations>>

Default == [failures |-> 0, schema |-> 0, latest |-> 0, delay |-> 0, active |-> 0, notices |-> 0]
Truncated == [broken |-> "empty"]
Garbled == [broken |-> "mixed"]
Readable(file) == file \notin {Truncated, Garbled}

Increment(metric) == [metric |-> metric, set |-> FALSE, value |-> 1]
SetTo(metric, value) == [metric |-> metric, set |-> TRUE, value |-> value]

Unbusy == [phase |-> "idle", todo |-> <<>>, hand |-> Default, alerts |-> {}, answer |-> <<>>, frame |-> <<>>]

ObservabilityInit ==
  /\ snapshot = Default
  /\ writer = [w \in Writers |-> Unbusy]
  /\ begun = [m \in DOMAIN Default |-> 0] /\ due = 0
  /\ loads = {} /\ disturbed = FALSE /\ operations = 0

-----------------------------------------------------------------------------
(* Operations. *)

\* An error is logged; candles that cannot be prepared are one.
Failure == <<Increment("failures")>>
Unprepared == <<Increment("schema")>> \o Failure

Prepared(load) == <<SetTo("latest", load[1]), SetTo("delay", load[2])>>

\* A run that ends measures its frame once more, and the counter of schema failures is
\* set to the issues of that frame; fetching for the heartbeat does both at once.
Measured(load) == <<SetTo("latest", load[1]), SetTo("delay", load[2]), SetTo("schema", load[3])>>
Refreshed(load) == Prepared(load) \o Measured(load)

Tally(todo) == [m \in DOMAIN Default |-> begun[m] + Cardinality({k \in DOMAIN todo : todo[k] = Increment(m)})]

Due(todo) ==
  LET last == todo[Len(todo)]
  IN  IF last.metric = "schema" THEN last.value ELSE due + (Tally(todo)["schema"] - begun["schema"])

\* A writer goes on to the writes it has to do.
GoOn(w, todo, alerts, frame) ==
  /\ writer' = [writer EXCEPT ![w] = [Unbusy EXCEPT !.phase = "read", !.todo = todo,
                                                    !.alerts = alerts, !.frame = frame]]
  /\ begun' = Tally(todo) /\ due' = Due(todo)

Others(w) == {x \in Writers \ {w} : writer[x].phase # "idle"}

Begin(w) ==
  /\ writer[w].phase = "idle" /\ operations < MaxOperations
  /\ operations' = operations + 1
  /\ disturbed' = (disturbed \/ Others(w) # {})
  /\ UNCHANGED snapshot

\* Errors may be logged between the beginning of a run and its end.
LogException(w) == Begin(w) /\ GoOn(w, Failure, {}, writer[w].frame) /\ UNCHANGED loads

Prepare(w) ==
  /\ Begin(w)
  /\ \/ GoOn(w, Unprepared, {}, <<>>) /\ UNCHANGED loads
     \/ \E load \in Feed : GoOn(w, Prepared(load), {}, load) /\ loads' = loads \cup {load}

\* A trade of a run cannot be validated.
Unvalidated(w) == Begin(w) /\ GoOn(w, Unprepared, {}, writer[w].frame) /\ UNCHANGED loads

\* A run ends.
Measure(w) ==
  /\ Begin(w) /\ writer[w].frame # <<>>
  /\ GoOn(w, Measured(writer[w].frame), {}, <<>>) /\ UNCHANGED loads

\* Alerts and the heartbeat read the file first.
Look(w) ==
  /\ Begin(w)
  /\ \E what \in {"alerts", "heartbeat"} :
       writer' = [writer EXCEPT ![w] = [Unbusy EXCEPT !.phase = what]]
  /\ UNCHANGED <<begun, due, loads>>

-----------------------------------------------------------------------------
(* Reading and writing. *)

\* A file that cannot be read is started over.  Its reader goes on with that.
StartOver(w, phase) ==
  /\ writer[w].phase = phase /\ ~Readable(snapshot)
  /\ snapshot' = Default
  /\ UNCHANGED <<writer, begun, due, loads, disturbed, operations>>

\* Mutant: the file is opened for writing before it is read.
ReadOpened(w) ==
  /\ writer[w].phase = "read"
  /\ writer' = [writer EXCEPT ![w].phase = "write", ![w].hand = Default]
  /\ snapshot' = Truncated
  /\ UNCHANGED <<begun, due, loads, disturbed, operations>>

ReadMetrics(w) ==
  /\ writer[w].phase = "read" /\ Readable(snapshot)
  /\ writer' = [writer EXCEPT ![w].phase = "open", ![w].hand = snapshot]
  /\ UNCHANGED <<snapshot, begun, due, loads, disturbed, operations>>

Open(w) ==
  /\ writer[w].phase = "open"
  /\ snapshot' = Truncated
  /\ writer' = [writer EXCEPT ![w].phase = "write"]
  /\ UNCHANGED <<begun, due, loads, disturbed, operations>>

Applied(write, hand) == [hand EXCEPT ![write.metric] = IF write.set THEN write.value ELSE @ + write.value]

\* What was opened before somebody else wrote is written over what that wrote.
WriteSnapshot(w) ==
  /\ writer[w].phase = "write"
  /\ LET written == Applied(Head(writer[w].todo), writer[w].hand)
         rest == Tail(writer[w].todo)
     IN  /\ snapshot' \in IF snapshot = Truncated THEN {written} ELSE {written, Garbled}
         /\ writer' = [writer EXCEPT ![w].todo = rest, ![w].hand = Default,
                                  ![w].phase = IF rest = <<>> THEN "idle" ELSE "read"]
  /\ UNCHANGED <<begun, due, loads, disturbed, operations>>

\* A process ends in the middle of an operation, and is started again.
Crash(w) ==
  /\ writer[w].phase \notin {"idle", "alerts", "heartbeat"}
  /\ writer' = [writer EXCEPT ![w] = Unbusy]
  /\ disturbed' = TRUE
  /\ UNCHANGED <<snapshot, begun, due, loads, operations>>

-----------------------------------------------------------------------------
(* Alerts and the heartbeat. *)

\* Counters are alarming once they count, delays when long, and no data at all.
ActiveAlerts(file) ==
  {m \in {"failures", "schema"} : file[m] > 0} \cup {m \in {"delay"} : file[m] > 0} \cup {m \in {"latest"} : file[m] = 0}

\* Their number is a metric; if there are some they may be sent, which is counted.
BuildAlerts(w) ==
  /\ writer[w].phase = "alerts" /\ Readable(snapshot)
  /\ LET alerts == ActiveAlerts(snapshot)
         number == SetTo("active", Cardinality(alerts))
     IN  \E todo \in {<<number>>} \cup {<<number, Increment("notices")>> : x \in {y \in {1} : alerts # {}}} :
           GoOn(w, todo, alerts, <<>>)
  /\ UNCHANGED <<snapshot, loads, disturbed, operations>>

\* Data is recent if the last delay recorded was short, or it was recorded lately.
RecentSnapshot(file) == IF file.latest = 0 THEN {FALSE} ELSE IF file.delay < 2 THEN {TRUE} ELSE BOOLEAN

Heartbeat(w) ==
  /\ writer[w].phase = "heartbeat" /\ Readable(snapshot)
  /\ \/ /\ TRUE \in RecentSnapshot(snapshot)
        /\ writer' = [writer EXCEPT ![w] = [Unbusy EXCEPT !.answer = <<snapshot.latest, snapshot.delay>>]]
        /\ UNCHANGED <<begun, due, loads>>
     \/ /\ FALSE \in RecentSnapshot(snapshot)
        /\ \/ GoOn(w, Unprepared, {}, <<>>) /\ UNCHANGED loads
           \/ \E load \in Feed : GoOn(w, Refreshed(load), {}, <<>>) /\ loads' = loads \cup {load}
  /\ UNCHANGED <<snapshot, disturbed, operations>>

ObservabilityNext ==
  \E w \in Writers :
    \/ LogException(w) \/ Prepare(w) \/ Unvalidated(w) \/ Measure(w) \/ Look(w)
    \/ \E phase \in {"read", "alerts", "heartbeat"} : StartOver(w, phase)
    \/ ReadMetrics(w) \/ Open(w) \/ WriteSnapshot(w) \/ Crash(w)
    \/ BuildAlerts(w) \/ Heartbeat(w)

ObservabilitySpec == ObservabilityInit /\ [][ObservabilityNext]_observabilityVars

-----------------------------------------------------------------------------
(* Properties. *)

\* What a counter has been set to: the schema failures to the issues of frames.
IssuesFor(m) == {0} \cup {load[3] : load \in {x \in loads : m = "schema"}}

\* Whatever is lost, no counter shows more than was counted and it was set to.
NothingInvented ==
  Readable(snapshot) =>
    \A m \in {"failures", "schema", "notices"} : \E n \in IssuesFor(m) : snapshot[m] <= n + begun[m]

\* Operations that do not overlap, and end, lose no error and no notice; of the schema
\* failures those are left that came after the last frame was measured, and its issues.
AloneExact ==
  ~disturbed /\ (\A w \in Writers : writer[w].phase = "idle") =>
    /\ Readable(snapshot) /\ snapshot["schema"] = due
    /\ \A m \in {"failures", "notices"} : snapshot[m] = begun[m]

\* An alert of errors, or of a delay, has a cause, lost as the metrics may be; the
\* alert that there is no data may be wrong only when operations overlapped.
AlertsHaveCause ==
  \A w \in Writers :
    /\ \A m \in {"failures", "schema"} : m \in writer[w].alerts => \E n \in IssuesFor(m) : n + begun[m] > 0
    /\ "delay" \in writer[w].alerts => \E load \in loads : load[2] > 0
    /\ ~disturbed /\ "latest" \in writer[w].alerts /\ writer[w].phase # "idle" => loads = {}

\* Without overlaps the heartbeat shows a bar with the delay that it had.
HeartbeatOfOneLoad ==
  \A w \in Writers :
    ~disturbed /\ writer[w].answer # <<>> => \E load \in loads : writer[w].answer = <<load[1], load[2]>>

\* The metrics file, its alerts and the heartbeat under writers without a lock
\* (observability_metrics.py:94,118, market_data_service.py:98).
MetricsHold == NothingInvented /\ AloneExact /\ AlertsHaveCause /\ HeartbeatOfOneLoad
=============================================================================
