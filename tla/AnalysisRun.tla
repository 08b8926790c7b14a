----------------------------- MODULE AnalysisRun -----------------------------
(***************************************************************************)
(* run_live_trading_analysis: fetch, prepare, run the strategies, notify,  *)
(* execute, measure, alert, file the reports, answer.  Any step may raise; *)
(* what the steps before it did stays.  A worker of the job queue calls it *)
(* without execution, alerts and reports, and hands the signals over to a  *)
(* deferred execution with its success; the route calls it with all of     *)
(* them.  Runs are in different processes and share the message bus, the   *)
(* chat, the directory of the reports and the artifact in Redis.           *)
(*                                                                         *)
(* No route asks for delivery within the run; deliver is the option of the *)
(* function.  An upload of a report to S3 may fail without a trace, and is *)
(* left out.                                                               *)
(***************************************************************************)
EXTENDS Integers, FiniteSets

CONSTANTS
  Runs,          \* runs of the analysis
  RunAsks,       \* what is asked of one: [route, auto, type, send, deliver]
  MaxAttempts,   \* _MAX_ATTEMPTS of a notification
  MaxRedeliveries,   \* bound on what the broker delivers again
  MaxSeconds     \* bound of the clock

NoRun == "none"

ASSUME AnalysisAssumption ==
  /\ NoRun \notin Runs /\ MaxAttempts \in Nat \ {0} /\ MaxRedeliveries \in Nat
  /\ RunAsks # {}
  /\ RunAsks \subseteq [route : BOOLEAN, auto : BOOLEAN, type : {"NONE", "PAPER", "LIVE"},
                        send : BOOLEAN, deliver : BOOLEAN]

VARIABLES
  run,        \* each run
  notice,     \* its summary at the bus: none, waiting, handled, consumed
  heard,      \* history: how often the summary came to the chat
  again,      \* history: how often the broker delivered it again
  reports,    \* the directory: what each file holds
  newest,     \* the json file that was changed last, or no file
  artifact,   \* vinayak:artifact:latest_live_analysis
  second      \* the clock of the file names

analysisVars == <<run, notice, heard, again, reports, newest, artifact, second>>

NoFile == <<>>
Torn == <<NoRun, "torn">>   \* text of two runs, or a part of one
Emptied == <<NoRun, "">>    \* opened for writing

Waiting == [at |-> "asked", ask |-> CHOOSE ask \in RunAsks : TRUE, signals |-> FALSE, mode |-> "NONE", traded |-> {},
            sent |-> FALSE, queued |-> FALSE, json |-> NoFile, text |-> NoFile]

-----------------------------------------------------------------------------
(* Decisions. *)

\* Automatic execution is on paper, whatever was asked for.
ResolveWorkspaceAutoExecutionMode(ask) == IF ask.auto /\ ask.type = "LIVE" THEN "PAPER" ELSE ask.type

\* Signals for an automatic execution.
ToExecute(r) == run[r].ask.auto /\ run[r].mode \in {"PAPER", "LIVE"} /\ run[r].signals

\* A message delivered so often, and whether the sender knows: an attempt that
\* timed out may have come through.
SendTextNotification(last) == {<<k + 1, TRUE>> : k \in 0..(last - 1)} \cup {<<k, FALSE>> : k \in 0..last}

\* Mutant: both reports of a run have one name.
OneName(time, extension) == <<time, "json">>

\* A file is named by the second of the writing, not by its run.
ReportName(time, extension) == <<time, extension>>

-----------------------------------------------------------------------------
(* Steps. *)

At(r, place) == run[r].at = place
Becomes(r, new) == run' = [run EXCEPT ![r] = new]
GoTo(r, place) == Becomes(r, [run[r] EXCEPT !.at = place])

filesOfRuns == <<reports, newest, artifact>>
chat == <<notice, heard, again>>

\* A request or a claimed job; the candles are fetched and prepared, and the
\* strategies give signals or none.
Analyse(r) ==
  /\ At(r, "asked")
  /\ \E ask \in RunAsks, signals \in BOOLEAN :
       Becomes(r, [Waiting EXCEPT !.at = "analysed", !.ask = ask, !.signals = signals,
                                  !.mode = ResolveWorkspaceAutoExecutionMode(ask)])
  /\ UNCHANGED <<chat, filesOfRuns, second>>

\* The bus takes the summary, or refuses it, or drops what it took: the run
\* does not look.  What delivery within the run raises is swallowed.
DispatchSignalSummary(r) ==
  /\ At(r, "analysed")
  /\ IF run[r].ask.send /\ run[r].signals
     THEN /\ \E taken \in {"none", "waiting"} : notice' = [notice EXCEPT ![r] = taken]
          /\ IF run[r].ask.deliver
             THEN \E sending \in SendTextNotification(MaxAttempts) :
                    /\ heard' = [heard EXCEPT ![r] = @ + sending[1]]
                    /\ Becomes(r, [run[r] EXCEPT !.at = "notified", !.sent = sending[2]])
             ELSE UNCHANGED heard /\ Becomes(r, [run[r] EXCEPT !.at = "notified", !.queued = TRUE])
     ELSE GoTo(r, "notified") /\ UNCHANGED <<notice, heard>>
  /\ UNCHANGED <<again, filesOfRuns, second>>

\* Orders are placed within the run of the route alone; the execution may raise
\* after some of them.
CoordinateWorkspaceExecution(r) ==
  /\ At(r, "notified")
  /\ IF ToExecute(r) /\ run[r].ask.route
     THEN \E orders \in SUBSET {run[r].mode}, next \in {"executed", "failed"} :
            Becomes(r, [run[r] EXCEPT !.at = next, !.traded = orders])
     ELSE GoTo(r, "executed")
  /\ UNCHANGED <<chat, filesOfRuns, second>>

\* The metrics are updated; active alerts go to the bus, messages of their own.
PublishActiveAlerts(r) == At(r, "executed") /\ GoTo(r, "answered") /\ UNCHANGED <<chat, filesOfRuns, second>>

\* write_text opens the file, which empties it, ...
StoreReport(r, from, to, extension) ==
  LET name == ReportName(second, extension)
  IN  /\ At(r, from) /\ run[r].ask.route
      /\ reports' = [file \in DOMAIN reports \cup {name} |-> IF file = name THEN Emptied ELSE reports[file]]
      /\ IF extension = "json"
         THEN newest' = name /\ Becomes(r, [run[r] EXCEPT !.at = to, !.json = name])
         ELSE UNCHANGED newest /\ Becomes(r, [run[r] EXCEPT !.at = to, !.text = name])
      /\ UNCHANGED <<chat, artifact, second>>

\* ... and writes from its start: what another run has written since, if it is
\* longer, remains behind it.  A write that fails leaves a part.
WriteReport(r, from, to, name, extension) ==
  /\ At(r, from)
  /\ \/ \E text \in IF reports[name] = Emptied THEN {<<r, extension>>} ELSE {<<r, extension>>, Torn} :
          reports' = [reports EXCEPT ![name] = text] /\ GoTo(r, to)
     \/ reports' = [reports EXCEPT ![name] = Torn] /\ GoTo(r, "failed")
  /\ newest' = IF extension = "json" THEN name ELSE newest
  /\ UNCHANGED <<chat, artifact, second>>

BuildReportArtifacts(r) ==
  \/ StoreReport(r, "answered", "json", "json")
  \/ WriteReport(r, "json", "filed", run[r].json, "json")
  \/ StoreReport(r, "filed", "text", "txt")
  \/ WriteReport(r, "text", "stored", run[r].text, "txt")

\* Redis may not answer; nobody looks.  The run of the route then publishes its
\* completion, which no consumer acts on, and is done.
CacheJsonArtifact(r) ==
  /\ IF run[r].ask.route THEN At(r, "stored") ELSE At(r, "answered")
  /\ artifact' \in {r, artifact}
  /\ GoTo(r, IF run[r].ask.route THEN "done" ELSE "returned")
  /\ UNCHANGED <<chat, reports, newest, second>>

\* What a job hands over is what the run of the route would execute.
BuildDeferredExecutionPayload(r) == ToExecute(r)

\* In one transaction the job succeeds and its deferred execution is created.
FinishJob(r) ==
  /\ At(r, "returned")
  /\ Becomes(r, [run[r] EXCEPT !.at = "done", !.traded = IF BuildDeferredExecutionPayload(r) THEN {run[r].mode} ELSE {}])
  /\ UNCHANGED <<chat, filesOfRuns, second>>

\* Any step raises.
Raise(r) ==
  /\ run[r].at \in {"analysed", "notified", "executed", "answered", "filed", "stored", "returned"}
  /\ GoTo(r, "failed")
  /\ UNCHANGED <<chat, filesOfRuns, second>>

\* An event worker sends a notification it was delivered; what that raises is
\* swallowed.
HandleNotification(r) ==
  /\ notice[r] = "waiting"
  /\ notice' = [notice EXCEPT ![r] = "handled"]
  /\ \E sending \in SendTextNotification(MaxAttempts) : heard' = [heard EXCEPT ![r] = @ + sending[1]]
  /\ UNCHANGED <<run, again, filesOfRuns, second>>

\* The handler has returned, and the message is acknowledged, ...
Acknowledge(r) ==
  /\ notice[r] = "handled"
  /\ notice' = [notice EXCEPT ![r] = "consumed"]
  /\ UNCHANGED <<run, heard, again, filesOfRuns, second>>

\* ... or the worker dies in the handler, or loses its connection before the
\* acknowledgement: the broker delivers it to another, which sends it again.
Redeliver(r) ==
  /\ notice[r] = "handled" /\ again[r] < MaxRedeliveries
  /\ notice' = [notice EXCEPT ![r] = "waiting"]
  /\ again' = [again EXCEPT ![r] = @ + 1]
  /\ UNCHANGED <<run, heard, filesOfRuns, second>>

\* After 900 seconds, or a restart of Redis.
ArtifactExpires == artifact # NoRun /\ artifact' = NoRun /\ UNCHANGED <<run, chat, reports, newest, second>>

SecondPasses == second < MaxSeconds /\ second' = second + 1 /\ UNCHANGED <<run, chat, filesOfRuns>>

AnalysisInit ==
  /\ run = [r \in Runs |-> Waiting] /\ second = 0
  /\ notice = [r \in Runs |-> "none"] /\ heard = [r \in Runs |-> 0]
  /\ again = [r \in Runs |-> 0]
  /\ reports = [name \in {} |-> Torn] /\ newest = NoFile /\ artifact = NoRun

AnalysisNext ==
  \/ \E r \in Runs : \/ Analyse(r) \/ DispatchSignalSummary(r) \/ CoordinateWorkspaceExecution(r)
                     \/ PublishActiveAlerts(r) \/ BuildReportArtifacts(r) \/ CacheJsonArtifact(r)
                     \/ FinishJob(r) \/ Raise(r) \/ HandleNotification(r) \/ Acknowledge(r)
                     \/ Redeliver(r)
  \/ ArtifactExpires \/ SecondPasses

AnalysisSpec == AnalysisInit /\ [][AnalysisNext]_analysisVars

-----------------------------------------------------------------------------
(* The pages. *)

\* The artifact, else the newest report, unless it cannot be read.
LoadLatestAnalysis == IF artifact # NoRun THEN artifact
                      ELSE IF newest = NoFile THEN NoRun ELSE reports[newest][1]

-----------------------------------------------------------------------------
(* Properties. *)

\* Two runs at work within one second.
Collided(r) == \E other \in Runs \ {r} : run[other].json = run[r].json \/ run[other].text = run[r].text

\* Nothing is traded that was not to be traded automatically, and never live;
\* a job that failed has traded nothing, neither itself nor by its deferred
\* execution, while the route may raise after its orders.
AutoNeverLive ==
  \A r \in Runs : run[r].traded # {} => /\ run[r].traded = {"PAPER"} /\ run[r].ask.auto /\ run[r].signals
                                        /\ run[r].ask.route \/ run[r].at = "done"

\* The summary comes to the chat at most three times for the run itself, and as often
\* for each delivery by the bus, which may repeat one that was not acknowledged; "sent"
\* means that it came, and only signals are told of.
DeliveriesBounded ==
  \A r \in Runs : /\ heard[r] <= MaxAttempts * (again[r] + Cardinality({way \in {"bus", "run"} :
                                  IF way = "bus" THEN notice[r] \in {"handled", "consumed"}
                                  ELSE run[r].ask.deliver}))
                  /\ run[r].sent => heard[r] > 0
                  /\ heard[r] > 0 => run[r].signals

\* The reports of a finished run are its own, unless another run wrote within
\* the same second.
ReportsAreOwn ==
  \A r \in Runs : run[r].ask.route /\ run[r].at = "done" /\ ~Collided(r)
                    => reports[run[r].json] = <<r, "json">> /\ reports[run[r].text] = <<r, "txt">>

\* Once a run of the route is done the pages show a whole analysis, unless the
\* newest report is being written, its writer failed, or two met in a second.
BlankOnlyInWriting ==
  LoadLatestAnalysis = NoRun /\ (\E r \in Runs : run[r].ask.route /\ run[r].at = "done")
    => \E r \in Runs : /\ run[r].json = newest
                       /\ run[r].at \in {"json", "failed"} \/ Collided(r)

\* What two analyses at a time owe each other, their readers and the chat
\* (trading_workspace.py:330, report_storage.py:53, notifier.py:63).
RunsStandAlone == AutoNeverLive /\ DeliveriesBounded /\ ReportsAreOwn /\ BlankOnlyInWriting
=============================================================================
