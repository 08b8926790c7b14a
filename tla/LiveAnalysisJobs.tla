-------------------------- MODULE LiveAnalysisJobs --------------------------
(***************************************************************************)
(* The queue of live-analysis jobs.  API clients submit, retry and cancel  *)
(* jobs; queue workers claim the oldest pending one, analyse it outside of *)
(* any transaction and record the outcome, together with the deferred      *)
(* execution of its signals.  A job that runs for longer than              *)
(* STALE_RUNNING_JOB_TIMEOUT_SECONDS goes back to the queue, whether its   *)
(* worker died or is only slow.                                            *)
(*                                                                         *)
(* Every request reads its job in a statement of its own, without a lock,  *)
(* and writes it later; the flush and the commit of a write are one step,  *)
(* as nothing happens between them.  A claim locks what it reads (FOR      *)
(* UPDATE SKIP LOCKED, or a conditional UPDATE) and is one step too.       *)
(***************************************************************************)
EXTENDS Integers, FiniteSets

CONSTANTS
  Jobs,        \* job ids, in the order in which they are submitted
  DedupKeys,   \* symbol, interval, period and strategy of a request
  Executing,   \* keys whose analyses ask for deferred execution
  Workers,     \* queue workers
  Clients,     \* sessions serving API requests
  NoJob,       \* job of a session that has none
  NoKey,       \* key of a job that was not submitted
  Retries,     \* do operators retry jobs?
  Faults,      \* may workers and requests die?
  MaxTurns     \* bound on the turns a job gets

Sessions == Workers \cup Clients

ASSUME JobsAssumption ==
  /\ Jobs \subseteq Nat
  /\ NoJob \notin Jobs
  /\ NoKey \notin DedupKeys
  /\ Executing \subseteq DedupKeys
  /\ IsFiniteSet(Workers) /\ IsFiniteSet(Clients) /\ Workers \cap Clients = {}
  /\ Retries \in BOOLEAN /\ Faults \in BOOLEAN
  /\ MaxTurns \in Nat

VARIABLES
  job,       \* live_analysis_jobs, committed
  session,   \* what each worker and each request has in memory
  turns,     \* history: submissions, recoveries and retries of each job
  handed,    \* history: deferred executions created for each job
  retried    \* history: jobs that a retry has put back into the queue

vars == <<job, session, turns, handed, retried>>

-----------------------------------------------------------------------------
Active   == {"PENDING", "RUNNING"}
Outcome  == {"SUCCEEDED", "FAILED"}
Finished == Outcome \cup {"CANCELLED"}
Status   == {"ABSENT"} \cup Active \cup Finished

\* started_at matters only for what it says about a running job.
Job == [status : Status, key : DedupKeys \cup {NoKey}, stale : BOOLEAN]

SessionState ==
  [step   : {"idle", "submitting", "analysing", "writing"},
   job    : Jobs \cup {NoJob},
   key    : DedupKeys \cup {NoKey},
   loaded : Status,                \* status of the ORM object
   target : Status]                \* status to be written

Idle == [step |-> "idle", job |-> NoJob, key |-> NoKey,
         loaded |-> "ABSENT", target |-> "ABSENT"]

At(s, step)    == session[s].step = step
Update(s, new) == session' = [session EXCEPT ![s] = new]

\* Read job j in order to write another status later.
ReadToWrite(s, j, target) ==
  Update(s, [Idle EXCEPT !.step = "writing", !.job = j,
                         !.loaded = job[j].status, !.target = target])

Init ==
  /\ job = [j \in Jobs |-> [status |-> "ABSENT", key |-> NoKey, stale |-> FALSE]]
  /\ session = [s \in Sessions |-> Idle]
  /\ turns = [j \in Jobs |-> 0]
  /\ handed = [j \in Jobs |-> 0]
  /\ retried = {}

-----------------------------------------------------------------------------
(* Submission *)

\* Mutant: a job being analysed is not taken for active.
FindPending(k) == {j \in Jobs : job[j].key = k /\ job[j].status = "PENDING"}

FindActive(k) == {j \in Jobs : job[j].key = k /\ job[j].status \in Active}

\* A request with the key of an active job gets that job; nothing is written.
Submit(c) ==
  /\ At(c, "idle")
  /\ \E k \in DedupKeys :
       /\ FindActive(k) = {}
       /\ Update(c, [Idle EXCEPT !.step = "submitting", !.key = k])
  /\ UNCHANGED <<job, turns, handed, retried>>

\* Mutant: the job is stored without its key.
CreateWithoutKey(c) ==
  /\ At(c, "submitting")
  /\ \E j \in Jobs :
       /\ \A i \in Jobs : job[i].status = "ABSENT" <=> i >= j
       /\ job' = [job EXCEPT ![j].status = "PENDING"]
       /\ turns' = [turns EXCEPT ![j] = 1]
  /\ Update(c, Idle)
  /\ UNCHANGED <<handed, retried>>

CreateJob(c) ==
  /\ At(c, "submitting")
  /\ \E j \in Jobs :
       /\ \A i \in Jobs : job[i].status = "ABSENT" <=> i >= j
       /\ job' = [job EXCEPT ![j] =
                    [status |-> "PENDING", key |-> session[c].key, stale |-> FALSE]]
       /\ turns' = [turns EXCEPT ![j] = 1]
  /\ Update(c, Idle)
  /\ UNCHANGED <<handed, retried>>

-----------------------------------------------------------------------------
(* Workers *)

\* Time: a job has been running for longer than the timeout.
RunsLong(j) ==
  /\ job[j].status = "RUNNING" /\ ~job[j].stale
  /\ turns[j] < MaxTurns \/ \A s \in Workers : session[s].job # j
  /\ job' = [job EXCEPT ![j].stale = TRUE]
  /\ UNCHANGED <<session, turns, handed, retried>>

Stale(j) == job[j].status = "RUNNING" /\ job[j].stale

\* Mutant: stale jobs are left alone.
RecoverNone == job

\* All stale jobs go back to the queue.
Recovered ==
  [j \in Jobs |-> IF Stale(j)
                  THEN [job[j] EXCEPT !.status = "PENDING", !.stale = FALSE] ELSE job[j]]

\* Mutant: the claim is not committed.
ClaimUncommitted(w) ==
  /\ At(w, "idle")
  /\ \E j \in Jobs :
       /\ Recovered[j].status = "PENDING"
       /\ \A i \in Jobs : i < j => Recovered[i].status # "PENDING"
       /\ Update(w, [Idle EXCEPT !.step = "analysing", !.job = j])
  /\ UNCHANGED <<job, turns, handed, retried>>

\* Stale jobs are recovered, then the oldest pending job is claimed: one
\* transaction.
ClaimNext(w) ==
  /\ At(w, "idle")
  /\ \E j \in Jobs :
       /\ Recovered[j].status = "PENDING"
       /\ \A i \in Jobs : i < j => Recovered[i].status # "PENDING"
       /\ job' = [Recovered EXCEPT ![j].status = "RUNNING"]
       /\ Update(w, [Idle EXCEPT !.step = "analysing", !.job = j])
  /\ turns' = [j \in Jobs |-> IF Stale(j) THEN turns[j] + 1 ELSE turns[j]]
  /\ UNCHANGED <<handed, retried>>

\* The analysis ended, with a result or an exception: a new session reads the
\* job, whatever became of it meanwhile.
EndAnalysis(w) ==
  /\ At(w, "analysing")
  /\ \E outcome \in Outcome : ReadToWrite(w, session[w].job, outcome)
  /\ UNCHANGED <<job, turns, handed, retried>>

-----------------------------------------------------------------------------
(* Retry and cancellation *)

LoadForRetry(c) ==
  /\ Retries
  /\ At(c, "idle")
  /\ \E j \in Jobs :
       /\ job[j].status \in {"FAILED", "CANCELLED"}
       /\ ReadToWrite(c, j, "PENDING")
  /\ UNCHANGED <<job, turns, handed, retried>>

LoadForCancel(c) ==
  /\ At(c, "idle")
  /\ \E j \in Jobs :
       /\ job[j].status \in Active
       /\ ReadToWrite(c, j, "CANCELLED")
  /\ UNCHANGED <<job, turns, handed, retried>>

-----------------------------------------------------------------------------
\* The write of a worker that succeeded creates the deferred execution job and
\* its outbox event.
HandsOver(s) ==
  /\ session[s].target = "SUCCEEDED"
  /\ job[session[s].job].key \in Executing

\* Mutant: the job is marked first, in a transaction of its own.
WriteWithoutHandOver(s) ==
  LET j == session[s].job IN
  /\ At(s, "writing")
  /\ job' = [job EXCEPT ![j].status = session[s].target, ![j].stale = FALSE]
  /\ Update(s, Idle)
  /\ UNCHANGED <<turns, handed, retried>>

\* mark_succeeded, mark_failed, retry_job, cancel_job.  The status is in the
\* UPDATE only if it differs from the one that was read.
Write(s) ==
  LET j       == session[s].job
      changed == session[s].target # session[s].loaded
  IN
  /\ At(s, "writing")
  /\ session[s].target = "PENDING" => turns[j] < MaxTurns
  /\ job' = IF changed
            THEN [job EXCEPT ![j].status = session[s].target, ![j].stale = FALSE]
            ELSE job
  /\ turns' = IF session[s].target = "PENDING" THEN [turns EXCEPT ![j] = @ + 1] ELSE turns
  /\ retried' = IF session[s].target = "PENDING" THEN retried \cup {j} ELSE retried
  /\ handed' = IF HandsOver(s) THEN [handed EXCEPT ![j] = @ + 1] ELSE handed
  /\ Update(s, Idle)

\* A worker or a request dies; a job it claimed stays RUNNING.
Crash(s) ==
  /\ Faults
  /\ ~At(s, "idle")
  /\ session[s].job # NoJob => turns[session[s].job] < MaxTurns
  /\ Update(s, Idle)
  /\ UNCHANGED <<job, turns, handed, retried>>

-----------------------------------------------------------------------------
Next ==
  \/ \E j \in Jobs : RunsLong(j)
  \/ \E c \in Clients : Submit(c) \/ CreateJob(c) \/ LoadForRetry(c) \/ LoadForCancel(c)
  \/ \E w \in Workers : ClaimNext(w) \/ EndAnalysis(w)
  \/ \E s \in Sessions : Write(s) \/ Crash(s)

Spec == Init /\ [][Next]_vars

\* Workers loop for ever, an analysis ends, and the clock goes on for a job
\* nobody works on.
FairSpec ==
  /\ Spec
  /\ \A w \in Workers : WF_vars(ClaimNext(w)) /\ WF_vars(EndAnalysis(w)) /\ WF_vars(Write(w))
  /\ \A j \in Jobs : WF_vars(RunsLong(j))

-----------------------------------------------------------------------------
(* Properties *)

TypeOK ==
  /\ job \in [Jobs -> Job]
  /\ session \in [Sessions -> SessionState]
  /\ turns \in [Jobs -> Nat]
  /\ handed \in [Jobs -> Nat]
  /\ retried \subseteq Jobs
  /\ \A j \in Jobs : job[j].status = "ABSENT" <=> job[j].key = NoKey
  /\ \A s \in Sessions : session[s].job \in Jobs <=> session[s].step \in {"analysing", "writing"}

\* The signals of a job are handed over for execution at most once for its
\* submission and once for each time it was recovered as stale or retried,
\* whatever workers, cancellations and crashes did in between.
ExecutionsAccounted == \A j \in Jobs : handed[j] <= turns[j]

\* A job that says SUCCEEDED and was asked to execute has been handed over.
SucceededHandsOver ==
  \A j \in Jobs : job[j].status = "SUCCEEDED" /\ job[j].key \in Executing => handed[j] > 0

\* The active jobs with key k that were not retried: a retry looks for no other job.
ActiveOf(k) == {j \in Jobs \ retried : job[j].key = k /\ job[j].status \in Active}

\* Equal requests share one active job, but for those that looked for it before either
\* had created it (no constraint of the table backs the lookup): there are never more
\* active jobs with one key than clients that submit at the same time.
OneActivePerClient == \A k \in DedupKeys : Cardinality(ActiveOf(k)) <= Cardinality(Clients)

\* "Only failed or cancelled live analysis jobs can be retried."
SucceededIsNotRetried ==
  [][\A j \in Jobs : job[j].status = "SUCCEEDED" => job'[j].status # "PENDING"]_vars

\* Every submitted job gets an outcome, although workers die.
JobsFinish == \A j \in Jobs : job[j].status \in Active ~> job[j].status \in Finished
=============================================================================
