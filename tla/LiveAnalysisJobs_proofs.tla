----------------------- MODULE LiveAnalysisJobs_proofs -----------------------
(***************************************************************************)
(* Safety of LiveAnalysisJobs for any number of jobs, keys, workers and    *)
(* clients, with crashes, retries and cancellations.                       *)
(***************************************************************************)
EXTENDS LiveAnalysisJobs, FiniteSetTheorems, TLAPS

-----------------------------------------------------------------------------
(* The inductive invariant *)

\* Workers record outcomes, clients requeue and cancel.
Roles ==
  /\ \A w \in Workers : /\ ~At(w, "submitting")
                        /\ At(w, "writing") => session[w].target \in Outcome
  /\ \A c \in Clients : /\ ~At(c, "analysing")
                        /\ At(c, "submitting") => session[c].key \in DedupKeys
                        /\ At(c, "writing") => session[c].target \in {"PENDING", "CANCELLED"}

\* Sessions work on submitted jobs, and only those had turns.
Submitted ==
  /\ \A s \in Sessions : session[s].job \in Jobs => job[session[s].job].status # "ABSENT"
  /\ \A j \in Jobs : job[j].status = "ABSENT" => turns[j] = 0

\* Workers that have claimed job j and not recorded an outcome.
Busy(j) == {w \in Workers : session[w].job = j}

\* A turn of a job is spent by handing it over, in the hands of a worker, or
\* waits in the queue; a crash and a failed analysis lose it.
Credit(j) == IF job[j].status = "PENDING" THEN 1 ELSE 0

Account(j) == handed[j] + Cardinality(Busy(j)) + Credit(j) <= turns[j]

Accounts == \A j \in Jobs : Account(j)

Inv == TypeOK /\ Roles /\ Submitted /\ Accounts /\ SucceededHandsOver

-----------------------------------------------------------------------------
(* Sessions *)

LEMMA IdleType == Idle \in SessionState /\ Idle.job \notin Jobs /\ Idle.step = "idle"
BY JobsAssumption DEF Idle, SessionState, Status

\* What rewriting the memory of one session means for all of them.
LEMMA UpdateType ==
  ASSUME TypeOK, NEW s \in Sessions, NEW new \in SessionState, Update(s, new),
         new.job \in Jobs <=> new.step \in {"analysing", "writing"}
  PROVE  /\ session' \in [Sessions -> SessionState]
         /\ session'[s] = new
         /\ \A r \in Sessions \ {s} : session'[r] = session[r]
         /\ \A r \in Sessions :
              session'[r].job \in Jobs <=> session'[r].step \in {"analysing", "writing"}
BY DEF TypeOK, Update

LEMMA RolesUpdate ==
  ASSUME Roles, NEW s \in Sessions, NEW new, session'[s] = new,
         \A r \in Sessions \ {s} : session'[r] = session[r],
         s \in Workers => /\ new.step # "submitting"
                          /\ new.step = "writing" => new.target \in Outcome,
         s \in Clients => /\ new.step # "analysing"
                          /\ new.step = "submitting" => new.key \in DedupKeys
                          /\ new.step = "writing" => new.target \in {"PENDING", "CANCELLED"}
  PROVE  Roles'
BY DEF Roles, At, Sessions

LEMMA BusyType ==
  ASSUME NEW j PROVE IsFiniteSet(Busy(j)) /\ Cardinality(Busy(j)) \in Nat
<1>1. IsFiniteSet(Busy(j))
  BY JobsAssumption, FS_Subset DEF Busy
<1>. QED BY <1>1, FS_CardinalityType

LEMMA SubmittedUpdate ==
  ASSUME Submitted, NEW s \in Sessions, NEW new, session'[s] = new,
         \A r \in Sessions \ {s} : session'[r] = session[r],
         new.job \in Jobs => job'[new.job].status # "ABSENT",
         \A j \in Jobs : job'[j].status = "ABSENT" => job[j].status = "ABSENT" /\ turns'[j] = turns[j]
  PROVE  Submitted'
BY DEF Submitted

\* A client, or a worker that keeps its job, changes nobody's share.
LEMMA BusySame ==
  ASSUME NEW s \in Sessions, s \in Workers => session'[s].job = session[s].job,
         \A r \in Sessions \ {s} : session'[r] = session[r], NEW j
  PROVE  Busy(j)' = Busy(j)
BY DEF Busy, Sessions

LEMMA BusyAdd ==
  ASSUME NEW w \in Workers, NEW j \in Jobs, session[w].job \notin Jobs, session'[w].job = j,
         \A r \in Sessions \ {w} : session'[r] = session[r]
  PROVE  /\ Cardinality(Busy(j)') = Cardinality(Busy(j)) + 1
         /\ \A i \in Jobs \ {j} : Busy(i)' = Busy(i)
<1>1. Busy(j)' = Busy(j) \cup {w} /\ w \notin Busy(j)
  BY DEF Busy, Sessions
<1>2. \A i \in Jobs \ {j} : Busy(i)' = Busy(i)
  BY DEF Busy, Sessions
<1>. QED BY <1>1, <1>2, BusyType, FS_AddElement

LEMMA BusyDrop ==
  ASSUME NEW w \in Workers, NEW j \in Jobs, session[w].job = j, session'[w].job \notin Jobs,
         \A r \in Sessions \ {w} : session'[r] = session[r]
  PROVE  /\ Cardinality(Busy(j)') = Cardinality(Busy(j)) - 1
         /\ \A i \in Jobs \ {j} : Busy(i)' = Busy(i)
<1>1. Busy(j)' = Busy(j) \ {w} /\ w \in Busy(j)
  BY DEF Busy, Sessions
<1>2. \A i \in Jobs \ {j} : Busy(i)' = Busy(i)
  BY DEF Busy, Sessions
<1>. QED BY <1>1, <1>2, BusyType, FS_RemoveElement, ZenonT(60)

\* Where job, turns and handed stay, so do the accounts of a session that
\* keeps its job or is a client.
LEMMA AccountsSame ==
  ASSUME Accounts, NEW s \in Sessions, s \in Workers => session'[s].job = session[s].job,
         \A r \in Sessions \ {s} : session'[r] = session[r],
         UNCHANGED <<job, turns, handed, retried>>
  PROVE  Accounts'
<1>1. \A j \in Jobs : Busy(j)' = Busy(j)
  BY BusySame
<1>. QED BY <1>1 DEF Accounts, Account, Credit

-----------------------------------------------------------------------------
LEMMA InitInv == Init => Inv
<1>. SUFFICES ASSUME Init PROVE Inv
  OBVIOUS
<1>1. TypeOK
  BY IdleType, JobsAssumption DEF Init, TypeOK, Job, Status
<1>2. Roles
  BY DEF Init, Roles, At, Idle, Sessions
<1>3. Accounts
  <2>1. \A j \in Jobs : Busy(j) = {}
    BY IdleType DEF Init, Busy, Sessions
  <2>2. \A j \in Jobs : Cardinality(Busy(j)) = 0 /\ handed[j] = 0 /\ turns[j] = 0 /\ Credit(j) = 0
    BY <2>1, FS_EmptySet DEF Init, Credit
  <2>. QED BY <2>2 DEF Accounts, Account
<1>4. SucceededHandsOver
  BY DEF Init, SucceededHandsOver
<1>5. Submitted
  BY IdleType DEF Init, Submitted
<1>. QED BY <1>1, <1>2, <1>3, <1>4, <1>5 DEF Inv

LEMMA RunsLongInv ==
  ASSUME Inv, NEW j \in Jobs, RunsLong(j) PROVE Inv'
<1>1. TypeOK'
  BY DEF RunsLong, Inv, TypeOK, Job
<1>2. /\ \A i \in Jobs : job'[i].status = job[i].status /\ job'[i].key = job[i].key
      /\ session' = session /\ turns' = turns /\ handed' = handed
  BY DEF RunsLong, Inv, TypeOK, Job
<1>3. Accounts'
  BY <1>2 DEF Inv, Accounts, Account, Credit, Busy
<1>. QED BY <1>1, <1>2, <1>3 DEF Inv, Roles, At, Submitted, TypeOK, SucceededHandsOver

LEMMA SubmitInv ==
  ASSUME Inv, NEW c \in Clients, Submit(c) PROVE Inv'
<1>1. PICK k \in DedupKeys : Update(c, [Idle EXCEPT !.step = "submitting", !.key = k])
  BY DEF Submit
<1>. DEFINE new == [Idle EXCEPT !.step = "submitting", !.key = k]
<1>2. new \in SessionState /\ new.job \notin Jobs /\ new.step = "submitting"
  BY IdleType DEF SessionState, Idle
<1>7. new.key \in DedupKeys
  BY DEF Idle
<1>3. c \in Sessions /\ c \notin Workers
  BY JobsAssumption DEF Sessions
<1>. HIDE DEF new
<1>4. /\ session' \in [Sessions -> SessionState] /\ session'[c] = new
      /\ \A r \in Sessions \ {c} : session'[r] = session[r]
      /\ \A r \in Sessions :
           session'[r].job \in Jobs <=> session'[r].step \in {"analysing", "writing"}
  BY <1>1, <1>2, <1>3, UpdateType DEF new, Inv
<1>5. Roles' /\ Submitted'
  BY <1>2, <1>3, <1>4, <1>7, RolesUpdate, SubmittedUpdate DEF Submit, Inv
<1>6. Accounts'
  BY <1>3, <1>4, AccountsSame DEF Submit, Inv
<1>. QED BY <1>4, <1>5, <1>6 DEF Submit, Inv, TypeOK, SucceededHandsOver

\* The end of a request: its session is idle.
LEMMA EndOfClient ==
  ASSUME TypeOK, Roles, NEW c \in Clients, Update(c, Idle)
  PROVE  /\ session' \in [Sessions -> SessionState]
         /\ \A r \in Sessions :
              session'[r].job \in Jobs <=> session'[r].step \in {"analysing", "writing"}
         /\ Roles'
         /\ \A j : Busy(j)' = Busy(j)
<1>1. c \in Sessions /\ c \notin Workers
  BY JobsAssumption DEF Sessions
<1>2. /\ session' \in [Sessions -> SessionState] /\ session'[c] = Idle
      /\ \A r \in Sessions \ {c} : session'[r] = session[r]
      /\ \A r \in Sessions :
           session'[r].job \in Jobs <=> session'[r].step \in {"analysing", "writing"}
  BY <1>1, IdleType, UpdateType
<1>. QED BY <1>1, <1>2, IdleType, RolesUpdate, BusySame

LEMMA CreateJobInv ==
  ASSUME Inv, NEW c \in Clients, CreateJob(c) PROVE Inv'
<1>1. PICK j \in Jobs :
        /\ \A i \in Jobs : job[i].status = "ABSENT" <=> i >= j
        /\ job' = [job EXCEPT ![j] =
                     [status |-> "PENDING", key |-> session[c].key, stale |-> FALSE]]
        /\ turns' = [turns EXCEPT ![j] = 1]
  BY DEF CreateJob
<1>2. job[j].status = "ABSENT" /\ session[c].key \in DedupKeys
  <2>1. j >= j
    BY JobsAssumption
  <2>. QED BY <1>1, <2>1 DEF CreateJob, Inv, Roles
<1>3. /\ session' \in [Sessions -> SessionState]
      /\ \A r \in Sessions :
           session'[r].job \in Jobs <=> session'[r].step \in {"analysing", "writing"}
      /\ Roles'
      /\ \A i : Busy(i)' = Busy(i)
  BY EndOfClient DEF CreateJob, Inv
<1>4. job' \in [Jobs -> Job] /\ turns' \in [Jobs -> Nat] /\ handed' = handed /\ retried' = retried
  BY <1>1, <1>2 DEF CreateJob, Inv, TypeOK, Job, Status, Active
<1>5. TypeOK'
  BY <1>1, <1>2, <1>3, <1>4, JobsAssumption DEF Inv, TypeOK
<1>6. Submitted'
  <2>1. c \in Sessions /\ session' = [session EXCEPT ![c] = Idle]
    BY DEF CreateJob, Update, Sessions
  <2>2. session'[c] = Idle /\ \A r \in Sessions \ {c} : session'[r] = session[r]
    BY <2>1 DEF Inv, TypeOK
  <2>3. \A i \in Jobs : job'[i].status = "ABSENT" => job[i].status = "ABSENT" /\ turns'[i] = turns[i]
    BY <1>1 DEF Inv, TypeOK
  <2>. QED BY <2>1, <2>2, <2>3, IdleType, SubmittedUpdate DEF Inv
<1>7. Accounts'
  <2>1. handed[j] = 0 /\ Cardinality(Busy(j)) = 0
    <3>1. turns[j] = 0 /\ handed[j] \in Nat /\ Cardinality(Busy(j)) \in Nat
      BY <1>2, BusyType DEF Inv, TypeOK, Submitted
    <3>2. handed[j] + Cardinality(Busy(j)) + Credit(j) <= turns[j] /\ Credit(j) \in Nat
      BY DEF Inv, Accounts, Account, Credit
    <3>. QED BY <3>1, <3>2
  <2>2. Account(j)'
    BY <1>1, <1>3, <1>4, <2>1 DEF Inv, TypeOK, Account, Credit
  <2>3. \A i \in Jobs \ {j} : Account(i)'
    BY <1>1, <1>3, <1>4 DEF Inv, TypeOK, Accounts, Account, Credit
  <2>. QED BY <2>2, <2>3 DEF Accounts
<1>8. SucceededHandsOver'
  BY <1>1, <1>4 DEF Inv, TypeOK, SucceededHandsOver
<1>. QED BY <1>3, <1>5, <1>6, <1>7, <1>8 DEF Inv

\* Recovery only returns running jobs to the queue.
LEMMA RecoveredType ==
  ASSUME TypeOK
  PROVE  /\ Recovered \in [Jobs -> Job]
         /\ \A j \in Jobs :
              /\ Recovered[j].key = job[j].key
              /\ Stale(j) => Recovered[j].status = "PENDING" /\ job[j].status = "RUNNING"
              /\ ~Stale(j) => Recovered[j].status = job[j].status
BY DEF TypeOK, Recovered, Stale, Job, Status, Active

LEMMA ClaimNextInv ==
  ASSUME Inv, NEW w \in Workers, ClaimNext(w) PROVE Inv'
<1>1. PICK j \in Jobs :
        /\ Recovered[j].status = "PENDING"
        /\ job' = [Recovered EXCEPT ![j].status = "RUNNING"]
        /\ Update(w, [Idle EXCEPT !.step = "analysing", !.job = j])
  BY DEF ClaimNext
<1>. DEFINE new == [Idle EXCEPT !.step = "analysing", !.job = j]
<1>2. new \in SessionState /\ new.job = j /\ new.step = "analysing"
  BY IdleType DEF SessionState, Idle
<1>3. w \in Sessions /\ w \notin Clients /\ session[w].job \notin Jobs
  BY JobsAssumption DEF Sessions, ClaimNext, At, Inv, TypeOK
<1>4. Update(w, new)
  BY <1>1
<1>. HIDE DEF new
<1>5. /\ session' \in [Sessions -> SessionState] /\ session'[w] = new
      /\ \A r \in Sessions \ {w} : session'[r] = session[r]
      /\ \A r \in Sessions :
           session'[r].job \in Jobs <=> session'[r].step \in {"analysing", "writing"}
  BY <1>2, <1>3, <1>4, UpdateType DEF Inv
<1>6. /\ job' \in [Jobs -> Job]
      /\ job'[j].status = "RUNNING" /\ job'[j].key = job[j].key
      /\ \A i \in Jobs \ {j} : job'[i] = Recovered[i]
  BY <1>1, RecoveredType DEF Inv, Job, Status, Active
<1>7. job[j].status \in {"PENDING", "RUNNING"}
  BY <1>1, RecoveredType DEF Inv
<1>8. turns' = [i \in Jobs |-> IF Stale(i) THEN turns[i] + 1 ELSE turns[i]] /\ handed' = handed
      /\ retried' = retried
  BY DEF ClaimNext
<1>9. TypeOK'
  <2>1. \A i \in Jobs : job'[i].status = "ABSENT" <=> job'[i].key = NoKey
    BY <1>6, <1>7, RecoveredType DEF Inv, TypeOK
  <2>2. turns' \in [Jobs -> Nat]
    BY <1>8 DEF Inv, TypeOK
  <2>. QED BY <1>5, <1>6, <1>8, <2>1, <2>2 DEF Inv, TypeOK
<1>10. Roles'
  BY <1>2, <1>3, <1>5, RolesUpdate DEF Inv
<1>11. Submitted'
  <2>1. \A i \in Jobs : job'[i].status = "ABSENT" => job[i].status = "ABSENT" /\ turns'[i] = turns[i]
    BY <1>6, <1>8, RecoveredType DEF Inv
  <2>. QED BY <1>2, <1>3, <1>5, <1>6, <2>1, SubmittedUpdate DEF Inv
<1>12. Accounts'
  <2>1. /\ Cardinality(Busy(j)') = Cardinality(Busy(j)) + 1
        /\ \A i \in Jobs \ {j} : Busy(i)' = Busy(i)
    BY <1>2, <1>3, <1>5, BusyAdd
  <2>2. Account(j)'
    <3>1. handed[j] + Cardinality(Busy(j)) + 1 <= turns'[j]
      <4>1. CASE Stale(j)
        BY <1>8, <4>1, BusyType DEF Inv, TypeOK, Accounts, Account, Credit, Stale
      <4>2. CASE ~Stale(j)
        BY <1>1, <1>8, <4>2, RecoveredType, BusyType DEF Inv, TypeOK, Accounts, Account, Credit
      <4>. QED BY <4>1, <4>2
    <3>. QED BY <1>6, <1>8, <2>1, <3>1, BusyType DEF Inv, TypeOK, Account, Credit
  <2>3. ASSUME NEW i \in Jobs \ {j} PROVE Account(i)'
    <3>1. handed[i] + Cardinality(Busy(i)) + Credit(i) <= turns[i]
      BY DEF Inv, Accounts, Account
    <3>2. CASE Stale(i)
      BY <1>6, <1>8, <2>1, <3>1, <3>2, RecoveredType, BusyType
         DEF Inv, TypeOK, Account, Credit
    <3>3. CASE ~Stale(i)
      BY <1>6, <1>8, <2>1, <3>1, <3>3, RecoveredType DEF Inv, Account, Credit
    <3>. QED BY <3>2, <3>3
  <2>. QED BY <2>2, <2>3 DEF Accounts
<1>13. SucceededHandsOver'
  BY <1>6, <1>8, RecoveredType DEF Inv, SucceededHandsOver
<1>. QED BY <1>9, <1>10, <1>11, <1>12, <1>13 DEF Inv

\* Reading a job changes only the memory of the session that reads it.
LEMMA ReadToWriteInv ==
  ASSUME Inv, NEW s \in Sessions, NEW j \in Jobs, NEW target \in Status,
         ReadToWrite(s, j, target), UNCHANGED <<job, turns, handed, retried>>,
         job[j].status # "ABSENT",
         s \in Workers => session[s].job = j /\ target \in Outcome,
         s \in Clients => target \in {"PENDING", "CANCELLED"}
  PROVE  Inv'
<1>. DEFINE new == [Idle EXCEPT !.step = "writing", !.job = j,
                                !.loaded = job[j].status, !.target = target]
<1>1. new \in SessionState /\ new.job = j /\ new.step = "writing" /\ new.target = target
  BY IdleType DEF SessionState, Idle, Inv, TypeOK, Job
<1>2. Update(s, new)
  BY DEF ReadToWrite
<1>. HIDE DEF new
<1>3. /\ session' \in [Sessions -> SessionState] /\ session'[s] = new
      /\ \A r \in Sessions \ {s} : session'[r] = session[r]
      /\ \A r \in Sessions :
           session'[r].job \in Jobs <=> session'[r].step \in {"analysing", "writing"}
  BY <1>1, <1>2, UpdateType DEF Inv
<1>4. Roles'
  BY <1>1, <1>3, RolesUpdate DEF Inv
<1>5. Submitted'
  BY <1>1, <1>3, SubmittedUpdate DEF Inv
<1>6. Accounts'
  BY <1>1, <1>3, AccountsSame DEF Inv
<1>. QED BY <1>3, <1>4, <1>5, <1>6 DEF Inv, TypeOK, SucceededHandsOver

LEMMA EndAnalysisInv ==
  ASSUME Inv, NEW w \in Workers, EndAnalysis(w) PROVE Inv'
<1>1. PICK outcome \in Outcome : ReadToWrite(w, session[w].job, outcome)
  BY DEF EndAnalysis
<1>2. w \in Sessions /\ w \notin Clients /\ session[w].job \in Jobs /\ outcome \in Status
  BY JobsAssumption DEF Sessions, EndAnalysis, At, Inv, TypeOK, Status, Outcome, Finished
<1>3. job[session[w].job].status # "ABSENT"
  BY <1>2 DEF Inv, Submitted
<1>. QED BY <1>1, <1>2, <1>3, ReadToWriteInv DEF EndAnalysis

LEMMA LoadForRetryInv ==
  ASSUME Inv, NEW c \in Clients, LoadForRetry(c) PROVE Inv'
<1>1. PICK j \in Jobs : job[j].status \in {"FAILED", "CANCELLED"} /\ ReadToWrite(c, j, "PENDING")
  BY DEF LoadForRetry
<1>2. c \in Sessions /\ c \notin Workers /\ "PENDING" \in Status
  BY JobsAssumption DEF Sessions, Status, Active
<1>. QED BY <1>1, <1>2, ReadToWriteInv DEF LoadForRetry

LEMMA LoadForCancelInv ==
  ASSUME Inv, NEW c \in Clients, LoadForCancel(c) PROVE Inv'
<1>1. PICK j \in Jobs : job[j].status \in Active /\ ReadToWrite(c, j, "CANCELLED")
  BY DEF LoadForCancel
<1>2. c \in Sessions /\ c \notin Workers /\ "CANCELLED" \in Status
  BY JobsAssumption DEF Sessions, Status, Finished
<1>. QED BY <1>1, <1>2, ReadToWriteInv DEF LoadForCancel, Active

\* A session that gives up its job: the job loses its worker, if it was one.
LEMMA EndKeeps ==
  ASSUME Inv, NEW s \in Sessions, Update(s, Idle)
  PROVE  /\ session' \in [Sessions -> SessionState]
         /\ session'[s] = Idle
         /\ \A r \in Sessions \ {s} : session'[r] = session[r]
         /\ \A r \in Sessions :
              session'[r].job \in Jobs <=> session'[r].step \in {"analysing", "writing"}
         /\ Roles'
         /\ \A j \in Jobs : s \in Workers /\ session[s].job = j =>
              Cardinality(Busy(j)') = Cardinality(Busy(j)) - 1
         /\ \A j \in Jobs : (s \in Workers => j # session[s].job) => Busy(j)' = Busy(j)
<1>1. /\ session' \in [Sessions -> SessionState] /\ session'[s] = Idle
      /\ \A r \in Sessions \ {s} : session'[r] = session[r]
      /\ \A r \in Sessions :
           session'[r].job \in Jobs <=> session'[r].step \in {"analysing", "writing"}
  BY IdleType, UpdateType DEF Inv
<1>2. Roles'
  BY <1>1, IdleType, RolesUpdate DEF Inv
<1>3. ASSUME NEW j \in Jobs, s \in Workers, session[s].job = j
      PROVE  Cardinality(Busy(j)') = Cardinality(Busy(j)) - 1
  BY <1>1, <1>3, IdleType, BusyDrop
<1>4. ASSUME NEW j \in Jobs, s \in Workers => j # session[s].job PROVE Busy(j)' = Busy(j)
  BY <1>1, <1>4, IdleType DEF Busy, Sessions
<1>. QED BY <1>1, <1>2, <1>3, <1>4

LEMMA WriteInv ==
  ASSUME Inv, NEW s \in Sessions, Write(s) PROVE Inv'
<1>. DEFINE target == session[s].target
<1>1. PICK j \in Jobs : /\ j = session[s].job
                        /\ target \in Status /\ job[j].status # "ABSENT" /\ target # "ABSENT"
  BY DEF Write, At, Inv, TypeOK, SessionState, Submitted, Roles, Sessions, Outcome
<1>2. s \in Workers => target \in Outcome
  BY DEF Write, Inv, Roles
<1>3. s \notin Workers => s \in Clients /\ target \in {"PENDING", "CANCELLED"}
  BY DEF Write, Inv, Roles, Sessions
<1>4. Update(s, Idle)
  BY DEF Write
<1>5. /\ job' = [job EXCEPT ![j].status = target, ![j].stale = FALSE] \/ job' = job
      /\ target = "PENDING" => turns' = [turns EXCEPT ![j] = @ + 1]
      /\ target # "PENDING" => turns' = turns
      /\ handed' = IF HandsOver(s) THEN [handed EXCEPT ![j] = @ + 1] ELSE handed
  BY <1>1 DEF Write
<1>6. HandsOver(s) <=> target = "SUCCEEDED" /\ job[j].key \in Executing
  BY <1>1 DEF HandsOver
<1>. HIDE DEF target
<1>7. /\ job' \in [Jobs -> Job]
      /\ job'[j].key = job[j].key /\ job'[j].status \in {target, job[j].status}
      /\ \A i \in Jobs \ {j} : job'[i] = job[i]
  BY <1>1, <1>5 DEF Inv, TypeOK, Job
<1>8. turns' \in [Jobs -> Nat] /\ handed' \in [Jobs -> Nat]
  BY <1>1, <1>5 DEF Inv, TypeOK
<1>9. TypeOK'
  <2>1. \A i \in Jobs : job'[i].status = "ABSENT" <=> job'[i].key = NoKey
    BY <1>1, <1>7 DEF Inv, TypeOK
  <2>2. retried' \subseteq Jobs
    BY <1>1 DEF Write, Inv, TypeOK
  <2>. QED BY <1>4, <1>7, <1>8, <2>1, <2>2, EndKeeps DEF TypeOK
<1>10. Roles'
  BY <1>4, EndKeeps
<1>11. Submitted'
  <2>1. \A i \in Jobs : job'[i].status = "ABSENT" => job[i].status = "ABSENT" /\ turns'[i] = turns[i]
    BY <1>1, <1>5, <1>7 DEF Inv, TypeOK
  <2>. QED BY <1>4, <2>1, EndKeeps, IdleType, SubmittedUpdate DEF Inv
<1>12. Accounts'
  <2>1. ASSUME NEW i \in Jobs, i # j PROVE Account(i)'
    <3>1. Busy(i)' = Busy(i)
      BY <1>1, <1>4, <2>1, EndKeeps
    <3>2. turns'[i] = turns[i] /\ handed'[i] = handed[i]
      BY <1>5, <2>1 DEF Inv, TypeOK
    <3>. QED BY <1>7, <2>1, <3>1, <3>2 DEF Inv, Accounts, Account, Credit
  <2>2. Account(j)'
    <3>. DEFINE c == Cardinality(Busy(j))
    <3>1. c \in Nat /\ handed[j] + c + Credit(j) <= turns[j]
      BY <1>1, BusyType DEF Inv, Accounts, Account
    <3>2. CASE s \in Workers
      <4>1. target \in Outcome
        BY <1>2, <3>2
      <4>2. Cardinality(Busy(j)') = c - 1
        BY <1>1, <1>4, <3>2, EndKeeps
      <4>3. turns'[j] = turns[j] /\ handed'[j] <= handed[j] + 1
        BY <1>1, <1>5, <4>1 DEF Outcome, Inv, TypeOK
      <4>4. Credit(j)' <= Credit(j) /\ Credit(j) \in Nat /\ Credit(j)' \in Nat
        BY <1>7, <4>1 DEF Credit, Outcome
      <4>5. turns'[j] \in Nat /\ handed'[j] \in Nat /\ handed[j] \in Nat
        BY <1>1, <1>8 DEF Inv, TypeOK
      <4>. HIDE DEF c
      <4>. QED BY <3>1, <4>2, <4>3, <4>4, <4>5 DEF Account
    <3>3. CASE s \notin Workers
      <4>1. target \in {"PENDING", "CANCELLED"} /\ ~HandsOver(s)
        BY <1>3, <1>6, <3>3
      <4>2. Busy(j)' = Busy(j) /\ handed'[j] = handed[j]
        BY <1>1, <1>4, <1>5, <3>3, <4>1, EndKeeps
      <4>3. Credit(j)' - Credit(j) <= turns'[j] - turns[j]
        BY <1>1, <1>5, <1>7, <1>8, <4>1 DEF Credit, Inv, TypeOK
      <4>4. turns[j] \in Nat /\ turns'[j] \in Nat /\ handed[j] \in Nat
            /\ Credit(j) \in Nat /\ Credit(j)' \in Nat
        BY <1>1, <1>8 DEF Inv, TypeOK, Credit
      <4>. QED BY <3>1, <4>2, <4>3, <4>4 DEF Account
    <3>. QED BY <3>2, <3>3
  <2>. QED BY <2>1, <2>2 DEF Accounts
<1>13. SucceededHandsOver'
  <2>1. \A i \in Jobs : handed'[i] >= handed[i]
    BY <1>1, <1>5 DEF Inv, TypeOK
  <2>2. target = "SUCCEEDED" /\ job[j].key \in Executing => handed'[j] > 0
    BY <1>1, <1>5, <1>6 DEF Inv, TypeOK
  <2>3. job'[j].status = "SUCCEEDED" /\ job[j].key \in Executing => handed'[j] > 0
    BY <1>1, <1>7, <1>8, <2>1, <2>2 DEF Inv, TypeOK, SucceededHandsOver
  <2>. QED BY <1>7, <1>8, <2>1, <2>3 DEF Inv, TypeOK, SucceededHandsOver
<1>. QED BY <1>9, <1>10, <1>11, <1>12, <1>13 DEF Inv

LEMMA CrashInv ==
  ASSUME Inv, NEW s \in Sessions, Crash(s) PROVE Inv'
<1>1. Update(s, Idle) /\ UNCHANGED <<job, turns, handed, retried>>
  BY DEF Crash
<1>2. Submitted'
  BY <1>1, EndKeeps, IdleType, SubmittedUpdate DEF Inv
<1>3. Accounts'
  <2>1. ASSUME NEW j \in Jobs PROVE Cardinality(Busy(j)') <= Cardinality(Busy(j))
    <3>1. CASE s \in Workers /\ j = session[s].job
      BY <1>1, <3>1, BusyType, EndKeeps
    <3>2. CASE ~(s \in Workers /\ j = session[s].job)
      BY <1>1, <3>2, BusyType, EndKeeps
    <3>. QED BY <3>1, <3>2
  <2>2. \A j : Cardinality(Busy(j)) \in Nat
    BY BusyType
  <2>3. \A j \in Jobs : Cardinality(Busy(j)') \in Nat
    <3>. SUFFICES ASSUME NEW j \in Jobs PROVE Cardinality(Busy(j)') \in Nat
      OBVIOUS
    <3>1. CASE s \in Workers /\ j = session[s].job
      <4>1. Busy(j)' \subseteq Workers
        BY DEF Busy
      <4>. QED BY <4>1, JobsAssumption, FS_Subset, FS_CardinalityType
    <3>2. CASE ~(s \in Workers /\ j = session[s].job)
      BY <1>1, <2>2, <3>2, EndKeeps
    <3>. QED BY <3>1, <3>2
  <2>. QED BY <1>1, <2>1, <2>2, <2>3 DEF Inv, TypeOK, Accounts, Account, Credit
<1>. QED BY <1>1, <1>2, <1>3, EndKeeps DEF Inv, TypeOK, SucceededHandsOver

LEMMA NextInv == Inv /\ [Next]_vars => Inv'
<1>. SUFFICES ASSUME Inv, [Next]_vars PROVE Inv'
  OBVIOUS
<1>1. CASE UNCHANGED vars
  <2>1. \A j : Busy(j)' = Busy(j)
    BY <1>1 DEF vars, Busy
  <2>. QED BY <1>1, <2>1 DEF vars, Inv, TypeOK, Roles, At, Submitted, Accounts, Account,
              Credit, SucceededHandsOver
<1>2. CASE Next
  BY <1>2, RunsLongInv, SubmitInv, CreateJobInv, LoadForRetryInv, LoadForCancelInv,
     ClaimNextInv, EndAnalysisInv, WriteInv, CrashInv DEF Next
<1>. QED BY <1>1, <1>2

LEMMA InvHolds == Spec => []Inv
BY InitInv, NextInv, PTL DEF Spec

-----------------------------------------------------------------------------
(* Active jobs *)

\* The clients that have found no active job with key k and will create one.
Submitting(k) == {c \in Clients : At(c, "submitting") /\ session[c].key = k}

\* Every active job with a key was created by a client that found none.
Shared(k) ==
  /\ IsFiniteSet(ActiveOf(k))
  /\ Cardinality(ActiveOf(k)) + Cardinality(Submitting(k)) <= Cardinality(Clients)

AllShared == \A k \in DedupKeys : Shared(k)

LEMMA ClientsFinite ==
  /\ IsFiniteSet(Clients) /\ Cardinality(Clients) \in Nat
  /\ \A S \in SUBSET Clients :
       IsFiniteSet(S) /\ Cardinality(S) \in Nat /\ Cardinality(S) <= Cardinality(Clients)
  /\ \A S, T \in SUBSET Clients : S \subseteq T => Cardinality(S) <= Cardinality(T)
BY JobsAssumption, FS_Subset, FS_CardinalityType

\* With no active job, the clients that submit have the whole account.
LEMMA NoneActive ==
  ASSUME NEW k, ActiveOf(k) = {} PROVE Shared(k)
<1>1. IsFiniteSet(ActiveOf(k)) /\ Cardinality(ActiveOf(k)) = 0
  BY FS_EmptySet
<1>2. Submitting(k) \in SUBSET Clients
  BY DEF Submitting
<1>3. Cardinality(Submitting(k)) \in Nat /\ Cardinality(Submitting(k)) <= Cardinality(Clients)
  BY <1>2, ClientsFinite
<1>. QED BY <1>1, <1>3 DEF Shared

LEMMA SharedInit == Init => AllShared
<1>. SUFFICES ASSUME Init, NEW k \in DedupKeys PROVE Shared(k)
  BY DEF AllShared
<1>1. ActiveOf(k) = {}
  BY DEF Init, ActiveOf, Active
<1>. QED BY <1>1, NoneActive

\* Neither a new active job nor a new client that submits.
LEMMA SharedKept ==
  ASSUME NEW k \in DedupKeys, Shared(k), ActiveOf(k)' \subseteq ActiveOf(k),
         Submitting(k)' \subseteq Submitting(k)
  PROVE  Shared(k)'
<1>1. Submitting(k) \in SUBSET Clients /\ Submitting(k)' \in SUBSET Clients
  BY DEF Submitting
<1>2. /\ Cardinality(Submitting(k)) \in Nat /\ Cardinality(Submitting(k)') \in Nat
      /\ Cardinality(Submitting(k)') <= Cardinality(Submitting(k)) /\ Cardinality(Clients) \in Nat
  BY <1>1, ClientsFinite
<1>3. /\ IsFiniteSet(ActiveOf(k)') /\ Cardinality(ActiveOf(k)') <= Cardinality(ActiveOf(k))
      /\ Cardinality(ActiveOf(k)) \in Nat /\ Cardinality(ActiveOf(k)') \in Nat
  BY FS_Subset, FS_CardinalityType DEF Shared
<1>. QED BY <1>2, <1>3 DEF Shared

\* No job becomes active but by being created or retried.
OnlyEnds ==
  /\ retried \subseteq retried'
  /\ \A j \in Jobs \ retried' :
       /\ job'[j].key = job[j].key
       /\ job'[j].status \in Active => job[j].status \in Active

LEMMA EndsShared ==
  ASSUME AllShared, OnlyEnds,
         \A c \in Clients : session'[c].step = "submitting" => session'[c] = session[c]
  PROVE  AllShared'
<1>. SUFFICES ASSUME NEW k \in DedupKeys PROVE Shared(k)'
  BY DEF AllShared
<1>1. ActiveOf(k)' \subseteq ActiveOf(k)
  <2>. SUFFICES ASSUME NEW j \in ActiveOf(k)' PROVE j \in ActiveOf(k)
    OBVIOUS
  <2>1. j \in Jobs /\ j \notin retried' /\ job'[j].key = k /\ job'[j].status \in Active
    BY DEF ActiveOf
  <2>2. j \in Jobs \ retried' /\ j \notin retried
    BY <2>1 DEF OnlyEnds
  <2>3. job'[j].key = job[j].key /\ (job'[j].status \in Active => job[j].status \in Active)
    BY <2>2 DEF OnlyEnds
  <2>. QED BY <2>1, <2>2, <2>3 DEF ActiveOf
<1>2. Submitting(k)' \subseteq Submitting(k)
  BY DEF Submitting, At
<1>. QED BY <1>1, <1>2, SharedKept DEF AllShared

LEMMA EndsUpdate ==
  ASSUME Inv, AllShared, OnlyEnds, NEW s \in Sessions, NEW new, Update(s, new),
         s \in Clients => new.step # "submitting"
  PROVE  AllShared'
<1>1. \A c \in Clients : session'[c] = session[c] \/ session'[c].step # "submitting"
  BY DEF Update, Inv, TypeOK, Sessions
<1>. QED BY <1>1, EndsShared

LEMMA SharedStep ==
  ASSUME Inv, AllShared, [Next]_vars PROVE AllShared'
<1>0. Sessions = Workers \cup Clients /\ Workers \cap Clients = {} /\ TypeOK
  BY JobsAssumption DEF Sessions, Inv
<1>1. ASSUME NEW j \in Jobs, RunsLong(j) PROVE AllShared'
  <2>1. OnlyEnds /\ session' = session
    BY <1>0, <1>1 DEF RunsLong, OnlyEnds, TypeOK, Job
  <2>. QED BY <2>1, EndsShared
<1>2. ASSUME NEW c \in Clients, Submit(c) PROVE AllShared'
  <2>1. PICK k \in DedupKeys : FindActive(k) = {} /\ Update(c, [Idle EXCEPT !.step = "submitting", !.key = k])
    BY <1>2 DEF Submit
  <2>2. /\ session'[c].key = k /\ UNCHANGED <<job, retried>>
        /\ \A d \in Clients \ {c} : session'[d] = session[d]
    BY <1>0, <1>2, <2>1 DEF Submit, Update, TypeOK, Idle
  <2>3. ASSUME NEW i \in DedupKeys PROVE Shared(i)'
    <3>1. CASE i = k
      <4>1. ActiveOf(i)' = {}
        BY <2>1, <2>2, <3>1 DEF ActiveOf, FindActive
      <4>2. Submitting(i)' \in SUBSET Clients
        BY DEF Submitting
      <4>3. Cardinality(Submitting(i)') \in Nat /\ Cardinality(Submitting(i)') <= Cardinality(Clients)
        BY <4>2, ClientsFinite
      <4>4. IsFiniteSet(ActiveOf(i)') /\ Cardinality(ActiveOf(i)') = 0
        BY <4>1, FS_EmptySet
      <4>. QED BY <4>3, <4>4 DEF Shared
    <3>2. CASE i # k
      <4>1. ActiveOf(i)' \subseteq ActiveOf(i)
        BY <2>2 DEF ActiveOf
      <4>2. Submitting(i)' \subseteq Submitting(i)
        BY <2>2, <3>2 DEF Submitting, At
      <4>. QED BY <4>1, <4>2, SharedKept DEF AllShared
    <3>. QED BY <3>1, <3>2
  <2>. QED BY <2>3 DEF AllShared
<1>3. ASSUME NEW c \in Clients, CreateJob(c) PROVE AllShared'
  <2>1. PICK j \in Jobs :
          job' = [job EXCEPT ![j] = [status |-> "PENDING", key |-> session[c].key, stale |-> FALSE]]
    BY <1>3 DEF CreateJob
  <2>2. /\ session'[c].step = "idle" /\ retried' = retried /\ At(c, "submitting")
        /\ \A d \in Clients \ {c} : session'[d] = session[d]
    BY <1>0, <1>3 DEF CreateJob, Update, TypeOK, Idle
  <2>3. job'[j].key = session[c].key /\ \A i \in Jobs \ {j} : job'[i] = job[i]
    BY <1>0, <2>1 DEF TypeOK
  <2>4. ASSUME NEW k \in DedupKeys PROVE Shared(k)'
    <3>1. CASE k = session[c].key
      <4>1. ActiveOf(k)' \subseteq ActiveOf(k) \cup {j}
        BY <2>2, <2>3 DEF ActiveOf
      <4>2. Submitting(k)' = Submitting(k) \ {c} /\ c \in Submitting(k)
        BY <2>2, <3>1 DEF Submitting, At
      <4>3. /\ IsFiniteSet(ActiveOf(k)) /\ Cardinality(ActiveOf(k)) \in Nat
            /\ Cardinality(ActiveOf(k)) + Cardinality(Submitting(k)) <= Cardinality(Clients)
        BY FS_CardinalityType DEF AllShared, Shared
      <4>4. /\ IsFiniteSet(ActiveOf(k) \cup {j}) /\ Cardinality(ActiveOf(k) \cup {j}) \in Nat
            /\ Cardinality(ActiveOf(k) \cup {j}) <= Cardinality(ActiveOf(k)) + 1
        <5>1. IsFiniteSet(ActiveOf(k) \cup {j})
          BY <4>3, FS_AddElement
        <5>2. \/ Cardinality(ActiveOf(k) \cup {j}) = Cardinality(ActiveOf(k)) + 1
              \/ Cardinality(ActiveOf(k) \cup {j}) = Cardinality(ActiveOf(k))
          BY <4>3, FS_AddElement
        <5>. QED BY <4>3, <5>1, <5>2
      <4>5. /\ IsFiniteSet(ActiveOf(k)') /\ Cardinality(ActiveOf(k)') \in Nat
            /\ Cardinality(ActiveOf(k)') <= Cardinality(ActiveOf(k) \cup {j})
        BY <4>1, <4>4, FS_Subset, FS_CardinalityType
      <4>6. Submitting(k) \in SUBSET Clients
        BY DEF Submitting
      <4>7. /\ Cardinality(Submitting(k)) \in Nat /\ Cardinality(Clients) \in Nat
            /\ Cardinality(Submitting(k)') = Cardinality(Submitting(k)) - 1
        BY <4>2, <4>6, ClientsFinite, FS_RemoveElement
      <4>. QED BY <4>3, <4>4, <4>5, <4>7 DEF Shared
    <3>2. CASE k # session[c].key
      <4>1. ActiveOf(k)' \subseteq ActiveOf(k)
        BY <2>2, <2>3, <3>2 DEF ActiveOf
      <4>2. Submitting(k)' \subseteq Submitting(k)
        BY <2>2 DEF Submitting, At
      <4>. QED BY <4>1, <4>2, SharedKept DEF AllShared
    <3>. QED BY <3>1, <3>2
  <2>. QED BY <2>4 DEF AllShared
<1>4. ASSUME NEW c \in Clients, LoadForCancel(c) \/ LoadForRetry(c) PROVE AllShared'
  <2>1. PICK j \in Jobs, target \in {"CANCELLED", "PENDING"} : ReadToWrite(c, j, target)
    BY <1>4 DEF LoadForCancel, LoadForRetry
  <2>2. OnlyEnds
    BY <1>4 DEF OnlyEnds, LoadForCancel, LoadForRetry
  <2>3. [Idle EXCEPT !.step = "writing", !.job = j, !.loaded = job[j].status, !.target = target].step = "writing"
    BY DEF Idle
  <2>. QED BY <1>0, <2>1, <2>2, <2>3, EndsUpdate DEF ReadToWrite
<1>5. ASSUME NEW w \in Workers, ClaimNext(w) PROVE AllShared'
  <2>1. PICK j \in Jobs : /\ Recovered[j].status = "PENDING"
                          /\ job' = [Recovered EXCEPT ![j].status = "RUNNING"]
                          /\ Update(w, [Idle EXCEPT !.step = "analysing", !.job = j])
    BY <1>5 DEF ClaimNext
  <2>2. \A i \in Jobs : Recovered[i].key = job[i].key /\ (Recovered[i].status \in Active => job[i].status \in Active)
    BY <1>0, RecoveredType DEF Active
  <2>3. OnlyEnds
    BY <1>0, <1>5, <2>1, <2>2, RecoveredType DEF ClaimNext, OnlyEnds, Active, Job
  <2>. QED BY <1>0, <2>1, <2>3, EndsUpdate
<1>6. ASSUME NEW w \in Workers, EndAnalysis(w) PROVE AllShared'
  <2>1. \E new : Update(w, new)
    BY <1>6 DEF EndAnalysis, ReadToWrite
  <2>2. OnlyEnds
    BY <1>6 DEF EndAnalysis, OnlyEnds
  <2>. QED BY <1>0, <2>1, <2>2, EndsUpdate
<1>7. ASSUME NEW s \in Sessions, Write(s) PROVE AllShared'
  <2>1. session[s].target \notin Active \/ (session[s].target = "PENDING" /\ session[s].job \in retried')
    BY <1>0, <1>7 DEF Write, Inv, Roles, Active, Outcome
  <2>2. /\ job' = job \/ job' = [job EXCEPT ![session[s].job].status = session[s].target, ![session[s].job].stale = FALSE]
        /\ retried \subseteq retried'
    BY <1>7 DEF Write
  <2>3. ASSUME NEW i \in Jobs \ retried'
        PROVE  job'[i].key = job[i].key /\ (job'[i].status \in Active => job[i].status \in Active)
    <3>1. CASE i = session[s].job
      <4>1. session[s].target \notin Active
        BY <2>1, <2>3, <3>1
      <4>2. job'[i] = job[i] \/ (job'[i].key = job[i].key /\ job'[i].status = session[s].target)
        BY <1>0, <2>2, <2>3, <3>1 DEF TypeOK, Job
      <4>. QED BY <4>1, <4>2
    <3>2. CASE i # session[s].job
      BY <1>0, <2>2, <2>3, <3>2 DEF TypeOK
    <3>. QED BY <3>1, <3>2
  <2>4. OnlyEnds
    BY <2>2, <2>3 DEF OnlyEnds
  <2>. QED BY <1>7, <2>4, IdleType, EndsUpdate DEF Write
<1>8. ASSUME NEW s \in Sessions, Crash(s) PROVE AllShared'
  <2>1. OnlyEnds
    BY <1>8 DEF Crash, OnlyEnds
  <2>. QED BY <1>8, <2>1, IdleType, EndsUpdate DEF Crash
<1>9. CASE UNCHANGED vars
  <2>1. OnlyEnds /\ session' = session
    BY <1>9 DEF vars, OnlyEnds
  <2>. QED BY <2>1, EndsShared
<1>. QED BY <1>1, <1>2, <1>3, <1>4, <1>5, <1>6, <1>7, <1>8, <1>9 DEF Next

-----------------------------------------------------------------------------
(* Theorems *)

\* Every reachable state is well typed; in particular a session in the middle
\* of a request has a submitted job.
THEOREM TypeCorrect == Spec => []TypeOK
<1>1. Inv => TypeOK
  BY DEF Inv
<1>. QED BY <1>1, InvHolds, PTL

\* However workers crash, lag behind and overwrite each other's outcomes, a
\* job is handed over for execution at most once per submission, recovery and
\* retry.
THEOREM HandOversAccounted == Spec => []ExecutionsAccounted
<1>1. Inv => ExecutionsAccounted
  <2>. SUFFICES ASSUME Inv, NEW j \in Jobs PROVE handed[j] <= turns[j]
    BY DEF ExecutionsAccounted
  <2>1. handed[j] + Cardinality(Busy(j)) + Credit(j) <= turns[j]
    BY DEF Inv, Accounts, Account
  <2>. QED BY <2>1, BusyType DEF Inv, TypeOK, Credit
<1>. QED BY <1>1, InvHolds, PTL

\* A job never says SUCCEEDED without the execution it was asked for.
THEOREM SuccessIsHandedOver == Spec => []SucceededHandsOver
<1>1. Inv => SucceededHandsOver
  BY DEF Inv
<1>. QED BY <1>1, InvHolds, PTL

\* However many clients submit at the same time, and whatever workers, crashes and
\* cancellations do, a key has no more active jobs than there are clients, those put back
\* by a retry aside; clients that take turns share one.
THEOREM ActiveJobsAreShared == Spec => []OneActivePerClient
<1>1. Inv /\ AllShared /\ [Next]_vars => AllShared'
  BY SharedStep
<1>2. AllShared => OneActivePerClient
  <2>. SUFFICES ASSUME AllShared, NEW k \in DedupKeys PROVE Cardinality(ActiveOf(k)) <= Cardinality(Clients)
    BY DEF OneActivePerClient
  <2>1. Submitting(k) \in SUBSET Clients
    BY DEF Submitting
  <2>2. /\ Cardinality(Submitting(k)) \in Nat /\ Cardinality(Clients) \in Nat
        /\ Cardinality(ActiveOf(k)) \in Nat
        /\ Cardinality(ActiveOf(k)) + Cardinality(Submitting(k)) <= Cardinality(Clients)
    BY <2>1, ClientsFinite, FS_CardinalityType DEF AllShared, Shared
  <2>. QED BY <2>2
<1>. QED BY <1>1, <1>2, SharedInit, InvHolds, PTL DEF Spec
=============================================================================
