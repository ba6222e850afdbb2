--------------------------- MODULE MetricsHealth ---------------------------
(***************************************************************************)
(* What GET /admin/metrics/health says of the metrics jobs, and what it    *)
(* says it from: the row of rollup_progress and keys in Redis that the     *)
(* jobs set and delete.  What the jobs compute is left to MetricsRollup    *)
(* and Dashboard.                                                          *)
(***************************************************************************)
EXTENDS Naturals

CONSTANTS
  HealthWorker, \* application instances; each runs one metrics job at a time
  HealthCall    \* requests for the health summary

MetricsJob == {"rollup", "backfill", "snapshot"}
Lag == {"never", "none", "late"} \* no rollup yet, or within or past the two hours
HealthStatus == {"healthy", "degraded", "unhealthy"}

VARIABLES
  lag,         \* of rollup_progress.lastDailyRollupAt
  lastFailed,  \* jobs, daily or snapshot, whose last status is 'error'
  rollupLock,  \* metrics:rollup:daily:lock
  inProgress,  \* admin:metrics:backfill:in-progress and its started-at
  lastCapped,  \* admin:metrics:backfill:last-capped-at
  orphaned,    \* inProgress may have outlived its backfill
  running,     \* the jobs at work
  call         \* the requests at work

healthKeys == <<rollupLock, inProgress, lastCapped, orphaned>>
healthVars == <<lag, lastFailed, healthKeys, running, call>>

NoJob == [job |-> "none", at |-> "idle", failed |-> FALSE]
NoCall == [at |-> "idle", late |-> FALSE, failed |-> FALSE, status |-> "healthy"]

MHTypeOK ==
  /\ lag \in Lag
  /\ lastFailed \subseteq {"daily", "snapshot"}
  /\ {rollupLock, inProgress, lastCapped, orphaned} \subseteq BOOLEAN
  /\ running \in [HealthWorker ->
       [job : MetricsJob \cup {"none"}, failed : BOOLEAN,
        at : {"idle", "flag", "work", "error", "clear", "release", "invalidate"}]]
  /\ call \in [HealthCall -> [at : {"idle", "keys", "told"}, late : BOOLEAN,
                             failed : BOOLEAN, status : HealthStatus]]

MHInit ==
  /\ lag = "never" /\ lastFailed = {}
  /\ rollupLock = FALSE /\ inProgress = FALSE /\ lastCapped = FALSE /\ orphaned = FALSE
  /\ running = [w \in HealthWorker |-> NoJob]
  /\ call = [r \in HealthCall |-> NoCall]

(***************************************************************************)
(* Jobs of MetricsRollupProcessor.                                         *)
(***************************************************************************)
JobAt(w, label) == running[w].at = label
JobGoes(w, label) == running' = [running EXCEPT ![w].at = label]
IsDaily(w) == running[w].job \in {"rollup", "backfill"}

HoursPass ==
  /\ lag = "none"
  /\ lag' = "late"
  /\ UNCHANGED <<lastFailed, healthKeys, running, call>>

FirstStep(job) == IF job = "backfill" THEN "flag" ELSE "work"

\* acquireLock: a job that finds the lock taken returns at once, and an error of
\* Redis counts as having it.  Of the snapshot's lock Dashboard tells.
AcquireLock(w, job) ==
  /\ JobAt(w, "idle")
  /\ \/ /\ job # "snapshot" /\ ~rollupLock
        /\ rollupLock' = TRUE
        /\ running' = [running EXCEPT ![w] = [NoJob EXCEPT !.job = job, !.at = FirstStep(job)]]
     \/ /\ rollupLock \/ job = "snapshot"
        /\ running' = [running EXCEPT ![w] = [NoJob EXCEPT !.job = job, !.at = "invalidate"]]
        /\ UNCHANGED rollupLock
     \/ /\ running' = [running EXCEPT ![w] = [NoJob EXCEPT !.job = job, !.at = FirstStep(job)]]
        /\ UNCHANGED rollupLock
  /\ UNCHANGED <<lag, lastFailed, inProgress, lastCapped, orphaned, call>>

\* The repeatable jobs of 01:00 and 02:00, which a worker may take up late.
ScheduledJob(w) == \E job \in {"rollup", "snapshot"} : AcquireLock(w, job)

\* POST /admin/metrics/backfill.
TriggerBackfill(w) == AcquireLock(w, "backfill")

\* A start of the application enqueues a backfill when there is no watermark or it
\* lags by METRICS_BACKFILL_LAG_THRESHOLD_MS, two hours.
OnApplicationBootstrap(w) == lag # "none" /\ AcquireLock(w, "backfill")

\* Errors of Redis are swallowed.
RaiseFlag(w) ==
  /\ JobAt(w, "flag")
  /\ \E set \in BOOLEAN : inProgress' = (inProgress \/ set)
  /\ JobGoes(w, "work")
  /\ UNCHANGED <<lag, lastFailed, rollupLock, lastCapped, orphaned, call>>

\* On to `finally`.
Finally(w) == JobGoes(w, IF running[w].job = "backfill" THEN "clear" ELSE "release")

\* METRICS_BACKFILL_MAX_DURATION_MS have passed.
CapJob(w) ==
  /\ JobAt(w, "work") /\ running[w].job = "backfill"
  /\ \E set \in BOOLEAN : lastCapped' = (lastCapped \/ set)
  /\ Finally(w)
  /\ UNCHANGED <<lag, lastFailed, rollupLock, inProgress, orphaned, call>>

\* A chunk and setDailyProgress(to, 'success'): caught up or a day further.
RollupChunk(w) ==
  /\ JobAt(w, "work") /\ IsDaily(w)
  /\ lag' \in {"none", "late"}
  /\ lastFailed' = lastFailed \ {"daily"}
  /\ IF running[w].job = "backfill" /\ lag' = "late" THEN UNCHANGED running ELSE Finally(w)
  /\ UNCHANGED <<healthKeys, call>>

\* The watermark is at the present: nothing to do, and no status is written.
NothingToRollup(w) ==
  /\ JobAt(w, "work") /\ IsDaily(w) /\ lag # "late"
  /\ Finally(w)
  /\ UNCHANGED <<lag, lastFailed, healthKeys, call>>

SnapshotSucceeds(w) ==
  /\ JobAt(w, "work") /\ running[w].job = "snapshot"
  /\ lastFailed' = lastFailed \ {"snapshot"}
  /\ Finally(w)
  /\ UNCHANGED <<lag, healthKeys, call>>

\* A query throws, or the EXPIRE of the lock between two chunks.
JobFails(w) ==
  /\ JobAt(w, "work")
  /\ running' = [running EXCEPT ![w].at = "error", ![w].failed = TRUE]
  /\ UNCHANGED <<lag, lastFailed, healthKeys, call>>

\* The daily watermark moves to the present with status 'error', unless that throws too.
RecordJobError(w) ==
  /\ JobAt(w, "error")
  /\ \/ /\ IsDaily(w)
        /\ lag' = "none" /\ lastFailed' = lastFailed \cup {"daily"}
     \/ /\ ~IsDaily(w)
        /\ lastFailed' = lastFailed \cup {"snapshot"} /\ UNCHANGED lag
     \/ UNCHANGED <<lag, lastFailed>>
  /\ Finally(w)
  /\ UNCHANGED <<healthKeys, call>>

\* Mutant: only the lock is given back.
KeepFlag(w) ==
  /\ JobAt(w, "clear")
  /\ JobGoes(w, "release")
  /\ UNCHANGED <<lag, lastFailed, healthKeys, call>>

\* `finally` of a backfill; a DEL that fails is ignored.
ClearFlag(w) ==
  /\ JobAt(w, "clear")
  /\ \/ inProgress' = FALSE /\ orphaned' = FALSE
     \/ UNCHANGED inProgress /\ orphaned' = (orphaned \/ inProgress)
  /\ JobGoes(w, "release")
  /\ UNCHANGED <<lag, lastFailed, rollupLock, lastCapped, call>>

\* releaseLock, whoever holds it.  A job that failed throws out of the processor.
ReleaseJob(w) ==
  /\ JobAt(w, "release")
  /\ \E freed \in BOOLEAN : rollupLock' = (rollupLock /\ ~(freed /\ IsDaily(w)))
  /\ running' = [running EXCEPT ![w] = IF running[w].failed THEN NoJob ELSE [@ EXCEPT !.at = "invalidate"]]
  /\ UNCHANGED <<lag, lastFailed, inProgress, lastCapped, orphaned, call>>

\* delByPattern of admin:metrics:*, which the keys of a backfill match as well.
\* An error half way is swallowed.
InvalidateWithKeys(w) ==
  /\ JobAt(w, "invalidate")
  /\ \E inProgressToo, cappedToo \in BOOLEAN :
       /\ inProgress' = (inProgress /\ ~inProgressToo)
       /\ orphaned' = (orphaned /\ ~inProgressToo)
       /\ lastCapped' = (lastCapped /\ ~cappedToo)
  /\ running' = [running EXCEPT ![w] = NoJob]
  /\ UNCHANGED <<lag, lastFailed, rollupLock, call>>

\* The process dies; the lock and the flag stay.
JobDies(w) ==
  /\ ~JobAt(w, "idle")
  /\ running' = [running EXCEPT ![w] = NoJob]
  /\ orphaned' = (orphaned \/ (running[w].job = "backfill" /\ inProgress))
  /\ UNCHANGED <<lag, lastFailed, rollupLock, inProgress, lastCapped, call>>

RollupLockExpires ==
  /\ rollupLock
  /\ rollupLock' = FALSE
  /\ UNCHANGED <<lag, lastFailed, inProgress, lastCapped, orphaned, running, call>>

(***************************************************************************)
(* getFullHealthStatus.                                                    *)
(***************************************************************************)
\* The progress is read first.
AskHealth(r) ==
  /\ call[r].at = "idle"
  /\ call' = [call EXCEPT ![r] = [NoCall EXCEPT !.at = "keys", !.late = (lag = "late"),
                                                !.failed = (lastFailed # {})]]
  /\ UNCHANGED <<lag, lastFailed, healthKeys, running>>

DeriveStatus(read, backfillInProgress, cacheReachable) ==
  IF read.failed \/ (read.late /\ ~backfillInProgress) THEN "unhealthy"
  ELSE IF read.late \/ ~cacheReachable THEN "degraded" ELSE "healthy"

\* Then the keys; one that cannot be read counts as absent.
AnswerHealth(r) ==
  /\ call[r].at = "keys"
  /\ \E cacheReachable, found \in BOOLEAN :
       call' = [call EXCEPT
         ![r].at = "told",
         ![r].status = DeriveStatus(call[r], found /\ inProgress, cacheReachable)]
  /\ UNCHANGED <<lag, lastFailed, healthKeys, running>>

\* The request is over, answered or with an error of the database.
LeaveCall(r) ==
  /\ call[r].at # "idle"
  /\ call' = [call EXCEPT ![r] = NoCall]
  /\ UNCHANGED <<lag, lastFailed, healthKeys, running>>

MHNext ==
  \/ HoursPass \/ RollupLockExpires
  \/ \E w \in HealthWorker :
       \/ ScheduledJob(w) \/ TriggerBackfill(w) \/ OnApplicationBootstrap(w)
       \/ RaiseFlag(w) \/ CapJob(w) \/ RollupChunk(w) \/ NothingToRollup(w)
       \/ SnapshotSucceeds(w) \/ JobFails(w) \/ RecordJobError(w) \/ ClearFlag(w)
       \/ ReleaseJob(w) \/ InvalidateWithKeys(w) \/ JobDies(w)
  \/ \E r \in HealthCall : AskHealth(r) \/ AnswerHealth(r) \/ LeaveCall(r)

MHSpec == MHInit /\ [][MHNext]_healthVars

(***************************************************************************)
(* Properties.                                                             *)
(***************************************************************************)
BackfillAtWork == \E w \in HealthWorker :
  running[w].job = "backfill" /\ running[w].at \in {"work", "error", "clear"}

(***************************************************************************)
(* A rollup that lags by more than two hours is reported as unhealthy,     *)
(* unless a backfill is at work on it when the keys are read, or one has   *)
(* died or failed to delete its key: no other order of jobs, retries and   *)
(* errors of Redis makes the report milder.                                *)
(***************************************************************************)
LagIsNoticed ==
  [][\A r \in HealthCall :
       call[r].at = "keys" /\ call'[r].at = "told" /\ call[r].late
       /\ ~BackfillAtWork /\ ~orphaned
       => call'[r].status = "unhealthy"]_healthVars
=============================================================================
