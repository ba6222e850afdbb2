----------------------------- MODULE Dashboard -----------------------------
(***************************************************************************)
(* The admin dashboards: jobs write the table that an endpoint is computed *)
(* from and then drop the cached answers; requests answer from the cache   *)
(* or from the tables.  How events are counted is left to MetricsRollup,   *)
(* and what the jobs' keys say of them to MetricsHealth.                   *)
(***************************************************************************)
EXTENDS Naturals

CONSTANTS
  DashboardWorker, \* application instances; each runs one job at a time
  AdminRequest,    \* requests to the dashboards
  MaxFigures       \* bound: changes to what the jobs compute from

ASSUME DashboardAssumption == MaxFigures \in Nat

\* The dashboards, each with the jobs that write its table: "summary" stands for
\* platform-health too, which reads the snapshots twice.
Endpoint == {"summary", "search-activity", "recent-activity"}
Figures == 0..MaxFigures

VARIABLES
  endpoint,
  figures,   \* version of users and profiles, or how many dates are over
  written,   \* the version the row of today's snapshot was taken from, or how many
             \* dates daily_metrics has; 0 is none
  jobLock,   \* the lock of the endpoint's jobs
  cached,    \* the answer under the key of the endpoint
  task,      \* the jobs at work
  asked,     \* the requests at work
  unguarded, \* two jobs may have been at work at once
  overtaken  \* the cached answer may be older than what a job has written

dashboardVars == <<endpoint, figures, written, jobLock, cached, task, asked, unguarded, overtaken>>

NoAnswer == [there |-> FALSE, live |-> 0, table |-> 0]
NoTask == [at |-> "idle", seen |-> 0, wrote |-> FALSE, failed |-> FALSE]
NotAsked == [at |-> "idle", live |-> 0, table |-> 0]

DBTypeOK ==
  /\ endpoint \in Endpoint
  /\ figures \in Figures /\ written \in Figures
  /\ cached \in [there : BOOLEAN, live : Figures, table : Figures]
  /\ task \in [DashboardWorker ->
       [at : {"idle", "compute", "upsert", "error", "release", "invalidate"}, seen : Figures,
        wrote : BOOLEAN, failed : BOOLEAN]]
  /\ asked \in [AdminRequest -> [at : {"idle", "both", "live", "table", "store"},
                                 live : Figures, table : Figures]]
  /\ {jobLock, unguarded, overtaken} \subseteq BOOLEAN

DBInit ==
  /\ endpoint \in Endpoint
  /\ figures = 0 /\ written = 0
  /\ jobLock = FALSE
  /\ cached = NoAnswer
  /\ task = [w \in DashboardWorker |-> NoTask]
  /\ asked = [r \in AdminRequest |-> NotAsked]
  /\ unguarded = FALSE /\ overtaken = FALSE

\* A user registers, a profile is published, a status is changed; a date is over.
FiguresChange ==
  /\ figures < MaxFigures
  /\ figures' = figures + 1
  /\ UNCHANGED <<endpoint, written, jobLock, cached, task, asked, unguarded, overtaken>>

(***************************************************************************)
(* Jobs of MetricsRollupProcessor.                                         *)
(***************************************************************************)
TaskAt(w, label) == task[w].at = label

\* A job that has the lock, or thinks so.
Holds(w) == task[w].at \in {"compute", "upsert", "error", "release"}

\* Mutant: a job that finds the lock taken goes on.
BeginAnyway(w) ==
  /\ TaskAt(w, "idle") /\ endpoint # "recent-activity"
  /\ jobLock' = TRUE
  /\ task' = [task EXCEPT ![w].at = "compute"]
  /\ UNCHANGED <<endpoint, figures, written, cached, asked, unguarded, overtaken>>

\* acquireLock.  A job that finds the lock taken returns at once, and an error of
\* Redis counts as having it.
BeginTask(w) ==
  /\ TaskAt(w, "idle") /\ endpoint # "recent-activity"
  /\ \/ /\ ~jobLock /\ jobLock' = TRUE
        /\ task' = [task EXCEPT ![w].at = "compute"]
        /\ UNCHANGED unguarded
     \/ /\ jobLock
        /\ task' = [task EXCEPT ![w].at = "invalidate"]
        /\ UNCHANGED <<jobLock, unguarded>>
     \/ /\ task' = [task EXCEPT ![w].at = "compute"]
        /\ unguarded' = TRUE
        /\ UNCHANGED jobLock
  /\ UNCHANGED <<endpoint, figures, written, cached, asked, overtaken>>

\* The other jobs drop the answers of this endpoint as well.
OtherJobEnds(w) ==
  /\ TaskAt(w, "idle")
  /\ task' = [task EXCEPT ![w].at = "invalidate"]
  /\ UNCHANGED <<endpoint, figures, written, jobLock, cached, asked, unguarded, overtaken>>

\* The SELECT of UPSERT_SNAPSHOT_SQL sees the rows that are there when it begins;
\* the rollup reads the watermark.
ComputeFigures(w) ==
  /\ TaskAt(w, "compute")
  /\ \/ /\ endpoint = "summary"
        /\ task' = [task EXCEPT ![w].at = "upsert", ![w].seen = figures]
     \/ /\ endpoint = "search-activity" /\ written < figures
        /\ task' = [task EXCEPT ![w].at = "upsert", ![w].seen = written + 1]
     \/ /\ endpoint = "search-activity" /\ written = figures
        /\ task' = [task EXCEPT ![w].at = "release"]
  /\ UNCHANGED <<endpoint, figures, written, jobLock, cached, asked, unguarded, overtaken>>

\* The INSERT of computeAndUpsert replaces the row of the date; a chunk of the
\* rollup adds its date.  A backfill goes on to the next date.
UpsertFigures(w) ==
  /\ TaskAt(w, "upsert")
  /\ written' = task[w].seen
  /\ \E label \in {"release"} \cup (IF endpoint = "summary" THEN {} ELSE {"compute"}) :
       task' = [task EXCEPT ![w].at = label, ![w].seen = 0, ![w].wrote = TRUE]
  /\ UNCHANGED <<endpoint, figures, jobLock, cached, asked, unguarded, overtaken>>

\* A query throws, before or after the upsert, and the catch records the error.
TaskFails(w) ==
  /\ task[w].at \in {"compute", "upsert", "release"} /\ ~task[w].failed
  /\ task' = [task EXCEPT ![w].at = "error", ![w].failed = TRUE, ![w].seen = 0]
  /\ UNCHANGED <<endpoint, figures, written, jobLock, cached, asked, unguarded, overtaken>>

RecordTaskError(w) ==
  /\ TaskAt(w, "error")
  /\ task' = [task EXCEPT ![w].at = "release"]
  /\ UNCHANGED <<endpoint, figures, written, jobLock, cached, asked, unguarded, overtaken>>

\* The job is over without its answers being dropped.
LeaveAnswers(w) == overtaken' = (overtaken \/ (task[w].wrote /\ cached.there))

\* releaseLock, whoever holds it.  A job that failed throws out of the processor.
ReleaseTask(w) ==
  /\ TaskAt(w, "release")
  /\ \E freed \in BOOLEAN : jobLock' = (jobLock /\ ~freed)
  /\ \/ /\ task[w].failed
        /\ LeaveAnswers(w)
        /\ task' = [task EXCEPT ![w] = NoTask]
     \/ /\ ~task[w].failed
        /\ task' = [task EXCEPT ![w].at = "invalidate"]
        /\ UNCHANGED overtaken
  /\ UNCHANGED <<endpoint, figures, written, cached, asked, unguarded>>

\* Mutant: the pattern matches none of the cached answers.
InvalidateNothing(w) ==
  /\ TaskAt(w, "invalidate")
  /\ task' = [task EXCEPT ![w] = NoTask]
  /\ UNCHANGED <<endpoint, figures, written, jobLock, cached, asked, unguarded, overtaken>>

\* delByPattern of admin:metrics:*; an error half way is swallowed.
InvalidateMetricsCache(w) ==
  /\ TaskAt(w, "invalidate")
  /\ \/ cached' = NoAnswer /\ overtaken' = FALSE
     \/ LeaveAnswers(w) /\ UNCHANGED cached
  /\ task' = [task EXCEPT ![w] = NoTask]
  /\ UNCHANGED <<endpoint, figures, written, jobLock, asked, unguarded>>

\* The process dies; the lock stays.
TaskDies(w) ==
  /\ ~TaskAt(w, "idle")
  /\ task' = [task EXCEPT ![w] = NoTask]
  /\ LeaveAnswers(w)
  /\ UNCHANGED <<endpoint, figures, written, jobLock, cached, asked, unguarded>>

\* LOCK_TTL_SECONDS pass, whether or not the holder is still at work.
JobLockExpires ==
  /\ jobLock /\ jobLock' = FALSE
  /\ unguarded' = (unguarded \/ \E w \in DashboardWorker : Holds(w))
  /\ UNCHANGED <<endpoint, figures, written, cached, task, asked, overtaken>>

(***************************************************************************)
(* Requests: AdminMetricsService.                                          *)
(***************************************************************************)
\* A hit is answered and changes nothing; a failing GET counts as a miss.
AskMetrics(r) ==
  /\ asked[r].at = "idle"
  /\ asked' = [asked EXCEPT ![r].at = "both"]
  /\ UNCHANGED <<endpoint, figures, written, jobLock, cached, task, unguarded, overtaken>>

\* Promise.all: the queries answer in any order.  computeLive and the invites are
\* counted from the rows of now; searches are summed from daily_metrics.
LiveFigures == IF endpoint = "search-activity" THEN written ELSE figures

QueryLive(r) ==
  /\ asked[r].at \in {"both", "live"}
  /\ asked' = [asked EXCEPT ![r].live = LiveFigures,
                            ![r].at = IF @ = "both" THEN "table" ELSE "store"]
  /\ UNCHANGED <<endpoint, figures, written, jobLock, cached, task, unguarded, overtaken>>

\* getLatestBefore and publishingTimeseriesInWindow, or timeseriesByTypeInWindow.
TableFigures == IF endpoint = "recent-activity" THEN figures ELSE written

QueryTable(r) ==
  /\ asked[r].at \in {"both", "table"}
  /\ asked' = [asked EXCEPT ![r].table = TableFigures,
                            ![r].at = IF @ = "both" THEN "live" ELSE "store"]
  /\ UNCHANGED <<endpoint, figures, written, jobLock, cached, task, unguarded, overtaken>>

\* What an answer has of the jobs' work is all there is of it.
HasWritten(answer) ==
  CASE endpoint = "summary"         -> answer.table = written
    [] endpoint = "search-activity" -> answer.live = written /\ answer.table = written
    [] endpoint = "recent-activity" -> TRUE

\* trySetCache, whose errors are swallowed.
AnswerMetrics(r) ==
  /\ asked[r].at = "store"
  /\ \/ /\ cached' = [there |-> TRUE, live |-> asked[r].live, table |-> asked[r].table]
        /\ overtaken' = ~HasWritten(asked[r])
     \/ UNCHANGED <<cached, overtaken>>
  /\ asked' = [asked EXCEPT ![r] = NotAsked]
  /\ UNCHANGED <<endpoint, figures, written, jobLock, task, unguarded>>

\* A query throws, or the process dies.
RequestFails(r) ==
  /\ asked[r].at # "idle"
  /\ asked' = [asked EXCEPT ![r] = NotAsked]
  /\ UNCHANGED <<endpoint, figures, written, jobLock, cached, task, unguarded, overtaken>>

\* CACHE_TTL_SECONDS.
AnswerExpires ==
  /\ cached.there
  /\ cached' = NoAnswer /\ overtaken' = FALSE
  /\ UNCHANGED <<endpoint, figures, written, jobLock, task, asked, unguarded>>

DBNext ==
  \/ FiguresChange \/ JobLockExpires \/ AnswerExpires
  \/ \E w \in DashboardWorker :
       \/ BeginTask(w) \/ OtherJobEnds(w) \/ ComputeFigures(w) \/ UpsertFigures(w)
       \/ TaskFails(w) \/ RecordTaskError(w) \/ ReleaseTask(w)
       \/ InvalidateMetricsCache(w) \/ TaskDies(w)
  \/ \E r \in AdminRequest :
       \/ AskMetrics(r) \/ QueryLive(r) \/ QueryTable(r) \/ AnswerMetrics(r) \/ RequestFails(r)

DBSpec == DBInit /\ [][DBNext]_dashboardVars

(***************************************************************************)
(* Properties.                                                             *)
(***************************************************************************)

(***************************************************************************)
(* A cached answer has all that the jobs that are over have written: none  *)
(* from before a job outlives it, except one that a request had computed   *)
(* before and stores afterwards, or that is left by a job that failed or   *)
(* died half way or by a DEL that failed; these the five minutes end.      *)
(***************************************************************************)
CacheFollowsJobs ==
  cached.there /\ ~overtaken /\ ~(\E w \in DashboardWorker : task[w].wrote) => HasWritten(cached)

(***************************************************************************)
(* What the jobs have written never goes back to older figures, whatever   *)
(* jobs are run again, as long as the lock keeps two of them apart: it did *)
(* not expire under a job, and Redis could be reached.                     *)
(***************************************************************************)
WrittenGrows == [][written' >= written \/ unguarded]_dashboardVars
=============================================================================
