--------------------------- MODULE MetricsRollup ---------------------------
(***************************************************************************)
(* The daily metrics rollup: jobs of MetricsRollupProcessor, scheduled or  *)
(* one-off, in any number of application instances, that aggregate the     *)
(* events table into daily_metrics from a watermark on.  Time is counted   *)
(* in ticks, DayLength to a calendar day.                                  *)
(***************************************************************************)
EXTENDS Integers, FiniteSets

CONSTANTS
  Worker,          \* application instances; each runs one metrics job at a time
  DayLength,       \* ticks of DAY_MS
  MaxTime,         \* bound: the last tick
  ConfiguredStart, \* METRICS_ROLLUP_START_DATE, a midnight, or NoTime
  NoTime

ASSUME TimeAssumption ==
  /\ DayLength \in Nat \ {0}
  /\ MaxTime \in Nat
  /\ NoTime \notin 0..MaxTime
  /\ ConfiguredStart \in 0..MaxTime \cup {NoTime}

Time == 0..MaxTime
DayOf(t) == t \div DayLength
Days == {DayOf(t) : t \in Time}
Jobs == {"rollup", "backfill"}

VARIABLES
  now,        \* the clock
  events,     \* ticks at which a tracked event occurred and is committed
  daily,      \* daily_metrics: the count of each day, 0 where there is no row
  watermark,  \* rollup_progress.lastDailyRollupAt
  lock,       \* does the key metrics:rollup:daily:lock exist
  pc, job,    \* where each worker is, in which job
  from, to,   \* the window of its chunk
  asOf,       \* its Date.now()
  rolled,     \* events that were counted by a rolled-up window
  excused     \* ticks that may be missed: see OnlyErrorsSkipEvents

store == <<events, daily, watermark>>
locals == <<job, from, to, asOf>>
history == <<rolled, excused>>
vars == <<now, store, lock, pc, locals, history>>

TypeOK ==
  /\ now \in Time
  /\ events \subseteq Time
  /\ daily \in [Days -> 0..DayLength]
  /\ watermark \in Time \cup {NoTime}
  /\ lock \in BOOLEAN
  /\ pc \in [Worker -> {"idle", "read", "chunk", "advance", "extend", "error", "release"}]
  /\ job \in [Worker -> Jobs \cup {"none"}]
  /\ from \in [Worker -> Time]
  /\ to \in [Worker -> Time]
  /\ asOf \in [Worker -> Time]
  /\ rolled \subseteq events /\ excused \subseteq Time

Init ==
  /\ now = 0
  /\ events = {}
  /\ daily = [d \in Days |-> 0]
  /\ watermark = NoTime
  /\ lock = FALSE
  /\ pc = [w \in Worker |-> "idle"]
  /\ job = [w \in Worker |-> "none"]
  /\ from = [w \in Worker |-> 0]
  /\ to = [w \in Worker |-> 0]
  /\ asOf = [w \in Worker |-> 0]
  /\ rolled = {} /\ excused = {}

Ticks(a, b) == {t \in Time : a <= t /\ t < b}
EventsOn(d) == {e \in events : DayOf(e) = d}
Min2(a, b) == IF a <= b THEN a ELSE b

GoTo(w, label) == pc' = [pc EXCEPT ![w] = label]

\* The job leaves its `try` block, or is over; its local variables are dead.
EndWork(w, label) ==
  /\ GoTo(w, label)
  /\ job' = [job EXCEPT ![w] = "none"]
  /\ from' = [from EXCEPT ![w] = 0]
  /\ to' = [to EXCEPT ![w] = 0]
  /\ asOf' = [asOf EXCEPT ![w] = 0]

(***************************************************************************)
(* Time and events.                                                        *)
(***************************************************************************)
Tick ==
  /\ now < MaxTime
  /\ now' = now + 1
  /\ UNCHANGED <<store, lock, pc, locals, history>>

\* An event that is visible to queries in the tick it occurs at.
RecordEvent ==
  /\ now \notin events
  /\ events' = events \cup {now}
  /\ UNCHANGED <<now, daily, watermark, lock, pc, locals, history>>

\* One whose transaction commits in the tick after.
RecordEventLate ==
  /\ now > 0 /\ now - 1 \notin events
  /\ events' = events \cup {now - 1}
  /\ excused' = excused \cup {now - 1}
  /\ UNCHANGED <<now, daily, watermark, lock, pc, locals, rolled>>

(***************************************************************************)
(* runDailyRollup and runDailyBackfill.                                    *)
(***************************************************************************)

\* acquireLock: SET NX EX, and an error of Redis counts as having it.
StartJob(w, j) ==
  /\ pc[w] = "idle"
  /\ \/ ~lock /\ lock' = TRUE
     \/ UNCHANGED lock
  /\ GoTo(w, "read")
  /\ job' = [job EXCEPT ![w] = j]
  /\ asOf' = [asOf EXCEPT ![w] = now]
  /\ UNCHANGED <<now, store, from, to, history>>

\* rollupStartFallback
StartFallback ==
  IF ConfiguredStart # NoTime THEN ConfiguredStart ELSE DayOf(now) * DayLength

WindowStart == IF watermark # NoTime THEN watermark ELSE StartFallback

\* Mutant: the window is not cut off at the present.
WindowEndUncut(w, a) == Min2(MaxTime, a + DayLength)

\* toMs: at most one day, and not past the job's Date.now().
WindowEnd(w, a) == Min2(asOf[w], a + DayLength)

\* What no window will cover when the first one starts at a.
BeforeFirst(a) == IF watermark = NoTime THEN Ticks(0, a) ELSE {}

\* getProgress finds a window to roll up.
ReadProgress(w) ==
  /\ pc[w] = "read"
  /\ WindowEnd(w, WindowStart) > WindowStart
  /\ from' = [from EXCEPT ![w] = WindowStart]
  /\ to' = [to EXCEPT ![w] = WindowEnd(w, WindowStart)]
  /\ excused' = excused \cup BeforeFirst(WindowStart)
  /\ GoTo(w, "chunk")
  /\ UNCHANGED <<now, store, lock, job, asOf, rolled>>

\* It has caught up: nothing to do.
CaughtUp(w) ==
  /\ pc[w] = "read"
  /\ WindowEnd(w, WindowStart) <= WindowStart
  /\ EndWork(w, "release")
  /\ UNCHANGED <<now, store, lock, history>>

\* The backfill has run for METRICS_BACKFILL_MAX_DURATION_MS.
CapBackfill(w) ==
  /\ pc[w] = "read" /\ job[w] = "backfill"
  /\ EndWork(w, "release")
  /\ UNCHANGED <<now, store, lock, history>>

CountIn(w, d) == Cardinality(EventsOn(d) \cap Ticks(from[w], to[w]))

\* Mutant: the upsert adds to the count that is there.
Accumulated(w, d) == daily[d] + CountIn(w, d)

\* ON CONFLICT DO UPDATE SET count = EXCLUDED.count, for the groups that have rows.
Upserted(w, d) == IF CountIn(w, d) > 0 THEN CountIn(w, d) ELSE daily[d]

RollupWindow(w) ==
  /\ pc[w] = "chunk"
  /\ daily' = [d \in Days |-> Upserted(w, d)]
  /\ rolled' = rolled \cup (events \cap Ticks(from[w], to[w]))
  /\ GoTo(w, "advance")
  /\ UNCHANGED <<now, events, watermark, lock, locals, excused>>

\* setDailyProgress(to, 'success'); a backfill goes on until it has caught up.
AdvanceWatermark(w) ==
  /\ pc[w] = "advance"
  /\ watermark' = to[w]
  /\ \/ /\ job[w] = "backfill" /\ to[w] < asOf[w]
        /\ GoTo(w, "extend")
        /\ UNCHANGED locals
     \/ /\ job[w] = "rollup" \/ to[w] >= asOf[w]
        /\ EndWork(w, "release")
  /\ UNCHANGED <<now, events, daily, lock, history>>

\* EXPIRE on the lock, which does nothing when the key is gone; then the next chunk.
ExtendLock(w) ==
  /\ pc[w] = "extend"
  /\ asOf' = [asOf EXCEPT ![w] = now]
  /\ GoTo(w, "read")
  /\ UNCHANGED <<now, store, lock, job, from, to, history>>

\* A query throws, or the EXPIRE does.
QueryFails(w) ==
  /\ pc[w] \in {"read", "chunk", "advance", "extend"}
  /\ EndWork(w, "error")
  /\ UNCHANGED <<now, store, lock, history>>

\* setDailyProgress(new Date(), 'error'): the watermark moves to the present.
RecordError(w) ==
  /\ pc[w] = "error"
  /\ watermark' = now
  /\ excused' = excused \cup Ticks(IF watermark = NoTime THEN 0 ELSE watermark, now)
  /\ EndWork(w, "release")
  /\ UNCHANGED <<now, events, daily, lock, rolled>>

\* The same upsert throws too.
RecordErrorFails(w) ==
  /\ pc[w] = "error"
  /\ EndWork(w, "release")
  /\ UNCHANGED <<now, store, lock, history>>

\* The unconditional DEL of `finally`, whose errors are swallowed.
ReleaseLock(w) ==
  /\ pc[w] = "release"
  /\ lock' \in {FALSE, lock}
  /\ GoTo(w, "idle")
  /\ UNCHANGED <<now, store, locals, history>>

Crash(w) ==
  /\ pc[w] # "idle"
  /\ EndWork(w, "idle")
  /\ UNCHANGED <<now, store, lock, history>>

\* LOCK_TTL_SECONDS pass, whether or not the holder is still at work.
LockExpires ==
  /\ lock
  /\ lock' = FALSE
  /\ UNCHANGED <<now, store, pc, locals, history>>

Next ==
  \/ Tick \/ RecordEvent \/ RecordEventLate \/ LockExpires
  \/ \E w \in Worker :
       \/ \E j \in Jobs : StartJob(w, j)
       \/ ReadProgress(w) \/ CaughtUp(w) \/ CapBackfill(w) \/ RollupWindow(w)
       \/ AdvanceWatermark(w) \/ ExtendLock(w)
       \/ QueryFails(w) \/ RecordError(w) \/ RecordErrorFails(w)
       \/ ReleaseLock(w) \/ Crash(w)

Spec == Init /\ [][Next]_vars

(***************************************************************************)
(* Properties.                                                             *)
(***************************************************************************)

(***************************************************************************)
(* No day is ever counted too high, although a window may be rolled up     *)
(* again and again: after a crash before the watermark moved, or by two    *)
(* jobs at once when the lock expired or was not available.                *)
(***************************************************************************)
NeverOvercounts == \A d \in Days : daily[d] <= Cardinality(EventsOn(d))

(***************************************************************************)
(* The watermark leaves nothing behind: every event before it was counted  *)
(* by a rolled-up window, except for the events of a run that failed (the  *)
(* error path moves the watermark to the present), the events before the   *)
(* start of a first window, and those committed late.  Overlapping jobs    *)
(* may move the watermark back, never over an event.                       *)
(***************************************************************************)
OnlyErrorsSkipEvents ==
  watermark # NoTime =>
    \A e \in events : e < watermark => e \in rolled \cup excused

(***************************************************************************)
(* README.md: "DailyMetrics - pre-aggregated daily rollups from the events *)
(* table".  A day the watermark has passed, all of it rolled up and        *)
(* nothing in it late, has the count of its events.                        *)
(***************************************************************************)
ClosedDaysComplete ==
  \A d \in Days :
    ( /\ watermark # NoTime /\ watermark >= (d + 1) * DayLength
      /\ \A e \in EventsOn(d) : e \in rolled \ excused )
    => daily[d] = Cardinality(EventsOn(d))
=============================================================================
