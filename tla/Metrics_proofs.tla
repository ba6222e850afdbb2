--------------------------- MODULE Metrics_proofs ---------------------------
(***************************************************************************)
(* Proofs about the metrics jobs and what is made from them: no day is     *)
(* counted too high and no event is left behind, jobs and answers of the   *)
(* dashboards do not go back, their windows adjoin, and the health check   *)
(* tells of a rollup that is late.                                         *)
(***************************************************************************)
EXTENDS MCMetricsRollup, FiniteSetTheorems, TLAPS

(***************************************************************************)
(* The rollup.                                                             *)
(***************************************************************************)

(***************************************************************************)
(* Every event before t has been counted by a window, or may be missed.    *)
(***************************************************************************)
Covered(t) == \A e \in events : e < t => e \in rolled \cup excused

(***************************************************************************)
(* What makes OnlyErrorsSkipEvents inductive: a window begins where        *)
(* nothing is left behind, and once it has been rolled up nothing is left  *)
(* behind before its end; nobody looks past the clock, so that no event    *)
(* occurs before the end of a window.                                      *)
(***************************************************************************)
WindowsCover ==
  /\ watermark # NoTime => watermark <= now
  /\ \A w \in Worker :
       /\ asOf[w] <= now /\ to[w] <= now
       /\ pc[w] = "chunk" => from[w] <= now /\ Covered(from[w])
       /\ pc[w] = "advance" => Covered(to[w])

IInv == TypeOK /\ NeverOvercounts /\ WindowsCover /\ OnlyErrorsSkipEvents

\* A set of ticks has a cardinality, and a part of it no more.
LEMMA TicksAreFinite ==
  ASSUME NEW S \in SUBSET Time, NEW T \in SUBSET S
  PROVE  /\ IsFiniteSet(S) /\ Cardinality(S) \in Nat
         /\ Cardinality(T) \in Nat /\ Cardinality(T) <= Cardinality(S)
<1>1. IsFiniteSet(Time)
  BY TimeAssumption, FS_Interval DEF Time
<1>2. IsFiniteSet(S)
  BY <1>1, FS_Subset
<1>3. IsFiniteSet(T) /\ Cardinality(T) <= Cardinality(S)
  BY <1>2, FS_Subset
<1> QED
  BY <1>2, <1>3, FS_CardinalityType

\* A day has no more events than ticks.
LEMMA DayIsLong ==
  ASSUME events \subseteq Time, NEW d \in Days
  PROVE  Cardinality(EventsOn(d)) <= DayLength
<1> DEFINE first == d * DayLength
<1>1. d \in Nat /\ first \in Nat /\ DayLength \in Nat \ {0}
  BY TimeAssumption DEF Days, DayOf, Time
<1>2. \A e \in Nat : DayOf(e) = d => first <= e /\ e <= first + DayLength - 1
  BY <1>1 DEF DayOf
<1>3. EventsOn(d) \subseteq first .. (first + DayLength - 1)
  <2> SUFFICES ASSUME NEW e \in EventsOn(d)
               PROVE  e \in first .. (first + DayLength - 1)
    OBVIOUS
  <2>1. e \in Nat /\ DayOf(e) = d
    BY TimeAssumption DEF EventsOn, Time
  <2> HIDE DEF first
  <2> QED
    BY <1>1, <1>2, <2>1
<1>4. /\ IsFiniteSet(first .. (first + DayLength - 1))
      /\ Cardinality(first .. (first + DayLength - 1)) = DayLength
  BY <1>1, FS_Interval
<1>5. Cardinality(EventsOn(d)) <= Cardinality(first .. (first + DayLength - 1))
  BY <1>3, <1>4, FS_Subset
<1> QED
  BY <1>4, <1>5

\* Windows begin and end at ticks, and end no later than the job's clock.
LEMMA WindowTicks ==
  ASSUME TypeOK, NEW w \in Worker
  PROVE  /\ WindowStart \in Time
         /\ \A a \in Time : WindowEnd(w, a) \in Time /\ WindowEnd(w, a) <= asOf[w]
<1> USE TimeAssumption DEF Time
<1>1. DayOf(now) * DayLength \in 0..now
  BY DEF TypeOK, DayOf
<1>2. WindowStart \in Time
  BY <1>1 DEF WindowStart, StartFallback, TypeOK
<1>3. asOf[w] \in Time
  BY DEF TypeOK
<1> QED
  BY <1>2, <1>3 DEF WindowEnd, Min2

\* A window counts no more of a day than there is.
LEMMA CountsFit ==
  ASSUME TypeOK, NEW w \in Worker, NEW d \in Days
  PROVE  /\ CountIn(w, d) \in 0..DayLength
         /\ CountIn(w, d) <= Cardinality(EventsOn(d))
<1>1. EventsOn(d) \subseteq Time /\ EventsOn(d) \cap Ticks(from[w], to[w]) \subseteq EventsOn(d)
  BY DEF TypeOK, EventsOn
<1>2. /\ CountIn(w, d) \in Nat /\ Cardinality(EventsOn(d)) \in Nat
      /\ CountIn(w, d) <= Cardinality(EventsOn(d))
  BY <1>1, TicksAreFinite DEF CountIn
<1>3. Cardinality(EventsOn(d)) <= DayLength
  BY DayIsLong DEF TypeOK
<1> QED
  BY <1>2, <1>3, TimeAssumption

\* A job that is over leaves no window.
LEMMA EndTypes ==
  ASSUME TypeOK, NEW w \in Worker, NEW label \in {"idle", "error", "release"},
         EndWork(w, label)
  PROVE  /\ pc' \in [Worker -> {"idle", "read", "chunk", "advance", "extend", "error", "release"}]
         /\ job' \in [Worker -> Jobs \cup {"none"}]
         /\ from' \in [Worker -> Time] /\ to' \in [Worker -> Time]
         /\ asOf' \in [Worker -> Time]
<1>1. 0 \in Time
  BY TimeAssumption DEF Time
<1> QED
  BY <1>1 DEF EndWork, GoTo, TypeOK

(***************************************************************************)
(* No step leaves the types: no day has more events than ticks, and no     *)
(* window ends in the future.                                              *)
(***************************************************************************)
LEMMA RollupTypesKept == TypeOK /\ [Next]_vars => TypeOK'
<1> SUFFICES ASSUME TypeOK, [Next]_vars PROVE TypeOK'
  OBVIOUS
<1> USE TimeAssumption DEF store, locals, history, vars
<1>1. CASE Tick
  BY <1>1 DEF Tick, TypeOK, Time
<1>2. CASE RecordEvent \/ RecordEventLate
  <2>1. CASE RecordEvent
    BY <2>1 DEF RecordEvent, TypeOK
  <2>2. CASE RecordEventLate
    <3>1. now - 1 \in Time
      BY <2>2 DEF RecordEventLate, TypeOK, Time
    <3> QED
      BY <2>2, <3>1 DEF RecordEventLate, TypeOK
  <2> QED
    BY <1>2, <2>1, <2>2
<1>3. CASE LockExpires
  BY <1>3 DEF LockExpires, TypeOK
<1>4. ASSUME NEW w \in Worker, NEW j \in Jobs, StartJob(w, j) PROVE TypeOK'
  BY <1>4 DEF StartJob, GoTo, TypeOK
<1>5. ASSUME NEW w \in Worker, ReadProgress(w) PROVE TypeOK'
  <2>1. WindowStart \in Time /\ WindowEnd(w, WindowStart) \in Time
    BY WindowTicks
  <2>2. BeforeFirst(WindowStart) \subseteq Time
    BY DEF BeforeFirst, Ticks
  <2> QED
    BY <1>5, <2>1, <2>2 DEF ReadProgress, GoTo, TypeOK
<1>6. ASSUME NEW w \in Worker,
             CaughtUp(w) \/ CapBackfill(w) \/ QueryFails(w) \/ RecordErrorFails(w) \/ Crash(w)
      PROVE  TypeOK'
  <2>1. PICK label \in {"idle", "error", "release"} : EndWork(w, label)
    BY <1>6 DEF CaughtUp, CapBackfill, QueryFails, RecordErrorFails, Crash
  <2>2. UNCHANGED <<now, store, history>> /\ lock' = lock
    BY <1>6 DEF CaughtUp, CapBackfill, QueryFails, RecordErrorFails, Crash
  <2> QED
    BY <2>1, <2>2, EndTypes DEF TypeOK
<1>7. ASSUME NEW w \in Worker, RollupWindow(w) PROVE TypeOK'
  <2>1. \A d \in Days : Upserted(w, d) \in 0..DayLength
    BY CountsFit DEF Upserted, TypeOK
  <2> QED
    BY <1>7, <2>1 DEF RollupWindow, GoTo, TypeOK
<1>8. ASSUME NEW w \in Worker, AdvanceWatermark(w) PROVE TypeOK'
  BY <1>8 DEF AdvanceWatermark, EndWork, GoTo, TypeOK, Time
<1>9. ASSUME NEW w \in Worker, ExtendLock(w) PROVE TypeOK'
  BY <1>9 DEF ExtendLock, GoTo, TypeOK
<1>10. ASSUME NEW w \in Worker, RecordError(w) PROVE TypeOK'
  <2>1. excused' \subseteq Time /\ watermark' \in Time \cup {NoTime}
    BY <1>10 DEF RecordError, Ticks, TypeOK
  <2>2. EndWork(w, "release") /\ UNCHANGED <<now, events, daily, lock, rolled>>
    BY <1>10 DEF RecordError
  <2> QED
    BY <2>1, <2>2, EndTypes DEF TypeOK
<1>11. ASSUME NEW w \in Worker, ReleaseLock(w) PROVE TypeOK'
  BY <1>11 DEF ReleaseLock, GoTo, TypeOK
<1>12. CASE UNCHANGED vars
  BY <1>12 DEF TypeOK
<1> QED
  BY <1>1, <1>2, <1>3, <1>4, <1>5, <1>6, <1>7, <1>8, <1>9, <1>10, <1>11, <1>12 DEF Next

(***************************************************************************)
(* Events are only added to a day, and an upsert counts some of them.      *)
(***************************************************************************)
LEMMA OvercountsNever ==
  TypeOK /\ NeverOvercounts /\ [Next]_vars => NeverOvercounts'
<1> SUFFICES ASSUME TypeOK, NeverOvercounts, [Next]_vars, NEW d \in Days
             PROVE  daily'[d] <= Cardinality(EventsOn(d)')
  BY DEF NeverOvercounts
<1>1. TypeOK'
  BY RollupTypesKept
<1>2. events \subseteq events'
  BY DEF Next, vars, store, Tick, RecordEvent, RecordEventLate, LockExpires, StartJob,
         ReadProgress, CaughtUp, CapBackfill, RollupWindow, AdvanceWatermark, ExtendLock,
         QueryFails, RecordError, RecordErrorFails, ReleaseLock, Crash
<1>3. /\ Cardinality(EventsOn(d)) \in Nat /\ Cardinality(EventsOn(d)') \in Nat
      /\ Cardinality(EventsOn(d)) <= Cardinality(EventsOn(d)')
  <2>1. EventsOn(d) \subseteq EventsOn(d)' /\ EventsOn(d)' \subseteq Time
    BY <1>1, <1>2 DEF EventsOn, TypeOK
  <2> QED
    BY <2>1, TicksAreFinite
<1>4. daily[d] \in Nat /\ daily[d] <= Cardinality(EventsOn(d))
  BY TimeAssumption DEF TypeOK, NeverOvercounts
<1>5. CASE \E w \in Worker : RollupWindow(w)
  <2>1. PICK w \in Worker : RollupWindow(w)
    BY <1>5
  <2>2. daily'[d] = Upserted(w, d)
    BY <2>1 DEF RollupWindow
  <2> QED
    BY <1>3, <1>4, <2>2, CountsFit DEF Upserted
<1>6. CASE ~\E w \in Worker : RollupWindow(w)
  <2>1. daily' = daily
    BY <1>6 DEF Next, vars, store, Tick, RecordEvent, RecordEventLate, LockExpires, StartJob,
                ReadProgress, CaughtUp, CapBackfill, AdvanceWatermark, ExtendLock,
                QueryFails, RecordError, RecordErrorFails, ReleaseLock, Crash
  <2> QED
    BY <1>3, <1>4, <2>1
<1> QED
  BY <1>5, <1>6

\* What is covered stays so, but for an event before t.
LEMMA StaysCovered ==
  ASSUME TypeOK, NEW t \in Int, Covered(t), rolled \subseteq rolled', excused \subseteq excused',
         \A e \in events' : e < t => e \in events \cup excused'
  PROVE  Covered(t)'
BY DEF Covered

(***************************************************************************)
(* The windows stay covered: time and late commits leave nothing behind,   *)
(* a window begins at the watermark or excuses what is before, and once    *)
(* rolled up it covers what is before its end.                             *)
(***************************************************************************)
LEMMA CoverKept ==
  TypeOK /\ WindowsCover /\ OnlyErrorsSkipEvents /\ [Next]_vars
  => WindowsCover' /\ OnlyErrorsSkipEvents'
<1> SUFFICES ASSUME TypeOK, WindowsCover, OnlyErrorsSkipEvents, [Next]_vars
             PROVE  WindowsCover' /\ OnlyErrorsSkipEvents'
  OBVIOUS
<1> DEFINE Known == watermark # NoTime => watermark <= now /\ Covered(watermark)
<1>0. /\ Known /\ now \in Int
      /\ \A w \in Worker : from[w] \in Int /\ to[w] \in Int /\ asOf[w] \in Int
      /\ watermark # NoTime => watermark \in Int
  BY TimeAssumption DEF WindowsCover, OnlyErrorsSkipEvents, Covered, TypeOK, Time
<1>00. WindowsCover' /\ Known' => WindowsCover' /\ OnlyErrorsSkipEvents'
  BY DEF OnlyErrorsSkipEvents, Covered
<1> SUFFICES WindowsCover' /\ Known'
  BY <1>00
<1> USE DEF store, locals, history
<1>1. CASE Tick
  BY <1>0, <1>1 DEF Tick, WindowsCover, Covered
<1>2. CASE RecordEvent \/ RecordEventLate
  <2>1. /\ UNCHANGED <<now, watermark, pc, from, to, asOf, rolled>> /\ excused \subseteq excused'
        /\ \A e \in events' : e < now => e \in events \cup excused'
    BY <1>0, <1>2 DEF RecordEvent, RecordEventLate
  <2>2. ASSUME NEW t \in Int, t <= now, Covered(t) PROVE Covered(t)'
    <3>1. \A e \in events' : e < t => e \in events \cup excused'
      BY <1>0, <1>2, <2>2 DEF RecordEvent, RecordEventLate
    <3> QED
      BY <2>1, <2>2, <3>1, StaysCovered
  <2>3. Known'
    BY <1>0, <2>1, <2>2
  <2> QED
    BY <1>0, <2>1, <2>2, <2>3 DEF WindowsCover, Covered
<1>3. CASE LockExpires \/ UNCHANGED vars
  BY <1>0, <1>3 DEF LockExpires, vars, WindowsCover, Covered
<1>4. ASSUME NEW w \in Worker, \E j \in Jobs : StartJob(w, j) PROVE WindowsCover' /\ Known'
  <2>1. /\ UNCHANGED <<now, store, from, to, history>>
        /\ asOf' = [asOf EXCEPT ![w] = now] /\ pc' = [pc EXCEPT ![w] = "read"]
    BY <1>4 DEF StartJob, GoTo
  <2> QED
    BY <1>0, <2>1 DEF WindowsCover, Covered, TypeOK
<1>5. ASSUME NEW w \in Worker, ReadProgress(w) PROVE WindowsCover' /\ Known'
  <2>0. PICK start \in Time : start = WindowStart
    BY WindowTicks
  <2>1. /\ UNCHANGED <<now, store, asOf, rolled>> /\ excused' = excused \cup BeforeFirst(start)
        /\ from' = [from EXCEPT ![w] = start] /\ to' = [to EXCEPT ![w] = WindowEnd(w, start)]
        /\ pc' = [pc EXCEPT ![w] = "chunk"]
    BY <1>5, <2>0 DEF ReadProgress, GoTo
  <2>2. start < WindowEnd(w, start) /\ WindowEnd(w, start) <= asOf[w] /\ WindowEnd(w, start) \in Time
    BY <1>5, <2>0, WindowTicks DEF ReadProgress
  <2>3. Covered(start)'
    <3>1. CASE watermark # NoTime
      BY <1>0, <2>0, <2>1, <3>1 DEF WindowStart, Covered
    <3>2. CASE watermark = NoTime
      <4>1. \A e \in events : e < start => e \in Ticks(0, start)
        BY TimeAssumption DEF Ticks, TypeOK, Time
      <4>2. Ticks(0, start) \subseteq excused'
        BY <2>1, <3>2 DEF BeforeFirst
      <4> QED
        BY <2>1, <4>1, <4>2 DEF Covered
    <3> QED
      BY <3>1, <3>2
  <2>4. start <= now /\ WindowEnd(w, start) <= now
    BY <1>0, <2>2, TimeAssumption DEF WindowsCover, Time
  <2>5. Known'
    BY <1>0, <2>1 DEF Covered
  <2>6. \A v \in Worker \ {w} : pc'[v] = pc[v] /\ from'[v] = from[v] /\ to'[v] = to[v]
    BY <2>1 DEF TypeOK
  <2>7. pc'[w] = "chunk" /\ from'[w] = start /\ to'[w] = WindowEnd(w, start)
    BY <2>1 DEF TypeOK
  <2>8. WindowsCover'
    BY <1>0, <2>1, <2>3, <2>4, <2>6, <2>7 DEF WindowsCover, Covered
  <2> QED
    BY <2>5, <2>8
<1>6. ASSUME NEW w \in Worker,
             CaughtUp(w) \/ CapBackfill(w) \/ QueryFails(w) \/ RecordErrorFails(w) \/ Crash(w)
      PROVE  WindowsCover' /\ Known'
  <2>1. PICK label \in {"idle", "error", "release"} : EndWork(w, label)
    BY <1>6 DEF CaughtUp, CapBackfill, QueryFails, RecordErrorFails, Crash
  <2>2. UNCHANGED <<now, store, history>>
    BY <1>6 DEF CaughtUp, CapBackfill, QueryFails, RecordErrorFails, Crash
  <2>3. 0 <= now
    BY TimeAssumption DEF TypeOK, Time
  <2> QED
    BY <1>0, <2>1, <2>2, <2>3 DEF EndWork, GoTo, WindowsCover, Covered, TypeOK
<1>7. ASSUME NEW w \in Worker, RollupWindow(w) PROVE WindowsCover' /\ Known'
  <2>1. /\ UNCHANGED <<now, events, watermark, from, to, asOf, excused>>
        /\ rolled' = rolled \cup (events \cap Ticks(from[w], to[w]))
        /\ pc[w] = "chunk" /\ pc' = [pc EXCEPT ![w] = "advance"]
    BY <1>7 DEF RollupWindow, GoTo
  <2>2. Covered(to[w])'
    <3>1. \A e \in events : e < to[w] => e < from[w] \/ e \in Ticks(from[w], to[w])
      BY TimeAssumption DEF Ticks, TypeOK, Time
    <3> QED
      BY <2>1, <3>1 DEF WindowsCover, Covered
  <2> QED
    BY <1>0, <2>1, <2>2 DEF WindowsCover, Covered, TypeOK
<1>8. ASSUME NEW w \in Worker, AdvanceWatermark(w) PROVE WindowsCover' /\ Known'
  <2>1. /\ UNCHANGED <<now, events, rolled, excused>> /\ watermark' = to[w] /\ pc[w] = "advance"
        /\ \/ pc' = [pc EXCEPT ![w] = "extend"] /\ UNCHANGED locals
           \/ EndWork(w, "release")
    BY <1>8 DEF AdvanceWatermark, GoTo
  <2>2. Covered(to[w]) /\ to[w] <= now /\ 0 <= now
    BY <2>1, TimeAssumption DEF WindowsCover, TypeOK, Time
  <2>3. Known'
    BY <2>1, <2>2 DEF Covered
  <2> QED
    BY <1>0, <2>1, <2>2, <2>3 DEF EndWork, GoTo, WindowsCover, Covered, TypeOK
<1>9. ASSUME NEW w \in Worker, ExtendLock(w) PROVE WindowsCover' /\ Known'
  BY <1>0, <1>9 DEF ExtendLock, GoTo, WindowsCover, Covered, TypeOK
<1>10. ASSUME NEW w \in Worker, RecordError(w) PROVE WindowsCover' /\ Known'
  <2>1. /\ UNCHANGED <<now, events, rolled>> /\ watermark' = now /\ EndWork(w, "release")
        /\ excused' = excused \cup Ticks(IF watermark = NoTime THEN 0 ELSE watermark, now)
    BY <1>10 DEF RecordError
  <2>2. 0 <= now
    BY TimeAssumption DEF TypeOK, Time
  <2>3. Covered(now)'
    <3>1. CASE watermark = NoTime
      BY <2>1, <3>1, TimeAssumption DEF Covered, Ticks, TypeOK, Time
    <3>2. CASE watermark # NoTime
      BY <1>0, <2>1, <3>2, TimeAssumption DEF Covered, Ticks, TypeOK, Time
    <3> QED
      BY <3>1, <3>2
  <2>4. Known'
    BY <1>0, <2>1, <2>3 DEF Covered
  <2> QED
    BY <1>0, <2>1, <2>2, <2>4 DEF EndWork, GoTo, WindowsCover, Covered, TypeOK
<1>11. ASSUME NEW w \in Worker, ReleaseLock(w) PROVE WindowsCover' /\ Known'
  BY <1>0, <1>11 DEF ReleaseLock, GoTo, WindowsCover, Covered, TypeOK
<1> QED
  BY <1>1, <1>2, <1>3, <1>4, <1>5, <1>6, <1>7, <1>8, <1>9, <1>10, <1>11 DEF Next

\* Nothing has been counted and nobody is at work.
LEMMA RollupTypesBegin == Init => TypeOK
<1>1. 0 \in Time /\ 0 \in 0..DayLength
  BY TimeAssumption DEF Time
<1> QED
  BY <1>1 DEF Init, TypeOK

\* The invariant holds from the beginning and each step keeps it.
LEMMA RollupInvariant == Spec => []IInv
<1>1. Init => IInv
  <2> SUFFICES ASSUME Init PROVE IInv
    OBVIOUS
  <2> USE TimeAssumption DEF Init
  <2>2. TypeOK
    BY RollupTypesBegin
  <2>3. NeverOvercounts
    <3>1. \A d \in Days : EventsOn(d) = {}
      BY DEF EventsOn
    <3> QED
      BY <3>1, FS_EmptySet DEF NeverOvercounts
  <2>4. WindowsCover /\ OnlyErrorsSkipEvents
    BY DEF WindowsCover, OnlyErrorsSkipEvents
  <2> QED
    BY <2>2, <2>3, <2>4 DEF IInv
<1>2. IInv /\ [Next]_vars => IInv'
  BY RollupTypesKept, OvercountsNever, CoverKept DEF IInv
<1> QED
  BY <1>1, <1>2, PTL DEF Spec

(***************************************************************************)
(* No job works ahead of the clock: neither the watermark nor the ends of  *)
(* a window are after it.                                                  *)
(***************************************************************************)
NothingAhead ==
  /\ watermark # NoTime => watermark <= now
  /\ \A w \in Worker : to[w] <= now /\ (pc[w] = "chunk" => from[w] <= now)

(***************************************************************************)
(* Every variable of the rollup keeps to its type, so no day is counted    *)
(* higher than its ticks, and no window, whatever job read the watermark   *)
(* and whenever, ends after the clock.                                     *)
(***************************************************************************)
THEOREM RollupTypeCorrect == Spec => [](TypeOK /\ NothingAhead)
<1>1. IInv => TypeOK /\ NothingAhead
  BY DEF IInv, WindowsCover, NothingAhead
<1> QED
  BY <1>1, RollupInvariant, PTL

(***************************************************************************)
(* For any number of workers, days of any length and any clock, repeated   *)
(* and overlapping windows never count a day too high.                     *)
(***************************************************************************)
THEOREM CountsNeverTooHigh == Spec => []NeverOvercounts
<1>1. IInv => NeverOvercounts
  BY DEF IInv
<1> QED
  BY <1>1, RollupInvariant, PTL

(***************************************************************************)
(* For any number of workers, the watermark passes no event that has not   *)
(* been counted by a window, but by an error, before a first window or by  *)
(* a late commit.                                                          *)
(***************************************************************************)
THEOREM NothingSkipped == Spec => []OnlyErrorsSkipEvents
<1>1. IInv => OnlyErrorsSkipEvents
  BY DEF IInv
<1> QED
  BY <1>1, RollupInvariant, PTL

-----------------------------------------------------------------------------
(***************************************************************************)
(* The dashboards.                                                         *)
(***************************************************************************)

(***************************************************************************)
(* The inductive invariants: what is written and computed is there, and    *)
(* while the lock is good, only who has it computes.                       *)
(***************************************************************************)
DashboardTypes ==
  /\ figures \in Nat /\ written \in Nat /\ written <= figures
  /\ task \in [DashboardWorker ->
       [at : {"idle", "compute", "upsert", "error", "release", "invalidate"}, seen : Nat,
        wrote : BOOLEAN, failed : BOOLEAN]]
  /\ \A w \in DashboardWorker : task[w].seen <= figures

Guarded ==
  ~unguarded =>
    /\ \A w \in DashboardWorker : Holds(w) => jobLock
    /\ \A w, v \in DashboardWorker : Holds(w) /\ Holds(v) => w = v
    /\ \A w \in DashboardWorker : TaskAt(w, "upsert") => task[w].seen >= written

(***************************************************************************)
(* No step leaves the types; no job writes figures that are not there yet. *)
(***************************************************************************)
LEMMA DashboardTypesKept ==
  ASSUME DashboardTypes, [DBNext]_dashboardVars
  PROVE  DashboardTypes'
<1> USE DEF DashboardTypes, NoTask, TaskAt
<1>1. CASE FiguresChange
  BY <1>1 DEF FiguresChange
<1>2. CASE JobLockExpires
  BY <1>2 DEF JobLockExpires
<1>3. CASE AnswerExpires
  BY <1>3 DEF AnswerExpires
<1>4. ASSUME NEW w \in DashboardWorker, BeginTask(w)
      PROVE  DashboardTypes'
  BY <1>4 DEF BeginTask
<1>5. ASSUME NEW w \in DashboardWorker, OtherJobEnds(w)
      PROVE  DashboardTypes'
  BY <1>5 DEF OtherJobEnds
<1>6. ASSUME NEW w \in DashboardWorker, ComputeFigures(w)
      PROVE  DashboardTypes'
  BY <1>6 DEF ComputeFigures
<1>7. ASSUME NEW w \in DashboardWorker, UpsertFigures(w)
      PROVE  DashboardTypes'
  <2>1. written' = task[w].seen /\ figures' = figures
    BY <1>7 DEF UpsertFigures
  <2>2. PICK label \in {"release", "compute"} :
          task' = [task EXCEPT ![w].at = label, ![w].seen = 0, ![w].wrote = TRUE]
    BY <1>7 DEF UpsertFigures
  <2> DEFINE Row == [at : {"idle", "compute", "upsert", "error", "release", "invalidate"},
                     seen : Nat, wrote : BOOLEAN, failed : BOOLEAN]
             new == [task[w] EXCEPT !.at = label, !.seen = 0, !.wrote = TRUE]
  <2>3. new \in Row /\ new.seen = 0
    <3>1. task[w] \in Row
      OBVIOUS
    <3> QED
      BY <3>1
  <2>4. task' = [task EXCEPT ![w] = new]
    BY <2>2
  <2> HIDE DEF new
  <2>5. task' \in [DashboardWorker -> Row]
    BY <2>3, <2>4
  <2>6. task'[w] = new /\ \A v \in DashboardWorker \ {w} : task'[v] = task[v]
    BY <2>4
  <2> QED
    BY <2>1, <2>3, <2>5, <2>6
<1>8. ASSUME NEW w \in DashboardWorker, TaskFails(w)
      PROVE  DashboardTypes'
  BY <1>8 DEF TaskFails
<1>9. ASSUME NEW w \in DashboardWorker, RecordTaskError(w)
      PROVE  DashboardTypes'
  BY <1>9 DEF RecordTaskError
<1>10. ASSUME NEW w \in DashboardWorker, ReleaseTask(w)
      PROVE  DashboardTypes'
  <2>1. figures' = figures /\ written' = written
    BY <1>10 DEF ReleaseTask
  <2>2. CASE task' = [task EXCEPT ![w] = NoTask]
    BY <2>1, <2>2
  <2>3. CASE task' = [task EXCEPT ![w].at = "invalidate"]
    BY <2>1, <2>3
  <2> QED
    BY <1>10, <2>2, <2>3 DEF ReleaseTask
<1>11. ASSUME NEW w \in DashboardWorker, InvalidateMetricsCache(w)
      PROVE  DashboardTypes'
  BY <1>11 DEF InvalidateMetricsCache, LeaveAnswers
<1>12. ASSUME NEW w \in DashboardWorker, TaskDies(w)
      PROVE  DashboardTypes'
  BY <1>12 DEF TaskDies, LeaveAnswers
<1>13. ASSUME NEW r \in AdminRequest, AskMetrics(r)
      PROVE  DashboardTypes'
  BY <1>13 DEF AskMetrics
<1>14. ASSUME NEW r \in AdminRequest, QueryLive(r)
      PROVE  DashboardTypes'
  BY <1>14 DEF QueryLive, LiveFigures
<1>15. ASSUME NEW r \in AdminRequest, QueryTable(r)
      PROVE  DashboardTypes'
  BY <1>15 DEF QueryTable, TableFigures
<1>16. ASSUME NEW r \in AdminRequest, AnswerMetrics(r)
      PROVE  DashboardTypes'
  BY <1>16 DEF AnswerMetrics
<1>17. ASSUME NEW r \in AdminRequest, RequestFails(r)
      PROVE  DashboardTypes'
  BY <1>17 DEF RequestFails
<1>18. CASE UNCHANGED dashboardVars
  BY <1>18 DEF dashboardVars
<1> QED
  BY <1>1, <1>2, <1>3, <1>4, <1>5, <1>6, <1>7, <1>8, <1>9, <1>10,
     <1>11, <1>12, <1>13, <1>14, <1>15, <1>16, <1>17, <1>18 DEF DBNext

(***************************************************************************)
(* Two jobs are apart as long as the lock is not lost, and what the one at *)
(* work has computed is not older than what is written.                    *)
(***************************************************************************)
LEMMA GuardKept ==
  ASSUME DashboardTypes, Guarded, [DBNext]_dashboardVars
  PROVE  Guarded'
<1> USE DEF DashboardTypes, Guarded, Holds, TaskAt, NoTask
<1>1. CASE FiguresChange
  BY <1>1 DEF FiguresChange
<1>2. CASE JobLockExpires
  BY <1>2 DEF JobLockExpires
<1>3. CASE AnswerExpires
  BY <1>3 DEF AnswerExpires
<1>4. ASSUME NEW w \in DashboardWorker, BeginTask(w)
      PROVE  Guarded'
  BY <1>4 DEF BeginTask
<1>5. ASSUME NEW w \in DashboardWorker, OtherJobEnds(w)
      PROVE  Guarded'
  BY <1>5 DEF OtherJobEnds
<1>6. ASSUME NEW w \in DashboardWorker, ComputeFigures(w)
      PROVE  Guarded'
  BY <1>6 DEF ComputeFigures
<1>7. ASSUME NEW w \in DashboardWorker, UpsertFigures(w)
      PROVE  Guarded'
  BY <1>7 DEF UpsertFigures
<1>8. ASSUME NEW w \in DashboardWorker, TaskFails(w)
      PROVE  Guarded'
  BY <1>8 DEF TaskFails
<1>9. ASSUME NEW w \in DashboardWorker, RecordTaskError(w)
      PROVE  Guarded'
  BY <1>9 DEF RecordTaskError
<1>10. ASSUME NEW w \in DashboardWorker, ReleaseTask(w)
      PROVE  Guarded'
  BY <1>10 DEF ReleaseTask
<1>11. ASSUME NEW w \in DashboardWorker, InvalidateMetricsCache(w)
      PROVE  Guarded'
  BY <1>11 DEF InvalidateMetricsCache
<1>12. ASSUME NEW w \in DashboardWorker, TaskDies(w)
      PROVE  Guarded'
  BY <1>12 DEF TaskDies
<1>13. ASSUME NEW r \in AdminRequest, AskMetrics(r)
      PROVE  Guarded'
  BY <1>13 DEF AskMetrics
<1>14. ASSUME NEW r \in AdminRequest, QueryLive(r)
      PROVE  Guarded'
  BY <1>14 DEF QueryLive
<1>15. ASSUME NEW r \in AdminRequest, QueryTable(r)
      PROVE  Guarded'
  BY <1>15 DEF QueryTable
<1>16. ASSUME NEW r \in AdminRequest, AnswerMetrics(r)
      PROVE  Guarded'
  BY <1>16 DEF AnswerMetrics
<1>17. ASSUME NEW r \in AdminRequest, RequestFails(r)
      PROVE  Guarded'
  BY <1>17 DEF RequestFails
<1>18. CASE UNCHANGED dashboardVars
  BY <1>18 DEF dashboardVars
<1> QED
  BY <1>1, <1>2, <1>3, <1>4, <1>5, <1>6, <1>7, <1>8, <1>9, <1>10,
     <1>11, <1>12, <1>13, <1>14, <1>15, <1>16, <1>17, <1>18 DEF DBNext

(***************************************************************************)
(* Whoever leaves an answer behind what is written says so.                *)
(***************************************************************************)
LEMMA AnswersKept ==
  ASSUME DashboardTypes, CacheFollowsJobs, [DBNext]_dashboardVars
  PROVE  CacheFollowsJobs'
<1> USE DEF DashboardTypes, CacheFollowsJobs, HasWritten, NoTask, NoAnswer
<1>0. ASSUME UNCHANGED <<endpoint, written, cached, overtaken>>,
             \A v \in DashboardWorker : task'[v].wrote = task[v].wrote
      PROVE  CacheFollowsJobs'
  BY <1>0
<1>1. CASE FiguresChange
  BY <1>1 DEF FiguresChange
<1>2. CASE JobLockExpires
  BY <1>2 DEF JobLockExpires
<1>3. CASE AnswerExpires
  BY <1>3 DEF AnswerExpires
<1>4. ASSUME NEW w \in DashboardWorker, BeginTask(w)
      PROVE  CacheFollowsJobs'
  <2>1. UNCHANGED <<endpoint, written, cached, overtaken>>
    BY <1>4 DEF BeginTask
  <2>2. \A v \in DashboardWorker : task'[v].wrote = task[v].wrote
    BY <1>4 DEF BeginTask
  <2> QED
    BY <1>0, <2>1, <2>2
<1>5. ASSUME NEW w \in DashboardWorker, OtherJobEnds(w)
      PROVE  CacheFollowsJobs'
  <2>1. UNCHANGED <<endpoint, written, cached, overtaken>>
    BY <1>5 DEF OtherJobEnds
  <2>2. \A v \in DashboardWorker : task'[v].wrote = task[v].wrote
    BY <1>5 DEF OtherJobEnds
  <2> QED
    BY <1>0, <2>1, <2>2
<1>6. ASSUME NEW w \in DashboardWorker, ComputeFigures(w)
      PROVE  CacheFollowsJobs'
  <2>1. UNCHANGED <<endpoint, written, cached, overtaken>>
    BY <1>6 DEF ComputeFigures
  <2>2. \A v \in DashboardWorker : task'[v].wrote = task[v].wrote
    BY <1>6 DEF ComputeFigures
  <2> QED
    BY <1>0, <2>1, <2>2
<1>7. ASSUME NEW w \in DashboardWorker, UpsertFigures(w)
      PROVE  CacheFollowsJobs'
  BY <1>7 DEF UpsertFigures
<1>8. ASSUME NEW w \in DashboardWorker, TaskFails(w)
      PROVE  CacheFollowsJobs'
  <2>1. UNCHANGED <<endpoint, written, cached, overtaken>>
    BY <1>8 DEF TaskFails
  <2>2. \A v \in DashboardWorker : task'[v].wrote = task[v].wrote
    BY <1>8 DEF TaskFails
  <2> QED
    BY <1>0, <2>1, <2>2
<1>9. ASSUME NEW w \in DashboardWorker, RecordTaskError(w)
      PROVE  CacheFollowsJobs'
  <2>1. UNCHANGED <<endpoint, written, cached, overtaken>>
    BY <1>9 DEF RecordTaskError
  <2>2. \A v \in DashboardWorker : task'[v].wrote = task[v].wrote
    BY <1>9 DEF RecordTaskError
  <2> QED
    BY <1>0, <2>1, <2>2
<1>10. ASSUME NEW w \in DashboardWorker, ReleaseTask(w)
      PROVE  CacheFollowsJobs'
  <2>1. written' = written /\ endpoint' = endpoint /\ cached' = cached
    BY <1>10 DEF ReleaseTask
  <2>2. CASE task[w].failed
    <3>1. overtaken' <=> overtaken \/ (task[w].wrote /\ cached.there)
      BY <1>10, <2>2 DEF ReleaseTask, LeaveAnswers
    <3>2. \A v \in DashboardWorker \ {w} : task'[v] = task[v]
      BY <1>10 DEF ReleaseTask
    <3> QED
      BY <2>1, <3>1, <3>2
  <2>3. CASE ~task[w].failed
    <3>1. overtaken' = overtaken /\ task' = [task EXCEPT ![w].at = "invalidate"]
      BY <1>10, <2>3 DEF ReleaseTask
    <3> QED
      BY <2>1, <3>1
  <2> QED
    BY <2>2, <2>3
<1>11. ASSUME NEW w \in DashboardWorker, InvalidateMetricsCache(w)
      PROVE  CacheFollowsJobs'
  <2>1. written' = written /\ endpoint' = endpoint
    BY <1>11 DEF InvalidateMetricsCache
  <2>2. \A v \in DashboardWorker \ {w} : task'[v] = task[v]
    BY <1>11 DEF InvalidateMetricsCache
  <2>3. CASE cached' = NoAnswer
    <3>1. ~cached'.there
      BY <2>3
    <3> QED
      BY <3>1
  <2>4. CASE LeaveAnswers(w) /\ cached' = cached
    <3>1. overtaken' <=> overtaken \/ (task[w].wrote /\ cached.there)
      BY <2>4 DEF LeaveAnswers
    <3> QED
      BY <2>1, <2>2, <2>4, <3>1
  <2> QED
    BY <1>11, <2>3, <2>4 DEF InvalidateMetricsCache
<1>12. ASSUME NEW w \in DashboardWorker, TaskDies(w)
      PROVE  CacheFollowsJobs'
  BY <1>12 DEF TaskDies, LeaveAnswers
<1>13. ASSUME NEW r \in AdminRequest, AskMetrics(r)
      PROVE  CacheFollowsJobs'
  BY <1>13 DEF AskMetrics
<1>14. ASSUME NEW r \in AdminRequest, QueryLive(r)
      PROVE  CacheFollowsJobs'
  BY <1>14 DEF QueryLive
<1>15. ASSUME NEW r \in AdminRequest, QueryTable(r)
      PROVE  CacheFollowsJobs'
  BY <1>15 DEF QueryTable
<1>16. ASSUME NEW r \in AdminRequest, AnswerMetrics(r)
      PROVE  CacheFollowsJobs'
  <2>1. written' = written /\ endpoint' = endpoint /\ task' = task
    BY <1>16 DEF AnswerMetrics
  <2>2. CASE UNCHANGED <<cached, overtaken>>
    BY <2>1, <2>2
  <2>3. CASE cached' = [there |-> TRUE, live |-> asked[r].live, table |-> asked[r].table]
             /\ overtaken' = ~HasWritten(asked[r])
    <3>1. ~overtaken' => HasWritten(asked[r])
      BY <2>3, Zenon
    <3>2. cached'.live = asked[r].live /\ cached'.table = asked[r].table
      BY <2>3
    <3> QED
      BY <2>1, <3>1, <3>2
  <2> QED
    BY <1>16, <2>2, <2>3 DEF AnswerMetrics
<1>17. ASSUME NEW r \in AdminRequest, RequestFails(r)
      PROVE  CacheFollowsJobs'
  BY <1>17 DEF RequestFails
<1>18. CASE UNCHANGED dashboardVars
  BY <1>18 DEF dashboardVars
<1> QED
  BY <1>1, <1>2, <1>3, <1>4, <1>5, <1>6, <1>7, <1>8, <1>9, <1>10,
     <1>11, <1>12, <1>13, <1>14, <1>15, <1>16, <1>17, <1>18 DEF DBNext

(***************************************************************************)
(* The dashboards show all that the jobs have written, except through a    *)
(* request that was overtaken and a job that could not drop the answers.   *)
(***************************************************************************)
THEOREM AnswersFollowJobs == DBSpec => []CacheFollowsJobs
<1>1. DBInit => DashboardTypes /\ CacheFollowsJobs
  BY DashboardAssumption DEF DBInit, DashboardTypes, CacheFollowsJobs, NoTask, NoAnswer
<1>2. DashboardTypes /\ CacheFollowsJobs /\ [DBNext]_dashboardVars
      => (DashboardTypes /\ CacheFollowsJobs)'
  BY DashboardTypesKept, AnswersKept
<1> QED
  BY <1>1, <1>2, PTL DEF DBSpec

(***************************************************************************)
(* No job sets the tables back, as long as the lock keeps two jobs apart.  *)
(***************************************************************************)
THEOREM JobsOnlyAdd == DBSpec => WrittenGrows
<1>1. DBInit => DashboardTypes /\ Guarded
  BY DashboardAssumption DEF DBInit, DashboardTypes, Guarded, Holds, TaskAt, NoTask
<1>2. DashboardTypes /\ Guarded /\ [DBNext]_dashboardVars => (DashboardTypes /\ Guarded)'
  BY DashboardTypesKept, GuardKept
<1>3. ASSUME DashboardTypes, Guarded, DBNext
      PROVE  written' >= written \/ unguarded
  <2>1. CASE \E w \in DashboardWorker : UpsertFigures(w)
    BY <1>3, <2>1 DEF UpsertFigures, Guarded
  <2>2. CASE ~\E w \in DashboardWorker : UpsertFigures(w)
    <3>1. written' = written
      BY <1>3, <2>2
         DEF DBNext, FiguresChange, JobLockExpires, AnswerExpires, BeginTask, OtherJobEnds,
             ComputeFigures, TaskFails, RecordTaskError, ReleaseTask, InvalidateMetricsCache,
             TaskDies, AskMetrics, QueryLive, QueryTable, AnswerMetrics, RequestFails
    <3> QED
      BY <1>3, <3>1 DEF DashboardTypes
  <2> QED
    BY <2>1, <2>2
<1>4. DashboardTypes /\ Guarded /\ [DBNext]_dashboardVars
      => [written' >= written \/ unguarded]_dashboardVars
  BY <1>3
<1> QED
  BY <1>1, <1>2, <1>4, PTL DEF DBSpec, WrittenGrows

(***************************************************************************)
(* What a job, a request and a stored answer may be.                       *)
(***************************************************************************)
Task == [at : {"idle", "compute", "upsert", "error", "release", "invalidate"}, seen : Figures,
         wrote : BOOLEAN, failed : BOOLEAN]
Request == [at : {"idle", "both", "live", "table", "store"}, live : Figures, table : Figures]
Answer == [there : BOOLEAN, live : Figures, table : Figures]

(***************************************************************************)
(* A job goes on.                                                          *)
(***************************************************************************)
LEMMA TaskChanges ==
  ASSUME DBTypeOK, NEW w \in DashboardWorker, NEW new \in Task, task' = [task EXCEPT ![w] = new]
  PROVE  task' \in [DashboardWorker -> Task]
BY DEF DBTypeOK, Task

(***************************************************************************)
(* A request goes on.                                                      *)
(***************************************************************************)
LEMMA RequestChanges ==
  ASSUME DBTypeOK, NEW r \in AdminRequest, NEW new \in Request, asked' = [asked EXCEPT ![r] = new]
  PROVE  asked' \in [AdminRequest -> Request]
BY DEF DBTypeOK, Request

(***************************************************************************)
(* Every step of the jobs and of the requests keeps the types and their    *)
(* bounds.                                                                 *)
(***************************************************************************)
LEMMA DBTypesKept ==
  ASSUME DBTypeOK, [DBNext]_dashboardVars
  PROVE  DBTypeOK'
<1>1. /\ endpoint \in Endpoint /\ figures \in Figures /\ written \in Figures
      /\ cached \in Answer /\ task \in [DashboardWorker -> Task]
      /\ asked \in [AdminRequest -> Request]
      /\ jobLock \in BOOLEAN /\ unguarded \in BOOLEAN /\ overtaken \in BOOLEAN
  BY DEF DBTypeOK, Answer, Task, Request
<1>2. NoTask \in Task /\ NoAnswer \in Answer /\ NotAsked \in Request /\ 0 \in Figures
  BY DashboardAssumption DEF NoTask, NoAnswer, NotAsked, Task, Answer, Request, Figures
<1>3. ASSUME endpoint' = endpoint, figures' \in Figures, written' \in Figures,
             cached' \in Answer, task' \in [DashboardWorker -> Task],
             asked' \in [AdminRequest -> Request],
             jobLock' \in BOOLEAN, unguarded' \in BOOLEAN, overtaken' \in BOOLEAN
      PROVE  DBTypeOK'
  BY <1>1, <1>3 DEF DBTypeOK, Answer, Task, Request
<1>4. ASSUME NEW w \in DashboardWorker,
             NEW at \in {"compute", "upsert", "error", "release", "invalidate"},
             NEW seen \in Figures
      PROVE  /\ [task[w] EXCEPT !.at = at] \in Task
             /\ [task[w] EXCEPT !.at = at, !.seen = seen] \in Task
             /\ [task[w] EXCEPT !.at = at, !.seen = seen, !.wrote = TRUE] \in Task
             /\ [task[w] EXCEPT !.at = at, !.failed = TRUE, !.seen = seen] \in Task
  BY <1>1, <1>4 DEF Task
<1>5. ASSUME NEW w \in DashboardWorker, LeaveAnswers(w) PROVE overtaken' \in BOOLEAN
  BY <1>5 DEF LeaveAnswers
<1>6. CASE FiguresChange
  BY <1>1, <1>3, <1>6, DashboardAssumption DEF FiguresChange, Figures
<1>7. CASE JobLockExpires
  BY <1>1, <1>3, <1>7 DEF JobLockExpires
<1>8. CASE AnswerExpires
  BY <1>1, <1>2, <1>3, <1>8 DEF AnswerExpires
<1>9. ASSUME NEW w \in DashboardWorker, BeginTask(w) PROVE DBTypeOK'
  <2>1. \E at \in {"compute", "invalidate"} :
          task' = [task EXCEPT ![w] = [task[w] EXCEPT !.at = at]]
    BY <1>9 DEF BeginTask
  <2>2. task' \in [DashboardWorker -> Task]
    BY <1>2, <1>4, <2>1, TaskChanges
  <2> QED
    BY <1>1, <1>3, <1>9, <2>2 DEF BeginTask
<1>10. ASSUME NEW w \in DashboardWorker, OtherJobEnds(w) \/ RecordTaskError(w) \/ TaskFails(w)
       PROVE DBTypeOK'
  <2>1. \/ \E at \in {"invalidate", "release"} :
             task' = [task EXCEPT ![w] = [task[w] EXCEPT !.at = at]]
        \/ task' = [task EXCEPT ![w] = [task[w] EXCEPT !.at = "error", !.failed = TRUE,
                                                       !.seen = 0]]
    BY <1>10 DEF OtherJobEnds, RecordTaskError, TaskFails
  <2>2. task' \in [DashboardWorker -> Task]
    BY <1>2, <1>4, <2>1, TaskChanges
  <2> QED
    BY <1>1, <1>3, <1>10, <2>2 DEF OtherJobEnds, RecordTaskError, TaskFails
<1>11. ASSUME NEW w \in DashboardWorker, ComputeFigures(w) PROVE DBTypeOK'
  <2>1. written < figures => written + 1 \in Figures
    BY <1>1, DashboardAssumption DEF Figures
  <2>2. \/ \E n \in Figures :
             task' = [task EXCEPT ![w] = [task[w] EXCEPT !.at = "upsert", !.seen = n]]
        \/ task' = [task EXCEPT ![w] = [task[w] EXCEPT !.at = "release"]]
    BY <1>1, <1>11, <2>1 DEF ComputeFigures
  <2>3. task' \in [DashboardWorker -> Task]
    BY <1>2, <1>4, <2>2, TaskChanges
  <2> QED
    BY <1>1, <1>3, <1>11, <2>3 DEF ComputeFigures
<1>12. ASSUME NEW w \in DashboardWorker, UpsertFigures(w) PROVE DBTypeOK'
  <2>1. task' \in [DashboardWorker -> Task]
    <3>1. \E at \in {"release", "compute"} :
            task' = [task EXCEPT ![w] = [task[w] EXCEPT !.at = at, !.seen = 0, !.wrote = TRUE]]
      BY <1>12 DEF UpsertFigures
    <3> QED
      BY <1>2, <1>4, <3>1, TaskChanges
  <2>2. task[w].seen \in Figures
    BY <1>1, <1>12 DEF Task
  <2> QED
    BY <1>1, <1>3, <1>12, <2>1, <2>2 DEF UpsertFigures
<1>13. ASSUME NEW w \in DashboardWorker, ReleaseTask(w) PROVE DBTypeOK'
  <2>1. task' \in [DashboardWorker -> Task]
    BY <1>2, <1>4, <1>13, TaskChanges DEF ReleaseTask
  <2> QED
    BY <1>1, <1>3, <1>5, <1>13, <2>1 DEF ReleaseTask
<1>14. ASSUME NEW w \in DashboardWorker, InvalidateMetricsCache(w) \/ TaskDies(w) PROVE DBTypeOK'
  <2>1. task' \in [DashboardWorker -> Task]
    BY <1>2, <1>14, TaskChanges DEF InvalidateMetricsCache, TaskDies
  <2> QED
    BY <1>1, <1>2, <1>3, <1>5, <1>14, <2>1 DEF InvalidateMetricsCache, TaskDies
<1>15. ASSUME NEW r \in AdminRequest, AskMetrics(r) PROVE DBTypeOK'
  <2>1. [asked[r] EXCEPT !.at = "both"] \in Request
    BY <1>1, <1>15 DEF Request
  <2> QED
    BY <1>1, <1>3, <1>15, <2>1, RequestChanges DEF AskMetrics
<1>16. ASSUME NEW r \in AdminRequest, QueryLive(r) \/ QueryTable(r) PROVE DBTypeOK'
  <2>1. LiveFigures \in Figures /\ TableFigures \in Figures
    BY <1>1 DEF LiveFigures, TableFigures
  <2>2. ASSUME NEW n \in Figures, NEW at \in {"live", "table", "store"}
        PROVE  /\ [asked[r] EXCEPT !.live = n, !.at = at] \in Request
               /\ [asked[r] EXCEPT !.table = n, !.at = at] \in Request
    BY <1>1, <1>16, <2>2 DEF Request
  <2>3. CASE QueryLive(r)
    <3> DEFINE at == IF asked[r].at = "both" THEN "table" ELSE "store"
    <3>1. asked' = [asked EXCEPT ![r] = [asked[r] EXCEPT !.live = LiveFigures, !.at = at]]
      BY <2>3 DEF QueryLive
    <3>2. [asked[r] EXCEPT !.live = LiveFigures, !.at = at] \in Request
      BY <2>1, <2>2
    <3>3. asked' \in [AdminRequest -> Request]
      BY <3>1, <3>2, RequestChanges
    <3> QED
      BY <1>1, <1>3, <2>3, <3>3 DEF QueryLive
  <2>4. CASE QueryTable(r)
    <3> DEFINE at == IF asked[r].at = "both" THEN "live" ELSE "store"
    <3>1. asked' = [asked EXCEPT ![r] = [asked[r] EXCEPT !.table = TableFigures, !.at = at]]
      BY <2>4 DEF QueryTable
    <3>2. [asked[r] EXCEPT !.table = TableFigures, !.at = at] \in Request
      BY <2>1, <2>2
    <3>3. asked' \in [AdminRequest -> Request]
      BY <3>1, <3>2, RequestChanges
    <3> QED
      BY <1>1, <1>3, <2>4, <3>3 DEF QueryTable
  <2> QED
    BY <1>16, <2>3, <2>4
<1>17. ASSUME NEW r \in AdminRequest, AnswerMetrics(r) PROVE DBTypeOK'
  <2>1. asked' \in [AdminRequest -> Request]
    BY <1>2, <1>17, RequestChanges DEF AnswerMetrics
  <2>2. [there |-> TRUE, live |-> asked[r].live, table |-> asked[r].table] \in Answer
    BY <1>1, <1>17 DEF Request, Answer
  <2>3. overtaken' \in BOOLEAN
    BY <1>1, <1>17 DEF AnswerMetrics
  <2> QED
    BY <1>1, <1>3, <1>17, <2>1, <2>2, <2>3 DEF AnswerMetrics
<1>18. ASSUME NEW r \in AdminRequest, RequestFails(r) PROVE DBTypeOK'
  BY <1>1, <1>2, <1>3, <1>18, RequestChanges DEF RequestFails
<1>19. CASE UNCHANGED dashboardVars
  BY <1>1, <1>3, <1>19 DEF dashboardVars
<1> QED
  BY <1>6, <1>7, <1>8, <1>9, <1>10, <1>11, <1>12, <1>13, <1>14, <1>15, <1>16, <1>17, <1>18, <1>19
     DEF DBNext

\* Nobody is at work, nothing is stored or asked for.
LEMMA DashboardTypesBegin == DBInit => DBTypeOK
<1>1. NoTask \in Task /\ NoAnswer \in Answer /\ NotAsked \in Request /\ 0 \in Figures
  BY DashboardAssumption DEF NoTask, NoAnswer, NotAsked, Task, Answer, Request, Figures
<1> QED
  BY <1>1 DEF DBInit, DBTypeOK, Task, Answer, Request

(***************************************************************************)
(* The dashboards: what is computed, written, stored and answered stays in *)
(* its types, and no figure is above the bound of the figures.             *)
(***************************************************************************)
THEOREM DashboardTypesHold == DBSpec => []DBTypeOK
  BY DashboardTypesBegin, DBTypesKept, PTL DEF DBSpec

-----------------------------------------------------------------------------
(***************************************************************************)
(* The windows of the dashboards.                                          *)
(***************************************************************************)

(***************************************************************************)
(* A week begins on the Monday that is today or in the six days before.    *)
(***************************************************************************)
LEMMA WeekBegins ==
  ASSUME NEW date \in Int
  PROVE  /\ startOfWeekUTC(date) \in Int
         /\ startOfWeekUTC(date) \in (date - 6)..date
         /\ getUTCDay(startOfWeekUTC(date)) = 1
  BY DEF startOfWeekUTC, getUTCDay

(***************************************************************************)
(* resolveMetricsRange: whatever range is asked for and whatever day it    *)
(* is, each date from the first of the window before to yesterday is       *)
(* counted in one of the two windows and in no two.                        *)
(***************************************************************************)
THEOREM WindowsAdjoin ==
  ASSUME NEW range \in MetricsRange, NEW today \in Nat, NEW date \in Int
  PROVE  LET window == resolveMetricsRange(range, today)
         IN  /\ window.prevStart <= date /\ date < today
                => Current(window, date) \/ Previous(window, date)
             /\ ~(Current(window, date) /\ Previous(window, date))
  BY WeekBegins DEF MetricsRange, resolveMetricsRange, Between, Current, Previous

(***************************************************************************)
(* LAST_THIRTY_DAYS: today is in no window, so that 29 dates are compared  *)
(* with the 30 before them.                                                *)
(***************************************************************************)
THEOREM ThirtyDaysAreTwentyNine ==
  ASSUME NEW today \in Nat, NEW date \in Int
  PROVE  LET window == resolveMetricsRange("last_thirty_days", today)
         IN  /\ Current(window, date) <=> date \in (today - 29)..(today - 1)
             /\ Previous(window, date) <=> date \in (today - 59)..(today - 30)
  BY DEF resolveMetricsRange, Between, Current, Previous

-----------------------------------------------------------------------------
(***************************************************************************)
(* The health of the jobs.                                                 *)
(***************************************************************************)

(***************************************************************************)
(* Why the backfill flag is set: a backfill is at work, or the flag was    *)
(* left behind by one that died or could not clear it. Only a backfill     *)
(* raises it.                                                              *)
(***************************************************************************)
FlagExplained ==
  /\ inProgress => orphaned \/ BackfillAtWork
  /\ \A w \in HealthWorker : running[w].at = "flag" => running[w].job = "backfill"

(***************************************************************************)
(* What a worker of the queue may be doing.                                *)
(***************************************************************************)
Job == [job : MetricsJob \cup {"none"}, failed : BOOLEAN,
        at : {"idle", "flag", "work", "error", "clear", "release", "invalidate"}]

(***************************************************************************)
(* The inductive invariant: a flag that nobody clears is known as          *)
(* orphaned.                                                               *)
(***************************************************************************)
HealthInv == MHTypeOK /\ FlagExplained

(***************************************************************************)
(* One worker goes on, and the others stay where they are.                 *)
(***************************************************************************)
LEMMA JobChanges ==
  ASSUME MHTypeOK, NEW w \in HealthWorker, NEW next \in Job, running' = [running EXCEPT ![w] = next]
  PROVE  /\ running' \in [HealthWorker -> Job] /\ running'[w] = next
         /\ \A v \in HealthWorker : v # w => running'[v] = running[v]
BY DEF MHTypeOK, Job

(***************************************************************************)
(* A job keeps its name when it takes a step.                              *)
(***************************************************************************)
LEMMA JobTakesStep ==
  ASSUME MHTypeOK, NEW w \in HealthWorker,
         NEW label \in {"idle", "flag", "work", "error", "clear", "release", "invalidate"},
         JobGoes(w, label)
  PROVE  /\ running' \in [HealthWorker -> Job]
         /\ running'[w].job = running[w].job /\ running'[w].at = label
         /\ \A v \in HealthWorker : v # w => running'[v] = running[v]
<1>1. running[w] \in Job
  BY DEF MHTypeOK, Job
<1>2. [running[w] EXCEPT !.at = label] \in Job
  BY <1>1 DEF Job
<1>3. running' = [running EXCEPT ![w] = [running[w] EXCEPT !.at = label]]
  BY DEF JobGoes
<1>4. [running[w] EXCEPT !.at = label].job = running[w].job
      /\ [running[w] EXCEPT !.at = label].at = label
  BY <1>1 DEF Job
<1> QED
  BY <1>2, <1>3, <1>4, JobChanges

(***************************************************************************)
(* The finally block: a backfill clears its flag, any other job only       *)
(* releases.                                                               *)
(***************************************************************************)
LEMMA JobFinishes ==
  ASSUME MHTypeOK, NEW w \in HealthWorker, Finally(w)
  PROVE  /\ running' \in [HealthWorker -> Job]
         /\ running'[w].job = running[w].job
         /\ running'[w].at = IF running[w].job = "backfill" THEN "clear" ELSE "release"
         /\ \A v \in HealthWorker : v # w => running'[v] = running[v]
BY JobTakesStep DEF Finally

\* What a step of a next does to the jobs.
(***************************************************************************)
(* What a step of a worker does to the jobs.                               *)
(***************************************************************************)
Works(w) ==
  /\ running' \in [HealthWorker -> Job]
  /\ \A v \in HealthWorker : v # w => running'[v] = running[v]

(***************************************************************************)
(* Each step of the jobs and of the calls keeps the types, and whoever     *)
(* takes the flag up or puts it down, what is known of the flag.           *)
(***************************************************************************)
LEMMA HealthKept ==
  ASSUME HealthInv, [MHNext]_healthVars
  PROVE  HealthInv'
<1> DEFINE AtWork(v) == running[v].job = "backfill" /\ running[v].at \in {"work", "error", "clear"}
           Keys == <<lag, lastFailed, rollupLock, inProgress, lastCapped, orphaned>>
           KeysType == /\ lag \in Lag /\ lastFailed \subseteq {"daily", "snapshot"}
                       /\ rollupLock \in BOOLEAN /\ inProgress \in BOOLEAN
                       /\ lastCapped \in BOOLEAN /\ orphaned \in BOOLEAN
<1>1. MHTypeOK /\ FlagExplained /\ KeysType
  BY DEF HealthInv, MHTypeOK
<1>2. \A w \in HealthWorker : running[w] \in Job
  BY <1>1 DEF MHTypeOK, Job
<1>3. ASSUME NEW w \in HealthWorker, Works(w), call' = call, KeysType',
             running'[w].at = "flag" => running'[w].job = "backfill",
             inProgress' => \/ orphaned' \/ AtWork(w)'
                            \/ inProgress /\ ~orphaned /\ ~AtWork(w)
      PROVE  HealthInv'
  <2>1. MHTypeOK'
    BY <1>1, <1>3 DEF MHTypeOK, Works, Job
  <2>2. ASSUME NEW v \in HealthWorker, running'[v].at = "flag" PROVE running'[v].job = "backfill"
    BY <1>1, <1>3, <2>2 DEF FlagExplained, Works
  <2>3. ASSUME inProgress' PROVE orphaned' \/ \E v \in HealthWorker : AtWork(v)'
    BY <1>1, <1>3, <2>3 DEF FlagExplained, BackfillAtWork, Works
  <2> QED
    BY <2>1, <2>2, <2>3 DEF HealthInv, FlagExplained, BackfillAtWork
<1>4. ASSUME NEW r \in HealthCall, UNCHANGED <<Keys, running>>,
             NEW new \in [at : {"idle", "keys", "told"}, late : BOOLEAN, failed : BOOLEAN,
                          status : HealthStatus],
             call' = [call EXCEPT ![r] = new]
      PROVE  HealthInv'
  <2>1. MHTypeOK'
    BY <1>1, <1>4 DEF MHTypeOK
  <2> QED
    BY <1>1, <1>4, <2>1 DEF HealthInv, FlagExplained, BackfillAtWork
<1>5. ASSUME NEW w \in HealthWorker, NEW label \in {"work", "release"}, JobGoes(w, label)
      PROVE  Works(w) /\ running'[w].job = running[w].job /\ running'[w].at = label
  BY <1>1, <1>5, JobTakesStep DEF Works
<1>6. ASSUME NEW w \in HealthWorker, Finally(w)
      PROVE  /\ Works(w) /\ running'[w].job = running[w].job
             /\ running'[w].at = IF running[w].job = "backfill" THEN "clear" ELSE "release"
  BY <1>1, <1>6, JobFinishes DEF Works
<1>7. ASSUME NEW w \in HealthWorker, NEW next \in Job, running' = [running EXCEPT ![w] = next]
      PROVE  Works(w) /\ running'[w] = next
  BY <1>1, <1>7, JobChanges DEF Works
<1>8. NoJob \in Job /\ NoJob.at = "idle"
  BY DEF NoJob, Job
<1>9. CASE HoursPass \/ RollupLockExpires
  <2>1. /\ KeysType' /\ UNCHANGED <<inProgress, orphaned, running, call>>
    BY <1>1, <1>9 DEF HoursPass, RollupLockExpires, healthKeys, Lag
  <2> QED
    BY <1>1, <2>1 DEF HealthInv, MHTypeOK, FlagExplained, BackfillAtWork
<1>10. ASSUME NEW w \in HealthWorker, NEW next \in MetricsJob, AcquireLock(w, next) PROVE HealthInv'
  <2>1. /\ running[w].at = "idle" /\ KeysType' /\ UNCHANGED <<inProgress, orphaned, call>>
    BY <1>1, <1>10 DEF AcquireLock, JobAt
  <2>2. PICK at \in {FirstStep(next), "invalidate"} :
          running' = [running EXCEPT ![w] = [NoJob EXCEPT !.job = next, !.at = at]]
    BY <1>10 DEF AcquireLock
  <2> DEFINE new == [NoJob EXCEPT !.job = next, !.at = at]
  <2>3. new \in Job /\ new.job = next /\ new.at = at
    BY DEF NoJob, Job, FirstStep
  <2>4. Works(w) /\ running'[w] = new
    BY <1>7, <2>2, <2>3
  <2>5. running'[w].at = "flag" => running'[w].job = "backfill"
    BY <2>3, <2>4 DEF FirstStep
  <2> QED
    BY <1>3, <2>1, <2>4, <2>5
<1>11. ASSUME NEW w \in HealthWorker, RaiseFlag(w) PROVE HealthInv'
  <2>1. /\ running[w].at = "flag" /\ KeysType' /\ UNCHANGED <<orphaned, call>>
        /\ JobGoes(w, "work")
    BY <1>1, <1>11 DEF RaiseFlag, JobAt
  <2>2. Works(w) /\ AtWork(w)' /\ running'[w].at # "flag"
    BY <1>1, <1>5, <2>1 DEF FlagExplained
  <2> QED
    BY <1>3, <2>1, <2>2
<1>12. ASSUME NEW w \in HealthWorker,
              CapJob(w) \/ RollupChunk(w) \/ NothingToRollup(w) \/ SnapshotSucceeds(w)
              \/ JobFails(w) \/ RecordJobError(w)
       PROVE  HealthInv'
  <2>1. KeysType' /\ UNCHANGED <<inProgress, orphaned, call>>
    BY <1>1, <1>12 DEF CapJob, RollupChunk, NothingToRollup, SnapshotSucceeds, JobFails,
         RecordJobError, healthKeys, Lag
  <2>2. running[w].at \in {"work", "error"}
    BY <1>12 DEF CapJob, RollupChunk, NothingToRollup, SnapshotSucceeds, JobFails,
         RecordJobError, JobAt
  <2>3. CASE running' = running
    BY <1>1, <2>1, <2>3 DEF HealthInv, MHTypeOK, FlagExplained, BackfillAtWork
  <2>4. CASE Finally(w)
    BY <1>1, <1>3, <1>6, <2>1, <2>2, <2>4
  <2>5. CASE JobFails(w)
    <3> DEFINE new == [running[w] EXCEPT !.at = "error", !.failed = TRUE]
    <3>1. new \in Job /\ new.job = running[w].job /\ new.at = "error"
      BY <1>2 DEF Job
    <3>2. running' = [running EXCEPT ![w] = new]
      BY <2>5 DEF JobFails
    <3>3. Works(w) /\ running'[w] = new
      BY <1>7, <3>1, <3>2
    <3> HIDE DEF new
    <3> QED
      BY <1>3, <2>1, <2>2, <3>1, <3>3
  <2> QED
    BY <1>12, <2>3, <2>4, <2>5 DEF CapJob, RollupChunk, NothingToRollup, SnapshotSucceeds,
         RecordJobError
<1>13. ASSUME NEW w \in HealthWorker, ClearFlag(w) PROVE HealthInv'
  <2>1. /\ running[w].at = "clear" /\ call' = call /\ JobGoes(w, "release")
        /\ UNCHANGED <<lag, lastFailed, rollupLock, lastCapped>>
        /\ \/ inProgress' = FALSE /\ orphaned' = FALSE
           \/ inProgress' = inProgress /\ orphaned' = (orphaned \/ inProgress)
    BY <1>13 DEF ClearFlag, JobAt
  <2>2. inProgress' \in BOOLEAN /\ orphaned' \in BOOLEAN /\ (inProgress' => orphaned')
    <3>1. CASE inProgress' = FALSE /\ orphaned' = FALSE
      BY <3>1
    <3>2. CASE inProgress' = inProgress /\ orphaned' = (orphaned \/ inProgress)
      <4>1. inProgress' => orphaned'
        BY <3>2, Zenon
      <4> QED
        BY <1>1, <3>2, <4>1
    <3> QED
      BY <2>1, <3>1, <3>2
  <2>3. KeysType'
    BY <1>1, <2>1, <2>2
  <2>4. Works(w) /\ running'[w].at # "flag"
    BY <1>5, <2>1
  <2> QED
    BY <1>3, <2>1, <2>2, <2>3, <2>4
<1>14. ASSUME NEW w \in HealthWorker, ReleaseJob(w) PROVE HealthInv'
  <2>1. /\ running[w].at = "release" /\ KeysType' /\ UNCHANGED <<inProgress, orphaned, call>>
    BY <1>1, <1>14 DEF ReleaseJob, JobAt
  <2>2. [running[w] EXCEPT !.at = "invalidate"] \in Job
        /\ [running[w] EXCEPT !.at = "invalidate"].at = "invalidate"
    BY <1>2 DEF Job
  <2>3. \/ running' = [running EXCEPT ![w] = NoJob]
        \/ running' = [running EXCEPT ![w] = [running[w] EXCEPT !.at = "invalidate"]]
    BY <1>14 DEF ReleaseJob
  <2>4. Works(w) /\ running'[w].at # "flag"
    BY <1>7, <1>8, <2>2, <2>3
  <2> QED
    BY <1>3, <2>1, <2>4
<1>15. ASSUME NEW w \in HealthWorker, InvalidateWithKeys(w) PROVE HealthInv'
  <2>1. /\ running[w].at = "invalidate" /\ UNCHANGED <<lag, lastFailed, rollupLock, call>>
        /\ running' = [running EXCEPT ![w] = NoJob]
    BY <1>15 DEF InvalidateWithKeys, JobAt
  <2>2. PICK gone \in BOOLEAN, cappedToo \in BOOLEAN :
          /\ inProgress' = (inProgress /\ ~gone) /\ orphaned' = (orphaned /\ ~gone)
          /\ lastCapped' = (lastCapped /\ ~cappedToo)
    BY <1>15 DEF InvalidateWithKeys
  <2>3. KeysType' /\ (inProgress' => inProgress /\ (orphaned => orphaned'))
    BY <1>1, <2>1, <2>2
  <2>4. Works(w) /\ running'[w].at # "flag"
    BY <1>7, <1>8, <2>1
  <2> QED
    BY <1>3, <2>1, <2>3, <2>4
<1>16. ASSUME NEW w \in HealthWorker, JobDies(w) PROVE HealthInv'
  <2>1. /\ UNCHANGED <<lag, lastFailed, rollupLock, inProgress, lastCapped, call>>
        /\ running' = [running EXCEPT ![w] = NoJob]
        /\ orphaned' = (orphaned \/ (running[w].job = "backfill" /\ inProgress))
    BY <1>16 DEF JobDies
  <2>2. KeysType' /\ (AtWork(w) /\ inProgress => orphaned') /\ (orphaned => orphaned')
    BY <1>1, <2>1
  <2>3. Works(w) /\ running'[w].at # "flag"
    BY <1>7, <1>8, <2>1
  <2> QED
    BY <1>3, <2>1, <2>2, <2>3
<1>17. ASSUME NEW r \in HealthCall, AskHealth(r) \/ AnswerHealth(r) \/ LeaveCall(r) PROVE HealthInv'
  <2> DEFINE Call == [at : {"idle", "keys", "told"}, late : BOOLEAN, failed : BOOLEAN,
                      status : HealthStatus]
  <2>1. UNCHANGED <<Keys, running>>
    BY <1>17 DEF AskHealth, AnswerHealth, LeaveCall, healthKeys
  <2>2. NoCall \in Call /\ call[r] \in Call
    BY <1>1 DEF NoCall, HealthStatus, MHTypeOK
  <2>3. CASE AskHealth(r)
    <3>1. [NoCall EXCEPT !.at = "keys", !.late = (lag = "late"), !.failed = (lastFailed # {})] \in Call
      BY <2>2
    <3> QED
      BY <1>4, <2>1, <2>3, <3>1 DEF AskHealth
  <2>4. CASE AnswerHealth(r)
    <3>1. PICK reachable \in BOOLEAN, found \in BOOLEAN :
            call' = [call EXCEPT ![r].at = "told",
                       ![r].status = DeriveStatus(call[r], found /\ inProgress, reachable)]
      BY <2>4 DEF AnswerHealth
    <3> DEFINE status == DeriveStatus(call[r], found /\ inProgress, reachable)
    <3>2. status \in HealthStatus
      BY DEF DeriveStatus, HealthStatus
    <3> HIDE DEF status
    <3>3. [call[r] EXCEPT !.at = "told", !.status = status] \in Call
      BY <2>2, <3>2
    <3>4. call' = [call EXCEPT ![r] = [call[r] EXCEPT !.at = "told", !.status = status]]
      BY <3>1 DEF status
    <3> QED
      BY <1>4, <2>1, <3>3, <3>4
  <2>5. CASE LeaveCall(r)
    BY <1>4, <2>1, <2>2, <2>5 DEF LeaveCall
  <2> QED
    BY <1>17, <2>3, <2>4, <2>5
<1>18. CASE UNCHANGED healthVars
  BY <1>1, <1>18 DEF healthVars, healthKeys, HealthInv, MHTypeOK, FlagExplained, BackfillAtWork
<1> QED
  BY <1>9, <1>10, <1>11, <1>12, <1>13, <1>14, <1>15, <1>16, <1>17, <1>18
     DEF MHNext, ScheduledJob, TriggerBackfill, OnApplicationBootstrap, MetricsJob

\* Nothing is late, no job is at work and no flag is set.
LEMMA HealthBegins == MHInit => HealthInv
<1> SUFFICES ASSUME MHInit PROVE HealthInv
  OBVIOUS
<1>1. NoJob \in Job /\ NoJob.at = "idle"
  BY DEF NoJob, Job
<1>2. NoCall \in [at : {"idle", "keys", "told"}, late : BOOLEAN, failed : BOOLEAN,
                  status : HealthStatus]
  BY DEF NoCall, HealthStatus
<1>3. MHTypeOK
  BY <1>1, <1>2 DEF MHInit, MHTypeOK, Lag, Job
<1>4. FlagExplained
  BY <1>1 DEF MHInit, FlagExplained
<1> QED
  BY <1>3, <1>4 DEF HealthInv

(***************************************************************************)
(* The invariant holds in every state of the health model.                 *)
(***************************************************************************)
LEMMA HealthInvariant == MHSpec => []HealthInv
  BY HealthBegins, HealthKept, PTL DEF MHSpec

(***************************************************************************)
(* The keys, the jobs and the calls of getHealth have their types.         *)
(***************************************************************************)
THEOREM HealthTypeCorrect == MHSpec => []MHTypeOK
<1>1. HealthInv => MHTypeOK
  BY DEF HealthInv
<1> QED
  BY <1>1, HealthInvariant, PTL

(***************************************************************************)
(* getHealth: a call that saw the rollup late, with no backfill at work    *)
(* and no flag left behind, answers unhealthy whatever the jobs do while   *)
(* it reads its keys.                                                      *)
(***************************************************************************)
THEOREM LagGetsNoticed == MHSpec => LagIsNoticed
<1> DEFINE Told(r) ==
      call[r].at = "keys" /\ call'[r].at = "told" /\ call[r].late /\ ~BackfillAtWork /\ ~orphaned
      => call'[r].status = "unhealthy"
<1>1. ASSUME HealthInv, MHNext, NEW r \in HealthCall PROVE Told(r)
  <2> SUFFICES ASSUME call[r].at = "keys", call'[r].at = "told", call[r].late,
                      ~BackfillAtWork, ~orphaned
               PROVE  call'[r].status = "unhealthy"
    OBVIOUS
  <2>1. ~inProgress
    BY <1>1 DEF HealthInv, FlagExplained
  <2>2. call \in [HealthCall -> [at : {"idle", "keys", "told"}, late : BOOLEAN,
                                 failed : BOOLEAN, status : HealthStatus]]
    BY <1>1 DEF HealthInv, MHTypeOK
  <2>3. AnswerHealth(r)
    <3>1. ASSUME NEW other \in HealthCall, AskHealth(other) \/ LeaveCall(other) PROVE FALSE
      BY <2>2, <3>1 DEF AskHealth, LeaveCall, NoCall
    <3>2. ASSUME NEW other \in HealthCall, AnswerHealth(other), other # r PROVE FALSE
      BY <2>2, <3>2 DEF AnswerHealth
    <3>3. call' # call
      OBVIOUS
    <3> QED
      BY <1>1, <3>1, <3>2, <3>3
         DEF MHNext, HoursPass, RollupLockExpires, ScheduledJob, TriggerBackfill,
             OnApplicationBootstrap, AcquireLock, RaiseFlag, CapJob, RollupChunk, NothingToRollup,
             SnapshotSucceeds, JobFails, RecordJobError, ClearFlag, ReleaseJob, InvalidateWithKeys,
             JobDies
  <2> QED
    BY <2>1, <2>2, <2>3 DEF AnswerHealth, DeriveStatus
<1>2. HealthInv /\ [MHNext]_healthVars => [\A r \in HealthCall : Told(r)]_healthVars
  BY <1>1
<1> QED
  BY <1>2, HealthInvariant, PTL DEF MHSpec, LagIsNoticed

-----------------------------------------------------------------------------
(***************************************************************************)
(* The three together, as the run has them.                                *)
(***************************************************************************)

(***************************************************************************)
(* The rollup, the health check and the dashboards, one at a time, all     *)
(* keep to their types: a step of one is no step of the others.            *)
(***************************************************************************)
THEOREM MetricsTypesHold == MCSpec => []TypesOK
<1> DEFINE Typed == TypeOK /\ HealthInv /\ DBTypeOK
<1>1. MCInit => Typed
  BY RollupTypesBegin, HealthBegins, DashboardTypesBegin DEF MCInit
<1>2. ASSUME Typed, [MCNext]_<<part, vars, healthVars, dashboardVars>>
      PROVE  Typed'
  <2>1. [Next]_vars /\ [MHNext]_healthVars /\ [DBNext]_dashboardVars
    BY <1>2 DEF MCNext
  <2> QED
    BY <1>2, <2>1, RollupTypesKept, HealthKept, DBTypesKept
<1>3. Typed => TypesOK
  BY DEF TypesOK, HealthInv
<1> QED
  BY <1>1, <1>2, <1>3, PTL DEF MCSpec
=============================================================================
