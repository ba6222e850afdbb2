# Open Profile backend: TLA+ specifications

Specifications of the parts of the Open Profile backend (NestJS, PostgreSQL through TypeORM,
Redis, BullMQ) whose correctness depends on concurrency, failure or time. Paths below are
relative to the repository root.

The application runs in any number of Node processes over one database and one Redis. Inside a
process the event loop switches between requests at every `await`; between processes nothing
is ordered but the statements of the database and the commands of Redis. Hence the grain of
every model here: **one action per awaited database statement, transaction or Redis command**,
together with the synchronous code up to the next `await`.

## 1. The system

| component | state it keeps | operations | what is hard about it | what makes it correct |
|---|---|---|---|---|
| Refresh-token rotation (`src/modules/auth/services/token.service.ts`, `redis-lock.service.ts`) | rows of `refresh_tokens`; Redis keys `lock:refresh:*` (5 s) and `refresh:grace:*` (10 s) | issue, rotate, invalidate one, invalidate all | two tabs refresh at once; a lock that expires, fails open, or is freed by another holder; delete and insert are two statements; crashes between them | one row per session, no replay, same answer to all racers, nobody logged out by a race |
| Account status (`src/modules/admin/services/account-status.service.ts`) | `users.status`, `user_status_history` | block, suspend, deactivate, reactivate, flag | check-then-act outside the transaction; Redis DEL after commit may fail | transitions obey the table and are audited; changes take hold in bounded time |
| User status cache (`src/modules/auth/services/user-status.service.ts`) | key `user:status:<id>` (60 s) | `isActive` at every guarded request | fill with a stale value after an invalidation | bounded staleness |
| Daily metrics rollup (`src/modules/admin/services/metrics-rollup.service.ts`, `actions/`, `processors/`) | `daily_metrics`, the watermark in `rollup_progress`, lock `metrics:rollup:daily:lock` (15 min) | scheduled rollup, catch-up backfill | at-least-once jobs, overlapping jobs, crash between upsert and watermark, error path that moves the watermark | each event counted once in its day |
| JWT guard, cookies (`src/modules/auth/guards/jwt-auth.guard.ts`) | cookies of the browser | admit, silent refresh | combines rotation and status in an order that matters | the browser stays signed in; only an active account is served |
| Login and one-time codes (`src/modules/auth/auth.service.ts`, `src/modules/users/users.service.ts`) | `users.otp_hash`, `otp_expires_at`, `is_verified`, `password`; Redis `attempts:*`, `lock:*`, `reset-otp-attempts:*`, `verify-otp-attempts:*`, `oauth:*:state:*` | register, login, verify, resend, forgot, reset | one code column shared by two flows; attempt counters read and cleared in separate steps | bounded number of guesses per code; a code is used once |
| Rate limiter, Redis wrapper (`src/modules/rate-limiter`, `src/common/redis`) | counters with a TTL | `isAllowed`, `increment` | INCR and EXPIRE are two commands | limits end |
| Profiles (`src/modules/profile/profile.service.ts`) | `profiles`, `profile_components`, `profile_drafts`, lists of skills, education, work, awards; Redis `profile:<name>` (60 s) | create, draft, publish, visibility, reorder, public read | cache fill against invalidation; draft against publish; ordering by MAX+1 | a private profile leaves the cache; nothing published is lost; order is a permutation |
| Events (`src/modules/events/events.service.ts`) | `events`, `failed_events`, `profiles.view_count`; dedup keys, link cache | record with retry, milestones, identity merge, link check | dedup key set before the write | an event is recorded or dead-lettered, milestones once |
| Notifications (`src/modules/notifications`, `src/modules/queue/processors/announcement-fanout.processor.ts`, `src/realtime`) | `notifications` with a unique dedupe key | dispatch, fan-out, mark read | retried jobs, crash between insert and emit | one notification per cause |
| Invites (`src/modules/invites`) | `invites` | create, claim, click | insert, enqueue, undo | claimed at most once |
| Waitlist (`src/modules/waitlist`, `waitlist-email.processor.ts`) | `waitlist` | join, send mail | find-then-insert, send-then-mark | one entry per address |
| Mail, queue (`src/modules/mail`, `src/modules/queue`) | BullMQ queues | enqueue, process with retries | at-least-once delivery, answers that are lost | - |
| Snapshots, admin dashboards (`src/modules/admin/services/platform-snapshot.service.ts`, `admin-metrics.service.ts`) | `platform_daily_snapshots`, `admin:metrics:*` (300 s) | snapshot job, queries of each dashboard | cached answers against jobs; a slow job against a later one | a dashboard shows what the jobs wrote; nothing goes back |
| Metrics health (`MetricsRollupService.getFullHealthStatus`) | `rollup_progress`, keys of the backfill | statuses and flags of jobs, the summary | keys left behind by a crash or deleted by another job | a lag is noticed |
| Search and conversion statistics (`src/modules/search`, `src/modules/analytics`) | caches of results and of statistics, events | search, statistics of searches and invites | events late or lost, two queries without a snapshot | rates in [0, 1] |
| Routes, roles, usernames (controllers, `src/common/guards`, `src/modules/usernames`) | - | match, authenticate, authorize | one segment for usernames and fixed routes | every request reaches the handler meant, with its role |
| Accounts (`src/modules/users/users.service.ts`) | rows of `users` | create, update, remove, e-mail, preferences, onboarding | a whole row is saved after a read | only named columns change |
| Portfolio, contact, upload, HTTP metrics, config, migrations, seeds, DTOs, templates | - | CRUD, wiring, formatting | - | - |

Interactions: `AuthService` calls `TokenService` (sign-in, refresh, logout, password change);
`JwtAuthGuard` calls `TokenService.rotateTokens` and `UserStatusService.isActive`;
`AccountStatusService` invalidates the key that `UserStatusService` fills; `EventsService`
writes the table the rollup aggregates; the rollup and snapshot jobs delete the answers that
`AdminMetricsService` caches; invites, auth and events talk through `EventEmitter2`;
everything that sends mail goes through `QueueService`.

## 2. Modules

| module | models | state and actions |
|---|---|---|
| `Sessions` | what rotation promises | `live` credentials, sessions being renewed; `SignIn`, `Take`, `Issue`, `Abandon`, `Revoke` |
| `TokenRotation` | `TokenService` and `RedisLockService` | the table (`refreshTokens`, `expired`, `owner`), the two kinds of keys (`lock`, `grace`), and for each call of `rotateTokens` the await it is at (`pc`) and its locals; one action per await, plus sign-in, logout, password change, expiry of rows and keys, errors and crashes |
| `MCTokenRotation` | instances | bound on sign-ins, symmetry |
| `TokenRotation_proofs` | proofs | section 5 |
| `AccountStatus` | `AccountStatusService.apply` and `UserStatusService.isActive` for one account | `status`, newest `audit` row, `cache` with its age; `apply` in three awaits, `resolveStatus` in three, and `Tick` |
| `MCAccountStatus` | instances of `AccountStatus` and `Routes` | |
| `MetricsRollup` | the two jobs of `MetricsRollupService` | `events`, `daily`, `watermark`, `lock`, and each worker's place, window and clock reading |
| `MetricsHealth` | what the metrics jobs leave in `rollup_progress` and Redis, and `getFullHealthStatus` | the `lag` of the watermark, the last statuses, the lock, the backfill's keys, each job and each call; one action per query or command, start-up and requested backfills, lock expiry, crashes |
| `Dashboard` | the jobs as writers of the dashboards' tables, `AdminMetricsService` as their reader | `figures` (version of what a job computes from), `written`, the lock, the `cached` answer, jobs and requests; queries of an answer in any order (`Promise.all`) |
| `MetricsWindows` | `resolveMetricsRange` and the comparison of `periodDate` with it | pure functions of the range and the day |
| `MCMetricsRollup` | instances of `MetricsRollup`, `MetricsHealth` and `Dashboard`; the weeks of two years against a calendar (`WeeksAsInCalendar`) | |
| `PublicProfile` | `ProfileService.getPublicProfile` and the requests of the owner that change what it reads | the `row`, its section rows (`items`), the `cache` key, the `lock` key, each visit's place and what it has read, each owner session's place and the entity it holds; one action per await of a visit, and for a change its read, TypeORM's two statements of `save()`, and the invalidation |
| `MCPublicProfile`, `PublicProfile_proofs` | instances, proofs | |
| `ProfileDrafts` | `getProfileContent`, `upsertDraft`, `updateAppearance` and `publishProfile` | the `profile` and `draft` rows, the profile's `rowLock`, each session's place and what its request has read, the `token` its browser holds and whose browsers have got all of the draft (`shown`); one action per query, and one for what happens between a row lock and its commit |
| `UserTable` | what `UsersService` promises about rows | the rows and what each request asks for; `Ask`, `Add`, `Change`, `Drop`, `TurnDown` |
| `Accounts` | `UsersService`: create, `createEmailUser`, `createGoogleUser`, update, remove, `updateEmail`, `updatePreferences`, `markOnboardingComplete` | the rows, and each call's await, what it is to write and the row it has locked |
| `MCProfileDrafts` | instance of `ProfileDrafts` and `Accounts` | |
| `OneTimeCodes` | what `AuthService` and `UsersService` do with one e-mail address: `register`, `login`, `forgotPassword`, `resendOtp`, `verifyOtp`, `verifyResetOtp`, `validateGoogleUser` | the row of `users` (`account`), the Redis counters of wrong answers (`attempts`) and the lock (`locked`), whether a session was issued, and each call's operation, await, the row it read and the code it stored; one action per query, Redis command or mail |
| `MCOneTimeCodes` | instance of `OneTimeCodes` and `BrowserSession` | |
| `BrowserSession` | `JwtAuthGuard.canActivate` and `attemptRefresh`, `AuthService.refreshTokens`, `logout`, and the cookies of one browser | rows, grace keys, the `cookies`, each request in flight with the cookies it was sent with and what its response sets or clears; responses arrive in any order |
| `Passwords` | sign-ins with password and with Google (OAuth state), `changePassword`, `resetPassword`, revocation | the password's version, sessions, states, the reset token, each call's await |
| `RateLimits` | `RateLimiterService.isAllowed`, `RedisService.increment`, the fallback of `UsernameRateLimitGuard` | the counter and whether it has a TTL, the entry in memory, each request |
| `Routes` | all controllers: every route with its decorator, in the order of registration; `UsernamesService.check` | one request: its method, path and sender, the route that took it, and how far the guards have let it |
| `ProfileSections` | create, update, delete and reorder of components, skills, education, work experience and awards | the table of one list, the rows locked by a reorder, each tab's request with the entity it read |
| `Events` | `recordEvent`: dedup key, retries, dead letter, view counter, milestone; `mergeAnonymousEvents` | rows, dead letters, keys, `viewCount`, each call's await and attempt |
| `ProfileLinks` | `validateProfileLink` with its cache and lock | published version, cache, lock, each check's await and round |
| `Invites` | `createInvite`, its mail job, `claimInvite`, `recordInviteClick`, the notification | the table, jobs with attempts left, links mailed, clicks and notifications under way |
| `Delivery` | what an announcement promises to each user | who is a user, each user's notice, how often it was shown; `Announce`, `Store`, `Show`, `MarkAs`, `Join`, `Leave` |
| `Announcements` | `broadcast`, `AnnouncementFanoutProcessor`, the three marks | users, paging, jobs with attempts and stalls, notices, emits |
| `Waitlist` | `addToWaitlist`, `WaitlistEmailProcessor` | the row, requests, jobs with attempts left, mails |
| `Conversions` | search with its cache and its event, statistics of searches and invites | trails, events under way and in the table, the request for statistics, their cache |
| `MCServices` | instances of `Passwords`, `RateLimits`, `ProfileSections` and the six modules from `Events` on | |
| `Account_proofs` | proofs of `AccountStatus` and `Accounts`, section 5 | |
| `SignIn_proofs` | proofs of `OneTimeCodes` and `BrowserSession` | |
| `Sections_proofs` | proofs of `ProfileSections` and `ProfileLinks` | |
| `ProfileDrafts_proofs` | proofs of `ProfileDrafts` and of the run that has it | |
| `Services_proofs` | proofs of the other modules of `MCServices`, and of their composition | |
| `Metrics_proofs` | proofs of `MetricsRollup`, `MetricsHealth`, `Dashboard` and `MetricsWindows` | |

Abstractions. A token and its SHA-256 hash are one value (the code never compares anything
else), and uuids are fresh. `session[t]` is a history variable: the first token of the chain of
rotations `t` belongs to. `loggedOut` and `signedOut` remember what has been acknowledged to
users. The deadline of a row is a flag `expired` that may be raised at any time. A TTL is
either an expiry that may happen at any time (locks, grace keys) or, where a property speaks of
time, an age in ticks (status cache). In `AccountStatus` the variables of a call that has ended
are reset, `sinceChange` counts ticks only up to `Horizon`, and only the newest history row is
kept: the property relates each row to the step that writes it. In `MetricsRollup` the tracked
event types have rows of their own that do not interact, so one is enough, and at most one
event happens per tick. `rolled` and `excused` are history variables. `lastDailyRollupStatus`
only feeds the health summary, which is `MetricsHealth`'s. In `PublicProfile` a payload is the
versions of the row and of the sections it was made from; every change makes a new version.
TypeORM's `save()` reads the row and then updates the columns that differ from the entity, so
what a session read long ago can undo a later change; both statements are actions. A visit that
hits the cache changes nothing and is not an action. `overtaken` and `tainted` are history
variables. No code sets `deletedAt` of a profile, so it is left out. In `ProfileDrafts` the
fields a PUT replaces stand as one `content`, and `look` is the set of edits of the appearance:
`updateAppearance` adds one, a PUT that names the appearance puts one in the place of all. A
PUT may name either column, both or neither, and set it to null, which the draft cannot tell
from not set; one that changes nothing writes nothing, and its answer has no date. Dates are
milliseconds: a date that the database gives is the start of the transaction
(CURRENT_TIMESTAMP), and publishing takes `new Date()`. A transaction that holds the profile's
row writes, deletes and commits in one action: whatever else would write either row waits for
that lock. The cache is invalidated in `PublicProfile`. `intact`, `shown`, `stamps` and
`crowded` are history variables. In `OneTimeCodes` a code is a number and hashes are left out.
An answer is compared with the row its call has read, so it is right or wrong by choice when
the call begins. Passwords are not kept. A limiter's refusal, a conflict, an unknown address
and an expired code change nothing and are not actions. INCR and the EXPIRE of the first INCR
are one action, `CountWrong`, and `CountThenFail` is an INCR whose call goes no further. A
counter is compared with `MaxAttempts` only and stops there; it may expire at any time once
set. A failed insert by two registrations at once is `Fail`. Of the row a call has read it
keeps what it looks at later: the code for a verification, whether it is verified for `login`.
The lock does not expire while the call that set it is still running. `delivery`, `accepted`,
`counted` and `failures` are history variables: what became of the code in the row, the codes
accepted, the calls whose wrong answer is in a counter, and the wrong answers given since the
counter or the code was last renewed. A call that has cleared its code deletes the counter in
an await of its own, and with it what was counted about a newer code; `failures` is reset then
too (a finding in PROJECT.json).

Where a Redis command may fail the code has four different answers, which the models keep
apart: fail open (`acquireLock` of both locks), treat as a miss (`readGrace`,
`resolveStatus`), swallow (`storeGrace`, fill of the status key, release of the rollup lock),
and throw (`releaseLock` of the rotation, the purge of the status key, the EXPIRE of the
backfill).

**Modules that share a run.** `MCServices`, `MCMetricsRollup`, `MCAccountStatus`,
`MCOneTimeCodes` and `MCProfileDrafts` instantiate several modules side by side: a variable
`part` says which of them a behaviour is about, and the others rest in an initial state. The
modules of one run have no variable in common, and in the code no table or key, so that the
behaviours of the run are those of its modules one by one; the run is the union of their state
spaces. Where two modules are about the same code they look at it at different grain, and
neither assumes what the other shows: `MetricsRollup` counts events but has no flags,
`MetricsHealth` has flags but no counts, `Dashboard` has neither but the answers;
`BrowserSession` takes what `rotateTokens` does after it has the lock as one step, which is what
`TokenRotation` takes apart.

More abstractions. `ProfileSections`: names and texts are one field that tells two updates
apart; dates are those that validation compares; a behaviour is about one list, as no request
touches two. `ghosts`, `tied` and `arranged` are history variables: rows that `save()` may
insert anew, entries that may rightly have one position, and the order that was answered last.
`Events`: visitors are told apart by their dedup key only; an INSERT that is committed although
the call got an error, retryable or not, is `unanswered`; a call whose process dies, or whose
dead letter got an error, is `lost`. `Invites`: an id stands for its token too;
`unsure` are invites whose `queue.add` failed although the job was added. `Announcements`:
users are in the order of their ids, as the query pages them; `unshown` are those whose notice
was inserted by an attempt that did not come to emit it, as its worker died or the answer to
the insert was lost. `Dashboard`: a figure is the
version of what it was computed from; every endpoint has its tables and its jobs. `Routes`: a
path is a sequence of words, where a word stands for all usernames or ids that are not a
segment of any route. `Accounts`: two addresses and one that differs from another in case
only. `MetricsWindows`: days are counted from the epoch.

## 3. Runs

| run | instance | shows |
|---|---|---|
| `rotation_faults` | 3 calls, 4 tokens, 1 user, 1 sign-in, 2 poll rounds, every kind of disruption | `SessionUnforked`, `AnswersAgree`, `SessionSurvives`, `RowsReachable`, and that rotation implements `Sessions` |
| `rotation_live` | 2 calls, 3 tokens; database errors and crashes, Redis up | `RefreshTerminates`, `OnlyRealExpiry` |
| `rotation_signout` | 1 call, 2 tokens, no disruption | **violation** of `SignedOutStaysOut` |
| `status_cache` | 2 changes, 2 checks repeated for ever, Ttl 2, delay 1; all routes, every word for a parameter, every sender | `ChangeTakesHold`, `RequestsArrive` |
| `status_audit` | 2 changes | **violation** of `AuditedTransitions` |
| `rollup_jobs` | 2 workers, days of 2 ticks, 4 ticks; 2 workers, 1 call; 2 workers, 1 request, 2 changes of the figures | `NeverOvercounts`, `OnlyErrorsSkipEvents`, `LagIsNoticed`, `CacheFollowsJobs`, `WrittenGrows` |
| `rollup_days` | 1 worker, days of 2 ticks, 5 ticks | **violation** of `ClosedDaysComplete` |
| `profile_cache` | 2 visitors, each visiting for ever, 2 sessions, 2 changes, faults | `HiddenLeaksOnlyThroughGap`, `EventuallyCurrent` |
| `profile_private` | 1 visitor, 1 session, 2 changes, no faults | **violation** of `PrivateIsHidden` |
| `drafts_edits` | 2 sessions with requests for ever, 2 edits or clears, 2 milliseconds after the profile's date, failures; 2 calls for ever on 2 rows of users | types, `EditsKept`, `NoBlindOverwrite`, and that `UsersService` implements `UserTable` |
| `codes_answers` | 2 calls with requests for ever, 2 wrong answers allowed, 2 codes, failures and expiries; 2 requests of a browser in flight for ever, 2 tokens | `SessionsOnlyVerified`, `FailuresTakeEffect`, `AcceptedStaysSpent`, `CodesGetSent`, `StaysSignedIn`, `ServedWhileActive` |
| `services` | the nine parts below | types, and the properties below |

The parts of `services`, with their number of distinct states:

| part | instance | properties |
|---|---|---|
| sections (367 k) | 2 tabs for ever; 2 ids, or 1 in the lists with dates; 2 dates | `PositionsDistinct`, `OrderHolds`, `EntriesSound` |
| announcements (165 k) | 2 users, pages of 1, 2 attempts, 1 stall | `AudienceReached`, `EmittedOnce`, and that the fan-out implements `Delivery` |
| conversions (109 k) | 2 trails | the bound on rates, in the type |
| invites (66 k) | 2 tabs for ever, 2 ids, 1 attempt of a mail | `PendingIsMailed`, `MailedLinksWork` |
| events (32 k) | 2 calls, 2 visitors, 1 retry | `EventAccounted` |
| passwords (15 k) | 3 calls, 1 OAuth state, 2 changes | `PasswordChangeSignsOut` |
| limits (5 k) | 3 callers for ever, limits 2 and 1, 4 hits | `LimitHoldsAndLifts` |
| links (5 k) | 3 checks for ever, 2 rounds of waiting, 1 publish | `OneFiller` |
| waitlist (2 k) | 2 calls, 2 attempts | `WelcomedOnce` |

In `rollup_jobs` `MetricsHealth` has 180 k states and `Dashboard` 167 k, in `status_cache`
`Routes` has 18 k, in `drafts_edits` `Accounts` has 500 k, in `codes_answers` `BrowserSession`
has 357 k.

Why the bounds are enough. A rotation race needs a winner, a loser and a late third call that
meets what the two left behind (a freed lock, a grace key, a spent row); four tokens let all
three calls rotate in a row. One user suffices because the only statement that selects by user
is the sign-out; `MaxSignIns` exists so that no call is stuck for want of a fresh token. The
polling loop has two rounds instead of ten: its rounds are alike, and the second differs from
the first only in being the last. Two overlapping changes and two checks produce every stale
fill, since a cache entry stems from one fill and one change. A key of two ticks can be hit
after ageing, and a delay of one tick lets a change commit inside a fill. Two workers overlap in
every pair of steps; windows of at most a day over two days can start and end inside a day and
straddle midnight. A stale cache entry stems from one visit and one change; a second visitor and
a second session add racing writers of the key and racing saves, and two changes let a profile
be hidden and shown again, published after a 404, or saved over. Two edits, a clear
being one, are what it takes for one to be lost to the other, to a merge or to a publish, and
publishes are not bounded; two milliseconds and an earlier date of the profile put them before,
in and after one another. In `codes_answers` a limit of two has a
wrong answer below it and one at it; two calls can both pass the read of the code before either
counts; two codes let the second replace the first between any two awaits of the call that holds
it. Calls recur, so a sequence of any length of requests goes over the same account. Two browser
requests with two tokens have one rotate and one that is contended, finds the grace key, or
comes too late. The type invariants of the older modules are not in the cfgs: they are proved
(section 5). So are `SpentStaysSpent` and `OverStaysOver`, which `ImplementsSessions` implies in
the run, and `OnlyNamedColumnsChange`, which `ImplementsUserTable` implies.

In `services`, two tabs suffice where two requests race and a third would only repeat one of
them; two ids let a list be reordered; the dates of an entry are checked alone, since no check
looks at two entries. Two users and pages of one make an offset that a deletion shifts; a job
with two attempts and a stall can insert, die and find nothing new. Three clicks on a link have
one fill, one wait and one come after the lock has lapsed. Three calls of `Passwords` are a
change, a sign-in it must not spare and one that began after it. Larger instances were run once
with the same outcome, and are left out of the cfgs for their time: sections with three skills
(4.2 million states), three components, or two entries with dates (5.0 million); two retries of
`recordEvent`; three invites (6.0 million), two attempts of a mail; three users by pages of two
(1.7 million); three waitlist calls; accounts with a second preference (2.2 million).

Deadlock is checked in the runs of `AccountStatus`, `MetricsRollup`, `PublicProfile`,
`ProfileDrafts` and `OneTimeCodes`, and of the modules that share these runs, where time
always passes, jobs can always start and visits, loads and requests always come. It is off for
`TokenRotation` and `services`: where each request is one call, the instance rightly stops
when all have ended.

**Fairness.** `rotation_live` assumes weak fairness of `Step(r)` for each call and nothing
else: the event loop resumes a promise that can go on, and Redis and database commands either
answer or fail, which are both steps. A crash is not part of `Step`, no key is assumed to
expire, and no request is assumed to arrive. `profile_cache` assumes the same of visits and of
the owner's requests, and weak fairness of `CacheExpires`: both writes of the key carry a TTL.
That the owner stops is the bound on his requests, not an assumption on the code.

## 4. What the violations show

* `SignedOutStaysOut`: `rotateTokens` deletes the old row and inserts the new one in two
  statements. A password change that deletes the user's rows in between does not see the
  session, and the insert makes it refreshable again, although
  `src/modules/auth/auth.service.ts:546` says that all sessions have been signed out.
* `AuditedTransitions`: `apply` validates the status it read before its transaction and
  updates unconditionally; two admins at once make a forbidden transition with a wrong history
  row.
* `ClosedDaysComplete`: windows are not aligned to midnight and the upsert replaces the day's
  count, so each window erases what the previous one counted for the same day. With the
  schedule of 01:00 every day loses its first hour.

* `PrivateIsHidden`: the visibility flags are read again before the payload is cached, but the
  read and the SET are two awaits. A toggle to private that commits and deletes the key
  between them is followed by the SET, and the payload stays for a minute. The comment above
  the re-check claims to prevent this, and `src/modules/profile/profile.controller.ts:814`
  promises "effective immediately".

Without a run: the single-flight lock of `getPublicProfile` guards nothing, because a visit
that fails to get it goes on like one that did; and `METRICS_ROLLUP_START_DATE` in the form
`.env.example` gives is not a valid date once `rollupStartFallback` has appended a time to it.
The version token of a draft is not compared once the draft has been published, and two saves
of one millisecond share it, so the 409 that `profile.controller.ts:120` promises is not given
there; `NoBlindOverwrite` leaves out the first, as there is no draft to compare with, and
excepts the second. `EditsKept` excepts the edits saved while a publish checks its links:
`publishProfile` deletes the draft by profile, whatever it has become. It also excepts what a
PUT replaces or clears. A PUT that names the appearance writes all of it and needs no token, so
it drops what another tab has merged; and a null, with which `upsert-draft.dto.ts:17` says a
bio is cleared, is stored as not set, for which publishing and reading take the published bio.
`login` refuses a locked account before it looks at the password, and nothing but time removes
the lock: `resetPassword` does not, although the refusal
(`src/modules/auth/auth.service.ts:178`) says "try again in 30 minutes or reset your password".
And while `register` and `login` take a code back whose mail could not be queued,
`forgotPassword` and `resendOtp` leave it in the row; that is why `CodesGetSent` excepts them.

More without a run, met while modelling (PROJECT.json has them with their lines): the milestone
of profile views is never dispatched, as the answer of an UPDATE is read at the wrong depth;
the owner's clicks on his own links are recorded; a user deleted during a fan-out costs his
whole page the announcement; `POST /auth/refresh-token` clears the cookies when it is
contended, which the guard takes care not to do; an update of a section writes back a position
that a reorder has changed; the keys that tell the health summary of a backfill are deleted by
every job; the summary is "unhealthy" for 22 hours of a normal day; a day's snapshot is taken
at 02:00 and keeps the counts of two hours; `LAST_THIRTY_DAYS` compares 29 dates with 30;
addresses an administrator enters keep their case; `content` and `appearance` can be taken as
usernames although their pages cannot be reached; errors that Resend answers are taken for
success; and the nightly clean-up of unverified accounts also deletes verified ones whose last
code went unused for 30 days. Where one of these would break a property, the property names it
as its exception, so that what holds besides is known: `RequestsArrive` has the two usernames,
`StaysSignedIn` the contended refresh, `OrderHolds` and `PositionsDistinct` the overlapping
update, `AudienceReached` the deletion, `EmittedOnce` the notices whose insert was committed
but not answered, which the retry takes for old ones and emits to nobody.

## 5. Proofs

`TokenRotation_proofs` proves, for any sets of tokens, users and requests, any number of poll
rounds and any set of disruptions, the type invariant, `SessionUnforked`, `AnswersAgree`,
`SpentStaysSpent`, `OverStaysOver` and the implementation of `Sessions`. The only assumptions
are `ConstantsAssumption`: the null values are no tokens or users, `PollAttempts` is a
positive number, and the disruptions are among the named kinds.

The inductive invariant `IInv` adds to the type and to `SessionUnforked`:

* `RoundsLeft`: a polling call has a round left (without it the counter could leave its type);
* `WellFormed`: what rows, calls and grace keys refer to has been generated;
* `OneTaker`: at most one call per session is between delete and save. Unforkedness alone is
  not inductive: two takers of one session would both save;
* `Succession`: a token that has been rotated has no row and no taker, and every trace of what
  replaced it (answers of calls, its grace key) names one token of the same session and user.
  This is what makes `AnswersAgree` inductive across grace keys that outlive the calls.

The key step is the conditional delete: `DeleteRecord` requires the row, so by unforkedness it
makes its call the only taker. The lock plays no part in the proof, which is the point:
losing, failing or double-freeing it cannot break these properties. The action properties
follow from `IInv` and `[Next]_vars` for each action (`OverStep`), and so does the refinement
(`StepRefines`): `DeleteRecord` is `Take`, `SaveSuccessor` is `Issue`, a call that breaks
while saving is `Abandon`, logout and expiry are `Revoke`, everything else stutters.

`SessionSurvives` and `RowsReachable` need one thing more, `AnswersFit`: a call keeps the token
it has saved until it ends, and while it is under way it has no outcome yet. `OnlyRealExpiry` is
proved (`ExpiryIsReal`) under `RedisSteady`, the condition it is meant under: no error of Redis
and no key that expires under a call are among `Disruptions`. Here, and only here, the lock is
in the argument: by `LockOwned` the calls past their SET NX have different tokens, so what
`findOne` told a call stays true until the call acts on it (`FindingsHold`). `Explained` says
where a row went that is gone: away by a sign-out or by age, or to a call that is still to
store the grace key, has stored it or broke. A call that gives up finds no grace key, and by
`LockOwned` no other call is about to store one.

`Account_proofs` proves, of `AccountStatus`, `TypeOK` and `ChangeTakesHold` for every TTL, every
delay and any number of calls. The invariant `Freshness` is the argument: a cached value that
differs from the row is at most as old as its reader was slow plus the age of the key.

`PublicProfile_proofs` proves `TypeOK` and `HiddenLeaksOnlyThroughGap` for any visitors,
sessions and number of changes. The strengthening is `WritersKnow`: a visit that has passed
its re-check and not yet written sees a visible row or was overtaken. Only `WriteCache` fills
the key, and by `WritersKnow` it marks what it writes; only `SaveProfile` hides the profile,
and it leaves its session about to invalidate. The proof does not look at `Faults`.

`SignIn_proofs` proves, of `OneTimeCodes`, `TypeOK`, `SessionsOnlyVerified`,
`FailuresTakeEffect`, `AcceptedStaysSpent` and `CodesGetSent` for any calls, any number of codes
and any limit, from `CodesAssumption` (the limit is positive, `NoAccount` is not a row). The
strengthening is `AllPlaced` and `Generated`. `AllPlaced` says of every call what its place
implies: past `insert` the row exists, at `session` it is verified, a row the call has read as
verified still is, a verification has read a code that has been generated, and when `verifyOtp`
is about to answer its code is no longer in the row. `Generated` says that the codes in the row
and the accepted ones are among those generated. The common argument is that a row never
disappears and never becomes unverified again (`RowKept`), so what a call has read long before
still holds where it matters, and that a code taken out of the row cannot come back: `RowKept`
also says that a step leaves the row's code, clears it, or writes the next one. For
`FailuresTakeEffect` the strengthening is `LimitsHold`: fewer wrong answers have been given than
are counted, so that the last one allowed is given by a call that punishes first, and a call
that is about to delete the counter has set the lock or has its code out of the row.

Of `BrowserSession` it proves the types, `StaysSignedIn` and `ServedWhileActive` for any
number of requests and tokens. While the session is not excused, `BrowserInv` says, the newest
token has the only row; from every token that the browser or a request holds the grace keys
lead to it; and no response under way will clear the cookies. The type is not enough, since a
response that arrives late sets cookies that were new when it was sent. `Watches` adds that a
request which goes on as the user has seen the account active. `SignInComposes` shows that a
behaviour of the run is one of each of the two modules, so that all this holds in it.

Of `Accounts`, `Account_proofs` proves `ColumnsKept` (`OnlyNamedColumnsChange`), which rests on
`LockInv`: the row that a call is about to save is still as the call has read it, and no two
calls are about to save one row. `AccountsImplement` says all of it at once: `UsersService`
implements `UserTable`, in which a request takes effect on a row in one step, as that step finds
it, and no two rows have one address. The mapping leaves the rows as they are; what a request
wants (`Wanted`) is the operation, row and columns of a call that has not returned. So reads,
checks and locks are stutters, the one write of a call is `Add`, `Change` or `Drop`, and a
refusal, a conflict or a failure is `TurnDown`. The step with an argument in it is the save of
preferences, which writes all columns of a row read two awaits before: by `LockInv` that is the
row as it is, still there and with nothing but the preferences changed, and by `PreferencesOnly`
such a call names no address, so that the save takes none from another row. That no step takes
an address twice rests on the unique index alone; the check before it is not in the argument.

`Services_proofs` proves `PasswordChangeSignsOut` and `LimitHoldsAndLifts`. For the first,
`OldOnesKnown` extends the property to the sign-ins and refreshes that have not saved their
session yet; for the second `ServedCounted` says that whatever was let through has been
counted, and `WillLift` that the counter expires or somebody still owes it its EXPIRE.

It proves `EventAccounted` (`RowsOf`, `CallSoFar`: where a call is says what
it has left behind), `WelcomedOnce` (`MailedOnce`, `RowOfJob`: unless a worker has failed
after sending, a job that is to send has not sent yet, and the row is that of the one request
whose job there is), `PendingIsMailed` and `MailedLinksWork` (`InviteInv`: an invite is
inserted by one request, which until its answer has no mail out and no job unless the
enqueueing was in doubt).

Of `Announcements` it proves `AudienceReached` and `EmittedOnce`, for any number of users,
pages, attempts and stalls. For the first, `PagesCover` says that while no deletion has shifted
the pages, each user of the audience is in the job of a page or has a rank from OFFSET on. Who
registers meanwhile takes nobody to an earlier rank (`RegisteringShifts`), and ranks have no
gaps, so that an empty page means that nobody is left (`LastPageEmpty`). Ranks are cardinalities
of finite sets, and the least user who would be left out comes from well-foundedness of the
naturals (`LeastNatural`, `GreatestNatural`), in place of an induction. For the second,
`NewcomersUntold` (who is yet to register is on no page and has been told nothing), `JobsSound`
(the users a job is about to tell have notices and have not been told) and `NewOnce` (no two
jobs are about to tell one user): the insert with ON CONFLICT DO NOTHING is what makes the first
job the only one to emit.

`AnnouncementsImplement` shows, from the same invariants, that the broadcast, its jobs and the
marks implement `Delivery`, in which an announcement is one notice per user. The users and
their notices stand for themselves, the announcement is made once the broadcast has begun, and
`Shown` counts the emits to users who are still there: `EmitNotices` may still emit to one who
has been deleted after the insert, which reaches nobody. `InsertNotices` is `Store`,
`InsertUnanswered` too, `EmitNotices` is `Show`, and pages, attempts, failures and stalls are
stutters. `Delivery` does not say who marks a notice, so a job that set a read notice back to
unread would pass for its user; that only new rows are written is in `NewNotices`.
`PromiseHolds` is proved of `Delivery` alone and carried over: by `ShownStaysStored` nobody is
shown an announcement twice, or without a notice in the table, by any of the jobs.

Of `Conversions` it proves `RatesBounded`: what is cached never has more conversions than
sources, since the answer intersects the two queries before it counts (`AnswerBounded`). So
their order and what is recorded between them play no part. The types of `Events`, `Waitlist`,
`Invites` and `Announcements` follow from the same invariants.

`ServicesCompose` shows that every behaviour of `MCServices` is one of each of its nine parts:
a step is one part's, and leaves the variables of the others alone (`StepsOfServices`). With
it `ServicesTypesHold` joins the types of the nine to `TypesOK` of the run.

`ProfileDrafts_proofs` proves, for any number of sessions, edits and milliseconds, the types,
`EditsKept` and `NoBlindOverwrite`, from `DraftAssumption` and `NoDraftAssumption` (null values
are no members). None of them is inductive alone. `LockHolds` says what the lock of the
profile's row is for: who is about to save has the lock, and what it has read of the draft and
the profile is still in them. `PublishKnows` says of a publish, which locks nothing until its
UPDATE, that what it has read still has all edits to be kept, so that it may write and delete
by what it has read; a save or publish of others gives that up by excusing its edits.
`DatesKnown` says that every date a browser or a request holds has been stamped by a save or a
publish, and that the browser whose date is the draft's has got all of the draft, as long as
that millisecond was used once. Of `Accounts` it proves the types (`AccountTypes`: what a call
was given and has read are values of the columns, `MergedRow`), and with them `TypesOK` of the
run, which composes drafts and accounts.

`Sections_proofs` proves `OneFiller` of `ProfileLinks` from `FillerLocks`: while no lock has
lapsed, who fills has the lock. It also proves the three properties of `ProfileSections`, for
any number of tabs and entries, from `SectionsAssumption` (the tables are finite, so that MAX
over one exists). The invariant `SectionsInv` has one part per way in which a request can be
behind the table:

* `IdsKnown` and `GhostsKnown`: an id in a request or in the order that was answered has been
  given out before, so a new entry is none of them, and an update whose entry has gone is one
  of those that may insert it again;
* `WritesChecked`: the row an update is about to write has been checked, and the dates it was
  compared with are still those of its entry, or the entry is `mixed`;
* `LocksHeld`: the rows that a reorder is to renumber are locked, by it and no other;
* `PositionsGrow`: while nothing overlaps, a create that has read MAX is above all entries, and
  an entry the reorder has not locked stands above those it has. The step that needs most is
  `AboveLocked`: positions that differ and are above all locked rows are at least as many, so
  the numbers 0 to n - 1 that the reorder gives out collide with no entry created meanwhile;
* `InPlace`: an entry of the answered order stands where its place in that order says, and an
  update has read, or will write, no other position of it.

`GreatestOfFinite` and `MaxIsGreatest` say what MAX returns.

`Metrics_proofs` proves, of `MetricsRollup`, the types, `NeverOvercounts` and
`OnlyErrorsSkipEvents` for any number of workers, days and ticks, from `TimeAssumption`; with
the types goes `NothingAhead`, by which neither the watermark nor a worker's window ends after
the clock. The strengthening is `WindowsCover`: no window and no watermark reaches past the
clock, before the beginning of a window nothing is left behind, and once it has been rolled up
nothing is left behind before its end. So a worker may set the watermark to that end whatever
others have done to it meanwhile, and the lock is not in the argument. Counts are
cardinalities, and the facts about them come from `FiniteSetTheorems`. Of `Dashboard` it proves
`AnswersFollowJobs` (`CacheFollowsJobs`) and `JobsOnlyAdd` (`WrittenGrows`), which rest on
`DashboardTypes` (what is computed or written is no newer than the figures) and `Guarded`:
while no lock has lapsed, the one job at work has it, and what it is to write is not older than
what is written. `WindowsAdjoin` shows, for every day and range, that the two windows leave no
date out and count none twice; `ThirtyDaysAreTwentyNine`, that the two of LAST_THIRTY_DAYS
differ by a date. Of `MetricsHealth` it proves the types and `LagGetsNoticed` (`LagIsNoticed`).
`FlagExplained` is the argument: the backfill flag is set only while a backfill is at work or
after one has left it behind, so without either a late rollup has nothing to hide behind.
`MetricsTypesHold` proves the types of the three together, which are parts of one run that rest
while another takes steps.

Assumptions are those named in the modules, and say no more than that bounds are numbers and
null values no members: `EventsAssumption`, `WaitlistAssumption`, `LimitsAssumption` and so
on. TLC evaluates each of them on the constants of a run.

## 6. What is only model-checked

`RequestsArrive`: the table of routes has no parameters, so TLC goes through all there is to
check. `RefreshTerminates` and `EventuallyCurrent` are liveness under fairness, which is outside
the prover. The findings are counterexamples of TLC.

## 7. Not modelled

* Contents: names, texts, links and images of profiles, portfolio items, the wording of mails
  and notifications, validation of DTOs beyond what an invariant compares. No two steps could
  disagree about them.
* Read-only SQL: the list of users for administrators, search ranking and paging, analytics
  that are one query. Contact and upload: one call to a service outside each.
* The socket's handshake and rooms: an emit goes out or not.
* `stale-users-cleanup.service.ts` deletes unverified accounts that are weeks old.
  `Announcements` has the deletion of users; `OneTimeCodes` assumes that the row does not
  vanish. What the query deletes besides unverified accounts is a finding of its own
  (PROJECT.json).
* `OneTimeCodes` and `Passwords` leave the limiters per IP and address out; `RateLimits` has
  the counter they use. Passwords are versions, codes numbers.
* Wiring, configuration, migrations, seeds, Swagger, HTTP metrics.

Worth doing next: an abstract specification of drafts and publishing (one content that edits
are merged into, published as a whole) to which `EditsKept` could be carried over, and the
portfolio as a sixth list of `ProfileSections` should it get an order.
