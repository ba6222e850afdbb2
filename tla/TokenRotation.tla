--------------------------- MODULE TokenRotation ---------------------------
(***************************************************************************)
(* Refresh-token rotation: TokenService over the refresh_tokens table, and *)
(* RedisLockService over the lock and grace keys of Redis.  Every await of *)
(* rotateTokens is a step of its own, so concurrent refreshes of the same  *)
(* token, sign-outs, expiring keys, Redis and database errors and process  *)
(* crashes interleave between any two of them.                             *)
(***************************************************************************)
EXTENDS Naturals

CONSTANTS
  Token,        \* raw refresh tokens; a token and its hash are one value
  User,
  Request,      \* calls of rotateTokens, each made once
  NoToken, NoUser,
  PollAttempts, \* RedisLockService.GRACE_POLL_ATTEMPTS
  Disruptions   \* what may go wrong in this instance

DisruptionKinds == {"redis", "database", "crash", "lockTtl", "graceTtl"}

ASSUME ConstantsAssumption ==
  /\ NoToken \notin Token
  /\ NoUser \notin User
  /\ PollAttempts \in Nat \ {0}
  /\ Disruptions \subseteq DisruptionKinds

VARIABLES
  refreshTokens, \* tokens with a row in refresh_tokens
  expired,       \* tokens whose expiresAt has passed
  owner,         \* userId of the row a token was saved with
  session,       \* the sign-in a token descends from, named by its first token
  lock,          \* tokens whose key lock:refresh:<hash> exists
  grace,         \* value of refresh:grace:<hash>: the new token, or NoToken
  pc,            \* the await each call of rotateTokens is at
  presented,     \* its argument
  polls,         \* its attempt counter in waitForGrace
  answer,        \* the new token it minted or read
  outcome,       \* how it ends
  loggedOut,     \* sessions a logout has been acknowledged for
  signedOut      \* sessions a password change has been acknowledged for

table == <<refreshTokens, expired, owner, session>>
redis == <<lock, grace>>
calls == <<pc, presented, polls, answer, outcome>>
signOuts == <<loggedOut, signedOut>>
vars == <<table, redis, calls, signOuts>>

Phases == {"new", "lock", "wait", "find", "readGrace", "expire", "delete",
           "save", "store", "release", "done"}

Outcomes == {"pending", "rotated", "shared", "inProgress", "sessionExpired",
             "failed", "crashed"}

TypeOK ==
  /\ refreshTokens \subseteq Token
  /\ expired \subseteq Token
  /\ owner \in [Token -> User \cup {NoUser}]
  /\ session \in [Token -> Token \cup {NoToken}]
  /\ lock \subseteq Token
  /\ grace \in [Token -> Token \cup {NoToken}]
  /\ pc \in [Request -> Phases]
  /\ presented \in [Request -> Token \cup {NoToken}]
  /\ polls \in [Request -> 0..PollAttempts]
  /\ answer \in [Request -> Token \cup {NoToken}]
  /\ outcome \in [Request -> Outcomes]
  /\ loggedOut \subseteq Token
  /\ signedOut \subseteq Token

Init ==
  /\ refreshTokens = {}
  /\ expired = {}
  /\ owner = [t \in Token |-> NoUser]
  /\ session = [t \in Token |-> NoToken]
  /\ lock = {}
  /\ grace = [t \in Token |-> NoToken]
  /\ pc = [r \in Request |-> "new"]
  /\ presented = [r \in Request |-> NoToken]
  /\ polls = [r \in Request |-> 0]
  /\ answer = [r \in Request |-> NoToken]
  /\ outcome = [r \in Request |-> "pending"]
  /\ loggedOut = {}
  /\ signedOut = {}

Generated(t) == session[t] # NoToken

\* Calls that returned a token pair to their caller.
Answered(r) == pc[r] = "done" /\ outcome[r] \in {"rotated", "shared"}

\* Tokens a client can present: those a sign-in or a refresh handed out.
Delivered(t) ==
  \/ Generated(t) /\ session[t] = t
  \/ \E r \in Request : Answered(r) /\ answer[r] = t

GoTo(r, phase) == pc' = [pc EXCEPT ![r] = phase]

\* Leave through `finally`: the outcome is decided, the lock not yet released.
Finish(r, result) ==
  /\ GoTo(r, "release")
  /\ outcome' = [outcome EXCEPT ![r] = result]

\* Leave without having owned the lock.
Return(r, result) ==
  /\ GoTo(r, "done")
  /\ outcome' = [outcome EXCEPT ![r] = result]

(***************************************************************************)
(* Sign-in and sign-out.                                                   *)
(***************************************************************************)

\* createRefreshTokenRecord + save: a fresh uuid with a row of its own.
SaveRecord(u, s, t) ==
  /\ ~Generated(t)
  /\ session' = [session EXCEPT ![t] = s]
  /\ owner' = [owner EXCEPT ![t] = u]
  /\ refreshTokens' = refreshTokens \cup {t}
  /\ UNCHANGED expired

GenerateRefreshToken(u, t) ==
  /\ SaveRecord(u, t, t)
  /\ UNCHANGED <<redis, calls, signOuts>>

\* Logout deletes the row of the presented token, whether or not there is one.
InvalidateRefreshToken(t) ==
  /\ Delivered(t)
  /\ refreshTokens' = refreshTokens \ {t}
  /\ loggedOut' = loggedOut \cup {session[t]}
  /\ UNCHANGED <<expired, owner, session, redis, calls, signedOut>>

SessionsOf(u) == {session[t] : t \in {x \in Token : owner[x] = u}}

\* changePassword and resetPassword delete every row of the user.
InvalidateAllRefreshTokens(u) ==
  /\ refreshTokens' = {t \in refreshTokens : owner[t] # u}
  /\ signedOut' = signedOut \cup SessionsOf(u)
  /\ UNCHANGED <<expired, owner, session, redis, calls, loggedOut>>

(***************************************************************************)
(* rotateTokens, one await at a time.                                      *)
(***************************************************************************)

Begin(r, t) ==
  /\ pc[r] = "new"
  /\ Delivered(t)
  /\ presented' = [presented EXCEPT ![r] = t]
  /\ GoTo(r, "lock")
  /\ UNCHANGED <<table, redis, polls, answer, outcome, signOuts>>

\* SET lock NX EX 5.
AcquireLock(r) ==
  /\ pc[r] = "lock"
  /\ presented[r] \notin lock
  /\ lock' = lock \cup {presented[r]}
  /\ GoTo(r, "find")
  /\ UNCHANGED <<table, grace, presented, polls, answer, outcome, signOuts>>

LoseLock(r) ==
  /\ pc[r] = "lock"
  /\ presented[r] \in lock
  /\ GoTo(r, "wait")
  /\ UNCHANGED <<table, redis, presented, polls, answer, outcome, signOuts>>

\* acquireLock fails open: an error counts as having the lock.
AcquireFailsOpen(r) ==
  /\ "redis" \in Disruptions
  /\ pc[r] = "lock"
  /\ GoTo(r, "find")
  /\ UNCHANGED <<table, redis, presented, polls, answer, outcome, signOuts>>

\* One round of waitForGrace that finds the winner's tokens.
PollFindsGrace(r) ==
  /\ pc[r] = "wait"
  /\ grace[presented[r]] # NoToken
  /\ answer' = [answer EXCEPT ![r] = grace[presented[r]]]
  /\ Return(r, "shared")
  /\ UNCHANGED <<table, redis, presented, polls, signOuts>>

\* A grace key that is absent, or that cannot be read, is a miss.
GraceMiss(r) == grace[presented[r]] = NoToken \/ "redis" \in Disruptions

\* Mutant: the loop compares its counter with <=.
PollMissesOnceMore(r) ==
  /\ pc[r] = "wait"
  /\ GraceMiss(r)
  /\ polls' = [polls EXCEPT ![r] = @ + 1]
  /\ \/ polls[r] <= PollAttempts /\ UNCHANGED <<pc, outcome>>
     \/ polls[r] > PollAttempts /\ Return(r, "inProgress")
  /\ UNCHANGED <<table, redis, presented, answer, signOuts>>

\* Mutant: the loop does not count its rounds.
PollMissesForever(r) ==
  /\ pc[r] = "wait"
  /\ GraceMiss(r)
  /\ UNCHANGED vars

\* A round that does not; after the last one the call is told to retry.
PollMisses(r) ==
  /\ pc[r] = "wait"
  /\ GraceMiss(r)
  /\ polls' = [polls EXCEPT ![r] = @ + 1]
  /\ IF polls[r] + 1 < PollAttempts
       THEN UNCHANGED <<pc, outcome>>
       ELSE Return(r, "inProgress")
  /\ UNCHANGED <<table, redis, presented, answer, signOuts>>

\* findOne, and the expiry check on the record it returned.
FindRecord(r) ==
  /\ pc[r] = "find"
  /\ \/ presented[r] \notin refreshTokens /\ GoTo(r, "readGrace")
     \/ presented[r] \in refreshTokens \cap expired /\ GoTo(r, "expire")
     \/ presented[r] \in refreshTokens \ expired /\ GoTo(r, "delete")
  /\ UNCHANGED <<table, redis, presented, polls, answer, outcome, signOuts>>

\* The record is gone: a recent rotation is shared, anything else is over.
ReadGraceHit(r) ==
  /\ pc[r] = "readGrace"
  /\ grace[presented[r]] # NoToken
  /\ answer' = [answer EXCEPT ![r] = grace[presented[r]]]
  /\ Finish(r, "shared")
  /\ UNCHANGED <<table, redis, presented, polls, signOuts>>

\* Mutant: an unknown token is taken for a theft and signs its user out.
ReadGraceMissRevokesAll(r) ==
  /\ pc[r] = "readGrace"
  /\ GraceMiss(r)
  /\ refreshTokens' = {t \in refreshTokens : owner[t] # owner[presented[r]]}
  /\ Finish(r, "sessionExpired")
  /\ UNCHANGED <<expired, owner, session, redis, presented, polls, answer, signOuts>>

ReadGraceMiss(r) ==
  /\ pc[r] = "readGrace"
  /\ GraceMiss(r)
  /\ Finish(r, "sessionExpired")
  /\ UNCHANGED <<table, redis, presented, polls, answer, signOuts>>

DeleteExpired(r) ==
  /\ pc[r] = "expire"
  /\ refreshTokens' = refreshTokens \ {presented[r]}
  /\ Finish(r, "sessionExpired")
  /\ UNCHANGED <<expired, owner, session, redis, presented, polls, answer, signOuts>>

\* Mutant: the row is left for a clean-up job to delete.
KeepRecord(r) ==
  /\ pc[r] = "delete"
  /\ presented[r] \in refreshTokens
  /\ GoTo(r, "save")
  /\ UNCHANGED <<table, redis, presented, polls, answer, outcome, signOuts>>

\* DELETE by id with affected = 1: this call, and no other, will mint.
DeleteRecord(r) ==
  /\ pc[r] = "delete"
  /\ presented[r] \in refreshTokens
  /\ refreshTokens' = refreshTokens \ {presented[r]}
  /\ GoTo(r, "save")
  /\ UNCHANGED <<expired, owner, session, redis, presented, polls, answer, outcome, signOuts>>

\* Mutant: deleteResult.affected is not looked at.
AffectedIgnored(r) ==
  /\ pc[r] = "delete"
  /\ presented[r] \notin refreshTokens
  /\ GoTo(r, "save")
  /\ UNCHANGED <<table, redis, presented, polls, answer, outcome, signOuts>>

\* affected = 0: somebody deleted the row since findOne.
DeleteAffectsNothing(r) ==
  /\ pc[r] = "delete"
  /\ presented[r] \notin refreshTokens
  /\ Finish(r, "sessionExpired")
  /\ UNCHANGED <<table, redis, presented, polls, answer, signOuts>>

\* Mutant: the save is retried after an acknowledgement that got lost.
SaveRetried(r, n) ==
  /\ pc[r] = "save"
  /\ SaveRecord(owner[presented[r]], session[presented[r]], n)
  /\ answer' = [answer EXCEPT ![r] = n]
  /\ GoTo(r, "store") \/ UNCHANGED pc
  /\ UNCHANGED <<redis, presented, polls, outcome, signOuts>>

\* Mutant: the lock is released before the grace key is written.
SaveReleasesLock(r, n) ==
  /\ pc[r] = "save"
  /\ SaveRecord(owner[presented[r]], session[presented[r]], n)
  /\ answer' = [answer EXCEPT ![r] = n]
  /\ lock' = lock \ {presented[r]}
  /\ GoTo(r, "store")
  /\ UNCHANGED <<grace, presented, polls, outcome, signOuts>>

SaveSuccessor(r, n) ==
  /\ pc[r] = "save"
  /\ SaveRecord(owner[presented[r]], session[presented[r]], n)
  /\ answer' = [answer EXCEPT ![r] = n]
  /\ GoTo(r, "store")
  /\ UNCHANGED <<redis, presented, polls, outcome, signOuts>>

\* storeGrace swallows its errors: the rotation succeeds either way.
StoreGrace(r) ==
  /\ pc[r] = "store"
  /\ \/ grace' = [grace EXCEPT ![presented[r]] = answer[r]]
     \/ "redis" \in Disruptions /\ UNCHANGED grace
  /\ Finish(r, "rotated")
  /\ UNCHANGED <<table, lock, presented, polls, answer, signOuts>>

\* Mutant: a failed rotation puts the old row back on its way out.
ReleaseRestores(r) ==
  /\ pc[r] = "release"
  /\ lock' = lock \ {presented[r]}
  /\ refreshTokens' = IF outcome[r] = "failed"
                        THEN refreshTokens \cup {presented[r]} ELSE refreshTokens
  /\ GoTo(r, "done")
  /\ UNCHANGED <<expired, owner, session, grace, presented, polls, answer, outcome, signOuts>>

\* The unconditional DEL of `finally`: it frees the key whoever set it.
ReleaseLock(r) ==
  /\ pc[r] = "release"
  /\ lock' = lock \ {presented[r]}
  /\ GoTo(r, "done")
  /\ UNCHANGED <<table, grace, presented, polls, answer, outcome, signOuts>>

(***************************************************************************)
(* What goes wrong, and time.                                              *)
(***************************************************************************)

\* releaseLock throws out of `finally`, replacing the result of the call.
ReleaseFails(r) ==
  /\ "redis" \in Disruptions
  /\ pc[r] = "release"
  /\ Return(r, "failed")
  /\ UNCHANGED <<table, redis, presented, polls, answer, signOuts>>

\* A repository call that throws leaves through `finally`.
QueryFails(r) ==
  /\ "database" \in Disruptions
  /\ pc[r] \in {"find", "expire", "delete", "save"}
  /\ Finish(r, "failed")
  /\ UNCHANGED <<table, redis, presented, polls, answer, signOuts>>

\* The process dies with the call: no `finally`, and nobody is answered.
Crash(r) ==
  /\ "crash" \in Disruptions
  /\ pc[r] \notin {"new", "done"}
  /\ Return(r, "crashed")
  /\ UNCHANGED <<table, redis, presented, polls, answer, signOuts>>

\* A lock outlives its TTL of 5 s; a holder that is slower does not notice.
LockExpires(t) ==
  /\ "lockTtl" \in Disruptions
  /\ t \in lock
  /\ lock' = lock \ {t}
  /\ UNCHANGED <<table, grace, calls, signOuts>>

GraceExpires(t) ==
  /\ "graceTtl" \in Disruptions
  /\ grace[t] # NoToken
  /\ grace' = [grace EXCEPT ![t] = NoToken]
  /\ UNCHANGED <<table, lock, calls, signOuts>>

\* Seven days pass for a row.
TokenExpires(t) ==
  /\ t \in refreshTokens \ expired
  /\ expired' = expired \cup {t}
  /\ UNCHANGED <<refreshTokens, owner, session, redis, calls, signOuts>>

\* What the call itself does next, errors of Redis and the database included.
Step(r) ==
  \/ AcquireLock(r) \/ LoseLock(r) \/ AcquireFailsOpen(r)
  \/ PollFindsGrace(r) \/ PollMisses(r)
  \/ FindRecord(r) \/ ReadGraceHit(r) \/ ReadGraceMiss(r)
  \/ DeleteExpired(r) \/ DeleteRecord(r) \/ DeleteAffectsNothing(r)
  \/ \E n \in Token : SaveSuccessor(r, n)
  \/ StoreGrace(r) \/ ReleaseLock(r) \/ ReleaseFails(r) \/ QueryFails(r)

Next ==
  \/ \E r \in Request : Step(r) \/ Crash(r)
  \/ \E r \in Request, t \in Token : Begin(r, t)
  \/ \E u \in User, t \in Token : GenerateRefreshToken(u, t)
  \/ \E u \in User : InvalidateAllRefreshTokens(u)
  \/ \E t \in Token :
       \/ InvalidateRefreshToken(t)
       \/ LockExpires(t) \/ GraceExpires(t) \/ TokenExpires(t)

Spec == Init /\ [][Next]_vars

\* The event loop gives every pending call its turn.
Fairness == \A r \in Request : WF_vars(Step(r))

FairSpec == Spec /\ Fairness
(***************************************************************************)
(* Properties.                                                             *)
(***************************************************************************)

\* Sessions a call has taken the row of and not yet given a new one.
Renewing == {session[presented[r]] : r \in {q \in Request : pc[q] = "save"}}

(***************************************************************************)
(* A sign-in never forks into two usable refresh tokens, however many      *)
(* requests present the same token at once, and even when the Redis lock   *)
(* expires under its holder, is freed by another call, or fails open: the  *)
(* conditional delete of rotateTokens is what serializes the rotation.     *)
(***************************************************************************)
SessionUnforked ==
  \A t \in refreshTokens :
    /\ session[t] \notin Renewing
    /\ \A u \in refreshTokens : session[u] = session[t] => u = t

(***************************************************************************)
(* All calls that present one token and get tokens back get the same new   *)
(* refresh token, from the rotation or from the grace key, and it belongs  *)
(* to the session and the user of the token they presented.                *)
(***************************************************************************)
AnswersAgree ==
  \A r \in Request : Answered(r) =>
    /\ session[answer[r]] = session[presented[r]]
    /\ owner[answer[r]] = owner[presented[r]]
    /\ \A q \in Request :
         Answered(q) /\ presented[q] = presented[r] => answer[q] = answer[r]

(***************************************************************************)
(* README.md: "Each refresh invalidates the previous refresh token (replay *)
(* protection)".  A token whose row is gone never gets a row again, so     *)
(* what a refresh, a logout or an expiry has taken away stays away.        *)
(***************************************************************************)
SpentStaysSpent ==
  [][\A t \in Token :
       Generated(t) /\ t \notin refreshTokens => t \notin refreshTokens']_vars

Over(s) == s \notin Renewing /\ \A t \in refreshTokens : session[t] # s

(***************************************************************************)
(* A session with neither a row nor a rotation between its delete and its  *)
(* save is over for good: nothing brings it back, stale calls included.    *)
(***************************************************************************)
OverStaysOver ==
  [][\A s \in Token : Generated(s) /\ Over(s) => Over(s)']_vars

\* Calls that ended in an error or with their process.
Broken(r) == outcome[r] \in {"failed", "crashed"}

(***************************************************************************)
(* A slow process, expiring keys and a Redis that errors never cost a user *)
(* the session: a session nobody signed out of, and whose tokens are       *)
(* within their seven days, has a row or a rotation about to save one,     *)
(* unless a call died or met a database error before its save.             *)
(***************************************************************************)
SessionSurvives ==
  \A s \in Token :
    ( /\ session[s] = s
      /\ s \notin loggedOut \cup signedOut
      /\ \A t \in expired : session[t] # s
      /\ \A r \in Request :
           presented[r] # NoToken /\ session[presented[r]] = s /\ Broken(r)
             => answer[r] # NoToken )
    => ~Over(s)

(***************************************************************************)
(* No row is orphaned: a row whose token no client was given belongs to a  *)
(* call that is still going to return it, or that broke after its save.    *)
(***************************************************************************)
RowsReachable ==
  \A t \in refreshTokens :
    \/ Delivered(t)
    \/ \E r \in Request :
         answer[r] = t /\ (Broken(r) \/ pc[r] \in {"store", "release"})

(***************************************************************************)
(* A refresh is told SESSION_EXPIRED only when it should be: as long as    *)
(* Redis answers and its keys live long enough, only a logout, a password  *)
(* change, the age of the token or a call that broke over this very token  *)
(* ends a session, never the race of two requests.                         *)
(***************************************************************************)
OnlyRealExpiry ==
  \A r \in Request : outcome[r] = "sessionExpired" =>
    \/ presented[r] \in expired
    \/ session[presented[r]] \in loggedOut \cup signedOut
    \/ \E q \in Request : Broken(q) /\ presented[q] = presented[r]

(***************************************************************************)
(* auth.service.ts, changePassword: "All sessions have been signed out and *)
(* will require logging in again."  No session that existed when the       *)
(* password change was acknowledged has a row afterwards.                  *)
(***************************************************************************)
SignedOutStaysOut ==
  \A t \in refreshTokens : session[t] \notin signedOut

(***************************************************************************)
(* Every refresh ends, the ones that lost the lock to a holder that        *)
(* crashed included.                                                       *)
(***************************************************************************)
RefreshTerminates ==
  \A r \in Request : pc[r] = "lock" ~> pc[r] = "done"

(***************************************************************************)
(* Rotation implements the sessions of module Sessions: the row is the     *)
(* credential, and the time between delete and save is the renewal.        *)
(***************************************************************************)
Abstract == INSTANCE Sessions WITH live <- refreshTokens, renewing <- Renewing

ImplementsSessions == Abstract!Spec
=============================================================================
