---------------------------- MODULE AccountStatus ----------------------------
(***************************************************************************)
(* The status of one account: AccountStatusService.apply, which admins     *)
(* call to change it, and UserStatusService.isActive, which every guarded  *)
(* request calls to read it through a Redis key that lives Ttl ticks.      *)
(* Calls of both overlap freely; Redis may fail at every use.              *)
(***************************************************************************)
EXTENDS Naturals

CONSTANTS
  Change,    \* calls of apply, each made once
  Check,     \* requests whose guard calls isActive, over and over
  NoStatus,  \* no keyVars value, or nothing read yet
  NoAction,
  Ttl,       \* STATUS_CACHE_TTL_SECONDS, in ticks
  MaxDelay   \* ticks a check may spend between reading the row and filling the cache

ASSUME TimingAssumption == Ttl \in Nat \ {0} /\ MaxDelay \in Nat

Status == {"active", "blocked", "suspended", "deactivated", "flagged_for_review"}

Action == {"block", "suspend", "deactivate", "reactivate", "flag_for_review"}

ASSUME NothingAssumption == NoStatus \notin Status /\ NoAction \notin Action

\* STATUS_TRANSITIONS
target == [block |-> "blocked", suspend |-> "suspended", deactivate |-> "deactivated",
           reactivate |-> "active", flag_for_review |-> "flagged_for_review"]

allowedFrom ==
  [block           |-> {"active", "suspended", "flagged_for_review"},
   suspend         |-> {"active", "flagged_for_review"},
   deactivate      |-> {"active", "blocked", "suspended", "flagged_for_review"},
   reactivate      |-> {"blocked", "suspended", "deactivated", "flagged_for_review"},
   flag_for_review |-> {"active", "suspended"}]

\* INACTIVE_STATUSES
Inactive == {"blocked", "suspended", "deactivated"}

VARIABLES
  status,       \* users.status
  audit,        \* from_status and to_status of the newest row of user_status_history
  cache,        \* the key user:status:<id>
  cacheAge,     \* ticks since it was set
  changePc,     \* the await each call of apply is at
  action,       \* its argument
  readStatus,   \* user.status as it read it
  checkPc,      \* the await each call of resolveStatus is at
  seen,         \* the status it read or returned
  readAge,      \* ticks since it read the row
  sinceChange,  \* ticks since the status last changed, up to Horizon
  startedAfter  \* sinceChange when the check began, 0 if the status changed since

row == <<status, audit>>
keyVars == <<cache, cacheAge>>
changes == <<changePc, action, readStatus>>
checks == <<checkPc, seen, readAge>>
clocks == <<sinceChange, startedAfter>>
vars == <<row, keyVars, changes, checks, clocks>>

\* By then every trace of an earlier status should be gone.
Horizon == Ttl + MaxDelay

TypeOK ==
  /\ status \in Status
  /\ audit \in [from : Status, to : Status]
  /\ cache \in Status \cup {NoStatus}
  /\ cacheAge \in 0..(Ttl - 1)
  /\ changePc \in [Change -> {"new", "read", "write", "purge", "done", "failed"}]
  /\ action \in [Change -> Action \cup {NoAction}]
  /\ readStatus \in [Change -> Status \cup {NoStatus}]
  /\ checkPc \in [Check -> {"idle", "get", "read", "fill", "done"}]
  /\ seen \in [Check -> Status \cup {NoStatus}]
  /\ readAge \in [Check -> 0..MaxDelay]
  /\ sinceChange \in 0..Horizon
  /\ startedAfter \in [Check -> 0..Horizon]

Init ==
  /\ status \in Status
  /\ audit = [from |-> status, to |-> status]
  /\ cache = NoStatus /\ cacheAge = 0
  /\ changePc = [c \in Change |-> "new"]
  /\ action = [c \in Change |-> NoAction]
  /\ readStatus = [c \in Change |-> NoStatus]
  /\ checkPc = [k \in Check |-> "idle"]
  /\ seen = [k \in Check |-> NoStatus]
  /\ readAge = [k \in Check |-> 0]
  /\ sinceChange = Horizon
  /\ startedAfter = [k \in Check |-> 0]

(***************************************************************************)
(* AccountStatusService.apply                                              *)
(***************************************************************************)

\* The call is over and its local variables with it.
EndChange(c, result) ==
  /\ changePc' = [changePc EXCEPT ![c] = result]
  /\ action' = [action EXCEPT ![c] = NoAction]
  /\ readStatus' = [readStatus EXCEPT ![c] = NoStatus]

BeginChange(c, a) ==
  /\ changePc[c] = "new"
  /\ action' = [action EXCEPT ![c] = a]
  /\ changePc' = [changePc EXCEPT ![c] = "read"]
  /\ UNCHANGED <<row, keyVars, readStatus, checks, clocks>>

\* findOne, outside any transaction, and the three ways on from what it read.
ReadUser(c) ==
  /\ changePc[c] = "read"
  /\ \/ /\ status = target[action[c]]                       \* changed: false
        /\ EndChange(c, "done")
     \/ /\ status \notin allowedFrom[action[c]] \cup {target[action[c]]}
        /\ EndChange(c, "failed")                           \* 409
     \/ /\ status \in allowedFrom[action[c]] \ {target[action[c]]}
        /\ readStatus' = [readStatus EXCEPT ![c] = status]
        /\ changePc' = [changePc EXCEPT ![c] = "write"]
        /\ UNCHANGED action
  /\ UNCHANGED <<row, keyVars, checks, clocks>>

\* The transaction: the new status and its history row, unconditionally.
Write(c) ==
  /\ changePc[c] = "write"
  /\ status' = target[action[c]]
  /\ audit' = [from |-> readStatus[c], to |-> target[action[c]]]
  /\ changePc' = [changePc EXCEPT ![c] = "purge"]
  /\ sinceChange' = 0
  /\ startedAfter' = [k \in Check |-> 0]
  /\ UNCHANGED <<keyVars, action, readStatus, checks>>

\* redis.del
Purge(c) ==
  /\ changePc[c] = "purge"
  /\ cache' = NoStatus
  /\ cacheAge' = 0
  /\ EndChange(c, "done")
  /\ UNCHANGED <<row, checks, clocks>>

\* The transaction rolls back, or Redis fails or the process dies after it.
ChangeFails(c) ==
  /\ changePc[c] \in {"read", "write", "purge"}
  /\ EndChange(c, "failed")
  /\ UNCHANGED <<row, keyVars, checks, clocks>>

(***************************************************************************)
(* UserStatusService.resolveStatus                                         *)
(***************************************************************************)

BeginCheck(k) ==
  /\ checkPc[k] \in {"idle", "done"}
  /\ checkPc' = [checkPc EXCEPT ![k] = "get"]
  /\ seen' = [seen EXCEPT ![k] = NoStatus]
  /\ startedAfter' = [startedAfter EXCEPT ![k] = sinceChange]
  /\ UNCHANGED <<row, keyVars, changes, readAge, sinceChange>>

\* Mutant: a hit extends the life of the key, as a sliding expiration would.
CacheHitExtends(k) ==
  /\ checkPc[k] = "get"
  /\ cache # NoStatus
  /\ seen' = [seen EXCEPT ![k] = cache]
  /\ cacheAge' = 0
  /\ checkPc' = [checkPc EXCEPT ![k] = "done"]
  /\ UNCHANGED <<row, cache, changes, readAge, clocks>>

CacheHit(k) ==
  /\ checkPc[k] = "get"
  /\ cache # NoStatus
  /\ seen' = [seen EXCEPT ![k] = cache]
  /\ checkPc' = [checkPc EXCEPT ![k] = "done"]
  /\ UNCHANGED <<row, keyVars, changes, readAge, clocks>>

\* The key is absent, or Redis failed: go to the table.
CacheMiss(k) ==
  /\ checkPc[k] = "get"
  /\ checkPc' = [checkPc EXCEPT ![k] = "read"]
  /\ UNCHANGED <<row, keyVars, changes, seen, readAge, clocks>>

ReadRow(k) ==
  /\ checkPc[k] = "read"
  /\ seen' = [seen EXCEPT ![k] = status]
  /\ readAge' = [readAge EXCEPT ![k] = 0]
  /\ checkPc' = [checkPc EXCEPT ![k] = "fill"]
  /\ UNCHANGED <<row, keyVars, changes, clocks>>

\* SET with the TTL, whatever has happened to the row since.
Fill(k) ==
  /\ checkPc[k] = "fill"
  /\ cache' = seen[k]
  /\ cacheAge' = 0
  /\ checkPc' = [checkPc EXCEPT ![k] = "done"]
  /\ readAge' = [readAge EXCEPT ![k] = 0]
  /\ UNCHANGED <<row, changes, seen, clocks>>

FillFails(k) ==
  /\ checkPc[k] = "fill"
  /\ checkPc' = [checkPc EXCEPT ![k] = "done"]
  /\ readAge' = [readAge EXCEPT ![k] = 0]
  /\ UNCHANGED <<row, keyVars, changes, seen, clocks>>

(***************************************************************************)
(* Time.  A tick waits for a check that has been filling for MaxDelay.     *)
(***************************************************************************)
Filling(k) == checkPc[k] = "fill"

\* Mutant: the key lives one tick longer than its TTL.
TickTooLong ==
  /\ \A k \in Check : Filling(k) => readAge[k] < MaxDelay
  /\ readAge' = [k \in Check |-> IF Filling(k) THEN readAge[k] + 1 ELSE readAge[k]]
  /\ sinceChange' = IF sinceChange < Horizon THEN sinceChange + 1 ELSE Horizon
  /\ \/ cache = NoStatus /\ UNCHANGED keyVars
     \/ cache # NoStatus /\ cacheAge < Ttl /\ cacheAge' = cacheAge + 1 /\ UNCHANGED cache
     \/ cache # NoStatus /\ cacheAge >= Ttl /\ cacheAge' = 0 /\ cache' = NoStatus
  /\ UNCHANGED <<row, changes, checkPc, seen, startedAfter>>

Tick ==
  /\ \A k \in Check : Filling(k) => readAge[k] < MaxDelay
  /\ readAge' = [k \in Check |-> IF Filling(k) THEN readAge[k] + 1 ELSE readAge[k]]
  /\ sinceChange' = IF sinceChange < Horizon THEN sinceChange + 1 ELSE Horizon
  /\ \/ cache = NoStatus /\ UNCHANGED keyVars
     \/ cache # NoStatus /\ cacheAge + 1 < Ttl /\ cacheAge' = cacheAge + 1 /\ UNCHANGED cache
     \/ cache # NoStatus /\ cacheAge + 1 >= Ttl /\ cacheAge' = 0 /\ cache' = NoStatus
  /\ UNCHANGED <<row, changes, checkPc, seen, startedAfter>>

ChangeStep(c) == ReadUser(c) \/ Write(c) \/ Purge(c) \/ ChangeFails(c)

CheckStep(k) == CacheHit(k) \/ CacheMiss(k) \/ ReadRow(k) \/ Fill(k) \/ FillFails(k)

Next ==
  \/ \E c \in Change : ChangeStep(c) \/ \E a \in Action : BeginChange(c, a)
  \/ \E k \in Check : CheckStep(k) \/ BeginCheck(k)
  \/ Tick

Spec == Init /\ [][Next]_vars

(***************************************************************************)
(* Properties.                                                             *)
(***************************************************************************)

\* isActive, once the check has returned.
IsActive(k) == seen[k] \notin Inactive

(***************************************************************************)
(* A status change takes hold within the TTL of the cache plus the time a  *)
(* check may be slow: a request whose guard begins its check that long     *)
(* after the last change is let in or turned away by the status in the     *)
(* table.  It holds whatever Redis and the admin's call went through: a    *)
(* DEL that failed, a retry that found nothing to change and so deleted    *)
(* nothing, and checks that read the row before the change and filled the  *)
(* cache after its DEL.                                                    *)
(***************************************************************************)
ChangeTakesHold ==
  \A k \in Check :
    checkPc[k] = "done" /\ startedAfter[k] >= Horizon
      => (IsActive(k) <=> status \notin Inactive)

(***************************************************************************)
(* admin-users.controller.ts: "Applies an audited status action [...].     *)
(* Invalid transitions are rejected with 409".  Every change of status     *)
(* follows the transition table, and its history row says where it came    *)
(* from.                                                                   *)
(***************************************************************************)
AuditedTransitions ==
  [][status' # status =>
       /\ audit' = [from |-> status, to |-> status']
       /\ \E a \in Action : status \in allowedFrom[a] /\ status' = target[a]]_vars
=============================================================================
