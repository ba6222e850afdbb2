----------------------------- MODULE RateLimits -----------------------------
(***************************************************************************)
(* UsernameRateLimitGuard for one caller: RateLimiterService.isAllowed     *)
(* counts in Redis, and while Redis fails each process counts in its       *)
(* memory, here one.  RedisService.increment counts in the same way.       *)
(***************************************************************************)
EXTENDS Naturals, FiniteSets

CONSTANTS
  LimitedCall,   \* requests at a time, each for ever anew
  MaxAttempts,   \* isAllowed's parameter
  FallbackLimit,
  MaxHits        \* bound: requests in one window

ASSUME LimitsAssumption ==
  /\ MaxAttempts \in Nat \ {0} /\ FallbackLimit \in Nat \ {0}
  /\ MaxHits \in Nat /\ MaxHits > MaxAttempts /\ MaxHits > FallbackLimit

VARIABLES
  hits,         \* the counter, 0 if there is none
  hitsExpire,   \* whether it has a time to live
  guardPc,      \* "idle", "expire" or "fallback"
  entryCount,   \* count of the caller's entry in fallbackStore, or 0
  entryOver,    \* whether its resetAt has passed
  served,       \* requests let through in this window of Redis, and of the memory
  unexpiring    \* an EXPIRE has failed or its caller died, since the counter began

limitVars == <<hits, hitsExpire, guardPc, entryCount, entryOver, served, unexpiring>>

RLTypeOK ==
  /\ hits \in 0..MaxHits
  /\ hitsExpire \in BOOLEAN
  /\ guardPc \in [LimitedCall -> {"idle", "expire", "fallback"}]
  /\ entryCount \in 0..MaxHits
  /\ entryOver \in BOOLEAN
  /\ served \in [redis : Nat, memory : Nat]
  /\ unexpiring \in BOOLEAN

RLInit ==
  /\ hits = 0 /\ hitsExpire = FALSE
  /\ guardPc = [c \in LimitedCall |-> "idle"]
  /\ entryCount = 0 /\ entryOver = FALSE
  /\ served = [redis |-> 0, memory |-> 0]
  /\ unexpiring = FALSE

GuardGoTo(c, label) == guardPc' = [guardPc EXCEPT ![c] = label]

\* Mutant: the count is compared as it was before.
SetsExpiryLate(count) == count = 2

SetsExpiry(count) == count = 1

\* INCR; the first one is to set the time to live.
isAllowed(c) ==
  /\ guardPc[c] = "idle" /\ hits < MaxHits
  /\ hits' = hits + 1
  /\ GuardGoTo(c, IF SetsExpiry(hits') THEN "expire" ELSE "idle")
  /\ served' = [served EXCEPT !.redis = IF hits' <= MaxAttempts THEN @ + 1 ELSE @]
  /\ UNCHANGED <<hitsExpire, entryCount, entryOver, unexpiring>>

\* EXPIRE of the key.
Expire(c) ==
  /\ guardPc[c] = "expire"
  /\ hitsExpire' = (hits > 0)
  /\ GuardGoTo(c, "idle")
  /\ UNCHANGED <<hits, entryCount, entryOver, served, unexpiring>>

\* INCR or EXPIRE fails, before or after it has been carried out.
LimiterFails(c) ==
  /\ \/ /\ guardPc[c] = "idle" /\ hits < MaxHits
        /\ hits' \in {hits, hits + 1}
        /\ unexpiring' = (unexpiring \/ hits' = 1)
        /\ UNCHANGED hitsExpire
     \/ /\ guardPc[c] = "expire"
        /\ hitsExpire' \in {hitsExpire, hits > 0}
        /\ unexpiring' = (unexpiring \/ (hits > 0 /\ ~hitsExpire'))
        /\ UNCHANGED hits
  /\ GuardGoTo(c, "fallback")
  /\ UNCHANGED <<entryCount, entryOver, served>>

\* The guard's catch.
UseFallback(c) ==
  /\ guardPc[c] = "fallback" /\ (entryOver \/ entryCount < MaxHits)
  /\ entryOver' = FALSE
  /\ entryCount' = IF entryOver THEN 1 ELSE entryCount + 1
  /\ served' = [served EXCEPT !.memory = IF entryOver THEN 1
                                         ELSE IF entryCount' <= FallbackLimit THEN @ + 1 ELSE @]
  /\ GuardGoTo(c, "idle")
  /\ UNCHANGED <<hits, hitsExpire, unexpiring>>

\* The process dies, and its memory with it.
LimiterDies ==
  /\ guardPc' = [c \in LimitedCall |-> "idle"]
  /\ unexpiring' = (unexpiring \/ (hits > 0 /\ ~hitsExpire))
  /\ entryCount' = 0 /\ entryOver' = FALSE
  /\ served' = [served EXCEPT !.memory = 0]
  /\ UNCHANGED <<hits, hitsExpire>>

\* The counter expires, or login or verifyOtp has succeeded and deletes it.
DropCounter ==
  /\ hits > 0
  /\ hits' = 0 /\ hitsExpire' = FALSE /\ unexpiring' = FALSE
  /\ served' = [served EXCEPT !.redis = 0]
  /\ UNCHANGED <<guardPc, entryCount, entryOver>>

EntryRunsOut ==
  /\ entryCount > 0 /\ ~entryOver
  /\ entryOver' = TRUE
  /\ UNCHANGED <<hits, hitsExpire, guardPc, entryCount, served, unexpiring>>

RLNext ==
  \/ \E c \in LimitedCall : isAllowed(c) \/ Expire(c) \/ LimiterFails(c) \/ UseFallback(c)
  \/ LimiterDies \/ DropCounter \/ EntryRunsOut

RLSpec == RLInit /\ [][RLNext]_limitVars

(***************************************************************************)
(* Properties.                                                             *)
(***************************************************************************)

(***************************************************************************)
(* A limit lets through what it says while Redis counts, and no more than  *)
(* FALLBACK_LIMIT besides while it does not; and it lifts: the counter     *)
(* will expire, unless the one request that was to see to it has failed    *)
(* or died, even if the counter is deleted and begins again meanwhile.     *)
(***************************************************************************)
LimitHoldsAndLifts ==
  /\ served.redis <= MaxAttempts /\ served.memory <= FallbackLimit
  /\ hits > 0 => hitsExpire \/ unexpiring \/ \E c \in LimitedCall : guardPc[c] = "expire"
=============================================================================
