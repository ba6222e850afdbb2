----------------------- MODULE TokenRotation_proofs -----------------------
(***************************************************************************)
(* Proofs that refresh-token rotation keeps its promises for any number of *)
(* tokens, users and calls, and for any combination of disruptions.        *)
(***************************************************************************)
EXTENDS TokenRotation, TLAPS

(***************************************************************************)
(* The inductive invariant.                                                *)
(***************************************************************************)

\* A call that may still poll has rounds left.
RoundsLeft ==
  \A r \in Request : pc[r] \in {"new", "lock", "wait"} => polls[r] < PollAttempts

\* Nothing refers to a token that has not been generated.
WellFormed ==
  /\ \A t \in refreshTokens : Generated(t)
  /\ \A t \in Token : owner[t] # NoUser => Generated(t)
  /\ \A t \in Token : Generated(t) => Generated(session[t])
  /\ \A t \in Token : grace[t] # NoToken => Generated(t) /\ Generated(grace[t])
  /\ \A r \in Request : pc[r] # "new" =>
       presented[r] # NoToken /\ Generated(presented[r])
  /\ \A r \in Request : answer[r] # NoToken =>
       pc[r] # "new" /\ Generated(answer[r])
  /\ \A r \in Request :
       pc[r] = "store" \/ outcome[r] \in {"rotated", "shared"} => answer[r] # NoToken

\* One call at a time is between the delete and the save of a session.
OneTaker ==
  \A r, q \in Request :
    pc[r] = "save" /\ pc[q] = "save" /\ session[presented[r]] = session[presented[q]]
      => r = q

\* A token that was rotated: somebody has, or may read, what replaced it.
Succeeded(t) ==
  \/ grace[t] # NoToken
  \/ \E r \in Request : presented[r] = t /\ answer[r] # NoToken

\* Every trace of what replaced a token names the same token of its session.
Succession ==
  /\ \A t \in Token : Succeeded(t) =>
       /\ t \notin refreshTokens
       /\ \A r \in Request : presented[r] = t => pc[r] # "save"
  /\ \A r, q \in Request :
       presented[r] = presented[q] /\ answer[r] # NoToken /\ answer[q] # NoToken
         => answer[r] = answer[q]
  /\ \A r \in Request :
       answer[r] # NoToken /\ grace[presented[r]] # NoToken
         => answer[r] = grace[presented[r]]
  /\ \A r \in Request : answer[r] # NoToken =>
       /\ session[answer[r]] = session[presented[r]]
       /\ owner[answer[r]] = owner[presented[r]]
  /\ \A t \in Token : grace[t] # NoToken =>
       session[grace[t]] = session[t] /\ owner[grace[t]] = owner[t]

IInv == TypeOK /\ RoundsLeft /\ WellFormed /\ SessionUnforked /\ OneTaker /\ Succession

-----------------------------------------------------------------------------
(***************************************************************************)
(* Type correctness, the bound of the polling loop, and references.        *)
(***************************************************************************)
LEMMA TypeInductive ==
  ASSUME TypeOK, RoundsLeft, WellFormed, [Next]_vars
  PROVE TypeOK' /\ RoundsLeft'
<1> USE ConstantsAssumption DEF TypeOK, RoundsLeft, WellFormed, Generated,
      Phases, Outcomes, GoTo, Finish, Return, table, redis, calls, signOuts
<1>1. ASSUME NEW u \in User, NEW t \in Token, GenerateRefreshToken(u, t)
      PROVE TypeOK' /\ RoundsLeft'
  BY <1>1 DEF GenerateRefreshToken, SaveRecord
<1>2. ASSUME NEW t \in Token, InvalidateRefreshToken(t)
      PROVE TypeOK' /\ RoundsLeft'
  BY <1>2 DEF InvalidateRefreshToken, Delivered, Answered
<1>3. ASSUME NEW u \in User, InvalidateAllRefreshTokens(u)
      PROVE TypeOK' /\ RoundsLeft'
  BY <1>3 DEF InvalidateAllRefreshTokens, SessionsOf
<1>4. ASSUME NEW r \in Request, NEW t \in Token, Begin(r, t)
      PROVE TypeOK' /\ RoundsLeft'
  BY <1>4 DEF Begin
<1>5. ASSUME NEW r \in Request, AcquireLock(r)
      PROVE TypeOK' /\ RoundsLeft'
  BY <1>5 DEF AcquireLock
<1>6. ASSUME NEW r \in Request, LoseLock(r)
      PROVE TypeOK' /\ RoundsLeft'
  BY <1>6 DEF LoseLock
<1>7. ASSUME NEW r \in Request, AcquireFailsOpen(r)
      PROVE TypeOK' /\ RoundsLeft'
  BY <1>7 DEF AcquireFailsOpen
<1>8. ASSUME NEW r \in Request, PollFindsGrace(r)
      PROVE TypeOK' /\ RoundsLeft'
  BY <1>8 DEF PollFindsGrace
<1>9. ASSUME NEW r \in Request, PollMisses(r)
      PROVE TypeOK' /\ RoundsLeft'
  BY <1>9 DEF PollMisses
<1>10. ASSUME NEW r \in Request, FindRecord(r)
      PROVE TypeOK' /\ RoundsLeft'
  BY <1>10 DEF FindRecord
<1>11. ASSUME NEW r \in Request, ReadGraceHit(r)
      PROVE TypeOK' /\ RoundsLeft'
  BY <1>11 DEF ReadGraceHit
<1>12. ASSUME NEW r \in Request, ReadGraceMiss(r)
      PROVE TypeOK' /\ RoundsLeft'
  BY <1>12 DEF ReadGraceMiss
<1>13. ASSUME NEW r \in Request, DeleteExpired(r)
      PROVE TypeOK' /\ RoundsLeft'
  BY <1>13 DEF DeleteExpired
<1>14. ASSUME NEW r \in Request, DeleteRecord(r)
      PROVE TypeOK' /\ RoundsLeft'
  BY <1>14 DEF DeleteRecord
<1>15. ASSUME NEW r \in Request, DeleteAffectsNothing(r)
      PROVE TypeOK' /\ RoundsLeft'
  BY <1>15 DEF DeleteAffectsNothing
<1>16. ASSUME NEW r \in Request, NEW n \in Token, SaveSuccessor(r, n)
      PROVE TypeOK' /\ RoundsLeft'
  BY <1>16 DEF SaveSuccessor, SaveRecord
<1>17. ASSUME NEW r \in Request, StoreGrace(r)
      PROVE TypeOK' /\ RoundsLeft'
  BY <1>17 DEF StoreGrace
<1>18. ASSUME NEW r \in Request, ReleaseLock(r)
      PROVE TypeOK' /\ RoundsLeft'
  BY <1>18 DEF ReleaseLock
<1>19. ASSUME NEW r \in Request, ReleaseFails(r)
      PROVE TypeOK' /\ RoundsLeft'
  BY <1>19 DEF ReleaseFails
<1>20. ASSUME NEW r \in Request, QueryFails(r)
      PROVE TypeOK' /\ RoundsLeft'
  BY <1>20 DEF QueryFails
<1>21. ASSUME NEW r \in Request, Crash(r)
      PROVE TypeOK' /\ RoundsLeft'
  BY <1>21 DEF Crash
<1>22. ASSUME NEW t \in Token, LockExpires(t)
      PROVE TypeOK' /\ RoundsLeft'
  BY <1>22 DEF LockExpires
<1>23. ASSUME NEW t \in Token, GraceExpires(t)
      PROVE TypeOK' /\ RoundsLeft'
  BY <1>23 DEF GraceExpires
<1>24. ASSUME NEW t \in Token, TokenExpires(t)
      PROVE TypeOK' /\ RoundsLeft'
  BY <1>24 DEF TokenExpires
<1>25. CASE UNCHANGED vars
  BY <1>25 DEF vars
<1> QED
  BY <1>1, <1>2, <1>3, <1>4, <1>5, <1>6, <1>7, <1>8, <1>9, <1>10, <1>11, <1>12, <1>13, <1>14,
     <1>15, <1>16, <1>17, <1>18, <1>19, <1>20, <1>21, <1>22, <1>23, <1>24, <1>25 DEF Next, Step

(***************************************************************************)
(* Whatever the row, a call or the grace key refers to has been generated. *)
(***************************************************************************)
LEMMA WellFormedInductive ==
  ASSUME TypeOK, RoundsLeft, WellFormed, [Next]_vars
  PROVE WellFormed'
<1> USE ConstantsAssumption DEF TypeOK, WellFormed, Generated, Delivered, Answered,
      GoTo, Finish, Return, table, redis, calls, signOuts
<1>1. ASSUME NEW u \in User, NEW t \in Token, GenerateRefreshToken(u, t)
      PROVE WellFormed'
  BY <1>1 DEF GenerateRefreshToken, SaveRecord
<1>2. ASSUME NEW t \in Token, InvalidateRefreshToken(t)
      PROVE WellFormed'
  BY <1>2 DEF InvalidateRefreshToken
<1>3. ASSUME NEW u \in User, InvalidateAllRefreshTokens(u)
      PROVE WellFormed'
  BY <1>3 DEF InvalidateAllRefreshTokens, SessionsOf
<1>4. ASSUME NEW r \in Request, NEW t \in Token, Begin(r, t)
      PROVE WellFormed'
  BY <1>4 DEF Begin
<1>5. ASSUME NEW r \in Request, AcquireLock(r)
      PROVE WellFormed'
  BY <1>5 DEF AcquireLock
<1>6. ASSUME NEW r \in Request, LoseLock(r)
      PROVE WellFormed'
  BY <1>6 DEF LoseLock
<1>7. ASSUME NEW r \in Request, AcquireFailsOpen(r)
      PROVE WellFormed'
  BY <1>7 DEF AcquireFailsOpen
<1>8. ASSUME NEW r \in Request, PollFindsGrace(r)
      PROVE WellFormed'
  BY <1>8 DEF PollFindsGrace
<1>9. ASSUME NEW r \in Request, PollMisses(r)
      PROVE WellFormed'
  BY <1>9 DEF PollMisses
<1>10. ASSUME NEW r \in Request, FindRecord(r)
      PROVE WellFormed'
  BY <1>10 DEF FindRecord
<1>11. ASSUME NEW r \in Request, ReadGraceHit(r)
      PROVE WellFormed'
  BY <1>11 DEF ReadGraceHit
<1>12. ASSUME NEW r \in Request, ReadGraceMiss(r)
      PROVE WellFormed'
  BY <1>12 DEF ReadGraceMiss
<1>13. ASSUME NEW r \in Request, DeleteExpired(r)
      PROVE WellFormed'
  BY <1>13 DEF DeleteExpired
<1>14. ASSUME NEW r \in Request, DeleteRecord(r)
      PROVE WellFormed'
  BY <1>14 DEF DeleteRecord
<1>15. ASSUME NEW r \in Request, DeleteAffectsNothing(r)
      PROVE WellFormed'
  BY <1>15 DEF DeleteAffectsNothing
<1>16. ASSUME NEW r \in Request, NEW n \in Token, SaveSuccessor(r, n)
      PROVE WellFormed'
  BY <1>16 DEF SaveSuccessor, SaveRecord
<1>17. ASSUME NEW r \in Request, StoreGrace(r)
      PROVE WellFormed'
  BY <1>17 DEF StoreGrace
<1>18. ASSUME NEW r \in Request, ReleaseLock(r)
      PROVE WellFormed'
  BY <1>18 DEF ReleaseLock
<1>19. ASSUME NEW r \in Request, ReleaseFails(r)
      PROVE WellFormed'
  BY <1>19 DEF ReleaseFails
<1>20. ASSUME NEW r \in Request, QueryFails(r)
      PROVE WellFormed'
  BY <1>20 DEF QueryFails
<1>21. ASSUME NEW r \in Request, Crash(r)
      PROVE WellFormed'
  BY <1>21 DEF Crash
<1>22. ASSUME NEW t \in Token, LockExpires(t)
      PROVE WellFormed'
  BY <1>22 DEF LockExpires
<1>23. ASSUME NEW t \in Token, GraceExpires(t)
      PROVE WellFormed'
  BY <1>23 DEF GraceExpires
<1>24. ASSUME NEW t \in Token, TokenExpires(t)
      PROVE WellFormed'
  BY <1>24 DEF TokenExpires
<1>25. CASE UNCHANGED vars
  BY <1>25 DEF vars
<1> QED
  BY <1>1, <1>2, <1>3, <1>4, <1>5, <1>6, <1>7, <1>8, <1>9, <1>10, <1>11, <1>12, <1>13, <1>14,
     <1>15, <1>16, <1>17, <1>18, <1>19, <1>20, <1>21, <1>22, <1>23, <1>24, <1>25 DEF Next, Step

-----------------------------------------------------------------------------
(***************************************************************************)
(* A session never forks.                                                  *)
(***************************************************************************)
LEMMA UnforkedInductive ==
  ASSUME TypeOK, WellFormed, SessionUnforked, OneTaker, [Next]_vars
  PROVE SessionUnforked' /\ OneTaker'
<1> USE ConstantsAssumption DEF TypeOK, WellFormed, SessionUnforked, OneTaker, Renewing,
      Generated, GoTo, Finish, Return, table, redis, calls, signOuts
<1>1. ASSUME NEW u \in User, NEW t \in Token, GenerateRefreshToken(u, t)
      PROVE SessionUnforked' /\ OneTaker'
  BY <1>1 DEF GenerateRefreshToken, SaveRecord
<1>2. ASSUME NEW t \in Token, InvalidateRefreshToken(t)
      PROVE SessionUnforked' /\ OneTaker'
  BY <1>2 DEF InvalidateRefreshToken
<1>3. ASSUME NEW u \in User, InvalidateAllRefreshTokens(u)
      PROVE SessionUnforked' /\ OneTaker'
  BY <1>3 DEF InvalidateAllRefreshTokens, SessionsOf
<1>4. ASSUME NEW r \in Request, NEW t \in Token, Begin(r, t)
      PROVE SessionUnforked' /\ OneTaker'
  BY <1>4 DEF Begin
<1>5. ASSUME NEW r \in Request, AcquireLock(r)
      PROVE SessionUnforked' /\ OneTaker'
  BY <1>5 DEF AcquireLock
<1>6. ASSUME NEW r \in Request, LoseLock(r)
      PROVE SessionUnforked' /\ OneTaker'
  BY <1>6 DEF LoseLock
<1>7. ASSUME NEW r \in Request, AcquireFailsOpen(r)
      PROVE SessionUnforked' /\ OneTaker'
  BY <1>7 DEF AcquireFailsOpen
<1>8. ASSUME NEW r \in Request, PollFindsGrace(r)
      PROVE SessionUnforked' /\ OneTaker'
  BY <1>8 DEF PollFindsGrace
<1>9. ASSUME NEW r \in Request, PollMisses(r)
      PROVE SessionUnforked' /\ OneTaker'
  BY <1>9 DEF PollMisses
<1>10. ASSUME NEW r \in Request, FindRecord(r)
      PROVE SessionUnforked' /\ OneTaker'
  BY <1>10 DEF FindRecord
<1>11. ASSUME NEW r \in Request, ReadGraceHit(r)
      PROVE SessionUnforked' /\ OneTaker'
  BY <1>11 DEF ReadGraceHit
<1>12. ASSUME NEW r \in Request, ReadGraceMiss(r)
      PROVE SessionUnforked' /\ OneTaker'
  BY <1>12 DEF ReadGraceMiss
<1>13. ASSUME NEW r \in Request, DeleteExpired(r)
      PROVE SessionUnforked' /\ OneTaker'
  BY <1>13 DEF DeleteExpired
<1>14. ASSUME NEW r \in Request, DeleteRecord(r)
      PROVE SessionUnforked' /\ OneTaker'
  BY <1>14 DEF DeleteRecord
<1>15. ASSUME NEW r \in Request, DeleteAffectsNothing(r)
      PROVE SessionUnforked' /\ OneTaker'
  BY <1>15 DEF DeleteAffectsNothing
<1>16. ASSUME NEW r \in Request, NEW n \in Token, SaveSuccessor(r, n)
      PROVE SessionUnforked' /\ OneTaker'
  BY <1>16 DEF SaveSuccessor, SaveRecord
<1>17. ASSUME NEW r \in Request, StoreGrace(r)
      PROVE SessionUnforked' /\ OneTaker'
  BY <1>17 DEF StoreGrace
<1>18. ASSUME NEW r \in Request, ReleaseLock(r)
      PROVE SessionUnforked' /\ OneTaker'
  BY <1>18 DEF ReleaseLock
<1>19. ASSUME NEW r \in Request, ReleaseFails(r)
      PROVE SessionUnforked' /\ OneTaker'
  BY <1>19 DEF ReleaseFails
<1>20. ASSUME NEW r \in Request, QueryFails(r)
      PROVE SessionUnforked' /\ OneTaker'
  BY <1>20 DEF QueryFails
<1>21. ASSUME NEW r \in Request, Crash(r)
      PROVE SessionUnforked' /\ OneTaker'
  BY <1>21 DEF Crash
<1>22. ASSUME NEW t \in Token, LockExpires(t)
      PROVE SessionUnforked' /\ OneTaker'
  BY <1>22 DEF LockExpires
<1>23. ASSUME NEW t \in Token, GraceExpires(t)
      PROVE SessionUnforked' /\ OneTaker'
  BY <1>23 DEF GraceExpires
<1>24. ASSUME NEW t \in Token, TokenExpires(t)
      PROVE SessionUnforked' /\ OneTaker'
  BY <1>24 DEF TokenExpires
<1>25. CASE UNCHANGED vars
  BY <1>25 DEF vars
<1> QED
  BY <1>1, <1>2, <1>3, <1>4, <1>5, <1>6, <1>7, <1>8, <1>9, <1>10, <1>11, <1>12, <1>13, <1>14,
     <1>15, <1>16, <1>17, <1>18, <1>19, <1>20, <1>21, <1>22, <1>23, <1>24, <1>25 DEF Next, Step

(***************************************************************************)
(* Everything that names the successor of a token names the same one.      *)
(***************************************************************************)
LEMMA SuccessionInductive ==
  ASSUME TypeOK, WellFormed, SessionUnforked, OneTaker, Succession, [Next]_vars
  PROVE Succession'
<1> USE ConstantsAssumption DEF TypeOK, WellFormed, OneTaker, Succession, Succeeded,
      Generated, GoTo, Finish, Return, table, redis, calls, signOuts
<1>1. ASSUME NEW u \in User, NEW t \in Token, GenerateRefreshToken(u, t)
      PROVE Succession'
  BY <1>1 DEF GenerateRefreshToken, SaveRecord
<1>2. ASSUME NEW t \in Token, InvalidateRefreshToken(t)
      PROVE Succession'
  BY <1>2 DEF InvalidateRefreshToken
<1>3. ASSUME NEW u \in User, InvalidateAllRefreshTokens(u)
      PROVE Succession'
  BY <1>3 DEF InvalidateAllRefreshTokens, SessionsOf
<1>4. ASSUME NEW r \in Request, NEW t \in Token, Begin(r, t)
      PROVE Succession'
  BY <1>4 DEF Begin
<1>5. ASSUME NEW r \in Request, AcquireLock(r)
      PROVE Succession'
  BY <1>5 DEF AcquireLock
<1>6. ASSUME NEW r \in Request, LoseLock(r)
      PROVE Succession'
  BY <1>6 DEF LoseLock
<1>7. ASSUME NEW r \in Request, AcquireFailsOpen(r)
      PROVE Succession'
  BY <1>7 DEF AcquireFailsOpen
<1>8. ASSUME NEW r \in Request, PollFindsGrace(r)
      PROVE Succession'
  BY <1>8 DEF PollFindsGrace
<1>9. ASSUME NEW r \in Request, PollMisses(r)
      PROVE Succession'
  BY <1>9 DEF PollMisses
<1>10. ASSUME NEW r \in Request, FindRecord(r)
      PROVE Succession'
  BY <1>10 DEF FindRecord
<1>11. ASSUME NEW r \in Request, ReadGraceHit(r)
      PROVE Succession'
  BY <1>11 DEF ReadGraceHit
<1>12. ASSUME NEW r \in Request, ReadGraceMiss(r)
      PROVE Succession'
  BY <1>12 DEF ReadGraceMiss
<1>13. ASSUME NEW r \in Request, DeleteExpired(r)
      PROVE Succession'
  BY <1>13 DEF DeleteExpired
<1>14. ASSUME NEW r \in Request, DeleteRecord(r)
      PROVE Succession'
  BY <1>14 DEF DeleteRecord
<1>15. ASSUME NEW r \in Request, DeleteAffectsNothing(r)
      PROVE Succession'
  BY <1>15 DEF DeleteAffectsNothing
<1>16. ASSUME NEW r \in Request, NEW n \in Token, SaveSuccessor(r, n)
      PROVE Succession'
  <2> DEFINE t == presented[r]
  <2>0. /\ t \in Token /\ Generated(t) /\ ~Generated(n) /\ n # t
        /\ session' = [session EXCEPT ![n] = session[t]]
        /\ owner' = [owner EXCEPT ![n] = owner[t]]
        /\ refreshTokens' = refreshTokens \cup {n}
        /\ answer' = [answer EXCEPT ![r] = n]
        /\ pc' = [pc EXCEPT ![r] = "store"]
        /\ UNCHANGED <<presented, grace>>
    BY <1>16 DEF SaveSuccessor, SaveRecord
  <2>1. ~Succeeded(t)
    BY <1>16, <2>0 DEF SaveSuccessor
  <2>2. \A q \in Request : presented[q] = t /\ q # r => pc[q] # "save"
    BY <1>16 DEF SaveSuccessor
  <2>3. ASSUME NEW x \in Token, Succeeded(x)'
        PROVE  x \notin refreshTokens' /\ \A q \in Request : presented'[q] = x => pc'[q] # "save"
    <3>1. CASE x = t
      <4>1. t \notin refreshTokens
        BY <1>16 DEF SaveSuccessor, SessionUnforked, Renewing
      <4> QED
        BY <4>1, <2>0, <2>2, <3>1
    <3>2. CASE x # t
      <4>1. Succeeded(x)
        BY <2>0, <2>3, <3>2
      <4>2. x # n
        BY <4>1, <2>0
      <4> QED
        BY <4>1, <4>2, <2>0
    <3> QED
      BY <3>1, <3>2
  <2>4. \A q, p \in Request :
          presented'[q] = presented'[p] /\ answer'[q] # NoToken /\ answer'[p] # NoToken
            => answer'[q] = answer'[p]
    BY <2>0, <2>1
  <2>5. \A q \in Request : answer'[q] # NoToken /\ grace'[presented'[q]] # NoToken
          => answer'[q] = grace'[presented'[q]]
    BY <2>0, <2>1
  <2>6. \A q \in Request : answer'[q] # NoToken =>
          /\ session'[answer'[q]] = session'[presented'[q]]
          /\ owner'[answer'[q]] = owner'[presented'[q]]
    BY <2>0
  <2>7. \A x \in Token : grace'[x] # NoToken =>
          session'[grace'[x]] = session'[x] /\ owner'[grace'[x]] = owner'[x]
    BY <2>0
  <2> QED
    BY <2>3, <2>4, <2>5, <2>6, <2>7
<1>17. ASSUME NEW r \in Request, StoreGrace(r)
      PROVE Succession'
  BY <1>17 DEF StoreGrace
<1>18. ASSUME NEW r \in Request, ReleaseLock(r)
      PROVE Succession'
  BY <1>18 DEF ReleaseLock
<1>19. ASSUME NEW r \in Request, ReleaseFails(r)
      PROVE Succession'
  BY <1>19 DEF ReleaseFails
<1>20. ASSUME NEW r \in Request, QueryFails(r)
      PROVE Succession'
  BY <1>20 DEF QueryFails
<1>21. ASSUME NEW r \in Request, Crash(r)
      PROVE Succession'
  BY <1>21 DEF Crash
<1>22. ASSUME NEW t \in Token, LockExpires(t)
      PROVE Succession'
  BY <1>22 DEF LockExpires
<1>23. ASSUME NEW t \in Token, GraceExpires(t)
      PROVE Succession'
  BY <1>23 DEF GraceExpires
<1>24. ASSUME NEW t \in Token, TokenExpires(t)
      PROVE Succession'
  BY <1>24 DEF TokenExpires
<1>25. CASE UNCHANGED vars
  BY <1>25 DEF vars
<1> QED
  BY <1>1, <1>2, <1>3, <1>4, <1>5, <1>6, <1>7, <1>8, <1>9, <1>10, <1>11, <1>12, <1>13, <1>14,
     <1>15, <1>16, <1>17, <1>18, <1>19, <1>20, <1>21, <1>22, <1>23, <1>24, <1>25 DEF Next, Step

-----------------------------------------------------------------------------
(***************************************************************************)
(* The inductive invariant holds in every reachable state.                 *)
(***************************************************************************)
LEMMA Inductive == Spec => []IInv
<1>1. Init => IInv
  BY ConstantsAssumption DEF Init, IInv, TypeOK, Phases, Outcomes, RoundsLeft, WellFormed,
     Generated, SessionUnforked, Renewing, OneTaker, Succession, Succeeded
<1>2. IInv /\ [Next]_vars => IInv'
  BY TypeInductive, WellFormedInductive, UnforkedInductive, SuccessionInductive DEF IInv
<1> QED
  BY <1>1, <1>2, PTL DEF Spec

(***************************************************************************)
(* Every variable keeps to its type.                                       *)
(***************************************************************************)
THEOREM TypeCorrect == Spec => []TypeOK
<1>1. IInv => TypeOK
  BY DEF IInv
<1> QED
  BY <1>1, Inductive, PTL

(***************************************************************************)
(* However many calls present a token and whatever goes wrong between two  *)
(* of their steps, a sign-in has at most one row in refresh_tokens.        *)
(***************************************************************************)
THEOREM NeverForked == Spec => []SessionUnforked
<1>1. IInv => SessionUnforked
  BY DEF IInv
<1> QED
  BY <1>1, Inductive, PTL

(***************************************************************************)
(* Calls that present the same token and succeed return the same token.    *)
(***************************************************************************)
THEOREM AnswersAlwaysAgree == Spec => []AnswersAgree
<1>1. IInv => AnswersAgree
  BY DEF IInv, WellFormed, Succession, AnswersAgree, Answered
<1> QED
  BY <1>1, Inductive, PTL

(***************************************************************************)
(* A refresh token whose row is gone is never accepted again.              *)
(***************************************************************************)
THEOREM ReplayProtection == Spec => SpentStaysSpent
<1>1. IInv /\ [Next]_vars =>
        [\A t \in Token :
           Generated(t) /\ t \notin refreshTokens => t \notin refreshTokens']_vars
  <2> SUFFICES ASSUME IInv, Next, NEW t \in Token, Generated(t), t \notin refreshTokens
               PROVE  t \notin refreshTokens'
    OBVIOUS
  <2> QED
    BY DEF Next, Step, GenerateRefreshToken, SaveRecord, InvalidateRefreshToken,
       InvalidateAllRefreshTokens, Begin, AcquireLock, LoseLock, AcquireFailsOpen,
       PollFindsGrace, PollMisses, FindRecord, ReadGraceHit, ReadGraceMiss, DeleteExpired,
       DeleteRecord, DeleteAffectsNothing, SaveSuccessor, StoreGrace, ReleaseLock,
       ReleaseFails, QueryFails, Crash, LockExpires, GraceExpires, TokenExpires, table
<1> QED
  BY <1>1, Inductive, PTL DEF Spec, SpentStaysSpent

-----------------------------------------------------------------------------
(***************************************************************************)
(* A session without a row and without a rotation in flight is over.       *)
(***************************************************************************)
LEMMA OverStep ==
  ASSUME IInv, [Next]_vars, NEW s \in Token, Generated(s), Over(s)
  PROVE  Over(s)'
<1> USE ConstantsAssumption DEF IInv, TypeOK, WellFormed, Renewing, Over,
      Generated, GoTo, Finish, Return, table, redis, calls, signOuts
<1>1. ASSUME NEW u \in User, NEW t \in Token, GenerateRefreshToken(u, t)
      PROVE Over(s)'
  BY <1>1 DEF GenerateRefreshToken, SaveRecord
<1>2. ASSUME NEW t \in Token, InvalidateRefreshToken(t)
      PROVE Over(s)'
  BY <1>2 DEF InvalidateRefreshToken
<1>3. ASSUME NEW u \in User, InvalidateAllRefreshTokens(u)
      PROVE Over(s)'
  BY <1>3 DEF InvalidateAllRefreshTokens, SessionsOf
<1>4. ASSUME NEW r \in Request, NEW t \in Token, Begin(r, t)
      PROVE Over(s)'
  BY <1>4 DEF Begin
<1>5. ASSUME NEW r \in Request, AcquireLock(r)
      PROVE Over(s)'
  BY <1>5 DEF AcquireLock
<1>6. ASSUME NEW r \in Request, LoseLock(r)
      PROVE Over(s)'
  BY <1>6 DEF LoseLock
<1>7. ASSUME NEW r \in Request, AcquireFailsOpen(r)
      PROVE Over(s)'
  BY <1>7 DEF AcquireFailsOpen
<1>8. ASSUME NEW r \in Request, PollFindsGrace(r)
      PROVE Over(s)'
  BY <1>8 DEF PollFindsGrace
<1>9. ASSUME NEW r \in Request, PollMisses(r)
      PROVE Over(s)'
  BY <1>9 DEF PollMisses
<1>10. ASSUME NEW r \in Request, FindRecord(r)
      PROVE Over(s)'
  BY <1>10 DEF FindRecord
<1>11. ASSUME NEW r \in Request, ReadGraceHit(r)
      PROVE Over(s)'
  BY <1>11 DEF ReadGraceHit
<1>12. ASSUME NEW r \in Request, ReadGraceMiss(r)
      PROVE Over(s)'
  BY <1>12 DEF ReadGraceMiss
<1>13. ASSUME NEW r \in Request, DeleteExpired(r)
      PROVE Over(s)'
  BY <1>13 DEF DeleteExpired
<1>14. ASSUME NEW r \in Request, DeleteRecord(r)
      PROVE Over(s)'
  BY <1>14 DEF DeleteRecord
<1>15. ASSUME NEW r \in Request, DeleteAffectsNothing(r)
      PROVE Over(s)'
  BY <1>15 DEF DeleteAffectsNothing
<1>16. ASSUME NEW r \in Request, NEW n \in Token, SaveSuccessor(r, n)
      PROVE Over(s)'
  BY <1>16 DEF SaveSuccessor, SaveRecord
<1>17. ASSUME NEW r \in Request, StoreGrace(r)
      PROVE Over(s)'
  BY <1>17 DEF StoreGrace
<1>18. ASSUME NEW r \in Request, ReleaseLock(r)
      PROVE Over(s)'
  BY <1>18 DEF ReleaseLock
<1>19. ASSUME NEW r \in Request, ReleaseFails(r)
      PROVE Over(s)'
  BY <1>19 DEF ReleaseFails
<1>20. ASSUME NEW r \in Request, QueryFails(r)
      PROVE Over(s)'
  BY <1>20 DEF QueryFails
<1>21. ASSUME NEW r \in Request, Crash(r)
      PROVE Over(s)'
  BY <1>21 DEF Crash
<1>22. ASSUME NEW t \in Token, LockExpires(t)
      PROVE Over(s)'
  BY <1>22 DEF LockExpires
<1>23. ASSUME NEW t \in Token, GraceExpires(t)
      PROVE Over(s)'
  BY <1>23 DEF GraceExpires
<1>24. ASSUME NEW t \in Token, TokenExpires(t)
      PROVE Over(s)'
  BY <1>24 DEF TokenExpires
<1>25. CASE UNCHANGED vars
  BY <1>25 DEF vars
<1> QED
  BY <1>1, <1>2, <1>3, <1>4, <1>5, <1>6, <1>7, <1>8, <1>9, <1>10, <1>11, <1>12, <1>13, <1>14,
     <1>15, <1>16, <1>17, <1>18, <1>19, <1>20, <1>21, <1>22, <1>23, <1>24, <1>25 DEF Next, Step

(***************************************************************************)
(* No stale call brings back a session that has ended.                     *)
(***************************************************************************)
THEOREM NoResurrection == Spec => OverStaysOver
<1>1. IInv /\ [Next]_vars =>
        [\A s \in Token : Generated(s) /\ Over(s) => Over(s)']_vars
  BY OverStep
<1> QED
  BY <1>1, Inductive, PTL DEF Spec, OverStaysOver

(***************************************************************************)
(* Every step of the rotation is a step of module Sessions, or none.       *)
(***************************************************************************)
LEMMA StepRefines ==
  ASSUME IInv, [Next]_vars
  PROVE  [Abstract!Next]_(Abstract!vars)
<1> USE ConstantsAssumption DEF IInv, TypeOK, WellFormed, Renewing,
      Generated, GoTo, Finish, Return, table, redis, calls, signOuts,
      Abstract!vars, Abstract!Next, Abstract!SignIn, Abstract!Take, Abstract!Issue,
      Abstract!Abandon
<1>1. ASSUME NEW u \in User, NEW t \in Token, GenerateRefreshToken(u, t)
      PROVE [Abstract!Next]_(Abstract!vars)
  <2>1. Renewing' = Renewing
    BY <1>1 DEF GenerateRefreshToken, SaveRecord
  <2>2. Abstract!SignIn(t)
    BY <1>1, <2>1 DEF GenerateRefreshToken, SaveRecord
  <2> QED
    BY <2>2
<1>2. ASSUME NEW t \in Token, InvalidateRefreshToken(t)
      PROVE [Abstract!Next]_(Abstract!vars)
  <2>1. Renewing' = Renewing
    BY <1>2 DEF InvalidateRefreshToken
  <2>2. Abstract!Revoke({t})
    BY <1>2, <2>1 DEF InvalidateRefreshToken, Abstract!Revoke
  <2> QED
    BY <2>2
<1>3. ASSUME NEW u \in User, InvalidateAllRefreshTokens(u)
      PROVE [Abstract!Next]_(Abstract!vars)
  <2> DEFINE S == {t \in Token : owner[t] = u}
  <2>1. Renewing' = Renewing
    BY <1>3 DEF InvalidateAllRefreshTokens
  <2>2. Abstract!Revoke(S)
    BY <1>3, <2>1 DEF InvalidateAllRefreshTokens, Abstract!Revoke
  <2>3. S \in SUBSET Token
    OBVIOUS
  <2> HIDE DEF S
  <2> QED
    BY <2>2, <2>3
<1>4. ASSUME NEW r \in Request, NEW t \in Token, Begin(r, t)
      PROVE [Abstract!Next]_(Abstract!vars)
  BY <1>4 DEF Begin
<1>5. ASSUME NEW r \in Request, AcquireLock(r)
      PROVE [Abstract!Next]_(Abstract!vars)
  BY <1>5 DEF AcquireLock
<1>6. ASSUME NEW r \in Request, LoseLock(r)
      PROVE [Abstract!Next]_(Abstract!vars)
  BY <1>6 DEF LoseLock
<1>7. ASSUME NEW r \in Request, AcquireFailsOpen(r)
      PROVE [Abstract!Next]_(Abstract!vars)
  BY <1>7 DEF AcquireFailsOpen
<1>8. ASSUME NEW r \in Request, PollFindsGrace(r)
      PROVE [Abstract!Next]_(Abstract!vars)
  BY <1>8 DEF PollFindsGrace
<1>9. ASSUME NEW r \in Request, PollMisses(r)
      PROVE [Abstract!Next]_(Abstract!vars)
  BY <1>9 DEF PollMisses
<1>10. ASSUME NEW r \in Request, FindRecord(r)
      PROVE [Abstract!Next]_(Abstract!vars)
  BY <1>10 DEF FindRecord
<1>11. ASSUME NEW r \in Request, ReadGraceHit(r)
      PROVE [Abstract!Next]_(Abstract!vars)
  BY <1>11 DEF ReadGraceHit
<1>12. ASSUME NEW r \in Request, ReadGraceMiss(r)
      PROVE [Abstract!Next]_(Abstract!vars)
  BY <1>12 DEF ReadGraceMiss
<1>13. ASSUME NEW r \in Request, DeleteExpired(r)
      PROVE [Abstract!Next]_(Abstract!vars)
  <2>1. Renewing' = Renewing
    BY <1>13 DEF DeleteExpired
  <2>2. Abstract!Revoke({presented[r]})
    BY <1>13, <2>1 DEF DeleteExpired, Abstract!Revoke
  <2>3. presented[r] \in Token
    BY <1>13 DEF DeleteExpired
  <2> QED
    BY <2>2, <2>3
<1>14. ASSUME NEW r \in Request, DeleteRecord(r)
      PROVE [Abstract!Next]_(Abstract!vars)
  <2>1. Renewing' = Renewing \cup {session[presented[r]]}
    BY <1>14 DEF DeleteRecord
  <2>2. Abstract!Take(presented[r])
    BY <1>14, <2>1 DEF DeleteRecord
  <2> QED
    BY <1>14, <2>2 DEF DeleteRecord
<1>15. ASSUME NEW r \in Request, DeleteAffectsNothing(r)
      PROVE [Abstract!Next]_(Abstract!vars)
  BY <1>15 DEF DeleteAffectsNothing
<1>16. ASSUME NEW r \in Request, NEW n \in Token, SaveSuccessor(r, n)
      PROVE [Abstract!Next]_(Abstract!vars)
  <2> DEFINE s == session[presented[r]]
  <2>1. s \in Token /\ s \in Renewing
    BY <1>16 DEF SaveSuccessor
  <2>2. \A q \in Request : pc[q] = "save" =>
          presented[q] \in Token /\ session'[presented[q]] = session[presented[q]]
    BY <1>16 DEF SaveSuccessor, SaveRecord
  <2>3. Renewing' = Renewing \ {s}
    BY <1>16, <2>2 DEF SaveSuccessor, OneTaker
  <2>4. Abstract!Issue(s, n)
    BY <1>16, <2>1, <2>3 DEF SaveSuccessor, SaveRecord
  <2> QED
    BY <2>1, <2>4
<1>17. ASSUME NEW r \in Request, StoreGrace(r)
      PROVE [Abstract!Next]_(Abstract!vars)
  BY <1>17 DEF StoreGrace
<1>18. ASSUME NEW r \in Request, ReleaseLock(r)
      PROVE [Abstract!Next]_(Abstract!vars)
  BY <1>18 DEF ReleaseLock
<1>19. ASSUME NEW r \in Request, ReleaseFails(r)
      PROVE [Abstract!Next]_(Abstract!vars)
  BY <1>19 DEF ReleaseFails
<1>20. ASSUME NEW r \in Request, QueryFails(r)
      PROVE [Abstract!Next]_(Abstract!vars)
  BY <1>20 DEF QueryFails
<1>21. ASSUME NEW r \in Request, Crash(r)
      PROVE [Abstract!Next]_(Abstract!vars)
  BY <1>21 DEF Crash
<1>22. ASSUME NEW t \in Token, LockExpires(t)
      PROVE [Abstract!Next]_(Abstract!vars)
  BY <1>22 DEF LockExpires
<1>23. ASSUME NEW t \in Token, GraceExpires(t)
      PROVE [Abstract!Next]_(Abstract!vars)
  BY <1>23 DEF GraceExpires
<1>24. ASSUME NEW t \in Token, TokenExpires(t)
      PROVE [Abstract!Next]_(Abstract!vars)
  BY <1>24 DEF TokenExpires
<1>25. CASE UNCHANGED vars
  BY <1>25 DEF vars
<1> QED
  BY <1>1, <1>2, <1>3, <1>4, <1>5, <1>6, <1>7, <1>8, <1>9, <1>10, <1>11, <1>12, <1>13, <1>14,
     <1>15, <1>16, <1>17, <1>18, <1>19, <1>20, <1>21, <1>22, <1>23, <1>24, <1>25 DEF Next, Step

(***************************************************************************)
(* TokenRotation implements Sessions.                                      *)
(***************************************************************************)
THEOREM Implementation == Spec => ImplementsSessions
<1>1. Init => Abstract!Init
  BY DEF Init, Abstract!Init, Renewing
<1>2. IInv /\ [Next]_vars => [Abstract!Next]_(Abstract!vars)
  BY StepRefines
<1> QED
  BY <1>1, <1>2, Inductive, PTL DEF Spec, ImplementsSessions, Abstract!Spec
-----------------------------------------------------------------------------
(***************************************************************************)
(* What becomes of a session and its rows.                                 *)
(***************************************************************************)

\* A call has an answer only from its save or its read of the grace key on, an
\* outcome only once it leaves, and deletes what it has found expired.
AnswersFit ==
  \A r \in Request :
    /\ answer[r] # NoToken =>
         \/ pc[r] = "store"
         \/ pc[r] \in {"release", "done"} /\ outcome[r] \in {"rotated", "shared", "failed", "crashed"}
    /\ pc[r] \notin {"release", "done"} => outcome[r] = "pending"
    /\ pc[r] = "expire" => presented[r] \in expired

LEMMA FitInductive ==
  ASSUME TypeOK, WellFormed, AnswersFit, [Next]_vars
  PROVE AnswersFit'
<1> USE ConstantsAssumption DEF TypeOK, WellFormed, AnswersFit, Generated,
      GoTo, Finish, Return, table, redis, calls, signOuts
<1>1. ASSUME NEW u \in User, NEW t \in Token, GenerateRefreshToken(u, t) PROVE AnswersFit'
  BY <1>1 DEF GenerateRefreshToken, SaveRecord
<1>2. ASSUME NEW t \in Token,
             \/ InvalidateRefreshToken(t) \/ LockExpires(t) \/ GraceExpires(t) \/ TokenExpires(t)
      PROVE AnswersFit'
  BY <1>2 DEF InvalidateRefreshToken, LockExpires, GraceExpires, TokenExpires
<1>3. ASSUME NEW u \in User, InvalidateAllRefreshTokens(u) PROVE AnswersFit'
  BY <1>3 DEF InvalidateAllRefreshTokens
<1>4. ASSUME NEW r \in Request, NEW t \in Token, Begin(r, t) PROVE AnswersFit'
  BY <1>4 DEF Begin
<1>5. ASSUME NEW r \in Request, AcquireLock(r) \/ LoseLock(r) \/ AcquireFailsOpen(r) PROVE AnswersFit'
  BY <1>5 DEF AcquireLock, LoseLock, AcquireFailsOpen
<1>6. ASSUME NEW r \in Request, PollFindsGrace(r) \/ ReadGraceHit(r) PROVE AnswersFit'
  BY <1>6 DEF PollFindsGrace, ReadGraceHit
<1>7. ASSUME NEW r \in Request, PollMisses(r) PROVE AnswersFit'
  BY <1>7 DEF PollMisses
<1>8. ASSUME NEW r \in Request, FindRecord(r) PROVE AnswersFit'
  BY <1>8 DEF FindRecord
<1>9. ASSUME NEW r \in Request, ReadGraceMiss(r) \/ DeleteExpired(r) \/ DeleteAffectsNothing(r)
      PROVE AnswersFit'
  BY <1>9 DEF ReadGraceMiss, DeleteExpired, DeleteAffectsNothing
<1>10. ASSUME NEW r \in Request, DeleteRecord(r) PROVE AnswersFit'
  BY <1>10 DEF DeleteRecord
<1>11. ASSUME NEW r \in Request, NEW n \in Token, SaveSuccessor(r, n) PROVE AnswersFit'
  BY <1>11 DEF SaveSuccessor, SaveRecord
<1>12. ASSUME NEW r \in Request, StoreGrace(r) \/ ReleaseLock(r) PROVE AnswersFit'
  BY <1>12 DEF StoreGrace, ReleaseLock
<1>13. ASSUME NEW r \in Request, ReleaseFails(r) \/ QueryFails(r) \/ Crash(r) PROVE AnswersFit'
  BY <1>13 DEF ReleaseFails, QueryFails, Crash
<1>14. CASE UNCHANGED vars
  BY <1>14 DEF vars
<1> QED
  BY <1>1, <1>2, <1>3, <1>4, <1>5, <1>6, <1>7, <1>8, <1>9, <1>10, <1>11, <1>12, <1>13, <1>14
     DEF Next, Step

(***************************************************************************)
(* A row is reachable from its save on, since its call keeps its answer.   *)
(***************************************************************************)
LEMMA ReachableInductive ==
  ASSUME TypeOK, WellFormed, AnswersFit, RowsReachable, [Next]_vars
  PROVE RowsReachable'
<1> USE ConstantsAssumption DEF TypeOK, WellFormed, AnswersFit, RowsReachable, Delivered, Answered,
      Broken, Generated, GoTo, Finish, Return, table, redis, calls, signOuts
<1>1. ASSUME NEW u \in User, NEW t \in Token, GenerateRefreshToken(u, t) PROVE RowsReachable'
  BY <1>1 DEF GenerateRefreshToken, SaveRecord
<1>2. ASSUME NEW t \in Token,
             \/ InvalidateRefreshToken(t) \/ LockExpires(t) \/ GraceExpires(t) \/ TokenExpires(t)
      PROVE RowsReachable'
  BY <1>2 DEF InvalidateRefreshToken, LockExpires, GraceExpires, TokenExpires
<1>3. ASSUME NEW u \in User, InvalidateAllRefreshTokens(u) PROVE RowsReachable'
  BY <1>3 DEF InvalidateAllRefreshTokens
<1>4. ASSUME NEW r \in Request, NEW t \in Token, Begin(r, t) PROVE RowsReachable'
  BY <1>4 DEF Begin
<1>5. ASSUME NEW r \in Request, AcquireLock(r) \/ LoseLock(r) \/ AcquireFailsOpen(r)
      PROVE RowsReachable'
  BY <1>5 DEF AcquireLock, LoseLock, AcquireFailsOpen
<1>6. ASSUME NEW r \in Request, PollFindsGrace(r) \/ ReadGraceHit(r) PROVE RowsReachable'
  BY <1>6 DEF PollFindsGrace, ReadGraceHit
<1>7. ASSUME NEW r \in Request, PollMisses(r) PROVE RowsReachable'
  BY <1>7 DEF PollMisses
<1>8. ASSUME NEW r \in Request, FindRecord(r) PROVE RowsReachable'
  BY <1>8 DEF FindRecord
<1>9. ASSUME NEW r \in Request, ReadGraceMiss(r) \/ DeleteExpired(r) \/ DeleteAffectsNothing(r)
      PROVE RowsReachable'
  BY <1>9 DEF ReadGraceMiss, DeleteExpired, DeleteAffectsNothing
<1>10. ASSUME NEW r \in Request, DeleteRecord(r) PROVE RowsReachable'
  BY <1>10 DEF DeleteRecord
<1>11. ASSUME NEW r \in Request, NEW n \in Token, SaveSuccessor(r, n) PROVE RowsReachable'
  BY <1>11 DEF SaveSuccessor, SaveRecord
<1>12. ASSUME NEW r \in Request, StoreGrace(r) \/ ReleaseLock(r) PROVE RowsReachable'
  BY <1>12 DEF StoreGrace, ReleaseLock
<1>13. ASSUME NEW r \in Request, ReleaseFails(r) \/ QueryFails(r) \/ Crash(r) PROVE RowsReachable'
  BY <1>13 DEF ReleaseFails, QueryFails, Crash
<1>14. CASE UNCHANGED vars
  BY <1>14 DEF vars
<1> QED
  BY <1>1, <1>2, <1>3, <1>4, <1>5, <1>6, <1>7, <1>8, <1>9, <1>10, <1>11, <1>12, <1>13, <1>14
     DEF Next, Step

(***************************************************************************)
(* A session ends only by a sign-out, by age or by a call that breaks:     *)
(* between a delete and its save there is the call that renews it.         *)
(***************************************************************************)
LEMMA SurvivesInductive ==
  ASSUME TypeOK, WellFormed, AnswersFit, SessionSurvives, [Next]_vars
  PROVE  SessionSurvives'
<1> USE ConstantsAssumption DEF TypeOK, WellFormed, AnswersFit, SessionSurvives, Over, Renewing,
      Broken, Generated, GoTo, Finish, Return, table, redis, calls, signOuts
<1>1. ASSUME NEW u \in User, NEW t \in Token, GenerateRefreshToken(u, t)
      PROVE SessionSurvives'
  BY <1>1 DEF GenerateRefreshToken, SaveRecord
<1>2. ASSUME NEW t \in Token, InvalidateRefreshToken(t)
      PROVE SessionSurvives'
  BY <1>2 DEF InvalidateRefreshToken
<1>3. ASSUME NEW t \in Token,
             LockExpires(t) \/ GraceExpires(t) \/ TokenExpires(t)
      PROVE SessionSurvives'
  BY <1>3 DEF LockExpires, GraceExpires, TokenExpires
<1>4. ASSUME NEW u \in User, InvalidateAllRefreshTokens(u)
      PROVE SessionSurvives'
  BY <1>4 DEF InvalidateAllRefreshTokens, SessionsOf
<1>5. ASSUME NEW r \in Request, NEW t \in Token, Begin(r, t)
      PROVE SessionSurvives'
  BY <1>5 DEF Begin, Delivered, Answered
<1>6. ASSUME NEW r \in Request,
             AcquireLock(r) \/ LoseLock(r) \/ AcquireFailsOpen(r)
      PROVE SessionSurvives'
  BY <1>6 DEF AcquireLock, LoseLock, AcquireFailsOpen
<1>7. ASSUME NEW r \in Request, PollFindsGrace(r) \/ ReadGraceHit(r)
      PROVE SessionSurvives'
  BY <1>7 DEF PollFindsGrace, ReadGraceHit
<1>8. ASSUME NEW r \in Request, PollMisses(r)
      PROVE SessionSurvives'
  BY <1>8 DEF PollMisses
<1>9. ASSUME NEW r \in Request, FindRecord(r)
      PROVE SessionSurvives'
  BY <1>9 DEF FindRecord
<1>10. ASSUME NEW r \in Request, ReadGraceMiss(r)
      PROVE SessionSurvives'
  BY <1>10 DEF ReadGraceMiss, GraceMiss
<1>11. ASSUME NEW r \in Request, DeleteExpired(r)
      PROVE SessionSurvives'
  BY <1>11 DEF DeleteExpired
<1>12. ASSUME NEW r \in Request, DeleteRecord(r)
      PROVE SessionSurvives'
  BY <1>12 DEF DeleteRecord
<1>13. ASSUME NEW r \in Request, DeleteAffectsNothing(r)
      PROVE SessionSurvives'
  BY <1>13 DEF DeleteAffectsNothing
<1>14. ASSUME NEW r \in Request, NEW n \in Token, SaveSuccessor(r, n)
      PROVE SessionSurvives'
  BY <1>14 DEF SaveSuccessor, SaveRecord
<1>15. ASSUME NEW r \in Request, StoreGrace(r)
      PROVE SessionSurvives'
  BY <1>15 DEF StoreGrace
<1>16. ASSUME NEW r \in Request, ReleaseLock(r)
      PROVE SessionSurvives'
  BY <1>16 DEF ReleaseLock
<1>17. ASSUME NEW r \in Request, ReleaseFails(r) \/ QueryFails(r)
      PROVE SessionSurvives'
  BY <1>17 DEF ReleaseFails, QueryFails
<1>18. ASSUME NEW r \in Request, Crash(r)
      PROVE SessionSurvives'
  BY <1>18 DEF Crash
<1>19. CASE UNCHANGED vars
  BY <1>19 DEF vars
<1> QED
  BY <1>1, <1>2, <1>3, <1>4, <1>5, <1>6, <1>7, <1>8, <1>9, <1>10, <1>11, <1>12, <1>13, <1>14,
     <1>15, <1>16, <1>17, <1>18, <1>19 DEF Next, Step

(***************************************************************************)
(* Answers fit their calls, rows are reachable and sessions survive in     *)
(* every reachable state.                                                  *)
(***************************************************************************)
LEMMA Continuity == Spec => [](AnswersFit /\ RowsReachable /\ SessionSurvives)
<1>1. Init => AnswersFit /\ RowsReachable /\ SessionSurvives
  BY ConstantsAssumption DEF Init, AnswersFit, RowsReachable, SessionSurvives
<1>2. IInv /\ (AnswersFit /\ RowsReachable /\ SessionSurvives) /\ [Next]_vars
        => (AnswersFit /\ RowsReachable /\ SessionSurvives)'
  BY FitInductive, ReachableInductive, SurvivesInductive DEF IInv
<1> QED
  BY <1>1, <1>2, Inductive, PTL DEF Spec

(***************************************************************************)
(* Every row is in the hands of a client, or of a call that will return it *)
(* or broke after its save: no rotation leaves an orphan behind.           *)
(***************************************************************************)
THEOREM RowsStayReachable == Spec => []RowsReachable
  BY Continuity, PTL

(***************************************************************************)
(* Whatever Redis does, only a sign-out, age, or a call that breaks before *)
(* its save ends a session.                                                *)
(***************************************************************************)
THEOREM SessionsSurvive == Spec => []SessionSurvives
  BY Continuity, PTL

-----------------------------------------------------------------------------
(***************************************************************************)
(* With a Redis that answers and keys that outlive the calls, the lock     *)
(* really excludes, and the grace key covers every rotation.               *)
(***************************************************************************)
RedisSteady == Disruptions \cap {"redis", "lockTtl", "graceTtl"} = {}

Inside == {"find", "readGrace", "expire", "delete", "save", "store", "release"}

\* A call past its SET NX has the key, and no other call has it.
LockOwned ==
  /\ \A r \in Request : pc[r] \in Inside => presented[r] \in lock
  /\ \A r, q \in Request :
       pc[r] \in Inside /\ pc[q] \in Inside /\ presented[r] = presented[q] => r = q

\* Calls that took the row of a token and still are to store its grace key.
Replacing(t) ==
  \E q \in Request : presented[q] = t /\ (Broken(q) \/ pc[q] \in {"save", "store"})

\* Why a token has no row any more.
Explained ==
  \A t \in Token : Generated(t) /\ t \notin refreshTokens =>
    \/ t \in expired
    \/ session[t] \in loggedOut \cup signedOut
    \/ grace[t] # NoToken
    \/ Replacing(t)

\* What findOne told a call, as far as it still holds when the call uses it.
FindingsHold ==
  /\ \A r \in Request : pc[r] = "delete" => grace[presented[r]] = NoToken
  /\ \A r \in Request : pc[r] = "readGrace" => presented[r] \notin refreshTokens

(***************************************************************************)
(* The lock excludes: with no expiry and no error of Redis, a key goes     *)
(* only by the DEL of the call that set it.                                *)
(***************************************************************************)
LEMMA LockInductive ==
  ASSUME RedisSteady, TypeOK, LockOwned, [Next]_vars
  PROVE  LockOwned'
<1> USE ConstantsAssumption DEF TypeOK, WellFormed, Generated,
      GoTo, Finish, Return, table, redis, calls, signOuts, RedisSteady, LockOwned, Inside
<1>1. ASSUME NEW u \in User, NEW t \in Token, GenerateRefreshToken(u, t)
      PROVE LockOwned'
  BY <1>1 DEF GenerateRefreshToken, SaveRecord
<1>2. ASSUME NEW t \in Token, InvalidateRefreshToken(t)
      PROVE LockOwned'
  BY <1>2 DEF InvalidateRefreshToken
<1>3. ASSUME NEW t \in Token,
             LockExpires(t) \/ GraceExpires(t) \/ TokenExpires(t)
      PROVE LockOwned'
  BY <1>3 DEF LockExpires, GraceExpires, TokenExpires
<1>4. ASSUME NEW u \in User, InvalidateAllRefreshTokens(u)
      PROVE LockOwned'
  BY <1>4 DEF InvalidateAllRefreshTokens, SessionsOf
<1>5. ASSUME NEW r \in Request, NEW t \in Token, Begin(r, t)
      PROVE LockOwned'
  BY <1>5 DEF Begin, Delivered, Answered
<1>6. ASSUME NEW r \in Request,
             AcquireLock(r) \/ LoseLock(r) \/ AcquireFailsOpen(r)
      PROVE LockOwned'
  BY <1>6 DEF AcquireLock, LoseLock, AcquireFailsOpen
<1>7. ASSUME NEW r \in Request, PollFindsGrace(r) \/ ReadGraceHit(r)
      PROVE LockOwned'
  BY <1>7 DEF PollFindsGrace, ReadGraceHit
<1>8. ASSUME NEW r \in Request, PollMisses(r)
      PROVE LockOwned'
  BY <1>8 DEF PollMisses
<1>9. ASSUME NEW r \in Request, FindRecord(r)
      PROVE LockOwned'
  BY <1>9 DEF FindRecord
<1>10. ASSUME NEW r \in Request, ReadGraceMiss(r)
      PROVE LockOwned'
  BY <1>10 DEF ReadGraceMiss, GraceMiss
<1>11. ASSUME NEW r \in Request, DeleteExpired(r)
      PROVE LockOwned'
  BY <1>11 DEF DeleteExpired
<1>12. ASSUME NEW r \in Request, DeleteRecord(r)
      PROVE LockOwned'
  BY <1>12 DEF DeleteRecord
<1>13. ASSUME NEW r \in Request, DeleteAffectsNothing(r)
      PROVE LockOwned'
  BY <1>13 DEF DeleteAffectsNothing
<1>14. ASSUME NEW r \in Request, NEW n \in Token, SaveSuccessor(r, n)
      PROVE LockOwned'
  BY <1>14 DEF SaveSuccessor, SaveRecord
<1>15. ASSUME NEW r \in Request, StoreGrace(r)
      PROVE LockOwned'
  BY <1>15 DEF StoreGrace
<1>16. ASSUME NEW r \in Request, ReleaseLock(r)
      PROVE LockOwned'
  BY <1>16 DEF ReleaseLock
<1>17. ASSUME NEW r \in Request, ReleaseFails(r) \/ QueryFails(r)
      PROVE LockOwned'
  BY <1>17 DEF ReleaseFails, QueryFails
<1>18. ASSUME NEW r \in Request, Crash(r)
      PROVE LockOwned'
  BY <1>18 DEF Crash
<1>19. CASE UNCHANGED vars
  BY <1>19 DEF vars
<1> QED
  BY <1>1, <1>2, <1>3, <1>4, <1>5, <1>6, <1>7, <1>8, <1>9, <1>10, <1>11, <1>12, <1>13, <1>14,
     <1>15, <1>16, <1>17, <1>18, <1>19 DEF Next, Step

(***************************************************************************)
(* A row goes by a sign-out, by age or into the hands of a call, and from  *)
(* there into a grace key unless the call breaks.                          *)
(***************************************************************************)
LEMMA ExplainedInductive ==
  ASSUME RedisSteady, TypeOK, WellFormed, AnswersFit, Explained, [Next]_vars
  PROVE  Explained'
<1> USE ConstantsAssumption DEF TypeOK, WellFormed, Generated,
      GoTo, Finish, Return, table, redis, calls, signOuts, RedisSteady, AnswersFit, Explained, Replacing, Broken
<1>1. ASSUME NEW u \in User, NEW t \in Token, GenerateRefreshToken(u, t)
      PROVE Explained'
  BY <1>1 DEF GenerateRefreshToken, SaveRecord
<1>2. ASSUME NEW t \in Token, InvalidateRefreshToken(t)
      PROVE Explained'
  BY <1>2 DEF InvalidateRefreshToken
<1>3. ASSUME NEW t \in Token,
             LockExpires(t) \/ GraceExpires(t) \/ TokenExpires(t)
      PROVE Explained'
  BY <1>3 DEF LockExpires, GraceExpires, TokenExpires
<1>4. ASSUME NEW u \in User, InvalidateAllRefreshTokens(u)
      PROVE Explained'
  BY <1>4 DEF InvalidateAllRefreshTokens, SessionsOf
<1>5. ASSUME NEW r \in Request, NEW t \in Token, Begin(r, t)
      PROVE Explained'
  BY <1>5 DEF Begin, Delivered, Answered
<1>6. ASSUME NEW r \in Request,
             AcquireLock(r) \/ LoseLock(r) \/ AcquireFailsOpen(r)
      PROVE Explained'
  BY <1>6 DEF AcquireLock, LoseLock, AcquireFailsOpen
<1>7. ASSUME NEW r \in Request, PollFindsGrace(r) \/ ReadGraceHit(r)
      PROVE Explained'
  BY <1>7 DEF PollFindsGrace, ReadGraceHit
<1>8. ASSUME NEW r \in Request, PollMisses(r)
      PROVE Explained'
  BY <1>8 DEF PollMisses
<1>9. ASSUME NEW r \in Request, FindRecord(r)
      PROVE Explained'
  BY <1>9 DEF FindRecord
<1>10. ASSUME NEW r \in Request, ReadGraceMiss(r)
      PROVE Explained'
  BY <1>10 DEF ReadGraceMiss, GraceMiss
<1>11. ASSUME NEW r \in Request, DeleteExpired(r)
      PROVE Explained'
  BY <1>11 DEF DeleteExpired
<1>12. ASSUME NEW r \in Request, DeleteRecord(r)
      PROVE Explained'
  BY <1>12 DEF DeleteRecord
<1>13. ASSUME NEW r \in Request, DeleteAffectsNothing(r)
      PROVE Explained'
  BY <1>13 DEF DeleteAffectsNothing
<1>14. ASSUME NEW r \in Request, NEW n \in Token, SaveSuccessor(r, n)
      PROVE Explained'
  BY <1>14 DEF SaveSuccessor, SaveRecord
<1>15. ASSUME NEW r \in Request, StoreGrace(r)
      PROVE Explained'
  BY <1>15 DEF StoreGrace
<1>16. ASSUME NEW r \in Request, ReleaseLock(r)
      PROVE Explained'
  BY <1>16 DEF ReleaseLock
<1>17. ASSUME NEW r \in Request, ReleaseFails(r) \/ QueryFails(r)
      PROVE Explained'
  BY <1>17 DEF ReleaseFails, QueryFails
<1>18. ASSUME NEW r \in Request, Crash(r)
      PROVE Explained'
  BY <1>18 DEF Crash
<1>19. CASE UNCHANGED vars
  BY <1>19 DEF vars
<1> QED
  BY <1>1, <1>2, <1>3, <1>4, <1>5, <1>6, <1>7, <1>8, <1>9, <1>10, <1>11, <1>12, <1>13, <1>14,
     <1>15, <1>16, <1>17, <1>18, <1>19 DEF Next, Step

(***************************************************************************)
(* Only the holder of the lock rotates a token, so what it found out about *)
(* the token's grace key and row stays true until it acts on it.           *)
(***************************************************************************)
LEMMA FindingsInductive ==
  ASSUME RedisSteady, TypeOK, WellFormed, Succession, LockOwned, FindingsHold, [Next]_vars
  PROVE  FindingsHold'
<1> USE ConstantsAssumption DEF TypeOK, WellFormed, Generated,
      GoTo, Finish, Return, table, redis, calls, signOuts, RedisSteady, Succession, Succeeded, LockOwned, Inside, FindingsHold
<1>1. ASSUME NEW u \in User, NEW t \in Token, GenerateRefreshToken(u, t)
      PROVE FindingsHold'
  BY <1>1 DEF GenerateRefreshToken, SaveRecord
<1>2. ASSUME NEW t \in Token, InvalidateRefreshToken(t)
      PROVE FindingsHold'
  BY <1>2 DEF InvalidateRefreshToken
<1>3. ASSUME NEW t \in Token,
             LockExpires(t) \/ GraceExpires(t) \/ TokenExpires(t)
      PROVE FindingsHold'
  BY <1>3 DEF LockExpires, GraceExpires, TokenExpires
<1>4. ASSUME NEW u \in User, InvalidateAllRefreshTokens(u)
      PROVE FindingsHold'
  BY <1>4 DEF InvalidateAllRefreshTokens, SessionsOf
<1>5. ASSUME NEW r \in Request, NEW t \in Token, Begin(r, t)
      PROVE FindingsHold'
  BY <1>5 DEF Begin, Delivered, Answered
<1>6. ASSUME NEW r \in Request,
             AcquireLock(r) \/ LoseLock(r) \/ AcquireFailsOpen(r)
      PROVE FindingsHold'
  BY <1>6 DEF AcquireLock, LoseLock, AcquireFailsOpen
<1>7. ASSUME NEW r \in Request, PollFindsGrace(r) \/ ReadGraceHit(r)
      PROVE FindingsHold'
  BY <1>7 DEF PollFindsGrace, ReadGraceHit
<1>8. ASSUME NEW r \in Request, PollMisses(r)
      PROVE FindingsHold'
  BY <1>8 DEF PollMisses
<1>9. ASSUME NEW r \in Request, FindRecord(r)
      PROVE FindingsHold'
  BY <1>9 DEF FindRecord
<1>10. ASSUME NEW r \in Request, ReadGraceMiss(r)
      PROVE FindingsHold'
  BY <1>10 DEF ReadGraceMiss, GraceMiss
<1>11. ASSUME NEW r \in Request, DeleteExpired(r)
      PROVE FindingsHold'
  BY <1>11 DEF DeleteExpired
<1>12. ASSUME NEW r \in Request, DeleteRecord(r)
      PROVE FindingsHold'
  BY <1>12 DEF DeleteRecord
<1>13. ASSUME NEW r \in Request, DeleteAffectsNothing(r)
      PROVE FindingsHold'
  BY <1>13 DEF DeleteAffectsNothing
<1>14. ASSUME NEW r \in Request, NEW n \in Token, SaveSuccessor(r, n)
      PROVE FindingsHold'
  BY <1>14 DEF SaveSuccessor, SaveRecord
<1>15. ASSUME NEW r \in Request, StoreGrace(r)
      PROVE FindingsHold'
  BY <1>15 DEF StoreGrace
<1>16. ASSUME NEW r \in Request, ReleaseLock(r)
      PROVE FindingsHold'
  BY <1>16 DEF ReleaseLock
<1>17. ASSUME NEW r \in Request, ReleaseFails(r) \/ QueryFails(r)
      PROVE FindingsHold'
  BY <1>17 DEF ReleaseFails, QueryFails
<1>18. ASSUME NEW r \in Request, Crash(r)
      PROVE FindingsHold'
  BY <1>18 DEF Crash
<1>19. CASE UNCHANGED vars
  BY <1>19 DEF vars
<1> QED
  BY <1>1, <1>2, <1>3, <1>4, <1>5, <1>6, <1>7, <1>8, <1>9, <1>10, <1>11, <1>12, <1>13, <1>14,
     <1>15, <1>16, <1>17, <1>18, <1>19 DEF Next, Step

(***************************************************************************)
(* A call that gives up has a token whose row is gone and whose grace key  *)
(* is missing, and nobody else is replacing the token.                     *)
(***************************************************************************)
LEMMA ExpiryInductive ==
  ASSUME RedisSteady, TypeOK, WellFormed, AnswersFit, LockOwned, Explained, FindingsHold,
         OnlyRealExpiry, [Next]_vars
  PROVE  OnlyRealExpiry'
<1> USE ConstantsAssumption DEF TypeOK, WellFormed, Generated,
      GoTo, Finish, Return, table, redis, calls, signOuts, RedisSteady, AnswersFit, LockOwned, Inside,
      Explained, Replacing, FindingsHold, OnlyRealExpiry, Broken
<1>1. ASSUME NEW u \in User, NEW t \in Token, GenerateRefreshToken(u, t)
      PROVE OnlyRealExpiry'
  BY <1>1 DEF GenerateRefreshToken, SaveRecord
<1>2. ASSUME NEW t \in Token, InvalidateRefreshToken(t)
      PROVE OnlyRealExpiry'
  BY <1>2 DEF InvalidateRefreshToken
<1>3. ASSUME NEW t \in Token,
             LockExpires(t) \/ GraceExpires(t) \/ TokenExpires(t)
      PROVE OnlyRealExpiry'
  BY <1>3 DEF LockExpires, GraceExpires, TokenExpires
<1>4. ASSUME NEW u \in User, InvalidateAllRefreshTokens(u)
      PROVE OnlyRealExpiry'
  BY <1>4 DEF InvalidateAllRefreshTokens, SessionsOf
<1>5. ASSUME NEW r \in Request, NEW t \in Token, Begin(r, t)
      PROVE OnlyRealExpiry'
  BY <1>5 DEF Begin, Delivered, Answered
<1>6. ASSUME NEW r \in Request,
             AcquireLock(r) \/ LoseLock(r) \/ AcquireFailsOpen(r)
      PROVE OnlyRealExpiry'
  BY <1>6 DEF AcquireLock, LoseLock, AcquireFailsOpen
<1>7. ASSUME NEW r \in Request, PollFindsGrace(r) \/ ReadGraceHit(r)
      PROVE OnlyRealExpiry'
  BY <1>7 DEF PollFindsGrace, ReadGraceHit
<1>8. ASSUME NEW r \in Request, PollMisses(r)
      PROVE OnlyRealExpiry'
  BY <1>8 DEF PollMisses
<1>9. ASSUME NEW r \in Request, FindRecord(r)
      PROVE OnlyRealExpiry'
  BY <1>9 DEF FindRecord
<1>10. ASSUME NEW r \in Request, ReadGraceMiss(r)
      PROVE OnlyRealExpiry'
  BY <1>10 DEF ReadGraceMiss, GraceMiss
<1>11. ASSUME NEW r \in Request, DeleteExpired(r)
      PROVE OnlyRealExpiry'
  BY <1>11 DEF DeleteExpired
<1>12. ASSUME NEW r \in Request, DeleteRecord(r)
      PROVE OnlyRealExpiry'
  BY <1>12 DEF DeleteRecord
<1>13. ASSUME NEW r \in Request, DeleteAffectsNothing(r)
      PROVE OnlyRealExpiry'
  BY <1>13 DEF DeleteAffectsNothing
<1>14. ASSUME NEW r \in Request, NEW n \in Token, SaveSuccessor(r, n)
      PROVE OnlyRealExpiry'
  BY <1>14 DEF SaveSuccessor, SaveRecord
<1>15. ASSUME NEW r \in Request, StoreGrace(r)
      PROVE OnlyRealExpiry'
  BY <1>15 DEF StoreGrace
<1>16. ASSUME NEW r \in Request, ReleaseLock(r)
      PROVE OnlyRealExpiry'
  BY <1>16 DEF ReleaseLock
<1>17. ASSUME NEW r \in Request, ReleaseFails(r) \/ QueryFails(r)
      PROVE OnlyRealExpiry'
  BY <1>17 DEF ReleaseFails, QueryFails
<1>18. ASSUME NEW r \in Request, Crash(r)
      PROVE OnlyRealExpiry'
  BY <1>18 DEF Crash
<1>19. CASE UNCHANGED vars
  BY <1>19 DEF vars
<1> QED
  BY <1>1, <1>2, <1>3, <1>4, <1>5, <1>6, <1>7, <1>8, <1>9, <1>10, <1>11, <1>12, <1>13, <1>14,
     <1>15, <1>16, <1>17, <1>18, <1>19 DEF Next, Step

(***************************************************************************)
(* As long as Redis answers and its keys outlive the calls, a refresh is   *)
(* told SESSION_EXPIRED only over a logout, a password change, the age of  *)
(* its token or a call that broke over this very token.                    *)
(***************************************************************************)
THEOREM ExpiryIsReal ==
  ASSUME RedisSteady
  PROVE  Spec => []OnlyRealExpiry
<1> DEFINE Steady == LockOwned /\ Explained /\ FindingsHold /\ OnlyRealExpiry
<1>1. Init => Steady
  BY ConstantsAssumption
     DEF Init, LockOwned, Inside, Explained, Generated, FindingsHold, OnlyRealExpiry
<1>2. IInv /\ AnswersFit /\ Steady /\ [Next]_vars => Steady'
  BY RedisSteady, LockInductive, ExplainedInductive, FindingsInductive, ExpiryInductive DEF IInv
<1>3. Steady => OnlyRealExpiry
  OBVIOUS
<1> HIDE DEF Steady
<1> QED
  BY <1>1, <1>2, <1>3, Inductive, Continuity, PTL DEF Spec

=============================================================================
