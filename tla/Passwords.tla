----------------------------- MODULE Passwords -----------------------------
(***************************************************************************)
(* One verified account with a password: sign-ins with it and with Google, *)
(* AuthService.changePassword and resetPassword, and the sessions, that    *)
(* are refreshed and ended meanwhile.  Counters, locks and codes are       *)
(* OneTimeCodes' subject, a refresh in detail is TokenRotation's.  A       *)
(* session has the name of the request that opened it.                     *)
(***************************************************************************)
EXTENDS Naturals

CONSTANTS
  AuthCall,   \* requests, each made once
  OauthState, \* states that may be created
  MaxChanges  \* bound: changes of the password

ASSUME PasswordsAssumption == MaxChanges \in Nat

VARIABLES
  password,    \* how often it has been changed, for its hash
  authPc,      \* the await each request is at
  since,       \* the password when the request began
  stateOf,     \* the state that a callback has found
  sessions,    \* rows of refresh_tokens; between the delete and the save of a
               \* refresh a session has none
  oauthStates, \* keys in Redis
  resetToken,  \* somebody holds a reset token that has not expired
  underWay,    \* sign-ins and refreshes that a revocation has met on their way
  unrevoked    \* a password was changed, and then the revocation failed

passwordVars == <<password, authPc, since, stateOf, sessions, oauthStates, resetToken,
                  underWay, unrevoked>>

PWTypeOK ==
  /\ password \in 0..MaxChanges
  /\ authPc \in [AuthCall -> {"new", "update", "revoke", "state", "delete", "save", "done"}]
  /\ since \in [AuthCall -> 0..MaxChanges]
  /\ stateOf \in [AuthCall -> OauthState]
  /\ sessions \in [AuthCall -> {"none", "live", "renewing"}]
  /\ oauthStates \in [OauthState -> {"new", "live", "gone"}]
  /\ resetToken \in BOOLEAN
  /\ underWay \subseteq AuthCall
  /\ unrevoked \in BOOLEAN

PWInit ==
  /\ password = 0
  /\ authPc = [c \in AuthCall |-> "new"]
  /\ since = [c \in AuthCall |-> 0]
  /\ \E s \in OauthState : stateOf = [c \in AuthCall |-> s]
  /\ sessions = [c \in AuthCall |-> "none"]
  /\ oauthStates = [s \in OauthState |-> "new"]
  /\ resetToken = FALSE
  /\ underWay = {}
  /\ unrevoked = FALSE

AuthStep(c, from, to) == authPc[c] = from /\ authPc' = [authPc EXCEPT ![c] = to]
BeginAuth(c, to) == AuthStep(c, "new", to) /\ since' = [since EXCEPT ![c] = password]

(***************************************************************************)
(* Sign-ins.                                                               *)
(***************************************************************************)
\* login has verified the password against the user it has read.
loginVerified(c) ==
  /\ BeginAuth(c, "save")
  /\ UNCHANGED <<password, stateOf, sessions, oauthStates, resetToken, underWay, unrevoked>>

createOauthState(s) ==
  /\ oauthStates[s] = "new"
  /\ oauthStates' = [oauthStates EXCEPT ![s] = "live"]
  /\ UNCHANGED <<password, authPc, since, stateOf, sessions, resetToken, underWay, unrevoked>>

OauthStateExpires(s) ==
  /\ oauthStates[s] = "live"
  /\ oauthStates' = [oauthStates EXCEPT ![s] = "gone"]
  /\ UNCHANGED <<password, authPc, since, stateOf, sessions, resetToken, underWay, unrevoked>>

\* The callback, with a state of its choice; the user exists and is verified,
\* so nothing of him is changed.
validateGoogleUser(c) ==
  /\ BeginAuth(c, "state")
  /\ \E s \in OauthState : stateOf' = [stateOf EXCEPT ![c] = s]
  /\ UNCHANGED <<password, sessions, oauthStates, resetToken, underWay, unrevoked>>

\* GET of the state's key.
consumeOauthState(c) ==
  /\ AuthStep(c, "state", IF oauthStates[stateOf[c]] = "live" THEN "delete" ELSE "done")
  /\ UNCHANGED <<password, since, stateOf, sessions, oauthStates, resetToken, underWay, unrevoked>>

\* DEL of it, whether it is still there or not.
DeleteOauthState(c) ==
  /\ AuthStep(c, "delete", "save")
  /\ oauthStates' = [oauthStates EXCEPT ![stateOf[c]] = "gone"]
  /\ UNCHANGED <<password, since, stateOf, sessions, resetToken, underWay, unrevoked>>

\* generateRefreshToken, by login and loginGoogle.
SaveSession(c) ==
  /\ AuthStep(c, "save", "done")
  /\ sessions' = [sessions EXCEPT ![c] = "live"]
  /\ UNCHANGED <<password, since, stateOf, oauthStates, resetToken, underWay, unrevoked>>

(***************************************************************************)
(* Changes.                                                                *)
(***************************************************************************)
\* The user has been read, and his password is the one he says and not the new one.
changePassword(c) ==
  /\ BeginAuth(c, "update")
  /\ UNCHANGED <<password, stateOf, sessions, oauthStates, resetToken, underWay, unrevoked>>

\* The token is a JWT that nothing marks as used.
resetPassword(c) ==
  /\ resetToken
  /\ BeginAuth(c, "update")
  /\ UNCHANGED <<password, stateOf, sessions, oauthStates, resetToken, underWay, unrevoked>>

updatePassword(c) ==
  /\ password < MaxChanges
  /\ AuthStep(c, "update", "revoke")
  /\ password' = password + 1
  /\ UNCHANGED <<since, stateOf, sessions, oauthStates, resetToken, underWay, unrevoked>>

\* Mutant: one session may stay, say that of the request.
invalidateOtherRefreshTokens(c) ==
  /\ AuthStep(c, "revoke", "done")
  /\ \E kept \in AuthCall :
       sessions' = [s \in AuthCall |-> IF sessions[s] = "live" /\ s # kept THEN "none" ELSE sessions[s]]
  /\ underWay' = underWay \cup {s \in AuthCall : \/ sessions[s] = "renewing"
                                                 \/ authPc[s] \in {"state", "delete", "save"}}
  /\ unrevoked' = FALSE
  /\ UNCHANGED <<password, since, stateOf, oauthStates, resetToken>>

\* The DELETE of the user's rows.  The mail that follows may fail without effect.
invalidateAllRefreshTokens(c) ==
  /\ AuthStep(c, "revoke", "done")
  /\ sessions' = [s \in AuthCall |-> IF sessions[s] = "live" THEN "none" ELSE sessions[s]]
  /\ underWay' = underWay \cup {s \in AuthCall : \/ sessions[s] = "renewing"
                                                 \/ authPc[s] \in {"state", "delete", "save"}}
  /\ unrevoked' = FALSE
  /\ UNCHANGED <<password, since, stateOf, oauthStates, resetToken>>

\* A query or Redis fails, or the process dies.
AuthFails(c) ==
  /\ authPc[c] \notin {"new", "done"}
  /\ authPc' = [authPc EXCEPT ![c] = "done"]
  /\ unrevoked' = (unrevoked \/ authPc[c] = "revoke")
  /\ UNCHANGED <<password, since, stateOf, sessions, oauthStates, resetToken, underWay>>

\* verifyResetOtp hands it out, and ten minutes later it expires.
ResetTokenChanges ==
  /\ resetToken' = ~resetToken
  /\ UNCHANGED <<password, authPc, since, stateOf, sessions, oauthStates, underWay, unrevoked>>

(***************************************************************************)
(* Sessions.                                                               *)
(***************************************************************************)
SessionStep(s, from, to) ==
  /\ sessions[s] = from
  /\ sessions' = [sessions EXCEPT ![s] = to]
  /\ UNCHANGED <<password, authPc, since, stateOf, oauthStates, resetToken, underWay, unrevoked>>

\* rotateTokens deletes the row, and saves the next one or fails.
BeginRenewal(s) == SessionStep(s, "live", "renewing")
EndRenewal(s) == SessionStep(s, "renewing", "live")
RenewalFails(s) == SessionStep(s, "renewing", "none")

\* logout, or the row expires.
EndSession(s) == SessionStep(s, "live", "none")

PWNext ==
  \/ \E c \in AuthCall :
       \/ loginVerified(c) \/ validateGoogleUser(c) \/ consumeOauthState(c) \/ DeleteOauthState(c)
       \/ SaveSession(c) \/ changePassword(c) \/ resetPassword(c) \/ updatePassword(c)
       \/ invalidateAllRefreshTokens(c) \/ AuthFails(c)
       \/ BeginRenewal(c) \/ EndRenewal(c) \/ RenewalFails(c) \/ EndSession(c)
  \/ \E s \in OauthState : createOauthState(s) \/ OauthStateExpires(s)
  \/ ResetTokenChanges

PWSpec == PWInit /\ [][PWNext]_passwordVars

(***************************************************************************)
(* Properties.                                                             *)
(***************************************************************************)

(***************************************************************************)
(* "All sessions have been signed out" (auth.service.ts, changePassword):  *)
(* once no change is between its two statements and the last revocation    *)
(* has not failed, a session from before the last change is there only if  *)
(* its sign-in or its refresh was under way when the rows were deleted,    *)
(* whatever changes, resets and sign-ins overlap.                          *)
(***************************************************************************)
PasswordChangeSignsOut ==
  unrevoked \/ (\E c \in AuthCall : authPc[c] = "revoke")
  \/ \A s \in AuthCall : sessions[s] # "none" /\ since[s] < password => s \in underWay
=============================================================================
