--------------------------- MODULE BrowserSession ---------------------------
(***************************************************************************)
(* One sign-in of one browser, to its end: the cookies that JwtAuthGuard,  *)
(* AuthService.refreshTokens and logout set and clear in the responses to  *)
(* requests that overlap, over the rows and the grace keys of the account. *)
(* The inside of rotateTokens is TokenRotation's subject: here it takes    *)
(* the lock and does the rest in one step.  Tokens are numbered as they    *)
(* are minted, and 0 is no token.                                          *)
(***************************************************************************)
EXTENDS Naturals

CONSTANTS
  WebRequest, \* requests that the browser may have in flight
  MaxTokens   \* bound: refresh tokens minted

ASSUME BrowserAssumption == MaxTokens \in Nat \ {0}

RefreshTokens == 1..MaxTokens
AccessAge == {"none", "valid", "expiring", "expired"}
Route == {"guarded", "public", "refresh", "logout"}

VARIABLES
  tokenRows,     \* rows of refresh_tokens
  successor,     \* grace keys
  minted,
  accountActive, \* what UserStatusService.isActive answers
  cookies,       \* the browser's
  web,           \* its requests
  excused        \* the session may be over: see StaysSignedIn

browserVars == <<tokenRows, successor, minted, accountActive, cookies, web, excused>>

NoWeb == [at |-> "none", route |-> "public", access |-> "none", refresh |-> 0, token |-> 0,
          locks |-> FALSE, reply |-> "keep", user |-> FALSE, sawActive |-> FALSE]

BSTypeOK ==
  /\ tokenRows \subseteq RefreshTokens
  /\ successor \in [RefreshTokens -> 0..MaxTokens]
  /\ minted \in RefreshTokens
  /\ accountActive \in BOOLEAN
  /\ cookies \in [access : AccessAge, refresh : 0..MaxTokens]
  /\ web \in [WebRequest ->
       [at : {"none", "guard", "rotate", "status", "handler", "exchange", "respond"},
        route : Route, access : AccessAge, refresh : 0..MaxTokens, token : 0..MaxTokens,
        locks : BOOLEAN, reply : {"keep", "clear", "set"}, user : BOOLEAN, sawActive : BOOLEAN]]
  /\ excused \in BOOLEAN

BSInit ==
  /\ tokenRows = {1}
  /\ successor = [t \in RefreshTokens |-> 0]
  /\ minted = 1
  /\ accountActive = TRUE
  /\ cookies = [access |-> "valid", refresh |-> 1]
  /\ web = [r \in WebRequest |-> NoWeb]
  /\ excused = FALSE

WebAt(r, label) == web[r].at = label
WebGoTo(r, label) == web' = [web EXCEPT ![r].at = label]

\* Only the cookies of the response matter from now on.
Response(reply, token, user, sawActive) ==
  [at |-> "respond", route |-> "public", access |-> "none", refresh |-> 0,
   token |-> IF reply = "set" THEN token ELSE 0,
   locks |-> FALSE, reply |-> reply, user |-> user, sawActive |-> sawActive]

Answer(r, reply) ==
  web' = [web EXCEPT ![r] = Response(reply, @.token, FALSE, FALSE)]

\* The request gets past the guard.  What the handlers of most routes do has
\* nothing to do with the session.
Admit(r, reply, user) ==
  IF web[r].route \in {"guarded", "public"}
  THEN web' = [web EXCEPT ![r] = Response(reply, @.token, user, @.sawActive)]
  ELSE web' = [web EXCEPT ![r] = [@ EXCEPT !.at = "handler", !.access = "none", !.user = user,
                                           !.locks = FALSE]]

Guarded(r) == web[r].route = "guarded"
Verifies(r) == web[r].access \in {"valid", "expiring"}

\* Once the session may be over, only the requests in flight are followed, and
\* those that the browser sends without cookies.
SendRequest(r, route) ==
  /\ WebAt(r, "none") /\ (excused => cookies.refresh = 0)
  /\ web' = [web EXCEPT ![r] = [NoWeb EXCEPT !.at = "guard", !.route = route,
                                   !.access = cookies.access, !.refresh = cookies.refresh,
                                   !.sawActive = accountActive]]
  /\ UNCHANGED <<tokenRows, successor, minted, accountActive, cookies, excused>>

(***************************************************************************)
(* JwtAuthGuard.                                                           *)
(***************************************************************************)
inactiveAccountException(r) == Guarded(r) /\ Answer(r, "clear") /\ excused' = TRUE

\* A public route goes on without a user; there, a status that cannot be read is
\* caught like a token that does not verify.
canActivate(r) ==
  /\ WebAt(r, "guard")
  /\ \/ /\ Verifies(r) /\ accountActive
        /\ IF Guarded(r) /\ web[r].access = "expiring"
           THEN web' = [web EXCEPT ![r].at = "rotate", ![r].user = TRUE]
           ELSE Admit(r, "keep", TRUE)
        /\ UNCHANGED excused
     \/ /\ Verifies(r) /\ ~accountActive
        /\ inactiveAccountException(r) \/ (~Guarded(r) /\ Admit(r, "keep", FALSE) /\ UNCHANGED excused)
     \/ /\ ~Verifies(r)
        /\ IF Guarded(r) \/ web[r].access = "expired" THEN WebGoTo(r, "rotate")
                                                      ELSE Admit(r, "keep", FALSE)
        /\ UNCHANGED excused
     \/ Verifies(r) /\ ~Guarded(r) /\ WebGoTo(r, "rotate") /\ UNCHANGED excused
  /\ UNCHANGED <<tokenRows, successor, minted, accountActive, cookies>>

Silent(r) == ~Guarded(r) \/ web[r].access = "expiring"

\* Mutant: a contended refresh clears the cookies like a failed one.
RefreshFailedClears(r, reply) ==
  IF Silent(r) THEN Admit(r, "keep", web[r].user)
               ELSE Answer(r, "clear")

\* attemptRefresh has got no tokens.
RefreshFailed(r, reply) ==
  IF Silent(r) THEN Admit(r, "keep", web[r].user)
               ELSE Answer(r, reply)

\* The caller's catch: refreshTokens clears the cookies whatever it catches.
RotationThrows(r, reply) ==
  IF WebAt(r, "exchange") THEN Answer(r, "clear") ELSE RefreshFailed(r, reply)

\* The refresh cookie outlives the access token, so this is a guarded route.
NoRefreshToken(r) ==
  /\ WebAt(r, "rotate") /\ web[r].refresh = 0
  /\ Answer(r, "clear")
  /\ UNCHANGED <<tokenRows, successor, minted, accountActive, cookies, excused>>

Rotates(r) == (WebAt(r, "rotate") \/ WebAt(r, "exchange")) /\ web[r].refresh # 0
Contended(r) == \E q \in WebRequest : web[q].locks /\ web[q].refresh = web[r].refresh

LockToken(r) ==
  /\ Rotates(r) /\ ~Contended(r)
  /\ web' = [web EXCEPT ![r].locks = TRUE]
  /\ UNCHANGED <<tokenRows, successor, minted, accountActive, cookies, excused>>

\* The loser of the lock has waited for the grace key in vain.
RefreshInProgress(r) ==
  /\ Rotates(r) /\ ~web[r].locks /\ Contended(r)
  /\ RotationThrows(r, "keep")
  /\ excused' = (excused \/ WebAt(r, "exchange"))
  /\ UNCHANGED <<tokenRows, successor, minted, accountActive, cookies>>

GotTokens(r, t) ==
  web' = [web EXCEPT ![r] = IF @.at = "rotate"
                            THEN [@ EXCEPT !.at = "status", !.token = t, !.locks = FALSE]
                            ELSE Response("set", t, FALSE, FALSE)]

\* The row is replaced, or the grace key says by what it was, or the session is over.
rotateTokens(r) ==
  /\ Rotates(r) /\ web[r].locks
  /\ LET t == web[r].refresh
     IN  \/ /\ t \in tokenRows /\ minted < MaxTokens
            /\ minted' = minted + 1
            /\ tokenRows' = (tokenRows \ {t}) \cup {minted'}
            /\ successor' = [successor EXCEPT ![t] = minted']
            /\ GotTokens(r, minted')
         \/ /\ t \notin tokenRows
            /\ IF successor[t] # 0 THEN GotTokens(r, successor[t]) ELSE RotationThrows(r, "clear")
            /\ UNCHANGED <<tokenRows, successor, minted>>
  /\ UNCHANGED <<accountActive, cookies, excused>>

\* The database or Redis fails, before or after the row is deleted.
RotationFails(r) ==
  /\ Rotates(r) /\ (web[r].locks \/ ~Contended(r))
  /\ tokenRows' \in {tokenRows, tokenRows \ {web[r].refresh}}
  /\ RotationThrows(r, "clear")
  /\ excused' = TRUE
  /\ UNCHANGED <<successor, minted, accountActive, cookies>>

\* Mutant: the guard does not ask whether the account is active after a refresh.
finishRefreshUnchecked(r) ==
  /\ WebAt(r, "status")
  /\ Admit(r, "set", TRUE)
  /\ UNCHANGED <<tokenRows, successor, minted, accountActive, cookies, excused>>

\* attemptRefresh once it has the tokens.
finishRefresh(r) ==
  /\ WebAt(r, "status")
  /\ IF accountActive
     THEN Admit(r, "set", TRUE)
     ELSE IF Silent(r) THEN Admit(r, "clear", web[r].user)
                       ELSE Answer(r, "clear")
  /\ excused' = (excused \/ ~accountActive)
  /\ UNCHANGED <<tokenRows, successor, minted, accountActive, cookies>>

(***************************************************************************)
(* The handlers, and the response.                                         *)
(***************************************************************************)
\* The guard has come first, and may have rotated the token that is used here.
refreshTokens(r) ==
  /\ WebAt(r, "handler") /\ web[r].route = "refresh"
  /\ IF web[r].refresh = 0 THEN Answer(r, "clear") ELSE WebGoTo(r, "exchange")
  /\ UNCHANGED <<tokenRows, successor, minted, accountActive, cookies, excused>>

\* The row of the token that was sent is deleted: not the one the guard has put
\* in its place.
logout(r) ==
  /\ WebAt(r, "handler") /\ web[r].route = "logout"
  /\ tokenRows' = tokenRows \ {web[r].refresh}
  /\ Answer(r, "clear")
  /\ excused' = TRUE
  /\ UNCHANGED <<successor, minted, accountActive, cookies>>

\* setTokenCookies and clearTokenCookies take effect; responses come in any order.
Respond(r) ==
  /\ WebAt(r, "respond")
  /\ cookies' = CASE web[r].reply = "keep"  -> cookies
                  [] web[r].reply = "clear" -> [access |-> "none", refresh |-> 0]
                  [] web[r].reply = "set"   -> [access |-> "valid", refresh |-> web[r].token]
  /\ web' = [web EXCEPT ![r] = NoWeb]
  /\ UNCHANGED <<tokenRows, successor, minted, accountActive, excused>>

\* The process dies, or the response is lost.
WebRequestDies(r) ==
  /\ ~WebAt(r, "none")
  /\ web' = [web EXCEPT ![r] = NoWeb]
  /\ UNCHANGED <<tokenRows, successor, minted, accountActive, cookies, excused>>

(***************************************************************************)
(* Time and others.                                                        *)
(***************************************************************************)
\* needsSilentRefresh; then the token expires, and about then the cookie.
AccessAges ==
  /\ cookies.access # "none" /\ ~excused
  /\ cookies' = [cookies EXCEPT !.access = CASE @ = "valid"    -> "expiring"
                                             [] @ = "expiring" -> "expired"
                                             [] @ = "expired"  -> "none"]
  /\ UNCHANGED <<tokenRows, successor, minted, accountActive, web, excused>>

\* Tokens that somebody still holds and may present.
Held ==
  {cookies.refresh} \cup
  UNION {{web[r].refresh, web[r].token} : r \in {q \in WebRequest : web[q].at # "none"}}

GraceLapses(t) ==
  /\ successor[t] # 0 /\ ~excused
  /\ successor' = [successor EXCEPT ![t] = 0]
  /\ excused' = (excused \/ \E h \in Held : 0 < h /\ h <= t)
  /\ UNCHANGED <<tokenRows, minted, accountActive, cookies, web>>

\* The row expires, or a password change deletes it.
RowRevoked ==
  /\ tokenRows # {} /\ ~excused
  /\ tokenRows' = {}
  /\ excused' = TRUE
  /\ UNCHANGED <<successor, minted, accountActive, cookies, web>>

AccountChanges ==
  /\ accountActive' = ~accountActive
  /\ web' = [r \in WebRequest |-> IF web[r].at = "none" THEN NoWeb
                                  ELSE [web[r] EXCEPT !.sawActive = @ \/ accountActive']]
  /\ UNCHANGED <<tokenRows, successor, minted, cookies, excused>>

BSNext ==
  \/ \E r \in WebRequest :
       \/ \E route \in Route : SendRequest(r, route)
       \/ canActivate(r) \/ NoRefreshToken(r) \/ LockToken(r) \/ RefreshInProgress(r)
       \/ rotateTokens(r) \/ RotationFails(r) \/ finishRefresh(r)
       \/ refreshTokens(r) \/ logout(r) \/ Respond(r) \/ WebRequestDies(r)
  \/ AccessAges
  \/ \E t \in RefreshTokens : GraceLapses(t)
  \/ RowRevoked \/ AccountChanges

BSSpec == BSInit /\ [][BSNext]_browserVars

(***************************************************************************)
(* Properties.                                                             *)
(***************************************************************************)

\* The token is accepted, or the grace keys lead from it to one that is.
Accepted(t) ==
  \E n \in tokenRows : t # 0 /\ t <= n /\ \A k \in t .. n - 1 : successor[k] = k + 1

(***************************************************************************)
(* Whatever requests overlap, are contended or die, and in whatever order  *)
(* the responses come, the browser holds a token that is accepted: until   *)
(* it logs out or is told that the account is not active, the row is       *)
(* revoked, Redis or the database fails in a refresh, a grace key lapses   *)
(* before all who hold an older token have come, or POST                   *)
(* /auth/refresh-token is contended, which unlike the guard clears the     *)
(* cookies then.                                                           *)
(***************************************************************************)
StaysSignedIn == ~excused => Accepted(cookies.refresh)

(***************************************************************************)
(* A request is served as the user only if the account was active at some  *)
(* time during it, although the guard refreshes the tokens before it looks.*)
(***************************************************************************)
ServedWhileActive == \A r \in WebRequest : web[r].user => web[r].sawActive
=============================================================================
