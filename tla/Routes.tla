------------------------------- MODULE Routes -------------------------------
(***************************************************************************)
(* From a request to its handler: the routes that the controllers declare, *)
(* of which the first that matches is taken; the guards that JwtAuthGuard  *)
(* and RolesGuard are, by what the decorators say; and the usernames that  *)
(* become segments of an address.  The prefix and the version, /api/v1,    *)
(* are left out.                                                           *)
(***************************************************************************)
EXTENDS Sequences, FiniteSetsExt

(***************************************************************************)
(* The routes, in the order of their methods.                              *)
(***************************************************************************)
Route(method, path, handler, public, roles) ==
  [method |-> method, path |-> path, handler |-> handler, public |-> public, roles |-> roles]

\* @Public, nothing, or @Roles(UserRole.ADMIN) on the method or on the class.
Open(method, path, handler)     == Route(method, path, handler, TRUE, "none")
SignedIn(method, path, handler) == Route(method, path, handler, FALSE, "none")
Admins(method, path, handler)   == Route(method, path, handler, FALSE, "method")
AllAdmins(method, path, handler) == Route(method, path, handler, FALSE, "class")

Parameter == {":username", ":id", ":token", ":category"}

ContentRoutes == <<
  SignedIn("POST", <<"profiles">>, "createProfile"),
  SignedIn("PUT", <<"profiles", "content">>, "upsertDraft"),
  SignedIn("GET", <<"profiles", "content", "state">>, "getDraftState"),
  SignedIn("GET", <<"profiles", "content">>, "getProfileContent"),
  Open("GET", <<"profiles", "validate", "link">>, "validateLink")>>

AppearanceRoutes == <<
  SignedIn("GET", <<"profiles", "appearance">>, "getAppearance"),
  SignedIn("PATCH", <<"profiles", "appearance">>, "updateAppearance"),
  SignedIn("GET", <<"profiles", "dashboard">>, "getDashboardProfile"),
  SignedIn("POST", <<"profiles", "publish">>, "publishProfile")>>

UsernameRoutes == <<
  SignedIn("PATCH", <<"profiles", ":username">>, "updateProfile"),
  Open("GET", <<"profiles", ":username">>, "getPublicProfile")>>

\* Each of a section's lists has the same five.
SectionRoutes(section) == <<
  SignedIn("POST", <<"profiles", "me", section>>, section),
  SignedIn("GET", <<"profiles", "me", section>>, section),
  SignedIn("PATCH", <<"profiles", "me", section, ":id">>, section),
  SignedIn("DELETE", <<"profiles", "me", section, ":id">>, section),
  SignedIn("PUT", <<"profiles", "me", section, "order">>, section)>>

SkillRoutes == SectionRoutes("skills")
EducationRoutes == SectionRoutes("education")
WorkExperienceRoutes == SectionRoutes("work-experience")
AwardRoutes == SectionRoutes("awards")

ComponentRoutes == <<
  SignedIn("PATCH", <<"profiles", "me", "components", ":id">>, "patchComponent"),
  SignedIn("PUT", <<"profiles", "me", "components", "order">>, "reorderComponents")>>

VisibilityRoute == <<
  SignedIn("PATCH", <<"profiles", "me", "visibility">>, "updateVisibility")>>

PortfolioRoutes == <<
  SignedIn("POST", <<"profiles", "me", "portfolio">>, "createPortfolioItem"),
  SignedIn("PATCH", <<"profiles", "me", "portfolio", ":id">>, "updatePortfolioItem")>>

AuthRoutes == <<
  Open("POST", <<"auth", "register">>, "register"),
  Open("POST", <<"auth", "login">>, "login"),
  Open("POST", <<"auth", "refresh-token">>, "refreshToken"),
  Open("POST", <<"auth", "logout">>, "logout"),
  SignedIn("GET", <<"auth", "me">>, "me")>>

PasswordRoutes == <<
  Open("POST", <<"auth", "forgot-password">>, "forgotPassword"),
  Open("POST", <<"auth", "verify-reset-otp">>, "verifyResetOtp"),
  Open("POST", <<"auth", "reset-password">>, "resetPassword"),
  SignedIn("PATCH", <<"auth", "password">>, "changePassword"),
  Open("POST", <<"auth", "verify-otp">>, "verifyOtp"),
  Open("GET", <<"auth", "google">>, "googleAuth"),
  Open("GET", <<"auth", "google", "callback">>, "googleCallback"),
  Open("POST", <<"auth", "resend-otp">>, "resendOtp")>>

UserRoutes == <<
  Admins("POST", <<"users">>, "createUser"),
  Admins("GET", <<"users">>, "findAllUsers"),
  Admins("GET", <<"users", ":id">>, "findOneUser"),
  Admins("PATCH", <<"users", ":id">>, "updateUser"),
  Admins("DELETE", <<"users", ":id">>, "removeUser"),
  SignedIn("POST", <<"users", "onboarding-complete">>, "markOnboardingComplete"),
  SignedIn("GET", <<"users", "me", "settings">>, "getSettings"),
  SignedIn("GET", <<"users", "me", "billing">>, "getBillingInfo"),
  SignedIn("GET", <<"users", "me", "preferences">>, "getPreferences"),
  SignedIn("PATCH", <<"users", "me", "preferences">>, "updatePreferences"),
  SignedIn("PATCH", <<"users", "me", "email">>, "updateEmail")>>

AdminUserRoutes == <<
  AllAdmins("GET", <<"admin", "users">>, "searchUsers"),
  AllAdmins("GET", <<"admin", "users", ":id">>, "getUserDetail"),
  AllAdmins("PATCH", <<"admin", "users", ":id", "status">>, "updateUserStatus")>>

AdminMetricsRoutes == <<
  AllAdmins("GET", <<"admin", "metrics", "health">>, "getHealth"),
  AllAdmins("POST", <<"admin", "metrics", "backfill">>, "triggerBackfill"),
  AllAdmins("GET", <<"admin", "metrics", "summary">>, "getSummary"),
  AllAdmins("GET", <<"admin", "metrics", "search-activity">>, "getSearchActivity"),
  AllAdmins("GET", <<"admin", "metrics", "recent-activity">>, "getRecentActivity"),
  AllAdmins("GET", <<"admin", "metrics", "platform-health">>, "getPlatformHealth")>>

NotificationRoutes == <<
  SignedIn("GET", <<"notifications">>, "findAllNotifications"),
  SignedIn("GET", <<"notifications", "unread-count">>, "unreadCount"),
  SignedIn("PATCH", <<"notifications", ":id", "read">>, "markAsRead"),
  SignedIn("PATCH", <<"notifications", ":id", "unread">>, "markAsUnread"),
  SignedIn("PATCH", <<"notifications", "read-all">>, "markAllAsRead")>>

AnnouncementRoute == <<Admins("POST", <<"notifications", "announcements">>, "broadcast")>>

InviteRoutes == <<
  SignedIn("POST", <<"invites">>, "createInvite"),
  Open("GET", <<"invites", ":token">>, "getInvite"),
  SignedIn("POST", <<"invites", ":token", "claim">>, "claimInvite")>>

EventRoutes == <<
  Open("POST", <<"events", "link-click">>, "recordLinkClick"),
  Open("POST", <<"events", "profile-view">>, "recordProfileView")>>

AnalyticsRoutes == <<
  SignedIn("GET", <<"analytics", "profile-views">>, "getProfileViews"),
  SignedIn("GET", <<"analytics", "link-clicks">>, "getLinkClicks"),
  SignedIn("GET", <<"analytics", "search-conversions">>, "getSearchConversions"),
  SignedIn("GET", <<"analytics", "invite-conversions">>, "getInviteConversions")>>

UsernameCheckRoutes == <<
  Open("GET", <<"usernames", "check">>, "checkUsername"),
  SignedIn("GET", <<"usernames", "check", "internal">>, "checkUsernameInternal")>>

WaitlistRoutes == <<
  Open("POST", <<"waitlist">>, "addToWaitlist"),
  Admins("GET", <<"waitlist">>, "getAllWaitlist")>>

SearchRoute == <<Open("GET", <<"search">>, "search")>>
ContactRoute == <<Open("POST", <<"contact">>, "submitContact")>>
UploadRoute == <<SignedIn("POST", <<"uploads", ":category", "image-url">>, "uploadImage")>>

\* The metrics for Prometheus are not @Public.
ProbeRoutes == <<Open("GET", <<"health">>, "checkHealth"),
                 SignedIn("GET", <<"metrics">>, "getMetrics")>>

\* Modules register their controllers in the order of AppModule's imports.  Two
\* controllers share a prefix only for profiles and for notifications.
Routes ==
  ProbeRoutes \o WaitlistRoutes \o UserRoutes \o AuthRoutes \o PasswordRoutes \o InviteRoutes
  \o ContentRoutes \o AppearanceRoutes \o UsernameRoutes \o ComponentRoutes \o SkillRoutes
  \o EducationRoutes \o WorkExperienceRoutes \o AwardRoutes \o VisibilityRoute
  \o SearchRoute \o UsernameCheckRoutes \o AnalyticsRoutes \o ContactRoute \o PortfolioRoutes
  \o UploadRoute \o EventRoutes \o NotificationRoutes \o AnnouncementRoute
  \o AdminMetricsRoutes \o AdminUserRoutes

Declared == {Routes[i] : i \in DOMAIN Routes}

(***************************************************************************)
(* Usernames.                                                              *)
(***************************************************************************)
\* Mutant: the list is from before the dashboard.
RESERVED_BEFORE_DASHBOARD ==
  {"admin", "health", "status", "auth", "login", "logout", "register", "me", "settings",
   "search", "notifications", "contact"}

\* The reserved words that are segments of some address.
RESERVED_USERNAMES == RESERVED_BEFORE_DASHBOARD \cup {"dashboard"}

\* A segment that is no route's: some user's name, or an id.
Words == {"ada"} \cup ({route.path[i] : <<route, i>> \in
                          {p \in Declared \X (1..4) : p[2] <= Len(p[1].path)}} \ Parameter)

\* UsernamesService.check before it looks for a profile: the format, which no word
\* but `me` fails, then the list.
check(word) == word \notin RESERVED_USERNAMES

(***************************************************************************)
(* A request.                                                              *)
(***************************************************************************)
VARIABLE request

NoRequest == [at |-> "none"]

RTInit == request = NoRequest

FillIn(path, word) == [i \in DOMAIN path |-> IF path[i] \in Parameter THEN word ELSE path[i]]

Send ==
  /\ request.at = "none"
  /\ \E route \in Declared, word \in Words, who \in {"nobody", "user", "admin"} :
       request' = [at |-> "sent", method |-> route.method, path |-> FillIn(route.path, word),
                   who |-> who]

Matches(route, method, path) ==
  /\ route.method = method
  /\ Len(route.path) = Len(path)
  /\ \A i \in DOMAIN path : route.path[i] \in Parameter \cup {path[i]}

\* Express tries the routes in the order of their registration.
Dispatch ==
  /\ request.at = "sent"
  /\ LET found == {i \in DOMAIN Routes : Matches(Routes[i], request.method, request.path)}
     IN  request' = [at |-> "routed", method |-> request.method, path |-> request.path,
                     who |-> request.who, route |-> Routes[Min(found)]]

Done(status) ==
  request' = [at |-> "done", method |-> request.method, path |-> request.path,
              who |-> request.who, handler |-> request.route.handler, status |-> status]

\* JwtAuthGuard is the guard of the whole application and comes first.
AuthenticateRequest ==
  /\ request.at = "routed"
  /\ IF request.route.public \/ request.who # "nobody"
     THEN request' = [request EXCEPT !.at = "known"]
     ELSE Done(401)

\* Mutant: only the class is asked for its roles.
RolesOfClass(route) == IF route.roles = "class" THEN {"admin"} ELSE {}

\* getAllAndOverride of the handler and the class.
requiredRoles(route) == IF route.roles = "none" THEN {} ELSE {"admin"}

\* RolesGuard, and then the handler.
AuthorizeRequest ==
  /\ request.at = "known"
  /\ LET roles == requiredRoles(request.route)
     IN  Done(IF roles = {} \/ request.who \in roles THEN 200 ELSE 403)

NextRequest ==
  /\ request.at = "done"
  /\ request' = NoRequest

RTNext == Send \/ Dispatch \/ AuthenticateRequest \/ AuthorizeRequest \/ NextRequest

RTSpec == RTInit /\ [][RTNext]_request

(***************************************************************************)
(* Properties.                                                             *)
(***************************************************************************)
\* What is not the caller's own to see or to change.
Administration ==
  {"createUser", "findAllUsers", "findOneUser", "updateUser", "removeUser", "searchUsers",
   "getUserDetail", "updateUserStatus", "getHealth", "triggerBackfill", "getSummary",
   "getSearchActivity", "getRecentActivity", "getPlatformHealth", "broadcast", "getAllWaitlist"}

\* A fixed address gets the handler that was declared for it, and GET
\* /profiles/<name> the profile of any name that may be registered but two.
AddressesDistinct ==
  request.at = "done" =>
    /\ \A route \in Declared :
         route.method = request.method /\ route.path = request.path
         => request.handler = route.handler
    /\ \A word \in Words \ {"content", "appearance"} :
         request.method = "GET" /\ request.path = <<"profiles", word>> /\ check(word)
         => request.handler = "getPublicProfile" /\ request.status = 200

OnlyAdminsAdminister ==
  request.at = "done" /\ request.status = 200 /\ request.handler \in Administration
  => request.who = "admin"

(***************************************************************************)
(* No address is taken by another route, whatever the order of the methods *)
(* and controllers and whatever usernames are registered, except the pages *)
(* of the names `content` and `appearance`, which are free to be taken and *)
(* which nobody can see; and at no address is anybody but an administrator *)
(* let through to what shows or changes other people's accounts, whether   *)
(* the method or its class names the role.                                 *)
(***************************************************************************)
RequestsArrive == AddressesDistinct /\ OnlyAdminsAdminister
=============================================================================
