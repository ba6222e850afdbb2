SPECIFICATION MCFairSpec
CONSTANTS
  Token = {t1, t2, t3}
  User = {u1}
  Request = {r1, r2}
  NoToken = NoToken
  NoUser = NoUser
  PollAttempts = 2
  MaxSignIns = 1
  Disruptions = {"database", "crash"}
CHECK_DEADLOCK FALSE
INVARIANTS
  OnlyRealExpiry
PROPERTIES
  RefreshTerminates
