SPECIFICATION MCSpec
CONSTANTS
  Token = {t1, t2}
  User = {u1}
  Request = {r1}
  NoToken = NoToken
  NoUser = NoUser
  PollAttempts = 2
  MaxSignIns = 1
  Disruptions = {}

CHECK_DEADLOCK FALSE
INVARIANTS
  SignedOutStaysOut
