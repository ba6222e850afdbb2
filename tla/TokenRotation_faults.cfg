SPECIFICATION MCSpec
CONSTANTS
  Token = {t1, t2, t3, t4}
  User = {u1}
  Request = {r1, r2, r3}
  NoToken = NoToken
  NoUser = NoUser
  PollAttempts = 2
  MaxSignIns = 1
  Disruptions = {"redis", "database", "crash", "lockTtl", "graceTtl"}
SYMMETRY Symmetry
CHECK_DEADLOCK FALSE
INVARIANTS
  SessionUnforked
  AnswersAgree
  SessionSurvives
  RowsReachable
PROPERTIES
  ImplementsSessions
