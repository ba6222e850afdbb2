SPECIFICATION MCSpec
CONSTANTS
  Session = {s1, s2}
  MaxEdits = 2
  MaxTime = 2
  NoDraft = NoDraft
  NoSession = NoSession
  NoToken = NoToken
  Null = Null
  AccountId = {u1, u2}
  AccountCall = {s1, s2}
  NoUser = NoUser
SYMMETRY Symmetry
INVARIANTS
  TypesOK
  EditsKept
PROPERTIES
  NoBlindOverwrite
  ImplementsUserTable
