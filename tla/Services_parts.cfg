SPECIFICATION MCSpec
CONSTANTS
  Editor = {c1, c2}
  Pair = {d1, d2}
  Extra = d3
  EntriesOf <- MCEntriesOf
  Date = {1, 2}
  Ongoing = Ongoing
  NoRow = NoRow
  EventCall = {c1, c2}
  Visitor = {d1, d2}
  MaxRetries = 1
  LinkCheck = {c1, c2, c3}
  LinkPolls = 2
  MaxVersions = 1
  NoLinks = NoLinks
  InviteTab = {c1, c2}
  InviteId = {d1, d2}
  MailAttempts = 1
  NoInvite = NoInvite
  MaxUser = 2
  FanoutBatchSize = 1
  FanoutAttempts = 2
  MaxStalls = 1
  WaitlistCall = {c1, c2}
  WelcomeAttempts = 2
  NoEntry = NoEntry
  AuthCall = {c1, c2, c3}
  OauthState = {o1}
  MaxChanges = 2
  LimitedCall = {c1, c2, c3}
  MaxAttempts = 2
  FallbackLimit = 1
  MaxHits = 4
  Trail = {d1, d2}
  NoStats = NoStats
SYMMETRY Symmetry
CHECK_DEADLOCK FALSE
INVARIANTS
  TypesOK
  PositionsDistinct
  OrderHolds
  EntriesSound
  EventAccounted
  OneFiller
  PendingIsMailed
  AudienceReached
  EmittedOnce
  WelcomedOnce
  PasswordChangeSignsOut
  LimitHoldsAndLifts
PROPERTIES
  MailedLinksWork
  ImplementsDelivery
