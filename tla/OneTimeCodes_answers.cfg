SPECIFICATION MCSpec
CONSTANTS
  Call = {c1, c2}
  MaxAttempts = 2
  MaxCodes = 2
  NoAccount = NoAccount
  WebRequest = {c1, c2}
  MaxTokens = 2
SYMMETRY Symmetry
INVARIANTS
  SessionsOnlyVerified
  FailuresTakeEffect
  AcceptedStaysSpent
  CodesGetSent
  StaysSignedIn
  ServedWhileActive
