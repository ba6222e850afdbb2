SPECIFICATION AuditSpec
CONSTANTS
  Change = {c1, c2}
  Check = {k1}
  NoStatus = NoStatus
  NoAction = NoAction
  Ttl = 1
  MaxDelay = 0
SYMMETRY Symmetry
PROPERTIES
  AuditedTransitions
