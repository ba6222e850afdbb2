SPECIFICATION MCSpec
CONSTANTS
  Change = {c1, c2}
  Check = {k1, k2}
  NoStatus = NoStatus
  NoAction = NoAction
  Ttl = 2
  MaxDelay = 1
SYMMETRY Symmetry
INVARIANTS
  ChangeTakesHold
  RequestsArrive
