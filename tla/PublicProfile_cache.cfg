SPECIFICATION FairSpec
CONSTANTS
  Visitor = {v1, v2}
  Session = {s1, s2}
  MaxChanges = 2
  Faults = TRUE
INVARIANTS
  HiddenLeaksOnlyThroughGap
PROPERTIES
  EventuallyCurrent
