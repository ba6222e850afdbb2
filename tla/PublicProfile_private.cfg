SPECIFICATION Spec
CONSTANTS
  Visitor = {v1}
  Session = {s1}
  MaxChanges = 2
  Faults = FALSE
INVARIANTS
  PrivateIsHidden
