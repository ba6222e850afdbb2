SPECIFICATION MCSpec
CONSTANTS
  Worker = {w1, w2}
  DayLength = 2
  MaxTime = 3
  ConfiguredStart = NoTime
  NoTime = NoTime
  HealthWorker = {w1, w2}
  HealthCall = {r1}
  DashboardWorker = {w1, w2}
  AdminRequest = {r1}
  MaxFigures = 2
SYMMETRY Symmetry
INVARIANTS
  NeverOvercounts
  OnlyErrorsSkipEvents
  CacheFollowsJobs
PROPERTIES
  LagIsNoticed
  WrittenGrows
