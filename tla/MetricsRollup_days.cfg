SPECIFICATION DaysSpec
CONSTANTS
  Worker = {w1}
  DayLength = 2
  MaxTime = 4
  ConfiguredStart = NoTime
  NoTime = NoTime
  HealthWorker = {w1}
  HealthCall = {r1}
  DashboardWorker = {w1}
  AdminRequest = {r1}
  MaxFigures = 0
SYMMETRY Symmetry
INVARIANTS
  ClosedDaysComplete
