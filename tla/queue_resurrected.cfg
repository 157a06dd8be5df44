CONSTANTS
  j1 = j1  j2 = j2  a = a
  Jobs = {j1, j2}
  Instances = {a}
  Inst <- OnOneInstance
  Cap <- CapOne
  Lanes = 2
  Budget = 2
  Peaks = {0}
  Telemetry <- NoTelemetry
  Priorities = {0}
  MaxHistory = 1
  MaxStarts = 1
SPECIFICATION Spec
PROPERTIES CancelledNeverRuns
CHECK_DEADLOCK FALSE
