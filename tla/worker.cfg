CONSTANTS
  c1 = c1  c2 = c2
  Calls = {c1, c2}
  Tasks = {c2}
  Streams = {c1}
  Ambient = FALSE
  Cap = 2
  Threshold = 1
  MaxWorkers = 1
  MaxReports = 1
  MaxTimeouts = 1
  MaxFailures = 1
  MaxFaults = 1
SPECIFICATION Spec
INVARIANTS CancelHeld OnlyTheAsked
PROPERTY NoneLeftBehind
CHECK_DEADLOCK FALSE
