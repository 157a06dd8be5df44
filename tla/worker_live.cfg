CONSTANTS
  c1 = c1  c2 = c2
  Calls = {c1}
  Tasks = {c1}
  Streams = {}
  Ambient = FALSE
  Cap = 1
  Threshold = 2
  MaxWorkers = 1
  MaxReports = 2
  MaxTimeouts = 1
  MaxFailures = 0
  MaxFaults = 1
SPECIFICATION LiveSpec
PROPERTIES LifecycleEnds CallsEnd SuicidePact
CHECK_DEADLOCK FALSE
