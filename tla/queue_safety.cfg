CONSTANTS
  j1 = j1  j2 = j2  a = a
  Jobs = {j1, j2}
  Instances = {a}
  Inst <- OnOneInstance
  Cap <- CapTwo
  Lanes = 2
  Budget = 2
  Peaks = {1, 2, 3}
  Telemetry <- GpuTelemetry
  Priorities = {0}
  MaxHistory = 1
  MaxStarts = 1
SPECIFICATION Spec
INVARIANTS AdmissionSafe LanesAreTasks NoJobLost LaneCoversCall
PROPERTIES TerminalUndoneOnlyByLaunch CancelledNeverCompletes LedgerSpec
SYMMETRY SameInstance
CHECK_DEADLOCK FALSE
