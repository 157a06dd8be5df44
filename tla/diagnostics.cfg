CONSTANTS
  c1 = c1  c2 = c2
  Calls = {c1, c2}
  Streams = {c2}
  None = None
  Loop = Loop
  Budget = 2
  Batch = 1
  WalMax = 1
  MaxLines = 3
  MaxFailures = 1
  MaxEnds = 2
  MaxIntervals = 1
SPECIFICATION Spec
INVARIANTS EndedIsRecorded StoredOnce OncePerInterval
CHECK_DEADLOCK FALSE
