CONSTANTS
  d = d
  x = x
  Ids = {d, x}
  Generated = {x}
  Canonical <- OneCapability
  Serial = {x}
  Calls = {"call1", "call2"}
  Loop = "loop"
  Threads = {"thread"}
  Limits <- DefaultLimits
  MaxRetries = 1
  MaxWorkers = 3
  MaxActs = 3
SPECIFICATION FairSpec
INVARIANTS DeferredHookHasCall ExecutingIsMarked LimitHolds
PROPERTIES RetryOnFreshWorker CallsEnd
CHECK_DEADLOCK FALSE
