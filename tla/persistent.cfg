SPECIFICATION PFairSpec
CONSTANTS
  N = 1
  MaxRequests = 1
  Tasks = {t1, t2}
  Transport = "pipe"
  WorkerModes = {"process", "thread"}
  Cancellable = TRUE
  MaxWorkers = 3
  MaxCrashes = 1
INVARIANTS
  OnlyAbandonedLeak
  ReadyConsumed
PROPERTIES
  PoolRecovers
