SPECIFICATION PSpec
CONSTANTS
  N = 1
  MaxRequests = 0
  Tasks = {t1, t2}
  Transport = "pipe"
  WorkerModes = {"thread"}
  Cancellable = TRUE
  MaxWorkers = 2
  MaxCrashes = 0
SYMMETRY TaskSymmetry
INVARIANTS
  OwnResponse
