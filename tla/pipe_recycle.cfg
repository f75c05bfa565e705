SPECIFICATION FairSpec
CONSTANTS
  N = 2
  MaxRequests = 1
  Tasks = {t1, t2}
  Transport = "pipe"
INVARIANTS
  QueueBacked
PROPERTIES
  CapacityRestored
  EveryRequestEnds
