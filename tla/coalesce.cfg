SPECIFICATION FairSpec
CONSTANTS
  Tasks = {t1, t2, t3}
  Keys = {a}
  MaxEntries = 1
  MaxEdits = 1
INVARIANTS
  FlightHasLeader
  WokenMeansDecided
  FreshHit
PROPERTIES
  SubscribedWakes
CHECK_DEADLOCK FALSE
