SPECIFICATION Spec
CONSTANTS
  N = 2
  MaxRequests = 1
  Tasks = {t1, t2}
  Transport = "channel"
SYMMETRY TaskSymmetry
INVARIANTS
  NoLostSlot
