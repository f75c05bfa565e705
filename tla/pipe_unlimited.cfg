SPECIFICATION Spec
CONSTANTS
  N = 2
  MaxRequests = 0
  Tasks = {t1, t2, t3}
  Transport = "pipe"
SYMMETRY TaskSymmetry
INVARIANTS
  TypeOK
  SlotExclusive
  OnePermitPerIdle
PROPERTIES
  ImplementsSlotLease
