SPECIFICATION Spec
CONSTANTS
  Event = {e1, e2, e3}
  MaxDelay = 1
  MaxUid = 8
  UINT32_SIZE = 16
INVARIANTS
  TypeOK
  RunInOrder
  ExpiredIffGone
  NotBeforeDue
SYMMETRY EventSymmetry
CHECK_DEADLOCK FALSE
