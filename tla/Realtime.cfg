SPECIFICATION FairSpec
CONSTANTS
  e1 = e1
  e2 = e2
  Event = {e1, e2}
  MaxDelay = 2
  Horizon = 4
  MaxRuns = 1
  Epoch = 1
  SPIN = 1
  IDLE = 2
  HARD_LIMIT = 1
INVARIANTS
  TypeOK
  NoLostWakeup
  Paced
  NoAssertionFails
  StopIsSoon
PROPERTIES
  RunInOrder
  EventsAreRun
  StopReturns
CHECK_DEADLOCK FALSE
