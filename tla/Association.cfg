SPECIFICATION FairSpec
CONSTANTS
  a1 = a1
  a2 = a2
  Ap = {a1, a2}
  NoAp = NoAp
  MayRefuse = {a2}
  Busy = {a1}
  MaxAid = 2
  StaQueueSize = 1
  ApQueueSize = 2
  MaxEnds = 2
INVARIANTS
  TypeOK
  TimersCarryOn
  AidAgreement
PROPERTIES
  NeverStuck
CHECK_DEADLOCK FALSE
