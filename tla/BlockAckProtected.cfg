SPECIFICATION Spec
CONSTANTS
  SEQNO_SPACE_SIZE = 16
  UINT16_SIZE = 64
  WinSize = 2
  MaxMsdu = 4
  InitSeq = 2
  Lag = 1
  MaxAmpdu = 2
  ExplicitBar = {TRUE, FALSE}
  UseRts = TRUE
INVARIANTS
  OutstandingInWindow
PROPERTIES
  GivenUpIsAnnounced
  ImplementsOrderedDelivery
CHECK_DEADLOCK FALSE
