SPECIFICATION FairSpec
CONSTANTS
  SEQNO_SPACE_SIZE = 16
  UINT16_SIZE = 64
  WinSize = 3
  MaxMsdu = 4
  InitSeq = 14
  Lag = 0
  MaxAmpdu = 3
  ExplicitBar = {TRUE}
  UseRts = FALSE
INVARIANTS
  TypeOK
  ReceivedWithinWindow
  OutstandingTracked
PROPERTIES
  ImplementsOrderedDelivery
  InFlightResolved
  BufferedIsPassedUp
CHECK_DEADLOCK FALSE
