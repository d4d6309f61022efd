SPECIFICATION Spec
CONSTANTS
  SEQNO_SPACE_SIZE = 8
  UINT16_SIZE = 32
  WinSize = 2
  MaxRequests = 2
  MaxData = 2
  InitSeq = 6
  RetryLimit = 2
  InactivityOn = TRUE
  ExpiryOn = TRUE
  TxopLimited = TRUE
INVARIANTS
  TypeOK
  OneResponseQueued
  NoReplyIsReset
  InOrderAtMostOnce
CHECK_DEADLOCK FALSE
