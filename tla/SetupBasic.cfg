SPECIFICATION FairSpec
CONSTANTS
  SEQNO_SPACE_SIZE = 8
  UINT16_SIZE = 32
  WinSize = 2
  MaxRequests = 2
  MaxData = 3
  InitSeq = 1
  RetryLimit = 2
  InactivityOn = FALSE
  ExpiryOn = FALSE
  TxopLimited = FALSE
INVARIANTS
  PendingIsWaiting
  EndsAgree
PROPERTIES
  ResetAfterNoReply
  Unblocked
CHECK_DEADLOCK FALSE
