SPECIFICATION RingSpec
CONSTANTS
  SEQNO_SPACE_SIZE = 8
  UINT16_SIZE = 32
  WinSize = 4
PROPERTIES
  ImplementsSlidingWindow
