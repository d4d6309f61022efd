SPECIFICATION Spec
CONSTANTS
  NTxop = 2
  Qos = {TRUE, FALSE}
  CwMin = 2
  CwMax = 3
  SIFS = 2
  SLOT = 2
  AckTx = 1
  FrameTx = 1
  AckWait = 6
  Safeguard = 1
  PhyHeader = 2
  RxTime = {1}
  CcaTime = {1}
  NavTime = {3}
  MaxTime = 12
  MaxInputs = 3
INVARIANTS
  TypeOK
  SlotsCounted
  WaitersHaveTimeout
  NoFrameStranded
  GrantedTransmits
CONSTANT Aifsn <- MCAifsn
CHECK_DEADLOCK FALSE
