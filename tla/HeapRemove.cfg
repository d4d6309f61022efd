SPECIFICATION Spec
CONSTANTS
  None = None
  Delay = {0, 1, 3}
  MaxUid = 7
  RemoveFrom = {"heap"}
PROPERTIES
  ImplementsEventList
CHECK_DEADLOCK FALSE
