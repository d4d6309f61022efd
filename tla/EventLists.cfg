SPECIFICATION Spec
CONSTANTS
  None = None
  Delay = {0, 1, 3}
  MaxUid = 6
  RemoveFrom = {"list", "calendar"}
PROPERTIES
  ImplementsEventList
CHECK_DEADLOCK FALSE
