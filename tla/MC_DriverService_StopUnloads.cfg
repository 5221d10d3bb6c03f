SPECIFICATION Spec
CONSTANTS
  Clients = {c1}
  None = none
PROPERTIES StopUnloads
CHECK_DEADLOCK FALSE
