SPECIFICATION Spec
CONSTANTS
  Clients = {c1}
  None = none
PROPERTIES UnloadRoutineCleans
CHECK_DEADLOCK FALSE
