SPECIFICATION Spec
CONSTANTS
  Callers = {c1, c2}
  Procs = {p1}
PROPERTIES AlreadyMeansRegistered
CHECK_DEADLOCK FALSE
