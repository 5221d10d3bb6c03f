SPECIFICATION Spec
CONSTANTS
  Callers = {c1, c2, c3}
  Procs = {p1, p2}
SYMMETRY Symmetry
INVARIANTS TypeOK
PROPERTIES SwitchUntilOverlap OrphanedForEver
CHECK_DEADLOCK FALSE
