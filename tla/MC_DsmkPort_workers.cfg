SPECIFICATION Spec
CONSTANTS
  Procs = {p1}
  Workers = {w1, w2}
  Main = main
  None = none
SYMMETRY Symmetry
INVARIANTS RequestsAreInHand
PROPERTIES ReplyToItsRequest
CHECK_DEADLOCK FALSE
