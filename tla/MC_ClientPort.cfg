SPECIFICATION Spec
CONSTANTS
  Clients = {c1, c2, c3, c4}
  None = none
SYMMETRY Symmetry
INVARIANTS TypeOK ClosedOnce NoPortLeaks
PROPERTIES LinkUntilCrossed LostUntilItLeaves
CHECK_DEADLOCK FALSE
