SPECIFICATION Spec
CONSTANTS
  Procs = {p1, p2}
  Workers = {w1}
  Main = main
  None = none
SYMMETRY Symmetry
INVARIANTS TypeOK DenialOnlyIfKilled UnloadSafeWhenOff NoClientAfterUnload
PROPERTIES KillTakesEffect ImplementsGate ImplementsSwitch ImplementsLink
CHECK_DEADLOCK FALSE
