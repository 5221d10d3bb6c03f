SPECIFICATION FairSpec
CONSTANTS
  Procs = {p1}
  Workers = {w1}
  Main = main
  None = none
PROPERTIES CallbackEnds CommandEnds ExitEnds UnloadEnds
CHECK_DEADLOCK FALSE
