SPECIFICATION Spec
CONSTANTS
  Scans = {s1}
  Workers = {w1}
  Files <- MCFiles
  Rests <- MCRests
  BufferSize = 3
  SectorSizes = {1}
  None = none
INVARIANTS RefusesFoulLanguage
CHECK_DEADLOCK FALSE
