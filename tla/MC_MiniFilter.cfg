SPECIFICATION FairSpec
CONSTANTS
  Volumes = {v1}
  Ops = {o1, o2}
  Names = {n1}
  Scans = {s1}
  Workers = {w1}
  Contents <- MCContents
  Rests <- MCRests
  BufferSize = 2
  SectorSizes = {1, 3}
  None = none
INVARIANTS TypeOK NamesBalanced StopsOnlyUnnamed FailedScanIsSafe VerdictIsForItsFront UnloadAsksNobody
PROPERTIES DetachEnds UnloadEnds
CHECK_DEADLOCK FALSE
