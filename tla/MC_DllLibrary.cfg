SPECIFICATION FairSpec
CONSTANTS
  Threads = {t1, t2}
  NrOfDllConnThreads = 1
  MaxEvents = 3
INVARIANTS TypeOK HandlesOutliveThreads
PROPERTIES UninitializeEnds UninitializeEndsWithTraffic LeakedForGood
CHECK_DEADLOCK FALSE
