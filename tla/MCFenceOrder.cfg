\* The implicit fence placed before an atomic compare-and-exchange.
CONSTANTS
  t1 = t1  t2 = t2  x = x  y = y  m = m
  NoThread = NoThread
  Threads <- ThreadsMC
  Locs <- LocsMC
  Mutexes <- MutexesMC
  Prog <- ProgSingle
  NVals = 2
  MaxSeq = 100
  OldSvStart = 1000
  MaxAllocFail = 0
  OpenMayFail = FALSE
SPECIFICATION Spec
INVARIANTS FenceBeforeAtomic
CHECK_DEADLOCK FALSE
