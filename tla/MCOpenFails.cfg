\* filp_open of a trace file fails.
CONSTANTS
  t1 = t1  t2 = t2  x = x  y = y  m = m
  NoThread = NoThread
  Threads <- ThreadsMC
  Locs <- LocsMC
  Mutexes <- MutexesMC
  Prog <- ProgSingle
  NVals = 2
  MaxSeq = 100
  OldSvStart = 1000
  MaxAllocFail = 0
  OpenMayFail = TRUE
SPECIFICATION Spec
INVARIANTS NoHostCrash
CHECK_DEADLOCK FALSE
