\* Lock-disciplined threads: the fence after mutex_unlock against the next holder.
CONSTANTS
  t1 = t1  t2 = t2  x = x  y = y  m = m
  NoThread = NoThread
  Threads <- ThreadsMC
  Locs <- LocsMC
  Mutexes <- MutexesMC
  Prog <- ProgLocked
  NVals = 2
  MaxSeq = 100
  OldSvStart = 1000
  MaxAllocFail = 0
  OpenMayFail = FALSE
SPECIFICATION Spec
INVARIANTS UnlockFenceBeforeNextHolder
CHECK_DEADLOCK FALSE
