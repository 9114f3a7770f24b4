\* A load whose own result is a struct debug variable, loaded through a pointer no debug intrinsic describes.
CONSTANTS
  t1 = t1  t2 = t2  x = x  y = y  m = m
  NoThread = NoThread
  Threads <- ThreadOne
  Locs <- LocsMC
  Mutexes <- MutexesMC
  Prog <- ProgDbgLoad
  NVals = 2
  MaxSeq = 100
  OldSvStart = 1000
  MaxAllocFail = 0
  OpenMayFail = FALSE
SPECIFICATION Spec
INVARIANT DbgUsesRecorded
CHECK_DEADLOCK FALSE
