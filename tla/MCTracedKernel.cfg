\* Lock-disciplined threads, reliable file opens, no allocation failure.
CONSTANTS
  t1 = t1  t2 = t2  x = x  y = y  m = m
  NoThread = NoThread
  Threads <- ThreadsMC
  Locs <- LocsMC
  Mutexes <- MutexesMC
  Prog <- ProgLocked
  NVals = 2
  MaxSeq = 100
  OldSvStart = 1000
  MaxAllocFail = 0
  OpenMayFail = FALSE
SPECIFICATION Spec
INVARIANTS TypeOK SeqUnique StoreOrderFollowsSeq PreImageFaithful EverySeqAccounted CriticalSectionsDisjoint
PROPERTIES Termination TraceLogRefined
CHECK_DEADLOCK FALSE
