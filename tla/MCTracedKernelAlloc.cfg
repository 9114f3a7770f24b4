\* One thread running every instruction kind and every call and inline asm
\* the first pass dispatches; one GFP_ATOMIC allocation may fail.
CONSTANTS
  t1 = t1  t2 = t2  x = x  y = y  m = m
  NoThread = NoThread
  Threads <- ThreadOne
  Locs <- LocsMC
  Mutexes <- MutexesMC
  Prog <- ProgAllKinds
  NVals = 2
  MaxSeq = 100
  OldSvStart = 1000
  MaxAllocFail = 1
  OpenMayFail = FALSE
SPECIFICATION Spec
INVARIANTS SeqUnique PreImageFaithful EverySeqAccounted DbgUsesRecorded SecondPassVisitsEachCallOnce RecordIdsResolve
CHECK_DEADLOCK FALSE
