\* Both trace files written with every kernel_write succeeding, one
\* allocation failure, values up to the size limit and one past it.
CONSTANTS
  MaxSvBuf = 2
  WbufCap = 4
  MaxLine = 4
  DataBytes = {0, 7}
  MaxEvents = 4
  MaxAllocFail = 1
  MaxWriteFail = 0
SPECIFICATION Spec
INVARIANTS TypeOK EventFileRoundTrip SvFileRoundTrip
CHECK_DEADLOCK FALSE
