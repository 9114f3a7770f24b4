\* Texts longer than the buffer holds after the prefix.
CONSTANTS
  BufSize = 8
  PrefixLen = 3
  MaxText = 7
  MaxRecords = 2
SPECIFICATION Spec
INVARIANTS OneLinePerRecord
CHECK_DEADLOCK FALSE
