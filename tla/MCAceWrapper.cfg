\* CmWriteData with 4-byte blocks in a 16-byte unsigned space; short
\* writes of every length and one failing pwrite.
CONSTANTS
  DataSize = 4
  UIntMod = 16
  Requests <- RequestsMC
  MaxFails = 1
SPECIFICATION Spec
INVARIANTS TypeOK  WritesPrefixOfRange
PROPERTIES Termination
CHECK_DEADLOCK FALSE
