\* One mount racing two struct-pointer accesses.
CONSTANTS
  a1 = a1
  a2 = a2
  mnt = mnt
  Accessors <- MCAccessors
  Mounter = mnt
  Ptrs <- MCPtrs
  StSize = 2
  KAddrs <- MCKAddrs
  DaxRets <- MCDaxRets
  PageSize = 4
  AddrMod = 32
SPECIFICATION Spec
INVARIANT ClassifiedByAnnouncedRange
CHECK_DEADLOCK FALSE
